---------------------------- MODULE FabArrayComm ----------------------------
(***************************************************************************)
(* The exchanges of FabArray (Src/Base/AMReX_FabArrayBase.cpp,             *)
(* AMReX_FabArrayCommI.H, AMReX_FBI.H, AMReX_PCI.H): FillBoundary,         *)
(* EnforcePeriodicity, OverrideSync and FillBoundaryAndSync, SumBoundary,  *)
(* ParallelCopy.                                                           *)
(*                                                                         *)
(* Every rank builds the list of what it sends to whom and the list of     *)
(* what it receives from whom, each from the boxes alone and each by its   *)
(* own loop.  A message has no other description than these lists: the     *)
(* receiver cuts it by its own.  All ranks make the same calls (SPMD), as  *)
(* fast as they can; messages are told apart by a number that every call   *)
(* draws, and by their order.                                              *)
(*                                                                         *)
(* One component stands for all; teams, extra ghost nodes (multi_ghost),   *)
(* components in several passes and GPU kernels are left out.  That the    *)
(* lists in the cache are those of the boxes is FabArrayCache's matter.    *)
(***************************************************************************)
EXTENDS Boxes

CONSTANTS
  Jobs,             \* FabArrays, calls, and the order in which all ranks make them
  MaxProcs, MinTag, MaxTag,
  Unbounded         \* bound: stands for the ends of int in Periodicity::Domain

ASSUME TagAssumption == MinTag \in Nat /\ MaxTag \in Nat /\ MinTag <= MaxTag
ASSUME UnboundedAssumption == Unbounded \in Nat \ {0}

VARIABLES
  job,              \* what the program is: [fabs, calls, script, nprocs]
  data,             \* of every FabArray, box and point
  pos, step,        \* where each rank is in the script, and in a finish
  seqnum,           \* Frame::m_mpi_tag of each rank
  posted, sent,     \* receives and sends between two ranks, in the order they were started
  snap              \* history: the data that each rank had when it made a call

vars == <<job, data, pos, step, seqnum, posted, sent, snap>>

Procs == 0..job.nprocs-1
Calls == DOMAIN job.calls

(***************************************************************************)
(* What a call says.                                                       *)
(***************************************************************************)
\* A FabArray is its number, its boxes and their ranks, and its ghost cells.
DstBA(c) == c.dst.ba
SrcBA(c) == c.src.ba
DstDM(c) == c.dst.dm
SrcDM(c) == c.src.dm

Domain(c) == PDomain(c.period, DstBA(c).type, Unbounded)

RcvGrow(c) == c.nghost
SndGrow(c) == CASE c.kind \in {"fb", "os"} -> Zero
                [] c.kind = "epo" -> c.nghost
                [] c.kind \in {"sb", "pc"} -> c.snghost

ShiftGrow(c) ==
  IF c.kind = "sb" THEN [i \in Dirs |-> Larger(c.nghost[i], c.snghost[i])] ELSE c.nghost

\* From a source to its destination; what the receivers' loops add goes back from there.
Shifts(c) == {Plus(s, c.offset) : s \in shiftIntVect(c.period, ShiftGrow(c))}
Backs(c)  == IF c.kind = "pc" THEN {Minus(Zero, s) : s \in Shifts(c)} ELSE Shifts(c)

Op(c) == CASE c.kind = "sb" -> "ADD" [] c.kind = "pc" -> c.op [] OTHER -> "COPY"

(***************************************************************************)
(* CommMetaData: define_fb_metadata, define_epo, define_sb, CPC::define.   *)
(***************************************************************************)
Tag(dbox, sbox, dst, src) == [dbox |-> dbox, sbox |-> sbox, dst |-> dst, src |-> src]

SndBox(c, ks) ==
  LET b == Grow(BoxOf(SrcBA(c), ks), SndGrow(c))
  IN IF c.kind = "epo" THEN Meet(b, Domain(c)) ELSE b

\* A box is no source of its own, with "epo" nothing is without a shift.
Skipped(c, ks, kr, s) ==
  \/ c.kind = "epo" /\ s = Zero
  \/ c.kind = "sb" /\ ks = kr /\ s = Zero

\* The parts of an intersection that are exchanged.
Kept(c, kr, b) ==
  CASE c.kind = "fb" \/ (c.kind = "pc" /\ c.tgco) -> boxDiff(b, BoxOf(DstBA(c), kr))
    [] c.kind = "epo" -> boxDiff(b, Domain(c))
    [] OTHER -> {b}

SendTagsTo(c, ks, s) ==
  LET to == Shift(SndBox(c, ks), s) IN
  UNION {{Tag(b, Shift(b, Minus(Zero, s)), kr, ks) :
            b \in Kept(c, kr, Meet(to, Grow(BoxOf(DstBA(c), kr), RcvGrow(c))))} :
         kr \in {kr \in Found(DstBA(c), to, RcvGrow(c)) : ~Skipped(c, ks, kr, s)}}

SendTags(c, ks) ==
  IF Ok(SndBox(c, ks)) THEN UNION {SendTagsTo(c, ks, s) : s \in Shifts(c)} ELSE {}

\* With "epo" the source has to be inside of the periodic domain.
Source(c, b, s) == IF c.kind = "epo" THEN Meet(Shift(b, s), Domain(c)) ELSE Shift(b, s)

RecvTagsFrom(c, kr, s) ==
  LET from == Shift(Grow(BoxOf(DstBA(c), kr), RcvGrow(c)), s)
      back == Minus(Zero, s)
      DstBox(ks) == Shift(Meet(from, Grow(BoxOf(SrcBA(c), ks), SndGrow(c))), back)
  IN UNION {{Tag(Shift(Source(c, b, s), back), Source(c, b, s), kr, ks) :
               b \in {b \in Kept(c, kr, DstBox(ks)) : Ok(Source(c, b, s))}} :
            ks \in {ks \in Found(SrcBA(c), from, SndGrow(c)) : ~Skipped(c, ks, kr, s)}}

RecvTags(c, kr) == UNION {RecvTagsFrom(c, kr, s) : s \in Backs(c)}

\* CopyComTag::operator<
TagLess(t, u) ==
  \/ t.src < u.src
  \/ t.src = u.src /\ Less(t.sbox.lo, u.sbox.lo)
  \/ t.src = u.src /\ t.sbox.lo = u.sbox.lo /\ t.dst < u.dst
  \/ t.src = u.src /\ t.sbox.lo = u.sbox.lo /\ t.dst = u.dst /\ Less(t.dbox.lo, u.dbox.lo)

Sorted(S) == Ordered(S, TagLess)

\* cross: only what lies beside the box, direction by direction; unless nothing would be left.
CrossParts(c, t) ==
  LET valid == BoxOf(DstBA(c), t.dst)
      Side(i) == <<[valid EXCEPT !.lo[i] = @ - c.nghost[i], !.hi[i] = valid.lo[i] - 1],
                   [valid EXCEPT !.lo[i] = valid.hi[i] + 1, !.hi[i] = @ + c.nghost[i]]>>
      sides   == FlattenSeq([i \in Dirs |-> Side(i)])
      parts   == SelectSeq([j \in DOMAIN sides |-> Meet(sides[j], t.dbox)], Ok)
      d2s     == Minus(t.sbox.lo, t.dbox.lo)
  IN [j \in DOMAIN parts |-> Tag(parts[j], Shift(parts[j], d2s), t.dst, t.src)]

Crossed(c, tags) ==
  LET parts == FlattenSeq([j \in DOMAIN tags |-> CrossParts(c, tags[j])])
  IN IF c.cross /\ parts # <<>> THEN parts ELSE tags

(***************************************************************************)
(* FB::tag_one_box: a point of several boxes, periodic images included,    *)
(* comes from the first of them.  The parts of one intersection are sorted *)
(* here, in the code they are as boxDiff makes them: it is one order, the  *)
(* same on both sides, and no part meets another.                          *)
(***************************************************************************)
Isects3(c, kr) ==
  LET gbx    == Grow(BoxOf(DstBA(c), kr), c.nghost)
      shifts == ShiftSeq(c.period, c.nghost)
      At(s)  == LET found == FoundSeq(DstBA(c), Shift(gbx, s), Zero)
                IN [j \in DOMAIN found |->
                      [src |-> found[j], shift |-> s,
                       dbox |-> Shift(Meet(Shift(gbx, s), BoxOf(DstBA(c), found[j])),
                                      Minus(Zero, s))]]
  IN SelectSeq(FlattenSeq([j \in DOMAIN shifts |-> At(shifts[j])]),
               LAMBDA a : a.src # kr \/ a.shift # Zero)

Precedes(k, s, l, t) == k < l \/ (k = l /\ Less(s, t))

Remains(c, kr, a, isects3) ==
  LET before == SelectSeq(isects3, LAMBDA o : /\ Precedes(o.src, o.shift, a.src, a.shift)
                                              /\ Ok(Meet(o.dbox, a.dbox)))
      all == IF Precedes(a.src, a.shift, kr, Zero) THEN {a.dbox}
             ELSE boxDiff(a.dbox, BoxOf(DstBA(c), kr))
  IN FoldLeft(LAMBDA bl, o : UNION {boxDiff(b, o.dbox) : b \in bl}, all, before)

TagOneBox(c, kr) ==
  LET isects3 == Isects3(c, kr)
      Tags(a) == Sorted({Tag(b, Shift(b, a.shift), kr, a.src) : b \in Remains(c, kr, a, isects3)})
  IN FlattenSeq([j \in DOMAIN isects3 |-> Tags(isects3[j])])

TagBoxes(c, S) ==
  LET ks == Ordered(S, <) IN FlattenSeq([j \in DOMAIN ks |-> TagOneBox(c, ks[j])])

\* Whose tags a sender builds, in their place.
my_receiver(c, r) ==
  UNION {{kr \in Found(DstBA(c), Shift(BoxOf(DstBA(c), ks), s), c.nghost) : kr # ks \/ s # Zero} :
           ks \in {ks \in Indices(DstBA(c)) : DstDM(c)[ks] = r},
           s \in shiftIntVect(c.period, c.nghost)}

(***************************************************************************)
(* What rank r sends to d, receives from s, and copies itself.             *)
(***************************************************************************)
SrcOf(c, r) == {k \in Indices(SrcBA(c)) : SrcDM(c)[k] = r}
DstOf(c, r) == {k \in Indices(DstBA(c)) : DstDM(c)[k] = r}

\* What the loops of both sides find for two ranks.
Outgoing(c, r, d) == {t \in UNION {SendTags(c, ks) : ks \in SrcOf(c, r)} : DstDM(c)[t.dst] = d}
Incoming(c, r, s) == {t \in UNION {RecvTags(c, kr) : kr \in DstOf(c, r)} : SrcDM(c)[t.src] = s}

\* With "os" tags are not sorted: their order is that of isects3.
FirstOf(c, S, s, d) ==
  SelectSeq(TagBoxes(c, S), LAMBDA t : SrcDM(c)[t.src] = s /\ DstDM(c)[t.dst] = d)

SndTags_NotSorted(c, r, d) ==
  IF c.kind = "os" THEN FirstOf(c, my_receiver(c, r), r, d)
  ELSE Crossed(c, Ordered(Outgoing(c, r, d),
                          LAMBDA t, u : t.dst < u.dst \/ (t.dst = u.dst /\ TagLess(t, u))))

SndTags(c, r, d) ==
  IF c.kind = "os" THEN FirstOf(c, my_receiver(c, r), r, d)
  ELSE Crossed(c, Sorted(Outgoing(c, r, d)))

RcvTags(c, r, s) ==
  IF c.kind = "os" THEN FirstOf(c, DstOf(c, r), s, r) ELSE Crossed(c, Sorted(Incoming(c, r, s)))

LocTags(c, r) ==
  IF c.kind = "os" THEN FirstOf(c, DstOf(c, r), r, r) ELSE Sorted(Incoming(c, r, r))

(***************************************************************************)
(* Buffers: the points of the tags one after the other.                    *)
(***************************************************************************)
Torn == -1   \* no value that a point can have

Cells(tags, Box_(_), Fab(_)) ==
  FlattenSeq([j \in DOMAIN tags |->
    LET ps == PointSeq(Box_(tags[j])) IN [m \in DOMAIN ps |-> <<Fab(tags[j]), ps[m]>>]])

SrcCells(tags) == Cells(tags, LAMBDA t : t.sbox, LAMBDA t : t.src)
DstCells(tags) == Cells(tags, LAMBDA t : t.dbox, LAMBDA t : t.dst)

Pack(fab, cells) == [j \in DOMAIN cells |-> fab[cells[j][1]][cells[j][2]]]

\* The values of a buffer put at cells, or added there: of copies to the same point the last stays.
Unpack(fab, cells, buffer, op) ==
  [k \in DOMAIN fab |-> [p \in DOMAIN fab[k] |->
    LET js == {j \in DOMAIN cells : cells[j] = <<k, p>>} IN
    IF js = {} THEN fab[k][p]
    ELSE IF op = "ADD" THEN fab[k][p] + MapThenSumSet(LAMBDA j : buffer[j], js)
    ELSE buffer[Max(js)]]]

\* Avoid self copy or plus: what ParallelCopy of a FabArray into itself would put where it is.  The
\* same holds where it returns early, of one box on one rank or of equal layouts.
InPlace(c, t) == c.kind = "pc" /\ c.dst.id = c.src.id /\ t.dst = t.src /\ t.sbox = t.dbox

\* FB_local_add has temporaries, PC_local mostly another FabArray to read from.  FB_local_copy has
\* neither: a point that it reads and also writes has no certain value.
LocalWork(c, all) ==
  LET tags == SelectSeq(all, LAMBDA t : ~InPlace(c, t))
      from == SrcCells(tags)
      to   == DstCells(tags)
      old  == Pack(data[c.src.id], from)
      read == IF c.kind = "sb" \/ c.dst.id # c.src.id THEN old
              ELSE [j \in DOMAIN old |-> IF from[j] \in ToSet(to) THEN Torn ELSE old[j]]
  IN Unpack(data[c.dst.id], to, read, Op(c))

(***************************************************************************)
(* FBEP_nowait, ParallelCopy_nowait, and what their callers look at first. *)
(***************************************************************************)
Item(r)  == job.script[pos[r]]
Call(r)  == job.calls[Item(r).call]
Making(r, what) == pos[r] \in DOMAIN job.script /\ Item(r).do = what

work_to_do(c) ==
  LET anyghost == \E i \in Dirs : c.nghost[i] > 0
  IN CASE c.kind = "epo" -> isAnyPeriodic(c.period)
       [] c.kind = "os"  -> anyghost \/ ~cellCentered(DstBA(c))
       [] c.kind = "sb"  -> c.dst.ngrow # Zero \/ ~cellCentered(DstBA(c))
       [] c.kind = "fb"  -> anyghost
       [] c.kind = "pc"  -> TRUE

\* ParallelCopy between two FabArrays that have the same boxes on the same ranks.
short_circuit(c) ==
  /\ c.kind = "pc" /\ (cellCentered(SrcBA(c)) \/ c.op = "COPY")
  /\ DstBA(c) = SrcBA(c) /\ DstDM(c) = SrcDM(c) /\ c.nghost = Zero /\ c.snghost = Zero
  /\ ~isAnyPeriodic(c.period) /\ ~c.tgco /\ c.offset = Zero

SameBoxTags(c, r) ==
  LET mine == Ordered(DstOf(c, r), <) IN
  [j \in DOMAIN mine |-> Tag(BoxOf(DstBA(c), mine[j]), BoxOf(DstBA(c), mine[j]), mine[j], mine[j])]

NextTag(t) == IF t < MaxTag THEN t + 1 ELSE MinTag

Others(r) == Procs \ {r}

HasWork(c, r) ==
  LocTags(c, r) # <<>> \/ \E q \in Others(r) : SndTags(c, r, q) # <<>> \/ RcvTags(c, r, q) # <<>>

Draws_IfWork(c, r) == work_to_do(c) /\ ~short_circuit(c) /\ job.nprocs > 1 /\ HasWork(c, r)

\* The calls that draw a number do so on every rank, whether it has work or not.
Draws(c, r) == work_to_do(c) /\ ~short_circuit(c) /\ job.nprocs > 1

DoLocally(c, tags) ==
  /\ data' = [data EXCEPT ![c.dst.id] = LocalWork(c, tags)]
  /\ UNCHANGED <<posted, sent>>

Exchange(r) ==
  LET c   == Call(r)
      snd == [d \in Others(r) |-> SndTags(c, r, d)]
      rcv == [s \in Others(r) |-> RcvTags(c, r, s)]
      Receive(tags) == [tag |-> seqnum[r], call |-> Item(r).call, tags |-> tags]
      Message(tags) == [tag |-> seqnum[r], call |-> Item(r).call, tags |-> tags,
                        values |-> Pack(data[c.src.id], SrcCells(tags))]
  IN /\ posted' = [e \in DOMAIN posted |->
          IF e[2] = r /\ e[1] # r /\ rcv[e[1]] # <<>>
          THEN Append(posted[e], Receive(rcv[e[1]])) ELSE posted[e]]
     /\ sent' = [e \in DOMAIN sent |->
          IF e[1] = r /\ e[2] # r /\ snd[e[2]] # <<>>
          THEN Append(sent[e], Message(snd[e[2]])) ELSE sent[e]]
     /\ data' = [data EXCEPT ![c.dst.id] = LocalWork(c, LocTags(c, r))]

\* What the rank's own boxes hold, for the properties.
Remember(r) ==
  snap' = [snap EXCEPT ![Item(r).call] = [f \in DOMAIN @ |-> [k \in DOMAIN @[f] |->
             IF job.fabs[f].dm[k] = r THEN data[f][k] ELSE @[f][k]]]]

\* The control of a call: when it goes on, and where to.
NowaitTurn(r) == Making(r, "nowait") /\ pos' = [pos EXCEPT ![r] = @ + 1] /\ UNCHANGED step

Nowait(r) ==
  LET c == Call(r) IN
  /\ NowaitTurn(r)
  /\ Remember(r)
  /\ seqnum' = [seqnum EXCEPT ![r] = IF Draws(c, r) THEN NextTag(@) ELSE @]
  /\ IF Draws(c, r) /\ HasWork(c, r) THEN Exchange(r)
     ELSE IF Draws(c, r) \/ ~work_to_do(c) THEN UNCHANGED <<data, posted, sent>>
     ELSE DoLocally(c, IF short_circuit(c) THEN SameBoxTags(c, r) ELSE LocTags(c, r))
  /\ UNCHANGED job

(***************************************************************************)
(* FillBoundary_finish, ParallelCopy_finish.                               *)
(***************************************************************************)
\* MPI: the n-th receive with a tag gets the n-th message with it.
Nth(q, i)  == Cardinality({j \in 1..i : q[j].tag = q[i].tag})
Matches(p, i, q, j) == p[i].tag = q[j].tag /\ Nth(p, i) = Nth(q, j)

Arrived(e, i) == {j \in DOMAIN sent[e] : Matches(posted[e], i, sent[e], j)}
Taken(e, j)   == \E i \in DOMAIN posted[e] : Matches(posted[e], i, sent[e], j)

\* The receives of a call.
Receives(r, call) ==
  {ei \in {<<s, r>> : s \in Others(r)} \X (1..Len(job.script)) :
     ei[2] \in DOMAIN posted[ei[1]] /\ posted[ei[1]][ei[2]].call = call}

RecvTurn(r) ==
  /\ Making(r, "finish") /\ step[r] = "recv"
  /\ \A ei \in Receives(r, Item(r).call) : Arrived(ei[1], ei[2]) # {}
  /\ step' = [step EXCEPT ![r] = "send"] /\ UNCHANGED pos

FinishRecv(r) ==
  /\ RecvTurn(r)
  /\ LET order  == Ordered(Receives(r, Item(r).call), LAMBDA a, b : a[1][1] < b[1][1])
         cells  == [n \in DOMAIN order |-> DstCells(posted[order[n][1]][order[n][2]].tags)]
         Message(ei) == sent[ei[1]][CHOOSE j \in Arrived(ei[1], ei[2]) : TRUE].values
         buffer == [n \in DOMAIN order |-> [m \in DOMAIN cells[n] |->
                      IF m \in DOMAIN Message(order[n]) THEN Message(order[n])[m] ELSE Torn]]
     IN data' = [data EXCEPT ![Call(r).dst.id] =
                   Unpack(@, FlattenSeq(cells), FlattenSeq(buffer), Op(Call(r)))]
  /\ UNCHANGED <<job, seqnum, posted, sent, snap>>

\* A send may last until its receive has been started.
SendTurn(r) ==
  /\ Making(r, "finish") /\ step[r] = "send"
  /\ \A d \in Others(r) : \A j \in DOMAIN sent[<<r, d>>] :
       sent[<<r, d>>][j].call = Item(r).call => Taken(<<r, d>>, j)
  /\ step' = [step EXCEPT ![r] = "recv"] /\ pos' = [pos EXCEPT ![r] = @ + 1]

FinishSend(r) ==
  /\ SendTurn(r)
  /\ UNCHANGED <<job, data, seqnum, posted, sent, snap>>

Ended == \A r \in Procs : pos[r] > Len(job.script)

(***************************************************************************)
(* Every point of every box has a value of its own.                        *)
(***************************************************************************)
FabBox(f, k)    == Grow(BoxOf(f.ba, k), f.ngrow)
FabPoints(f, k) == Points(FabBox(f, k))
Place(f, k, p)  == CHOOSE j \in DOMAIN PointSeq(FabBox(f, k)) : PointSeq(FabBox(f, k))[j] = p

Init ==
  /\ job \in Jobs
  /\ data = [f \in DOMAIN job.fabs |-> [k \in Indices(job.fabs[f].ba) |->
               [p \in FabPoints(job.fabs[f], k) |-> 10000 * f + 1000 * k + Place(job.fabs[f], k, p)]]]
  /\ pos = [r \in Procs |-> 1] /\ step = [r \in Procs |-> "recv"]
  /\ seqnum = [r \in Procs |-> MinTag]
  /\ posted = [e \in Procs \X Procs |-> <<>>] /\ sent = posted
  /\ snap = [i \in Calls |-> [f \in {job.calls[i].dst.id, job.calls[i].src.id} |->
               [k \in Indices(job.fabs[f].ba) |-> <<>>]]]

Next == \E r \in Procs : Nowait(r) \/ FinishRecv(r) \/ FinishSend(r)

\* A rank that can go on does.
Turn(r) == r \in Procs /\ (NowaitTurn(r) \/ RecvTurn(r) \/ SendTurn(r))

Spec == Init /\ [][Next]_vars /\ \A r \in 0..MaxProcs-1 : WF_<<pos, step>>(Turn(r))

(***************************************************************************)
(* What the calls promise (AMReX_FabArray.H), in terms of the points.      *)
(***************************************************************************)
\* The points of b that are p, or periodic images of p.
Images(b, p, period) ==
  LET X(i) == {x \in b.lo[i]..b.hi[i] :
                 IF period[i] = 0 THEN x = p[i] ELSE (x - p[i]) % period[i] = 0}
  IN IF \E i \in Dirs : X(i) = {} THEN {}
     ELSE {q \in [Dirs -> UNION {X(i) : i \in Dirs}] : \A i \in Dirs : q[i] \in X(i)}

\* Where a point's value may come from.
Sources(c, p) ==
  UNION {{k} \X Images(SndBox(c, k), Minus(p, c.offset), c.period) : k \in Indices(SrcBA(c))}

\* The values at the time when their owners made call i.
Was(i, f, kq) == snap[i][f][kq[1]][kq[2]]

\* The points of box k that call c is to fill.
Outside(p, b) == {d \in Dirs : p[d] < b.lo[d] \/ b.hi[d] < p[d]}

Filled(c, k, p) ==
  /\ In(p, Grow(BoxOf(DstBA(c), k), c.nghost))
  /\ CASE c.kind = "fb"  -> LET n == Cardinality(Outside(p, BoxOf(DstBA(c), k)))
                            IN n > 0 /\ (c.cross => n = 1)
       [] c.kind = "epo" -> Outside(p, Domain(c)) # {}
       [] c.kind = "pc"  -> c.tgco => Outside(p, BoxOf(DstBA(c), k)) # {}
       [] OTHER -> TRUE

\* What call i is to leave at point p of box k.
Promised(i, k, p) ==
  LET c   == job.calls[i]
      src == Sources(c, p)
      old == Was(i, c.dst.id, <<k, p>>)
      First(S) == CHOOSE a \in S : \A b \in S : a = b \/ Precedes(a[1], a[2], b[1], b[2])
  IN IF c.cross /\ Cardinality(Outside(p, BoxOf(DstBA(c), k))) > 1
     THEN {old} \union {Was(i, c.src.id, a) : a \in src}
     ELSE IF src = {} \/ ~Filled(c, k, p) THEN {old}
     ELSE IF c.kind = "os" THEN {Was(i, c.src.id, First(src))}
     ELSE IF Op(c) = "ADD"
     THEN {old + MapThenSumSet(LAMBDA a : Was(i, c.src.id, a),
                               src \ (IF c.dst.id = c.src.id THEN {<<k, p>>} ELSE {}))}
     ELSE {Was(i, c.src.id, a) : a \in src}

\* Whatever the layout of the boxes and ranks, when an exchange is finished every point has what the
\* kind of exchange promises (the value of a source, of the first source, the sum of all sources),
\* with the values of the time of the call, and all others have what they had.
ExchangeTrue ==
  \A r \in Procs : Making(r, "finish") /\ step[r] = "send" =>
    \A k \in DstOf(Call(r), r) : \A p \in FabPoints(Call(r).dst, k) :
      data[Call(r).dst.id][k][p] \in Promised(Item(r).call, k, p)

\* A message and the receive it is matched with are of the same call and have the same boxes in
\* the same order: what the two sides built on their own agrees.
MessagesMatch ==
  \A e \in Procs \X Procs : \A i \in DOMAIN posted[e], j \in DOMAIN sent[e] :
    Matches(posted[e], i, sent[e], j) =>
      posted[e][i].call = sent[e][j].call /\ posted[e][i].tags = sent[e][j].tags

\* Every exchange ends on every rank, also when sends wait for their receivers.
ExchangesEnd == <>[]Ended
=============================================================================
