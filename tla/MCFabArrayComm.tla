--------------------------- MODULE MCFabArrayComm ---------------------------
(* Layouts, calls and orders of calls for TLC.                             *)
EXTENDS FabArrayComm, TLC

B(lo, hi) == [lo |-> lo, hi |-> hi]

Quarters == <<B(<<0,0>>, <<1,1>>), B(<<2,0>>, <<3,1>>), B(<<0,2>>, <<1,3>>), B(<<2,2>>, <<3,3>>)>>
Uneven   == <<B(<<0,0>>, <<2,3>>), B(<<3,0>>, <<3,1>>), B(<<3,2>>, <<3,3>>)>>
Strips   == <<B(<<-2,-2>>, <<1,-1>>), B(<<-2,0>>, <<1,2>>), B(<<4,4>>, <<4,4>>)>>

Cell  == <<0, 0>>
Face  == <<1, 0>>
Node  == <<1, 1>>
One   == <<1, 1>>
Wide  == <<2, 1>>
Apart == <<0, 0>>
Pipe  == <<4, 0>>
Torus == <<4, 4>>

Fab(boxes, type, dm, g) == [ba |-> [abox |-> boxes, type |-> type], dm |-> dm, ngrow |-> g]

MCCall(kind, dst, src, g, sg, period) ==
  [kind |-> kind, dst |-> dst, src |-> src, nghost |-> g, snghost |-> sg, period |-> period,
   cross |-> FALSE, op |-> "COPY", tgco |-> FALSE, offset |-> <<0, 0>>]

Start(i) == [do |-> "nowait", call |-> i]
Finish(i) == [do |-> "finish", call |-> i]
InTurn     == <<Start(1), Finish(1), Start(2), Finish(2)>>
Nested     == <<Start(1), Start(2), Finish(2), Finish(1)>>
AllAtOnce  == <<Start(1), Start(2), Start(3), Finish(3), Finish(1), Finish(2)>>
Crosswise  == <<Start(1), Start(2), Finish(1), Start(3), Finish(3), Finish(2)>>

\* A program on n ranks, for n in ns; calls name their FabArrays by number.
Programs(fabs, calls, script, ns) ==
  LET On(n, i) == [id |-> i, ba |-> fabs[i].ba, ngrow |-> fabs[i].ngrow,
                   dm |-> [k \in DOMAIN fabs[i].dm |-> fabs[i].dm[k] % n]]
  IN {[fabs |-> [i \in DOMAIN fabs |-> On(n, i)],
       calls |-> [i \in DOMAIN calls |-> [calls[i] EXCEPT !.dst = On(n, @), !.src = On(n, @)]],
       script |-> script, nprocs |-> n] : n \in ns}

\* Within a FabArray: every kind, then ghost cells beside the boxes only.
Inside ==
  UNION {Programs(<<f>>, <<MCCall(kind, 1, 1, One, One, period),
                           [MCCall("fb", 1, 1, Wide, One, period) EXCEPT !.cross = TRUE]>>, InTurn, {3}) :
     f \in {Fab(Quarters, t, <<0, 1, 1, 2>>, Wide) : t \in {Cell, Face, Node}}
           \union {Fab(Uneven, t, <<2, 0, 1>>, Wide) : t \in {Cell, Node}},
     kind \in {"fb", "epo", "os", "sb"}, period \in {Apart, Pipe, Torus}}

\* Between FabArrays; the second call starts before the first is finished, and reads what that one
\* does not write, or writes what it has read.
Between ==
  UNION {Programs(<<Fab(Quarters, t, <<0, 1, 2, 0>>, One), Fab(to[1], t, <<1, 0, 2>>, One)>>,
         <<[MCCall("pc", 2, 1, g, sg, to[2]) EXCEPT !.op = op, !.tgco = tgco, !.offset = to[3]],
           MCCall("fb", 1, 1, One, One, to[2])>>, Nested, {2, 3}) :
     to \in {<<Strips, Apart, <<1, 0>>>>, <<Uneven, Pipe, <<0, 0>>>>},
     t \in {Cell, Node}, g \in {Apart, One}, sg \in {Apart, One}, op \in {"COPY", "ADD"}, tgco \in BOOLEAN}

\* A rank without work in the first call; a copy between equal layouts; no ghost cells to fill.
Idle ==
  UNION {Programs(<<Fab(Strips, Cell, <<0, 1, 2>>, One), Fab(Strips, Cell, <<0, 1, 2>>, One)>>,
         <<c, MCCall("fb", 1, 1, One, One, Torus)>>, script, {1, 2, 3}) :
     c \in {MCCall("fb", 2, 2, <<0, 1>>, One, Apart), MCCall("pc", 2, 1, Cell, Cell, Apart),
            MCCall("fb", 2, 2, Cell, Cell, Apart), MCCall("epo", 2, 2, One, One, Apart)},
     script \in {InTurn, Nested}}

\* Ghost cells that reach over all of a thin periodic domain.
Thin ==
  UNION {Programs(<<Fab(<<B(<<0,0>>, <<1,1>>), B(<<2,0>>, <<3,1>>)>>, t, <<0, 1>>, <<3, 3>>)>>,
         <<c, MCCall("fb", 1, 1, <<3, 3>>, Cell, <<4, 2>>)>>, InTurn, {1, 2}) :
     t \in {Cell, Node},
     c \in {MCCall("fb", 1, 1, <<1, 2>>, Cell, <<4, 2>>), MCCall("epo", 1, 1, <<3, 3>>, Cell, <<4, 2>>),
            MCCall("os", 1, 1, <<3, 1>>, Cell, <<4, 2>>), MCCall("sb", 1, 1, Cell, <<3, 1>>, <<4, 2>>)}}

\* A FabArray copied into itself: what is in its place stays, and is not added to itself.
Itself ==
  UNION {Programs(<<Fab(f, Cell, <<0, 1, 1, 2>>, One)>>,
         <<[MCCall("pc", 1, 1, g, Cell, period) EXCEPT !.op = op, !.tgco = tgco],
           [MCCall("pc", 1, 1, <<1, 0>>, Cell, Pipe) EXCEPT !.op = "ADD"]>>, InTurn, {1, 3}) :
     f \in {Quarters, <<Quarters[1]>>}, g \in {Cell, One}, period \in {Apart, Torus},
     op \in {"COPY", "ADD"}, tgco \in BOOLEAN}

\* More exchanges than there are numbers: of three FabArrays, the third call has the number of the
\* first, which has no messages between some of the ranks.
Wrap ==
  UNION {Programs(<<Fab(Strips, Cell, <<0, 1, 2>>, One), Fab(Quarters, Cell, <<0, 1, 2, 0>>, One),
                    Fab(Quarters, Cell, <<1, 0, 1, 0>>, One)>>,
         <<c, MCCall("fb", 2, 2, One, One, Pipe), MCCall("sb", 3, 3, One, One, Apart)>>, script, {2, 3}) :
     c \in {MCCall("fb", 1, 1, One, One, Apart), MCCall("epo", 1, 1, One, One, Torus)},
     script \in {AllAtOnce, Crosswise}}

MCJobs == Inside \union Between \union Idle \union Thin \union Itself \union Wrap

(***************************************************************************)
(* Not among MCJobs: ExchangeTrue is violated on these (README, section 6) *)
(***************************************************************************)
\* The sum of boundary cells three deep, to points three deep, where four cells are periodic.
Deep == Programs(<<Fab(<<B(<<0,0>>, <<3,0>>)>>, Cell, <<0>>, <<3, 0>>)>>,
                 <<MCCall("sb", 1, 1, <<3, 0>>, <<3, 0>>, Pipe)>>, <<Start(1), Finish(1)>>, {1, 2})

\* The periodic copy of faces in the second direction, which are cells in the first.
SideFaces == Programs(<<Fab(<<B(<<0,0>>, <<1,3>>), B(<<2,0>>, <<3,3>>)>>, <<0, 1>>, <<0, 1>>, One)>>,
                      <<MCCall("epo", 1, 1, One, One, Torus)>>, <<Start(1), Finish(1)>>, {2})
=============================================================================
