----------------------------- MODULE MLCurlCurl -----------------------------
(***************************************************************************)
(* The smoother of the curl-curl operator (AMReX_MLCurlCurl.cpp) on one    *)
(* multigrid level, in the three-dimensional build, and the set-up calls   *)
(* that decide which kernel it runs.                                       *)
(*                                                                         *)
(* The user sets the coefficients between solves; MLMG prepares the        *)
(* operator when a solve starts (prepareLinOp) and then calls smooth.  A   *)
(* call of smooth goes through the four colours niter times.  Before each  *)
(* colour applyBC fills the ghost edges; then one thread for each node of  *)
(* that colour solves for the edges at its node, the threads of all boxes  *)
(* in any order.  Every box has its own copy of the edges on its surface.  *)
(*                                                                         *)
(* What is kept of the value of an edge is its stamp: the number of the    *)
(* step that computed it.  A kernel computes its edges from what it reads, *)
(* so a value is right exactly if everything read had the right stamp.     *)
(***************************************************************************)
EXTENDS MLCurlCurl_K, FiniteSets, FiniteSetsExt

CONSTANTS
    DomLo, DomHi,   \* the first and the last node of the domain
    Boxes,          \* the boxes: <<first node, last node>>
    LoBC, HiBC,     \* the boundary conditions, by direction
    niter,          \* the sweeps in a call of smooth
    MaxScalars,     \* bound: pairs of scalars the user goes through
    MaxSmooths      \* bound: calls of smooth in a solve

SizesAssumption == {niter, MaxScalars, MaxSmooths} \subseteq Nat \ {0}

DomainAssumption ==
    /\ \A d \in Dirs : {DomLo[d], DomHi[d]} \subseteq Int /\ DomLo[d] < DomHi[d]
    /\ \A d \in Dirs : \/ {LoBC[d], HiBC[d]} \subseteq {"Dirichlet", "symmetry"}
                       \/ {LoBC[d], HiBC[d]} = {"Periodic"}

VARIABLES
    scalars,         \* m_alpha and m_beta: which pair is set
    m_acoefs,        \* variable alpha has been set
    m_bcoefs,        \* variable beta has been set
    m_lusolver,      \* the pair the factors were computed from, 0 for none
    m_needs_update,
    linop_prepared,  \* of the MLMG object in use
    phase,           \* what runs: "setup", "solve", "smooth" or "threads"
    kernel,          \* what smooth4 has launched
    sweep, color,    \* smooth: the loop indices
    skip_fillboundary,
    smooths,         \* calls of smooth in this solve
    x,               \* for each box, the stamps of its edges
    step,            \* the number of the last step
    edited,          \* the last step that changed x outside the smoother
    last,            \* the last step of each colour
    running,         \* the threads launched that have not run
    todo             \* the threads that have not run in this sweep

setup == <<scalars, m_acoefs, m_bcoefs, m_lusolver, m_needs_update,
           linop_prepared>>
field == <<x, step, edited, last>>
loop == <<kernel, sweep, color, skip_fillboundary, smooths, running, todo>>
vars == <<setup, phase, field, loop>>

Colors == 0..3      \* int ncolors = 4

-----------------------------------------------------------------------------
(* Boxes, edges and nodes                                                  *)

\* The nodes of box b, grown by ng layers, fewer by one in direction d.
NodesIn(b, ng, d) ==
    LET range(q) == b[1][q] - ng .. b[2][q] + ng - (IF q = d THEN 1 ELSE 0)
    IN  {<<i, j, k>> : i \in range(1), j \in range(2), k \in range(3)}

EdgesIn(b, ng) == UNION {{d} \X NodesIn(b, ng, d) : d \in Dirs}

Valid == [b \in Boxes |-> EdgesIn(b, 0)]
Held  == [b \in Boxes |-> EdgesIn(b, 1)]   \* one layer of ghost edges

\* A grid on which the colours work: the indices start at zero or above, a
\* period has an even number of cells, and the boxes, of at least one cell in
\* each direction, cover the domain and nothing else.
GridOK ==
    /\ \A d \in Dirs : DomLo[d] \in Nat /\ DomHi[d] \in Nat /\ DomLo[d] < DomHi[d]
    /\ \A d \in Dirs : LoBC[d] = "Periodic" => (DomHi[d] - DomLo[d]) % 2 = 0
    /\ \A b \in Boxes : \A d \in Dirs :
          /\ {b[1][d], b[2][d]} \subseteq Int
          /\ DomLo[d] <= b[1][d] /\ b[1][d] < b[2][d] /\ b[2][d] <= DomHi[d]
    /\ EdgesIn(<<DomLo, DomHi>>, 0) \subseteq UNION {Valid[b] : b \in Boxes}

\* In a periodic domain, the image of a node that stands for all of them.
Wrap(a) == [q \in Dirs |->
              IF LoBC[q] = "Periodic"
              THEN DomLo[q] + ((a[q] - DomLo[q]) % (DomHi[q] - DomLo[q]))
              ELSE a[q]]

SameEdge(e, f) == e[1] = f[1] /\ Wrap(e[2]) = Wrap(f[2])

\* CurlCurlDirichletInfo::is_dirichlet_node
is_dirichlet_node(a) ==
    \E d \in Dirs : \/ LoBC[d] = "Dirichlet" /\ a[d] = DomLo[d]
                    \/ HiBC[d] = "Dirichlet" /\ a[d] = DomHi[d]

\* CurlCurlSymmetryInfo: the unknowns of node a across a symmetric face.
Mirrored(a) ==
    {<<d, -1>> : d \in {q \in Dirs : LoBC[q] = "symmetry" /\ a[q] = DomLo[q]}}
      \cup {<<d, 0>> : d \in {q \in Dirs : HiBC[q] = "symmetry" /\ a[q] = DomHi[q]}}

\* The directions in which edge e lies beyond the end of the domain.
Beyond(e) == {q \in Dirs : /\ LoBC[q] # "Periodic"
                           /\ \/ e[2][q] < DomLo[q]
                              \/ e[2][q] > DomHi[q] - (IF q = e[1] THEN 1 ELSE 0)}

SymmetricFace(e, q) == IF e[2][q] < DomLo[q] THEN LoBC[q] = "symmetry"
                                             ELSE HiBC[q] = "symmetry"

\* mlcurlcurl_bc_symmetry: the edge whose value the ghost e beyond a face in
\* direction q takes (with a sign, which stamps do not have): one cell back
\* where e is cell-centred in that direction, two where it is node-centred.
MirrorOf(e, q) ==
    LET offset == IF q = e[1] THEN 1 ELSE 2
    IN  <<e[1], Step(e[2], q, IF e[2][q] < DomLo[q] THEN offset ELSE -offset)>>

\* FillBoundary: the valid copies a ghost edge can be filled from.
Sources == [b \in Boxes |-> [e \in Held[b] |->
              IF e \in Valid[b] THEN {}
              ELSE UNION {{c} \X {f \in Valid[c] : SameEdge(e, f)} : c \in Boxes}]]

\* Which of several is not determined: SweepWhole says they agree.
FillBoundary(y) ==
    [b \in Boxes |-> [e \in Held[b] |->
        IF Sources[b][e] = {} THEN y[b][e]
        ELSE LET from == CHOOSE s \in Sources[b][e] : TRUE
             IN  y[from[1]][from[2]]]]

\* MLCurlCurl::applyBC, for the solution: the ghosts other boxes have, then
\* (applyPhysBC) those beyond one symmetric face.
applyBC(y) ==
    LET z == FillBoundary(y)
    IN  [b \in Boxes |-> [e \in Held[b] |->
            IF \E q \in Dirs : Beyond(e) = {q} /\ SymmetricFace(e, q)
            THEN z[b][MirrorOf(e, CHOOSE q \in Dirs : Beyond(e) = {q})]
            ELSE z[b][e]]]

\* The threads of a launch that have work to do for some colour.
Threads == UNION {{b} \X {a \in NodesIn(b, 0, 0) : ~is_dirichlet_node(a)} :
                    b \in Boxes}

\* A launch over the cells of the boxes, not over their nodes.
OfColor_Cells(c) == {t \in Threads : /\ my_color(t[2]) = c
                                     /\ \A d \in Dirs : t[2][d] < t[1][2][d]}

OfColor(c) == {t \in Threads : my_color(t[2]) = c}

\* for (int color = 0; color < ncolors; ++color)
NextColor(c) == IF c = 3 THEN 0 ELSE c + 1

Zero == [b \in Boxes |-> [e \in Held[b] |-> 0]]
-----------------------------------------------------------------------------
Init ==
    /\ scalars = 1 /\ m_acoefs = FALSE /\ m_bcoefs = FALSE /\ m_lusolver = 0
    /\ m_needs_update = TRUE /\ linop_prepared = FALSE
    /\ phase = "setup" /\ kernel = "none"
    /\ sweep = 0 /\ color = 0 /\ skip_fillboundary = FALSE /\ smooths = 0
    /\ x = Zero /\ step = 0 /\ edited = 0 /\ last = [c \in Colors |-> 0]
    /\ running = {} /\ todo = {}

(* The user, between solves                                                *)

\* MLCurlCurl::setScalars: clears the variable coefficients, not the factors.
setScalars ==
    /\ phase = "setup"
    /\ scalars < MaxScalars
    /\ scalars' = scalars + 1
    /\ m_needs_update' = TRUE
    /\ m_acoefs' = FALSE
    /\ m_bcoefs' = FALSE
    /\ UNCHANGED <<m_lusolver, linop_prepared, phase, field, loop>>

\* MLCurlCurl::setBeta: fields of beta on all levels; drops the factors.
setBeta ==
    /\ phase = "setup"
    /\ m_needs_update' = TRUE
    /\ m_bcoefs' = TRUE
    /\ m_lusolver' = 0
    /\ UNCHANGED <<scalars, m_acoefs, linop_prepared, phase, field, loop>>

\* MLCurlCurl::setAlpha
setAlpha ==
    /\ phase = "setup"
    /\ m_needs_update' = TRUE
    /\ m_acoefs' = TRUE
    /\ m_lusolver' = 0
    /\ UNCHANGED <<scalars, m_bcoefs, linop_prepared, phase, field, loop>>

\* The operator is given to another MLMG object.
NewMLMG ==
    /\ phase = "setup"
    /\ linop_prepared' = FALSE
    /\ UNCHANGED <<scalars, m_acoefs, m_bcoefs, m_lusolver, m_needs_update,
                   phase, field, loop>>

\* Factors that are there are kept.
update_lusolver_KeepsOld ==
    m_lusolver' = IF m_acoefs \/ m_bcoefs \/ m_lusolver # 0
                  THEN m_lusolver ELSE scalars

\* MLCurlCurl::update_lusolver: factors for every level, unless a coefficient
\* varies.
update_lusolver ==
    m_lusolver' = IF m_acoefs \/ m_bcoefs THEN m_lusolver ELSE scalars

\* MLMG::prepareLinOp, and the head of MLMG::prepareForSolve.
prepareLinOp ==
    \/ /\ ~linop_prepared                    \* linop.prepareForSolve()
       /\ update_lusolver
       /\ linop_prepared' = TRUE
       /\ UNCHANGED m_needs_update
    \/ /\ linop_prepared /\ m_needs_update   \* linop.update()
       /\ update_lusolver
       /\ m_needs_update' = FALSE
       /\ UNCHANGED linop_prepared
    \/ /\ linop_prepared /\ ~m_needs_update
       /\ UNCHANGED <<m_lusolver, m_needs_update, linop_prepared>>

StartSolve ==
    /\ phase = "setup"
    /\ prepareLinOp
    /\ phase' = "solve"
    /\ UNCHANGED <<scalars, m_acoefs, m_bcoefs, field, loop>>

EndSolve ==
    /\ phase = "solve"
    /\ phase' = "setup"
    /\ x' = Zero /\ step' = 0 /\ edited' = 0 /\ last' = [c \in Colors |-> 0]
    /\ kernel' = "none" /\ smooths' = 0 /\ sweep' = 0 /\ color' = 0
    /\ UNCHANGED <<setup, skip_fillboundary, running, todo>>
-----------------------------------------------------------------------------
(* The solver                                                              *)

\* MLCurlCurl::smooth is called.
smooth(skip) ==
    /\ phase = "solve"
    /\ smooths < MaxSmooths
    /\ smooths' = smooths + 1
    /\ phase' = "smooth"
    /\ sweep' = 1 /\ color' = 0
    /\ skip_fillboundary' = skip
    /\ UNCHANGED <<setup, kernel, running, todo>>

\* mgVcycle on the way down: cor is set to zero, ghosts included, and
\* smoothed without filling them first.
SmoothZero ==
    /\ smooth(TRUE)
    /\ x' = Zero /\ step' = 0 /\ edited' = 0 /\ last' = [c \in Colors |-> 0]

\* mgVcycle on the way up, and after the bottom solver: the valid edges have
\* been changed (addInterpCorrection), the ghosts not.
SmoothChanged ==
    /\ smooth(FALSE)
    /\ step' = step + 1 /\ edited' = step + 1
    /\ x' = [b \in Boxes |-> [e \in Held[b] |->
                                IF e \in Valid[b] THEN step + 1 ELSE x[b][e]]]
    /\ UNCHANGED last

\* smooth4: which kernel the pointers select.
Kernel == IF m_lusolver # 0 /\ ~m_acoefs /\ ~m_bcoefs THEN "gs4_lu"
          ELSE IF m_acoefs THEN "gs4_alpha"
          ELSE "gs4"

\* One colour runs on the ghosts of the colour before.
BC_SkipsOne(y) == IF skip_fillboundary \/ color = 2 THEN y ELSE applyBC(y)

\* Before a colour the ghosts are filled, except before the first colour of
\* a call that said to skip it.
BC(y) == IF skip_fillboundary THEN y ELSE applyBC(y)

\* smooth4: the launch for this colour.
smooth4 ==
    /\ phase = "smooth"
    /\ phase' = "threads"
    /\ x' = BC(x)
    /\ skip_fillboundary' = FALSE
    /\ kernel' = Kernel
    /\ running' = OfColor(color)
    /\ todo' = IF color = 0 THEN Threads ELSE todo
    /\ UNCHANGED <<setup, step, edited, last, sweep, color, smooths>>

\* One thread: box t[1], node t[2].
gs4(t) ==
    /\ phase = "threads"
    /\ t \in running
    /\ x' = [x EXCEPT ![t[1]] = [e \in Held[t[1]] |->
                IF e \in Writes(t[2]) THEN step + 1 ELSE @[e]]]
    /\ running' = running \ {t}
    /\ todo' = todo \ {t}
    /\ UNCHANGED <<setup, phase, kernel, sweep, color, skip_fillboundary,
                   smooths, step, edited, last>>

\* All threads of the colour have run: the next colour, the next sweep, or
\* the end of smooth.
EndColor ==
    /\ phase = "threads"
    /\ running = {}
    /\ step' = step + 1
    /\ last' = [last EXCEPT ![color] = step + 1]
    /\ color' = NextColor(color)
    /\ sweep' = IF color = 3 THEN sweep + 1 ELSE sweep
    /\ phase' = IF color = 3 /\ sweep = niter THEN "solve" ELSE "smooth"
    /\ UNCHANGED <<setup, kernel, skip_fillboundary, smooths, x, edited,
                   running, todo>>

Next ==
    \/ setScalars \/ setBeta \/ setAlpha \/ NewMLMG
    \/ StartSolve \/ EndSolve
    \/ SmoothZero \/ SmoothChanged
    \/ smooth4
    \/ \E t \in Threads : gs4(t)
    \/ EndColor

Spec == Init /\ [][Next]_vars
-----------------------------------------------------------------------------
TypeOK ==
    /\ scalars \in 1..MaxScalars /\ m_lusolver \in 0..MaxScalars
    /\ {m_acoefs, m_bcoefs, m_needs_update, linop_prepared, skip_fillboundary}
         \subseteq BOOLEAN
    /\ phase \in {"setup", "solve", "smooth", "threads"}
    /\ kernel \in {"none", "gs4_lu", "gs4_alpha", "gs4"}
    /\ sweep \in 0..niter + 1 /\ color \in Colors /\ smooths \in 0..MaxSmooths
    /\ \A b \in Boxes : /\ DOMAIN x[b] = Held[b]
                        /\ \A e \in Held[b] : x[b][e] \in 0..step + 1
    /\ running \subseteq Threads /\ todo \subseteq Threads
    /\ edited \in 0..step /\ \A c \in Colors : last[c] \in 0..step

\* Whatever the user sets between solves, in whatever order and with however
\* many MLMG objects, the kernel that is launched solves with factors of the
\* scalars that are set now, or with fields that exist.
FactorsFresh ==
    phase = "threads" =>
        /\ kernel = "gs4_lu" => m_lusolver = scalars
        /\ kernel = "gs4_alpha" => m_acoefs
        /\ kernel = "gs4" => m_bcoefs /\ ~m_acoefs

\* The stamp an edge should have: of the last step that changed it, which is
\* an edit of x or the colour of one of its two nodes.  For an edge beyond a
\* symmetric face it is that of its mirror image.
Inner(e) == IF Beyond(e) = {} THEN e
            ELSE MirrorOf(e, CHOOSE q \in Dirs : Beyond(e) = {q})

Ends(e) == {Wrap(e[2]), Wrap(Step(e[2], e[1], 1))}

Expected(e) ==
    Max({edited} \cup {last[my_color(n)] :
            n \in {m \in Ends(e) : ~is_dirichlet_node(m) /\ my_color(m) \in Colors}})

\* What a thread gets to see does not depend on which threads of its colour
\* have run: it reads no edge that another one writes, nobody else writes
\* its edges, and every value it uses is the one of the last colour, also
\* in the ghosts.
OrderFree ==
    \A t \in running :
        /\ \A e \in Reads(t[2], Mirrored(t[2])) : x[t[1]][e] = Expected(Inner(e))
        /\ \A u \in running \ {t} :
              t[1] = u[1] => Writes(u[2]) \cap
                               (Writes(t[2]) \cup Reads(t[2], Mirrored(t[2]))) = {}

\* Between two colours every copy of an edge, in whichever box and at either
\* end of a periodic domain, has the value of the last step that changed the
\* edge; and at the end of a sweep every node has been relaxed.
SweepWhole ==
    /\ phase \in {"smooth", "solve"} =>
          \A b \in Boxes : \A e \in Valid[b] : x[b][e] = Expected(e)
    /\ phase \in {"smooth", "solve"} /\ color = 0 => todo = {}

=============================================================================
