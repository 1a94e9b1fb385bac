---------------------------- MODULE MLCurlCurl_K ----------------------------
(***************************************************************************)
(* The point smoothers of the curl-curl operator in three dimensions       *)
(* (AMReX_MLCurlCurl_K.H: mlcurlcurl_gs4_lu, mlcurlcurl_gs4,               *)
(* mlcurlcurl_gs4_alpha).  Each of them solves, at one node, for the six   *)
(* edges that meet there; a launch runs one thread for every node, and the *)
(* threads whose node has the colour of the launch do the work.  The three *)
(* kernels differ in how they solve the 6 x 6 system; they touch the same  *)
(* edges, which is what is modelled here.                                  *)
(*                                                                         *)
(* A node is a triple of integers; the edge <<d, a>> leaves the node a     *)
(* towards larger indices in direction d, as ex(i,j,k) does for d = 1.     *)
(***************************************************************************)
EXTENDS Integers

Dirs == 1..3

Node == [Dirs -> Int]

\* The node s steps away from a in direction d.
Step(a, d, s) == [a EXCEPT ![d] = @ + s]

\* The two directions that are not d.
Others(d) == Dirs \ {d}

\* The remainder i % 2 of C++, which has the sign of i.
Rem2(i) == IF i < 0 THEN -((-i) % 2) ELSE i % 2

\* int my_color = i%2 + 2*(j%2); if (k%2 != 0) { my_color = 3 - my_color; }
my_color(a) == LET c == Rem2(a[1]) + 2 * Rem2(a[2])
               IN  IF Rem2(a[3]) # 0 THEN 3 - c ELSE c

\* The half-edges at the node a: towards smaller (s = -1) and larger (s = 0)
\* indices in direction d.
Half(a, d, s) == <<d, Step(a, d, s)>>

\* The edges the thread of node a assigns: x[0] .. x[5].
Writes(a) == {Half(a, d, s) : d \in Dirs, s \in {-1, 0}}

\* The edges in the right-hand side of the unknown Half(a, d, s): its
\* neighbours in the same direction, and of each other direction e the two
\* edges at its far end.
Row(a, d, s) ==
    LET far == Step(a, d, IF s = 0 THEN 1 ELSE -1)
    IN  {<<d, Step(Step(a, d, s), e, t)>> : e \in Others(d), t \in {-1, 1}}
          \cup {Half(far, e, t) : e \in Others(d), t \in {-1, 0}}

\* sym(d, s): the unknown Half(a, d, s) lies across a symmetric face, so its
\* right-hand side is the negative of its mirror image's (b[0] = -b[1]) and
\* what was read for it is dropped.
Reads(a, sym) == UNION {Row(a, h[1], h[2]) :
                          h \in (Dirs \X {-1, 0}) \ sym}

=============================================================================
