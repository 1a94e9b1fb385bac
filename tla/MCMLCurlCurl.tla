---------------------------- MODULE MCMLCurlCurl ----------------------------
(* Two cells in each direction, two boxes that meet in the middle of x: a  *)
(* Dirichlet and a symmetric face in x, periodic in y, the converse in z.  *)
EXTENDS LinOp

MCDomLo == <<0, 0, 0>>
MCDomHi == <<2, 2, 2>>
MCBoxes == {<< <<0, 0, 0>>, <<1, 2, 2>> >>, << <<1, 0, 0>>, <<2, 2, 2>> >>}
MCLoBC == <<"Dirichlet", "Periodic", "symmetry">>
MCHiBC == <<"symmetry", "Periodic", "Dirichlet">>

\* The theorems SweepsWhole and OrderAlwaysFree are about grids such as this.
ASSUME GridChecked == Op!GridOK
=============================================================================
