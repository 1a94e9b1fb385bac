---------------------------- MODULE MCAsyncWrite ----------------------------
EXTENDS AsyncWrite

\* A rank between others has none.
Gap == 0 :> <<2>> @@ 1 :> <<>> @@ 2 :> <<3>> @@ 3 :> <<1>> @@ 4 :> <<1>>
GapLayouts == {Gap}
=============================================================================
