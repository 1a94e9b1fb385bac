---------------------------- MODULE OutputProofs ----------------------------
(***************************************************************************)
(* Proofs about the output of a parallel job, for any number of ranks,     *)
(* files, clients and jobs: NFilesIter (whatever the mode, one rank at a   *)
(* time has a file open), BackgroundThread (the thread behind asynchronous *)
(* output works when there is work and wakes who waits) and AsyncWrite     *)
(* (the ranks of a file append in turn, and the header written before      *)
(* them says where their data will be).                                    *)
(***************************************************************************)
EXTENDS VisMF, AsyncOut, FiniteSetTheorems, SequenceTheorems, WellFoundedInduction, TLAPS

----------------------------------------------------------------------------
(* Quotients and remainders.                                               *)

LEMMA DivMod ==
  ASSUME NEW a \in Nat, NEW b \in Nat, b > 0
  PROVE  /\ a \div b \in Nat /\ a % b \in 0..b-1
         /\ a = b * (a \div b) + (a % b)
<1>1. a % b \in 0..b-1
  OBVIOUS
<1>2. a = b * (a \div b) + (a % b)
  BY SMT
<1>3. a \div b \in Int /\ a \div b >= 0
  OBVIOUS
<1> QED
  BY <1>1, <1>2, <1>3

LEMMA DivUnique ==
  ASSUME NEW b \in Nat \ {0}, NEW k \in Nat, NEW c \in 0..b-1
  PROVE  (b * k + c) \div b = k /\ (b * k + c) % b = c
<1>1. b * k + c \in Nat
  OBVIOUS
<1>2. (b * k + c) \div b = k
  OBVIOUS
<1>3. (b * k + c) % b = c
  OBVIOUS
<1> QED
  BY <1>2, <1>3

----------------------------------------------------------------------------
(* Induction, and functions defined by recursion.                          *)

LEMMA SmallestOf ==
  ASSUME NEW S, S \subseteq Nat, S # {}
  PROVE  \E n \in S : \A k \in S : n <= k
<1>1. PICK n \in S : \A k \in S : <<k, n>> \notin OpToRel(<, Nat)
  BY WFMin, NatLessThanWellFounded, Zenon
<1>2. n \in Nat /\ \A k \in S : k \in Nat
  OBVIOUS
<1>3. \A k \in S : ~(k < n)
  BY <1>1, <1>2, Zenon DEF OpToRel
<1> QED
  BY <1>2, <1>3

\* What holds of zero and passes on up to n.
LEMMA UpTo ==
  ASSUME NEW n \in Nat, NEW S, 0 \in S, \A i \in 1..n : i - 1 \in S => i \in S
  PROVE  0..n \subseteq S
<1> DEFINE Bad == (0..n) \ S
<1> SUFFICES ASSUME Bad # {} PROVE FALSE
  OBVIOUS
<1>0. Bad \subseteq Nat
  OBVIOUS
<1>1. PICK k \in Bad : \A j \in Bad : k <= j
  BY <1>0, SmallestOf
<1>2. k \in 1..n /\ k - 1 \in 0..n /\ ~(k <= k - 1)
  OBVIOUS
<1>3. k - 1 \in S
  BY <1>1, <1>2
<1> QED
  BY <1>2, <1>3

\* Entry 0 of f is v, and step[i] takes entry i - 1 to entry i.
Unfolds(f, n, V, v, step) ==
  f \in [0..n -> V] /\ f[0] = v /\ \A i \in 1..n : f[i] = step[i][f[i-1]]

LEMMA RecursionExists ==
  ASSUME NEW n \in Nat, NEW V, NEW v \in V, NEW step \in [1..n -> [V -> V]]
  PROVE  \E f : Unfolds(f, n, V, v, step)
<1> DEFINE Up(k, f) == f[0] = v /\ \A i \in 1..k : f[i] = step[i][f[i-1]]
           S == {k \in 0..n : \E f \in [0..n -> V] : Up(k, f)}
<1>1. 0 \in S
  <2>1. Up(0, [i \in 0..n |-> v]) /\ [i \in 0..n |-> v] \in [0..n -> V] /\ 0 \in 0..n
    OBVIOUS
  <2>2. \E f \in [0..n -> V] : Up(0, f)
    BY <2>1, Zenon
  <2> QED
    BY <2>1, <2>2
<1>2. ASSUME NEW k \in 1..n, k - 1 \in S PROVE k \in S
  <2>1. PICK f \in [0..n -> V] : Up(k - 1, f)
    BY <1>2
  <2> DEFINE g == [f EXCEPT ![k] = step[k][f[k-1]]]
  <2>2. g \in [0..n -> V]
    <3>1. f[k-1] \in V /\ k - 1 \in 0..n
      OBVIOUS
    <3>2. step[k][f[k-1]] \in V
      BY <3>1
    <3> QED
      BY <3>2
  <2>3. g[k] = step[k][f[k-1]] /\ \A i \in 0..k-1 : g[i] = f[i]
    OBVIOUS
  <2> HIDE DEF g
  <2>4. ASSUME NEW i \in 1..k PROVE g[i] = step[i][g[i-1]]
    <3>1. CASE i = k
      BY <2>3, <3>1
    <3>2. CASE i # k
      <4>1. i \in 0..k-1 /\ i - 1 \in 0..k-1 /\ i \in 1..k-1
        BY <3>2
      <4> QED
        BY <2>1, <2>3, <4>1
    <3> QED
      BY <3>1, <3>2
  <2>5. g[0] = v
    BY <2>1, <2>3
  <2> QED
    BY <2>2, <2>4, <2>5
<1> HIDE DEF S
<1>3. n \in S
  <2>1. 0..n \subseteq S
    BY <1>1, <1>2, UpTo
  <2> QED
    BY <2>1
<1> QED
  BY <1>3 DEF S, Unfolds

----------------------------------------------------------------------------
(* Selected.                                                               *)

\* F[k]: what the first k elements of s give.
Picks(F, s, T) ==
  /\ F[0] = <<>>
  /\ \A k \in 1..Len(s) : F[k] = IF s[k] \in T THEN Append(F[k-1], s[k]) ELSE F[k-1]

LEMMA SelectedIs ==
  ASSUME NEW S, NEW s \in Seq(S), NEW T
  PROVE  \E F \in [0..Len(s) -> Seq(S)] : Picks(F, s, T) /\ Selected(s, T) = F[Len(s)]
<1> DEFINE n == Len(s)
           Def(f) == f = [k \in 0..n |-> IF k = 0 THEN <<>>
                            ELSE IF s[k] \in T THEN Append(f[k-1], s[k]) ELSE f[k-1]]
           F == CHOOSE f : Def(f)
           step == [k \in 1..n |-> [q \in Seq(S) |-> IF s[k] \in T THEN Append(q, s[k]) ELSE q]]
<1>1. n \in Nat /\ \A k \in 1..n : s[k] \in S
  OBVIOUS
<1>2. \E f \in [0..n -> Seq(S)] : Def(f)
  <2>1. /\ step \in [1..n -> [Seq(S) -> Seq(S)]]
        /\ \A k \in 1..n, q \in Seq(S) :
             step[k][q] = IF s[k] \in T THEN Append(q, s[k]) ELSE q
    BY <1>1
  <2>2. <<>> \in Seq(S)
    OBVIOUS
  <2> HIDE DEF step, n
  <2>3. PICK f : Unfolds(f, n, Seq(S), <<>>, step)
    <3>1. n \in Nat /\ step \in [1..n -> [Seq(S) -> Seq(S)]]
      BY <1>1, <2>1
    <3> QED
      BY <2>2, <3>1, RecursionExists
  <2>4. \A k \in 1..n : f[k] = IF s[k] \in T THEN Append(f[k-1], s[k]) ELSE f[k-1]
    <3> SUFFICES ASSUME NEW k \in 1..n
                 PROVE  f[k] = IF s[k] \in T THEN Append(f[k-1], s[k]) ELSE f[k-1]
      OBVIOUS
    <3>1. k - 1 \in 0..n /\ f[k-1] \in Seq(S)
      BY <1>1, <2>3 DEF Unfolds
    <3> QED
      BY <2>1, <2>3, <3>1 DEF Unfolds
  <2>5. f \in [0..n -> Seq(S)] /\ f[0] = <<>>
    BY <2>3 DEF Unfolds
  <2>6. Def(f)
    <3> DEFINE g == [k \in 0..n |-> IF k = 0 THEN <<>>
                       ELSE IF s[k] \in T THEN Append(f[k-1], s[k]) ELSE f[k-1]]
    <3>1. ASSUME NEW k \in 0..n PROVE f[k] = g[k]
      <4>1. CASE k = 0
        BY <2>5, <4>1
      <4>2. CASE k # 0
        <5>1. k \in 1..n
          BY <1>1, <4>2
        <5>2. g[k] = IF s[k] \in T THEN Append(f[k-1], s[k]) ELSE f[k-1]
          BY <4>2
        <5> QED
          BY <2>4, <5>1, <5>2
      <4> QED
        BY <4>1, <4>2
    <3>2. f \in [0..n -> Seq(S)] /\ DOMAIN g = 0..n /\ g = [k \in 0..n |-> g[k]]
      BY <2>5
    <3> HIDE DEF g
    <3>3. f = g
      BY <3>1, <3>2
    <3> QED
      BY <3>3 DEF g
  <2> QED
    BY <2>5, <2>6
<1>3. PICK f \in [0..n -> Seq(S)] : Def(f)
  BY <1>2
<1>4. Def(F)
  BY <1>3
<1>5. Selected(s, T) = F[n]
  BY DEF Selected
<1> HIDE DEF F, n
<1>6. F[0] = <<>> /\ \A k \in 1..n : F[k] = IF s[k] \in T THEN Append(F[k-1], s[k]) ELSE F[k-1]
  <2>1. \A k \in 0..n : F[k] = IF k = 0 THEN <<>>
                                ELSE IF s[k] \in T THEN Append(F[k-1], s[k]) ELSE F[k-1]
    BY <1>4
  <2>2. 0 \in 0..n /\ \A k \in 1..n : k \in 0..n /\ k # 0
    BY <1>1
  <2> QED
    BY <2>1, <2>2
<1>7. \A k \in 0..n : F[k] \in Seq(S)
  <2> DEFINE A == {k \in 0..n : F[k] \in Seq(S)}
  <2>1. 0 \in A
    <3>1. <<>> \in Seq(S) /\ 0 \in 0..n
      BY <1>1
    <3> QED
      BY <1>6, <3>1
  <2>2. ASSUME NEW i \in 1..n, i - 1 \in A PROVE i \in A
    <3>1. F[i-1] \in Seq(S) /\ i \in 0..n
      BY <1>1, <2>2
    <3>2. Append(F[i-1], s[i]) \in Seq(S)
      BY <1>1, <3>1
    <3>3. F[i] = IF s[i] \in T THEN Append(F[i-1], s[i]) ELSE F[i-1]
      BY <1>6
    <3>4. F[i] \in Seq(S)
      BY <3>1, <3>2, <3>3
    <3> QED
      BY <3>1, <3>4
  <2> HIDE DEF A
  <2>3. 0..n \subseteq A
    BY <1>1, <2>1, <2>2, UpTo
  <2> QED
    BY <2>3 DEF A
<1>8. F \in [0..n -> Seq(S)]
  BY <1>4, <1>7
<1>9. Picks(F, s, T)
  BY <1>6 DEF Picks, n
<1> QED
  BY <1>5, <1>8, <1>9 DEF n

\* The beginning of the sequence decides the beginning of F.
LEMMA PicksAlike ==
  ASSUME NEW s, NEW t, NEW T, NEW F, NEW G, NEW m \in Nat, Len(s) \in Nat, Len(t) \in Nat,
         m <= Len(s), m <= Len(t), Picks(F, s, T), Picks(G, t, T),
         \A k \in 1..m : s[k] = t[k]
  PROVE  \A k \in 0..m : F[k] = G[k]
<1> DEFINE A == {k \in 0..m : F[k] = G[k]}
<1>1. 0 \in A
  BY DEF Picks
<1>2. ASSUME NEW i \in 1..m, i - 1 \in A PROVE i \in A
  <2>1. i \in 1..Len(s) /\ i \in 1..Len(t) /\ s[i] = t[i]
    OBVIOUS
  <2>2. F[i-1] = G[i-1]
    BY <1>2
  <2>3. /\ F[i] = IF s[i] \in T THEN Append(F[i-1], s[i]) ELSE F[i-1]
        /\ G[i] = IF t[i] \in T THEN Append(G[i-1], t[i]) ELSE G[i-1]
    BY <2>1 DEF Picks
  <2> QED
    BY <2>1, <2>2, <2>3
<1> HIDE DEF A
<1>3. 0..m \subseteq A
  BY <1>1, <1>2, UpTo
<1> QED
  BY <1>3 DEF A

\* Whatever satisfies the recursion ends with what is selected.
LEMMA SelectedBy ==
  ASSUME NEW S, NEW s \in Seq(S), NEW T, NEW F, Picks(F, s, T)
  PROVE  Selected(s, T) = F[Len(s)]
<1>1. PICK G \in [0..Len(s) -> Seq(S)] : Picks(G, s, T) /\ Selected(s, T) = G[Len(s)]
  BY SelectedIs
<1>2. Len(s) \in Nat /\ Len(s) <= Len(s) /\ Len(s) \in 0..Len(s)
  OBVIOUS
<1>3. \A k \in 0..Len(s) : F[k] = G[k]
  BY <1>1, <1>2, PicksAlike
<1> QED
  BY <1>1, <1>2, <1>3

LEMMA SelectedSeq ==
  ASSUME NEW S, NEW s \in Seq(S), NEW T
  PROVE  Selected(s, T) \in Seq(S)
<1>1. Len(s) \in 0..Len(s)
  OBVIOUS
<1> QED
  BY <1>1, SelectedIs

LEMMA SelectedEmpty ==
  ASSUME NEW T
  PROVE  Selected(<<>>, T) = <<>>
<1>1. <<>> \in Seq({}) /\ Len(<<>>) = 0
  OBVIOUS
<1>2. Picks([k \in 0..0 |-> <<>>], <<>>, T)
  BY <1>1 DEF Picks
<1> QED
  BY <1>1, <1>2, SelectedBy

\* A sequence after another one.
LEMMA SelectedConcat ==
  ASSUME NEW S, NEW s \in Seq(S), NEW t \in Seq(S), NEW T
  PROVE  Selected(s \o t, T) = Selected(s, T) \o Selected(t, T)
<1>1. PICK F \in [0..Len(s) -> Seq(S)] : Picks(F, s, T) /\ Selected(s, T) = F[Len(s)]
  BY SelectedIs
<1>2. PICK G \in [0..Len(t) -> Seq(S)] : Picks(G, t, T) /\ Selected(t, T) = G[Len(t)]
  BY SelectedIs
<1> DEFINE n == Len(s)
           m == Len(t)
           u == s \o t
<1>3. /\ n \in Nat /\ m \in Nat /\ u \in Seq(S) /\ Len(u) = n + m
      /\ \A k \in 1..n : u[k] = s[k]
      /\ \A k \in 1..m : u[n + k] = t[k] /\ t[k] \in S
  OBVIOUS
<1> DEFINE H == [k \in 0..n+m |-> IF k <= n THEN F[k] ELSE F[n] \o G[k - n]]
<1> HIDE DEF n, m, u
<1>4. F \in [0..n -> Seq(S)] /\ G \in [0..m -> Seq(S)]
  BY <1>1, <1>2 DEF n, m
<1>5. /\ F[0] = <<>> /\ \A k \in 1..n : F[k] = IF s[k] \in T THEN Append(F[k-1], s[k]) ELSE F[k-1]
      /\ G[0] = <<>> /\ \A k \in 1..m : G[k] = IF t[k] \in T THEN Append(G[k-1], t[k]) ELSE G[k-1]
  BY <1>1, <1>2 DEF Picks, n, m
<1>6. /\ \A k \in 0..n : H[k] = F[k]
      /\ \A k \in 0..m : H[n + k] = F[n] \o G[k]
  <2>1. \A k \in 0..n : H[k] = F[k]
    BY <1>3
  <2>2. ASSUME NEW k \in 0..m PROVE H[n + k] = F[n] \o G[k]
    <3>0. n + k \in 0..n+m /\ (n + k) - n = k
      BY <1>3
    <3>1. CASE k = 0
      <4>1. n \in 0..n /\ F[n] \in Seq(S) /\ n + k = n
        BY <1>3, <1>4, <3>1
      <4>2. F[n] \o <<>> = F[n]
        BY <4>1
      <4> QED
        BY <1>5, <2>1, <3>1, <4>1, <4>2
    <3>2. CASE k > 0
      <4>1. ~(n + k <= n)
        BY <1>3, <3>2
      <4>2. H[n + k] = F[n] \o G[(n + k) - n]
        BY <3>0, <4>1
      <4> QED
        BY <3>0, <4>2
    <3>3. k = 0 \/ k > 0
      BY <1>3
    <3> QED
      BY <3>1, <3>2, <3>3
  <2> QED
    BY <2>1, <2>2
<1> HIDE DEF H
<1>7. ASSUME NEW k \in 1..Len(u)
      PROVE  H[k] = IF u[k] \in T THEN Append(H[k-1], u[k]) ELSE H[k-1]
  <2>1. CASE k <= n
    <3>1. k \in 1..n /\ k \in 0..n /\ k - 1 \in 0..n
      BY <1>3, <2>1
    <3> QED
      BY <1>3, <1>5, <1>6, <3>1
  <2>2. CASE k > n
    <3> DEFINE i == k - n
    <3>1. i \in 1..m /\ i \in 0..m /\ i - 1 \in 0..m /\ n + i = k /\ n + (i - 1) = k - 1
      BY <1>3, <2>2
    <3> HIDE DEF i
    <3>2. H[k] = F[n] \o G[i] /\ H[k - 1] = F[n] \o G[i - 1] /\ u[k] = t[i] /\ t[i] \in S
      BY <1>3, <1>6, <3>1
    <3>3. G[i] = IF t[i] \in T THEN Append(G[i-1], t[i]) ELSE G[i-1]
      BY <1>5, <3>1
    <3>4. F[n] \in Seq(S) /\ G[i - 1] \in Seq(S)
      BY <1>3, <1>4, <3>1
    <3>5. F[n] \o Append(G[i - 1], t[i]) = Append(F[n] \o G[i - 1], t[i])
      <4> DEFINE x == F[n]
                 y == G[i - 1]
                 z == t[i]
      <4>1. x \in Seq(S) /\ y \in Seq(S) /\ z \in S
        BY <3>2, <3>4
      <4> HIDE DEF x, y, z
      <4>2. x \o Append(y, z) = Append(x \o y, z)
        BY <4>1
      <4> QED
        BY <4>2 DEF x, y, z
    <3> QED
      BY <3>2, <3>3, <3>5
  <2> QED
    BY <1>3, <2>1, <2>2
<1>8. H[0] = <<>> /\ H[n + m] = F[n] \o G[m]
  <2>1. 0 \in 0..n /\ m \in 0..m
    BY <1>3
  <2> QED
    BY <1>5, <1>6, <2>1
<1>9. Picks(H, u, T)
  BY <1>7, <1>8 DEF Picks
<1>10. Selected(u, T) = H[Len(u)]
  BY <1>3, <1>9, SelectedBy
<1>11. Selected(u, T) = F[n] \o G[m]
  BY <1>3, <1>8, <1>10
<1> QED
  BY <1>1, <1>2, <1>11 DEF n, m, u

LEMMA SelectedOne ==
  ASSUME NEW x, NEW T
  PROVE  Selected(<<x>>, T) = IF x \in T THEN <<x>> ELSE <<>>
<1> DEFINE F == [k \in 0..1 |-> IF k = 0 THEN <<>> ELSE IF x \in T THEN <<x>> ELSE <<>>]
<1>1. <<x>> \in Seq({x}) /\ Len(<<x>>) = 1 /\ <<x>>[1] = x /\ Append(<<>>, x) = <<x>>
  OBVIOUS
<1>2. F[0] = <<>> /\ F[1] = IF x \in T THEN <<x>> ELSE <<>>
  OBVIOUS
<1> HIDE DEF F
<1>3. Picks(F, <<x>>, T)
  <2>1. ASSUME NEW k \in 1..Len(<<x>>)
        PROVE  F[k] = IF <<x>>[k] \in T THEN Append(F[k-1], <<x>>[k]) ELSE F[k-1]
    <3>1. k = 1 /\ k - 1 = 0
      BY <1>1
    <3> QED
      BY <1>1, <1>2, <3>1
  <2> QED
    BY <1>2, <2>1 DEF Picks
<1> QED
  BY <1>1, <1>2, <1>3, SelectedBy

LEMMA SelectedAppend ==
  ASSUME NEW S, NEW s \in Seq(S), NEW x \in S, NEW T
  PROVE  Selected(Append(s, x), T) =
           IF x \in T THEN Append(Selected(s, T), x) ELSE Selected(s, T)
<1>1. Append(s, x) = s \o <<x>> /\ <<x>> \in Seq(S)
  OBVIOUS
<1>2. Selected(Append(s, x), T) = Selected(s, T) \o Selected(<<x>>, T)
  <2> DEFINE e == <<x>>
  <2>1. e \in Seq(S) /\ Append(s, x) = s \o e
    BY <1>1
  <2> HIDE DEF e
  <2>2. Selected(s \o e, T) = Selected(s, T) \o Selected(e, T)
    BY <2>1, SelectedConcat
  <2> QED
    BY <2>1, <2>2 DEF e
<1>3. Selected(s, T) \in Seq(S)
  BY SelectedSeq
<1>4. CASE x \in T
  <2>1. Selected(s, T) \o <<x>> = Append(Selected(s, T), x)
    BY <1>3
  <2> QED
    BY <1>2, <1>4, <2>1, SelectedOne
<1>5. CASE x \notin T
  <2>1. Selected(s, T) \o <<>> = Selected(s, T)
    BY <1>3
  <2> QED
    BY <1>2, <1>5, <2>1, SelectedOne
<1> QED
  BY <1>4, <1>5

LEMMA SelectedHead ==
  ASSUME NEW S, NEW s \in Seq(S), s # <<>>, NEW T
  PROVE  Selected(s, T) =
           (IF Head(s) \in T THEN <<Head(s)>> ELSE <<>>) \o Selected(Tail(s), T)
<1>1. s = <<Head(s)>> \o Tail(s) /\ <<Head(s)>> \in Seq(S) /\ Tail(s) \in Seq(S)
  OBVIOUS
<1>2. Selected(s, T) = Selected(<<Head(s)>>, T) \o Selected(Tail(s), T)
  <2> DEFINE e == <<Head(s)>>
             t == Tail(s)
  <2>1. e \in Seq(S) /\ t \in Seq(S) /\ s = e \o t
    BY <1>1
  <2> HIDE DEF e, t
  <2>2. Selected(e \o t, T) = Selected(e, T) \o Selected(t, T)
    BY <2>1, SelectedConcat
  <2> QED
    BY <2>1, <2>2 DEF e, t
<1>3. Selected(<<Head(s)>>, T) = IF Head(s) \in T THEN <<Head(s)>> ELSE <<>>
  BY SelectedOne
<1> QED
  BY <1>2, <1>3

\* Nothing is lost, and nothing else comes in.
LEMMA SelectedElements ==
  ASSUME NEW S, NEW s \in Seq(S), NEW T
  PROVE  {Selected(s, T)[i] : i \in DOMAIN Selected(s, T)} = {s[i] : i \in DOMAIN s} \cap T
<1>1. PICK F \in [0..Len(s) -> Seq(S)] : Picks(F, s, T) /\ Selected(s, T) = F[Len(s)]
  BY SelectedIs
<1> DEFINE Of(q) == {q[i] : i \in DOMAIN q}
           A == {k \in 0..Len(s) : Of(F[k]) = {s[i] : i \in 1..k} \cap T}
<1>2. 0 \in A
  BY <1>1 DEF Picks
<1>3. ASSUME NEW k \in 1..Len(s), k - 1 \in A PROVE k \in A
  <2>1. Of(F[k-1]) = {s[i] : i \in 1..k-1} \cap T
    BY <1>3
  <2>2. /\ F[k-1] \in Seq(S) /\ s[k] \in S
        /\ F[k] = IF s[k] \in T THEN Append(F[k-1], s[k]) ELSE F[k-1]
    <3>1. k - 1 \in 0..Len(s)
      OBVIOUS
    <3>2. F[k-1] \in Seq(S) /\ s[k] \in S
      BY <3>1
    <3>3. F[k] = IF s[k] \in T THEN Append(F[k-1], s[k]) ELSE F[k-1]
      BY <1>1 DEF Picks
    <3> QED
      BY <3>2, <3>3
  <2>3. 1..k = (1..k-1) \cup {k}
    OBVIOUS
  <2>4. {s[i] : i \in 1..k} = {s[i] : i \in 1..k-1} \cup {s[k]}
    BY <2>3
  <2>5. ASSUME NEW q \in Seq(S), NEW x \in S PROVE Of(Append(q, x)) = Of(q) \cup {x}
    <3>1. /\ Append(q, x) \in Seq(S) /\ Len(Append(q, x)) = Len(q) + 1 /\ Len(q) \in Nat
          /\ \A i \in 1..Len(q) : Append(q, x)[i] = q[i]
          /\ Append(q, x)[Len(q) + 1] = x
      OBVIOUS
    <3>2. DOMAIN Append(q, x) = DOMAIN q \cup {Len(q) + 1} /\ DOMAIN q = 1..Len(q)
      BY <3>1
    <3> QED
      BY <3>1, <3>2
  <2> HIDE DEF Of
  <2>6. Of(F[k]) = {s[i] : i \in 1..k} \cap T
    <3>1. CASE s[k] \in T
      <4>1. Of(F[k]) = Of(F[k-1]) \cup {s[k]}
        BY <2>2, <2>5, <3>1
      <4> QED
        BY <2>1, <2>4, <3>1, <4>1
    <3>2. CASE s[k] \notin T
      BY <2>1, <2>2, <2>4, <3>2
    <3> QED
      BY <3>1, <3>2
  <2> QED
    BY <2>6
<1> HIDE DEF A, Of
<1>4. Len(s) \in Nat /\ DOMAIN s = 1..Len(s)
  OBVIOUS
<1>5. 0..Len(s) \subseteq A
  BY <1>2, <1>3, <1>4, UpTo
<1>6. Len(s) \in A
  BY <1>4, <1>5
<1>7. Of(F[Len(s)]) = {s[i] : i \in 1..Len(s)} \cap T
  BY <1>6 DEF A
<1> QED
  BY <1>1, <1>4, <1>7 DEF Of

\* All of them, or none.
LEMMA SelectedAll ==
  ASSUME NEW S, NEW s \in Seq(S), NEW T, \A i \in 1..Len(s) : s[i] \in T
  PROVE  Selected(s, T) = s
<1> DEFINE F == [k \in 0..Len(s) |-> SubSeq(s, 1, k)]
<1>1. Len(s) \in Nat
  OBVIOUS
<1>2. ASSUME NEW k \in 1..Len(s) PROVE F[k] = Append(F[k-1], s[k])
  <2>1. SubSeq(s, 1, k) = Append(SubSeq(s, 1, k - 1), s[k])
    OBVIOUS
  <2> QED
    BY <2>1
<1>3. F[0] = <<>> /\ F[Len(s)] = s
  <2>1. SubSeq(s, 1, 0) = <<>> /\ SubSeq(s, 1, Len(s)) = s
    OBVIOUS
  <2> QED
    BY <1>1, <2>1
<1> HIDE DEF F
<1>4. Picks(F, s, T)
  BY <1>2, <1>3 DEF Picks
<1> QED
  BY <1>3, <1>4, SelectedBy

LEMMA SelectedNothing ==
  ASSUME NEW S, NEW s \in Seq(S), NEW T, \A i \in 1..Len(s) : s[i] \notin T
  PROVE  Selected(s, T) = <<>>
<1> DEFINE F == [k \in 0..Len(s) |-> <<>>]
<1>1. Len(s) \in Nat /\ \A k \in 0..Len(s) : F[k] = <<>>
  OBVIOUS
<1>2. \A k \in 1..Len(s) : k \in 0..Len(s) /\ k - 1 \in 0..Len(s)
  BY <1>1
<1> HIDE DEF F
<1>3. Picks(F, s, T)
  BY <1>1, <1>2 DEF Picks
<1>4. Selected(s, T) = F[Len(s)]
  BY <1>3, SelectedBy
<1> QED
  BY <1>1, <1>4

----------------------------------------------------------------------------
(* The turns of the ranks in the files.                                    *)

LEMMA LengthOfSetPositive ==
  ASSUME NEW n \in 1..NProcs
  PROVE  LengthOfSet(n) \in Nat \ {0}
<1>1. NProcs \in Nat /\ n \in Nat /\ n > 0 /\ NProcs + (n - 1) \in Nat /\ NProcs + (n - 1) >= n
  BY NFilesAssumption
<1> DEFINE a == NProcs + (n - 1)
           k == a \div n
<1>2. /\ k \in Nat /\ a % n \in 0..n-1 /\ a = n * k + (a % n)
  BY <1>1, DivMod
<1>3. k # 0
  <2> SUFFICES ASSUME k = 0 PROVE FALSE
    OBVIOUS
  <2>1. n * k = 0
    BY <1>1
  <2> HIDE DEF k, a
  <2>2. a = a % n
    BY <1>2, <2>1
  <2>3. a >= n
    BY <1>1 DEF a
  <2> QED
    BY <1>2, <2>2, <2>3, <1>1
<1> QED
  BY <1>2, <1>3 DEF LengthOfSet

\* The number that divides the ranks into sets or positions.
Divisor(n, group) == IF group THEN n ELSE LengthOfSet(n)

\* Two ranks of one file have different positions.
LEMMA PositionsDiffer ==
  ASSUME NEW n \in 1..NProcs, NEW group \in BOOLEAN, NEW r \in Ranks, NEW q \in Ranks,
         FileNumber(n, r, group) = FileNumber(n, q, group),
         WhichSetPosition(r, n, group) = WhichSetPosition(q, n, group)
  PROVE  r = q
<1> DEFINE b == Divisor(n, group)
<1>1. b \in Nat /\ b > 0
  BY LengthOfSetPositive, NFilesAssumption DEF Divisor
<1>2. r \in Nat /\ q \in Nat
  BY NFilesAssumption DEF Ranks
<1>3. r \div b = q \div b /\ r % b = q % b
  BY DEF Divisor, FileNumber, WhichSetPosition
<1>4. r = b * (r \div b) + (r % b) /\ q = b * (q \div b) + (q % b)
  BY <1>1, <1>2, DivMod
<1> QED
  BY <1>3, <1>4

LEMMA PositionTyped ==
  ASSUME NEW n \in 1..NProcs, NEW group \in BOOLEAN, NEW r \in Ranks
  PROVE  FileNumber(n, r, group) \in Nat /\ WhichSetPosition(r, n, group) \in Nat
<1> DEFINE b == Divisor(n, group)
<1>1. b \in Nat /\ b > 0
  BY LengthOfSetPositive, NFilesAssumption DEF Divisor
<1>2. r \in Nat
  BY NFilesAssumption DEF Ranks
<1>3. r \div b \in Nat /\ r % b \in Nat
  BY <1>1, <1>2, DivMod
<1> QED
  BY <1>3 DEF Divisor, FileNumber, WhichSetPosition

\* The rank that is woken up has the next position in the file.
LEMMA NextPosition ==
  ASSUME nOutFiles \in 1..NProcs, groupSets \in BOOLEAN, NEW r \in Ranks, WakesUp(r)
  PROVE  /\ WakeUpPID(r) \in Ranks /\ Position(WakeUpPID(r)) = Position(r) + 1
         /\ FileNumber(nOutFiles, WakeUpPID(r), groupSets) = FileNumber(nOutFiles, r, groupSets)
<1> DEFINE b == Divisor(nOutFiles, groupSets)
           k == r \div b
           c == r % b
<1>1. b \in Nat \ {0} /\ b > 0
  BY LengthOfSetPositive, NFilesAssumption DEF Divisor
<1>2. r \in Nat /\ WakeUpPID(r) \in Nat
  BY NFilesAssumption DEF Ranks, WakeUpPID
<1>3. k \in Nat /\ c \in 0..b-1 /\ r = b * k + c
  BY <1>1, <1>2, DivMod
<1>4. WakeUpPID(r) \in Ranks
  <2> HIDE DEF b, k, c
  <2>1. WakeUpPID(r) < NProcs
    BY DEF WakesUp
  <2>2. \A i \in Nat : i < NProcs => i \in 0..NProcs-1
    BY NFilesAssumption
  <2> QED
    BY <1>2, <2>1, <2>2 DEF Ranks
<1>5. CASE groupSets
  <2>1. WakeUpPID(r) = r + b
    BY <1>5 DEF WakeUpPID, Divisor
  <2> HIDE DEF b, k, c
  <2>2. r + b = b * (k + 1) + c /\ k + 1 \in Nat
    BY <1>1, <1>3
  <2>3. (r + b) \div b = k + 1 /\ (r + b) % b = c
    BY <1>1, <1>3, <2>2, DivUnique
  <2> QED
    BY <1>4, <1>5, <2>1, <2>3 DEF b, k, c, Position, WhichSetPosition, FileNumber, Divisor
<1>6. CASE ~groupSets
  <2>1. WakeUpPID(r) = r + 1
    BY <1>6 DEF WakeUpPID
  <2>2. (r + 1) % b > c
    BY <1>6, <2>1 DEF WakesUp, Position, WhichSetPosition, Divisor
  <2> HIDE DEF b, k, c
  <2>3. CASE c = b - 1
    <3>1. r + 1 = b * (k + 1) + 0
      BY <1>1, <1>3, <2>3
    <3>2. k + 1 \in Nat /\ 0 \in 0..b-1
      BY <1>1, <1>3
    <3>3. (b * (k + 1) + 0) % b = 0
      BY <1>1, <3>2, DivUnique
    <3> QED
      BY <1>3, <2>2, <3>1, <3>3
  <2>4. CASE c # b - 1
    <3>1. r + 1 = b * k + (c + 1) /\ c + 1 \in 0..b-1
      BY <1>1, <1>3, <2>4
    <3>2. (r + 1) \div b = k /\ (r + 1) % b = c + 1
      BY <1>1, <1>3, <3>1, DivUnique
    <3> QED
      BY <1>4, <1>6, <2>1, <3>2 DEF b, k, c, Position, WhichSetPosition, FileNumber, Divisor
  <2> QED
    BY <2>3, <2>4
<1> QED
  BY <1>5, <1>6

----------------------------------------------------------------------------
(* The inductive invariant.                                                *)

Writing == mode \in {"static", "dynamic"}

Typed ==
  /\ mode \in {"static", "dynamic", "sparse", "read"}
  /\ Writing => nOutFiles \in 1..NProcs /\ groupSets \in BOOLEAN
  /\ mode = "read" => ranks \in RanksInputs
  /\ pc \in [Ranks -> {"ready", "open", "left", "gone", "wait_write", "wait_coordinator",
                       "assign", "wait_done"}]
  /\ mode # "dynamic" => pc \in [Ranks -> {"ready", "open", "left", "gone"}]
  /\ fileNumber \in [Ranks -> Nat]
  /\ availableFileNumbers \subseteq Nat
  /\ \A m \in msgs : m.val \in Nat

\* It is the turn of q, or q has had it.
Woken(q, tag) == pc[q] # "ready" \/ \E m \in msgs : m.tag = tag /\ m.dst = q

\* Static sets: the ranks before q in its file have left.
StaticTurns ==
  mode = "static" =>
    /\ \A r \in Ranks : fileNumber[r] = FileNumber(nOutFiles, r, groupSets)
    /\ \A r, q \in Ranks :
         (fileNumber[r] = fileNumber[q] /\ Position(r) < Position(q) /\ Woken(q, "stWrite"))
         => Left(r)

\* Reading: the ranks before q in the chain have left.
ReadTurns ==
  mode = "read" =>
    /\ \A r \in Ranks : pc[r] = "open" => r \in ToSet(ranks)
    /\ \A k \in 1..Len(ranks) : Woken(ranks[k], "stRead") =>
         \A j \in 1..k-1 : Left(ranks[j])

\* One file per rank.
OwnFile == mode = "sparse" => \A r \in Ranks : fileNumber[r] = r

\* Dynamic sets: a file is with a rank that has it open, or is about to open it or to give
\* it away, or it is named by a message, or the coordinator lists it as available; and it
\* is so in one place only.
Holds(r) ==
  pc[r] = "open" \/ (Position(r) = 0 /\ pc[r] \in {"ready", "wait_coordinator"})

Carriers == {m \in msgs : m.tag \in {"write", "done"}}

OnePlace ==
  mode = "dynamic" =>
    /\ \A r \in Ranks : pc[r] = "wait_coordinator" => Position(r) = 0
    /\ \A r, q \in Ranks : (r # q /\ Holds(r) /\ Holds(q)) => fileNumber[r] # fileNumber[q]
    /\ \A r \in Ranks : Holds(r) => fileNumber[r] \notin availableFileNumbers
    /\ \A r \in Ranks, m \in Carriers : Holds(r) => fileNumber[r] # m.val
    /\ \A m \in Carriers : m.val \notin availableFileNumbers
    /\ \A m, n \in Carriers : m # n => m.val # n.val

IInv == Typed /\ StaticTurns /\ ReadTurns /\ OwnFile /\ OnePlace

LEMMA RanksNat == Ranks \subseteq Nat
  BY NFilesAssumption DEF Ranks

\* The ranks given to SetSparseFPP, or to read, are different ones, hence not too many.
LEMMA RanksGiven ==
  ASSUME NEW s \in RanksInputs
  PROVE  /\ s \in Seq(Ranks) /\ DOMAIN s = 1..Len(s) /\ Len(s) \in 1..NProcs
         /\ \A i \in 1..Len(s) : s[i] \in Ranks
         /\ \A i, j \in 1..Len(s) : s[i] = s[j] => i = j
<1>1. /\ s \in Seq(Ranks) /\ DOMAIN s = 1..Len(s) /\ Len(s) \in Nat /\ s \in [1..Len(s) -> Ranks]
      /\ \A i, j \in 1..Len(s) : s[i] = s[j] => i = j
  <2>1. s \in Seq(Ranks) /\ IsInjective(s)
    BY NFilesAssumption
  <2>2. DOMAIN s = 1..Len(s) /\ Len(s) \in Nat /\ s \in [1..Len(s) -> Ranks]
    BY <2>1
  <2> QED
    BY <2>1, <2>2 DEF IsInjective
<1>2. NProcs \in Nat \ {0} /\ s # <<>>
  BY NFilesAssumption
<1>3. Len(s) # 0
  BY <1>1, <1>2
<1>4. IsFiniteSet(Ranks) /\ Cardinality(Ranks) = NProcs
  BY <1>2, FS_Interval DEF Ranks
<1>5. IsFiniteSet(1..Len(s)) /\ Cardinality(1..Len(s)) = Len(s)
  BY <1>1, <1>3, FS_Interval
<1>6. ~(NProcs < Len(s))
  <2> SUFFICES ASSUME Cardinality(Ranks) < Cardinality(1..Len(s)) PROVE FALSE
    BY <1>4, <1>5
  <2>1. \E i, j \in 1..Len(s) : i # j /\ s[i] = s[j]
    BY <1>1, <1>4, <1>5, FS_PigeonHole
  <2> QED
    BY <1>1, <2>1
<1>7. Len(s) \in 1..NProcs
  BY <1>1, <1>2, <1>3, <1>6
<1> QED
  BY <1>1, <1>7

LEMMA ActualNFilesTyped ==
  ASSUME NEW n \in OutFilesInputs
  PROVE  ActualNFiles(n) \in 1..NProcs
  BY NFilesAssumption DEF Ranks, ActualNFiles, Smaller

LEMMA InitInv == Init => IInv
<1> SUFFICES ASSUME Init PROVE IInv
  OBVIOUS
<1> USE DEF Init
<1>1. CASE InitWriting
  <2>1. nOutFiles \in 1..NProcs /\ groupSets \in BOOLEAN /\ Writing
    BY <1>1, ActualNFilesTyped DEF InitWriting, Writing
  <2>2. \A r \in Ranks : fileNumber[r] = FileNumber(nOutFiles, r, groupSets)
    BY <1>1 DEF InitWriting
  <2>3. \A r \in Ranks : fileNumber[r] \in Nat /\ Position(r) \in Nat
    BY <2>1, <2>2, PositionTyped DEF Position
  <2>4. Typed
    BY <1>1, <2>1, <2>3 DEF Typed, Writing, InitWriting
  <2>5. StaticTurns
    BY <2>2 DEF StaticTurns, Woken
  <2>6. \A r, q \in Ranks : (r # q /\ Holds(r) /\ Holds(q)) => fileNumber[r] # fileNumber[q]
    <3> SUFFICES ASSUME NEW r \in Ranks, NEW q \in Ranks, Holds(r), Holds(q),
                        fileNumber[r] = fileNumber[q]
                 PROVE  r = q
      OBVIOUS
    <3>1. Position(r) = 0 /\ Position(q) = 0
      BY DEF Holds
    <3>2. FileNumber(nOutFiles, r, groupSets) = FileNumber(nOutFiles, q, groupSets)
      BY <2>2
    <3>3. WhichSetPosition(r, nOutFiles, groupSets) = WhichSetPosition(q, nOutFiles, groupSets)
      BY <3>1 DEF Position
    <3> QED
      BY <2>1, <3>2, <3>3, PositionsDiffer
  <2>7. OnePlace
    BY <2>6 DEF OnePlace, Carriers
  <2>8. ReadTurns /\ OwnFile
    BY <2>1 DEF Writing, ReadTurns, OwnFile
  <2> QED
    BY <2>4, <2>5, <2>7, <2>8 DEF IInv
<1>2. CASE InitRanks
  <2>1. Typed
    BY <1>2, RanksNat DEF InitRanks, Typed, Writing
  <2>2. \A k \in 1..Len(ranks) : ranks[k] \in Ranks
    BY <1>2, RanksGiven DEF InitRanks
  <2>3. ReadTurns
    BY <2>2 DEF ReadTurns, Woken
  <2>4. StaticTurns /\ OwnFile /\ OnePlace
    BY <1>2 DEF InitRanks, StaticTurns, OwnFile, OnePlace
  <2> QED
    BY <2>1, <2>3, <2>4 DEF IInv
<1> QED
  BY <1>1, <1>2

----------------------------------------------------------------------------
(* Steps.                                                                  *)

LEMMA TypedStep ==
  ASSUME Typed, OnePlace, NEW r \in Ranks, Rank(r)
  PROVE  Typed'
<1> USE RanksNat DEF Goto, Message
<1>1. CASE StaticReady(r)
  BY <1>1 DEF Typed, StaticReady, config, coord, Writing
<1>2. CASE StaticNext(r)
  BY <1>2 DEF Typed, StaticNext, config, coord, Writing
<1>3. CASE SparseReady(r)
  BY <1>3 DEF Typed, SparseReady, config, coord, Writing
<1>4. CASE SparseNext(r)
  BY <1>4 DEF Typed, SparseNext, config, coord, Writing
<1>5. CASE ReadyToRead(r)
  BY <1>5 DEF Typed, ReadyToRead, config, coord, Writing
<1>6. CASE ReadNext(r)
  BY <1>6 DEF Typed, ReadNext, config, coord, Writing
<1>7. CASE SetZeroReady(r)
  BY <1>7 DEF Typed, SetZeroReady, config, coord, Writing
<1>8. CASE Decide(r)
  BY <1>8 DEF Typed, Decide, config, coord, Writing
<1>9. CASE ReceiveFile(r)
  BY <1>9 DEF Typed, ReceiveFile, config, coord, Writing
<1>10. CASE DynamicNext(r)
  BY <1>10 DEF Typed, DynamicNext, config, coord, Writing
<1>11. CASE LearnCoordinator(r)
  <2> PICK m \in msgs :
        /\ IF m.val = r
           THEN BecomeCoordinator(r) /\ Goto(r, "assign") /\ msgs' = msgs \ {m}
           ELSE /\ msgs' = (msgs \ {m}) \cup {Message("done", r, m.val, fileNumber[r])}
                /\ Goto(r, "left")
                /\ UNCHANGED coord
    BY <1>11 DEF LearnCoordinator
  <2>1. mode = "dynamic" /\ UNCHANGED <<config, fileNumber>>
    BY <1>11 DEF LearnCoordinator
  <2>2. CASE m.val = r
    <3>1. availableFileNumbers' = {fileNumber[r]} /\ Goto(r, "assign") /\ msgs' = msgs \ {m}
      BY <2>2 DEF BecomeCoordinator, FirstAvailable
    <3> QED
      BY <2>1, <3>1 DEF Typed, config, Writing
  <2>3. CASE m.val # r
    BY <2>1, <2>3 DEF Typed, config, coord, Writing
  <2> QED
    BY <2>2, <2>3
<1>12. CASE Assign(r)
  <2>1. mode = "dynamic" /\ UNCHANGED <<config, fileNumber>>
    BY <1>12 DEF Assign, Typed
  <2> PICK f \in availableFileNumbers :
       /\ availableFileNumbers' = availableFileNumbers \ {f}
       /\ IF NextQueue(f) = {}
          THEN /\ UNCHANGED <<msgs, pc>>
          ELSE \E k \in NextQueue(f) :
                 LET p == Head(procsToWrite[k])
                 IN /\ msgs' = msgs \cup {Message("write", r, p, f)}
                    /\ Goto(r, "wait_done")
    BY <1>12 DEF Assign
  <2>2. CASE NextQueue(f) = {}
    BY <2>1, <2>2 DEF Typed, config, Writing
  <2>3. CASE NextQueue(f) # {}
    BY <2>1, <2>3 DEF Typed, config, Writing
  <2> QED
    BY <2>2, <2>3
<1>13. CASE WaitDone(r)
  BY <1>13 DEF Typed, WaitDone, config, Writing
<1>14. CASE AllAssigned(r)
  BY <1>14 DEF Typed, AllAssigned, config, coord, Writing
<1>15. CASE CleanUpMessages(r)
  BY <1>15 DEF Typed, CleanUpMessages, config, coord, Writing
<1>16. CASE Destroy(r)
  BY <1>16 DEF Typed, Destroy, config, coord, Writing
<1> QED
  BY <1>1, <1>2, <1>3, <1>4, <1>5, <1>6, <1>7, <1>8, <1>9, <1>10, <1>11, <1>12, <1>13,
     <1>14, <1>15, <1>16 DEF Rank

\* The steps of a rank whose sets are not dynamic.
LEMMA FixedSteps ==
  ASSUME Typed, mode # "dynamic", NEW r \in Ranks, Rank(r)
  PROVE  /\ UNCHANGED <<config, fileNumber>>
         /\ \/ StaticReady(r) \/ StaticNext(r) \/ SparseReady(r) \/ SparseNext(r)
            \/ ReadyToRead(r) \/ ReadNext(r)
            \/ (\A q \in Ranks : pc'[q] = pc[q] \/ (Left(q) /\ pc'[q] = "gone"))
               /\ msgs' \subseteq msgs
<1>1. pc \in [Ranks -> {"ready", "open", "left", "gone"}]
  BY DEF Typed
<1>2. ~Assign(r) /\ ~WaitDone(r) /\ ~AllAssigned(r) /\ ~SetZeroReady(r) /\ ~Decide(r)
      /\ ~ReceiveFile(r) /\ ~DynamicNext(r) /\ ~LearnCoordinator(r)
  BY <1>1 DEF Assign, WaitDone, AllAssigned, SetZeroReady, Decide, ReceiveFile, DynamicNext,
              LearnCoordinator
<1>3. CASE CleanUpMessages(r)
  BY <1>3 DEF CleanUpMessages
<1>4. CASE Destroy(r)
  BY <1>1, <1>4 DEF Destroy, Goto, Left
<1>5. CASE StaticReady(r) \/ StaticNext(r)
  BY <1>5 DEF StaticReady, StaticNext
<1>6. CASE SparseReady(r) \/ SparseNext(r)
  BY <1>6 DEF SparseReady, SparseNext
<1>7. CASE ReadyToRead(r) \/ ReadNext(r)
  BY <1>7 DEF ReadyToRead, ReadNext
<1> QED
  BY <1>2, <1>3, <1>4, <1>5, <1>6, <1>7 DEF Rank

LEMMA ModeKept ==
  ASSUME NEW r \in Ranks, Rank(r)
  PROVE  UNCHANGED config
  BY DEF Rank, StaticReady, StaticNext, SparseReady, SparseNext, ReadyToRead, ReadNext,
         SetZeroReady, Decide, ReceiveFile, DynamicNext, LearnCoordinator, Assign, WaitDone,
         AllAssigned, CleanUpMessages, Destroy

LEMMA OwnFileStep ==
  ASSUME Typed, OwnFile, NEW r \in Ranks, Rank(r)
  PROVE  OwnFile'
<1>1. CASE mode # "dynamic"
  BY <1>1, FixedSteps DEF OwnFile, config
<1>2. CASE mode = "dynamic"
  BY <1>2, ModeKept DEF OwnFile, config
<1> QED
  BY <1>1, <1>2

(* Static sets.                                                            *)

LEMMA StaticStep ==
  ASSUME Typed, StaticTurns, NEW p \in Ranks, Rank(p)
  PROVE  StaticTurns'
<1>1. CASE mode # "static"
  <2>1. mode' = mode
    BY ModeKept DEF config
  <2> QED
    BY <1>1, <2>1 DEF StaticTurns
<1>2. CASE mode = "static"
  <2>1. /\ UNCHANGED <<config, fileNumber>> /\ mode # "dynamic"
        /\ nOutFiles \in 1..NProcs /\ groupSets \in BOOLEAN
        /\ pc \in [Ranks -> {"ready", "open", "left", "gone"}]
    BY <1>2, FixedSteps DEF Typed, Writing
  <2>2. \A r \in Ranks : fileNumber'[r] = FileNumber(nOutFiles', r, groupSets')
    BY <1>2, <2>1 DEF StaticTurns, config
  <2>3. \A r \in Ranks : Position(r)' = Position(r) /\ Position(r) \in Nat
    BY <2>1, PositionTyped DEF Position, config
  <2>4. /\ \A r \in Ranks : Left(r) => Left(r)'
        /\ \A q \in Ranks : Woken(q, "stWrite")' =>
             \/ Woken(q, "stWrite")
             \/ Position(q) = 0
             \/ pc[p] = "open" /\ Left(p)' /\ WakesUp(p) /\ q = WakeUpPID(p)
    <3>1. CASE StaticReady(p)
      <4>1. CASE Position(p) = 0
        BY <2>1, <3>1, <4>1 DEF StaticReady, Goto, Woken, Left
      <4>2. CASE Position(p) > 0
        <5>1. Woken(p, "stWrite") /\ msgs' \subseteq msgs
          BY <3>1, <4>2 DEF StaticReady, Woken
        <5> QED
          BY <2>1, <3>1, <5>1 DEF StaticReady, Goto, Woken, Left
      <4> QED
        BY <2>3, <4>1, <4>2
    <3>2. CASE StaticNext(p)
      <4>1. pc[p] = "open" /\ pc' = [pc EXCEPT ![p] = "left"]
        BY <3>2 DEF StaticNext, Goto
      <4>2. \A m \in msgs' : m \in msgs \/ (WakesUp(p) /\ m.dst = WakeUpPID(p))
        BY <3>2 DEF StaticNext, Message
      <4> QED
        BY <2>1, <4>1, <4>2 DEF Woken, Left
    <3>3. CASE /\ \A q \in Ranks : pc'[q] = pc[q] \/ (Left(q) /\ pc'[q] = "gone")
               /\ msgs' \subseteq msgs
      BY <3>3 DEF Woken, Left
    <3> QED
      BY <1>2, <2>1, <3>1, <3>2, <3>3, FixedSteps
         DEF SparseReady, SparseNext, ReadyToRead, ReadNext
  <2>5. ASSUME NEW r \in Ranks, NEW q \in Ranks, fileNumber[r] = fileNumber[q],
               Position(r) < Position(q), Woken(q, "stWrite")'
        PROVE  Left(r)'
    <3>1. CASE Woken(q, "stWrite")
      BY <1>2, <2>4, <2>5, <3>1 DEF StaticTurns
    <3>2. CASE pc[p] = "open" /\ Left(p)' /\ WakesUp(p) /\ q = WakeUpPID(p)
      <4>1. /\ Position(q) = Position(p) + 1
            /\ FileNumber(nOutFiles, q, groupSets) = FileNumber(nOutFiles, p, groupSets)
        BY <2>1, <3>2, NextPosition
      <4>2. fileNumber[p] = fileNumber[q]
        BY <1>2, <4>1 DEF StaticTurns
      <4>3. CASE Position(r) = Position(p)
        <5>1. r = p
          BY <1>2, <2>1, <2>5, <4>2, <4>3, PositionsDiffer DEF StaticTurns, Position
        <5> QED
          BY <3>2, <5>1
      <4>4. CASE Position(r) < Position(p)
        <5>1. Woken(p, "stWrite")
          BY <3>2 DEF Woken
        <5>2. Left(r)
          BY <1>2, <2>5, <4>2, <4>4, <5>1 DEF StaticTurns
        <5> QED
          BY <2>4, <5>2
      <4> QED
        BY <2>3, <2>5, <4>1, <4>3, <4>4
    <3> QED
      BY <2>3, <2>4, <2>5, <3>1, <3>2
  <2> QED
    BY <2>1, <2>2, <2>3, <2>5 DEF StaticTurns
<1> QED
  BY <1>1, <1>2

(* Reading.                                                                *)

LEMMA ReadStep ==
  ASSUME Typed, ReadTurns, NEW p \in Ranks, Rank(p)
  PROVE  ReadTurns'
<1>1. CASE mode # "read"
  <2>1. mode' = mode
    BY ModeKept DEF config
  <2> QED
    BY <1>1, <2>1 DEF ReadTurns
<1>2. CASE mode = "read"
  <2>1. /\ mode' = mode /\ ranks' = ranks /\ mode # "dynamic"
        /\ ranks \in RanksInputs
        /\ pc \in [Ranks -> {"ready", "open", "left", "gone"}]
    BY <1>2, FixedSteps DEF Typed, config
  <2>2. /\ \A k \in 1..Len(ranks) : ranks[k] \in Ranks
        /\ \A i, k \in 1..Len(ranks) : ranks[i] = ranks[k] => i = k
        /\ Len(ranks) \in Nat
    BY <2>1, RanksGiven
  <2>3. /\ \A r \in Ranks : Left(r) => Left(r)'
        /\ \A q \in Ranks : pc'[q] = "open" => q \in ToSet(ranks)
        /\ \A q \in Ranks : Woken(q, "stRead")' =>
             \/ Woken(q, "stRead")
             \/ q \notin ToSet(ranks)
             \/ Predecessor(q) = {}
             \/ pc[p] = "open" /\ Left(p)' /\ q \in Successor(p)
    <3>0. \A q \in Ranks : pc[q] = "open" => q \in ToSet(ranks)
      BY <1>2 DEF ReadTurns
    <3>1. CASE ReadyToRead(p)
      <4>1. CASE ~Contains(ranks, p)
        BY <2>1, <3>0, <3>1, <4>1 DEF ReadyToRead, Goto, Woken, Left, Contains, ToSet
      <4>2. CASE Contains(ranks, p)
        <5>1. p \in ToSet(ranks)
          BY <4>2 DEF Contains, ToSet
        <5>2. pc[p] = "ready" /\ pc' = [pc EXCEPT ![p] = "open"] /\ msgs' \subseteq msgs
              /\ (Predecessor(p) = {} \/ Woken(p, "stRead"))
          BY <3>1, <4>2 DEF ReadyToRead, Goto, Woken
        <5> QED
          BY <2>1, <3>0, <5>1, <5>2 DEF Woken, Left
      <4> QED
        BY <4>1, <4>2
    <3>2. CASE ReadNext(p)
      <4>1. pc[p] = "open" /\ pc' = [pc EXCEPT ![p] = "left"]
        BY <3>2 DEF ReadNext, Goto
      <4>2. \A m \in msgs' : m \in msgs \/ m.dst \in Successor(p)
        BY <3>2 DEF ReadNext, Message
      <4> QED
        BY <2>1, <3>0, <4>1, <4>2 DEF Woken, Left
    <3>3. CASE /\ \A q \in Ranks : pc'[q] = pc[q] \/ (Left(q) /\ pc'[q] = "gone")
               /\ msgs' \subseteq msgs
      BY <3>0, <3>3 DEF Woken, Left
    <3> QED
      BY <1>2, <2>1, <3>1, <3>2, <3>3, FixedSteps
         DEF StaticReady, StaticNext, SparseReady, SparseNext
  <2>4. ASSUME NEW k \in 1..Len(ranks), Woken(ranks[k], "stRead")', NEW j \in 1..k-1
        PROVE  Left(ranks[j])'
    <3>1. j \in 1..Len(ranks) /\ j < k /\ ranks[j] \in Ranks /\ ranks[k] \in Ranks
      BY <2>2
    <3>2. CASE Woken(ranks[k], "stRead")
      BY <1>2, <2>1, <2>3, <3>1, <3>2 DEF ReadTurns
    <3>3. ranks[k] \in ToSet(ranks)
      BY DEF ToSet
    <3>4. Predecessor(ranks[k]) # {}
      <4>1. k - 1 \in 1..Len(ranks)-1 /\ ranks[(k - 1) + 1] = ranks[k]
        BY <2>2, <3>1
      <4>2. ranks[k - 1] \in Predecessor(ranks[k])
        BY <4>1 DEF Predecessor
      <4> QED
        BY <4>2
    <3>5. CASE pc[p] = "open" /\ Left(p)' /\ ranks[k] \in Successor(p)
      <4>1. PICK i \in 2..Len(ranks) : ranks[i - 1] = p /\ ranks[i] = ranks[k]
        BY <3>5 DEF Successor
      <4>2. i = k /\ k - 1 \in 1..Len(ranks) /\ ranks[k - 1] = p
        BY <2>2, <4>1
      <4>3. CASE j = k - 1
        BY <2>1, <3>5, <4>2, <4>3
      <4>4. CASE j # k - 1
        <5>1. j \in 1..(k - 1)-1
          BY <3>1, <4>4
        <5>2. Woken(ranks[k - 1], "stRead")
          BY <3>5, <4>2 DEF Woken
        <5>3. Left(ranks[j])
          BY <1>2, <4>2, <5>1, <5>2 DEF ReadTurns
        <5> QED
          BY <2>1, <2>3, <3>1, <5>3
      <4> QED
        BY <4>3, <4>4
    <3> QED
      BY <2>1, <2>3, <2>4, <3>1, <3>2, <3>3, <3>4, <3>5
  <2> QED
    BY <2>1, <2>3, <2>4 DEF ReadTurns, Left
<1> QED
  BY <1>1, <1>2

(* Dynamic sets.                                                           *)

LEMMA DynamicSteps ==
  ASSUME Typed, mode = "dynamic", NEW r \in Ranks, Rank(r)
  PROVE  \/ SetZeroReady(r) \/ Decide(r) \/ ReceiveFile(r) \/ DynamicNext(r)
         \/ LearnCoordinator(r) \/ Assign(r) \/ WaitDone(r) \/ AllAssigned(r)
         \/ CleanUpMessages(r) \/ Destroy(r)
  BY DEF Rank, StaticReady, StaticNext, SparseReady, SparseNext, ReadyToRead, ReadNext

LEMMA PositionKept ==
  ASSUME UNCHANGED config, NEW q
  PROVE  Position(q)' = Position(q)
  BY DEF config, Position

\* No rank takes a file, no message or list names one anew.
LEMMA OnePlaceFewer ==
  ASSUME Typed, Typed', OnePlace, mode = "dynamic", UNCHANGED <<config, fileNumber>>,
         \A q \in Ranks : Holds(q)' => Holds(q),
         \A q \in Ranks : pc'[q] = "wait_coordinator" => Position(q) = 0,
         Carriers' \subseteq Carriers, availableFileNumbers' \subseteq availableFileNumbers
  PROVE  OnePlace'
<1>1. \A q \in Ranks : Position(q)' = Position(q)
  BY PositionKept
<1> QED
  BY <1>1 DEF OnePlace, config

LEMMA OnePlaceStep ==
  ASSUME Typed, OnePlace, NEW p \in Ranks, Rank(p)
  PROVE  OnePlace'
<1>1. CASE mode # "dynamic"
  BY <1>1, ModeKept DEF OnePlace, config
<1>2. CASE mode = "dynamic"
  <2>1. /\ UNCHANGED config /\ mode' = "dynamic"
        /\ \A q \in Ranks : Position(q)' = Position(q)
    BY <1>2, ModeKept, PositionKept DEF config
  <2>2. pc \in [Ranks -> {"ready", "open", "left", "gone", "wait_write", "wait_coordinator",
                          "assign", "wait_done"}]
        /\ fileNumber \in [Ranks -> Nat]
    BY DEF Typed
  <2>3. Typed'
    BY TypedStep
  <2>4. \A r \in Ranks : pc[r] = "wait_coordinator" => Position(r) = 0
    BY <1>2 DEF OnePlace
  <2>5. CASE SetZeroReady(p)
    <3>1. /\ \A q \in Ranks : Holds(q)' => Holds(q)
          /\ \A q \in Ranks : pc'[q] = "wait_coordinator" => Position(q) = 0
          /\ Carriers' = Carriers
      BY <2>1, <2>2, <2>4, <2>5 DEF SetZeroReady, Goto, Holds, Carriers
    <3> QED
      BY <1>2, <2>1, <2>3, <2>5, <3>1, OnePlaceFewer DEF SetZeroReady, coord
  <2>6. CASE Decide(p)
    <3>1. /\ \A q \in Ranks : Holds(q)' => Holds(q)
          /\ \A q \in Ranks : pc'[q] = "wait_coordinator" => Position(q) = 0
      BY <2>1, <2>2, <2>4, <2>6 DEF Decide, Goto, Holds
    <3>2. Carriers' \subseteq Carriers
      BY <2>6 DEF Decide, Message, Carriers
    <3> QED
      BY <1>2, <2>1, <2>3, <2>6, <3>1, <3>2, OnePlaceFewer DEF Decide, coord
  <2>7. CASE ReceiveFile(p)
    <3> PICK m \in msgs : /\ m.dst = p /\ m.tag = "write"
                          /\ fileNumber' = [fileNumber EXCEPT ![p] = m.val]
                          /\ msgs' = msgs \ {m}
      BY <2>7 DEF ReceiveFile
    <3>1. m \in Carriers /\ Carriers' = Carriers \ {m}
      BY DEF Carriers
    <3>2. pc' = [pc EXCEPT ![p] = "open"] /\ UNCHANGED availableFileNumbers
      BY <2>7 DEF ReceiveFile, Goto, coord
    <3>3. /\ \A q \in Ranks : q # p /\ Holds(q)' => Holds(q) /\ fileNumber'[q] = fileNumber[q]
          /\ fileNumber'[p] = m.val
      BY <2>1, <2>2, <3>2 DEF Holds
    <3>4. /\ \A q \in Ranks : Holds(q) => fileNumber[q] # m.val
          /\ m.val \notin availableFileNumbers
          /\ \A n \in Carriers' : n \in Carriers /\ n.val # m.val
      BY <1>2, <3>1 DEF OnePlace
    <3>5. \A r \in Ranks : pc'[r] = "wait_coordinator" => Position(r)' = 0
      BY <2>1, <2>2, <2>4, <3>2
    <3>6. \A r, q \in Ranks : (r # q /\ Holds(r)' /\ Holds(q)') => fileNumber'[r] # fileNumber'[q]
      BY <1>2, <3>3, <3>4 DEF OnePlace
    <3>7. \A r \in Ranks : Holds(r)' => fileNumber'[r] \notin availableFileNumbers'
      BY <1>2, <3>2, <3>3, <3>4 DEF OnePlace
    <3>8. \A r \in Ranks, n \in Carriers' : Holds(r)' => fileNumber'[r] # n.val
      BY <1>2, <3>3, <3>4 DEF OnePlace
    <3>9. /\ \A n \in Carriers' : n.val \notin availableFileNumbers'
          /\ \A n, o \in Carriers' : n # o => n.val # o.val
      BY <1>2, <3>2, <3>4 DEF OnePlace
    <3> QED
      BY <3>5, <3>6, <3>7, <3>8, <3>9 DEF OnePlace
  <2>8. CASE DynamicNext(p) /\ Position(p) = 0
    <3>1. /\ \A q \in Ranks : Holds(q)' => Holds(q)
          /\ \A q \in Ranks : pc'[q] = "wait_coordinator" => Position(q) = 0
      BY <2>1, <2>2, <2>4, <2>8 DEF DynamicNext, Goto, Holds
    <3>2. Carriers' \subseteq Carriers
      BY <2>8 DEF DynamicNext, Message, Carriers
    <3> QED
      BY <1>2, <2>1, <2>3, <2>8, <3>1, <3>2, OnePlaceFewer DEF DynamicNext, coord
  <2>9. ASSUME NEW n, n \in [tag : {"done"}, src : {p}, dst : Ranks \cup {n.dst},
                             val : {fileNumber[p]}],
               msgs' \subseteq msgs \cup {n}, Holds(p), pc' = [pc EXCEPT ![p] = "left"],
               UNCHANGED <<fileNumber, availableFileNumbers>>
        PROVE  OnePlace'
    <3>1. n.val = fileNumber[p] /\ Carriers' \subseteq Carriers \cup {n}
      BY <2>9 DEF Carriers
    <3>2. \A q \in Ranks : Holds(q)' => Holds(q) /\ q # p
      BY <2>1, <2>2, <2>9 DEF Holds
    <3>3. \A r \in Ranks : pc'[r] = "wait_coordinator" => Position(r)' = 0
      BY <2>1, <2>2, <2>4, <2>9
    <3>4. \A r, q \in Ranks : (r # q /\ Holds(r)' /\ Holds(q)') => fileNumber'[r] # fileNumber'[q]
      BY <1>2, <2>9, <3>2 DEF OnePlace
    <3>5. \A r \in Ranks : Holds(r)' => fileNumber'[r] \notin availableFileNumbers'
      BY <1>2, <2>9, <3>2 DEF OnePlace
    <3>6. \A r \in Ranks, o \in Carriers' : Holds(r)' => fileNumber'[r] # o.val
      BY <1>2, <2>9, <3>1, <3>2 DEF OnePlace
    <3>7. /\ \A o \in Carriers' : o.val \notin availableFileNumbers'
          /\ \A m, o \in Carriers' : m # o => m.val # o.val
      BY <1>2, <2>9, <3>1 DEF OnePlace
    <3> QED
      BY <3>3, <3>4, <3>5, <3>6, <3>7 DEF OnePlace
  <2>10. CASE DynamicNext(p) /\ Position(p) # 0
    <3> DEFINE n == Message("done", p, coordinatorProc[p], fileNumber[p])
    <3>1. n \in [tag : {"done"}, src : {p}, dst : Ranks \cup {n.dst}, val : {fileNumber[p]}]
      BY DEF Message
    <3>2. /\ msgs' = msgs \cup {n} /\ Holds(p) /\ pc' = [pc EXCEPT ![p] = "left"]
          /\ UNCHANGED <<fileNumber, availableFileNumbers>>
      BY <2>10 DEF DynamicNext, Goto, coord, Holds
    <3> HIDE DEF n
    <3> QED
      BY <2>9, <3>1, <3>2
  <2>11. CASE LearnCoordinator(p)
    <3> PICK m \in msgs :
          /\ m.tag = "coordinator"
          /\ IF m.val = p
             THEN BecomeCoordinator(p) /\ Goto(p, "assign") /\ msgs' = msgs \ {m}
             ELSE /\ msgs' = (msgs \ {m}) \cup {Message("done", p, m.val, fileNumber[p])}
                  /\ Goto(p, "left")
                  /\ UNCHANGED coord
      BY <2>11 DEF LearnCoordinator
    <3>1. pc[p] = "wait_coordinator" /\ UNCHANGED fileNumber
      BY <2>11 DEF LearnCoordinator
    <3>2. Holds(p)
      BY <2>4, <3>1 DEF Holds
    <3>3. CASE m.val = p
      <4>1. /\ availableFileNumbers' = {fileNumber[p]} /\ pc' = [pc EXCEPT ![p] = "assign"]
            /\ Carriers' \subseteq Carriers
        BY <3>3 DEF BecomeCoordinator, FirstAvailable, Goto, Carriers
      <4>2. \A q \in Ranks : Holds(q)' => Holds(q) /\ q # p
        BY <2>1, <2>2, <4>1 DEF Holds
      <4>3. \A r \in Ranks : pc'[r] = "wait_coordinator" => Position(r)' = 0
        BY <2>1, <2>2, <2>4, <4>1
      <4>4. \A r, q \in Ranks :
              (r # q /\ Holds(r)' /\ Holds(q)') => fileNumber'[r] # fileNumber'[q]
        BY <1>2, <3>1, <4>2 DEF OnePlace
      <4>5. \A r \in Ranks : Holds(r)' => fileNumber'[r] \notin availableFileNumbers'
        BY <1>2, <3>1, <3>2, <4>1, <4>2 DEF OnePlace
      <4>6. \A r \in Ranks, o \in Carriers' : Holds(r)' => fileNumber'[r] # o.val
        BY <1>2, <3>1, <4>1, <4>2 DEF OnePlace
      <4>7. /\ \A o \in Carriers' : o.val \notin availableFileNumbers'
            /\ \A n, o \in Carriers' : n # o => n.val # o.val
        BY <1>2, <3>2, <4>1 DEF OnePlace
      <4> QED
        BY <4>3, <4>4, <4>5, <4>6, <4>7 DEF OnePlace
    <3>4. CASE m.val # p
      <4> DEFINE n == Message("done", p, m.val, fileNumber[p])
      <4>1. n \in [tag : {"done"}, src : {p}, dst : Ranks \cup {n.dst}, val : {fileNumber[p]}]
        BY DEF Message
      <4>2. /\ msgs' \subseteq msgs \cup {n} /\ pc' = [pc EXCEPT ![p] = "left"]
            /\ UNCHANGED availableFileNumbers
        BY <3>4 DEF Goto, coord
      <4> HIDE DEF n
      <4> QED
        BY <2>9, <3>1, <3>2, <4>1, <4>2
    <3> QED
      BY <3>3, <3>4
  <2>12. CASE Assign(p)
    <3>1. pc[p] = "assign" /\ UNCHANGED fileNumber
      BY <2>12 DEF Assign
    <3> PICK f \in availableFileNumbers :
         /\ availableFileNumbers' = availableFileNumbers \ {f}
         /\ IF NextQueue(f) = {}
            THEN UNCHANGED <<msgs, pc>>
            ELSE \E k \in NextQueue(f) :
                   LET q == Head(procsToWrite[k])
                   IN /\ msgs' = msgs \cup {Message("write", p, q, f)}
                      /\ Goto(p, "wait_done")
      BY <2>12 DEF Assign
    <3>2. CASE NextQueue(f) = {}
      <4>1. /\ \A q \in Ranks : Holds(q)' => Holds(q)
            /\ \A q \in Ranks : pc'[q] = "wait_coordinator" => Position(q) = 0
            /\ Carriers' \subseteq Carriers
        BY <2>1, <2>4, <3>2 DEF Holds, Carriers
      <4> QED
        BY <1>2, <2>1, <2>3, <3>1, <4>1, OnePlaceFewer
    <3>3. CASE NextQueue(f) # {}
      <4> PICK k \in NextQueue(f) :
            msgs' = msgs \cup {Message("write", p, Head(procsToWrite[k]), f)}
        BY <3>3
      <4> DEFINE n == Message("write", p, Head(procsToWrite[k]), f)
      <4>1. pc' = [pc EXCEPT ![p] = "wait_done"]
        BY <3>3 DEF Goto
      <4>2. n.val = f
        BY DEF Message
      <4> HIDE DEF n
      <4>3. Carriers' \subseteq Carriers \cup {n}
        BY DEF Carriers, n
      <4>4. \A q \in Ranks : Holds(q)' => Holds(q)
        BY <2>1, <2>2, <4>1 DEF Holds
      <4>5. \A r \in Ranks : pc'[r] = "wait_coordinator" => Position(r)' = 0
        BY <2>1, <2>2, <2>4, <4>1
      <4>6. \A r, q \in Ranks :
              (r # q /\ Holds(r)' /\ Holds(q)') => fileNumber'[r] # fileNumber'[q]
        BY <1>2, <3>1, <4>4 DEF OnePlace
      <4>7. \A r \in Ranks : Holds(r)' => fileNumber'[r] \notin availableFileNumbers'
        BY <1>2, <3>1, <4>4 DEF OnePlace
      <4>8. \A r \in Ranks, o \in Carriers' : Holds(r)' => fileNumber'[r] # o.val
        BY <1>2, <3>1, <4>2, <4>3, <4>4 DEF OnePlace
      <4>9. /\ \A o \in Carriers' : o.val \notin availableFileNumbers'
            /\ \A m, o \in Carriers' : m # o => m.val # o.val
        BY <1>2, <4>2, <4>3 DEF OnePlace
      <4> QED
        BY <4>5, <4>6, <4>7, <4>8, <4>9 DEF OnePlace
    <3> QED
      BY <3>2, <3>3
  <2>13. CASE WaitDone(p)
    <3> PICK m \in msgs : /\ m.tag = "done" /\ msgs' = msgs \ {m}
                          /\ availableFileNumbers' = availableFileNumbers \cup {m.val}
      BY <2>13 DEF WaitDone
    <3>1. m \in Carriers /\ Carriers' = Carriers \ {m}
      BY DEF Carriers
    <3>2. pc' = [pc EXCEPT ![p] = "assign"] /\ UNCHANGED fileNumber
      BY <2>13 DEF WaitDone, Goto
    <3>3. \A q \in Ranks : Holds(q)' => Holds(q)
      BY <2>1, <2>2, <3>2 DEF Holds
    <3>4. \A r \in Ranks : pc'[r] = "wait_coordinator" => Position(r)' = 0
      BY <2>1, <2>2, <2>4, <3>2
    <3>5. /\ \A q \in Ranks : Holds(q) => fileNumber[q] # m.val
          /\ \A n \in Carriers' : n \in Carriers /\ n.val # m.val
      BY <1>2, <3>1 DEF OnePlace
    <3>6. /\ \A r, q \in Ranks :
               (r # q /\ Holds(r)' /\ Holds(q)') => fileNumber'[r] # fileNumber'[q]
          /\ \A r \in Ranks : Holds(r)' => fileNumber'[r] \notin availableFileNumbers'
          /\ \A r \in Ranks, o \in Carriers' : Holds(r)' => fileNumber'[r] # o.val
      BY <1>2, <3>2, <3>3, <3>5 DEF OnePlace
    <3>7. /\ \A o \in Carriers' : o.val \notin availableFileNumbers'
          /\ \A n, o \in Carriers' : n # o => n.val # o.val
      BY <1>2, <3>5 DEF OnePlace
    <3> QED
      BY <3>4, <3>6, <3>7 DEF OnePlace
  <2>14. CASE AllAssigned(p) \/ CleanUpMessages(p) \/ Destroy(p)
    <3>1. UNCHANGED <<fileNumber, availableFileNumbers>> /\ Carriers' \subseteq Carriers
      BY <2>14 DEF AllAssigned, CleanUpMessages, Destroy, coord, Carriers
    <3>2. \A q \in Ranks : pc'[q] = pc[q] \/ pc'[q] \in {"left", "gone"}
      BY <2>2, <2>14 DEF AllAssigned, CleanUpMessages, Destroy, Goto
    <3>3. /\ \A q \in Ranks : Holds(q)' => Holds(q)
          /\ \A q \in Ranks : pc'[q] = "wait_coordinator" => Position(q) = 0
      BY <2>1, <2>4, <3>2 DEF Holds
    <3> QED
      BY <1>2, <2>1, <2>3, <3>1, <3>3, OnePlaceFewer
  <2> QED
    BY <1>2, <2>5, <2>6, <2>7, <2>8, <2>10, <2>11, <2>12, <2>13, <2>14, DynamicSteps
<1> QED
  BY <1>1, <1>2

----------------------------------------------------------------------------

LEMMA NextInv == IInv /\ [Next]_vars => IInv'
<1> SUFFICES ASSUME IInv, [Next]_vars PROVE IInv'
  OBVIOUS
<1>1. CASE Next
  <2> PICK r \in Ranks : Rank(r)
    BY <1>1 DEF Next
  <2> QED
    BY TypedStep, StaticStep, ReadStep, OwnFileStep, OnePlaceStep DEF IInv
<1>2. CASE UNCHANGED vars
  <2>1. \A q : Position(q)' = Position(q)
    BY <1>2 DEF vars, config, Position
  <2> QED
    BY <1>2, <2>1 DEF vars, config, coord, local, IInv, Typed, Writing, StaticTurns, ReadTurns,
                      OwnFile, OnePlace, Woken, Left, Holds, Carriers
<1> QED
  BY <1>1, <1>2

LEMMA InvImpliesOneWriter == IInv => OneWriter
<1> SUFFICES ASSUME IInv, NEW r \in Ranks, NEW q \in Ranks, r # q, pc[r] = "open",
                    pc[q] = "open", fileNumber[r] = fileNumber[q]
             PROVE  FALSE
  BY DEF OneWriter
<1>1. CASE mode = "static"
  <2>1. /\ nOutFiles \in 1..NProcs /\ groupSets \in BOOLEAN
        /\ FileNumber(nOutFiles, r, groupSets) = FileNumber(nOutFiles, q, groupSets)
    BY <1>1 DEF IInv, Typed, Writing, StaticTurns
  <2>2. Position(r) # Position(q) /\ Position(r) \in Nat /\ Position(q) \in Nat
    BY <2>1, PositionsDiffer, PositionTyped DEF Position
  <2>3. Woken(r, "stWrite") /\ Woken(q, "stWrite") /\ ~Left(r) /\ ~Left(q)
    BY DEF Woken, Left
  <2>4. CASE Position(r) < Position(q)
    BY <1>1, <2>3, <2>4 DEF IInv, StaticTurns
  <2>5. CASE Position(q) < Position(r)
    BY <1>1, <2>3, <2>5 DEF IInv, StaticTurns
  <2> QED
    BY <2>2, <2>4, <2>5
<1>2. CASE mode = "read"
  <2>1. PICK i \in 1..Len(ranks), k \in 1..Len(ranks) : ranks[i] = r /\ ranks[k] = q
    BY <1>2 DEF IInv, ReadTurns, ToSet
  <2>2. Woken(r, "stRead") /\ Woken(q, "stRead") /\ ~Left(r) /\ ~Left(q)
    BY DEF Woken, Left
  <2>3. CASE i < k
    <3>1. i \in 1..k-1
      BY <2>3
    <3> QED
      BY <1>2, <2>1, <2>2, <3>1 DEF IInv, ReadTurns
  <2>4. CASE k < i
    <3>1. k \in 1..i-1
      BY <2>4
    <3> QED
      BY <1>2, <2>1, <2>2, <3>1 DEF IInv, ReadTurns
  <2> QED
    BY <2>1, <2>3, <2>4
<1>3. CASE mode = "sparse"
  BY <1>3 DEF IInv, OwnFile
<1>4. CASE mode = "dynamic"
  BY <1>4 DEF IInv, OnePlace, Holds
<1> QED
  BY <1>1, <1>2, <1>3, <1>4 DEF IInv, Typed

\* In every mode, for any number of ranks and files, two ranks never have one file open at
\* the same time: neither the chains of WriteNext and ReadNext nor the decider and the
\* coordinator of dynamic sets ever let a second rank into a file.
THEOREM OneWriterAlways == VisSpec => []OneWriter
<1>1. VisInit => IInv
  BY InitInv DEF VisInit
<1>2. IInv /\ [VisNext]_<<s_asyncout, vars, async_vars>> => IInv'
  BY NextInv, Zenon DEF VisNext, Runs
<1>3. VisSpec => []IInv
  BY <1>1, <1>2, PTL DEF VisSpec
<1> QED
  BY <1>3, InvImpliesOneWriter, PTL

----------------------------------------------------------------------------
(* Flattened sequences.                                                    *)

\* g[k]: the first k sequences of ss one after another.
LEMMA FlattenUnfolds ==
  ASSUME NEW S, NEW ss \in Seq(Seq(S))
  PROVE  \E g \in [0..Len(ss) -> Seq(S)] :
           /\ g[0] = <<>> /\ \A k \in 1..Len(ss) : g[k] = g[k-1] \o ss[k]
           /\ FlattenSeq(ss) = g[Len(ss)]
<1> DEFINE n == Len(ss)
           Def(F) == F = [i \in 1..n |-> IF i = 1 THEN ss[i] ELSE F[i-1] \o ss[i]]
           F == CHOOSE F : Def(F)
           g == [k \in 0..n |-> IF k = 0 THEN <<>> ELSE F[k]]
           step == [k \in 1..n |-> [x \in Seq(S) |-> x \o ss[k]]]
<1>1. n \in Nat /\ (\A i \in 1..n : ss[i] \in Seq(S)) /\ <<>> \in Seq(S)
  OBVIOUS
<1>2. \E h : Def(h)
  <2>1. /\ step \in [1..n -> [Seq(S) -> Seq(S)]]
        /\ \A k \in 1..n, x \in Seq(S) : step[k][x] = x \o ss[k]
    BY <1>1
  <2> HIDE DEF step, n
  <2>2. PICK f : Unfolds(f, n, Seq(S), <<>>, step)
    <3>1. <<>> \in Seq(S) /\ n \in Nat /\ step \in [1..n -> [Seq(S) -> Seq(S)]]
      BY <1>1, <2>1
    <3> QED
      BY <3>1, RecursionExists
  <2>3. ASSUME NEW i \in 1..n PROVE f[i] = f[i-1] \o ss[i] /\ f[i-1] \in Seq(S)
    <3>1. n \in Nat
      BY <1>1
    <3>2. i - 1 \in 0..n
      BY <3>1
    <3>3. f \in [0..n -> Seq(S)]
      BY <2>2 DEF Unfolds
    <3>4. f[i-1] \in Seq(S)
      BY <3>2, <3>3
    <3>5. f[i] = step[i][f[i-1]]
      BY <2>2 DEF Unfolds
    <3> QED
      BY <2>1, <3>4, <3>5
  <2>4. f[1-1] = <<>>
    BY <2>2 DEF Unfolds
  <2> DEFINE h == [i \in 1..n |-> f[i]]
  <2>5. ASSUME NEW i \in 1..n PROVE h[i] = IF i = 1 THEN ss[i] ELSE h[i-1] \o ss[i]
    <3>1. CASE i = 1
      <4>1. f[1] = <<>> \o ss[1] /\ ss[1] \in Seq(S)
        BY <1>1, <2>3, <2>4, <3>1
      <4> QED
        BY <3>1, <4>1
    <3>2. CASE i # 1
      <4>1. i - 1 \in 1..n
        BY <1>1, <3>2
      <4> QED
        BY <2>3, <3>2, <4>1
    <3> QED
      BY <3>1, <3>2
  <2>6. Def(h)
    BY <2>5
  <2> QED
    BY <2>6
<1>3. Def(F)
  BY <1>2
<1>4. FlattenSeq(ss) = IF n = 0 THEN ss ELSE F[n]
  BY DEF FlattenSeq
<1> HIDE DEF F, n
<1>5. ASSUME NEW i \in 1..n PROVE F[i] = IF i = 1 THEN ss[i] ELSE F[i-1] \o ss[i]
  BY <1>3
<1>6. g[0] = <<>> /\ \A k \in 1..n : g[k] = F[k]
  BY <1>1
<1>7. ASSUME NEW k \in 1..n PROVE g[k] = g[k-1] \o ss[k]
  <2>1. CASE k = 1
    <3>1. F[1] = ss[1] /\ ss[1] \in Seq(S) /\ k - 1 = 0
      BY <1>1, <1>5, <2>1
    <3>2. <<>> \o ss[1] = ss[1]
      BY <3>1
    <3> QED
      BY <1>6, <2>1, <3>1, <3>2
  <2>2. CASE k # 1
    <3>1. k - 1 \in 1..n
      BY <1>1, <2>2
    <3> QED
      BY <1>5, <1>6, <2>2, <3>1
  <2> QED
    BY <2>1, <2>2
<1>8. FlattenSeq(ss) = g[n]
  <2>1. CASE n = 0
    <3>1. ss = <<>>
      BY <2>1 DEF n
    <3> QED
      BY <1>4, <1>6, <2>1, <3>1
  <2>2. CASE n # 0
    BY <1>1, <1>4, <1>6, <2>2
  <2> QED
    BY <2>1, <2>2
<1> HIDE DEF g
<1>9. \A k \in 0..n : g[k] \in Seq(S)
  <2> DEFINE T == {k \in 0..n : g[k] \in Seq(S)}
  <2>1. 0 \in T
    <3>1. 0 \in 0..n
      BY <1>1
    <3>2. g[0] \in Seq(S)
      BY <1>1, <1>6, Zenon
    <3> QED
      BY <3>1, <3>2, Zenon
  <2>2. ASSUME NEW i \in 1..n, i - 1 \in T PROVE i \in T
    <3>1. i \in 0..n /\ g[i-1] \in Seq(S) /\ ss[i] \in Seq(S)
      BY <1>1, <2>2
    <3>2. g[i-1] \o ss[i] \in Seq(S)
      BY <3>1
    <3>3. g[i] \in Seq(S)
      BY <1>7, <3>2, Zenon
    <3> QED
      BY <3>1, <3>3, Zenon
  <2> HIDE DEF T
  <2>3. 0..n \subseteq T
    BY <1>1, <2>1, <2>2, UpTo
  <2> QED
    BY <2>3 DEF T
<1>10. g \in [0..n -> Seq(S)]
  <2>1. g = [k \in 0..n |-> g[k]]
    BY DEF g
  <2> HIDE DEF g
  <2> QED
    BY <1>9, <2>1
<1>11. Len(ss) = n /\ g[0] = <<>>
  BY <1>6 DEF n
<1> HIDE DEF g
<1> QED
  BY <1>7, <1>8, <1>10, <1>11

\* Only sequence m has elements of T.
LEMMA FlattenSelected ==
  ASSUME NEW S, NEW ss \in Seq(Seq(S)), NEW T, NEW m \in 1..Len(ss),
         \A k \in 1..Len(ss) : k # m => Selected(ss[k], T) = <<>>
  PROVE  Selected(FlattenSeq(ss), T) = Selected(ss[m], T)
<1> DEFINE n == Len(ss)
<1>1. n \in Nat /\ \A k \in 1..n : ss[k] \in Seq(S)
  OBVIOUS
<1>2. PICK g \in [0..n -> Seq(S)] :
        /\ g[0] = <<>> /\ \A k \in 1..n : g[k] = g[k-1] \o ss[k]
        /\ FlattenSeq(ss) = g[n]
  BY FlattenUnfolds
<1> HIDE DEF n
<1> DEFINE A == {k \in 0..n : Selected(g[k], T) = IF k < m THEN <<>> ELSE Selected(ss[m], T)}
<1>3. m \in 1..n
  BY DEF n
<1>4. 0 \in A
  BY <1>1, <1>2, <1>3, SelectedEmpty
<1>5. ASSUME NEW k \in 1..n, k - 1 \in A PROVE k \in A
  <2>1. k \in 0..n /\ g[k-1] \in Seq(S) /\ ss[k] \in Seq(S) /\ g[k] = g[k-1] \o ss[k]
    <3>1. k \in 0..n /\ k - 1 \in 0..n
      BY <1>1
    <3> QED
      BY <1>1, <1>2, <3>1
  <2> DEFINE a == g[k-1]
             b == ss[k]
  <2>2. a \in Seq(S) /\ b \in Seq(S) /\ g[k] = a \o b
    BY <2>1
  <2>3. Selected(a, T) = IF k - 1 < m THEN <<>> ELSE Selected(ss[m], T)
    BY <1>5
  <2>4. k # m => Selected(b, T) = <<>>
    BY DEF n
  <2>5. k = m => b = ss[m]
    OBVIOUS
  <2> HIDE DEF a, b
  <2>6. Selected(g[k], T) = Selected(a, T) \o Selected(b, T)
    <3>0. a \in Seq(S) /\ b \in Seq(S)
      BY <2>2
    <3>1. Selected(a \o b, T) = Selected(a, T) \o Selected(b, T)
      BY <3>0, SelectedConcat, SMTT(60)
    <3> QED
      BY <2>2, <3>1
  <2> DEFINE c == Selected(a, T)
             d == Selected(b, T)
             e == Selected(ss[m], T)
  <2>7. c \in Seq(S) /\ d \in Seq(S) /\ e \in Seq(S)
    BY <1>1, <1>3, <2>2, SelectedSeq
  <2>8. d = IF k = m THEN e ELSE <<>>
    BY <2>4, <2>5
  <2>9. c = IF k - 1 < m THEN <<>> ELSE e
    BY <2>3
  <2> HIDE DEF c, d, e
  <2>10. c \o d = IF k < m THEN <<>> ELSE e
    <3>1. c \o <<>> = c /\ <<>> \o e = e /\ <<>> \o <<>> = <<>>
      BY <2>7
    <3>2. m \in Nat /\ k \in Nat
      BY <1>1, <1>3
    <3>3. CASE k < m
      <4>1. k - 1 < m /\ k # m
        BY <3>2, <3>3
      <4> QED
        BY <2>8, <2>9, <3>1, <3>3, <4>1
    <3>4. CASE k = m
      <4>1. k - 1 < m /\ ~(k < m)
        BY <3>2, <3>4
      <4> QED
        BY <2>8, <2>9, <3>1, <3>4, <4>1
    <3>5. CASE k > m
      <4>1. ~(k - 1 < m) /\ ~(k < m) /\ k # m
        BY <3>2, <3>5
      <4> QED
        BY <2>8, <2>9, <3>1, <4>1
    <3> QED
      BY <3>2, <3>3, <3>4, <3>5
  <2> QED
    BY <2>1, <2>6, <2>10 DEF c, d, e
<1> HIDE DEF A
<1>6. 0..n \subseteq A
  BY <1>1, <1>4, <1>5, UpTo
<1>7. n \in A /\ ~(n < m)
  BY <1>1, <1>3, <1>6
<1> QED
  BY <1>2, <1>7 DEF A

----------------------------------------------------------------------------
(* The header of the iterators' files.                                     *)

\* The ranks of a set, in their order.
RanksOf(S) == Selected(RankSeq, S)

LEMMA RankSeqIs ==
  /\ RankSeq \in Seq(Ranks) /\ Len(RankSeq) = NProcs /\ NProcs \in Nat
  /\ \A i \in 1..NProcs : RankSeq[i] = i - 1 /\ i - 1 \in Ranks
<1>1. NProcs \in Nat
  BY NFilesAssumption
<1>2. \A i \in 1..NProcs : i - 1 \in Ranks
  BY <1>1 DEF Ranks
<1> QED
  BY <1>1, <1>2 DEF RankSeq

LEMMA RanksOfSeq ==
  ASSUME NEW S
  PROVE  RanksOf(S) \in Seq(Ranks)
  BY RankSeqIs, SelectedSeq DEF RanksOf

LEMMA RanksOfElements ==
  ASSUME NEW S, S \subseteq Ranks
  PROVE  ToSet(RanksOf(S)) = S
<1>1. ToSet(RanksOf(S)) = {RankSeq[i] : i \in DOMAIN RankSeq} \cap S
  <2>1. {Selected(RankSeq, S)[i] : i \in DOMAIN Selected(RankSeq, S)}
          = {RankSeq[i] : i \in DOMAIN RankSeq} \cap S
    <3>1. RankSeq \in Seq(Ranks)
      BY RankSeqIs
    <3> QED
      BY <3>1, SelectedElements
  <2> QED
    BY <2>1 DEF ToSet, RanksOf
<1>2. ASSUME NEW p \in Ranks PROVE \E i \in DOMAIN RankSeq : RankSeq[i] = p
  <2>1. p + 1 \in 1..NProcs /\ (p + 1) - 1 = p
    BY NFilesAssumption DEF Ranks
  <2>2. p + 1 \in DOMAIN RankSeq /\ RankSeq[p + 1] = p
    BY <2>1, RankSeqIs
  <2> QED
    BY <2>2
<1> QED
  BY <1>1, <1>2

\* A rank is among them once.
LEMMA RanksOfInjective ==
  ASSUME NEW S
  PROVE  IsInjective(RanksOf(S))
<1>1. PICK F \in [0..Len(RankSeq) -> Seq(Ranks)] :
        Picks(F, RankSeq, S) /\ Selected(RankSeq, S) = F[Len(RankSeq)]
  BY RankSeqIs, SelectedIs
<1> DEFINE Once(q, k) == /\ \A i \in 1..Len(q) : q[i] < k
                         /\ \A i, j \in 1..Len(q) : q[i] = q[j] => i = j
           A == {k \in 0..NProcs : Once(F[k], k)}
<1>2. 0 \in A
  BY <1>1, RankSeqIs DEF Picks
<1>3. ASSUME NEW k \in 1..NProcs, k - 1 \in A PROVE k \in A
  <2>1. /\ F[k-1] \in Seq(Ranks) /\ k \in 0..NProcs
        /\ F[k] = IF k - 1 \in S THEN Append(F[k-1], k - 1) ELSE F[k-1]
    <3>1. k - 1 \in 0..Len(RankSeq) /\ k \in 1..Len(RankSeq) /\ k \in 0..NProcs
      BY RankSeqIs
    <3> QED
      BY <1>1, <3>1, RankSeqIs DEF Picks
  <2>2. Once(F[k-1], k - 1)
    BY <1>3
  <2> DEFINE q == F[k-1]
  <2>3. q \in Seq(Ranks) /\ Once(q, k - 1) /\ Len(q) \in Nat /\ k - 1 \in Nat
        /\ \A i \in 1..Len(q) : q[i] \in Nat
    <3>1. q \in Seq(Ranks) /\ Once(q, k - 1)
      BY <2>1, <2>2
    <3> HIDE DEF q, Once
    <3>2. \A i \in 1..Len(q) : q[i] \in Ranks
      BY <3>1
    <3>3. k - 1 \in Nat
      BY RankSeqIs
    <3>4. \A i \in 1..Len(q) : q[i] \in Nat
      BY <3>2, RanksNat
    <3>5. Len(q) \in Nat
      BY <3>1
    <3> QED
      BY <3>1, <3>3, <3>4, <3>5
  <2> HIDE DEF q
  <2>4. Once(q, k)
    BY <2>3
  <2>5. Once(Append(q, k - 1), k)
    <3> DEFINE t == Append(q, k - 1)
    <3>1. /\ Len(t) = Len(q) + 1 /\ t[Len(q) + 1] = k - 1
          /\ \A i \in 1..Len(q) : t[i] = q[i]
      BY <2>3
    <3>2. \A i \in 1..Len(t) : i \in 1..Len(q) \/ i = Len(q) + 1
      BY <2>3, <3>1
    <3> HIDE DEF t
    <3>3. \A i \in 1..Len(t) : t[i] < k
      BY <2>3, <3>1, <3>2
    <3>4. \A i, j \in 1..Len(t) : t[i] = t[j] => i = j
      BY <2>3, <3>1, <3>2
    <3> QED
      BY <3>3, <3>4 DEF t
  <2> HIDE DEF Once
  <2>6. Once(F[k], k)
    BY <2>1, <2>4, <2>5 DEF q
  <2> QED
    BY <2>1, <2>6
<1> HIDE DEF A
<1>4. 0..NProcs \subseteq A
  BY <1>2, <1>3, RankSeqIs, UpTo
<1>5. Once(F[NProcs], NProcs)
  BY <1>4, RankSeqIs DEF A
<1>6. F[NProcs] \in Seq(Ranks)
  BY <1>1, RankSeqIs
<1>7. DOMAIN F[NProcs] = 1..Len(F[NProcs])
  BY <1>6
<1> QED
  BY <1>1, <1>5, <1>7, RankSeqIs DEF RanksOf, IsInjective

\* A rank above all others comes last.
LEMMA RanksOfLast ==
  ASSUME NEW S, S \subseteq Ranks, NEW r \in Ranks, \A p \in S : p < r
  PROVE  RanksOf(S \cup {r}) = Append(RanksOf(S), r)
<1> DEFINE T == S \cup {r}
<1>a. RankSeq \in Seq(Ranks)
  BY RankSeqIs
<1> HIDE DEF T
<1>1. PICK F \in [0..Len(RankSeq) -> Seq(Ranks)] :
        Picks(F, RankSeq, T) /\ Selected(RankSeq, T) = F[Len(RankSeq)]
  BY <1>a, SelectedIs
<1>2. PICK G \in [0..Len(RankSeq) -> Seq(Ranks)] :
        Picks(G, RankSeq, S) /\ Selected(RankSeq, S) = G[Len(RankSeq)]
  BY <1>a, SelectedIs
<1> USE DEF T
<1> DEFINE A == {k \in 0..NProcs : F[k] = IF k <= r THEN G[k] ELSE Append(G[k], r)}
<1>3. r \in Nat /\ r < NProcs /\ NProcs \in Nat
  BY NFilesAssumption DEF Ranks
<1>4. 0 \in A
  BY <1>1, <1>2, <1>3 DEF Picks
<1>5. ASSUME NEW k \in 1..NProcs, k - 1 \in A PROVE k \in A
  <2>1. /\ F[k] = IF k - 1 \in T THEN Append(F[k-1], k - 1) ELSE F[k-1]
        /\ G[k] = IF k - 1 \in S THEN Append(G[k-1], k - 1) ELSE G[k-1]
    BY <1>1, <1>2, RankSeqIs DEF Picks
  <2>2. F[k-1] = IF k - 1 <= r THEN G[k-1] ELSE Append(G[k-1], r)
    BY <1>5
  <2>3. k \in 0..NProcs
    OBVIOUS
  <2>4. CASE k <= r
    <3>1. k - 1 <= r /\ k - 1 # r
      BY <1>3, <2>4
    <3> QED
      BY <2>1, <2>2, <2>3, <2>4, <3>1
  <2>5. CASE k = r + 1
    <3>1. k - 1 <= r /\ k - 1 = r /\ ~(k <= r) /\ r \notin S
      BY <1>3, <2>5
    <3> QED
      BY <2>1, <2>2, <2>3, <3>1
  <2>6. CASE k > r + 1
    <3>1. ~(k - 1 <= r) /\ ~(k <= r) /\ k - 1 # r
      BY <1>3, <2>6
    <3>2. k - 1 \notin S
      BY <1>3, <3>1
    <3> QED
      BY <2>1, <2>2, <2>3, <3>1, <3>2
  <2>7. k <= r \/ k = r + 1 \/ k > r + 1
    BY <1>3
  <2> QED
    BY <2>4, <2>5, <2>6, <2>7
<1> HIDE DEF A
<1>6. 0..NProcs \subseteq A
  BY <1>3, <1>4, <1>5, UpTo
<1>7. NProcs \in A /\ ~(NProcs <= r)
  BY <1>3, <1>6
<1>8. F[NProcs] = Append(G[NProcs], r)
  BY <1>7 DEF A
<1> QED
  BY <1>1, <1>2, <1>8, RankSeqIs DEF RanksOf

LEMMA RanksOfNone == RanksOf({}) = <<>>
  BY RankSeqIs, SelectedNothing DEF RanksOf

LEMMA RanksOfOne ==
  ASSUME NEW r \in Ranks
  PROVE  RanksOf({r}) = <<r>>
<1>1. RanksOf({} \cup {r}) = Append(RanksOf({}), r)
  BY RanksOfLast
<1>2. {} \cup {r} = {r} /\ Append(<<>>, r) = <<r>>
  OBVIOUS
<1> QED
  BY <1>1, <1>2, RanksOfNone

\* The file of a rank is one of Ranks, since there are at most as many files as ranks.
LEMMA FileNumberTyped ==
  ASSUME NEW n \in 1..NProcs, NEW group \in BOOLEAN, NEW r \in Ranks
  PROVE  FileNumber(n, r, group) \in Ranks
<1>1. NProcs \in Nat /\ r \in Nat /\ r < NProcs /\ n \in Nat /\ n > 0
  BY NFilesAssumption DEF Ranks
<1>2. CASE group
  <2>1. r % n \in 0..n-1
    BY <1>1
  <2> DEFINE k == r % n
  <2> HIDE DEF k
  <2>2. k \in 0..NProcs-1
    BY <1>1, <2>1 DEF k
  <2> QED
    BY <1>2, <2>2 DEF k, FileNumber, Ranks
<1>3. CASE ~group
  <2> DEFINE b == LengthOfSet(n)
             k == r \div b
  <2>1. b \in Nat /\ b > 0
    BY LengthOfSetPositive
  <2> HIDE DEF b
  <2>2. k \in Nat /\ r % b \in Nat /\ r = b * k + (r % b)
    BY <1>1, <2>1, DivMod
  <2> HIDE DEF k
  <2> DEFINE c == r % b
  <2> HIDE DEF c
  <2>3. c \in Nat /\ r = b * k + c
    BY <2>2 DEF c
  <2>4. b * k >= k
    BY <2>1, <2>2
  <2>5. b * k \in Nat
    BY <2>1, <2>2
  <2>6. k <= r
    BY <1>1, <2>2, <2>3, <2>4, <2>5
  <2>7. k \in 0..NProcs-1
    BY <1>1, <2>2, <2>6
  <2> QED
    BY <1>3, <2>7 DEF b, k, FileNumber, Ranks
<1> QED
  BY <1>2, <1>3

\* The ranks of one file have their positions in their order.
LEMMA PositionOrder ==
  ASSUME NEW n \in 1..NProcs, NEW group \in BOOLEAN, NEW r \in Ranks, NEW q \in Ranks,
         FileNumber(n, r, group) = FileNumber(n, q, group),
         WhichSetPosition(r, n, group) < WhichSetPosition(q, n, group)
  PROVE  r < q
<1> DEFINE b == Divisor(n, group)
<1>1. b \in Nat /\ b > 0
  BY LengthOfSetPositive, NFilesAssumption DEF Divisor
<1>2. r \in Nat /\ q \in Nat
  BY NFilesAssumption DEF Ranks
<1>3. \/ r \div b = q \div b /\ r % b < q % b
      \/ r % b = q % b /\ r \div b < q \div b
  BY DEF Divisor, FileNumber, WhichSetPosition
<1> HIDE DEF b
<1> DEFINE k == r \div b
           l == q \div b
           c == r % b
           d == q % b
<1>4. k \in Nat /\ l \in Nat /\ c \in Nat /\ d \in Nat /\ r = b * k + c /\ q = b * l + d
  BY <1>1, <1>2, DivMod
<1> HIDE DEF k, l, c, d
<1>5. CASE k = l /\ c < d
  <2>1. b * k \in Nat
    BY <1>1, <1>4
  <2> QED
    BY <1>4, <1>5, <2>1
<1>6. CASE c = d /\ k < l
  <2>1. b * l = b * k + b * (l - k) /\ b * (l - k) > 0 /\ b * k \in Nat /\ b * (l - k) \in Nat
    BY <1>1, <1>4, <1>6
  <2> QED
    BY <1>4, <1>6, <2>1
<1> QED
  BY <1>3, <1>5, <1>6 DEF k, l, c, d

LEMMA SameFiles ==
  ASSUME NEW n \in 1..NProcs
  PROVE  ActualNFiles(n) = n
  BY NFilesAssumption DEF ActualNFiles, Smaller

\* Static sets: a file holds the data of its ranks that have left.
FileRanks(f) == {p \in Ranks : fileNumber[p] = f}

StaticFiles ==
  mode = "static" =>
    /\ fileNumbersWriteOrder = StaticOrder(nOutFiles, groupSets)
    /\ files \in [Ranks -> Seq(Ranks)]
    /\ \A f \in Ranks : files[f] = RanksOf({p \in FileRanks(f) : Left(p)})
    /\ \A r \in Ranks : coordinatorProc[r] = IOProcessor

\* A file per rank: it holds the data of that rank when it has left.
SparseFiles ==
  mode = "sparse" =>
    /\ ranks \in RanksInputs
    /\ fileNumbersWriteOrder =
         [i \in Ranks |-> IF i < Len(ranks) THEN <<ranks[i + 1]>> ELSE <<>>]
    /\ files \in [Ranks -> Seq(Ranks)]
    /\ \A f \in Ranks : files[f] = IF f \in ToSet(ranks) /\ Left(f) THEN <<f>> ELSE <<>>
    /\ \A r \in Ranks : pc[r] = "open" => r \in ToSet(ranks)
    /\ \A r \in Ranks : coordinatorProc[r] = IOProcessor

LEMMA StaticFilesStep ==
  ASSUME IInv, StaticFiles, NEW r \in Ranks, Rank(r)
  PROVE  StaticFiles'
<1> SUFFICES ASSUME mode' = "static" PROVE StaticFiles'
  BY DEF StaticFiles
<1> USE DEF Goto, config, coord
<1>0. mode = "static" /\ UNCHANGED <<fileNumber, nOutFiles, groupSets, fileNumbersWriteOrder,
                                     coordinatorProc>>
  BY DEF Rank, IInv, Typed, StaticReady, StaticNext, SparseReady, SparseNext,
         ReadyToRead, ReadNext, SetZeroReady, Decide, ReceiveFile, DynamicNext, LearnCoordinator,
         Assign, WaitDone, AllAssigned, CleanUpMessages, Destroy
<1>1. /\ pc \in [Ranks -> {"ready", "open", "left", "gone"}]
      /\ nOutFiles \in 1..NProcs /\ groupSets \in BOOLEAN
      /\ \A q \in Ranks : fileNumber[q] = FileNumber(nOutFiles, q, groupSets)
  BY <1>0 DEF IInv, Typed, StaticTurns, Writing
<1>2. \A q \in Ranks : fileNumber[q] \in Ranks /\ Position(q) \in Nat
  BY <1>1, FileNumberTyped, PositionTyped DEF Position
<1>3. /\ fileNumbersWriteOrder = StaticOrder(nOutFiles, groupSets)
      /\ files \in [Ranks -> Seq(Ranks)]
      /\ \A f \in Ranks : files[f] = RanksOf({p \in FileRanks(f) : Left(p)})
      /\ \A q \in Ranks : coordinatorProc[q] = IOProcessor
  BY <1>0 DEF StaticFiles
<1>4. \A f \in Ranks : FileRanks(f)' = FileRanks(f)
  BY <1>0 DEF FileRanks
<1>5. fileNumbersWriteOrder' = StaticOrder(nOutFiles, groupSets)'
  BY <1>0, <1>3 DEF StaticOrder, FileNumber, LengthOfSet, RankSeq
<1>6. ASSUME UNCHANGED files, \A p \in Ranks : Left(p)' <=> Left(p)
      PROVE  StaticFiles'
  <2>1. \A f \in Ranks : {p \in FileRanks(f) : Left(p)}' = {p \in FileRanks(f) : Left(p)}
    BY <1>4, <1>6 DEF FileRanks
  <2> QED
    BY <1>0, <1>3, <1>5, <1>6, <2>1 DEF StaticFiles, RanksOf, RankSeq, IOProcessor
\* Nobody after r in its file has left before r has.
<1>7. ASSUME ~Left(r), NEW p \in Ranks, fileNumber[p] = fileNumber[r], Left(p)
      PROVE  Position(p) < Position(r) /\ p < r
  <2>1. p # r
    BY <1>7
  <2>2. Position(p) # Position(r)
    BY <1>1, <1>7, <2>1, PositionsDiffer DEF Position
  <2>3. Woken(p, "stWrite")
    BY <1>7 DEF Left, Woken
  <2>4. ~(Position(r) < Position(p))
    BY <1>0, <1>7, <2>3 DEF IInv, StaticTurns
  <2>5. Position(p) < Position(r)
    BY <1>2, <2>2, <2>4
  <2> QED
    BY <1>1, <1>7, <2>5, PositionOrder DEF Position
<1>8. CASE StaticReady(r)
  <2>1. pc[r] = "ready" /\ pc' = [pc EXCEPT ![r] = "open"] /\ ~Left(r)
    BY <1>8 DEF StaticReady, Left
  <2>2. \A p \in Ranks : Left(p)' <=> Left(p)
    BY <1>1, <2>1 DEF Left
  <2>3. CASE Position(r) = 0 /\ Truncate(fileNumber[r])
    <3> DEFINE f == fileNumber[r]
    <3>1. \A p \in FileRanks(f) : ~Left(p)
      <4> SUFFICES ASSUME NEW p \in Ranks, fileNumber[p] = f, Left(p) PROVE FALSE
        BY DEF FileRanks
      <4>1. Position(p) < Position(r)
        BY <1>7, <2>1
      <4> QED
        BY <1>2, <2>3, <4>1
    <3>2. {p \in FileRanks(f) : Left(p)} = {}
      BY <3>1
    <3>3. files[f] = <<>>
      BY <1>2, <1>3, <3>2, RanksOfNone
    <3>4. files' = files
      BY <1>2, <1>3, <2>3, <3>3 DEF Truncate
    <3> QED
      BY <1>6, <2>2, <3>4
  <2>4. CASE UNCHANGED files
    BY <1>6, <2>2, <2>4
  <2> QED
    BY <1>8, <2>3, <2>4 DEF StaticReady
<1>9. CASE StaticNext(r)
  <2> PICK f \in Ranks : f = fileNumber[r]
    BY <1>2
  <2> DEFINE S == {p \in FileRanks(f) : Left(p)}
  <2>1. /\ pc[r] = "open" /\ pc' = [pc EXCEPT ![r] = "left"] /\ ~Left(r)
        /\ files' = [files EXCEPT ![f] = Append(@, r)]
    BY <1>9 DEF StaticNext, Left, WriteData
  <2>2. f \in Ranks /\ files[f] = RanksOf(S) /\ S \subseteq Ranks
    BY <1>2, <1>3 DEF FileRanks
  <2>3. \A p \in S : p < r
    BY <1>7, <2>1 DEF FileRanks
  <2>4. {p \in FileRanks(f) : Left(p)}' = S \cup {r}
    <3>1. \A p \in Ranks : Left(p)' <=> (Left(p) \/ p = r)
      BY <1>1, <2>1 DEF Left
    <3>2. r \in FileRanks(f)
      BY DEF FileRanks
    <3>3. FileRanks(f) \subseteq Ranks
      BY DEF FileRanks
    <3>4. {p \in FileRanks(f) : Left(p)}' = {p \in FileRanks(f) : Left(p)'}
      BY <1>0 DEF FileRanks
    <3> QED
      BY <3>1, <3>2, <3>3, <3>4
  <2>5. files'[f] = Append(files[f], r) /\ \A g \in Ranks : g # f => files'[g] = files[g]
    BY <1>3, <2>1, <2>2
  <2>6. files'[f] = RanksOf(S \cup {r})
    <3> HIDE DEF S
    <3> QED
      BY <2>2, <2>3, <2>5, RanksOfLast
  <2>7. ASSUME NEW g \in Ranks PROVE files'[g] = RanksOf({p \in FileRanks(g) : Left(p)}')
    <3>1. CASE g = f
      <4>1. files'[g] = RanksOf(S \cup {r})
        BY <2>6, <3>1
      <4>2. {p \in FileRanks(g) : Left(p)}' = S \cup {r}
        BY <2>4, <3>1
      <4> QED
        BY <4>1, <4>2
    <3>2. CASE g # f
      <4>1. {p \in FileRanks(g) : Left(p)}' = {p \in FileRanks(g) : Left(p)}
        <5>1. r \notin FileRanks(g)
          BY <3>2 DEF FileRanks
        <5>2. \A p \in Ranks : p # r => (Left(p)' <=> Left(p))
          BY <1>1, <2>1 DEF Left
        <5>3. FileRanks(g) \subseteq Ranks
          BY DEF FileRanks
        <5> QED
          BY <1>4, <5>1, <5>2, <5>3
      <4> QED
        BY <1>3, <2>5, <3>2, <4>1
    <3> QED
      BY <3>1, <3>2
  <2>8. files' \in [Ranks -> Seq(Ranks)]
    <3>1. files[f] \in Seq(Ranks)
      BY <1>3, <2>2
    <3>2. Append(files[f], r) \in Seq(Ranks)
      BY <3>1
    <3> QED
      BY <1>3, <2>1, <3>2
  <2> QED
    BY <1>0, <1>3, <1>5, <2>7, <2>8 DEF StaticFiles, RanksOf, RankSeq, IOProcessor
<1>10. CASE CleanUpMessages(r)
  BY <1>6, <1>10 DEF CleanUpMessages, Left
<1>11. CASE Destroy(r)
  <2>1. UNCHANGED files /\ pc[r] = "left" /\ pc' = [pc EXCEPT ![r] = "gone"]
    BY <1>11 DEF Destroy
  <2>2. \A p \in Ranks : Left(p)' <=> Left(p)
    BY <1>1, <2>1 DEF Left
  <2> QED
    BY <1>6, <2>1, <2>2
<1> QED
  BY <1>0, <1>1, <1>8, <1>9, <1>10, <1>11 DEF Rank, SparseReady, SparseNext,
     ReadyToRead, ReadNext, SetZeroReady, Decide, ReceiveFile, DynamicNext, LearnCoordinator,
     Assign, WaitDone, AllAssigned

LEMMA SparseFilesStep ==
  ASSUME IInv, SparseFiles, NEW r \in Ranks, Rank(r)
  PROVE  SparseFiles'
<1> SUFFICES ASSUME mode' = "sparse" PROVE SparseFiles'
  BY DEF SparseFiles
<1> USE DEF Goto, config, coord
<1>0. mode = "sparse" /\ UNCHANGED <<fileNumber, ranks, fileNumbersWriteOrder, coordinatorProc>>
  BY DEF Rank, IInv, Typed, StaticReady, StaticNext, SparseReady, SparseNext,
         ReadyToRead, ReadNext, SetZeroReady, Decide, ReceiveFile, DynamicNext, LearnCoordinator,
         Assign, WaitDone, AllAssigned, CleanUpMessages, Destroy
<1>1. /\ pc \in [Ranks -> {"ready", "open", "left", "gone"}]
      /\ \A q \in Ranks : fileNumber[q] = q
  BY <1>0 DEF IInv, Typed, OwnFile
<1>2. /\ ranks \in RanksInputs
      /\ fileNumbersWriteOrder =
           [i \in Ranks |-> IF i < Len(ranks) THEN <<ranks[i + 1]>> ELSE <<>>]
      /\ files \in [Ranks -> Seq(Ranks)]
      /\ \A f \in Ranks : files[f] = IF f \in ToSet(ranks) /\ Left(f) THEN <<f>> ELSE <<>>
      /\ \A q \in Ranks : pc[q] = "open" => q \in ToSet(ranks)
      /\ \A q \in Ranks : coordinatorProc[q] = IOProcessor
  BY <1>0 DEF SparseFiles
<1>3. ASSUME files' \in [Ranks -> Seq(Ranks)],
             \A f \in Ranks : files'[f] = IF f \in ToSet(ranks) /\ Left(f)' THEN <<f>> ELSE <<>>,
             \A q \in Ranks : pc'[q] = "open" => q \in ToSet(ranks)
      PROVE  SparseFiles'
  BY <1>0, <1>2, <1>3 DEF SparseFiles, ToSet, IOProcessor
<1>4. CASE SparseReady(r)
  <2>1. \A q \in Ranks : q # r => pc'[q] = pc[q]
    BY <1>1, <1>4 DEF SparseReady
  <2>2. Contains(ranks, r) <=> r \in ToSet(ranks)
    <3>1. DOMAIN ranks = 1..Len(ranks)
      BY <1>2, RanksGiven
    <3> QED
      BY <3>1 DEF Contains, ToSet
  <2>3. CASE Contains(ranks, r)
    <3>1. pc[r] = "ready" /\ pc'[r] = "open" /\ files' = [files EXCEPT ![r] = <<>>]
      BY <1>1, <1>4, <2>3 DEF SparseReady, Truncate
    <3>2. files' = files
      BY <1>2, <3>1 DEF Left
    <3> QED
      BY <1>2, <1>3, <2>1, <2>2, <2>3, <3>1, <3>2 DEF Left
  <2>4. CASE ~Contains(ranks, r)
    <3>1. pc'[r] = "left" /\ files' = files
      BY <1>1, <1>4, <2>4 DEF SparseReady
    <3> QED
      BY <1>2, <1>3, <2>1, <2>2, <2>4, <3>1 DEF Left
  <2> QED
    BY <2>3, <2>4
<1>5. CASE SparseNext(r)
  <2>1. /\ pc[r] = "open" /\ pc'[r] = "left" /\ \A q \in Ranks : q # r => pc'[q] = pc[q]
        /\ files' = [files EXCEPT ![r] = Append(@, r)]
    BY <1>1, <1>5 DEF SparseNext, WriteData
  <2>2. r \in ToSet(ranks) /\ files[r] = <<>>
    BY <1>2, <2>1 DEF Left
  <2>3. files'[r] = <<r>> /\ \A f \in Ranks : f # r => files'[f] = files[f]
    BY <1>2, <2>1, <2>2
  <2>4. files' \in [Ranks -> Seq(Ranks)]
    <3>1. Append(files[r], r) \in Seq(Ranks)
      BY <1>2
    <3> QED
      BY <1>2, <2>1, <3>1
  <2> QED
    BY <1>2, <1>3, <2>1, <2>2, <2>3, <2>4 DEF Left
<1>6. CASE CleanUpMessages(r)
  <2>1. UNCHANGED <<files, pc>>
    BY <1>6 DEF CleanUpMessages
  <2> QED
    BY <1>2, <1>3, <2>1 DEF Left
<1>7. CASE Destroy(r)
  <2>1. UNCHANGED files /\ pc[r] = "left" /\ pc' = [pc EXCEPT ![r] = "gone"]
    BY <1>7 DEF Destroy
  <2>2. \A p \in Ranks : (Left(p)' <=> Left(p)) /\ (pc'[p] = "open" => pc[p] = "open")
    BY <1>1, <2>1 DEF Left
  <2> QED
    BY <1>2, <1>3, <2>1, <2>2
<1> QED
  BY <1>0, <1>1, <1>4, <1>5, <1>6, <1>7 DEF Rank, StaticReady, StaticNext,
     ReadyToRead, ReadNext, SetZeroReady, Decide, ReceiveFile, DynamicNext, LearnCoordinator,
     Assign, WaitDone, AllAssigned

\* FindOffsets looks in one row of fileNumbersWriteOrder if the others have no rank of the file.
LEMMA FindOffsetsIs ==
  ASSUME fileNumbersWriteOrder \in [Ranks -> Seq(Ranks)], NEW f \in Ranks, NEW h \in Ranks,
         \A g \in Ranks : g # h => \A i \in 1..Len(fileNumbersWriteOrder[g]) :
           fileNumbers[fileNumbersWriteOrder[g][i]] # f
  PROVE  FindOffsets(f) = Selected(fileNumbersWriteOrder[h], {p \in Ranks : fileNumbers[p] = f})
<1> DEFINE T == {p \in Ranks : fileNumbers[p] = f}
           ss == [i \in 1..NProcs |-> fileNumbersWriteOrder[i - 1]]
<1>1. /\ NProcs \in Nat /\ h + 1 \in 1..NProcs /\ (h + 1) - 1 = h
      /\ \A i \in 1..NProcs : i - 1 \in Ranks /\ (i # h + 1 => i - 1 # h)
  BY NFilesAssumption DEF Ranks
<1>2. ss \in Seq(Seq(Ranks)) /\ Len(ss) = NProcs
  <2>1. \A i \in 1..NProcs : fileNumbersWriteOrder[i - 1] \in Seq(Ranks)
    BY <1>1
  <2> DEFINE Q == Seq(Ranks)
  <2>2. \A i \in 1..NProcs : ss[i] \in Q
    BY <2>1
  <2> HIDE DEF Q
  <2>3. ss \in [1..NProcs -> Q]
    BY <2>2
  <2>4. ss \in Seq(Q) /\ Len(ss) = NProcs
    BY <1>1, <2>3
  <2> QED
    BY <2>4 DEF Q
<1>3. ss[h + 1] = fileNumbersWriteOrder[h]
      /\ \A i \in 1..NProcs : ss[i] = fileNumbersWriteOrder[i - 1]
  BY <1>1
<1> HIDE DEF ss
<1>4. ASSUME NEW i \in 1..Len(ss), i # h + 1 PROVE Selected(ss[i], T) = <<>>
  <2> DEFINE q == fileNumbersWriteOrder[i - 1]
  <2>1. ss[i] = q /\ q \in Seq(Ranks) /\ \A j \in 1..Len(q) : q[j] \notin T
    BY <1>1, <1>2, <1>3, <1>4
  <2> HIDE DEF q, T
  <2>2. Selected(q, T) = <<>>
    BY <2>1, SelectedNothing
  <2> QED
    BY <2>1, <2>2
<1> HIDE DEF T
<1>5. h + 1 \in 1..Len(ss)
  BY <1>1, <1>2
<1>6. Selected(FlattenSeq(ss), T) = Selected(ss[h + 1], T)
  BY <1>2, <1>4, <1>5, FlattenSelected
<1>7. FindOffsets(f) = Selected(FlattenSeq(ss), T)
  BY DEF FindOffsets, ss, T
<1> QED
  BY <1>3, <1>6, <1>7 DEF T

LEMMA ToSetContains ==
  ASSUME NEW S, NEW s \in Seq(S), NEW x
  PROVE  /\ Contains(s, x) <=> x \in ToSet(s)
         /\ \A i \in 1..Len(s) : s[i] \in ToSet(s)
  BY DEF Contains, ToSet

LEMMA StaticHeader ==
  ASSUME mode = "static", IInv, StaticFiles, \A r \in Ranks : Left(r)
  PROVE  HeaderTrue
<1>1. /\ nOutFiles \in 1..NProcs /\ groupSets \in BOOLEAN
      /\ \A q \in Ranks : fileNumber[q] = FileNumber(nOutFiles, q, groupSets)
  BY DEF IInv, Typed, StaticTurns, Writing
<1>2. /\ fileNumbersWriteOrder = StaticOrder(nOutFiles, groupSets)
      /\ \A f \in Ranks : files[f] = RanksOf({p \in FileRanks(f) : Left(p)})
      /\ \A q \in Ranks : coordinatorProc[q] = IOProcessor
  BY DEF StaticFiles
<1>3. \A p \in Ranks : fileNumbers[p] = fileNumber[p]
  BY <1>1, SameFiles DEF fileNumbers
<1>4. ASSUME NEW f \in Ranks
      PROVE  files[f] = RanksOf(FileRanks(f)) /\ fileNumbersWriteOrder[f] = RanksOf(FileRanks(f))
  <2>1. FileRanks(f) = {p \in Ranks : FileNumber(nOutFiles, p, groupSets) = f}
    BY <1>1 DEF FileRanks
  <2>2. {p \in FileRanks(f) : Left(p)} = FileRanks(f)
    BY DEF FileRanks
  <2> QED
    BY <1>2, <2>1, <2>2 DEF StaticOrder, RanksOf
<1>5. fileNumbersWriteOrder \in [Ranks -> Seq(Ranks)]
  <2>1. \A f \in Ranks : fileNumbersWriteOrder[f] \in Seq(Ranks)
    BY <1>4, RanksOfSeq
  <2> QED
    BY <1>2, <2>1 DEF StaticOrder
<1>6. ASSUME NEW f \in Ranks
      PROVE  \A i \in 1..Len(fileNumbersWriteOrder[f]) :
               /\ fileNumbersWriteOrder[f][i] \in Ranks
               /\ fileNumbers[fileNumbersWriteOrder[f][i]] = f
  <2> DEFINE q == fileNumbersWriteOrder[f]
  <2>1. q \in Seq(Ranks) /\ ToSet(q) = FileRanks(f)
    <3>1. FileRanks(f) \subseteq Ranks
      BY DEF FileRanks
    <3> QED
      BY <1>4, <1>5, <3>1, RanksOfElements
  <2> HIDE DEF q
  <2>2. \A i \in 1..Len(q) : q[i] \in FileRanks(f)
    BY <2>1, ToSetContains
  <2> QED
    BY <1>3, <2>2 DEF q, FileRanks
<1>7. ASSUME NEW f \in Ranks PROVE files[f] = FindOffsets(f)
  <2> DEFINE q == fileNumbersWriteOrder[f]
             T == {p \in Ranks : fileNumbers[p] = f}
  <2>1. FindOffsets(f) = Selected(q, T)
    BY <1>5, <1>6, FindOffsetsIs
  <2>2. q \in Seq(Ranks) /\ \A i \in 1..Len(q) : q[i] \in T
    BY <1>5, <1>6
  <2> HIDE DEF q, T
  <2>3. Selected(q, T) = q
    BY <2>2, SelectedAll
  <2> QED
    BY <1>4, <2>1, <2>3 DEF q
<1>8. ASSUME NEW r \in Ranks PROVE \E f \in Ranks : Contains(files[f], r)
  <2>1. fileNumber[r] \in Ranks
    BY <1>1, FileNumberTyped
  <2> PICK f \in Ranks : f = fileNumber[r]
    BY <2>1
  <2>2. FileRanks(f) \subseteq Ranks /\ r \in FileRanks(f)
    BY DEF FileRanks
  <2>3. r \in ToSet(files[f]) /\ files[f] \in Seq(Ranks)
    BY <1>4, <2>2, RanksOfElements, RanksOfSeq
  <2>4. Contains(files[f], r)
    BY <2>3, ToSetContains
  <2> QED
    BY <2>4
<1> QED
  BY <1>2, <1>7, <1>8 DEF HeaderTrue

LEMMA SparseHeader ==
  ASSUME mode = "sparse", IInv, SparseFiles, \A r \in Ranks : Left(r)
  PROVE  HeaderTrue
<1>1. /\ ranks \in RanksInputs
      /\ fileNumbersWriteOrder =
           [i \in Ranks |-> IF i < Len(ranks) THEN <<ranks[i + 1]>> ELSE <<>>]
      /\ \A f \in Ranks : files[f] = IF f \in ToSet(ranks) /\ Left(f) THEN <<f>> ELSE <<>>
      /\ \A q \in Ranks : coordinatorProc[q] = IOProcessor
  BY DEF SparseFiles
<1>2. \A p \in Ranks : fileNumbers[p] = p
  BY DEF fileNumbers
<1>3. /\ DOMAIN ranks = 1..Len(ranks) /\ Len(ranks) \in 1..NProcs /\ NProcs \in Nat
      /\ \A i \in 1..Len(ranks) : ranks[i] \in Ranks
      /\ \A i, j \in 1..Len(ranks) : ranks[i] = ranks[j] => i = j
  BY <1>1, RanksGiven, NFilesAssumption
<1>4. ASSUME NEW g \in Ranks, g < Len(ranks)
      PROVE  g + 1 \in 1..Len(ranks) /\ fileNumbersWriteOrder[g] = <<ranks[g + 1]>>
  BY <1>1, <1>3, <1>4, RanksNat DEF Ranks
<1>5. ASSUME NEW g \in Ranks, ~(g < Len(ranks))
      PROVE  fileNumbersWriteOrder[g] = <<>>
  BY <1>1, <1>5
<1>6. fileNumbersWriteOrder \in [Ranks -> Seq(Ranks)]
  <2>1. \A g \in Ranks : fileNumbersWriteOrder[g] \in Seq(Ranks)
    <3> TAKE g \in Ranks
    <3>1. CASE g < Len(ranks)
      <4>1. ranks[g + 1] \in Ranks /\ fileNumbersWriteOrder[g] = <<ranks[g + 1]>>
        BY <1>3, <1>4, <3>1
      <4> DEFINE x == ranks[g + 1]
      <4> HIDE DEF x
      <4>2. <<x>> \in Seq(Ranks)
        BY <4>1 DEF x
      <4> QED
        BY <4>1, <4>2 DEF x
    <3>2. CASE ~(g < Len(ranks))
      <4>1. fileNumbersWriteOrder[g] = <<>>
        BY <1>5, <3>2
      <4>2. <<>> \in Seq(Ranks)
        OBVIOUS
      <4> QED
        BY <4>1, <4>2
    <3> QED
      BY <3>1, <3>2
  <2> QED
    BY <1>1, <2>1
<1>7. ASSUME NEW g \in Ranks, NEW i \in 1..Len(fileNumbersWriteOrder[g])
      PROVE  /\ g < Len(ranks) /\ fileNumbersWriteOrder[g][i] = ranks[g + 1]
             /\ fileNumbers[fileNumbersWriteOrder[g][i]] = ranks[g + 1]
  <2>1. g < Len(ranks)
    BY <1>5
  <2>2. fileNumbersWriteOrder[g][i] = ranks[g + 1] /\ ranks[g + 1] \in Ranks
    BY <1>3, <1>4, <2>1
  <2> QED
    BY <1>2, <2>1, <2>2
<1>8. ASSUME NEW f \in Ranks PROVE files[f] = FindOffsets(f)
  <2> DEFINE T == {p \in Ranks : fileNumbers[p] = f}
  <2>0. T = {f}
    BY <1>2
  <2>1. CASE f \in ToSet(ranks)
    <3>1. PICK k \in 1..Len(ranks) : ranks[k] = f
      BY <1>3, <2>1 DEF ToSet
    <3> PICK h \in Ranks : h = k - 1
      BY <1>3 DEF Ranks
    <3>2. h < Len(ranks) /\ h + 1 = k
      BY <1>3
    <3>3. ASSUME NEW g \in Ranks, g # h, NEW i \in 1..Len(fileNumbersWriteOrder[g])
          PROVE  fileNumbers[fileNumbersWriteOrder[g][i]] # f
      <4>1. g + 1 \in 1..Len(ranks) /\ g + 1 # k
        <5>1. g + 1 \in 1..Len(ranks)
          BY <1>4, <1>7, <3>3
        <5>2. g \in Nat /\ h \in Nat
          BY RanksNat
        <5> QED
          BY <3>2, <3>3, <5>1, <5>2
      <4> QED
        BY <1>3, <1>7, <3>1, <4>1
    <3>4. FindOffsets(f) = Selected(fileNumbersWriteOrder[h], T)
      BY <1>6, <3>3, FindOffsetsIs
    <3>5. fileNumbersWriteOrder[h] = <<f>>
      BY <1>4, <3>1, <3>2
    <3>6. Selected(<<f>>, T) = <<f>>
      BY <2>0, SelectedOne
    <3> QED
      BY <1>1, <2>1, <3>4, <3>5, <3>6
  <2>2. CASE f \notin ToSet(ranks)
    <3>1. ASSUME NEW g \in Ranks, NEW i \in 1..Len(fileNumbersWriteOrder[g])
          PROVE  /\ fileNumbers[fileNumbersWriteOrder[g][i]] # f
                 /\ fileNumbersWriteOrder[g][i] # f
      <4>1. ranks[g + 1] \in ToSet(ranks)
        BY <1>3, <1>4, <1>7 DEF ToSet
      <4> QED
        BY <1>7, <2>2, <4>1
    <3> DEFINE q == fileNumbersWriteOrder[f]
    <3>2. FindOffsets(f) = Selected(q, T)
      BY <1>6, <3>1, FindOffsetsIs
    <3>3. q \in Seq(Ranks) /\ \A i \in 1..Len(q) : q[i] \notin T
      BY <1>6, <2>0, <3>1
    <3> HIDE DEF q, T
    <3>4. Selected(q, T) = <<>>
      BY <3>3, SelectedNothing
    <3> QED
      BY <1>1, <2>2, <3>2, <3>4
  <2> QED
    BY <2>1, <2>2
<1> QED
  BY <1>1, <1>8 DEF HeaderTrue

\* Dynamic sets: the decider has chosen, and the coordinator has begun.
Decided == pc[deciderProc] # "ready"
Chosen == coordinatorProc[deciderProc]
Led == Decided /\ pc[Chosen] \in {"assign", "wait_done", "left", "gone"}

\* p waits for a file.
Waits(p) == p \notin setZeroProcs /\ pc[p] \in {"ready", "wait_write"}
Writes == {m \in msgs : m.tag = "write"}

DynamicTyped ==
  /\ deciderProc \in Ranks \ setZeroProcs
  /\ coordinatorProc \in [Ranks -> Ranks] /\ fileNumber \in [Ranks -> Ranks]
  /\ availableFileNumbers \subseteq Ranks /\ \A m \in Carriers : m.val \in Ranks
  /\ fileNumbersWriteOrder \in [Ranks -> Seq(Ranks)] /\ procsToWrite \in [Ranks -> Seq(Ranks)]
  /\ files \in [Ranks -> Seq(Ranks)]
  /\ \A r \in setZeroProcs : /\ fileNumber[r] = FileNumber(nOutFiles, r, groupSets)
                             /\ pc[r] # "wait_write"

\* All ranks learn of the same coordinator, one of set zero.
Agreement ==
  /\ Decided => Chosen \in setZeroProcs
  /\ \A m \in msgs : /\ m.tag = "decider" => m.val \in setZeroProcs
                     /\ m.tag = "coordinator" => Decided /\ m.val = Chosen
                     /\ m.tag = "write" => Led /\ m.src = Chosen
  /\ \A r \in setZeroProcs : pc[r] \in {"assign", "wait_done", "left", "gone"} =>
       Decided /\ coordinatorProc[r] = Chosen
  /\ \A r \in Ranks : pc[r] \in {"assign", "wait_done"} => Decided /\ r = Chosen
  /\ \A r \in Ranks \ setZeroProcs : pc[r] \in {"open", "left", "gone"} =>
       Led /\ coordinatorProc[r] = Chosen

\* A rank that is to write waits: it is sent one message, or it is in one queue.
SentOnce ==
  /\ \A m \in Writes : m.dst \in Ranks /\ Waits(m.dst)
  /\ \A m, n \in Writes : m.dst = n.dst => m = n

QueuedOnce ==
  /\ \A k \in Ranks : IsInjective(procsToWrite[k])
  /\ \A k, l \in Ranks : k # l => ToSet(procsToWrite[k]) \cap ToSet(procsToWrite[l]) = {}
  /\ \A k \in Ranks : \A p \in ToSet(procsToWrite[k]) :
       /\ Waits(p) /\ \A m \in Writes : m.dst # p
       /\ \A f \in Ranks : p \notin ToSet(fileNumbersWriteOrder[f])

\* The order of each file has other ranks; there is none before there is a coordinator.
OrderedOnce ==
  /\ ~Led => \A f \in Ranks : fileNumbersWriteOrder[f] = <<>> /\ procsToWrite[f] = <<>>
  /\ \A f, g \in Ranks :
       f # g => ToSet(fileNumbersWriteOrder[f]) \cap ToSet(fileNumbersWriteOrder[g]) = {}

\* What a file will hold when the rank that has it, if any, has written.
Planned(f) == IF Led THEN fileNumbersWriteOrder[f]
              ELSE RanksOf({p \in setZeroProcs : fileNumber[p] = f})

WritesTo(p, f) ==
  \/ pc[p] = "open" /\ fileNumber[p] = f
  \/ pc[p] = "ready" /\ p \in setZeroProcs /\ fileNumber[p] = f
  \/ \E m \in Writes : m.dst = p /\ m.val = f

DynamicFiles ==
  /\ \A r \in setZeroProcs : pc[r] \in {"ready", "open"} => files[fileNumber[r]] = <<>>
  /\ \A f \in Ranks : \/ files[f] = Planned(f) /\ \A p \in Ranks : ~WritesTo(p, f)
                      \/ \E p \in Ranks : Planned(f) = Append(files[f], p) /\ WritesTo(p, f)
  /\ \A r \in Ranks : pc[r] \notin {"ready", "open", "wait_write"} =>
       r \in ToSet(files[fileNumber[r]])

DynamicInv ==
  DynamicTyped /\ Agreement /\ SentOnce /\ QueuedOnce /\ OrderedOnce /\ DynamicFiles

PcDynamic == {"ready", "open", "left", "gone", "wait_write", "wait_coordinator", "assign",
              "wait_done"}

\* What pc says of a rank.
LEMMA PcIs ==
  ASSUME Typed, OnePlace, mode = "dynamic", DynamicTyped, Agreement
  PROVE  /\ pc \in [Ranks -> PcDynamic] /\ setZeroProcs \subseteq Ranks
         /\ \A p \in Ranks : Position(p) = 0 <=> p \in setZeroProcs
         /\ \A p \in setZeroProcs : pc[p] # "wait_write"
         /\ \A p \in Ranks \ setZeroProcs :
              pc[p] \in {"ready", "wait_write", "open", "left", "gone"}
<1>1. pc \in [Ranks -> PcDynamic] /\ setZeroProcs \subseteq Ranks
      /\ \A p \in Ranks : Position(p) = 0 <=> p \in setZeroProcs
  BY DEF Typed, PcDynamic, setZeroProcs, SetZero, Position
<1>2. \A p \in Ranks : pc[p] = "wait_coordinator" => p \in setZeroProcs
  BY <1>1 DEF OnePlace
<1>3. \A p \in Ranks : pc[p] \in {"assign", "wait_done"} => p \in setZeroProcs
  BY DEF Agreement
<1> QED
  BY <1>1, <1>2, <1>3 DEF DynamicTyped, PcDynamic

\* Steps that give no file to anybody and write none.
LEMMA QuietStep ==
  ASSUME Typed, OnePlace, Typed', mode = "dynamic", DynamicInv,
         UNCHANGED <<config, fileNumber, fileNumbersWriteOrder, procsToWrite, files>>,
         Writes' = Writes,
         \A m \in msgs' : m \in msgs \/ (m.tag = "done" /\ m.val \in Ranks),
         availableFileNumbers' \subseteq Ranks,
         coordinatorProc' \in [Ranks -> Ranks],
         \A q \in Ranks : q \notin setZeroProcs => coordinatorProc'[q] = coordinatorProc[q],
         \A q \in Ranks :
           \/ pc'[q] = pc[q] /\ coordinatorProc'[q] = coordinatorProc[q]
           \/ /\ coordinatorProc'[q] = coordinatorProc[q]
              /\ \/ pc[q] = "ready" /\ q \in setZeroProcs /\ pc'[q] = "open"
                 \/ pc[q] \in {"assign", "wait_done"} /\ pc'[q] \in {"assign", "left"}
                 \/ pc[q] = "left" /\ pc'[q] = "gone"
           \/ /\ pc[q] = "wait_coordinator" /\ pc'[q] = "left" /\ q \in setZeroProcs
              /\ Decided /\ q # Chosen /\ coordinatorProc'[q] = Chosen
  PROVE  DynamicInv'
<1> USE DEF DynamicInv, config
<1>1. /\ pc \in [Ranks -> PcDynamic] /\ setZeroProcs \subseteq Ranks
      /\ \A p \in setZeroProcs : pc[p] # "wait_write"
      /\ \A p \in Ranks \ setZeroProcs : pc[p] \in {"ready", "wait_write", "open", "left", "gone"}
      /\ deciderProc \in Ranks \ setZeroProcs
  BY PcIs DEF DynamicTyped
<1>2. setZeroProcs' = setZeroProcs /\ deciderProc' = deciderProc
  BY DEF setZeroProcs, SetZero, WhichSetPosition, LengthOfSet
<1>3. (Decided' <=> Decided) /\ Chosen' = Chosen
  BY <1>1, <1>2 DEF Decided, Chosen
<1>4. Decided => Chosen \in setZeroProcs
  BY DEF Agreement
<1>5. Led' <=> Led
  BY <1>1, <1>3, <1>4 DEF Led
<1>6. \A p \in Ranks : (Waits(p)' <=> Waits(p))
  BY <1>1, <1>2 DEF Waits
<1>7. DynamicTyped'
  <2>1. \A m \in Carriers' : m.val \in Ranks
    BY DEF Carriers, DynamicTyped
  <2>2. \A r \in setZeroProcs' : /\ fileNumber'[r] = FileNumber(nOutFiles, r, groupSets)'
                                 /\ pc'[r] # "wait_write"
    BY <1>1, <1>2 DEF DynamicTyped, FileNumber, LengthOfSet
  <2> QED
    BY <1>2, <2>1, <2>2 DEF DynamicTyped
<1>8. Agreement'
  <2>1. (Decided => Chosen \in setZeroProcs)'
    BY <1>2, <1>3, <1>4
  <2>2. ASSUME NEW m \in msgs'
        PROVE  /\ m.tag = "decider" => m.val \in setZeroProcs'
               /\ m.tag = "coordinator" => Decided' /\ m.val = Chosen'
               /\ m.tag = "write" => Led' /\ m.src = Chosen'
    BY <1>2, <1>3, <1>5 DEF Agreement
  <2>3. ASSUME NEW r \in setZeroProcs', pc'[r] \in {"assign", "wait_done", "left", "gone"}
        PROVE  Decided' /\ coordinatorProc'[r] = Chosen'
    BY <1>1, <1>2, <1>3, <2>3 DEF Agreement
  <2>4. ASSUME NEW r \in Ranks, pc'[r] \in {"assign", "wait_done"}
        PROVE  Decided' /\ r = Chosen'
    BY <1>1, <1>2, <1>3, <2>4 DEF Agreement
  <2>5. ASSUME NEW r \in Ranks \ setZeroProcs', pc'[r] \in {"open", "left", "gone"}
        PROVE  Led' /\ coordinatorProc'[r] = Chosen'
    <3>1. r \in Ranks \ setZeroProcs /\ pc[r] \in {"open", "left", "gone"}
      BY <1>1, <1>2, <2>5
    <3> QED
      BY <1>2, <1>3, <1>5, <3>1 DEF Agreement
  <2> QED
    BY <2>1, <2>2, <2>3, <2>4, <2>5 DEF Agreement
<1>9. SentOnce'
  BY <1>6 DEF SentOnce
<1>10. QueuedOnce'
  <2>1. \A k \in Ranks : ToSet(procsToWrite[k]) \subseteq Ranks
    <3> TAKE k \in Ranks
    <3>1. procsToWrite[k] \in Seq(Ranks)
      BY DEF DynamicTyped
    <3> QED
      BY <3>1 DEF ToSet
  <2> QED
    BY <1>6, <2>1 DEF QueuedOnce
<1>11. OrderedOnce'
  BY <1>5 DEF OrderedOnce
<1>12. DynamicFiles'
  <2>1. \A f \in Ranks : Planned(f)' = Planned(f)
    BY <1>2, <1>5 DEF Planned, RanksOf, RankSeq
  <2>2. \A p, f \in Ranks : (WritesTo(p, f)' <=> WritesTo(p, f))
    BY <1>1, <1>2 DEF WritesTo
  <2>3. \A r \in setZeroProcs' : pc'[r] \in {"ready", "open"} => pc[r] \in {"ready", "open"}
    BY <1>1, <1>2
  <2>4. \A r \in Ranks : pc'[r] \notin {"ready", "open", "wait_write"} =>
                         pc[r] \notin {"ready", "open", "wait_write"}
    BY <1>1
  <2> QED
    BY <1>2, <2>1, <2>2, <2>3, <2>4 DEF DynamicFiles
<1> QED
  BY <1>7, <1>8, <1>9, <1>10, <1>11, <1>12

UnreadTyped ==
  DOMAIN unreadMessages = Ranks /\ \A r \in Ranks : DOMAIN unreadMessages[r] = {"decider", "done"}

LEMMA UnreadStep ==
  ASSUME UnreadTyped, NEW r \in Ranks, Rank(r)
  PROVE  UnreadTyped'
<1>1. ASSUME NEW t, NEW v, unreadMessages' = [unreadMessages EXCEPT ![r][t] = v]
      PROVE  UnreadTyped'
  BY <1>1 DEF UnreadTyped
<1>2. ASSUME UNCHANGED unreadMessages PROVE UnreadTyped'
  BY <1>2 DEF UnreadTyped
<1>3. CASE Decide(r)
  BY <1>1, <1>3 DEF Decide
<1>4. CASE AllAssigned(r)
  BY <1>1, <1>4 DEF AllAssigned
<1>5. CASE CleanUpMessages(r)
  BY <1>1, <1>5 DEF CleanUpMessages
<1> QED
  BY <1>2, <1>3, <1>4, <1>5 DEF Rank, StaticReady, StaticNext, SparseReady, SparseNext,
     ReadyToRead, ReadNext, SetZeroReady, ReceiveFile, DynamicNext, LearnCoordinator, Assign,
     WaitDone, Destroy

LEMMA QuietSteps ==
  ASSUME Typed, OnePlace, UnreadTyped, mode = "dynamic", DynamicInv, NEW r \in Ranks, Rank(r),
         \/ SetZeroReady(r) \/ WaitDone(r) \/ AllAssigned(r) \/ CleanUpMessages(r) \/ Destroy(r)
         \/ LearnCoordinator(r) /\ r # Chosen
         \/ Assign(r) /\ UNCHANGED msgs
  PROVE  DynamicInv'
<1> USE DEF Goto, coord
<1>0. Typed' /\ DynamicTyped /\ Agreement
  BY TypedStep DEF DynamicInv
<1>1. /\ pc \in [Ranks -> PcDynamic] /\ setZeroProcs \subseteq Ranks
      /\ \A p \in Ranks : Position(p) = 0 <=> p \in setZeroProcs
      /\ \A p \in Ranks \ setZeroProcs : pc[p] \in {"ready", "wait_write", "open", "left", "gone"}
  BY <1>0, PcIs
<1>2. UNCHANGED config
  BY ModeKept
<1>3. CASE SetZeroReady(r)
  <2>1. /\ r \in setZeroProcs /\ pc[r] = "ready" /\ pc' = [pc EXCEPT ![r] = "open"]
        /\ files' = [files EXCEPT ![fileNumber[r]] = <<>>]
        /\ UNCHANGED <<fileNumber, coordinatorProc, msgs, coord>>
    BY <1>1, <1>3 DEF SetZeroReady, Truncate
  <2>2. files[fileNumber[r]] = <<>> /\ fileNumber[r] \in Ranks
    BY <1>0, <2>1 DEF DynamicInv, DynamicFiles, DynamicTyped
  <2>3. files' = files
    BY <1>0, <2>1, <2>2 DEF DynamicTyped
  <2> QED
    BY <1>0, <1>1, <1>2, <2>1, <2>3, QuietStep DEF Writes, DynamicTyped
<1>4. CASE WaitDone(r)
  <2> PICK m \in msgs : /\ m.tag = "done" /\ msgs' = msgs \ {m}
                        /\ availableFileNumbers' = availableFileNumbers \cup {m.val}
    BY <1>4 DEF WaitDone
  <2>1. /\ pc[r] = "wait_done" /\ pc' = [pc EXCEPT ![r] = "assign"]
        /\ UNCHANGED <<fileNumber, coordinatorProc, files, procsToWrite, fileNumbersWriteOrder>>
    BY <1>4 DEF WaitDone
  <2>2. m.val \in Ranks
    BY <1>0 DEF DynamicTyped, Carriers
  <2>3. Writes' = Writes
    BY DEF Writes
  <2> QED
    BY <1>0, <1>1, <1>2, <2>1, <2>2, <2>3, QuietStep DEF DynamicTyped
<1>5. CASE AllAssigned(r)
  <2>1. /\ pc[r] = "assign" /\ pc' = [pc EXCEPT ![r] = "left"]
        /\ UNCHANGED <<fileNumber, coordinatorProc, files, coord, msgs>>
    BY <1>5 DEF AllAssigned
  <2> QED
    BY <1>0, <1>1, <1>2, <2>1, QuietStep DEF Writes, DynamicTyped
<1>6. CASE CleanUpMessages(r)
  <2>1. /\ UNCHANGED <<pc, fileNumber, coordinatorProc, files, coord>> /\ msgs' \subseteq msgs
        /\ Writes' = Writes
    <3> PICK tag \in DOMAIN unreadMessages[r] :
          \E m \in msgs : m.dst = r /\ m.tag = tag /\ msgs' = msgs \ {m}
      BY <1>6 DEF CleanUpMessages
    <3>1. \E m \in msgs : m.tag # "write" /\ msgs' = msgs \ {m}
      BY <1>6 DEF CleanUpMessages, UnreadTyped
    <3> QED
      BY <1>6, <3>1 DEF CleanUpMessages, Writes
  <2> QED
    BY <1>0, <1>1, <1>2, <2>1, QuietStep DEF DynamicTyped
<1>7. CASE Destroy(r)
  <2>1. /\ pc[r] = "left" /\ pc' = [pc EXCEPT ![r] = "gone"]
        /\ UNCHANGED <<fileNumber, coordinatorProc, files, coord, msgs>>
    BY <1>7 DEF Destroy
  <2> QED
    BY <1>0, <1>1, <1>2, <2>1, QuietStep DEF Writes, DynamicTyped
<1>8. CASE LearnCoordinator(r) /\ r # Chosen
  <2> PICK m \in msgs :
        /\ m.dst = r /\ m.tag = "coordinator"
        /\ coordinatorProc' = [coordinatorProc EXCEPT ![r] = m.val]
        /\ IF m.val = r THEN TRUE
           ELSE /\ msgs' = (msgs \ {m}) \cup {Message("done", r, m.val, fileNumber[r])}
                /\ Goto(r, "left")
                /\ UNCHANGED coord
    BY <1>8 DEF LearnCoordinator
  <2>1. pc[r] = "wait_coordinator" /\ UNCHANGED <<fileNumber, files>>
    BY <1>8 DEF LearnCoordinator
  <2>2. Decided /\ m.val = Chosen /\ r \in setZeroProcs
    BY <1>0, <1>1, <2>1 DEF Agreement
  <2>3. m.val # r /\ Chosen \in Ranks
    BY <1>0, <1>1, <1>8, <2>2 DEF Agreement
  <2>4. /\ msgs' = (msgs \ {m}) \cup {Message("done", r, m.val, fileNumber[r])}
        /\ pc' = [pc EXCEPT ![r] = "left"] /\ UNCHANGED coord
    BY <2>3
  <2>5. fileNumber[r] \in Ranks
    BY <1>0 DEF DynamicTyped
  <2>6. Writes' = Writes /\ \A n \in msgs' : n \in msgs \/ (n.tag = "done" /\ n.val \in Ranks)
    BY <2>4, <2>5 DEF Writes, Message
  <2> QED
    BY <1>0, <1>1, <1>2, <2>1, <2>2, <2>3, <2>4, <2>6, QuietStep DEF DynamicTyped
<1>9. CASE Assign(r) /\ UNCHANGED msgs
  <2>1. pc[r] = "assign" /\ UNCHANGED <<fileNumber, coordinatorProc, files>>
    BY <1>9 DEF Assign
  <2> PICK f \in availableFileNumbers :
       /\ availableFileNumbers' = availableFileNumbers \ {f}
       /\ IF NextQueue(f) = {}
          THEN UNCHANGED <<procsToWrite, fileNumbersWriteOrder, msgs, pc>>
          ELSE \E k \in NextQueue(f) :
                 LET q == Head(procsToWrite[k])
                 IN msgs' = msgs \cup {Message("write", r, q, f)}
    BY <1>9 DEF Assign
  <2>2. NextQueue(f) = {}
    <3> SUFFICES ASSUME NextQueue(f) # {} PROVE FALSE
      OBVIOUS
    <3> PICK k \in NextQueue(f) :
          msgs' = msgs \cup {Message("write", r, Head(procsToWrite[k]), f)}
      OBVIOUS
    <3> DEFINE n == Message("write", r, Head(procsToWrite[k]), f)
    <3>1. n.val = f /\ n.tag = "write" /\ n \in msgs
      BY <1>9 DEF Message
    <3>2. n \in Carriers
      BY <3>1 DEF Carriers
    <3> QED
      BY <3>1, <3>2 DEF OnePlace
  <2> QED
    BY <1>0, <1>1, <1>2, <2>1, <2>2, QuietStep DEF Writes, DynamicTyped
<1> QED
  BY <1>3, <1>4, <1>5, <1>6, <1>7, <1>8, <1>9

LEMMA DecideStep ==
  ASSUME Typed, OnePlace, Typed', mode = "dynamic", DynamicInv, NEW r \in Ranks, Decide(r)
  PROVE  DynamicInv'
<1> USE DEF DynamicInv, config, coord
<1>1. /\ pc \in [Ranks -> PcDynamic] /\ setZeroProcs \subseteq Ranks
      /\ \A p \in setZeroProcs : pc[p] # "wait_write"
      /\ \A p \in Ranks \ setZeroProcs : pc[p] \in {"ready", "wait_write", "open", "left", "gone"}
      /\ r = deciderProc /\ r \in Ranks \ setZeroProcs
  BY PcIs DEF DynamicTyped, Decide
<1>2. setZeroProcs' = setZeroProcs /\ deciderProc' = deciderProc
  BY DEF Decide, setZeroProcs, SetZero, WhichSetPosition, LengthOfSet
<1> PICK m \in msgs :
      /\ m.tag = "decider"
      /\ coordinatorProc' = [coordinatorProc EXCEPT ![r] = m.val]
      /\ msgs' = (msgs \ {m}) \cup {Message("coordinator", r, q, m.val) : q \in setZeroProcs}
  BY DEF Decide
<1>3. /\ pc[r] = "ready" /\ pc' = [pc EXCEPT ![r] = "wait_write"]
      /\ UNCHANGED <<config, fileNumber, files, availableFileNumbers, fileNumbersWriteOrder,
                     procsToWrite>>
  BY DEF Decide, Goto
<1>4. m.val \in setZeroProcs
  BY DEF Agreement
<1>5. ~Decided /\ ~Led
  BY <1>1, <1>3 DEF Decided, Led
<1>6. Decided' /\ Chosen' = m.val
  BY <1>1, <1>2, <1>3 DEF Decided, Chosen, DynamicTyped
<1>7. \A q \in setZeroProcs : pc[q] \notin {"assign", "wait_done", "left", "gone"} /\ pc'[q] = pc[q]
  BY <1>1, <1>3, <1>5 DEF Agreement
<1>8. ~Led'
  BY <1>4, <1>6, <1>7 DEF Led
<1>9. Writes = {} /\ Writes' = {}
  BY <1>5 DEF Writes, Agreement, Message
<1>10. \A p \in Ranks : (Waits(p)' <=> Waits(p))
  BY <1>1, <1>2, <1>3 DEF Waits
<1>11. DynamicTyped'
  <2>1. \A n \in Carriers' : n.val \in Ranks
    <3>1. \A n \in Carriers' : n \in Carriers
      BY DEF Carriers, Message
    <3> QED
      BY <3>1 DEF DynamicTyped
  <2>2. \A q \in setZeroProcs' : /\ fileNumber'[q] = FileNumber(nOutFiles, q, groupSets)'
                                 /\ pc'[q] # "wait_write"
    BY <1>1, <1>2, <1>3 DEF DynamicTyped, FileNumber, LengthOfSet
  <2>3. coordinatorProc' \in [Ranks -> Ranks]
    BY <1>1, <1>4 DEF DynamicTyped
  <2> QED
    BY <1>2, <1>3, <2>1, <2>2, <2>3 DEF DynamicTyped
<1>12. Agreement'
  <2>1. ASSUME NEW n \in msgs'
        PROVE  /\ n.tag = "decider" => n.val \in setZeroProcs'
               /\ n.tag = "coordinator" => Decided' /\ n.val = Chosen'
               /\ n.tag = "write" => Led' /\ n.src = Chosen'
    <3>1. CASE n \in msgs
      BY <1>2, <1>5, <3>1 DEF Agreement
    <3>2. CASE n \in {Message("coordinator", r, q, m.val) : q \in setZeroProcs}
      BY <1>6, <3>2 DEF Message
    <3> QED
      BY <3>1, <3>2
  <2>2. ASSUME NEW q \in setZeroProcs', pc'[q] \in {"assign", "wait_done", "left", "gone"}
        PROVE  Decided' /\ coordinatorProc'[q] = Chosen'
    BY <1>2, <1>7, <2>2
  <2>3. ASSUME NEW q \in Ranks, pc'[q] \in {"assign", "wait_done"}
        PROVE  Decided' /\ q = Chosen'
    BY <1>1, <1>3, <1>5, <2>3 DEF Agreement
  <2>4. ASSUME NEW q \in Ranks \ setZeroProcs', pc'[q] \in {"open", "left", "gone"}
        PROVE  Led' /\ coordinatorProc'[q] = Chosen'
    BY <1>1, <1>2, <1>3, <1>5, <2>4 DEF Agreement
  <2> QED
    BY <1>2, <1>4, <1>6, <2>1, <2>2, <2>3, <2>4 DEF Agreement
<1>13. SentOnce'
  BY <1>9 DEF SentOnce
<1>14. QueuedOnce' /\ OrderedOnce'
  <2>1. \A k \in Ranks : procsToWrite[k] = <<>> /\ fileNumbersWriteOrder[k] = <<>>
    BY <1>5 DEF OrderedOnce
  <2>2. \A k \in Ranks : ToSet(procsToWrite[k]) = {}
    BY <2>1 DEF ToSet
  <2> QED
    BY <1>3, <2>1, <2>2 DEF QueuedOnce, OrderedOnce
<1>15. DynamicFiles'
  <2>1. \A f \in Ranks : Planned(f)' = Planned(f)
    BY <1>2, <1>3, <1>5, <1>8 DEF Planned, RanksOf, RankSeq
  <2>2. \A p, f \in Ranks : (WritesTo(p, f)' <=> WritesTo(p, f))
    BY <1>1, <1>2, <1>3, <1>9 DEF WritesTo
  <2>3. \A q \in setZeroProcs' : pc'[q] = pc[q] /\ q \in setZeroProcs
    BY <1>2, <1>7
  <2>4. \A q \in Ranks : pc'[q] \notin {"ready", "open", "wait_write"} => pc'[q] = pc[q]
    BY <1>1, <1>3
  <2> QED
    BY <1>3, <2>1, <2>2, <2>3, <2>4 DEF DynamicFiles
<1> QED
  BY <1>11, <1>12, <1>13, <1>14, <1>15

LEMMA ReceiveStep ==
  ASSUME Typed, OnePlace, Typed', mode = "dynamic", DynamicInv, NEW r \in Ranks, ReceiveFile(r)
  PROVE  DynamicInv'
<1> USE DEF DynamicInv, config, coord
<1>1. /\ pc \in [Ranks -> PcDynamic] /\ setZeroProcs \subseteq Ranks
      /\ \A p \in Ranks : Position(p) = 0 <=> p \in setZeroProcs
      /\ \A p \in setZeroProcs : pc[p] # "wait_write"
      /\ \A p \in Ranks \ setZeroProcs : pc[p] \in {"ready", "wait_write", "open", "left", "gone"}
      /\ deciderProc \in Ranks \ setZeroProcs
  BY PcIs DEF DynamicTyped
<1>2. setZeroProcs' = setZeroProcs /\ deciderProc' = deciderProc
  BY DEF ReceiveFile, setZeroProcs, SetZero, WhichSetPosition, LengthOfSet
<1> PICK m \in msgs :
      /\ m.dst = r /\ m.tag = "write"
      /\ fileNumber' = [fileNumber EXCEPT ![r] = m.val]
      /\ coordinatorProc' = [coordinatorProc EXCEPT ![r] = m.src]
      /\ msgs' = msgs \ {m}
  BY DEF ReceiveFile
<1>3. /\ Waiting(r) /\ pc' = [pc EXCEPT ![r] = "open"]
      /\ UNCHANGED <<config, files, availableFileNumbers, fileNumbersWriteOrder, procsToWrite>>
  BY DEF ReceiveFile, Goto
<1>4. /\ m \in Writes /\ m \in Carriers /\ Led /\ m.src = Chosen /\ m.val \in Ranks
      /\ Waits(r) /\ r \notin setZeroProcs
  <2>1. m \in Writes /\ m \in Carriers
    BY DEF Writes, Carriers
  <2> QED
    BY <2>1 DEF Agreement, SentOnce, Waits, DynamicTyped
<1>5. pc[r] = "wait_write" \/ (pc[r] = "ready" /\ r # deciderProc)
  BY <1>3 DEF Waiting
<1>6. Decided /\ Chosen \in setZeroProcs /\ Chosen \in Ranks /\ Chosen # r
  BY <1>1, <1>4 DEF Led, Agreement
<1>7. Decided' /\ Chosen' = Chosen /\ Led'
  <2>1. Decided'
    BY <1>1, <1>2, <1>3, <1>6 DEF Decided
  <2>2. Chosen' = Chosen
    BY <1>1, <1>2, <1>4 DEF Chosen, DynamicTyped
  <2>3. pc'[Chosen] = pc[Chosen]
    BY <1>1, <1>3, <1>6
  <2> QED
    BY <1>4, <2>1, <2>2, <2>3 DEF Led
<1>8. Writes' = Writes \ {m}
  BY DEF Writes
<1>9. \A n \in Writes' : n \in Writes /\ n.dst # r
  BY <1>4, <1>8 DEF SentOnce
<1>10. \A p \in Ranks : p # r => (Waits(p)' <=> Waits(p)) /\ pc'[p] = pc[p]
  BY <1>1, <1>2, <1>3 DEF Waits
<1>11. DynamicTyped'
  <2>1. \A n \in Carriers' : n.val \in Ranks
    BY DEF Carriers, DynamicTyped
  <2>2. \A q \in setZeroProcs' : /\ fileNumber'[q] = FileNumber(nOutFiles, q, groupSets)'
                                 /\ pc'[q] # "wait_write"
    BY <1>1, <1>2, <1>3, <1>4 DEF DynamicTyped, FileNumber, LengthOfSet
  <2>3. coordinatorProc' \in [Ranks -> Ranks] /\ fileNumber' \in [Ranks -> Ranks]
    BY <1>4, <1>6 DEF DynamicTyped
  <2> QED
    BY <1>1, <1>2, <1>3, <2>1, <2>2, <2>3 DEF DynamicTyped
<1>12. Agreement'
  <2>1. ASSUME NEW n \in msgs'
        PROVE  /\ n.tag = "decider" => n.val \in setZeroProcs'
               /\ n.tag = "coordinator" => Decided' /\ n.val = Chosen'
               /\ n.tag = "write" => Led' /\ n.src = Chosen'
    BY <1>2, <1>7 DEF Agreement
  <2>2. ASSUME NEW q \in setZeroProcs', pc'[q] \in {"assign", "wait_done", "left", "gone"}
        PROVE  Decided' /\ coordinatorProc'[q] = Chosen'
    <3>1. q \in setZeroProcs /\ q # r /\ q \in Ranks
      BY <1>1, <1>2, <1>4
    <3>2. coordinatorProc'[q] = coordinatorProc[q]
      BY <3>1 DEF DynamicTyped
    <3> QED
      BY <1>7, <1>10, <2>2, <3>1, <3>2 DEF Agreement
  <2>3. ASSUME NEW q \in Ranks, pc'[q] \in {"assign", "wait_done"}
        PROVE  Decided' /\ q = Chosen'
    BY <1>1, <1>3, <1>7, <2>3 DEF Agreement
  <2>4. ASSUME NEW q \in Ranks \ setZeroProcs', pc'[q] \in {"open", "left", "gone"}
        PROVE  Led' /\ coordinatorProc'[q] = Chosen'
    <3>1. CASE q = r
      BY <1>4, <1>7, <3>1 DEF DynamicTyped
    <3>2. CASE q # r
      <4>1. coordinatorProc'[q] = coordinatorProc[q] /\ pc'[q] = pc[q]
        BY <1>10, <3>2 DEF DynamicTyped
      <4> QED
        BY <1>2, <1>7, <2>4, <4>1 DEF Agreement
    <3> QED
      BY <3>1, <3>2
  <2> QED
    BY <1>2, <1>6, <1>7, <2>1, <2>2, <2>3, <2>4 DEF Agreement
<1>13. SentOnce'
  BY <1>9, <1>10 DEF SentOnce
<1>14. QueuedOnce' /\ OrderedOnce'
  <2>1. ASSUME NEW k \in Ranks, NEW p \in ToSet(procsToWrite[k])
        PROVE  /\ p \in Ranks /\ p # r /\ Waits(p)' /\ \A n \in Writes' : n.dst # p
               /\ \A f \in Ranks : p \notin ToSet(fileNumbersWriteOrder[f])
    <3>1. procsToWrite[k] \in Seq(Ranks)
      BY DEF DynamicTyped
    <3>2. p \in Ranks
      BY <3>1 DEF ToSet
    <3>3. /\ Waits(p) /\ \A n \in Writes : n.dst # p
          /\ \A f \in Ranks : p \notin ToSet(fileNumbersWriteOrder[f])
      BY DEF QueuedOnce
    <3> QED
      BY <1>4, <1>9, <1>10, <3>2, <3>3
  <2> QED
    BY <1>3, <1>4, <1>7, <2>1 DEF QueuedOnce, OrderedOnce
<1>15. DynamicFiles'
  <2>1. \A f \in Ranks : Planned(f)' = Planned(f)
    BY <1>3, <1>4, <1>7 DEF Planned
  <2>2. ASSUME NEW p \in Ranks, NEW f \in Ranks
        PROVE  WritesTo(p, f)' <=> WritesTo(p, f)
    <3>1. CASE p = r
      <4>1. WritesTo(p, f)' <=> f = m.val
        <5>1. pc'[r] = "open" /\ fileNumber'[r] = m.val
          BY <1>1, <1>3 DEF DynamicTyped
        <5> QED
          BY <1>9, <3>1, <5>1 DEF WritesTo
      <4>2. WritesTo(p, f) <=> f = m.val
        <5>1. pc[r] # "open" /\ \A n \in Writes : n.dst = r => n = m
          BY <1>4, <1>5 DEF SentOnce
        <5> QED
          BY <1>4, <3>1, <5>1 DEF WritesTo
      <4> QED
        BY <4>1, <4>2
    <3>2. CASE p # r
      <4>1. pc'[p] = pc[p] /\ fileNumber'[p] = fileNumber[p]
        BY <1>10, <3>2 DEF DynamicTyped
      <4>2. (\E n \in Writes' : n.dst = p /\ n.val = f) <=> \E n \in Writes : n.dst = p /\ n.val = f
        BY <1>8, <3>2
      <4> QED
        BY <1>2, <4>1, <4>2 DEF WritesTo
    <3> QED
      BY <3>1, <3>2
  <2>3. \A q \in setZeroProcs' : pc'[q] = pc[q] /\ q \in setZeroProcs
        /\ fileNumber'[q] = fileNumber[q]
    BY <1>1, <1>2, <1>4, <1>10 DEF DynamicTyped
  <2>4. \A q \in Ranks : pc'[q] \notin {"ready", "open", "wait_write"} =>
          pc'[q] = pc[q] /\ fileNumber'[q] = fileNumber[q]
    BY <1>1, <1>3, <1>10 DEF DynamicTyped
  <2> QED
    BY <1>3, <2>1, <2>2, <2>3, <2>4 DEF DynamicFiles
<1> QED
  BY <1>11, <1>12, <1>13, <1>14, <1>15

LEMMA DynamicNextStep ==
  ASSUME Typed, OnePlace, Typed', mode = "dynamic", DynamicInv, NEW r \in Ranks, DynamicNext(r)
  PROVE  DynamicInv'
<1> USE DEF DynamicInv, config, coord
<1>1. /\ pc \in [Ranks -> PcDynamic] /\ setZeroProcs \subseteq Ranks
      /\ \A p \in Ranks : Position(p) = 0 <=> p \in setZeroProcs
      /\ \A p \in setZeroProcs : pc[p] # "wait_write"
      /\ \A p \in Ranks \ setZeroProcs : pc[p] \in {"ready", "wait_write", "open", "left", "gone"}
      /\ deciderProc \in Ranks \ setZeroProcs
  BY PcIs DEF DynamicTyped
<1>2. setZeroProcs' = setZeroProcs /\ deciderProc' = deciderProc
  BY DEF DynamicNext, setZeroProcs, SetZero, WhichSetPosition, LengthOfSet
<1> PICK f \in Ranks : f = fileNumber[r]
  BY DEF DynamicTyped
<1>3. /\ pc[r] = "open" /\ files' = [files EXCEPT ![f] = Append(@, r)]
      /\ UNCHANGED <<config, coord, fileNumber, coordinatorProc>>
  BY DEF DynamicNext, WriteData
<1>4. \/ /\ r \in setZeroProcs /\ pc' = [pc EXCEPT ![r] = "wait_coordinator"]
         /\ msgs' = msgs \cup {Message("decider", r, deciderProc, r)}
      \/ /\ r \notin setZeroProcs /\ pc' = [pc EXCEPT ![r] = "left"]
         /\ msgs' = msgs \cup {Message("done", r, coordinatorProc[r], f)}
  BY <1>1 DEF DynamicNext, Goto
<1>5. \A q \in Ranks : q # r => pc'[q] = pc[q]
  BY <1>1, <1>4
<1>6. r \notin setZeroProcs => Led /\ coordinatorProc[r] = Chosen
  BY <1>3 DEF Agreement
<1>7. (Decided' <=> Decided) /\ Chosen' = Chosen
  BY <1>1, <1>2, <1>3, <1>4 DEF Decided, Chosen
<1>8. Decided => Chosen \in setZeroProcs
  BY DEF Agreement
<1>9. Led' <=> Led
  <2>1. CASE Decided /\ Chosen = r
    BY <1>1, <1>3, <1>4, <1>7, <1>8, <2>1 DEF Led
  <2>2. CASE Decided /\ Chosen # r
    BY <1>1, <1>5, <1>7, <1>8, <2>2 DEF Led
  <2>3. CASE ~Decided
    BY <1>7, <2>3 DEF Led
  <2> QED
    BY <2>1, <2>2, <2>3
<1>10. Writes' = Writes
  BY <1>4 DEF Writes, Message
<1>11. \A p \in Ranks : (Waits(p)' <=> Waits(p))
  BY <1>1, <1>2, <1>3, <1>4 DEF Waits
<1>12. DynamicTyped'
  <2>1. \A n \in Carriers' : n.val \in Ranks
    <3>1. \A n \in Carriers' : n \in Carriers \/ n.val = f
      BY <1>4 DEF Carriers, Message
    <3> QED
      BY <3>1 DEF DynamicTyped
  <2>2. \A q \in setZeroProcs' : /\ fileNumber'[q] = FileNumber(nOutFiles, q, groupSets)'
                                 /\ pc'[q] # "wait_write"
    BY <1>1, <1>2, <1>3, <1>4 DEF DynamicTyped, FileNumber, LengthOfSet
  <2>3. files' \in [Ranks -> Seq(Ranks)]
    <3>1. files[f] \in Seq(Ranks)
      BY DEF DynamicTyped
    <3>2. Append(files[f], r) \in Seq(Ranks)
      BY <3>1
    <3> QED
      BY <1>3, <3>2 DEF DynamicTyped
  <2> QED
    BY <1>1, <1>2, <1>3, <2>1, <2>2, <2>3 DEF DynamicTyped
<1>13. Agreement'
  <2>1. ASSUME NEW n \in msgs'
        PROVE  /\ n.tag = "decider" => n.val \in setZeroProcs'
               /\ n.tag = "coordinator" => Decided' /\ n.val = Chosen'
               /\ n.tag = "write" => Led' /\ n.src = Chosen'
    <3>1. CASE n \in msgs
      BY <1>2, <1>7, <1>9, <3>1 DEF Agreement
    <3>2. CASE n \notin msgs
      BY <1>2, <1>4, <3>2 DEF Message
    <3> QED
      BY <3>1, <3>2
  <2>2. ASSUME NEW q \in setZeroProcs', pc'[q] \in {"assign", "wait_done", "left", "gone"}
        PROVE  Decided' /\ coordinatorProc'[q] = Chosen'
    <3>1. q \in setZeroProcs /\ pc'[q] = pc[q]
      BY <1>1, <1>2, <1>4, <2>2
    <3> QED
      BY <1>3, <1>7, <2>2, <3>1 DEF Agreement
  <2>3. ASSUME NEW q \in Ranks, pc'[q] \in {"assign", "wait_done"}
        PROVE  Decided' /\ q = Chosen'
    <3>1. pc'[q] = pc[q]
      BY <1>1, <1>4, <2>3
    <3> QED
      BY <1>7, <2>3, <3>1 DEF Agreement
  <2>4. ASSUME NEW q \in Ranks \ setZeroProcs', pc'[q] \in {"open", "left", "gone"}
        PROVE  Led' /\ coordinatorProc'[q] = Chosen'
    <3>1. CASE q = r
      BY <1>2, <1>3, <1>6, <1>7, <1>9, <3>1
    <3>2. CASE q # r
      BY <1>2, <1>3, <1>5, <1>7, <1>9, <2>4, <3>2 DEF Agreement
    <3> QED
      BY <3>1, <3>2
  <2> QED
    BY <1>2, <1>7, <1>8, <2>1, <2>2, <2>3, <2>4 DEF Agreement
<1>14. SentOnce'
  BY <1>10, <1>11 DEF SentOnce
<1>15. QueuedOnce' /\ OrderedOnce'
  <2>1. \A k \in Ranks : ToSet(procsToWrite[k]) \subseteq Ranks
    <3> TAKE k \in Ranks
    <3>1. procsToWrite[k] \in Seq(Ranks)
      BY DEF DynamicTyped
    <3> QED
      BY <3>1 DEF ToSet
  <2> QED
    BY <1>3, <1>9, <1>10, <1>11, <2>1 DEF QueuedOnce, OrderedOnce
<1>16. DynamicFiles'
  <2>1. \A g \in Ranks : Planned(g)' = Planned(g)
    BY <1>2, <1>3, <1>9 DEF Planned, RanksOf, RankSeq
  <2>2. /\ files'[f] = Append(files[f], r) /\ \A g \in Ranks : g # f => files'[g] = files[g]
        /\ files[f] \in Seq(Ranks)
    BY <1>3 DEF DynamicTyped
  <2>3. Holds(r) /\ \A q \in Ranks : q # r /\ Holds(q) => fileNumber[q] # f
    BY <1>3 DEF OnePlace, Holds
  <2>4. ASSUME NEW p \in Ranks, WritesTo(p, f) PROVE p = r
    <3>1. CASE pc[p] = "open" /\ fileNumber[p] = f
      BY <2>3, <3>1 DEF Holds
    <3>2. CASE pc[p] = "ready" /\ p \in setZeroProcs /\ fileNumber[p] = f
      BY <1>1, <2>3, <3>2 DEF Holds
    <3>3. CASE \E m \in Writes : m.dst = p /\ m.val = f
      <4> PICK m \in Writes : m.val = f
        BY <3>3
      <4>1. m \in Carriers
        BY DEF Writes, Carriers
      <4> QED
        BY <2>3, <4>1 DEF OnePlace
    <3> QED
      BY <2>4, <3>1, <3>2, <3>3 DEF WritesTo
  <2>5. WritesTo(r, f)
    BY <1>3 DEF WritesTo
  <2>6. Planned(f) = files'[f]
    <3>1. \E p \in Ranks : Planned(f) = Append(files[f], p) /\ WritesTo(p, f)
      BY <2>5 DEF DynamicFiles
    <3> QED
      BY <2>2, <2>4, <3>1
  <2>7. \A p, g \in Ranks : p # r => (WritesTo(p, g)' <=> WritesTo(p, g))
    BY <1>2, <1>3, <1>5, <1>10 DEF WritesTo
  <2>8. \A g \in Ranks : ~WritesTo(r, g)' /\ (g # f => ~WritesTo(r, g))
    <3>1. pc'[r] \notin {"open", "ready"}
      BY <1>1, <1>4
    <3>2. \A m \in Writes : m.dst # r
      BY <1>3 DEF SentOnce, Waits
    <3> QED
      BY <1>3, <1>10, <3>1, <3>2 DEF WritesTo
  <2>9. ASSUME NEW g \in Ranks
        PROVE  \/ files'[g] = Planned(g)' /\ \A p \in Ranks : ~WritesTo(p, g)'
               \/ \E p \in Ranks : Planned(g)' = Append(files'[g], p) /\ WritesTo(p, g)'
    <3>1. CASE g = f
      <4>1. \A p \in Ranks : ~WritesTo(p, g)'
        BY <2>4, <2>7, <2>8, <3>1
      <4>2. Planned(g)' = files'[g]
        BY <2>1, <2>6, <3>1
      <4> QED
        BY <4>1, <4>2
    <3>2. CASE g # f
      <4>1. \A p \in Ranks : WritesTo(p, g)' <=> WritesTo(p, g)
        BY <2>7, <2>8, <3>2
      <4>2. files'[g] = files[g] /\ Planned(g)' = Planned(g)
        BY <2>1, <2>2, <3>2
      <4> QED
        BY <4>1, <4>2 DEF DynamicFiles
    <3> QED
      BY <3>1, <3>2
  <2>10. ASSUME NEW q \in setZeroProcs', pc'[q] \in {"ready", "open"}
         PROVE  files'[fileNumber'[q]] = <<>>
    <3>1. q \in setZeroProcs /\ q # r /\ pc[q] \in {"ready", "open"} /\ q \in Ranks
      BY <1>1, <1>2, <1>4, <2>10
    <3>2. fileNumber[q] # f /\ fileNumber[q] \in Ranks
      BY <1>1, <2>3, <3>1 DEF Holds, DynamicTyped
    <3> QED
      BY <1>3, <2>2, <3>1, <3>2 DEF DynamicFiles
  <2>11. ASSUME NEW q \in Ranks, pc'[q] \notin {"ready", "open", "wait_write"}
         PROVE  q \in ToSet(files'[fileNumber'[q]])
    <3>0. \A x : x \in ToSet(files[f]) \/ x = r => x \in ToSet(files'[f])
      <4> DEFINE s == files[f]
      <4>1. s \in Seq(Ranks) /\ files'[f] = Append(s, r)
        BY <2>2
      <4> HIDE DEF s
      <4>2. \A x : x \in ToSet(s) \/ x = r => x \in ToSet(Append(s, r))
        BY <4>1 DEF ToSet
      <4> QED
        BY <4>1, <4>2 DEF s
    <3>1. CASE q = r
      BY <1>3, <3>0, <3>1
    <3>2. CASE q # r
      <4>1. q \in ToSet(files[fileNumber[q]]) /\ fileNumber[q] \in Ranks
        BY <1>5, <2>11, <3>2 DEF DynamicFiles, DynamicTyped
      <4> QED
        BY <1>3, <2>2, <3>0, <4>1
    <3> QED
      BY <3>1, <3>2
  <2> QED
    BY <2>9, <2>10, <2>11 DEF DynamicFiles
<1> QED
  BY <1>12, <1>13, <1>14, <1>15, <1>16

LEMMA CoordinatorStep ==
  ASSUME Typed, OnePlace, Typed', mode = "dynamic", DynamicInv, NEW r \in Ranks,
         LearnCoordinator(r), r = Chosen
  PROVE  DynamicInv'
<1> USE DEF DynamicInv, config
<1>1. /\ pc \in [Ranks -> PcDynamic] /\ setZeroProcs \subseteq Ranks
      /\ \A p \in Ranks : Position(p) = 0 <=> p \in setZeroProcs
      /\ \A p \in setZeroProcs : pc[p] # "wait_write"
      /\ \A p \in Ranks \ setZeroProcs : pc[p] \in {"ready", "wait_write", "open", "left", "gone"}
      /\ deciderProc \in Ranks \ setZeroProcs
  BY PcIs DEF DynamicTyped
<1>2. setZeroProcs' = setZeroProcs /\ deciderProc' = deciderProc
  BY DEF LearnCoordinator, setZeroProcs, SetZero, WhichSetPosition, LengthOfSet
<1> PICK m \in msgs :
      /\ m.tag = "coordinator"
      /\ coordinatorProc' = [coordinatorProc EXCEPT ![r] = m.val]
      /\ m.val = r => BecomeCoordinator(r) /\ Goto(r, "assign") /\ msgs' = msgs \ {m}
  BY DEF LearnCoordinator
<1>3. pc[r] = "wait_coordinator" /\ UNCHANGED <<config, fileNumber, files>>
  BY DEF LearnCoordinator
<1>4. m.val = r /\ Decided /\ r \in setZeroProcs
  BY DEF Agreement
<1>5. BecomeCoordinator(r) /\ pc' = [pc EXCEPT ![r] = "assign"] /\ msgs' = msgs \ {m}
  BY <1>4 DEF Goto
<1>6. ~Led
  BY <1>3 DEF Led
<1>7. Decided' /\ Chosen' = r /\ Led'
  <2>1. Decided' /\ Chosen' = r
    BY <1>1, <1>2, <1>3, <1>4, <1>5 DEF Decided, Chosen, DynamicTyped
  <2>2. pc'[r] = "assign"
    BY <1>1, <1>5
  <2> QED
    BY <2>1, <2>2 DEF Led
<1>8. \A p \in Ranks \ setZeroProcs : pc[p] \in {"ready", "wait_write"} /\ pc'[p] = pc[p]
  BY <1>1, <1>4, <1>5, <1>6 DEF Agreement
<1>9. Writes = {} /\ Writes' = {}
  BY <1>5, <1>6 DEF Writes, Agreement
<1>10. ASSUME NEW f \in Ranks
       PROVE  /\ fileNumbersWriteOrder'[f] = RanksOf({p \in setZeroProcs : fileNumber[p] = f})
              /\ procsToWrite'[f] =
                   RanksOf({p \in Ranks \ setZeroProcs : FileNumber(nOutFiles, p, groupSets) = f})
  <2>1. fileNumbersWriteOrder[f] = <<>>
    BY <1>6 DEF OrderedOnce
  <2> DEFINE S == {p \in setZeroProcs : fileNumber[p] = f}
  <2>2. fileNumbersWriteOrder'[f] = <<>> \o RanksOf(S)
    BY <1>5, <2>1 DEF BecomeCoordinator, RanksOf
  <2> HIDE DEF S
  <2>3. RanksOf(S) \in Seq(Ranks)
    BY RanksOfSeq
  <2>4. <<>> \o RanksOf(S) = RanksOf(S)
    BY <2>3
  <2> QED
    BY <1>5, <2>2, <2>4 DEF BecomeCoordinator, RanksOf, S
<1>11. ASSUME NEW f \in Ranks
       PROVE  /\ ToSet(fileNumbersWriteOrder'[f]) = {p \in setZeroProcs : fileNumber[p] = f}
              /\ ToSet(procsToWrite'[f]) =
                   {p \in Ranks \ setZeroProcs : FileNumber(nOutFiles, p, groupSets) = f}
  BY <1>1, <1>10, RanksOfElements
<1>12. DynamicTyped'
  <2>1. \A n \in Carriers' : n.val \in Ranks
    BY <1>5 DEF Carriers, DynamicTyped
  <2>2. \A q \in setZeroProcs' : /\ fileNumber'[q] = FileNumber(nOutFiles, q, groupSets)'
                                 /\ pc'[q] # "wait_write"
    BY <1>1, <1>2, <1>3, <1>5 DEF DynamicTyped, FileNumber, LengthOfSet
  <2>3. \A f \in Ranks : fileNumbersWriteOrder'[f] \in Seq(Ranks) /\ procsToWrite'[f] \in Seq(Ranks)
    BY <1>10, RanksOfSeq
  <2>4. /\ fileNumbersWriteOrder' = [f \in Ranks |-> fileNumbersWriteOrder'[f]]
        /\ procsToWrite' = [f \in Ranks |-> procsToWrite'[f]]
    BY <1>5 DEF BecomeCoordinator
  <2>5. fileNumbersWriteOrder' \in [Ranks -> Seq(Ranks)] /\ procsToWrite' \in [Ranks -> Seq(Ranks)]
    BY <2>3, <2>4
  <2>6. coordinatorProc' \in [Ranks -> Ranks] /\ availableFileNumbers' \subseteq Ranks
    BY <1>4, <1>5 DEF DynamicTyped, BecomeCoordinator, FirstAvailable
  <2> QED
    BY <1>1, <1>2, <1>3, <2>1, <2>2, <2>5, <2>6 DEF DynamicTyped
<1>13. Agreement'
  <2>1. ASSUME NEW n \in msgs'
        PROVE  /\ n.tag = "decider" => n.val \in setZeroProcs'
               /\ n.tag = "coordinator" => Decided' /\ n.val = Chosen'
               /\ n.tag = "write" => Led' /\ n.src = Chosen'
    BY <1>2, <1>5, <1>7, <1>6 DEF Agreement
  <2>2. ASSUME NEW q \in setZeroProcs', pc'[q] \in {"assign", "wait_done", "left", "gone"}
        PROVE  Decided' /\ coordinatorProc'[q] = Chosen'
    <3>1. CASE q = r
      BY <1>4, <1>7, <3>1 DEF DynamicTyped
    <3>2. CASE q # r
      <4>1. coordinatorProc'[q] = coordinatorProc[q] /\ pc'[q] = pc[q] /\ q \in setZeroProcs
        BY <1>1, <1>2, <1>5, <3>2 DEF DynamicTyped
      <4> QED
        BY <1>7, <2>2, <4>1 DEF Agreement
    <3> QED
      BY <3>1, <3>2
  <2>3. ASSUME NEW q \in Ranks, pc'[q] \in {"assign", "wait_done"}
        PROVE  Decided' /\ q = Chosen'
    BY <1>1, <1>5, <1>7, <2>3 DEF Agreement
  <2>4. ASSUME NEW q \in Ranks \ setZeroProcs', pc'[q] \in {"open", "left", "gone"}
        PROVE  Led' /\ coordinatorProc'[q] = Chosen'
    BY <1>2, <1>8, <2>4
  <2> QED
    BY <1>2, <1>4, <1>7, <2>1, <2>2, <2>3, <2>4 DEF Agreement
<1>14. SentOnce'
  BY <1>9 DEF SentOnce
<1>15. QueuedOnce'
  <2>1. \A k \in Ranks : IsInjective(procsToWrite'[k])
    BY <1>10, RanksOfInjective
  <2>2. \A k, l \in Ranks :
          k # l => ToSet(procsToWrite'[k]) \cap ToSet(procsToWrite'[l]) = {}
    BY <1>11
  <2>3. ASSUME NEW k \in Ranks, NEW p \in ToSet(procsToWrite'[k])
        PROVE  Waits(p)' /\ \A f \in Ranks : p \notin ToSet(fileNumbersWriteOrder'[f])
    <3>1. p \in Ranks \ setZeroProcs
      BY <1>11
    <3> QED
      BY <1>2, <1>8, <1>11, <3>1 DEF Waits
  <2> QED
    BY <1>9, <2>1, <2>2, <2>3 DEF QueuedOnce
<1>16. OrderedOnce'
  BY <1>7, <1>11 DEF OrderedOnce
<1>17. DynamicFiles'
  <2>1. \A f \in Ranks : Planned(f)' = Planned(f)
    BY <1>6, <1>7, <1>10 DEF Planned
  <2>2. \A p, f \in Ranks : (WritesTo(p, f)' <=> WritesTo(p, f))
    <3>1. \A p \in Ranks : (pc'[p] = "open" <=> pc[p] = "open")
          /\ (pc'[p] = "ready" <=> pc[p] = "ready")
      BY <1>1, <1>3, <1>5
    <3> QED
      BY <1>2, <1>3, <1>9, <3>1 DEF WritesTo
  <2>3. \A q \in setZeroProcs' : pc'[q] \in {"ready", "open"} => pc[q] \in {"ready", "open"}
    BY <1>1, <1>2, <1>3, <1>5
  <2>4. \A q \in Ranks : pc'[q] \notin {"ready", "open", "wait_write"} =>
          pc[q] \notin {"ready", "open", "wait_write"}
    BY <1>1, <1>3, <1>5
  <2> QED
    BY <1>2, <1>3, <2>1, <2>2, <2>3, <2>4 DEF DynamicFiles
<1> QED
  BY <1>12, <1>13, <1>14, <1>15, <1>16, <1>17

\* The queue that is served is one of Ranks and has a rank that waits.
LEMMA NextQueueIs ==
  ASSUME Typed, mode = "dynamic", NEW f \in Ranks, NEW k \in NextQueue(f)
  PROVE  k \in Ranks /\ procsToWrite[k] # <<>>
<1> DEFINE at(n) == (f + n) % nOutFiles
<1>1. nOutFiles \in Nat /\ nOutFiles > 0 /\ nOutFiles <= NProcs /\ NProcs \in Nat
  BY NFilesAssumption DEF Typed, Writing
<1>2. PICK n \in 0..nOutFiles-1 : procsToWrite[at(n)] # <<>> /\ k = at(n)
  BY DEF NextQueue
<1>3. f + n \in Nat
  BY <1>1, RanksNat
<1> DEFINE c == f + n
<1>4. c % nOutFiles \in 0..nOutFiles-1
  BY <1>1, <1>3
<1>5. k = c % nOutFiles
  BY <1>2
<1> HIDE DEF c, at
<1>6. k \in 0..NProcs-1
  BY <1>1, <1>4, <1>5
<1> QED
  BY <1>2, <1>6 DEF Ranks

LEMMA AssignStep ==
  ASSUME Typed, OnePlace, Typed', mode = "dynamic", DynamicInv, NEW r \in Ranks,
         Assign(r), ~UNCHANGED msgs
  PROVE  DynamicInv'
<1> USE DEF DynamicInv, config
<1>1. /\ pc \in [Ranks -> PcDynamic] /\ setZeroProcs \subseteq Ranks
      /\ \A p \in Ranks : Position(p) = 0 <=> p \in setZeroProcs
      /\ \A p \in setZeroProcs : pc[p] # "wait_write"
      /\ \A p \in Ranks \ setZeroProcs : pc[p] \in {"ready", "wait_write", "open", "left", "gone"}
      /\ deciderProc \in Ranks \ setZeroProcs
  BY PcIs DEF DynamicTyped
<1>2. setZeroProcs' = setZeroProcs /\ deciderProc' = deciderProc
  BY DEF Assign, setZeroProcs, SetZero, WhichSetPosition, LengthOfSet
<1> PICK f \in availableFileNumbers :
     /\ availableFileNumbers' = availableFileNumbers \ {f}
     /\ ~UNCHANGED msgs =>
          \E k \in NextQueue(f) :
            LET p == Head(procsToWrite[k])
            IN /\ procsToWrite' = [procsToWrite EXCEPT ![k] = Tail(@)]
               /\ fileNumbersWriteOrder' = [fileNumbersWriteOrder EXCEPT ![f] = Append(@, p)]
               /\ msgs' = msgs \cup {Message("write", r, p, f)}
               /\ Goto(r, "wait_done")
  BY DEF Assign
<1> PICK k \in NextQueue(f) :
            LET p == Head(procsToWrite[k])
            IN /\ procsToWrite' = [procsToWrite EXCEPT ![k] = Tail(@)]
               /\ fileNumbersWriteOrder' = [fileNumbersWriteOrder EXCEPT ![f] = Append(@, p)]
               /\ msgs' = msgs \cup {Message("write", r, p, f)}
               /\ Goto(r, "wait_done")
  OBVIOUS
<1> DEFINE queue == procsToWrite[k]
           p == Head(queue)
           order == fileNumbersWriteOrder[f]
           m == Message("write", r, p, f)
<1>3. /\ pc[r] = "assign" /\ pc' = [pc EXCEPT ![r] = "wait_done"]
      /\ UNCHANGED <<config, fileNumber, coordinatorProc, files>>
  BY DEF Assign, Goto
<1>4. f \in Ranks /\ k \in Ranks /\ queue \in Seq(Ranks) /\ queue # <<>> /\ order \in Seq(Ranks)
  BY NextQueueIs DEF DynamicTyped
<1>5. /\ procsToWrite'[k] = Tail(queue)
         /\ \A l \in Ranks : l # k => procsToWrite'[l] = procsToWrite[l]
      /\ procsToWrite' = [procsToWrite EXCEPT ![k] = Tail(queue)]
  BY <1>4 DEF DynamicTyped
<1>6. /\ fileNumbersWriteOrder'[f] = Append(order, p)
      /\ \A g \in Ranks : g # f => fileNumbersWriteOrder'[g] = fileNumbersWriteOrder[g]
      /\ fileNumbersWriteOrder' = [fileNumbersWriteOrder EXCEPT ![f] = Append(order, p)]
  BY <1>4 DEF DynamicTyped
<1>7. msgs' = msgs \cup {m} /\ m.tag = "write" /\ m.src = r /\ m.dst = p /\ m.val = f
  BY DEF Message
<1>8. /\ p \in Ranks /\ p \in ToSet(queue) /\ Tail(queue) \in Seq(Ranks)
      /\ ToSet(Tail(queue)) \subseteq ToSet(queue) \ {p} /\ IsInjective(Tail(queue))
  <2>1. IsInjective(queue)
    BY <1>4 DEF QueuedOnce
  <2> HIDE DEF queue
  <2>2. /\ DOMAIN queue = 1..Len(queue) /\ Len(queue) \in Nat /\ Len(queue) > 0
        /\ p = queue[1] /\ Tail(queue) \in Seq(Ranks) /\ Len(Tail(queue)) = Len(queue) - 1
        /\ DOMAIN Tail(queue) = 1..Len(queue)-1
        /\ \A i \in 1..Len(queue)-1 : Tail(queue)[i] = queue[i + 1]
    BY <1>4
  <2>3. p \in ToSet(queue) /\ p \in Ranks
    BY <1>4, <2>2 DEF ToSet
  <2>4. ASSUME NEW i \in 1..Len(queue)-1
        PROVE  Tail(queue)[i] \in ToSet(queue) /\ Tail(queue)[i] # p
    <3>1. i + 1 \in 1..Len(queue) /\ 1 \in 1..Len(queue) /\ i + 1 # 1
      BY <2>2
    <3> QED
      BY <2>1, <2>2, <3>1 DEF IsInjective, ToSet
  <2>5. IsInjective(Tail(queue))
    <3> SUFFICES ASSUME NEW i \in 1..Len(queue)-1, NEW j \in 1..Len(queue)-1,
                        Tail(queue)[i] = Tail(queue)[j]
                 PROVE  i = j
      BY <2>2 DEF IsInjective
    <3>1. i + 1 \in 1..Len(queue) /\ j + 1 \in 1..Len(queue)
      BY <2>2
    <3>2. i + 1 = j + 1
      BY <2>1, <2>2, <3>1 DEF IsInjective
    <3> QED
      BY <3>2
  <2>6. ToSet(Tail(queue)) \subseteq ToSet(queue) \ {p}
    BY <2>2, <2>4 DEF ToSet
  <2> QED
    BY <2>2, <2>3, <2>5, <2>6
<1>9. ToSet(Append(order, p)) = ToSet(order) \cup {p}
  <2> HIDE DEF order, p
  <2>1. /\ Len(Append(order, p)) = Len(order) + 1 /\ Len(order) \in Nat
        /\ DOMAIN order = 1..Len(order) /\ DOMAIN Append(order, p) = 1..Len(order)+1
        /\ Append(order, p)[Len(order) + 1] = p
        /\ \A i \in 1..Len(order) : Append(order, p)[i] = order[i]
    BY <1>4, <1>8
  <2>2. 1..Len(order)+1 = (1..Len(order)) \cup {Len(order) + 1}
    BY <2>1
  <2> QED
    BY <2>1, <2>2 DEF ToSet
<1> HIDE DEF queue, p, order, m
<1> PICK x \in Ranks : x = p
  BY <1>8
<1>10. r = Chosen /\ Decided /\ r \in setZeroProcs
  BY <1>3 DEF Agreement
<1>11. Led /\ Decided' /\ Chosen' = Chosen /\ Led'
  <2>1. Led
    BY <1>3, <1>10 DEF Led
  <2>2. Decided' /\ Chosen' = Chosen
    BY <1>1, <1>2, <1>3, <1>10 DEF Decided, Chosen
  <2>3. pc'[r] = "wait_done"
    BY <1>1, <1>3
  <2> QED
    BY <1>10, <2>1, <2>2, <2>3 DEF Led
<1>12. Writes' = Writes \cup {m}
  BY <1>7 DEF Writes
<1>13. \A q \in Ranks : (Waits(q)' <=> Waits(q)) /\ (q # r => pc'[q] = pc[q])
  BY <1>1, <1>2, <1>3 DEF Waits
<1>14. /\ Waits(p) /\ \A n \in Writes : n.dst # p
       /\ \A g \in Ranks : p \notin ToSet(fileNumbersWriteOrder[g])
  BY <1>4, <1>8 DEF QueuedOnce, queue
<1>15. \A l \in Ranks : p \notin ToSet(procsToWrite'[l])
                        /\ ToSet(procsToWrite'[l]) \subseteq ToSet(procsToWrite[l])
  <2> TAKE l \in Ranks
  <2>1. CASE l = k
    BY <1>5, <1>8, <2>1 DEF queue
  <2>2. CASE l # k
    <3>1. ToSet(procsToWrite[l]) \cap ToSet(procsToWrite[k]) = {}
      BY <1>4, <2>2 DEF QueuedOnce
    <3> QED
      BY <1>5, <1>8, <2>2, <3>1 DEF queue
  <2> QED
    BY <2>1, <2>2
<1>16. DynamicTyped'
  <2>1. \A n \in Carriers' : n.val \in Ranks
    BY <1>4, <1>7 DEF Carriers, DynamicTyped
  <2>2. \A q \in setZeroProcs' : /\ fileNumber'[q] = FileNumber(nOutFiles, q, groupSets)'
                                 /\ pc'[q] # "wait_write"
    BY <1>1, <1>2, <1>3 DEF DynamicTyped, FileNumber, LengthOfSet
  <2>3. fileNumbersWriteOrder' \in [Ranks -> Seq(Ranks)]
    <3>1. Append(order, p) \in Seq(Ranks)
      BY <1>4, <1>8
    <3> QED
      BY <1>6, <3>1 DEF DynamicTyped
  <2>4. procsToWrite' \in [Ranks -> Seq(Ranks)]
    BY <1>5, <1>8 DEF DynamicTyped
  <2> QED
    BY <1>1, <1>2, <1>3, <2>1, <2>2, <2>3, <2>4 DEF DynamicTyped
<1>17. Agreement'
  <2>1. ASSUME NEW n \in msgs'
        PROVE  /\ n.tag = "decider" => n.val \in setZeroProcs'
               /\ n.tag = "coordinator" => Decided' /\ n.val = Chosen'
               /\ n.tag = "write" => Led' /\ n.src = Chosen'
    BY <1>2, <1>7, <1>10, <1>11 DEF Agreement
  <2>2. ASSUME NEW q \in setZeroProcs', pc'[q] \in {"assign", "wait_done", "left", "gone"}
        PROVE  Decided' /\ coordinatorProc'[q] = Chosen'
    BY <1>1, <1>2, <1>3, <1>11, <1>13, <2>2 DEF Agreement
  <2>3. ASSUME NEW q \in Ranks, pc'[q] \in {"assign", "wait_done"}
        PROVE  Decided' /\ q = Chosen'
    BY <1>10, <1>11, <1>13, <2>3 DEF Agreement
  <2>4. ASSUME NEW q \in Ranks \ setZeroProcs', pc'[q] \in {"open", "left", "gone"}
        PROVE  Led' /\ coordinatorProc'[q] = Chosen'
    BY <1>2, <1>3, <1>10, <1>11, <1>13, <2>4 DEF Agreement
  <2> QED
    BY <1>2, <1>10, <1>11, <2>1, <2>2, <2>3, <2>4 DEF Agreement
<1>18. SentOnce'
  BY <1>7, <1>8, <1>12, <1>13, <1>14 DEF SentOnce
<1>19. QueuedOnce'
  <2>1. \A l \in Ranks : IsInjective(procsToWrite'[l])
    BY <1>5, <1>8 DEF QueuedOnce
  <2>2. \A l, n \in Ranks :
          l # n => ToSet(procsToWrite'[l]) \cap ToSet(procsToWrite'[n]) = {}
    <3> SUFFICES ASSUME NEW l \in Ranks, NEW n \in Ranks, l # n
                 PROVE  ToSet(procsToWrite'[l]) \cap ToSet(procsToWrite'[n]) = {}
      OBVIOUS
    <3>1. ToSet(procsToWrite[l]) \cap ToSet(procsToWrite[n]) = {}
      BY DEF QueuedOnce
    <3> QED
      BY <1>15, <3>1
  <2>3. ASSUME NEW l \in Ranks, NEW q \in ToSet(procsToWrite'[l])
        PROVE  /\ Waits(q)' /\ \A n \in Writes' : n.dst # q
               /\ \A g \in Ranks : q \notin ToSet(fileNumbersWriteOrder'[g])
    <3>1. q \in ToSet(procsToWrite[l]) /\ q # p
      BY <1>15
    <3>2. q \in Ranks
      <4>1. procsToWrite[l] \in Seq(Ranks)
        BY DEF DynamicTyped
      <4> QED
        BY <3>1, <4>1 DEF ToSet
    <3>3. /\ Waits(q) /\ \A n \in Writes : n.dst # q
          /\ \A g \in Ranks : q \notin ToSet(fileNumbersWriteOrder[g])
      BY <3>1 DEF QueuedOnce
    <3>4. \A g \in Ranks : q \notin ToSet(fileNumbersWriteOrder'[g])
      BY <1>6, <1>9, <3>1, <3>3 DEF order
    <3> QED
      BY <1>7, <1>12, <1>13, <3>1, <3>2, <3>3, <3>4
  <2> QED
    BY <2>1, <2>2, <2>3 DEF QueuedOnce
<1>20. OrderedOnce'
  <2> SUFFICES ASSUME NEW g \in Ranks, NEW h \in Ranks, g # h
               PROVE  ToSet(fileNumbersWriteOrder'[g]) \cap ToSet(fileNumbersWriteOrder'[h]) = {}
    BY <1>11 DEF OrderedOnce
  <2>1. ToSet(fileNumbersWriteOrder[g]) \cap ToSet(fileNumbersWriteOrder[h]) = {}
    BY DEF OrderedOnce
  <2> QED
    BY <1>6, <1>9, <1>14, <2>1 DEF order
<1>21. DynamicFiles'
  <2>1. Planned(f) = order /\ Planned(f)' = Append(order, p)
        /\ \A g \in Ranks : g # f => Planned(g)' = Planned(g)
    BY <1>6, <1>11 DEF Planned, order
  <2>2. \A q \in Ranks : ~WritesTo(q, f)
    <3> SUFFICES ASSUME NEW q \in Ranks, WritesTo(q, f) PROVE FALSE
      OBVIOUS
    <3>1. CASE pc[q] = "open" /\ fileNumber[q] = f
      BY <3>1 DEF OnePlace, Holds
    <3>2. CASE pc[q] = "ready" /\ q \in setZeroProcs /\ fileNumber[q] = f
      BY <1>1, <3>2 DEF OnePlace, Holds
    <3>3. CASE \E n \in Writes : n.dst = q /\ n.val = f
      <4> PICK n \in Writes : n.val = f
        BY <3>3
      <4>1. n \in Carriers
        BY DEF Writes, Carriers
      <4> QED
        BY <4>1 DEF OnePlace
    <3> QED
      BY <3>1, <3>2, <3>3 DEF WritesTo
  <2>3. files[f] = order
    BY <1>4, <2>1, <2>2 DEF DynamicFiles
  <2>4. \A q \in Ranks : (pc'[q] = "open" <=> pc[q] = "open")
        /\ (pc'[q] = "ready" <=> pc[q] = "ready")
    BY <1>1, <1>3
  <2>5. \A q, g \in Ranks : g # f => (WritesTo(q, g)' <=> WritesTo(q, g))
    BY <1>2, <1>3, <1>7, <1>12, <2>4 DEF WritesTo
  <2>6. WritesTo(x, f)'
    BY <1>7, <1>12 DEF WritesTo
  <2>7. ASSUME NEW g \in Ranks
        PROVE  \/ files'[g] = Planned(g)' /\ \A q \in Ranks : ~WritesTo(q, g)'
               \/ \E q \in Ranks : Planned(g)' = Append(files'[g], q) /\ WritesTo(q, g)'
    <3>1. CASE g = f
      <4>1. Planned(g)' = Append(files'[g], x) /\ WritesTo(x, g)'
        BY <1>3, <2>1, <2>3, <2>6, <3>1
      <4> QED
        BY <4>1
    <3>2. CASE g # f
      BY <1>3, <2>1, <2>5, <3>2 DEF DynamicFiles
    <3> QED
      BY <3>1, <3>2
  <2>8. \A q \in setZeroProcs' : pc'[q] \in {"ready", "open"} => pc[q] \in {"ready", "open"}
    BY <1>1, <1>2, <1>3
  <2>9. \A q \in Ranks : pc'[q] \notin {"ready", "open", "wait_write"} =>
          pc[q] \notin {"ready", "open", "wait_write"}
    BY <1>1, <1>3
  <2> QED
    BY <1>2, <1>3, <2>7, <2>8, <2>9 DEF DynamicFiles
<1> QED
  BY <1>16, <1>17, <1>18, <1>19, <1>20, <1>21

\* The header of dynamic sets, where FindOffsets reads fileNumbersWriteOrder backwards.
LEMMA DynamicHeader ==
  ASSUME Typed, OnePlace, mode = "dynamic", DynamicInv, \A r \in Ranks : Left(r)
  PROVE  HeaderTrue
<1> USE DEF DynamicInv
<1>1. /\ setZeroProcs \subseteq Ranks /\ deciderProc \in Ranks \ setZeroProcs
      /\ \A p \in Ranks : pc[p] \in {"left", "gone"}
  BY PcIs DEF DynamicTyped, Left
<1>2. Decided /\ Chosen \in setZeroProcs /\ Led
  BY <1>1 DEF Decided, Led, Agreement
<1>3. \A p \in Ranks : coordinatorProc[p] = Chosen
  BY <1>1 DEF Agreement
<1>4. Writes = {}
  BY <1>1 DEF SentOnce, Waits
<1>5. \A f \in Ranks : files[f] = fileNumbersWriteOrder[f]
  <2>1. \A p, f \in Ranks : ~WritesTo(p, f)
    BY <1>1, <1>4 DEF WritesTo
  <2> QED
    BY <1>2, <2>1 DEF DynamicFiles, Planned
<1>6. ASSUME NEW f \in Ranks, NEW i \in 1..Len(fileNumbersWriteOrder[f])
      PROVE  /\ fileNumbersWriteOrder[f][i] \in Ranks
             /\ fileNumbers[fileNumbersWriteOrder[f][i]] = f
  <2>1. fileNumbersWriteOrder[f] \in Seq(Ranks)
    BY DEF DynamicTyped
  <2> PICK x \in Ranks : x = fileNumbersWriteOrder[f][i]
    BY <2>1
  <2>2. x \in ToSet(fileNumbersWriteOrder[f])
    BY <2>1, ToSetContains
  <2>3. \A g \in Ranks : Contains(fileNumbersWriteOrder[g], x) <=> g = f
    <3> TAKE g \in Ranks
    <3>1. fileNumbersWriteOrder[g] \in Seq(Ranks)
      BY DEF DynamicTyped
    <3>2. Contains(fileNumbersWriteOrder[g], x) <=> x \in ToSet(fileNumbersWriteOrder[g])
      BY <3>1, ToSetContains
    <3> QED
      BY <2>2, <3>2 DEF OrderedOnce
  <2>4. FileNumbersWritten[x] = f
    BY <2>3 DEF FileNumbersWritten
  <2> QED
    BY <2>4 DEF fileNumbers
<1>7. ASSUME NEW f \in Ranks PROVE files[f] = FindOffsets(f)
  <2> DEFINE q == fileNumbersWriteOrder[f]
             T == {p \in Ranks : fileNumbers[p] = f}
  <2>0. fileNumbersWriteOrder \in [Ranks -> Seq(Ranks)]
    BY DEF DynamicTyped
  <2>1. FindOffsets(f) = Selected(q, T)
    BY <1>6, <2>0, FindOffsetsIs
  <2>2. q \in Seq(Ranks) /\ \A i \in 1..Len(q) : q[i] \in T
    BY <1>6 DEF DynamicTyped
  <2> HIDE DEF q, T
  <2>3. Selected(q, T) = q
    BY <2>2, SelectedAll
  <2> QED
    BY <1>5, <2>1, <2>3 DEF q
<1>8. ASSUME NEW r \in Ranks PROVE \E f \in Ranks : Contains(files[f], r)
  <2> PICK f \in Ranks : f = fileNumber[r]
    BY DEF DynamicTyped
  <2>1. r \in ToSet(files[f]) /\ files[f] \in Seq(Ranks)
    BY <1>1 DEF DynamicFiles, DynamicTyped
  <2>2. Contains(files[f], r)
    BY <2>1, ToSetContains
  <2> QED
    BY <2>2
<1> QED
  BY <1>3, <1>7, <1>8 DEF HeaderTrue

\* With fewer files than ranks some rank is not the first of its file.
LEMMA SomeDecider ==
  ASSUME NEW n \in 1..NProcs, n < NProcs, NEW group \in BOOLEAN
  PROVE  \E r \in Ranks : r \notin SetZero(n, group)
<1>1. NProcs \in Nat /\ n \in Nat /\ n > 0
  BY NFilesAssumption
<1>2. CASE group
  <2>1. n \in Ranks
    BY <1>1 DEF Ranks
  <2>2. n = n * 1 + 0 /\ 1 \in Nat /\ 0 \in 0..n-1
    BY <1>1
  <2>3. n \div n = 1
    BY <1>1, <2>2, DivUnique
  <2>4. n \notin SetZero(n, group)
    BY <1>2, <2>3 DEF SetZero, WhichSetPosition
  <2> QED
    BY <2>1, <2>4
<1>3. CASE ~group
  <2> DEFINE b == LengthOfSet(n)
             a == NProcs + (n - 1)
  <2>1. b \in Nat /\ b > 0
    BY LengthOfSetPositive
  <2>2. b # 1
    <3> SUFFICES ASSUME b = 1 PROVE FALSE
      OBVIOUS
    <3>1. a \in Nat /\ a >= n + n
      BY <1>1
    <3>2. a \div n = 1
      BY DEF LengthOfSet
    <3>3. a = n * 1 + (a % n) /\ a % n \in 0..n-1
      <4> HIDE DEF a
      <4>1. a = n * (a \div n) + (a % n) /\ a % n \in 0..n-1
        BY <1>1, <3>1, DivMod
      <4> QED
        BY <3>2, <4>1
    <3> DEFINE c == a % n
    <3> HIDE DEF c
    <3>4. a = n + c /\ c < n /\ c \in Nat
      BY <1>1, <3>3 DEF c
    <3> HIDE DEF a
    <3> QED
      BY <1>1, <3>1, <3>4
  <2> HIDE DEF b
  <2>3. 1 \in Ranks
    BY <1>1 DEF Ranks
  <2>4. 1 = b * 0 + 1 /\ 0 \in Nat /\ 1 \in 0..b-1
    BY <2>1, <2>2
  <2>5. 1 % b = 1
    BY <2>1, <2>4, DivUnique
  <2>6. 1 \notin SetZero(n, group)
    BY <1>3, <2>5 DEF SetZero, WhichSetPosition, b
  <2> QED
    BY <2>3, <2>6
<1> QED
  BY <1>2, <1>3

LEMMA DeciderIs ==
  ASSUME NEW n \in 1..NProcs, n < NProcs, NEW group \in BOOLEAN, NEW index \in Int, NEW d
  PROVE  Decider(n, group, index, d) \in Ranks \ SetZero(n, group)
<1> DEFINE S == Ranks \ SetZero(n, group)
           q == Selected(RankSeq, S)
<1>1. q = RanksOf(S) /\ S \subseteq Ranks /\ S # {}
  BY SomeDecider DEF RanksOf
<1>2. q \in Seq(Ranks) /\ ToSet(q) = S
  BY <1>1, RanksOfSeq, RanksOfElements
<1> HIDE DEF q
<1>3. Len(q) \in Nat /\ q # <<>> /\ \A i \in 1..Len(q) : q[i] \in S
  <2>1. ToSet(<<>>) = {}
    BY DEF ToSet
  <2>2. q # <<>>
    BY <1>1, <1>2, <2>1
  <2> QED
    BY <1>2, <2>2, ToSetContains
<1>4. Len(q) # 0
  BY <1>2, <1>3
<1> HIDE DEF S
<1> DEFINE i == IF index >= Len(q) \/ index < 0 THEN 0 ELSE index
<1>5. i + 1 \in 1..Len(q)
  BY <1>3, <1>4
<1>6. Decider(n, group, index, d) = IF d \in S THEN d ELSE q[i + 1]
  BY DEF Decider, S, q
<1> QED
  BY <1>3, <1>5, <1>6 DEF S

LEMMA InitDynamic ==
  ASSUME Init, IInv, mode = "dynamic"
  PROVE  DynamicInv
<1> USE DEF Init
<1>1. /\ nOutFiles \in 1..NProcs /\ groupSets \in BOOLEAN /\ nOutFiles < NProcs
      /\ fileNumber = [r \in Ranks |-> FileNumber(nOutFiles, r, groupSets)]
      /\ fileNumbersWriteOrder = [f \in Ranks |-> <<>>]
  BY DEF IInv, Typed, Writing, InitWriting, InitRanks
<1>2. deciderProc \in Ranks \ setZeroProcs
  <2> PICK index \in DeciderIndices, d \in DeciderInputs :
        deciderProc = Decider(nOutFiles, groupSets, index, d)
    BY DEF InitWriting, InitRanks
  <2>1. index \in Int
    BY NFilesAssumption
  <2> QED
    BY <1>1, <2>1, DeciderIs DEF setZeroProcs
<1>3. /\ \A r \in Ranks : fileNumber[r] = FileNumber(nOutFiles, r, groupSets)
      /\ \A r \in Ranks : fileNumber[r] \in Ranks
      /\ fileNumber \in [Ranks -> Ranks]
  BY <1>1, FileNumberTyped
<1>4. /\ setZeroProcs \subseteq Ranks /\ \A r \in setZeroProcs : Position(r) = 0
      /\ \A r \in Ranks : pc[r] = "ready"
  BY DEF setZeroProcs, SetZero, Position
<1>5. ~Decided /\ ~Led /\ Writes = {} /\ Carriers = {}
  BY <1>2, <1>4 DEF Decided, Led, Writes, Carriers
<1>6. /\ <<>> \in Seq(Ranks) /\ ToSet(<<>>) = {} /\ IsInjective(<<>>) /\ IOProcessor \in Ranks
  BY NFilesAssumption DEF ToSet, IsInjective, IOProcessor, Ranks
<1>7. /\ \A f \in Ranks : fileNumbersWriteOrder[f] = <<>> /\ procsToWrite[f] = <<>>
      /\ \A f \in Ranks : files[f] = <<>>
      /\ fileNumbersWriteOrder \in [Ranks -> Seq(Ranks)] /\ procsToWrite \in [Ranks -> Seq(Ranks)]
      /\ files \in [Ranks -> Seq(Ranks)] /\ coordinatorProc \in [Ranks -> Ranks]
  <2>1. \A s \in Seq(Ranks) : [f \in Ranks |-> s] \in [Ranks -> Seq(Ranks)]
    OBVIOUS
  <2> QED
    BY <1>1, <1>6, <2>1
<1>8. DynamicTyped
  BY <1>2, <1>3, <1>4, <1>5, <1>7 DEF DynamicTyped
<1>9. Agreement
  BY <1>4, <1>5 DEF Agreement
<1>10. SentOnce /\ QueuedOnce /\ OrderedOnce
  BY <1>5, <1>6, <1>7 DEF SentOnce, QueuedOnce, OrderedOnce
<1>11. DynamicFiles
  <2>1. ASSUME NEW f \in Ranks
        PROVE  \/ files[f] = Planned(f) /\ \A p \in Ranks : ~WritesTo(p, f)
               \/ \E p \in Ranks : Planned(f) = Append(files[f], p) /\ WritesTo(p, f)
    <3> DEFINE S == {p \in setZeroProcs : fileNumber[p] = f}
    <3>1. Planned(f) = RanksOf(S)
      BY <1>5 DEF Planned
    <3>2. CASE S = {}
      <4>1. \A p \in Ranks : ~WritesTo(p, f)
        BY <1>4, <1>5, <3>2 DEF WritesTo
      <4> QED
        BY <1>7, <3>1, <3>2, <4>1, RanksOfNone
    <3>3. CASE S # {}
      <4> PICK p \in S : TRUE
        BY <3>3
      <4>1. p \in Ranks /\ p \in setZeroProcs /\ fileNumber[p] = f
        BY <1>4
      <4>2. \A q \in S : q = p
        <5> SUFFICES ASSUME NEW q \in S PROVE q = p
          OBVIOUS
        <5>1. q \in Ranks /\ Position(q) = Position(p) /\ fileNumber[q] = fileNumber[p]
          BY <1>4
        <5> QED
          BY <1>1, <1>3, <4>1, <5>1, PositionsDiffer DEF Position
      <4>3. S = {p}
        BY <4>2
      <4>4. Planned(f) = <<p>>
        BY <3>1, <4>1, <4>3, RanksOfOne
      <4>5. Append(files[f], p) = <<p>>
        BY <1>7
      <4>6. WritesTo(p, f)
        BY <1>4, <4>1 DEF WritesTo
      <4> QED
        BY <4>1, <4>4, <4>5, <4>6
    <3> QED
      BY <3>2, <3>3
  <2> QED
    BY <1>3, <1>4, <1>7, <2>1 DEF DynamicFiles
<1> QED
  BY <1>8, <1>9, <1>10, <1>11 DEF DynamicInv

LEMMA InitFixed ==
  ASSUME Init
  PROVE  UnreadTyped /\ StaticFiles /\ SparseFiles
<1> USE DEF Init
<1>1. UnreadTyped
  BY DEF UnreadTyped
<1>2. files \in [Ranks -> Seq(Ranks)] /\ \A f \in Ranks : files[f] = <<>> /\ ~Left(f)
  <2>1. <<>> \in Seq(Ranks)
    OBVIOUS
  <2>2. \A s \in Seq(Ranks) : [f \in Ranks |-> s] \in [Ranks -> Seq(Ranks)]
    OBVIOUS
  <2> QED
    BY <2>1, <2>2 DEF Left
<1>3. StaticFiles
  <2>1. \A f \in Ranks : {p \in FileRanks(f) : Left(p)} = {}
    BY <1>2 DEF FileRanks
  <2> QED
    BY <1>2, <2>1, RanksOfNone DEF StaticFiles, InitWriting, InitRanks
<1>4. SparseFiles
  <2> SUFFICES ASSUME mode = "sparse" PROVE SparseFiles
    BY DEF SparseFiles
  <2>1. /\ ranks \in RanksInputs
        /\ fileNumbersWriteOrder =
             [i \in Ranks |-> IF i < Len(ranks) THEN <<ranks[i + 1]>> ELSE <<>>]
    BY DEF InitWriting, InitRanks
  <2> QED
    BY <1>2, <2>1 DEF SparseFiles
<1> QED
  BY <1>1, <1>3, <1>4

\* The whole invariant of the iterators.
IteratorInv ==
  IInv /\ UnreadTyped /\ StaticFiles /\ SparseFiles /\ (mode = "dynamic" => DynamicInv)

LEMMA IteratorStep ==
  ASSUME IteratorInv, NEW r \in Ranks, Rank(r)
  PROVE  IteratorInv'
<1> USE DEF IteratorInv
<1>1. IInv'
  BY NextInv DEF Next
<1>2. UnreadTyped' /\ StaticFiles' /\ SparseFiles'
  BY UnreadStep, StaticFilesStep, SparseFilesStep
<1>3. ASSUME mode' = "dynamic" PROVE DynamicInv'
  <2>1. /\ mode = "dynamic" /\ DynamicInv /\ Typed /\ OnePlace /\ Typed' /\ UnreadTyped
    BY <1>1, <1>3, ModeKept DEF config, IInv
  <2>2. CASE Decide(r)
    BY <2>1, <2>2, DecideStep
  <2>3. CASE ReceiveFile(r)
    BY <2>1, <2>3, ReceiveStep
  <2>4. CASE DynamicNext(r)
    BY <2>1, <2>4, DynamicNextStep
  <2>5. CASE LearnCoordinator(r) /\ r = Chosen
    BY <2>1, <2>5, CoordinatorStep
  <2>6. CASE Assign(r) /\ ~UNCHANGED msgs
    BY <2>1, <2>6, AssignStep
  <2>7. CASE \/ SetZeroReady(r) \/ WaitDone(r) \/ AllAssigned(r) \/ CleanUpMessages(r) \/ Destroy(r)
             \/ LearnCoordinator(r) /\ r # Chosen
             \/ Assign(r) /\ UNCHANGED msgs
    BY <2>1, <2>7, QuietSteps
  <2> QED
    BY <2>1, <2>2, <2>3, <2>4, <2>5, <2>6, <2>7, DynamicSteps
<1> QED
  BY <1>1, <1>2, <1>3

LEMMA IteratorNext == IteratorInv /\ [Next]_vars => IteratorInv'
<1> SUFFICES ASSUME IteratorInv, [Next]_vars PROVE IteratorInv'
  OBVIOUS
<1>1. CASE Next
  <2> PICK r \in Ranks : Rank(r)
    BY <1>1 DEF Next
  <2> QED
    BY IteratorStep
<1>2. CASE UNCHANGED vars
  <2>1. IInv'
    BY <1>2, NextInv DEF IteratorInv
  <2>2. UNCHANGED <<mode, nOutFiles, groupSets, ranks, deciderProc, pc, fileNumber,
                    coordinatorProc, remainingWriters, procsToWrite, availableFileNumbers,
                    fileNumbersWriteOrder, unreadMessages, msgs, files>>
    BY <1>2 DEF vars, config, coord, local
  <2>3. (UnreadTyped' <=> UnreadTyped) /\ (StaticFiles' <=> StaticFiles)
        /\ (SparseFiles' <=> SparseFiles) /\ (DynamicInv' <=> DynamicInv)
    BY <2>2 DEF UnreadTyped, StaticFiles, SparseFiles, DynamicInv, FileRanks, Left,
       DynamicTyped, Agreement, SentOnce, QueuedOnce, OrderedOnce, DynamicFiles, Decided, Chosen,
       Led, Waits, Writes, Planned, WritesTo, Carriers, setZeroProcs
  <2> QED
    BY <2>1, <2>2, <2>3 DEF IteratorInv
<1> QED
  BY <1>1, <1>2

\* When all ranks have left the loop, in every mode and for any number of ranks and files, they
\* agree on the coordinator, and FindOffsets, which reads the order of the files backwards,
\* tells of each file exactly the data in it, in its order; no rank's data is missing.
THEOREM HeaderTrueAlways == VisSpec => []HeaderTrue
<1>1. VisInit => IteratorInv
  BY InitInv, InitFixed, InitDynamic DEF VisInit, IteratorInv
<1>2. IteratorInv /\ [VisNext]_<<s_asyncout, vars, async_vars>> => IteratorInv'
  BY IteratorNext, Zenon DEF VisNext, Runs
<1>3. IteratorInv => HeaderTrue
  <2> SUFFICES ASSUME IteratorInv, mode # "read", \A r \in Ranks : Left(r) PROVE HeaderTrue
    BY DEF HeaderTrue
  <2>1. mode \in {"static", "sparse", "dynamic"} /\ Typed /\ OnePlace /\ IInv
    BY DEF IteratorInv, IInv, Typed
  <2> QED
    BY <2>1, StaticHeader, SparseHeader, DynamicHeader DEF IteratorInv
<1>4. VisSpec => []IteratorInv
  BY <1>1, <1>2, PTL DEF VisSpec
<1> QED
  BY <1>3, <1>4, PTL

----------------------------------------------------------------------------
(* BackgroundThread.                                                       *)

Functions == Jobs \cup {Clear, Finalize}

----------------------------------------------------------------------------
(* The inductive invariant.                                                *)

\* Once the object is being destroyed, nobody else is in a call.
NobodyCalls == ~Thread!Alive => \A c \in Clients \ {Owner} : client[c] = "idle"

\* The destructor's job is the last one, and m_finalizing is set by it alone.
FinalizeLast ==
  /\ Thread!Alive => m_job # Finalize /\ Finalize \notin Thread!JobsOf(m_func)
  /\ m_job = Finalize => m_func = <<>>
  /\ m_finalizing => m_job = Finalize
  /\ worker = "exited" => m_finalizing
  /\ \A i \in DOMAIN m_func : m_func[i] = Finalize => i = Len(m_func)

\* In Finish: the Clear job is ahead or it has been run and m_clearing is still set.
ClearComing ==
  \A c \in Clients :
    client[c] \in {"check", "asleep"} =>
      /\ c \in Finishers
      /\ \/ Clear \in Thread!JobsOf(m_func)
         \/ worker = "run" /\ m_job = Clear
         \/ m_clearing

QueueInv == Thread!TypeOK /\ NobodyCalls /\ FinalizeLast /\ Thread!NeverIdle

\* m_clearing is one flag, reset by each Finish that returns.
OneFinisher == \A c, d \in Finishers : c = d

WakeupInv == QueueInv /\ ClearComing /\ Thread!WakeupComing

----------------------------------------------------------------------------
(* The queue of functions.                                                 *)

LEMMA AppendQueue ==
  ASSUME NEW s \in Seq(Functions), NEW x \in Functions
  PROVE  /\ Append(s, x) \in Seq(Functions) /\ Append(s, x) # <<>>
         /\ Thread!JobsOf(Append(s, x)) = Thread!JobsOf(s) \cup {x}
<1>1. /\ Append(s, x) \in Seq(Functions) /\ Len(Append(s, x)) = Len(s) + 1
      /\ \A i \in 1..Len(s) : Append(s, x)[i] = s[i]
      /\ Append(s, x)[Len(s) + 1] = x
  OBVIOUS
<1>2. DOMAIN Append(s, x) = DOMAIN s \cup {Len(s) + 1}
  BY <1>1
<1> QED
  BY <1>1, <1>2 DEF Thread!JobsOf

LEMMA HeadTailQueue ==
  ASSUME NEW s \in Seq(Functions), s # <<>>
  PROVE  /\ Tail(s) \in Seq(Functions) /\ Head(s) \in Functions
         /\ Thread!JobsOf(s) = {Head(s)} \cup Thread!JobsOf(Tail(s))
         /\ Len(Tail(s)) = Len(s) - 1
         /\ \A i \in DOMAIN Tail(s) : Tail(s)[i] = s[i + 1]
<1>1. /\ Tail(s) \in Seq(Functions) /\ Len(Tail(s)) = Len(s) - 1
      /\ \A i \in 1..Len(s)-1 : Tail(s)[i] = s[i + 1]
      /\ Head(s) = s[1] /\ Head(s) \in Functions
  OBVIOUS
<1>2. /\ DOMAIN s = 1..Len(s) /\ DOMAIN Tail(s) = 1..Len(s)-1 /\ Len(s) \in Nat \ {0}
  BY <1>1
<1>3. Thread!JobsOf(s) \subseteq {Head(s)} \cup Thread!JobsOf(Tail(s))
  <2> SUFFICES ASSUME NEW i \in 1..Len(s), i # 1
               PROVE  s[i] \in Thread!JobsOf(Tail(s))
    BY <1>1, <1>2 DEF Thread!JobsOf
  <2>1. i - 1 \in DOMAIN Tail(s) /\ Tail(s)[i - 1] = s[i]
    BY <1>1, <1>2
  <2> QED
    BY <2>1 DEF Thread!JobsOf
<1>4. {Head(s)} \cup Thread!JobsOf(Tail(s)) \subseteq Thread!JobsOf(s)
  BY <1>1, <1>2 DEF Thread!JobsOf
<1> QED
  BY <1>1, <1>2, <1>3, <1>4

LEMMA EmptyQueue == Thread!JobsOf(<<>>) = {}
BY DEF Thread!JobsOf

----------------------------------------------------------------------------
(* The queue invariant.                                                    *)

LEMMA InitQueue ==
  ASSUME Thread!ThreadConstants, Thread!Init
  PROVE  QueueInv
<1>1. Thread!TypeOK
  <2>1. m_func \in Seq(Functions) /\ done \in Seq(Jobs)
    BY DEF Thread!Init
  <2>2. 0 \in 0..MaxFinish
    BY DEF Thread!ThreadConstants
  <2>3. client \in [Clients -> {"idle"}] /\ awaited \in [Clients -> SUBSET Jobs]
    BY DEF Thread!Init
  <2>4. client \in [Clients -> {"idle", "check", "asleep", "join", "destroyed"}]
    BY <2>3
  <2> QED
    BY <2>1, <2>2, <2>3, <2>4 DEF Thread!Init, Thread!TypeOK, Functions
<1>2. Thread!Alive
  BY DEF Thread!Init, Thread!Alive, Thread!ThreadConstants
<1> QED
  BY <1>1, <1>2, EmptyQueue
  DEF Thread!Init, QueueInv, NobodyCalls, FinalizeLast, Thread!NeverIdle, Thread!ThreadConstants

\* A submission while the object is alive, of anything but the destructor's job.
LEMMA SubmitQueue ==
  ASSUME Thread!ThreadConstants, QueueInv, Thread!Alive, NEW x \in Jobs \cup {Clear},
     Thread!Submit(x),
         UNCHANGED <<m_finalizing, m_job>>
  PROVE  /\ m_func' \in Seq(Functions) /\ m_func' # <<>>
         /\ Finalize \notin Thread!JobsOf(m_func')
         /\ m_job # Finalize /\ ~m_finalizing
         /\ \A i \in DOMAIN m_func' : m_func'[i] # Finalize
         /\ worker' \notin {"asleep", "exited"}
         /\ worker' = IF worker = "asleep" THEN "start" ELSE worker
<1>1. x \in Functions /\ x # Finalize
  BY DEF Functions, Thread!ThreadConstants
<1>2. m_func \in Seq(Functions) /\ m_func' = Append(m_func, x)
  BY DEF QueueInv, Thread!TypeOK, Thread!Submit, Functions
<1>3. /\ m_func' \in Seq(Functions) /\ m_func' # <<>>
      /\ Thread!JobsOf(m_func') = Thread!JobsOf(m_func) \cup {x}
  BY <1>1, <1>2, AppendQueue
<1>4. Finalize \notin Thread!JobsOf(m_func')
  BY <1>1, <1>3 DEF QueueInv, FinalizeLast
<1>5. \A i \in DOMAIN m_func' : m_func'[i] # Finalize
  BY <1>4 DEF Thread!JobsOf
<1> QED
  BY <1>3, <1>4, <1>5 DEF QueueInv, FinalizeLast, Thread!Submit

LEMMA QueueKept ==
  ASSUME Thread!ThreadConstants, QueueInv, [Thread!Next]_thread_vars
  PROVE  QueueInv'
<1> USE DEF QueueInv
<1>1. CASE Thread!WaitForJob
  <2>1. Thread!TypeOK'
    BY <1>1 DEF Thread!WaitForJob, Thread!TypeOK
  <2> QED
    BY <1>1, <2>1 DEF Thread!WaitForJob, NobodyCalls, Thread!Alive, FinalizeLast, Thread!NeverIdle
<1>2. CASE Thread!TakeJob
  <2>1. /\ m_func \in Seq(Functions) /\ m_func # <<>>
        /\ m_job' = Head(m_func) /\ m_func' = Tail(m_func)
    BY <1>2 DEF Thread!TakeJob, Thread!TypeOK, Functions
  <2>2. /\ m_func' \in Seq(Functions) /\ m_job' \in Functions
        /\ Thread!JobsOf(m_func) = {m_job'} \cup Thread!JobsOf(m_func')
        /\ Len(m_func') = Len(m_func) - 1
        /\ \A i \in DOMAIN m_func' : m_func'[i] = m_func[i + 1]
    BY <2>1, HeadTailQueue
  <2>3. Thread!TypeOK'
    BY <1>2, <2>2 DEF Thread!TakeJob, Thread!TypeOK, Functions
  <2>4. m_job # Finalize
    BY <2>1 DEF FinalizeLast
  <2>5. DOMAIN m_func = 1..Len(m_func) /\ DOMAIN m_func' = 1..Len(m_func') /\ Len(m_func) \in Nat
    BY <2>1, <2>2
  <2>6. m_job' = Finalize => m_func' = <<>>
    <3> SUFFICES ASSUME m_job' = Finalize PROVE m_func' = <<>>
      OBVIOUS
    <3>1. m_func[1] = Finalize /\ 1 \in DOMAIN m_func
      BY <2>1, <2>5
    <3>2. Len(m_func) = 1
      BY <3>1 DEF FinalizeLast
    <3> QED
      BY <2>2, <3>2
  <2>7. \A i \in DOMAIN m_func' : m_func'[i] = Finalize => i = Len(m_func')
    <3> SUFFICES ASSUME NEW i \in DOMAIN m_func', m_func'[i] = Finalize
                 PROVE  i = Len(m_func')
      OBVIOUS
    <3>1. i + 1 \in DOMAIN m_func /\ m_func[i + 1] = Finalize
      BY <2>2, <2>5
    <3> QED
      BY <2>2, <2>5, <3>1 DEF FinalizeLast
  <2>8. FinalizeLast'
    BY <1>2, <2>2, <2>4, <2>6, <2>7 DEF Thread!TakeJob, FinalizeLast, Thread!Alive
  <2> QED
    BY <1>2, <2>3, <2>8 DEF Thread!TakeJob, NobodyCalls, Thread!Alive, Thread!NeverIdle
<1>3. CASE Thread!RunJob
  <2>1. done' \in Seq(Jobs)
    BY <1>3 DEF Thread!RunJob, Thread!TypeOK, Thread!IsJob
  <2>2. m_finalizing' \in BOOLEAN /\ m_clearing' \in BOOLEAN
    BY <1>3 DEF Thread!RunJob, Thread!TypeOK
  <2>3. m_job = Finalize => client[Owner] \in {"join", "destroyed"}
    BY DEF FinalizeLast, Thread!Alive
  <2>4. Thread!TypeOK'
    BY <1>3, <2>1, <2>2, <2>3 DEF Thread!RunJob, Thread!TypeOK
  <2> QED
    BY <1>3, <2>4 DEF Thread!RunJob, NobodyCalls, Thread!Alive, FinalizeLast, Thread!NeverIdle
<1>4. CASE Thread!TestClearing
  <2>1. Thread!TypeOK'
    BY <1>4 DEF Thread!TestClearing, Thread!BreakOrLoop, Thread!TypeOK
  <2> QED
    BY <1>4, <2>1 DEF Thread!TestClearing, Thread!BreakOrLoop, NobodyCalls, Thread!Alive,
       FinalizeLast, Thread!NeverIdle
<1>5. CASE Thread!NotifyDone
  <2>1. \/ UNCHANGED client
        \/ \E c \in Clients : client[c] = "asleep" /\ client' = [client EXCEPT ![c] = "check"]
    BY <1>5 DEF Thread!NotifyDone
  <2>2. Thread!TypeOK' /\ NobodyCalls' /\ Thread!Alive' = Thread!Alive
    BY <1>5, <2>1 DEF Thread!NotifyDone, Thread!BreakOrLoop, Thread!TypeOK, NobodyCalls,
       Thread!Alive, Thread!ThreadConstants
  <2> QED
    BY <1>5, <2>2 DEF Thread!NotifyDone, Thread!BreakOrLoop, FinalizeLast, Thread!NeverIdle
<1>6. CASE \E c \in Clients : Thread!InCall(c)
  <2> SUFFICES ASSUME NEW c \in Clients, Thread!InCall(c) PROVE QueueInv'
    BY <1>6
  <2>1. CASE Thread!FinishWaits(c)
    <3>1. Thread!TypeOK' /\ NobodyCalls' /\ Thread!Alive' = Thread!Alive
      BY <2>1 DEF Thread!FinishWaits, Thread!TypeOK, NobodyCalls, Thread!Alive,
         Thread!ThreadConstants
    <3> QED
      BY <2>1, <3>1 DEF Thread!FinishWaits, FinalizeLast, Thread!NeverIdle
  <2>2. CASE Thread!FinishReturns(c)
    <3>1. Thread!TypeOK' /\ NobodyCalls' /\ Thread!Alive' = Thread!Alive
      BY <2>2 DEF Thread!FinishReturns, Thread!TypeOK, NobodyCalls, Thread!Alive,
         Thread!ThreadConstants
    <3> QED
      BY <2>2, <3>1 DEF Thread!FinishReturns, FinalizeLast, Thread!NeverIdle
  <2>3. CASE Thread!Join(c)
    <3>1. Thread!TypeOK' /\ NobodyCalls' /\ Thread!Alive' = Thread!Alive
      BY <2>3 DEF Thread!Join, Thread!TypeOK, NobodyCalls, Thread!Alive, Thread!ThreadConstants
    <3> QED
      BY <2>3, <3>1 DEF Thread!Join, FinalizeLast, Thread!NeverIdle
  <2> QED
    BY <2>1, <2>2, <2>3 DEF Thread!InCall
<1>7. CASE \E c \in Clients : Thread!Finish(c)
  <2> SUFFICES ASSUME NEW c \in Clients, Thread!Finish(c) PROVE QueueInv'
    BY <1>7
  <2>1. /\ Thread!Alive /\ client[c] = "idle" /\ Thread!Submit(Clear)
        /\ UNCHANGED <<m_finalizing, m_job>>
    BY DEF Thread!Finish
  <2>2. /\ m_func' \in Seq(Functions) /\ m_func' # <<>>
        /\ Finalize \notin Thread!JobsOf(m_func') /\ m_job # Finalize /\ ~m_finalizing
        /\ \A i \in DOMAIN m_func' : m_func'[i] # Finalize
        /\ worker' \notin {"asleep", "exited"}
        /\ worker' = IF worker = "asleep" THEN "start" ELSE worker
    BY <2>1, SubmitQueue
  <2>3. Thread!PendingJobs \subseteq Jobs
    BY DEF Thread!PendingJobs
  <2>4. Thread!TypeOK'
    BY <2>2, <2>3 DEF Thread!Finish, Thread!TypeOK, Functions, Thread!ThreadConstants
  <2>5. Thread!Alive'
    BY <2>1 DEF Thread!Finish, Thread!TypeOK, Thread!Alive, Thread!ThreadConstants
  <2> QED
    BY <2>1, <2>2, <2>4, <2>5 DEF NobodyCalls, FinalizeLast, Thread!NeverIdle
<1>8. CASE \E c \in Clients : Thread!Destroy(c)
  <2> SUFFICES ASSUME NEW c \in Clients, Thread!Destroy(c) PROVE QueueInv'
    BY <1>8
  <2>1. /\ Thread!Alive /\ \A d \in Clients : client[d] = "idle"
        /\ c = Owner /\ m_func' = Append(m_func, Finalize)
        /\ client' = [client EXCEPT ![c] = "join"]
        /\ worker' = IF worker = "asleep" THEN "start" ELSE worker
        /\ UNCHANGED <<m_clearing, m_finalizing, m_job, finishes, done, awaited>>
    BY DEF Thread!Destroy, Thread!Submit
  <2>2. m_func \in Seq(Functions) /\ Finalize \in Functions
    BY DEF Thread!TypeOK, Functions
  <2>3. m_func' \in Seq(Functions) /\ m_func' # <<>>
    BY <2>1, <2>2, AppendQueue
  <2>4. Thread!TypeOK' /\ NobodyCalls' /\ ~Thread!Alive'
    BY <2>1, <2>3 DEF Thread!TypeOK, Functions, NobodyCalls, Thread!Alive, Thread!ThreadConstants
  <2>5. \A i \in DOMAIN m_func : m_func[i] # Finalize
    BY <2>1 DEF FinalizeLast, Thread!JobsOf
  <2>6. \A i \in DOMAIN m_func' : m_func'[i] = Finalize => i = Len(m_func')
    BY <2>1, <2>2, <2>5
  <2>7. m_job # Finalize /\ ~m_finalizing /\ worker # "exited"
    BY <2>1 DEF FinalizeLast
  <2> QED
    BY <2>1, <2>3, <2>4, <2>6, <2>7 DEF FinalizeLast, Thread!NeverIdle
<1>9. CASE \E c \in Clients, j \in Jobs : Thread!SubmitJob(c, j)
  <2> SUFFICES ASSUME NEW c \in Clients, NEW j \in Jobs, Thread!SubmitJob(c, j) PROVE QueueInv'
    BY <1>9
  <2>1. Thread!Alive /\ Thread!Submit(j) /\ UNCHANGED <<m_finalizing, m_job, client>>
    BY DEF Thread!SubmitJob
  <2>2. /\ m_func' \in Seq(Functions) /\ m_func' # <<>>
        /\ Finalize \notin Thread!JobsOf(m_func') /\ m_job # Finalize /\ ~m_finalizing
        /\ \A i \in DOMAIN m_func' : m_func'[i] # Finalize
        /\ worker' \notin {"asleep", "exited"}
        /\ worker' = IF worker = "asleep" THEN "start" ELSE worker
    BY <2>1, SubmitQueue
  <2>3. Thread!TypeOK'
    BY <2>2 DEF Thread!SubmitJob, Thread!TypeOK, Functions
  <2> QED
    BY <2>1, <2>2, <2>3 DEF Thread!Alive, NobodyCalls, FinalizeLast, Thread!NeverIdle
<1>10. CASE Thread!SpuriousWakeup
  <2>1. \/ worker = "asleep" /\ worker' = "start" /\ UNCHANGED client
        \/ /\ UNCHANGED worker
           /\ \E c \in Clients : client[c] = "asleep" /\ client' = [client EXCEPT ![c] = "check"]
    BY <1>10 DEF Thread!SpuriousWakeup
  <2>2. Thread!TypeOK' /\ NobodyCalls' /\ Thread!Alive' = Thread!Alive
    BY <1>10, <2>1 DEF Thread!SpuriousWakeup, Thread!TypeOK, NobodyCalls, Thread!Alive,
       Thread!ThreadConstants
  <2> QED
    BY <1>10, <2>1, <2>2 DEF Thread!SpuriousWakeup, FinalizeLast, Thread!NeverIdle
<1>11. CASE UNCHANGED thread_vars
  BY <1>11 DEF thread_vars, Thread!TypeOK, NobodyCalls, Thread!Alive, FinalizeLast, Thread!NeverIdle
<1> QED
  BY <1>1, <1>2, <1>3, <1>4, <1>5, <1>6, <1>7, <1>8, <1>9, <1>10, <1>11 DEF Thread!Next,
     Thread!Worker

LEMMA AlwaysQueueInv == ThreadSpec => []QueueInv
<1>1. Thread!Init => QueueInv
  BY ThreadAssumption, InitQueue
<1>2. QueueInv /\ [Thread!Next]_thread_vars => QueueInv'
  BY ThreadAssumption, QueueKept
<1>3. QED
  BY <1>1, <1>2, PTL DEF ThreadSpec

\* Types; m_finalizing is set by the destructor's job only, after the destructor is called.
THEOREM ThreadTypeCorrect == ThreadSpec => []Thread!TypeOK
<1>1. QueueInv => Thread!TypeOK
  BY DEF QueueInv
<1> QED
  BY <1>1, AlwaysQueueInv, PTL

\* do_job never waits for a job while there is one, and leaves none behind when it exits.
THEOREM WorkerNeverIdle == ThreadSpec => []NeverIdle
<1>1. QueueInv => NeverIdle
  BY DEF QueueInv, NeverIdle
<1> QED
  BY <1>1, AlwaysQueueInv, PTL

----------------------------------------------------------------------------
(* The wakeup invariant.                                                   *)

LEMMA InitWakeup == Thread!ThreadConstants /\ Thread!Init => WakeupInv
BY InitQueue DEF Thread!Init, WakeupInv, ClearComing, Thread!WakeupComing

LEMMA NextWakeup ==
  ASSUME Thread!ThreadConstants, OneFinisher
  PROVE  WakeupInv /\ [Thread!Next]_thread_vars => WakeupInv'
<1> SUFFICES ASSUME WakeupInv,
   [Thread!Next]_thread_vars PROVE (ClearComing /\ Thread!WakeupComing)'
  BY QueueKept DEF WakeupInv
<1> DEFINE Ahead == Clear \in Thread!JobsOf(m_func) \/ (worker = "run" /\ m_job = Clear)
           In(c) == client[c] \in {"check", "asleep"}
<1>0. /\ \A c \in Clients : In(c) => c \in Finishers /\ (Ahead \/ m_clearing)
      /\ \A c \in Clients : client[c] = "asleep" =>
           \/ Ahead
           \/ m_clearing /\ (m_func # <<>> \/ worker \in {"run", "ran", "notify"})
      /\ Thread!TypeOK /\ Thread!NeverIdle
  BY DEF WakeupInv, QueueInv, ClearComing, Thread!WakeupComing
<1>1. CASE Thread!WaitForJob
  <2>1. ~Ahead
    BY <1>1, EmptyQueue DEF Thread!WaitForJob
  <2> QED
    BY <1>0, <1>1, <2>1 DEF Thread!WaitForJob, ClearComing, Thread!WakeupComing
<1>2. CASE Thread!TakeJob
  <2>1. /\ m_func \in Seq(Functions) /\ m_func # <<>>
        /\ m_job' = Head(m_func) /\ m_func' = Tail(m_func)
    BY <1>0, <1>2 DEF Thread!TakeJob, Thread!TypeOK, Functions
  <2>2. Thread!JobsOf(m_func) = {m_job'} \cup Thread!JobsOf(m_func')
    BY <2>1, HeadTailQueue
  <2>3. worker = "start" /\ worker' = "run" /\ UNCHANGED <<client, m_clearing>>
    BY <1>2 DEF Thread!TakeJob
  <2> QED
    BY <1>0, <2>2, <2>3 DEF ClearComing, Thread!WakeupComing
<1>3. CASE Thread!RunJob
  BY <1>0, <1>3 DEF Thread!RunJob, Thread!TypeOK, ClearComing, Thread!WakeupComing
<1>4. CASE Thread!TestClearing
  BY <1>0, <1>4 DEF Thread!TestClearing, Thread!BreakOrLoop, ClearComing, Thread!WakeupComing
<1>5. CASE Thread!NotifyDone
  \* The one client that may be asleep is woken.
  <2>1. /\ worker = "notify" /\ worker' \in {"start", "exited"}
        /\ UNCHANGED <<m_func, m_clearing, m_job>>
    BY <1>5 DEF Thread!NotifyDone, Thread!BreakOrLoop
  <2>2. \A c \in Clients : client'[c] # "asleep"
    <3>1. CASE \E c \in Clients : client[c] = "asleep"
      <4> PICK c \in Clients : client[c] = "asleep" /\ client' = [client EXCEPT ![c] = "check"]
        BY <1>5, <3>1 DEF Thread!NotifyDone
      <4>1. \A d \in Clients : client[d] = "asleep" => d = c
        BY <1>0, OneFinisher DEF OneFinisher
      <4> QED
        BY <1>0, <4>1 DEF Thread!TypeOK
    <3>2. CASE ~\E c \in Clients : client[c] = "asleep"
      BY <1>5, <3>2 DEF Thread!NotifyDone
    <3> QED
      BY <3>1, <3>2
  <2>3. \A c \in Clients : client'[c] \in {"check", "asleep"} => In(c)
    BY <1>0, <1>5 DEF Thread!NotifyDone, Thread!TypeOK
  <2> QED
    BY <1>0, <2>1, <2>2, <2>3 DEF ClearComing, Thread!WakeupComing
<1>6. CASE \E c \in Clients : Thread!InCall(c)
  <2> SUFFICES ASSUME NEW c \in Clients,
     Thread!InCall(c) PROVE (ClearComing /\ Thread!WakeupComing)'
    BY <1>6
  <2>1. CASE Thread!FinishWaits(c)
    BY <1>0, <2>1 DEF Thread!FinishWaits, Thread!MayReturn, Thread!TypeOK, ClearComing,
       Thread!WakeupComing
  <2>2. CASE Thread!FinishReturns(c)
    <3>1. \A d \in Clients : In(d) => d = c
      BY <1>0, <2>2, OneFinisher DEF Thread!FinishReturns, OneFinisher
    <3>2. \A d \in Clients : client'[d] \notin {"check", "asleep"}
      BY <1>0, <2>2, <3>1 DEF Thread!FinishReturns, Thread!TypeOK
    <3> QED
      BY <3>2 DEF ClearComing, Thread!WakeupComing
  <2>3. CASE Thread!Join(c)
    BY <1>0, <2>3 DEF Thread!Join, Thread!TypeOK, ClearComing, Thread!WakeupComing
  <2> QED
    BY <2>1, <2>2, <2>3 DEF Thread!InCall
<1>7. ASSUME NEW x \in Functions, Thread!Submit(x), UNCHANGED <<m_clearing, m_job>>,
             \A c \in Clients : client'[c] \in {"check", "asleep"} =>
               client'[c] = client[c] \/ (x = Clear /\ c \in Finishers)
      PROVE  (ClearComing /\ Thread!WakeupComing)'
  <2>1. m_func \in Seq(Functions) /\ m_func' = Append(m_func, x)
    BY <1>0, <1>7 DEF Thread!Submit, Thread!TypeOK, Functions
  <2>2. Thread!JobsOf(m_func') = Thread!JobsOf(m_func) \cup {x} /\ m_func' # <<>>
    BY <1>7, <2>1, AppendQueue
  <2>3. worker' = worker \/ (worker = "asleep" /\ worker' = "start")
    BY <1>7 DEF Thread!Submit
  <2> QED
    BY <1>0, <1>7, <2>2, <2>3 DEF ClearComing, Thread!WakeupComing
<1>8. CASE \E c \in Clients : Thread!Finish(c)
  <2> PICK c \in Clients : Thread!Finish(c)
    BY <1>8
  <2>1. /\ Clear \in Functions /\ Thread!Submit(Clear) /\ c \in Finishers
        /\ client' = [client EXCEPT ![c] = "check"] /\ UNCHANGED <<m_clearing, m_job>>
    BY DEF Thread!Finish, Functions
  <2> QED
    BY <1>0, <1>7, <2>1 DEF Thread!TypeOK
<1>9. CASE \E c \in Clients : Thread!Destroy(c)
  <2> PICK c \in Clients : Thread!Destroy(c)
    BY <1>9
  <2>1. /\ Finalize \in Functions /\ Thread!Submit(Finalize)
        /\ client' = [client EXCEPT ![c] = "join"] /\ UNCHANGED <<m_clearing, m_job>>
    BY DEF Thread!Destroy, Functions
  <2> QED
    BY <1>0, <1>7, <2>1 DEF Thread!TypeOK
<1>10. CASE \E c \in Clients, j \in Jobs : Thread!SubmitJob(c, j)
  <2> PICK c \in Clients, j \in Jobs : Thread!SubmitJob(c, j)
    BY <1>10
  <2>1. j \in Functions /\ Thread!Submit(j) /\ UNCHANGED <<m_clearing, m_job, client>>
    BY DEF Thread!SubmitJob, Functions
  <2> QED
    BY <1>7, <2>1
<1>11. CASE Thread!SpuriousWakeup
  <2>1. /\ UNCHANGED <<m_func, m_clearing, m_job>>
        /\ worker' = worker \/ (worker = "asleep" /\ worker' = "start")
        /\ \A c \in Clients : client'[c] = client[c] \/ (In(c) /\ client'[c] = "check")
    BY <1>0, <1>11 DEF Thread!SpuriousWakeup, Thread!TypeOK
  <2> QED
    BY <1>0, <2>1 DEF ClearComing, Thread!WakeupComing
<1>12. CASE UNCHANGED thread_vars
  BY <1>0, <1>12 DEF thread_vars, ClearComing, Thread!WakeupComing
<1> QED
  BY <1>1, <1>2, <1>3, <1>4, <1>5, <1>6, <1>8, <1>9, <1>10, <1>11, <1>12 DEF Thread!Next,
     Thread!Worker

\* With one client that calls Finish, its wakeup is never lost: m_clearing stays set until a
\* notification reaches it, although do_job reads the flag without m_mutx.
THEOREM NoWakeupLost ==
  ASSUME OneFinisher
  PROVE  ThreadSpec => []WakeupComing
<1>1. Thread!Init => WakeupInv
  BY ThreadAssumption, InitWakeup
<1>2. WakeupInv /\ [Thread!Next]_thread_vars => WakeupInv'
  BY ThreadAssumption, NextWakeup
<1>3. ThreadSpec => []WakeupInv
  BY <1>1, <1>2, PTL DEF ThreadSpec
<1>4. WakeupInv => WakeupComing
  BY DEF WakeupInv, WakeupComing
<1> QED
  BY <1>3, <1>4, PTL

----------------------------------------------------------------------------
(* BackgroundThread implements JobQueue.                                   *)

\* Only the owner destroys.
OnlyOwnerDestroys == \A c \in Clients \ {Owner} : client[c] \notin {"join", "destroyed"}

\* What a Finish waits for is done, or its Clear job comes after it.
Behind(j) ==
  \/ worker = "run" /\ m_job = j /\ Clear \in Thread!JobsOf(m_func)
  \/ \E i, k \in DOMAIN m_func : i < k /\ m_func[i] = j /\ m_func[k] = Clear

AwaitedAhead ==
  \A c \in Clients :
    client[c] \in {"check", "asleep"} =>
      \A j \in awaited[c] : j \in Thread!JobsOf(done) \/ Behind(j)

PromiseInv == QueueInv /\ OnlyOwnerDestroys /\ AwaitedAhead

Calls == [c \in Clients |-> Thread!Call(c)]

LEMMA SelectedJobs == \A s, T : Thread!Selected(s, T) = Selected(s, T)
BY DEF Thread!Selected, Selected

LEMMA QueueJobs == \A s : Thread!Queue!JobsOf(s) = Thread!JobsOf(s)
BY DEF Thread!Queue!JobsOf, Thread!JobsOf

\* The jobs that run or wait, one running job before the queue.
LEMMA PendingIs ==
  ASSUME Thread!TypeOK
  PROVE  /\ Selected(m_func, Jobs) \in Seq(Jobs)
         /\ Thread!Pending \in Seq(Jobs)
         /\ ~(worker = "run" /\ m_job \in Jobs) => Thread!Pending = Selected(m_func, Jobs)
         /\ worker = "run" /\ m_job \in Jobs => /\ Thread!Pending # <<>>
                                                /\ Head(Thread!Pending) = m_job
                                                /\ Tail(Thread!Pending) = Selected(m_func, Jobs)
         /\ Thread!JobsOf(Thread!Pending) = Thread!PendingJobs
<1> DEFINE q == Selected(m_func, Jobs)
<1>1. m_func \in Seq(Functions)
  BY DEF Thread!TypeOK, Functions
<1>2. q \in Seq(Functions) /\ Thread!JobsOf(q) = Thread!JobsOf(m_func) \cap Jobs
  <2>1. q \in Seq(Functions)
    BY <1>1, SelectedSeq
  <2>2. {q[i] : i \in DOMAIN q} = {m_func[i] : i \in DOMAIN m_func} \cap Jobs
    BY <1>1, SelectedElements
  <2> HIDE DEF q
  <2> QED
    BY <2>1, <2>2 DEF Thread!JobsOf
<1>3. q \in Seq(Jobs)
  <2> HIDE DEF q
  <2>1. \A i \in DOMAIN q : q[i] \in Jobs
    BY <1>2 DEF Thread!JobsOf
  <2> QED
    BY <1>2, <2>1
<1>4. Thread!Pending = (IF worker = "run" /\ m_job \in Jobs THEN <<m_job>> ELSE <<>>) \o q
  BY SelectedJobs DEF Thread!Pending, Thread!IsJob
<1> HIDE DEF q
<1>5. CASE worker = "run" /\ m_job \in Jobs
  <2>1. Thread!Pending = <<m_job>> \o q
    BY <1>4, <1>5
  <2>2. /\ Thread!Pending \in Seq(Jobs) /\ Thread!Pending # <<>>
        /\ Head(Thread!Pending) = m_job /\ Tail(Thread!Pending) = q
    <3> DEFINE p == <<m_job>> \o q
    <3>1. p \in Seq(Jobs) /\ p # <<>> /\ Head(p) = m_job /\ Tail(p) = q
      BY <1>3, <1>5
    <3> QED
      BY <2>1, <3>1
  <2>3. Thread!JobsOf(Thread!Pending) = {m_job} \cup Thread!JobsOf(q)
    <3>1. Thread!Pending \in Seq(Functions)
      BY <2>2 DEF Functions
    <3> QED
      BY <2>2, <3>1, HeadTailQueue
  <2>4. Thread!PendingJobs = {m_job} \cup (Thread!JobsOf(m_func) \cap Jobs)
    BY <1>5 DEF Thread!PendingJobs
  <2> QED
    BY <1>2, <1>3, <1>5, <2>2, <2>3, <2>4 DEF q
<1>6. CASE ~(worker = "run" /\ m_job \in Jobs)
  <2>1. Thread!Pending = <<>> \o q
    BY <1>4, <1>6
  <2>2. <<>> \o q = q
    BY <1>3
  <2>3. Thread!PendingJobs = Thread!JobsOf(m_func) \cap Jobs
    BY <1>6 DEF Thread!PendingJobs
  <2> QED
    BY <1>2, <1>3, <1>6, <2>1, <2>2, <2>3 DEF q
<1> QED
  BY <1>5, <1>6

\* A submission reaches the abstract queue if it is a job.
LEMMA PendingSubmitted ==
  ASSUME Thread!TypeOK, Thread!TypeOK', NEW x \in Functions, Thread!Submit(x), UNCHANGED m_job
  PROVE  Thread!Pending' = IF x \in Jobs THEN Append(Thread!Pending, x) ELSE Thread!Pending
<1> DEFINE q == Selected(m_func, Jobs)
           q2 == Selected(m_func', Jobs)
           a == worker = "run" /\ m_job \in Jobs
<1>1. m_func \in Seq(Functions) /\ m_func' = Append(m_func, x)
  BY DEF Thread!TypeOK, Functions, Thread!Submit
<1>2. q2 = IF x \in Jobs THEN Append(q, x) ELSE q
  BY <1>1, SelectedAppend
<1>3. (worker' = "run" /\ m_job' \in Jobs) <=> a
  BY DEF Thread!Submit
<1>4. /\ Thread!Pending = (IF a THEN <<m_job>> ELSE <<>>) \o q
      /\ Thread!Pending' = (IF a THEN <<m_job>> ELSE <<>>) \o q2
  BY <1>3, SelectedJobs DEF Thread!Pending, Thread!IsJob
<1>5. q \in Seq(Jobs)
  BY PendingIs
<1> HIDE DEF q, q2
<1>6. CASE x \notin Jobs
  BY <1>2, <1>4, <1>6
<1>7. CASE x \in Jobs
  <2>1. ASSUME NEW p \in Seq(Jobs) PROVE p \o Append(q, x) = Append(p \o q, x)
    BY <1>5, <1>7, <2>1
  <2>2. a => <<m_job>> \in Seq(Jobs)
    OBVIOUS
  <2>3. <<>> \in Seq(Jobs)
    OBVIOUS
  <2>4. (IF a THEN <<m_job>> ELSE <<>>) \in Seq(Jobs)
    BY <2>2, <2>3
  <2> QED
    BY <1>2, <1>4, <1>7, <2>1, <2>4
<1> QED
  BY <1>6, <1>7

LEMMA PendingKept ==
  ASSUME Thread!TypeOK, UNCHANGED m_func,
         (worker' = "run" /\ m_job' \in Jobs) <=> (worker = "run" /\ m_job \in Jobs),
         worker = "run" => UNCHANGED m_job
  PROVE  UNCHANGED Thread!Pending
BY SelectedJobs DEF Thread!Pending, Thread!IsJob

\* Clear jobs keep their places behind the jobs that wait.
LEMMA BehindSubmitted ==
  ASSUME Thread!TypeOK, NEW x \in Functions, Thread!Submit(x), UNCHANGED m_job
  PROVE  \A j : Behind(j) => Behind(j)'
<1>1. m_func \in Seq(Functions) /\ m_func' = Append(m_func, x)
  BY DEF Thread!TypeOK, Functions, Thread!Submit
<1>2. Thread!JobsOf(m_func') = Thread!JobsOf(m_func) \cup {x}
  BY <1>1, AppendQueue
<1>3. \A i \in DOMAIN m_func : i \in DOMAIN m_func' /\ m_func'[i] = m_func[i]
  BY <1>1
<1>4. worker = "run" => worker' = "run"
  BY DEF Thread!Submit
<1> QED
  BY <1>2, <1>3, <1>4 DEF Behind

LEMMA InitPromise ==
  ASSUME Thread!ThreadConstants, Thread!Init
  PROVE  PromiseInv
<1>1. QueueInv
  BY InitQueue
<1>2. \A c \in Clients : client[c] = "idle"
  BY DEF Thread!Init
<1> QED
  BY <1>1, <1>2 DEF PromiseInv, OnlyOwnerDestroys, AwaitedAhead

\* Taking a job off the queue.
LEMMA BehindTaken ==
  ASSUME Thread!ThreadConstants, Thread!TypeOK, Thread!TakeJob, NEW j \in Jobs, Behind(j)
  PROVE  Behind(j)'
<1>1. /\ m_func \in Seq(Functions) /\ m_func # <<>> /\ worker = "start" /\ worker' = "run"
      /\ m_job' = Head(m_func) /\ m_func' = Tail(m_func)
  BY DEF Thread!TakeJob, Thread!TypeOK, Functions
<1>2. /\ m_func' \in Seq(Functions) /\ Len(m_func') = Len(m_func) - 1
      /\ \A i \in DOMAIN m_func' : m_func'[i] = m_func[i + 1]
  BY <1>1, HeadTailQueue
<1>3. /\ DOMAIN m_func = 1..Len(m_func) /\ DOMAIN m_func' = 1..Len(m_func') /\ Len(m_func) \in Nat
      /\ m_job' = m_func[1]
  BY <1>1, <1>2
<1>4. PICK i \in DOMAIN m_func, k \in DOMAIN m_func : i < k /\ m_func[i] = j /\ m_func[k] = Clear
  BY <1>1 DEF Behind
<1>5. k - 1 \in DOMAIN m_func' /\ m_func'[k - 1] = Clear
  <2>1. k - 1 \in DOMAIN m_func' /\ (k - 1) + 1 = k
    BY <1>2, <1>3, <1>4
  <2> QED
    BY <1>2, <1>4, <2>1
<1>6. CASE i = 1
  BY <1>1, <1>3, <1>4, <1>5, <1>6 DEF Behind, Thread!JobsOf
<1>7. CASE i # 1
  <2>1. i - 1 \in DOMAIN m_func' /\ (i - 1) + 1 = i /\ i - 1 < k - 1
    BY <1>2, <1>3, <1>4, <1>7
  <2>2. m_func'[i - 1] = j
    BY <1>2, <1>4, <2>1
  <2> QED
    BY <1>5, <2>1, <2>2 DEF Behind
<1> QED
  BY <1>6, <1>7

\* A Finish in its wait stays, or begins with its Clear job behind all that is pending.
LEMMA BehindClear ==
  ASSUME Thread!ThreadConstants, Thread!TypeOK, Thread!Submit(Clear), UNCHANGED m_job,
         NEW j \in Thread!PendingJobs
  PROVE  Behind(j)'
<1>1. m_func \in Seq(Functions) /\ m_func' = Append(m_func, Clear) /\ Clear \in Functions
  BY DEF Thread!TypeOK, Functions, Thread!Submit
<1> DEFINE n == Len(m_func) + 1
<1>2. /\ n \in DOMAIN m_func' /\ m_func'[n] = Clear
      /\ \A i \in DOMAIN m_func : i < n /\ i \in DOMAIN m_func' /\ m_func'[i] = m_func[i]
  BY <1>1
<1> HIDE DEF n
<1>3. CASE j \in Thread!JobsOf(m_func)
  <2> PICK i \in DOMAIN m_func : m_func[i] = j
    BY <1>3 DEF Thread!JobsOf
  <2> QED
    BY <1>2 DEF Behind
<1>4. CASE worker = "run" /\ m_job = j
  <2>1. worker' = "run" /\ m_job' = j
    BY <1>4 DEF Thread!Submit
  <2> QED
    BY <1>2, <2>1 DEF Behind, Thread!JobsOf
<1> QED
  BY <1>3, <1>4 DEF Thread!PendingJobs

LEMMA AwaitedKept ==
  ASSUME Thread!ThreadConstants, QueueInv, AwaitedAhead, [Thread!Next]_thread_vars
  PROVE  AwaitedAhead'
<1> DEFINE In(c) == client[c] \in {"check", "asleep"}
           Safe(j) == j \in Thread!JobsOf(done) \/ Behind(j)
<1>0. Thread!TypeOK /\ \A c \in Clients : In(c) => \A j \in awaited[c] : Safe(j)
  BY DEF QueueInv, AwaitedAhead
<1>a. \A c \in Clients : \A j \in awaited[c] : j \in Jobs
  BY <1>0 DEF Thread!TypeOK
\* What is safe stays so; who is in Finish was there before, waiting for the same jobs.
<1>1. ASSUME \A j \in Jobs : Safe(j) => Safe(j)',
             \A c \in Clients : In(c)' => In(c) /\ awaited'[c] = awaited[c]
      PROVE  AwaitedAhead'
  BY <1>0, <1>1, <1>a DEF AwaitedAhead
<1> HIDE DEF Safe, In
<1>2. CASE Thread!WaitForJob
  BY <1>1, <1>2 DEF Thread!WaitForJob, Safe, In, Behind
<1>3. CASE Thread!TakeJob
  <2>1. \A j \in Jobs : Safe(j) => Safe(j)'
    BY <1>0, <1>3, BehindTaken DEF Safe, Thread!TakeJob
  <2> QED
    BY <1>1, <1>3, <2>1 DEF Thread!TakeJob, In
<1>4. CASE Thread!RunJob
  <2>1. ASSUME NEW j \in Jobs, Safe(j) PROVE Safe(j)'
    <3>1. done \in Seq(Jobs) /\ done' = IF m_job \in Jobs THEN Append(done, m_job) ELSE done
      BY <1>0, <1>4 DEF Thread!RunJob, Thread!IsJob, Thread!TypeOK
    <3>2. Thread!JobsOf(done') = Thread!JobsOf(done) \cup ({m_job} \cap Jobs)
      <4>1. done \in Seq(Functions) /\ m_job \in Functions
        BY <1>0, <3>1 DEF Functions, Thread!TypeOK
      <4>2. Thread!JobsOf(Append(done, m_job)) = Thread!JobsOf(done) \cup {m_job}
        BY <4>1, AppendQueue
      <4> QED
        BY <3>1, <4>2
    <3>3. CASE j \in Thread!JobsOf(done)
      BY <3>2, <3>3 DEF Safe
    <3>4. CASE worker = "run" /\ m_job = j
      BY <3>2, <3>4 DEF Safe
    <3>5. CASE \E i, k \in DOMAIN m_func : i < k /\ m_func[i] = j /\ m_func[k] = Clear
      <4>1. UNCHANGED m_func
        BY <1>4 DEF Thread!RunJob
      <4> QED
        BY <3>5, <4>1 DEF Safe, Behind
    <3> QED
      BY <2>1, <3>3, <3>4, <3>5 DEF Safe, Behind
  <2> QED
    BY <1>1, <1>4, <2>1 DEF Thread!RunJob, In
<1>5. CASE Thread!TestClearing
  BY <1>1, <1>5 DEF Thread!TestClearing, Safe, In, Behind
<1>6. CASE Thread!NotifyDone
  <2>1. \A c \in Clients : In(c)' => In(c)
    BY <1>0, <1>6 DEF Thread!NotifyDone, Thread!TypeOK, In
  <2> QED
    BY <1>1, <1>6, <2>1 DEF Thread!NotifyDone, Safe, Behind
<1>7. CASE \E c \in Clients : Thread!InCall(c)
  <2> SUFFICES ASSUME NEW c \in Clients, Thread!InCall(c) PROVE AwaitedAhead'
    BY <1>7
  <2>1. UNCHANGED <<m_func, worker, m_job, done>>
    BY DEF Thread!InCall, Thread!FinishWaits, Thread!FinishReturns, Thread!Join
  <2>2. \A d \in Clients : In(d)' => In(d) /\ awaited'[d] = awaited[d]
    BY <1>0 DEF Thread!InCall, Thread!FinishWaits, Thread!FinishReturns, Thread!Join, In,
       Thread!TypeOK
  <2> QED
    BY <1>1, <2>1, <2>2 DEF Safe, Behind
<1>8. ASSUME NEW x \in Functions, Thread!Submit(x), UNCHANGED <<m_job, done>>
      PROVE  \A j \in Jobs : Safe(j) => Safe(j)'
  BY <1>0, <1>8, BehindSubmitted DEF Safe
<1>9. CASE \E c \in Clients : Thread!Finish(c)
  <2> PICK c \in Clients : Thread!Finish(c)
    BY <1>9
  <2>1. /\ Clear \in Functions /\ Thread!Submit(Clear) /\ UNCHANGED <<m_job, done>>
        /\ client' = [client EXCEPT ![c] = "check"]
        /\ awaited' = [awaited EXCEPT ![c] = Thread!PendingJobs]
    BY DEF Thread!Finish, Functions
  <2>2. \A j \in Jobs : Safe(j) => Safe(j)'
    BY <1>8, <2>1
  <2>3. ASSUME NEW d \in Clients, client'[d] \in {"check", "asleep"}, NEW j \in awaited'[d]
        PROVE  Safe(j)'
    <3>1. CASE d = c
      <4>1. j \in Thread!PendingJobs
        BY <1>0, <2>1, <2>3, <3>1 DEF Thread!TypeOK
      <4> QED
        BY <1>0, <2>1, <4>1, BehindClear DEF Safe
    <3>2. CASE d # c
      <4>1. client'[d] = client[d] /\ awaited'[d] = awaited[d]
        BY <1>0, <2>1, <3>2 DEF Thread!TypeOK
      <4> QED
        BY <1>0, <1>a, <2>2, <2>3, <4>1 DEF In
    <3> QED
      BY <3>1, <3>2
  <2> QED
    BY <2>3 DEF AwaitedAhead, Safe
<1>10. CASE \E c \in Clients : Thread!Destroy(c)
  <2> PICK c \in Clients : Thread!Destroy(c)
    BY <1>10
  <2>1. /\ Finalize \in Functions /\ Thread!Submit(Finalize) /\ UNCHANGED <<m_job, done, awaited>>
        /\ client' = [client EXCEPT ![c] = "join"]
    BY DEF Thread!Destroy, Functions
  <2>2. \A d \in Clients : In(d)' => In(d)
    BY <1>0, <2>1 DEF In, Thread!TypeOK
  <2> QED
    BY <1>1, <1>8, <2>1, <2>2
<1>11. CASE \E c \in Clients, j \in Jobs : Thread!SubmitJob(c, j)
  <2> PICK c \in Clients, j \in Jobs : Thread!SubmitJob(c, j)
    BY <1>11
  <2>1. j \in Functions /\ Thread!Submit(j) /\ UNCHANGED <<m_job, done, awaited, client>>
    BY DEF Thread!SubmitJob, Functions
  <2>2. \A d \in Clients : In(d)' => In(d)
    BY <2>1 DEF In
  <2> QED
    BY <1>1, <1>8, <2>1, <2>2
<1>12. CASE Thread!SpuriousWakeup
  <2>1. \A c \in Clients : In(c)' => In(c)
    BY <1>0, <1>12 DEF Thread!SpuriousWakeup, Thread!TypeOK, In
  <2>2. \A j \in Jobs : Safe(j) => Safe(j)'
    BY <1>12 DEF Thread!SpuriousWakeup, Safe, Behind
  <2> QED
    BY <1>1, <1>12, <2>1, <2>2 DEF Thread!SpuriousWakeup
<1>13. CASE UNCHANGED thread_vars
  BY <1>1, <1>13 DEF thread_vars, Safe, In, Behind
<1> QED
  BY <1>2, <1>3, <1>4, <1>5, <1>6, <1>7, <1>9, <1>10, <1>11, <1>12, <1>13 DEF Thread!Next,
     Thread!Worker

LEMMA OwnerKept ==
  ASSUME Thread!ThreadConstants, QueueInv, OnlyOwnerDestroys, [Thread!Next]_thread_vars
  PROVE  OnlyOwnerDestroys'
<1>1. Thread!TypeOK
  BY DEF QueueInv
<1>2. CASE Thread!Worker
  BY <1>1, <1>2 DEF Thread!Worker, Thread!WaitForJob, Thread!TakeJob, Thread!RunJob,
     Thread!TestClearing, Thread!NotifyDone, Thread!TypeOK, OnlyOwnerDestroys
<1>3. ASSUME NEW c \in Clients, Thread!InCall(c) \/ Thread!Finish(c) \/ Thread!Destroy(c)
      PROVE  OnlyOwnerDestroys'
  BY <1>1, <1>3 DEF Thread!InCall, Thread!FinishWaits, Thread!FinishReturns, Thread!Join,
     Thread!Finish, Thread!Destroy, Thread!TypeOK, OnlyOwnerDestroys
<1>4. CASE \E c \in Clients, j \in Jobs : Thread!SubmitJob(c, j)
  BY <1>4 DEF Thread!SubmitJob, OnlyOwnerDestroys
<1>5. CASE Thread!SpuriousWakeup
  BY <1>1, <1>5 DEF Thread!SpuriousWakeup, Thread!TypeOK, OnlyOwnerDestroys
<1>6. CASE UNCHANGED thread_vars
  BY <1>6 DEF thread_vars, OnlyOwnerDestroys
<1> QED
  BY <1>2, <1>3, <1>4, <1>5, <1>6 DEF Thread!Next

LEMMA NextPromise ==
  Thread!ThreadConstants /\ PromiseInv /\ [Thread!Next]_thread_vars => PromiseInv'
BY QueueKept, OwnerKept, AwaitedKept DEF PromiseInv

\* The clients' view of a step of the thread, or of a wakeup: nothing.
LEMMA CallsAlike ==
  ASSUME \A c \in Clients : \/ client'[c] = client[c]
                            \/ {client[c], client'[c]} \subseteq {"check", "asleep"}
  PROVE  UNCHANGED Calls
<1>1. \A c \in Clients : Thread!Call(c)' = Thread!Call(c)
  BY DEF Thread!Call
<1> QED
  BY <1>1 DEF Calls

\* Nobody is in the destructor, or all but the owner are idle.
LEMMA AliveOpen ==
  ASSUME PromiseInv, Thread!Alive
  PROVE  \A c \in Clients : Thread!Call(c) \in {"idle", "finish"}
<1>1. \A c \in Clients : client[c] \in {"idle", "check", "asleep"}
  BY DEF PromiseInv, QueueInv, Thread!TypeOK, OnlyOwnerDestroys, Thread!Alive
<1> QED
  BY <1>1 DEF Thread!Call

\* A call of client c begins or ends.
LEMMA CallsExcept ==
  ASSUME Thread!TypeOK, NEW c \in Clients, NEW v, client' = [client EXCEPT ![c] = v]
  PROVE  Calls' = [Calls EXCEPT ![c] = Thread!Call(c)']
<1>1. \A d \in Clients \ {c} : client'[d] = client[d]
  BY DEF Thread!TypeOK
<1>2. \A d \in Clients \ {c} : Thread!Call(d)' = Thread!Call(d)
  BY <1>1 DEF Thread!Call
<1> QED
  BY <1>2 DEF Calls

LEMMA ImplementsStep ==
  ASSUME Thread!ThreadConstants, PromiseInv, PromiseInv', [Thread!Next]_thread_vars
  PROVE  [Thread!Queue!Next]_(Thread!Queue!vars)
<1>0. Thread!TypeOK /\ Thread!TypeOK' /\ Thread!NeverIdle
  BY DEF PromiseInv, QueueInv
<1>a. /\ Thread!JobsOf(Thread!Pending) = Thread!PendingJobs
      /\ \A s : Thread!Queue!JobsOf(s) = Thread!JobsOf(s)
  BY <1>0, PendingIs, QueueJobs
<1>b. ASSUME UNCHANGED <<Thread!Pending, done, awaited, Calls>>
      PROVE  UNCHANGED Thread!Queue!vars
  BY <1>b DEF Thread!Queue!vars, Calls
<1>1. CASE Thread!WaitForJob
  <2>1. UNCHANGED Thread!Pending
    BY <1>0, <1>1, PendingKept DEF Thread!WaitForJob
  <2>2. UNCHANGED Calls
    BY <1>1, CallsAlike DEF Thread!WaitForJob
  <2> QED
    BY <1>1, <1>b, <2>1, <2>2 DEF Thread!WaitForJob
<1>2. CASE Thread!TakeJob
  <2>1. /\ m_func \in Seq(Functions) /\ m_func # <<>> /\ worker = "start" /\ worker' = "run"
        /\ m_job' = Head(m_func) /\ m_func' = Tail(m_func)
    BY <1>0, <1>2 DEF Thread!TakeJob, Thread!TypeOK, Functions
  <2>2. Selected(m_func, Jobs) =
          (IF m_job' \in Jobs THEN <<m_job'>> ELSE <<>>) \o Selected(m_func', Jobs)
    BY <2>1, SelectedHead
  <2>3. Thread!Pending' = (IF m_job' \in Jobs THEN <<m_job'>> ELSE <<>>) \o Selected(m_func', Jobs)
    BY <2>1, SelectedJobs DEF Thread!Pending, Thread!IsJob
  <2>4. Thread!Pending = Selected(m_func, Jobs)
    BY <1>0, <2>1, PendingIs
  <2>5. UNCHANGED Thread!Pending
    BY <2>2, <2>3, <2>4
  <2>6. UNCHANGED Calls
    BY <1>2, CallsAlike DEF Thread!TakeJob
  <2> QED
    BY <1>2, <1>b, <2>5, <2>6 DEF Thread!TakeJob
<1>3. CASE Thread!RunJob
  <2>1. /\ worker = "run" /\ worker' = "ran" /\ UNCHANGED <<m_func, client, awaited>>
        /\ done' = IF m_job \in Jobs THEN Append(done, m_job) ELSE done
    BY <1>3 DEF Thread!RunJob, Thread!IsJob
  <2>2. UNCHANGED Calls
    BY <2>1, CallsAlike
  <2>3. Thread!Pending' = Selected(m_func, Jobs)
    <3>1. ~(worker' = "run" /\ m_job' \in Jobs) /\ m_func' = m_func
      BY <2>1
    <3>2. Thread!Pending' = <<>> \o Selected(m_func, Jobs)
      BY <3>1, SelectedJobs DEF Thread!Pending, Thread!IsJob
    <3>3. Selected(m_func, Jobs) \in Seq(Jobs)
      BY <1>0, PendingIs
    <3>4. <<>> \o Selected(m_func, Jobs) = Selected(m_func, Jobs)
      BY <3>3
    <3> QED
      BY <3>2, <3>4
  <2>4. CASE m_job \in Jobs
    <3>1. /\ Thread!Pending # <<>> /\ Head(Thread!Pending) = m_job
          /\ Tail(Thread!Pending) = Selected(m_func, Jobs)
      BY <1>0, <2>1, <2>4, PendingIs
    <3>2. Thread!Queue!Run
      BY <2>1, <2>2, <2>3, <2>4, <3>1 DEF Thread!Queue!Run, Calls
    <3> QED
      BY <3>2 DEF Thread!Queue!Next
  <2>5. CASE m_job \notin Jobs
    <3>1. Thread!Pending = Selected(m_func, Jobs)
      BY <1>0, <2>5, PendingIs
    <3> QED
      BY <1>b, <2>1, <2>2, <2>3, <2>5, <3>1
  <2> QED
    BY <2>4, <2>5
<1>4. CASE Thread!TestClearing \/ Thread!NotifyDone
  <2>1. UNCHANGED <<m_func, m_job, done, awaited>> /\ worker # "run" /\ worker' # "run"
    BY <1>4 DEF Thread!TestClearing, Thread!NotifyDone, Thread!BreakOrLoop
  <2>2. UNCHANGED Thread!Pending
    BY <1>0, <2>1, PendingKept
  <2>3. UNCHANGED Calls
    <3>1. \A c \in Clients : \/ client'[c] = client[c]
                             \/ client[c] = "asleep" /\ client'[c] = "check"
      BY <1>0, <1>4 DEF Thread!TestClearing, Thread!NotifyDone, Thread!TypeOK
    <3> QED
      BY <3>1, CallsAlike
  <2> QED
    BY <1>b, <2>1, <2>2, <2>3
<1>5. CASE \E c \in Clients : Thread!InCall(c)
  <2> PICK c \in Clients : Thread!InCall(c)
    BY <1>5
  <2>1. UNCHANGED <<m_func, worker, m_job, done>>
    BY DEF Thread!InCall, Thread!FinishWaits, Thread!FinishReturns, Thread!Join
  <2>2. UNCHANGED Thread!Pending
    BY <1>0, <2>1, PendingKept
  <2>3. CASE Thread!FinishWaits(c)
    <3>1. UNCHANGED Calls
      <4>1. \A d \in Clients : \/ client'[d] = client[d]
                               \/ client[d] = "check" /\ client'[d] = "asleep"
        BY <1>0, <2>3 DEF Thread!FinishWaits, Thread!TypeOK
      <4> QED
        BY <4>1, CallsAlike
    <3> QED
      BY <1>b, <2>1, <2>2, <2>3, <3>1 DEF Thread!FinishWaits
  <2>4. CASE Thread!FinishReturns(c)
    <3>1. /\ client[c] = "check" /\ client' = [client EXCEPT ![c] = "idle"] /\ m_func = <<>>
          /\ awaited' = [awaited EXCEPT ![c] = {}]
      BY <2>4 DEF Thread!FinishReturns, Thread!MayReturn
    <3>2. client'[c] = "idle"
      BY <1>0, <3>1 DEF Thread!TypeOK
    <3>3. Thread!Call(c) = "finish" /\ Thread!Call(c)' = "idle"
      BY <3>1, <3>2 DEF Thread!Call
    <3>4. Calls' = [Calls EXCEPT ![c] = "idle"]
      BY <1>0, <3>1, <3>3, CallsExcept
    <3>5. awaited[c] \subseteq Thread!JobsOf(done)
      <4>1. Thread!JobsOf(m_func) = {} /\ DOMAIN m_func = {}
        BY <3>1, EmptyQueue
      <4> QED
        BY <3>1, <4>1 DEF PromiseInv, AwaitedAhead, Behind
    <3>6. Thread!Queue!FinishReturns(c)
      BY <1>a, <2>1, <2>2, <3>1, <3>3, <3>4, <3>5 DEF Thread!Queue!FinishReturns, Calls
    <3> QED
      BY <3>6 DEF Thread!Queue!Next
  <2>5. CASE Thread!Join(c)
    <3>1. /\ client[c] = "join" /\ client' = [client EXCEPT ![c] = "destroyed"]
          /\ worker = "exited" /\ UNCHANGED awaited
      BY <2>5 DEF Thread!Join
    <3>2. client'[c] = "destroyed"
      BY <1>0, <3>1 DEF Thread!TypeOK
    <3>3. Thread!Call(c) = "destroy" /\ Thread!Call(c)' = "destroyed"
      BY <3>1, <3>2 DEF Thread!Call
    <3>4. Calls' = [Calls EXCEPT ![c] = "destroyed"]
      BY <1>0, <3>1, <3>3, CallsExcept
    <3>5. Thread!Pending = <<>>
      <4>1. m_func = <<>>
        BY <1>0, <3>1 DEF Thread!NeverIdle
      <4>2. Thread!Pending = Selected(m_func, Jobs)
        BY <1>0, <3>1, PendingIs
      <4> QED
        BY <4>1, <4>2, SelectedEmpty
    <3>6. Thread!Queue!Destroyed(c)
      BY <2>1, <2>2, <3>1, <3>3, <3>4, <3>5 DEF Thread!Queue!Destroyed, Calls
    <3> QED
      BY <3>6 DEF Thread!Queue!Next
  <2> QED
    BY <2>3, <2>4, <2>5 DEF Thread!InCall
<1>6. CASE \E c \in Clients : Thread!Finish(c)
  <2> PICK c \in Clients : Thread!Finish(c)
    BY <1>6
  <2>1. /\ Clear \in Functions /\ Clear \notin Jobs /\ Thread!Submit(Clear) /\ Thread!Alive
        /\ UNCHANGED <<m_job, done>> /\ client[c] = "idle"
        /\ client' = [client EXCEPT ![c] = "check"]
        /\ awaited' = [awaited EXCEPT ![c] = Thread!PendingJobs]
    BY DEF Thread!Finish, Functions, Thread!ThreadConstants
  <2>2. UNCHANGED Thread!Pending
    BY <1>0, <2>1, PendingSubmitted
  <2>3. client'[c] = "check"
    BY <1>0, <2>1 DEF Thread!TypeOK
  <2>4. Thread!Call(c) = "idle" /\ Thread!Call(c)' = "finish"
    BY <2>1, <2>3 DEF Thread!Call
  <2>5. Calls' = [Calls EXCEPT ![c] = "finish"]
    BY <1>0, <2>1, <2>4, CallsExcept
  <2>6. \A d \in Clients : Thread!Call(d) \in {"idle", "finish"}
    BY <2>1, AliveOpen
  <2>7. Thread!Queue!Finish(c)
    BY <1>a, <2>1, <2>2, <2>4, <2>5, <2>6 DEF Thread!Queue!Finish, Thread!Queue!Open, Calls
  <2> QED
    BY <2>7 DEF Thread!Queue!Next
<1>7. CASE \E c \in Clients : Thread!Destroy(c)
  <2> PICK c \in Clients : Thread!Destroy(c)
    BY <1>7
  <2>1. /\ Finalize \in Functions /\ Finalize \notin Jobs /\ Thread!Submit(Finalize)
        /\ UNCHANGED <<m_job, done, awaited>> /\ \A d \in Clients : client[d] = "idle"
        /\ client' = [client EXCEPT ![c] = "join"]
    BY DEF Thread!Destroy, Functions, Thread!ThreadConstants
  <2>2. UNCHANGED Thread!Pending
    BY <1>0, <2>1, PendingSubmitted
  <2>3. client'[c] = "join"
    BY <1>0, <2>1 DEF Thread!TypeOK
  <2>4. Thread!Call(c)' = "destroy" /\ \A d \in Clients : Thread!Call(d) = "idle"
    BY <2>1, <2>3 DEF Thread!Call
  <2>5. Calls' = [Calls EXCEPT ![c] = "destroy"]
    BY <1>0, <2>1, <2>4, CallsExcept
  <2>6. Thread!Queue!Destroy(c)
    BY <2>1, <2>2, <2>4, <2>5 DEF Thread!Queue!Destroy, Calls
  <2> QED
    BY <2>6 DEF Thread!Queue!Next
<1>8. CASE \E c \in Clients, j \in Jobs : Thread!SubmitJob(c, j)
  <2> PICK c \in Clients, j \in Jobs : Thread!SubmitJob(c, j)
    BY <1>8
  <2>1. /\ j \in Functions /\ Thread!Submit(j) /\ Thread!Alive /\ client[c] = "idle"
        /\ j \notin Thread!PendingJobs \cup Thread!JobsOf(done)
        /\ UNCHANGED <<m_job, done, awaited, client>>
    BY DEF Thread!SubmitJob, Functions
  <2>2. Thread!Pending' = Append(Thread!Pending, j)
    BY <1>0, <2>1, PendingSubmitted
  <2>3. UNCHANGED Calls
    BY <2>1, CallsAlike
  <2>4. Thread!Call(c) = "idle" /\ \A d \in Clients : Thread!Call(d) \in {"idle", "finish"}
    BY <2>1, AliveOpen DEF Thread!Call
  <2>5. Thread!Queue!Submit(c, j)
    BY <1>a, <2>1, <2>2, <2>3, <2>4 DEF Thread!Queue!Submit, Thread!Queue!Open, Calls
  <2> QED
    BY <2>5 DEF Thread!Queue!Next
<1>9. CASE Thread!SpuriousWakeup
  <2>1. UNCHANGED <<m_func, m_job, done, awaited>> /\ (worker = "run" <=> worker' = "run")
    BY <1>9 DEF Thread!SpuriousWakeup
  <2>2. UNCHANGED Thread!Pending
    BY <1>0, <2>1, PendingKept
  <2>3. UNCHANGED Calls
    <3>1. \A c \in Clients : \/ client'[c] = client[c]
                             \/ client[c] = "asleep" /\ client'[c] = "check"
      BY <1>0, <1>9 DEF Thread!SpuriousWakeup, Thread!TypeOK
    <3> QED
      BY <3>1, CallsAlike
  <2> QED
    BY <1>b, <2>1, <2>2, <2>3
<1>10. CASE UNCHANGED thread_vars
  <2>1. UNCHANGED Thread!Pending
    BY <1>0, <1>10, PendingKept DEF thread_vars
  <2>2. UNCHANGED Calls
    BY <1>10, CallsAlike DEF thread_vars
  <2> QED
    BY <1>10, <1>b, <2>1, <2>2 DEF thread_vars
<1> QED
  BY <1>1, <1>2, <1>3, <1>4, <1>5, <1>6, <1>7, <1>8, <1>9, <1>10 DEF Thread!Next,
     Thread!Worker

\* The thread behind asynchronous output implements JobQueue, but for its fairness: jobs run
\* one at a time in the order of their submission, Finish returns only when the jobs submitted
\* before it are done, the destructor only when all are (BackgroundThread::do_job, Finish and
\* the destructor), for any number of clients that submit and call Finish.
THEOREM ThreadImplementsJobQueue ==
  ThreadSpec => Thread!Queue!Init /\ [][Thread!Queue!Next]_(Thread!Queue!vars)
<1>1. Thread!Init => PromiseInv
  BY ThreadAssumption, InitPromise
<1>2. PromiseInv /\ [Thread!Next]_thread_vars => PromiseInv'
  BY ThreadAssumption, NextPromise
<1>3. Thread!Init => Thread!Queue!Init
  <2> SUFFICES ASSUME Thread!Init PROVE Thread!Queue!Init
    OBVIOUS
  <2>1. Thread!Pending = <<>>
    <3>1. Thread!TypeOK /\ m_func = <<>> /\ worker = "start"
      BY <1>1 DEF PromiseInv, QueueInv, Thread!Init
    <3> QED
      BY <3>1, PendingIs, SelectedEmpty
  <2>2. \A c \in Clients : client[c] = "idle"
    BY DEF Thread!Init
  <2>3. Calls = [c \in Clients |-> "idle"]
    BY <2>2 DEF Calls, Thread!Call
  <2> QED
    BY <2>1, <2>3 DEF Thread!Init, Thread!Queue!Init, Calls
<1>4. PromiseInv /\ PromiseInv' /\ [Thread!Next]_thread_vars
        => [Thread!Queue!Next]_(Thread!Queue!vars)
  BY ThreadAssumption, ImplementsStep
<1> QED
  BY <1>1, <1>2, <1>3, <1>4, PTL DEF ThreadSpec

----------------------------------------------------------------------------
(* AsyncWrite.  The files and turns of the ranks.                          *)

IFile(r)  == Async!s_info[r].ifile
Spot(r)   == Async!s_info[r].ispot
NSpots(r) == Async!s_info[r].nspots

\* The ranks of a file are consecutive, and their turns go up with their numbers.
LEMMA FileTurns ==
  ASSUME Async!WriteAssumption
  PROVE  /\ \A r \in Async!Ranks : /\ IFile(r) \in Async!Files
                                   /\ Spot(r) \in Nat /\ NSpots(r) \in Nat /\ Spot(r) < NSpots(r)
         /\ \A r, q \in Async!Ranks :
              IFile(q) = IFile(r) => NSpots(q) = NSpots(r) /\ Spot(q) - Spot(r) = q - r
         /\ \A r \in Async!Ranks :
              Spot(r) > 0 => /\ r - 1 \in Async!Ranks /\ IFile(r-1) = IFile(r)
                             /\ Spot(r-1) = Spot(r) - 1
<1> DEFINE N == NProcs
           M == NOutFiles
           m == (N + (M - 1)) \div M
           full == M + N - m * M
<1>1. N \in Nat /\ N > 0 /\ M \in Nat /\ M > 0 /\ M <= N
  BY DEF Async!WriteAssumption
<1>2. m \in Nat /\ N <= m * M /\ m * M < N + M
  <2>1. N + (M - 1) \in Nat
    BY <1>1
  <2> DEFINE a == N + (M - 1)
  <2>2. /\ a \div M \in Nat /\ a % M \in 0..M-1
        /\ a = M * (a \div M) + (a % M)
    BY <1>1, <2>1, DivMod
  <2>3. m = a \div M /\ a = N + (M - 1)
    OBVIOUS
  <2> HIDE DEF a, m, N, M
  <2>4. a = m * M + (a % M) /\ m \in Nat /\ a % M >= 0 /\ a % M <= M - 1 /\ m * M \in Nat
    BY <1>1, <2>2, <2>3
  <2> DEFINE p == m * M
             u == a % M
  <2>5. a = p + u /\ p \in Nat /\ u \in Int /\ u >= 0 /\ u <= M - 1
    BY <1>1, <2>2, <2>4
  <2> HIDE DEF p, u
  <2>6. N <= p /\ p < N + M
    BY <1>1, <2>3, <2>5
  <2> QED
    BY <2>4, <2>6 DEF p
<1>3. m > 0
  <2>1. m = 0 => m * M = 0
    BY <1>1
  <2> HIDE DEF m
  <2> QED
    BY <1>1, <1>2, <2>1
<1>4. full \in Nat /\ full > 0 /\ full <= M
  <2> DEFINE p == m * M
  <2>1. p \in Nat /\ N <= p /\ p < N + M
    BY <1>1, <1>2
  <2>2. full = M + N - p
    OBVIOUS
  <2> HIDE DEF p, full, M, N
  <2> QED
    BY <1>1, <2>1, <2>2
<1>5. \A r \in Async!Ranks : r \in Nat /\ r < N
  BY <1>1 DEF Async!Ranks
<1> DEFINE low(r) == r < full * m
           t(r) == r - full * m
<1>6. \A r \in Async!Ranks :
        /\ IFile(r)  = IF low(r) THEN r \div m ELSE full + t(r) \div (m - 1)
        /\ Spot(r)   = IF low(r) THEN r % m ELSE t(r) % (m - 1)
        /\ NSpots(r) = IF low(r) THEN m ELSE m - 1
  BY DEF IFile, Spot, NSpots, Async!s_info, Async!GetWriteInfo
<1> HIDE DEF m, full
<1>7. full * m \in Nat
  BY <1>2, <1>4
<1>8. N = full + M * (m - 1) /\ N - full * m = (M - full) * (m - 1)
  <2>1. full = M + N - m * M
    BY DEF full
  <2>2. m * M = M * (m - 1) + M /\ full * m = full * (m - 1) + full
        /\ (M - full) * (m - 1) = M * (m - 1) - full * (m - 1)
    BY <1>1, <1>2, <1>4
  <2> DEFINE a == M * (m - 1)
             b == full * (m - 1)
             c == m * M
             d == full * m
             e == (M - full) * (m - 1)
  <2>3. a \in Int /\ b \in Int /\ c \in Int /\ d \in Int
    BY <1>1, <1>2, <1>4
  <2>4. full = M + N - c /\ c = a + M /\ d = b + full /\ e = a - b
    BY <2>1, <2>2
  <2> HIDE DEF a, b, c, d, e, M, N
  <2>5. N = full + a /\ N - d = e
    BY <1>1, <1>4, <2>3, <2>4
  <2> QED
    BY <2>5 DEF a, d, e
\* A rank of one of the first files.
<1>9. ASSUME NEW r \in Async!Ranks, low(r)
      PROVE  /\ IFile(r) \in 0..full-1 /\ Spot(r) \in 0..m-1 /\ NSpots(r) = m
             /\ r = m * IFile(r) + Spot(r)
  <2>1. IFile(r) = r \div m /\ Spot(r) = r % m /\ NSpots(r) = m
    BY <1>6, <1>9
  <2>2. IFile(r) \in Nat /\ Spot(r) \in 0..m-1 /\ r = m * IFile(r) + Spot(r)
    BY <1>2, <1>3, <1>5, <2>1, DivMod
  <2>3. IFile(r) < full
    <3> SUFFICES ASSUME IFile(r) >= full PROVE FALSE
      BY <1>4, <2>2
    <3> DEFINE k == IFile(r) - full
    <3>1. k \in Nat /\ IFile(r) = full + k
      BY <1>4, <2>2
    <3>2. m * (full + k) = full * m + m * k /\ m * k \in Nat
      BY <1>2, <1>4, <3>1
    <3>3. r = (full * m + m * k) + Spot(r)
      BY <2>2, <3>1, <3>2
    <3> DEFINE a == full * m
               b == m * k
    <3>4. r = (a + b) + Spot(r) /\ r < a /\ a \in Nat /\ b \in Nat /\ Spot(r) \in Nat
      BY <1>7, <1>9, <2>2, <3>2, <3>3
    <3> HIDE DEF a, b
    <3> QED
      BY <3>4
  <2> QED
    BY <1>4, <2>1, <2>2, <2>3
\* A rank of one of the others.
<1>10. ASSUME NEW r \in Async!Ranks, ~low(r)
       PROVE  /\ IFile(r) \in full..M-1 /\ Spot(r) \in 0..m-2 /\ NSpots(r) = m - 1
              /\ t(r) \in Nat /\ t(r) = (m - 1) * (IFile(r) - full) + Spot(r)
  <2>0. r \in Nat /\ r < N
    BY <1>5
  <2>1. /\ IFile(r) = full + t(r) \div (m - 1) /\ Spot(r) = t(r) % (m - 1) /\ NSpots(r) = m - 1
    BY <1>6, <1>10
  <2>2. t(r) \in Nat /\ t(r) < (M - full) * (m - 1)
    <3> DEFINE a == full * m
               b == (M - full) * (m - 1)
    <3>1. a \in Nat /\ N - a = b /\ r >= a /\ t(r) = r - a
      BY <1>7, <1>8, <1>10, <2>0
    <3> HIDE DEF a, b, N
    <3>2. t(r) \in Nat /\ t(r) < b
      BY <1>1, <2>0, <3>1
    <3> QED
      BY <3>2 DEF b
  <2>3. m - 1 \in Nat /\ m - 1 > 0
    <3>1. m = 1 => (M - full) * (m - 1) = 0
      BY <1>1, <1>4
    <3> QED
      BY <1>2, <1>3, <2>2, <3>1
  <2> DEFINE k == t(r) \div (m - 1)
  <2>4. k \in Nat /\ Spot(r) \in 0..(m-1)-1 /\ t(r) = (m - 1) * k + Spot(r)
    BY <2>1, <2>2, <2>3, DivMod
  <2>5. k < M - full
    <3> SUFFICES ASSUME k >= M - full PROVE FALSE
      BY <1>1, <1>4, <2>4
    <3> DEFINE h == k - (M - full)
    <3>1. h \in Nat /\ k = (M - full) + h
      BY <1>1, <1>4, <2>4
    <3> HIDE DEF k, h
    <3>2. (m - 1) * ((M - full) + h) = (M - full) * (m - 1) + (m - 1) * h /\ (m - 1) * h \in Nat
      BY <1>1, <1>4, <2>3, <3>1
    <3> DEFINE a == (M - full) * (m - 1)
               b == (m - 1) * h
    <3>3. t(r) = (a + b) + Spot(r) /\ t(r) < a /\ b \in Nat /\ Spot(r) \in Nat /\ a \in Int
      BY <1>1, <1>4, <2>2, <2>3, <2>4, <3>1, <3>2
    <3> HIDE DEF a, b, t
    <3> QED
      BY <2>2, <3>3
  <2>6. IFile(r) = full + k
    BY <2>1
  <2> HIDE DEF k, t, M
  <2>7. IFile(r) - full = k /\ IFile(r) \in full..M-1
    BY <1>1, <1>4, <2>4, <2>5, <2>6
  <2>8. Spot(r) \in 0..m-2
    BY <1>2, <2>3, <2>4
  <2> QED
    BY <2>1, <2>2, <2>4, <2>7, <2>8 DEF M
<1>11. ASSUME NEW r \in Async!Ranks
       PROVE  /\ IFile(r) \in Async!Files
              /\ Spot(r) \in Nat /\ NSpots(r) \in Nat /\ Spot(r) < NSpots(r)
  <2>1. CASE low(r)
    BY <1>1, <1>2, <1>4, <1>9, <2>1 DEF Async!Files
  <2>2. CASE ~low(r)
    BY <1>1, <1>2, <1>4, <1>10, <2>2 DEF Async!Files
  <2> QED
    BY <2>1, <2>2
<1>12. ASSUME NEW r \in Async!Ranks, NEW q \in Async!Ranks, IFile(q) = IFile(r)
       PROVE  NSpots(q) = NSpots(r) /\ Spot(q) - Spot(r) = q - r
  <2>1. CASE low(r) /\ low(q)
    <3> DEFINE a == m * IFile(r)
    <3>1. a \in Int /\ r = a + Spot(r) /\ q = a + Spot(q) /\ Spot(r) \in Int /\ Spot(q) \in Int
      BY <1>2, <1>9, <1>12, <2>1
    <3> HIDE DEF a
    <3> QED
      BY <1>9, <2>1, <3>1
  <2>2. CASE ~low(r) /\ ~low(q)
    <3> DEFINE a == (m - 1) * (IFile(r) - full)
    <3>1. /\ a \in Int /\ t(r) = a + Spot(r) /\ t(q) = a + Spot(q)
          /\ Spot(r) \in Int /\ Spot(q) \in Int
      BY <1>1, <1>2, <1>4, <1>10, <1>12, <2>2
    <3>2. t(r) = r - full * m /\ t(q) = q - full * m /\ full * m \in Nat /\ r \in Nat /\ q \in Nat
      BY <1>5, <1>7
    <3> HIDE DEF a, t
    <3>3. Spot(q) - Spot(r) = t(q) - t(r)
      BY <3>1
    <3> DEFINE b == full * m
    <3>4. t(r) = r - b /\ t(q) = q - b /\ b \in Nat
      BY <3>2
    <3> HIDE DEF b
    <3>5. t(q) - t(r) = q - r
      BY <3>2, <3>4
    <3> QED
      BY <1>10, <2>2, <3>3, <3>5
  <2>3. low(r) <=> low(q)
    <3>1. CASE low(r) /\ ~low(q)
      BY <1>1, <1>4, <1>9, <1>10, <1>12, <3>1
    <3>2. CASE ~low(r) /\ low(q)
      BY <1>1, <1>4, <1>9, <1>10, <1>12, <3>2
    <3> QED
      BY <3>1, <3>2
  <2> QED
    BY <2>1, <2>2, <2>3
<1>13. ASSUME NEW r \in Async!Ranks, Spot(r) > 0
       PROVE  r - 1 \in Async!Ranks /\ IFile(r-1) = IFile(r) /\ Spot(r-1) = Spot(r) - 1
  <2>1. CASE low(r)
    <3> DEFINE k == IFile(r)
               c == Spot(r) - 1
    <3>1. k \in Nat /\ c \in 0..m-1 /\ m \in Nat \ {0} /\ r = m * k + Spot(r) /\ Spot(r) \in Nat
          /\ m * k \in Nat
      BY <1>2, <1>3, <1>4, <1>9, <1>13, <2>1
    <3>2. (m * k + c) \div m = k /\ (m * k + c) % m = c
      BY <3>1, DivUnique
    <3> DEFINE a == m * k
    <3>3. r = a + Spot(r) /\ a \in Nat
      BY <3>1
    <3> HIDE DEF a, k
    <3>4. r - 1 = a + c /\ r - 1 \in Nat /\ r - 1 < r
      BY <1>13, <3>1, <3>3
    <3>5. r - 1 \in Async!Ranks /\ low(r - 1)
      <4> DEFINE b == full * m
      <4>1. r < b /\ b \in Nat /\ r < N /\ r \in Nat
        BY <1>5, <1>7, <2>1
      <4> HIDE DEF b, N
      <4>2. r - 1 < b /\ r - 1 < N
        BY <1>1, <3>4, <4>1
      <4> QED
        BY <1>1, <3>4, <4>2 DEF Async!Ranks, b, N
    <3>6. IFile(r-1) = (r-1) \div m /\ Spot(r-1) = (r-1) % m
      BY <1>6, <3>5
    <3> QED
      BY <3>2, <3>4, <3>5, <3>6 DEF a, k
  <2>2. CASE ~low(r)
    <3> DEFINE k == IFile(r) - full
               c == Spot(r) - 1
               w == m - 1
    <3>0. /\ IFile(r) \in full..M-1 /\ Spot(r) \in 0..m-2
          /\ t(r) = (m - 1) * (IFile(r) - full) + Spot(r)
      BY <1>10, <2>2
    <3>1. /\ k \in Nat /\ c \in 0..w-1 /\ w \in Nat \ {0} /\ t(r) = w * k + Spot(r)
          /\ Spot(r) \in Nat /\ IFile(r) \in Nat
      <4>1. k \in Nat /\ IFile(r) \in Nat
        BY <1>1, <1>4, <3>0
      <4>2. c \in 0..w-1 /\ w \in Nat \ {0} /\ Spot(r) \in Nat
        BY <1>2, <1>13, <3>0
      <4> QED
        BY <3>0, <4>1, <4>2
    <3> HIDE DEF k, c, w
    <3>2. (w * k + c) \div w = k /\ (w * k + c) % w = c /\ w * k \in Nat
      <4>1. w \in Nat \ {0} /\ k \in Nat /\ c \in 0..w-1
        BY <3>1
      <4>2. w * k \in Nat
        BY <4>1
      <4> QED
        BY <4>1, <4>2, DivUnique, Zenon
    <3> DEFINE a == w * k
               b == full * m
    <3>3. t(r) = a + Spot(r) /\ a \in Nat /\ b \in Nat /\ r \in Nat /\ t(r) = r - b
      BY <1>5, <1>7, <3>1, <3>2
    <3>4. t(r-1) = (r - 1) - b
      OBVIOUS
    <3> HIDE DEF a, b, t
    <3>5. t(r-1) = a + c /\ r - 1 \in Nat /\ r - 1 < r /\ r - 1 >= b
      BY <1>13, <3>1, <3>3, <3>4 DEF c
    <3>6. r - 1 \in Async!Ranks /\ ~low(r - 1)
      <4>1. r < N /\ r \in Nat
        BY <1>5
      <4>2. r - 1 \in Async!Ranks
        BY <1>1, <3>5, <4>1 DEF Async!Ranks
      <4>3. ~(r - 1 < b)
        BY <3>3, <3>5, <4>1
      <4> QED
        BY <4>2, <4>3 DEF b
    <3>7. IFile(r-1) = full + t(r-1) \div w /\ Spot(r-1) = t(r-1) % w
      BY <1>6, <3>6 DEF w
    <3>8. t(r-1) \div w = k /\ t(r-1) % w = c
      BY <3>2, <3>5 DEF a
    <3>9. full + k = IFile(r)
      BY <1>4, <3>1 DEF k
    <3> QED
      BY <3>6, <3>7, <3>8, <3>9 DEF c
  <2> QED
    BY <2>1, <2>2
<1> QED
  BY <1>11, <1>12, <1>13


----------------------------------------------------------------------------
(* Sums of sizes.                                                          *)

\* Bytes: the sum of the first sizes.
LEMMA BytesIs ==
  ASSUME NEW s \in Seq(Nat)
  PROVE  /\ Async!Bytes(s, 0) = 0
         /\ \A k \in 1..Len(s) : Async!Bytes(s, k) = Async!Bytes(s, k - 1) + s[k]
         /\ \A k \in 0..Len(s) : Async!Bytes(s, k) \in Nat
<1> DEFINE n == Len(s)
           Def(f) == f = [k \in 0..n |-> IF k = 0 THEN 0 ELSE f[k-1] + s[k]]
           F == CHOOSE f : Def(f)
           step == [k \in 1..n |-> [x \in Nat |-> x + s[k]]]
<1>1. n \in Nat /\ \A k \in 1..n : s[k] \in Nat
  OBVIOUS
<1>2. \E f : Def(f)
  <2>1. step \in [1..n -> [Nat -> Nat]] /\ \A k \in 1..n, x \in Nat : step[k][x] = x + s[k]
    BY <1>1
  <2> HIDE DEF step, n
  <2>2. PICK f : Unfolds(f, n, Nat, 0, step)
    <3>1. 0 \in Nat /\ n \in Nat /\ step \in [1..n -> [Nat -> Nat]]
      BY <1>1, <2>1
    <3> QED
      BY <3>1, RecursionExists
  <2>3. \A i \in 1..n : f[i] = f[i-1] + s[i]
    <3> SUFFICES ASSUME NEW i \in 1..n PROVE f[i] = f[i-1] + s[i]
      OBVIOUS
    <3>1. i - 1 \in 0..n /\ f[i-1] \in Nat
      BY <1>1, <2>2 DEF Unfolds
    <3> QED
      BY <2>1, <2>2, <3>1 DEF Unfolds
  <2>4. f = [k \in 0..n |-> IF k = 0 THEN 0 ELSE f[k-1] + s[k]]
    BY <1>1, <2>2, <2>3 DEF Unfolds
  <2> QED
    BY <2>4
<1>3. Def(F)
  BY <1>2
<1>4. \A k \in 0..n : Async!Bytes(s, k) = F[k]
  BY DEF Async!Bytes
<1> HIDE DEF F, n
<1>5. F[0] = 0 /\ \A k \in 1..n : F[k] = F[k-1] + s[k]
  BY <1>1, <1>3
<1>6. \A k \in 0..n : F[k] \in Nat
  <2> DEFINE S == {k \in 0..n : F[k] \in Nat}
  <2>1. 0 \in S
    BY <1>1, <1>5
  <2>2. ASSUME NEW i \in 1..n, i - 1 \in S PROVE i \in S
    BY <1>1, <1>5, <2>2
  <2> HIDE DEF S
  <2>3. 0..n \subseteq S
    BY <1>1, <2>1, <2>2, UpTo
  <2> QED
    BY <2>3 DEF S
<1>7. \A k \in 1..n : k \in 0..n /\ k - 1 \in 0..n
  BY <1>1
<1>8. /\ Async!Bytes(s, 0) = 0
      /\ \A k \in 1..n : Async!Bytes(s, k) = Async!Bytes(s, k - 1) + s[k]
      /\ \A k \in 0..n : Async!Bytes(s, k) \in Nat
  <2>1. 0 \in 0..n
    BY <1>1
  <2> QED
    BY <1>4, <1>5, <1>6, <1>7, <2>1
<1> QED
  BY <1>8 DEF n

\* The sums of two sequences that begin alike.
LEMMA BytesAlike ==
  ASSUME NEW s \in Seq(Nat), NEW t \in Seq(Nat), NEW m \in Nat, m <= Len(s), m <= Len(t),
         \A k \in 1..m : s[k] = t[k]
  PROVE  \A k \in 0..m : Async!Bytes(s, k) = Async!Bytes(t, k)
<1> DEFINE S == {k \in 0..m : Async!Bytes(s, k) = Async!Bytes(t, k)}
<1>1. 0 \in S
  BY BytesIs
<1>2. ASSUME NEW i \in 1..m, i - 1 \in S PROVE i \in S
  <2>1. i \in 1..Len(s) /\ i \in 1..Len(t)
    OBVIOUS
  <2> QED
    BY <1>2, <2>1, BytesIs
<1> HIDE DEF S
<1>3. 0..m \subseteq S
  BY <1>1, <1>2, UpTo
<1> QED
  BY <1>3 DEF S

----------------------------------------------------------------------------
(* AsyncWrite.  One rank at a time in a file, by the count of barriers.    *)

\* The rank is past its writes of write w, or amid them.
PastWrite(r, w) == job[r] > w \/ (job[r] = w /\ thread_pc[r] \in {"notify", "idle"})
AtFile(r, w)    == job[r] = w /\ thread_pc[r] = "write"

\* Barriers that a whole job posts.
Turns(r) == NSpots(r) - 1

AsyncType ==
  /\ layout \in [Async!Writes -> Layouts]
  /\ called \in [Async!Ranks -> 0..NWrites]
  /\ job \in [Async!Ranks -> 0..NWrites]
  /\ thread_pc \in [Async!Ranks -> {"idle", "wait", "write", "notify"}]
  /\ nwritten \in [Async!Ranks -> Nat] /\ posted \in [Async!Ranks -> Nat]
  /\ async_files \in [Async!Writes -> [Async!Files -> Seq(Async!Ranks \X Nat)]]
  /\ DOMAIN header = Async!Writes
  /\ \A r \in Async!Ranks :
       /\ job[r] <= called[r]
       /\ thread_pc[r] # "idle" => job[r] > 0
       /\ thread_pc[r] = "write" => nwritten[r] <= Len(layout[job[r]][r])

PostedOK ==
  \A r \in Async!Ranks :
    posted[r] = IF thread_pc[r] \in {"idle", "notify"} THEN job[r] * Turns(r)
                ELSE (job[r] - 1) * Turns(r) + Spot(r)

\* The earlier ranks of the file are past their writes.
AfterEarlier(r, w) ==
  \A q \in Async!Ranks : IFile(q) = IFile(r) /\ q < r => PastWrite(q, w)

TurnsTaken ==
  \A r \in Async!Ranks, w \in Async!Writes :
    PastWrite(r, w) \/ AtFile(r, w) => AfterEarlier(r, w)

InFile(x, w) == PastWrite(x[1], w) \/ (AtFile(x[1], w) /\ x[2] <= nwritten[x[1]])

FilesHold ==
  \A w \in Async!Writes, n \in Async!Files :
    ToSet(async_files[w][n]) = {x \in Async!Fabs(w) : IFile(x[1]) = n /\ InFile(x, w)}

AsyncInv == AsyncType /\ PostedOK /\ TurnsTaken /\ FilesHold

LEMMA FabsAre ==
  ASSUME Async!WriteAssumption, AsyncType, NEW w \in Async!Writes
  PROVE  /\ layout[w] \in [Async!Ranks -> Seq(Nat)]
         /\ \A r \in Async!Ranks : layout[w][r] \in Seq(Nat) /\ Len(layout[w][r]) \in Nat
         /\ \A x \in Async!Fabs(w) : /\ x[1] \in Async!Ranks
                                     /\ x[2] \in 1..Len(layout[w][x[1]])
                                     /\ x = <<x[1], x[2]>>
         /\ \A r \in Async!Ranks : \A j \in 1..Len(layout[w][r]) : <<r, j>> \in Async!Fabs(w)
<1>1. layout[w] \in [Async!Ranks -> Seq(Nat \ {0})]
  BY DEF AsyncType, Async!WriteAssumption
<1>2. Seq(Nat \ {0}) \subseteq Seq(Nat)
  OBVIOUS
<1>3. \A r \in Async!Ranks : layout[w][r] \in Seq(Nat)
  BY <1>1, <1>2
<1>4. \A r \in Async!Ranks : Len(layout[w][r]) \in Nat /\ DOMAIN layout[w][r] = 1..Len(layout[w][r])
  BY <1>3
<1>5. \A x \in Async!Fabs(w) : x[1] \in Async!Ranks /\ x[2] \in DOMAIN layout[w][x[1]]
                               /\ x = <<x[1], x[2]>>
  BY DEF Async!Fabs
<1>6. \A r \in Async!Ranks : \A j \in DOMAIN layout[w][r] : <<r, j>> \in Async!Fabs(w)
  BY DEF Async!Fabs
<1> QED
  BY <1>1, <1>3, <1>4, <1>5, <1>6

LEMMA ProductGrows ==
  ASSUME NEW a \in Nat, NEW b \in Nat, NEW c \in Nat, a <= b
  PROVE  a * c <= b * c /\ a * c \in Nat /\ b * c \in Nat
<1>1. b = a + (b - a) /\ b - a \in Nat
  OBVIOUS
<1>2. b * c = a * c + (b - a) * c
  BY <1>1
<1>3. a * c \in Nat /\ b * c \in Nat /\ (b - a) * c \in Nat
  BY <1>1
<1> QED
  BY <1>2, <1>3

\* Past the barriers of Wait: every earlier rank has posted the barriers of Notify.
LEMMA WaitedForEarlier ==
  ASSUME Async!WriteAssumption, AsyncType, PostedOK,
         NEW r \in Async!Ranks, thread_pc[r] = "wait", Async!MyTurn(r)
  PROVE  AfterEarlier(r, job[r])
<1> SUFFICES ASSUME NEW q \in Async!Ranks, IFile(q) = IFile(r), q < r, ~PastWrite(q, job[r])
             PROVE  FALSE
  BY DEF AfterEarlier
<1>0. q \in Int /\ r \in Int
  BY DEF Async!Ranks, Async!WriteAssumption
<1>1. /\ Spot(q) \in Nat /\ Spot(r) \in Nat /\ NSpots(q) = NSpots(r) /\ NSpots(r) \in Nat
      /\ Spot(r) - Spot(q) = r - q /\ Spot(q) < NSpots(q) /\ Spot(r) < NSpots(r)
  BY FileTurns
<1>2. Spot(q) < Spot(r)
  BY <1>0, <1>1
<1>3. posted[q] >= posted[r]
  BY <1>1, <1>2 DEF Async!MyTurn, Async!WaitBarriers, Async!Completed, Async!s_comm, Spot, IFile
<1> DEFINE T == Turns(r)
<1>4. Turns(q) = T /\ T \in Nat /\ Spot(r) <= T
  BY <1>1 DEF Turns
<1>5. /\ job[r] \in Nat /\ job[q] \in Nat /\ job[r] > 0
      /\ thread_pc[q] # "idle" => job[q] > 0
  BY DEF AsyncType, Async!WriteAssumption
<1>6. posted[r] = (job[r] - 1) * T + Spot(r)
  BY DEF PostedOK
<1>7. posted[q] = IF thread_pc[q] \in {"idle", "notify"} THEN job[q] * T
                  ELSE (job[q] - 1) * T + Spot(q)
  BY <1>4 DEF PostedOK
<1>8. \/ job[q] = job[r] /\ thread_pc[q] \notin {"idle", "notify"}
      \/ job[q] <= job[r] - 1
  BY <1>5 DEF PastWrite
<1> HIDE DEF T
<1> DEFINE before == (job[r] - 1) * T
<1>9. before \in Nat
  BY <1>4, <1>5
<1>10. CASE job[q] = job[r] /\ thread_pc[q] \notin {"idle", "notify"}
  <2>1. posted[q] = before + Spot(q) /\ posted[r] = before + Spot(r)
    BY <1>6, <1>7, <1>10
  <2> HIDE DEF before
  <2> QED
    BY <1>1, <1>2, <1>3, <1>9, <2>1
<1>11. CASE job[q] <= job[r] - 1
  <2>1. job[q] * T <= before /\ job[q] * T \in Nat
    BY <1>4, <1>5, <1>11, ProductGrows
  <2>2. posted[q] <= job[q] * T
    <3>1. CASE thread_pc[q] \in {"idle", "notify"}
      BY <1>7, <2>1, <3>1
    <3>2. CASE thread_pc[q] \notin {"idle", "notify"}
      <4>1. job[q] * T = (job[q] - 1) * T + T /\ (job[q] - 1) * T \in Nat
        BY <1>4, <1>5, <3>2
      <4> DEFINE a == (job[q] - 1) * T
      <4>2. posted[q] = a + Spot(q) /\ job[q] * T = a + T /\ a \in Nat
        BY <1>7, <3>2, <4>1
      <4> HIDE DEF a
      <4> QED
        BY <1>1, <1>2, <1>4, <2>1, <4>2
    <3> QED
      BY <3>1, <3>2
  <2> DEFINE c == job[q] * T
  <2>3. posted[q] <= c /\ c <= before /\ c \in Nat /\ posted[r] = before + Spot(r)
    BY <1>6, <2>1, <2>2
  <2>4. posted[q] \in Nat /\ posted[r] \in Nat
    BY DEF AsyncType
  <2> HIDE DEF before, c
  <2> QED
    BY <1>1, <1>2, <1>3, <1>9, <2>3, <2>4
<1> QED
  BY <1>8, <1>10, <1>11

LEMMA BusyWithWrite ==
  ASSUME Async!WriteAssumption, AsyncType, NEW r \in Async!Ranks, thread_pc[r] # "idle"
  PROVE  job[r] \in Async!Writes
<1>1. job[r] > 0 /\ job[r] \in 0..NWrites /\ NWrites \in Nat
  BY DEF AsyncType, Async!WriteAssumption
<1> QED
  BY <1>1 DEF Async!Writes

LEMMA AsyncTypeStep ==
  ASSUME Async!WriteAssumption, AsyncType, [Async!Next]_(Async!vars)
  PROVE  AsyncType'
<1> USE DEF AsyncType
<1>0. NWrites \in Nat /\ \A r \in Async!Ranks : job[r] \in Nat /\ job[r] <= NWrites
      /\ called[r] \in Nat /\ called[r] <= NWrites
  BY DEF Async!WriteAssumption
<1>1. ASSUME NEW r \in Async!Ranks, Async!Call(r) PROVE AsyncType'
  BY <1>0, <1>1 DEF Async!Call, Async!thread
<1>2. ASSUME NEW r \in Async!Ranks, Async!BeginJob(r) PROVE AsyncType'
  <2>1. job[r] + 1 \in 0..NWrites /\ job[r] + 1 <= called[r]
    BY <1>0, <1>2 DEF Async!BeginJob
  <2>2. posted' \in [Async!Ranks -> Nat]
    <3>1. Spot(r) \in Nat
      BY FileTurns
    <3> QED
      BY <1>2, <3>1 DEF Async!BeginJob, Async!Post, Async!WaitBarriers, Spot
  <2>3. DOMAIN header' = Async!Writes
    BY <1>2 DEF Async!BeginJob
  <2>4. /\ job' = [job EXCEPT ![r] = job[r] + 1] /\ thread_pc' = [thread_pc EXCEPT ![r] = "wait"]
        /\ UNCHANGED <<layout, called, nwritten, async_files>>
    BY <1>2 DEF Async!BeginJob, Async!main
  <2>5. job' \in [Async!Ranks -> 0..NWrites]
    BY <2>1, <2>4
  <2>6. ASSUME NEW q \in Async!Ranks
        PROVE  /\ job'[q] <= called'[q]
               /\ thread_pc'[q] # "idle" => job'[q] > 0
               /\ thread_pc'[q] = "write" => nwritten'[q] <= Len(layout'[job'[q]][q])
    <3>1. CASE q = r
      BY <1>0, <2>1, <2>4, <3>1
    <3>2. CASE q # r
      BY <1>0, <2>4, <3>2
    <3> QED
      BY <3>1, <3>2
  <2>7. thread_pc' \in [Async!Ranks -> {"idle", "wait", "write", "notify"}]
    BY <2>4
  <2> QED
    BY <2>2, <2>3, <2>4, <2>5, <2>6, <2>7
<1>3. ASSUME NEW r \in Async!Ranks, Async!Open(r) PROVE AsyncType'
  <2>0. job[r] \in Async!Writes
    <3>1. thread_pc[r] # "idle"
      BY <1>3 DEF Async!Open
    <3> QED
      BY <3>1, BusyWithWrite
  <2>1. async_files' \in [Async!Writes -> [Async!Files -> Seq(Async!Ranks \X Nat)]]
    <3>1. <<>> \in Seq(Async!Ranks \X Nat)
      OBVIOUS
    <3> DEFINE w == job[r]
               n == Async!s_info[r].ifile
    <3>2. \/ async_files' = async_files
          \/ async_files' = [async_files EXCEPT ![w][n] = <<>>]
      BY <1>3 DEF Async!Open
    <3>3. w \in Async!Writes /\ n \in Async!Files
      BY <2>0, FileTurns DEF IFile
    <3> HIDE DEF w, n
    <3>4. CASE async_files' = async_files
      BY <3>4
    <3>5. CASE async_files' = [async_files EXCEPT ![w][n] = <<>>]
      <4>1. [async_files[w] EXCEPT ![n] = <<>>] \in [Async!Files -> Seq(Async!Ranks \X Nat)]
        BY <3>1, <3>3
      <4> QED
        BY <3>3, <3>5, <4>1
    <3> QED
      BY <3>2, <3>4, <3>5
  <2>3. Len(layout[job[r]][r]) \in Nat
    BY <2>0, FabsAre
  <2> QED
    BY <1>0, <1>3, <2>1, <2>3 DEF Async!Open, Async!main
<1>4. ASSUME NEW r \in Async!Ranks, Async!WriteFab(r) PROVE AsyncType'
  <2>1. nwritten[r] + 1 \in Nat
    OBVIOUS
  <2>2. async_files' \in [Async!Writes -> [Async!Files -> Seq(Async!Ranks \X Nat)]]
    <3> DEFINE w == job[r]
               n == Async!s_info[r].ifile
               x == <<r, nwritten'[r]>>
    <3>1. x \in Async!Ranks \X Nat
      BY <1>4, <2>1 DEF Async!WriteFab
    <3>2. async_files' = [async_files EXCEPT ![w][n] = Append(@, x)]
      BY <1>4 DEF Async!WriteFab
    <3> HIDE DEF w, n, x
    <3>3. ASSUME NEW v \in Async!Writes, NEW k \in Async!Files
          PROVE  Append(async_files[v][k], x) \in Seq(Async!Ranks \X Nat)
      BY <3>1
    <3> QED
      BY <3>2, <3>3
  <2>3. job[r] \in Async!Writes
    <3>1. thread_pc[r] # "idle"
      BY <1>4 DEF Async!WriteFab
    <3> QED
      BY <3>1, BusyWithWrite
  <2>4. nwritten[r] + 1 <= Len(layout[job[r]][r])
    BY <1>4, <2>3, FabsAre DEF Async!WriteFab, Async!HasMore
  <2> QED
    BY <1>0, <1>4, <2>1, <2>2, <2>4 DEF Async!WriteFab, Async!main
<1>5. ASSUME NEW r \in Async!Ranks, Async!Notify(r) PROVE AsyncType'
  <2>1. posted' \in [Async!Ranks -> Nat]
    <3>1. NSpots(r) - 1 - Spot(r) \in Nat
      BY FileTurns
    <3> QED
      BY <1>5, <3>1 DEF Async!Notify, Async!Post, Async!NotifyBarriers, Spot, NSpots
  <2> QED
    BY <1>0, <1>5, <2>1 DEF Async!Notify, Async!main
<1>6. ASSUME NEW r \in Async!Ranks, Async!EndJob(r) PROVE AsyncType'
  BY <1>0, <1>6 DEF Async!EndJob, Async!main
<1>7. CASE UNCHANGED Async!vars
  BY <1>7 DEF Async!vars, Async!main, Async!thread
<1> QED
  BY <1>1, <1>2, <1>3, <1>4, <1>5, <1>6, <1>7 DEF Async!Next, Async!Thread

LEMMA PostedStep ==
  ASSUME Async!WriteAssumption, AsyncType, PostedOK, [Async!Next]_(Async!vars)
  PROVE  PostedOK'
<1> DEFINE Ok(r) == posted[r] = IF thread_pc[r] \in {"idle", "notify"} THEN job[r] * Turns(r)
                                ELSE (job[r] - 1) * Turns(r) + Spot(r)
<1>1. \A r \in Async!Ranks : Ok(r)
  BY DEF PostedOK
<1>2. (\A r \in Async!Ranks : Ok(r)') => PostedOK'
  BY DEF PostedOK, Turns, Spot, NSpots
<1>3. \A r \in Async!Ranks : Turns(r)' = Turns(r) /\ Spot(r)' = Spot(r)
  BY DEF Turns, Spot, NSpots
<1>4. \A r \in Async!Ranks : Turns(r) \in Nat /\ Spot(r) \in Nat
  BY FileTurns DEF Turns
\* A rank that does not move.
<1>5. ASSUME NEW r \in Async!Ranks, posted'[r] = posted[r], job'[r] = job[r],
             \/ thread_pc'[r] = thread_pc[r]
             \/ thread_pc[r] = "wait" /\ thread_pc'[r] = "write"
             \/ thread_pc[r] = "notify" /\ thread_pc'[r] = "idle"
      PROVE  Ok(r)'
  <2>1. Ok(r)
    BY <1>1
  <2> QED
    BY <1>3, <1>5, <2>1
<1>6. ASSUME NEW r \in Async!Ranks, Async!Call(r) PROVE PostedOK'
  BY <1>2, <1>5, <1>6 DEF Async!Call, Async!thread
<1>7. ASSUME NEW r \in Async!Ranks, Async!BeginJob(r) PROVE PostedOK'
  <2>1. ASSUME NEW q \in Async!Ranks PROVE Ok(q)'
    <3>1. CASE q = r
      <4>1. /\ posted'[r] = posted[r] + Spot(r) /\ job'[r] = job[r] + 1
            /\ thread_pc[r] = "idle" /\ thread_pc'[r] = "wait"
        BY <1>7 DEF Async!BeginJob, Async!Post, Async!WaitBarriers, Spot, AsyncType
      <4>2. posted[r] = job[r] * Turns(r)
        BY <1>1, <4>1
      <4>3. job[r] \in Nat
        BY DEF AsyncType, Async!WriteAssumption
      <4>4. (job'[r] - 1) = job[r]
        BY <4>1, <4>3
      <4>5. posted'[r] = (job'[r] - 1) * Turns(r) + Spot(r)
        BY <4>1, <4>2, <4>4
      <4> QED
        BY <1>3, <3>1, <4>1, <4>5
    <3>2. CASE q # r
      <4>1. posted'[q] = posted[q] /\ job'[q] = job[q] /\ thread_pc'[q] = thread_pc[q]
        BY <1>7, <3>2 DEF Async!BeginJob, Async!Post, AsyncType
      <4> QED
        BY <1>5, <4>1
    <3> QED
      BY <3>1, <3>2
  <2> QED
    BY <1>2, <2>1
<1>8. ASSUME NEW r \in Async!Ranks, Async!Open(r) PROVE PostedOK'
  <2>1. ASSUME NEW q \in Async!Ranks PROVE Ok(q)'
    BY <1>5, <1>8 DEF Async!Open, AsyncType
  <2> QED
    BY <1>2, <2>1
<1>9. ASSUME NEW r \in Async!Ranks, Async!WriteFab(r) PROVE PostedOK'
  BY <1>2, <1>5, <1>9 DEF Async!WriteFab
<1>10. ASSUME NEW r \in Async!Ranks, Async!Notify(r) PROVE PostedOK'
  <2>1. ASSUME NEW q \in Async!Ranks PROVE Ok(q)'
    <3>1. CASE q = r
      <4>1. /\ posted'[r] = posted[r] + (NSpots(r) - 1 - Spot(r)) /\ job'[r] = job[r]
            /\ thread_pc[r] = "write" /\ thread_pc'[r] = "notify"
        BY <1>10 DEF Async!Notify, Async!Post, Async!NotifyBarriers, Spot, NSpots, AsyncType
      <4>2. posted[r] = (job[r] - 1) * Turns(r) + Spot(r)
        BY <1>1, <4>1
      <4>3. job[r] \in Nat /\ job[r] > 0 /\ NSpots(r) \in Nat
        BY <4>1, FileTurns DEF AsyncType, Async!WriteAssumption
      <4>4. /\ job[r] * Turns(r) = (job[r] - 1) * Turns(r) + Turns(r)
            /\ (job[r] - 1) * Turns(r) \in Int
        BY <1>4, <4>3
      <4> DEFINE a == (job[r] - 1) * Turns(r)
                 b == job[r] * Turns(r)
      <4>5. posted[r] = a + Spot(r) /\ b = a + (NSpots(r) - 1) /\ a \in Int
        BY <4>2, <4>4 DEF Turns
      <4> HIDE DEF a, b
      <4>6. posted'[r] = b
        BY <1>4, <4>1, <4>3, <4>5
      <4> QED
        BY <1>3, <3>1, <4>1, <4>6 DEF b
    <3>2. CASE q # r
      <4>1. posted'[q] = posted[q] /\ job'[q] = job[q] /\ thread_pc'[q] = thread_pc[q]
        BY <1>10, <3>2 DEF Async!Notify, Async!Post, AsyncType
      <4> QED
        BY <1>5, <4>1
    <3> QED
      BY <3>1, <3>2
  <2> QED
    BY <1>2, <2>1
<1>11. ASSUME NEW r \in Async!Ranks, Async!EndJob(r) PROVE PostedOK'
  <2>1. ASSUME NEW q \in Async!Ranks PROVE Ok(q)'
    BY <1>5, <1>11 DEF Async!EndJob, AsyncType
  <2> QED
    BY <1>2, <2>1
<1>12. CASE UNCHANGED Async!vars
  BY <1>2, <1>5, <1>12 DEF Async!vars, Async!thread
<1> QED
  BY <1>6, <1>7, <1>8, <1>9, <1>10, <1>11, <1>12 DEF Async!Next, Async!Thread

\* Nobody gets past its writes, or into them.
SamePlaces ==
  \A r \in Async!Ranks, w \in Async!Writes :
    /\ PastWrite(r, w)' <=> PastWrite(r, w)
    /\ AtFile(r, w)' <=> AtFile(r, w)

LEMMA PlacesKept ==
  ASSUME Async!WriteAssumption, AsyncType,
         \/ \E r \in Async!Ranks : \/ Async!Call(r) \/ Async!BeginJob(r)
                                   \/ Async!WriteFab(r) \/ Async!EndJob(r)
         \/ UNCHANGED Async!vars
  PROVE  SamePlaces
<1> USE DEF PastWrite, AtFile, SamePlaces
<1>1. ASSUME NEW r \in Async!Ranks, Async!Call(r) PROVE SamePlaces
  BY <1>1 DEF Async!Call, Async!thread
<1>2. ASSUME NEW r \in Async!Ranks, Async!BeginJob(r) PROVE SamePlaces
  <2> SUFFICES ASSUME NEW q \in Async!Ranks, NEW w \in Async!Writes
               PROVE  /\ PastWrite(q, w)' <=> PastWrite(q, w)
                      /\ AtFile(q, w)' <=> AtFile(q, w)
    OBVIOUS
  <2>0. job[r] \in Int /\ w \in Int
    BY DEF AsyncType, Async!Writes, Async!WriteAssumption
  <2>1. CASE q = r
    <3>1. /\ job'[r] = job[r] + 1 /\ thread_pc[r] = "idle" /\ thread_pc'[r] = "wait"
      BY <1>2 DEF Async!BeginJob, AsyncType
    <3> QED
      BY <2>0, <2>1, <3>1
  <2>2. CASE q # r
    BY <1>2, <2>2 DEF Async!BeginJob, AsyncType
  <2> QED
    BY <2>1, <2>2
<1>3. ASSUME NEW r \in Async!Ranks, Async!WriteFab(r) PROVE SamePlaces
  BY <1>3 DEF Async!WriteFab
<1>4. ASSUME NEW r \in Async!Ranks, Async!EndJob(r) PROVE SamePlaces
  BY <1>4 DEF Async!EndJob, AsyncType
<1>5. CASE UNCHANGED Async!vars
  BY <1>5 DEF Async!vars, Async!thread
<1> QED
  BY <1>1, <1>2, <1>3, <1>4, <1>5

LEMMA TurnsTakenStep ==
  ASSUME Async!WriteAssumption, AsyncType, PostedOK, TurnsTaken, [Async!Next]_(Async!vars)
  PROVE  TurnsTaken'
<1>1. CASE SamePlaces
  BY <1>1 DEF SamePlaces, TurnsTaken, AfterEarlier, IFile
<1>2. ASSUME NEW r \in Async!Ranks, Async!Open(r) PROVE TurnsTaken'
  <2>1. AfterEarlier(r, job[r])
    BY <1>2, WaitedForEarlier DEF Async!Open
  <2>2. \A q \in Async!Ranks, w \in Async!Writes : PastWrite(q, w)' <=> PastWrite(q, w)
    BY <1>2 DEF Async!Open, PastWrite, AsyncType
  <2>3. \A q \in Async!Ranks, w \in Async!Writes :
          AtFile(q, w)' => AtFile(q, w) \/ (q = r /\ w = job[r])
    BY <1>2 DEF Async!Open, AtFile, AsyncType
  <2> QED
    BY <2>1, <2>2, <2>3 DEF TurnsTaken, AfterEarlier, IFile
<1>3. ASSUME NEW r \in Async!Ranks, Async!Notify(r) PROVE TurnsTaken'
  <2>1. \A q \in Async!Ranks, w \in Async!Writes : PastWrite(q, w) => PastWrite(q, w)'
    BY <1>3 DEF Async!Notify, PastWrite, AsyncType
  <2>2. \A q \in Async!Ranks, w \in Async!Writes :
          PastWrite(q, w)' \/ AtFile(q, w)' => PastWrite(q, w) \/ AtFile(q, w)
    BY <1>3 DEF Async!Notify, PastWrite, AtFile, AsyncType
  <2> QED
    BY <2>1, <2>2 DEF TurnsTaken, AfterEarlier, IFile
<1> QED
  BY <1>1, <1>2, <1>3, PlacesKept DEF Async!Next, Async!Thread

LEMMA ToSetAppend ==
  ASSUME NEW S, NEW s \in Seq(S), NEW x
  PROVE  ToSet(Append(s, x)) = ToSet(s) \cup {x}
<1>1. /\ DOMAIN s = 1..Len(s) /\ Len(s) \in Nat
      /\ DOMAIN Append(s, x) = 1..(Len(s) + 1)
      /\ \A i \in 1..Len(s) : Append(s, x)[i] = s[i]
      /\ Append(s, x)[Len(s) + 1] = x
  OBVIOUS
<1>2. 1..(Len(s) + 1) = (1..Len(s)) \cup {Len(s) + 1}
  BY <1>1
<1> DEFINE t == Append(s, x)
<1> HIDE DEF t
<1>3. ToSet(t) = {t[i] : i \in (1..Len(s)) \cup {Len(s) + 1}}
  BY <1>1, <1>2 DEF ToSet, t
<1>4. ToSet(t) = {t[i] : i \in 1..Len(s)} \cup {t[Len(s) + 1]}
  BY <1>3
<1>5. {t[i] : i \in 1..Len(s)} = {s[i] : i \in 1..Len(s)}
  BY <1>1 DEF t
<1> QED
  BY <1>1, <1>4, <1>5 DEF ToSet, t

\* The rank that writes is the only one in its file, and no later rank has been there.
LEMMA NobodyLater ==
  ASSUME Async!WriteAssumption, AsyncType, TurnsTaken,
         NEW r \in Async!Ranks, NEW w \in Async!Writes, ~PastWrite(r, w),
         NEW q \in Async!Ranks, IFile(q) = IFile(r), q > r
  PROVE  ~PastWrite(q, w) /\ ~AtFile(q, w)
BY DEF TurnsTaken, AfterEarlier, Async!Ranks, Async!WriteAssumption

LEMMA FilesHoldStep ==
  ASSUME Async!WriteAssumption, AsyncType, TurnsTaken, FilesHold, [Async!Next]_(Async!vars)
  PROVE  FilesHold'
<1> DEFINE Held(n, w) == {x \in Async!Fabs(w) : IFile(x[1]) = n /\ InFile(x, w)}
<1>0. layout' = layout /\ \A w : Async!Fabs(w)' = Async!Fabs(w)
  <2>1. layout' = layout
    BY DEF Async!Next, Async!Thread, Async!Call, Async!BeginJob, Async!Open, Async!WriteFab,
       Async!Notify, Async!EndJob, Async!main, Async!vars
  <2> QED
    BY <2>1 DEF Async!Fabs
\* A step that changes no file and nobody's progress.
<1>1. ASSUME async_files' = async_files, SamePlaces,
             \A r \in Async!Ranks : thread_pc[r] = "write" => nwritten'[r] = nwritten[r]
      PROVE  FilesHold'
  <2> SUFFICES ASSUME NEW w \in Async!Writes, NEW n \in Async!Files
               PROVE  ToSet(async_files[w][n]) = Held(n, w)'
    BY <1>1 DEF FilesHold
  <2>1. ASSUME NEW x \in Async!Fabs(w) PROVE InFile(x, w)' <=> InFile(x, w)
    <3>1. x[1] \in Async!Ranks
      BY FabsAre
    <3>2. /\ PastWrite(x[1], w)' <=> PastWrite(x[1], w)
          /\ AtFile(x[1], w)' <=> AtFile(x[1], w)
      BY <1>1, <3>1 DEF SamePlaces
    <3>3. AtFile(x[1], w) => nwritten'[x[1]] = nwritten[x[1]]
      BY <1>1, <3>1 DEF AtFile
    <3> QED
      BY <3>2, <3>3 DEF InFile
  <2>2. Held(n, w)' = Held(n, w)
    BY <1>0, <2>1 DEF IFile
  <2> QED
    BY <2>2 DEF FilesHold
<1>2. ASSUME NEW r \in Async!Ranks, Async!Call(r) PROVE FilesHold'
  BY <1>1, <1>2, PlacesKept DEF Async!Call, Async!thread
<1>3. ASSUME NEW r \in Async!Ranks, Async!BeginJob(r) PROVE FilesHold'
  BY <1>1, <1>3, PlacesKept DEF Async!BeginJob
<1>4. ASSUME NEW r \in Async!Ranks, Async!EndJob(r) PROVE FilesHold'
  BY <1>1, <1>4, PlacesKept DEF Async!EndJob
<1>5. CASE UNCHANGED Async!vars
  BY <1>1, <1>5, PlacesKept DEF Async!vars, Async!thread
<1>6. ASSUME NEW r \in Async!Ranks, Async!Open(r) PROVE FilesHold'
  <2>0. thread_pc[r] = "wait" /\ thread_pc' = [thread_pc EXCEPT ![r] = "write"] /\ job' = job
        /\ nwritten' = [nwritten EXCEPT ![r] = 0]
    BY <1>6 DEF Async!Open
  <2>1. job[r] \in Async!Writes
    BY <2>0, BusyWithWrite
  <2>2. ASSUME NEW w \in Async!Writes, NEW x \in Async!Fabs(w)
        PROVE  InFile(x, w)' <=> InFile(x, w)
    <3>1. x[1] \in Async!Ranks /\ x[2] \in Nat /\ ~(x[2] <= 0)
      BY FabsAre
    <3>2. CASE x[1] = r
      <4>1. ~InFile(x, w) <=> ~(job[r] > w)
        BY <2>0, <3>2 DEF InFile, PastWrite, AtFile
      <4>2. nwritten'[r] = 0 /\ thread_pc'[r] = "write"
        BY <2>0 DEF AsyncType
      <4>3. ~InFile(x, w)' <=> ~(job[r] > w)
        BY <2>0, <3>1, <3>2, <4>2 DEF InFile, PastWrite, AtFile
      <4> QED
        BY <4>1, <4>3
    <3>3. CASE x[1] # r
      <4>1. thread_pc'[x[1]] = thread_pc[x[1]] /\ nwritten'[x[1]] = nwritten[x[1]]
        BY <2>0, <3>1, <3>3 DEF AsyncType
      <4> QED
        BY <2>0, <4>1 DEF InFile, PastWrite, AtFile
    <3> QED
      BY <3>2, <3>3
  <2>3. ASSUME NEW w \in Async!Writes, NEW n \in Async!Files PROVE Held(n, w)' = Held(n, w)
    BY <1>0, <2>2, <2>3 DEF IFile
  <2>4. CASE async_files' = async_files
    BY <2>3, <2>4 DEF FilesHold
  <2>5. CASE /\ Spot(r) = 0
             /\ async_files' = [async_files EXCEPT ![job[r]][IFile(r)] = <<>>]
    <3>1. ~PastWrite(r, job[r]) /\ ~AtFile(r, job[r])
      BY <2>0, <2>1 DEF PastWrite, AtFile, Async!Writes, Async!WriteAssumption
    <3>2. Held(IFile(r), job[r]) = {}
      <4> SUFFICES ASSUME NEW x \in Async!Fabs(job[r]), IFile(x[1]) = IFile(r), InFile(x, job[r])
                   PROVE  FALSE
        OBVIOUS
      <4>1. x[1] \in Async!Ranks /\ x[1] \in Int /\ r \in Int
        BY <2>1, FabsAre DEF Async!Ranks, Async!WriteAssumption
      <4>2. Spot(x[1]) - Spot(r) = x[1] - r /\ Spot(x[1]) \in Nat
        BY <4>1, FileTurns
      <4>3. x[1] >= r
        BY <2>5, <4>1, <4>2
      <4>4. PastWrite(x[1], job[r]) \/ AtFile(x[1], job[r])
        BY DEF InFile
      <4>5. x[1] # r
        BY <3>1, <4>4
      <4> QED
        BY <2>1, <3>1, <4>1, <4>3, <4>4, <4>5, NobodyLater
    <3>3. ASSUME NEW w \in Async!Writes, NEW n \in Async!Files
          PROVE  ToSet(async_files'[w][n]) = Held(n, w)
      <4>1. CASE w = job[r] /\ n = IFile(r)
        <5>1. async_files'[w][n] = <<>>
          BY <2>5, <4>1 DEF AsyncType
        <5>2. ToSet(<<>>) = {}
          BY DEF ToSet
        <5> QED
          BY <3>2, <4>1, <5>1, <5>2
      <4>2. CASE ~(w = job[r] /\ n = IFile(r))
        <5>1. async_files'[w][n] = async_files[w][n]
          BY <2>5, <4>2 DEF AsyncType
        <5> QED
          BY <5>1 DEF FilesHold
      <4> QED
        BY <4>1, <4>2
    <3> QED
      BY <2>3, <3>3 DEF FilesHold
  <2> QED
    BY <1>6, <2>4, <2>5 DEF Async!Open, IFile, Spot
<1>7. ASSUME NEW r \in Async!Ranks, Async!WriteFab(r) PROVE FilesHold'
  <2> DEFINE w0 == job[r]
             k  == nwritten[r] + 1
  <2>0. /\ thread_pc[r] = "write" /\ thread_pc' = thread_pc /\ job' = job
        /\ nwritten' = [nwritten EXCEPT ![r] = k] /\ nwritten'[r] = k
        /\ async_files' = [async_files EXCEPT ![w0][IFile(r)] = Append(@, <<r, k>>)]
    BY <1>7 DEF Async!WriteFab, AsyncType, IFile
  <2>1. w0 \in Async!Writes /\ IFile(r) \in Async!Files
    BY <2>0, BusyWithWrite, FileTurns
  <2>2. k \in 1..Len(layout[w0][r]) /\ nwritten[r] \in Nat
    <3>1. Len(layout[w0][r]) \in Nat
      BY <2>1, FabsAre
    <3>2. nwritten[r] < Len(layout[w0][r]) /\ nwritten[r] \in Nat
      BY <1>7 DEF Async!WriteFab, Async!HasMore, AsyncType
    <3> QED
      BY <3>1, <3>2
  <2>3. <<r, k>> \in Async!Fabs(w0)
    BY <2>1, <2>2, FabsAre
  <2>4. ASSUME NEW w \in Async!Writes, NEW x \in Async!Fabs(w)
        PROVE  InFile(x, w)' <=> InFile(x, w) \/ (w = w0 /\ x = <<r, k>>)
    <3>1. x[1] \in Async!Ranks /\ x[2] \in Nat /\ x = <<x[1], x[2]>>
      BY FabsAre
    <3>2. CASE x[1] = r
      <4>1. PastWrite(r, w)' <=> PastWrite(r, w)
        BY <2>0 DEF PastWrite
      <4>2. AtFile(r, w)' <=> AtFile(r, w)
        BY <2>0 DEF AtFile
      <4>3. AtFile(r, w) <=> w = w0
        BY <2>0 DEF AtFile
      <4>4. x[2] <= nwritten'[r] <=> x[2] <= nwritten[r] \/ x[2] = k
        BY <2>0, <2>2, <3>1
      <4>5. x[2] = k <=> x = <<r, k>>
        BY <3>1, <3>2
      <4>6. w = w0 => ~PastWrite(r, w)
        BY <2>0, <2>1 DEF PastWrite, Async!Writes, Async!WriteAssumption
      <4> QED
        BY <3>2, <4>1, <4>2, <4>3, <4>4, <4>5, <4>6 DEF InFile
    <3>3. CASE x[1] # r
      <4>1. nwritten'[x[1]] = nwritten[x[1]]
        BY <2>0, <3>1, <3>3 DEF AsyncType
      <4> QED
        BY <2>0, <3>3, <4>1 DEF InFile, PastWrite, AtFile
    <3> QED
      BY <3>2, <3>3
  <2> HIDE DEF k, w0
  <2>5. ASSUME NEW w \in Async!Writes, NEW n \in Async!Files
        PROVE  ToSet(async_files'[w][n]) = Held(n, w)'
    <3>1. CASE w = w0 /\ n = IFile(r)
      <4>1. async_files'[w][n] = Append(async_files[w][n], <<r, k>>)
        BY <2>0, <3>1 DEF AsyncType
      <4>2. ToSet(async_files'[w][n]) = Held(n, w) \cup {<<r, k>>}
        <5>1. async_files[w][n] \in Seq(Async!Ranks \X Nat)
          BY DEF AsyncType
        <5> QED
          BY <4>1, <5>1, ToSetAppend DEF FilesHold
      <4>3. ASSUME NEW x PROVE x \in Held(n, w)' <=> x \in Held(n, w) \cup {<<r, k>>}
        <5>1. x \in Held(n, w)' <=> x \in Async!Fabs(w) /\ IFile(x[1]) = n /\ InFile(x, w)'
          BY <1>0 DEF IFile
        <5>2. x \in Held(n, w)' <=>
                x \in Async!Fabs(w) /\ IFile(x[1]) = n /\ (InFile(x, w) \/ x = <<r, k>>)
          BY <2>4, <3>1, <5>1
        <5>3. x = <<r, k>> => x \in Async!Fabs(w) /\ IFile(x[1]) = n
          BY <2>3, <3>1
        <5> QED
          BY <5>2, <5>3
      <4> QED
        BY <4>2, <4>3
    <3>2. CASE ~(w = w0 /\ n = IFile(r))
      <4>1. async_files'[w][n] = async_files[w][n]
        BY <2>0, <3>2 DEF AsyncType
      <4>2. ASSUME NEW x \in Async!Fabs(w), IFile(x[1]) = n PROVE InFile(x, w)' <=> InFile(x, w)
        <5>1. ~(w = w0 /\ x = <<r, k>>)
          BY <3>2, <4>2
        <5> QED
          BY <2>4, <5>1
      <4>3. Held(n, w)' = Held(n, w)
        BY <1>0, <4>2 DEF IFile
      <4> QED
        BY <4>1, <4>3 DEF FilesHold
    <3> QED
      BY <3>1, <3>2
  <2> QED
    BY <2>5 DEF FilesHold
<1>8. ASSUME NEW r \in Async!Ranks, Async!Notify(r) PROVE FilesHold'
  <2>0. /\ thread_pc[r] = "write" /\ thread_pc' = [thread_pc EXCEPT ![r] = "notify"]
        /\ job' = job /\ nwritten' = nwritten /\ async_files' = async_files
        /\ ~(nwritten[r] < Len(layout[job[r]][r]))
    BY <1>8 DEF Async!Notify, Async!HasMore
  <2>1. ASSUME NEW w \in Async!Writes, NEW x \in Async!Fabs(w)
        PROVE  InFile(x, w)' <=> InFile(x, w)
    <3>1. x[1] \in Async!Ranks /\ x[2] \in 1..Len(layout[w][x[1]]) /\ x[2] \in Nat
          /\ Len(layout[w][x[1]]) \in Nat
      BY FabsAre
    <3>2. CASE x[1] = r
      <4>1. thread_pc'[r] = "notify"
        BY <2>0 DEF AsyncType
      <4>2. job[r] = w => x[2] <= nwritten[r]
        BY <2>0, <3>1, <3>2 DEF AsyncType
      <4> QED
        BY <2>0, <3>2, <4>1, <4>2 DEF InFile, PastWrite, AtFile
    <3>3. CASE x[1] # r
      <4>1. thread_pc'[x[1]] = thread_pc[x[1]]
        BY <2>0, <3>1, <3>3 DEF AsyncType
      <4> QED
        BY <2>0, <4>1 DEF InFile, PastWrite, AtFile
    <3> QED
      BY <3>2, <3>3
  <2>2. ASSUME NEW w \in Async!Writes, NEW n \in Async!Files PROVE Held(n, w)' = Held(n, w)
    BY <1>0, <2>1, <2>2 DEF IFile
  <2> QED
    BY <2>0, <2>2 DEF FilesHold
<1> QED
  BY <1>2, <1>3, <1>4, <1>5, <1>6, <1>7, <1>8 DEF Async!Next, Async!Thread

LEMMA AsyncInit == Async!WriteAssumption /\ Async!Init => AsyncInv
<1> SUFFICES ASSUME Async!WriteAssumption, Async!Init PROVE AsyncInv
  OBVIOUS
<1> USE DEF Async!Init
<1>0. NWrites \in Nat /\ <<>> \in Seq(Async!Ranks \X Nat)
  BY DEF Async!WriteAssumption
<1>1. AsyncType
  BY <1>0 DEF AsyncType
<1>2. PostedOK
  <2>1. \A r \in Async!Ranks : Turns(r) \in Nat
    BY FileTurns DEF Turns
  <2>2. \A r \in Async!Ranks : 0 * Turns(r) = 0
    BY <2>1
  <2> QED
    BY <2>2 DEF PostedOK
<1>3. \A r \in Async!Ranks, w \in Async!Writes : ~PastWrite(r, w) /\ ~AtFile(r, w)
  BY <1>0 DEF PastWrite, AtFile, Async!Writes
<1>4. TurnsTaken
  BY <1>3 DEF TurnsTaken
<1>5. FilesHold
  <2> SUFFICES ASSUME NEW w \in Async!Writes, NEW n \in Async!Files
               PROVE  ToSet(async_files[w][n]) =
                        {x \in Async!Fabs(w) : IFile(x[1]) = n /\ InFile(x, w)}
    BY DEF FilesHold
  <2>1. ToSet(async_files[w][n]) = {}
    BY DEF ToSet
  <2>2. \A x \in Async!Fabs(w) : ~InFile(x, w)
    BY <1>1, <1>3, FabsAre DEF InFile
  <2> QED
    BY <2>1, <2>2
<1> QED
  BY <1>1, <1>2, <1>4, <1>5 DEF AsyncInv

\* A step of the output is one of the asynchronous write, or leaves its state alone.
LEMMA VisStep ==
  ASSUME [VisNext]_<<s_asyncout, vars, async_vars>>
  PROVE  [Async!Next]_(Async!vars)
BY DEF VisNext, Runs, async_vars, Async!vars, Async!main, Async!thread

LEMMA AlwaysAsyncInv == VisSpec => []AsyncInv
<1>1. VisInit => AsyncInv
  BY AsyncAssumption, AsyncInit DEF VisInit
<1>2. AsyncInv /\ [Async!Next]_(Async!vars) => AsyncInv'
  BY AsyncAssumption, AsyncTypeStep, PostedStep, TurnsTakenStep, FilesHoldStep DEF AsyncInv
<1>3. AsyncInv /\ [VisNext]_<<s_asyncout, vars, async_vars>> => AsyncInv'
  BY <1>2, VisStep
<1> QED
  BY <1>1, <1>3, PTL DEF VisSpec

\* AsyncOut::Wait and Notify: one rank at a time appends to a file, and finds there the FABs of
\* the ranks that come before it in the file and its own, whatever the threads' speeds.
THEOREM WritesInTurn == VisSpec => []InTurn
<1>0. \A s : Async!ToSet(s) = ToSet(s)
  BY DEF ToSet, Async!ToSet
<1> USE AsyncAssumption
<1>1. AsyncInv => InTurn
  <2> SUFFICES ASSUME AsyncInv, NEW r \in Async!Ranks, thread_pc[r] = "write"
               PROVE  ToSet(async_files[job[r]][Async!s_info[r].ifile]) =
                        {x \in Async!Fabs(job[r]) : x[1] \in Async!s_comm[r] /\ x[1] < r}
                          \cup {<<r, j>> : j \in 1..nwritten[r]}
    BY <1>0, Zenon DEF InTurn, Async!InTurn
  <2> DEFINE w == job[r]
  <2>0. AsyncType /\ TurnsTaken /\ FilesHold
    BY DEF AsyncInv
  <2>1. w \in Async!Writes /\ IFile(r) \in Async!Files
    BY <2>0, BusyWithWrite, FileTurns
  <2>2. AtFile(r, w) /\ ~PastWrite(r, w)
    BY <2>0, <2>1 DEF AtFile, PastWrite, Async!Writes, Async!WriteAssumption
  <2>3. nwritten[r] \in Nat /\ nwritten[r] <= Len(layout[w][r]) /\ Len(layout[w][r]) \in Nat
    BY <2>0, <2>1, FabsAre DEF AsyncType
  <2> HIDE DEF w
  <2>4. ASSUME NEW x
        PROVE  x \in Async!Fabs(w) /\ IFile(x[1]) = IFile(r) /\ InFile(x, w) <=>
                 \/ x \in Async!Fabs(w) /\ x[1] \in Async!s_comm[r] /\ x[1] < r
                 \/ \E j \in 1..nwritten[r] : x = <<r, j>>
    <3>1. CASE x \in Async!Fabs(w) /\ x[1] # r
      <4>1. x[1] \in Async!Ranks /\ x[1] \in Int /\ r \in Int
        BY <2>0, <2>1, <3>1, FabsAre DEF Async!Ranks, Async!WriteAssumption
      <4>2. x[1] \in Async!s_comm[r] <=> IFile(x[1]) = IFile(r)
        BY <4>1 DEF Async!s_comm, IFile
      <4>3. IFile(x[1]) = IFile(r) /\ x[1] < r => InFile(x, w)
        BY <2>0, <2>1, <2>2, <4>1 DEF TurnsTaken, AfterEarlier, InFile
      <4>4. IFile(x[1]) = IFile(r) /\ InFile(x, w) => x[1] < r
        BY <2>0, <2>1, <2>2, <3>1, <4>1, NobodyLater DEF InFile
      <4> QED
        BY <3>1, <4>2, <4>3, <4>4
    <3>2. CASE x \in Async!Fabs(w) /\ x[1] = r
      <4>1. x[2] \in 1..Len(layout[w][r]) /\ x = <<r, x[2]>> /\ r \in Int
        BY <2>0, <2>1, <3>2, FabsAre DEF Async!Ranks, Async!WriteAssumption
      <4>2. InFile(x, w) <=> x[2] <= nwritten[r]
        BY <2>2, <3>2 DEF InFile
      <4>3. (\E j \in 1..nwritten[r] : x = <<r, j>>) <=> x[2] <= nwritten[r]
        BY <2>3, <4>1
      <4> QED
        BY <3>2, <4>1, <4>2, <4>3
    <3>3. CASE x \notin Async!Fabs(w)
      <4>1. ~ \E j \in 1..nwritten[r] : x = <<r, j>>
        <5> SUFFICES ASSUME NEW j \in 1..nwritten[r], x = <<r, j>> PROVE FALSE
          OBVIOUS
        <5>1. j \in 1..Len(layout[w][r])
          BY <2>3
        <5> QED
          BY <2>0, <2>1, <3>3, <5>1, FabsAre
      <4> QED
        BY <3>3, <4>1
    <3> QED
      BY <3>1, <3>2, <3>3
  <2>5. ToSet(async_files[w][IFile(r)]) =
          {x \in Async!Fabs(w) : IFile(x[1]) = IFile(r) /\ InFile(x, w)}
    BY <2>0, <2>1 DEF FilesHold
  <2>6. ToSet(async_files[w][IFile(r)]) =
          {x \in Async!Fabs(w) : x[1] \in Async!s_comm[r] /\ x[1] < r}
            \cup {<<r, j>> : j \in 1..nwritten[r]}
    BY <2>4, <2>5
  <2> QED
    BY <2>6 DEF w, IFile
<1> QED
  BY <1>1, AlwaysAsyncInv, PTL

----------------------------------------------------------------------------
(* AsyncWrite.  What io_proc reads in the numbers it has gathered.         *)

\* s is the sequences of ss one after another: at[i] of its entries are in the first i.
Joined(s, ss, at) ==
  /\ at \in [0..Len(ss) -> Nat]
  /\ at[0] = 0 /\ \A i \in 1..Len(ss) : at[i] = at[i-1] + Len(ss[i])
  /\ Len(s) = at[Len(ss)]
  /\ \A i \in 1..Len(ss) : \A j \in 1..Len(ss[i]) :
       at[i-1] + j \in 1..at[Len(ss)] /\ s[at[i-1] + j] = ss[i][j]

LEMMA FlattenIs ==
  ASSUME NEW S, NEW ss \in Seq(Seq(S))
  PROVE  /\ Async!FlattenSeq(ss) \in Seq(S)
         /\ \E at : Joined(Async!FlattenSeq(ss), ss, at)
<1> DEFINE n == Len(ss)
<1>1. n \in Nat /\ (\A i \in 1..n : ss[i] \in Seq(S)) /\ <<>> \in Seq(S)
  OBVIOUS
<1>2. PICK g \in [0..n -> Seq(S)] :
        /\ g[0] = <<>> /\ \A k \in 1..n : g[k] = g[k-1] \o ss[k]
        /\ FlattenSeq(ss) = g[n]
  BY FlattenUnfolds
<1>3. Async!FlattenSeq(ss) = g[n]
  BY <1>2 DEF Async!FlattenSeq, FlattenSeq
<1> HIDE DEF n
<1>4. \A k \in 0..n : g[k] \in Seq(S)
  BY <1>2
<1>5. ASSUME NEW k \in 1..n
       PROVE  /\ Len(g[k]) = Len(g[k-1]) + Len(ss[k]) /\ Len(g[k-1]) \in Nat /\ Len(ss[k]) \in Nat
              /\ \A j \in 1..Len(g[k-1]) : g[k][j] = g[k-1][j]
              /\ \A j \in 1..Len(ss[k]) : g[k][Len(g[k-1]) + j] = ss[k][j]
  <2>1. g[k-1] \in Seq(S) /\ ss[k] \in Seq(S) /\ g[k] = g[k-1] \o ss[k]
    <3>1. k - 1 \in 0..n
      BY <1>1
    <3> QED
      BY <1>1, <1>2, <1>4, <3>1
  <2> DEFINE a == g[k-1]
             b == ss[k]
  <2>2. a \in Seq(S) /\ b \in Seq(S) /\ g[k] = a \o b
    BY <2>1
  <2> HIDE DEF a, b
  <2>3. /\ Len(g[k]) = Len(a) + Len(b) /\ Len(a) \in Nat /\ Len(b) \in Nat
        /\ \A j \in 1..Len(a) : g[k][j] = a[j]
        /\ \A j \in 1..Len(b) : g[k][Len(a) + j] = b[j]
    BY <2>2
  <2> QED
    BY <2>3 DEF a, b
\* The entries stay where they are.
<1>6. ASSUME NEW k \in 0..n, NEW i \in 1..k, NEW j \in 1..Len(ss[i])
       PROVE  Len(g[i-1]) + j \in 1..Len(g[k]) /\ g[k][Len(g[i-1]) + j] = ss[i][j]
  <2> DEFINE p == Len(g[i-1]) + j
             T == {m \in 0..n : m >= i => p \in 1..Len(g[m]) /\ g[m][p] = ss[i][j]}
  <2>1. 0 \in T
    BY <1>1
  <2>2. ASSUME NEW m \in 1..n, m - 1 \in T PROVE m \in T
    <3>0. /\ Len(g[m]) = Len(g[m-1]) + Len(ss[m]) /\ Len(g[m-1]) \in Nat /\ Len(ss[m]) \in Nat
          /\ \A q \in 1..Len(g[m-1]) : g[m][q] = g[m-1][q]
          /\ \A q \in 1..Len(ss[m]) : g[m][Len(g[m-1]) + q] = ss[m][q]
      BY <1>5
    <3>1. CASE m > i
      <4>1. p \in 1..Len(g[m-1]) /\ g[m-1][p] = ss[i][j]
        BY <2>2, <3>1
      <4>2. g[m][p] = ss[i][j]
        BY <3>0, <4>1, Zenon
      <4> HIDE DEF p
      <4>3. p \in 1..Len(g[m])
        <5> DEFINE c == Len(g[m-1])
                   d == Len(ss[m])
        <5>1. p \in 1..c /\ Len(g[m]) = c + d /\ c \in Nat /\ d \in Nat
          BY <3>0, <4>1
        <5> HIDE DEF c, d
        <5> QED
          BY <5>1
      <4>4. m \in 0..n
        BY <1>1
      <4> QED
        BY <4>2, <4>3, <4>4
    <3>2. CASE m = i
      <4>1. g[m][p] = ss[i][j]
        BY <3>0, <3>2, Zenon
      <4>2. p \in 1..Len(g[m])
        <5> DEFINE c == Len(g[m-1])
                   d == Len(ss[m])
        <5>1. p = c + j /\ j \in 1..d /\ Len(g[m]) = c + d /\ c \in Nat /\ d \in Nat
          BY <3>0, <3>2
        <5> HIDE DEF c, d, p
        <5> QED
          BY <5>1
      <4> HIDE DEF p
      <4>3. m \in 0..n
        BY <1>1
      <4> QED
        BY <4>1, <4>2, <4>3
    <3>3. CASE m < i
      BY <1>1, <3>3
    <3> QED
      BY <3>1, <3>2, <3>3
  <2> HIDE DEF T
  <2>3. 0..n \subseteq T
    BY <1>1, <2>1, <2>2, UpTo
  <2>4. k \in T /\ k >= i
    BY <2>3
  <2> QED
    BY <2>4 DEF T
<1> DEFINE at == [k \in 0..n |-> Len(g[k])]
<1>7. at \in [0..n -> Nat] /\ at[n] = Len(g[n])
  BY <1>1, <1>4
<1>8. at[0] = 0
  BY <1>1, <1>2
<1>9. ASSUME NEW i \in 1..n
       PROVE  /\ at[i] = at[i-1] + Len(ss[i])
              /\ \A j \in 1..Len(ss[i]) : at[i-1] + j \in 1..at[n] /\ g[n][at[i-1] + j] = ss[i][j]
  <2>1. i \in 0..n /\ i - 1 \in 0..n /\ n \in 0..n
    BY <1>1
  <2>2. at[i] = Len(g[i]) /\ at[i-1] = Len(g[i-1])
    BY <2>1
  <2> HIDE DEF at
  <2>3. \A j \in 1..Len(ss[i]) : at[i-1] + j \in 1..at[n] /\ g[n][at[i-1] + j] = ss[i][j]
    BY <1>6, <1>7, <2>1, <2>2
  <2> QED
    BY <1>5, <2>2, <2>3
<1> HIDE DEF at
<1>10. g[n] \in Seq(S)
  BY <1>1, <1>4
<1>11. Joined(g[n], ss, at)
  BY <1>7, <1>8, <1>9 DEF n, Joined
<1> QED
  BY <1>3, <1>10, <1>11

\* localdata: the total, then the bytes before each FAB at every other place.
LEMMA LocalDataIs ==
  ASSUME Async!WriteAssumption, AsyncType, NEW w \in Async!Writes, NEW r \in Async!Ranks
  PROVE  LET s == layout[w][r]
         IN /\ Async!localdata(w, r) \in Seq(Nat)
            /\ Len(Async!localdata(w, r)) = 1 + 2 * Len(s)
            /\ Async!localdata(w, r)[1] = Async!Bytes(s, Len(s))
            /\ \A j \in 1..Len(s) : Async!localdata(w, r)[2 * j] = Async!Bytes(s, j - 1)
<1> DEFINE s == layout[w][r]
           L == Len(s)
           ss == [j \in 1..L |-> <<Async!Bytes(s, j - 1), MinMax>>]
           F == Async!FlattenSeq(ss)
           b == Async!Bytes(s, L)
<1>1. s \in Seq(Nat) /\ L \in Nat /\ MinMax \in Nat
  BY FabsAre DEF Async!WriteAssumption
<1>2. Async!localdata(w, r) = <<b>> \o F
  BY DEF Async!localdata
<1> HIDE DEF s
<1>3. \A k \in 0..L : Async!Bytes(s, k) \in Nat
  BY <1>1, BytesIs
<1>4. b \in Nat
  BY <1>1, <1>3
<1> HIDE DEF L, b
<1>5. ASSUME NEW j \in 1..L
      PROVE  /\ ss[j] \in Seq(Nat) /\ Len(ss[j]) = 2
             /\ ss[j][1] = Async!Bytes(s, j - 1)
  <2>1. j - 1 \in 0..L
    BY <1>1
  <2>2. Async!Bytes(s, j - 1) \in Nat
    BY <1>3, <2>1
  <2> QED
    BY <1>1, <2>2
<1>6. ss \in Seq(Seq(Nat)) /\ Len(ss) = L
  BY <1>1, <1>5
<1> HIDE DEF ss
<1>7. F \in Seq(Nat) /\ \E at : Joined(F, ss, at)
  BY <1>6, FlattenIs
<1> HIDE DEF F
<1>7a. PICK at : Joined(F, ss, at)
  BY <1>7
<1>8. /\ at \in [0..L -> Nat]
      /\ at[0] = 0 /\ \A i \in 1..L : at[i] = at[i-1] + Len(ss[i])
      /\ Len(F) = at[L]
      /\ \A i \in 1..L : \A j \in 1..Len(ss[i]) :
           at[i-1] + j \in 1..at[L] /\ F[at[i-1] + j] = ss[i][j]
  BY <1>6, <1>7a DEF Joined
<1>9. \A k \in 0..L : at[k] = 2 * k
  <2> DEFINE T == {k \in 0..L : at[k] = 2 * k}
  <2>1. 0 \in T
    BY <1>1, <1>8
  <2>2. ASSUME NEW i \in 1..L, i - 1 \in T PROVE i \in T
    <3>1. at[i] = at[i-1] + 2 /\ at[i-1] = 2 * (i - 1)
      BY <1>5, <1>8, <2>2
    <3> QED
      BY <1>1, <3>1
  <2> HIDE DEF T
  <2>3. 0..L \subseteq T
    BY <1>1, <2>1, <2>2, UpTo
  <2> QED
    BY <2>3 DEF T
<1>10. Len(F) = 2 * L
  BY <1>1, <1>8, <1>9
<1>11. ASSUME NEW j \in 1..L
       PROVE  2 * j - 1 \in 1..Len(F) /\ F[2 * j - 1] = Async!Bytes(s, j - 1)
  <2>1. 1 \in 1..Len(ss[j]) /\ j - 1 \in 0..L
    BY <1>1, <1>5
  <2>2. F[at[j-1] + 1] = ss[j][1]
    BY <1>8, <2>1
  <2>3. at[j-1] + 1 = 2 * j - 1
    BY <1>1, <1>9, <2>1
  <2>4. 2 * j - 1 \in 1..Len(F)
    BY <1>1, <1>10
  <2> QED
    BY <1>5, <2>2, <2>3, <2>4
<1> DEFINE d == <<b>> \o F
<1>12. /\ d \in Seq(Nat) /\ Len(d) = 1 + Len(F) /\ d[1] = b
       /\ \A k \in 1..Len(F) : d[1 + k] = F[k]
  BY <1>4, <1>7
<1> HIDE DEF d
<1>13. ASSUME NEW j \in 1..L PROVE d[2 * j] = Async!Bytes(s, j - 1)
  <2>1. 1 + (2 * j - 1) = 2 * j
    BY <1>1
  <2> QED
    BY <1>11, <1>12, <2>1
<1>14. /\ Async!localdata(w, r) \in Seq(Nat) /\ Len(Async!localdata(w, r)) = 1 + 2 * L
       /\ Async!localdata(w, r)[1] = b
       /\ \A j \in 1..L : Async!localdata(w, r)[2 * j] = Async!Bytes(s, j - 1)
  BY <1>2, <1>10, <1>12, <1>13 DEF d
<1> QED
  BY <1>14 DEF s, L, b

\* The words consumed before a rank, when all the ranks before it have FABs.
Before(w, r)  == {x \in Async!Fabs(w) : x[1] < r}
Earlier(w, r) == {q \in Async!Ranks : q < r /\ layout[w][q] # <<>>}

LEMMA ConsumedCounts ==
  \A w, r : Async!Consumed(w, r) = Cardinality(Earlier(w, r)) + 2 * Cardinality(Before(w, r))
<1>1. \A S : Async!Cardinality(S) = Cardinality(S)
  BY Zenon DEF Async!Cardinality, Cardinality
<1> QED
  BY <1>1 DEF Async!Consumed, Before, Earlier

LEMMA ConsumedNone ==
  ASSUME Async!WriteAssumption, AsyncType, NEW w \in Async!Writes
  PROVE  Before(w, 0) = {} /\ Earlier(w, 0) = {} /\ Async!Consumed(w, 0) = 0
<1>1. \A q \in Async!Ranks : ~(q < 0)
  BY DEF Async!Ranks, Async!WriteAssumption
<1>2. Before(w, 0) = {} /\ Earlier(w, 0) = {}
  BY <1>1, FabsAre DEF Before, Earlier
<1>3. Cardinality({}) = 0
  BY FS_EmptySet
<1>4. Async!Consumed(w, 0) = Cardinality(Earlier(w, 0)) + 2 * Cardinality(Before(w, 0))
  BY ConsumedCounts
<1> QED
  BY <1>2, <1>3, <1>4

LEMMA ConsumedNext ==
  ASSUME Async!WriteAssumption, AsyncType, NEW w \in Async!Writes,
         NEW r \in Async!Ranks, r > 0, layout[w][r-1] # <<>>,
         IsFiniteSet(Before(w, r-1)), IsFiniteSet(Earlier(w, r-1))
  PROVE  /\ IsFiniteSet(Before(w, r)) /\ IsFiniteSet(Earlier(w, r))
         /\ Async!Consumed(w, r) = Async!Consumed(w, r-1) + (1 + 2 * Len(layout[w][r-1]))
<1> DEFINE p == r - 1
           L == Len(layout[w][p])
           New == {p} \X (1..L)
<1>1. /\ r \in Int /\ p \in Async!Ranks
      /\ \A q \in Async!Ranks : q \in Int /\ (q < r <=> q < p \/ q = p)
  BY DEF Async!Ranks, Async!WriteAssumption
<1>2. L \in Nat
  BY <1>1, FabsAre
<1>3. Earlier(w, r) = Earlier(w, p) \cup {p} /\ p \notin Earlier(w, p)
  <2>1. p \in Earlier(w, r) /\ ~(p < p)
    BY <1>1 DEF Earlier
  <2>2. ASSUME NEW q PROVE q \in Earlier(w, r) <=> q \in Earlier(w, p) \/ q = p
    BY <1>1, <2>1 DEF Earlier
  <2>3. p \notin Earlier(w, p)
    BY <2>1 DEF Earlier
  <2> QED
    BY <2>2, <2>3
<1>4. Before(w, r) = Before(w, p) \cup New
  <2>1. ASSUME NEW x PROVE x \in Before(w, r) <=> x \in Before(w, p) \cup New
    <3>1. x \in Before(w, r) => x \in Before(w, p) \cup New
      <4> SUFFICES ASSUME x \in Before(w, r), x \notin Before(w, p) PROVE x \in New
        OBVIOUS
      <4>1. x \in Async!Fabs(w) /\ x[1] < r /\ ~(x[1] < p)
        BY DEF Before
      <4>2. x[1] \in Async!Ranks /\ x[2] \in 1..Len(layout[w][x[1]]) /\ x = <<x[1], x[2]>>
        BY <4>1, FabsAre
      <4>3. x[1] = p
        BY <1>1, <4>1, <4>2
      <4> QED
        BY <4>2, <4>3
    <3>2. x \in New => x \in Before(w, r)
      <4> SUFFICES ASSUME x \in New PROVE x \in Before(w, r)
        OBVIOUS
      <4>1. PICK j \in 1..L : x = <<p, j>>
        OBVIOUS
      <4>2. x \in Async!Fabs(w)
        BY <1>1, <4>1, FabsAre
      <4> QED
        BY <1>1, <4>1, <4>2 DEF Before
    <3>3. x \in Before(w, p) => x \in Before(w, r)
      BY <1>1, FabsAre DEF Before
    <3> QED
      BY <3>1, <3>2, <3>3
  <2> QED
    BY <2>1
<1>5. Before(w, p) \cap New = {}
  BY <1>1 DEF Before
<1>6. IsFiniteSet(New) /\ Cardinality(New) = L
  <2>1. IsFiniteSet({p}) /\ Cardinality({p}) = 1
    BY FS_Singleton
  <2>2. IsFiniteSet(1..L) /\ Cardinality(1..L) = L
    BY <1>2, FS_Interval
  <2>3. IsFiniteSet(New) /\ Cardinality(New) = Cardinality({p}) * Cardinality(1..L)
    BY <2>1, <2>2, FS_Product
  <2> QED
    BY <1>2, <2>1, <2>2, <2>3
<1> HIDE DEF New, L, p
<1>7. IsFiniteSet(Before(w, p)) /\ IsFiniteSet(Earlier(w, p))
  BY DEF p
<1>8. IsFiniteSet(Earlier(w, r)) /\ Cardinality(Earlier(w, r)) = Cardinality(Earlier(w, p)) + 1
  BY <1>3, <1>7, FS_AddElement
<1>9. IsFiniteSet(Before(w, r)) /\ Cardinality(Before(w, r)) = Cardinality(Before(w, p)) + L
  <2>1. /\ IsFiniteSet(Before(w, p) \cup New)
        /\ Cardinality(Before(w, p) \cup New) =
             Cardinality(Before(w, p)) + Cardinality(New) - Cardinality(Before(w, p) \cap New)
    BY <1>6, <1>7, FS_Union
  <2>2. Cardinality(Before(w, p) \cap New) = 0
    BY <1>5, FS_EmptySet
  <2>3. Cardinality(Before(w, p)) \in Nat
    BY <1>7, FS_CardinalityType
  <2> QED
    BY <1>2, <1>4, <1>6, <2>1, <2>2, <2>3
<1>10. \A q : Async!Consumed(w, q) = Cardinality(Earlier(w, q)) + 2 * Cardinality(Before(w, q))
  BY ConsumedCounts
<1>11. Cardinality(Before(w, p)) \in Nat /\ Cardinality(Earlier(w, p)) \in Nat
  BY <1>7, FS_CardinalityType
<1>12. Async!Consumed(w, r) = Async!Consumed(w, p) + (1 + 2 * L)
  BY <1>2, <1>8, <1>9, <1>10, <1>11
<1> QED
  BY <1>8, <1>9, <1>12 DEF p, L

\* When all the ranks before one with FABs have some, the loop reads what that rank has sent.
LEMMA NumbersRead ==
  ASSUME Async!WriteAssumption, AsyncType, NEW w \in Async!Writes, NEW r \in Async!Ranks,
         \A q \in Async!Ranks : q <= r => layout[w][q] # <<>>
  PROVE  LET s == layout[w][r]
         IN /\ Async!nbytes_on_rank(w, r) = Async!Bytes(s, Len(s))
            /\ \A j \in 1..Len(s) : Async!nbytes(w, r, j) = Async!Bytes(s, j - 1)
<1> DEFINE ss == [i \in 1..NProcs |-> Async!localdata(w, i - 1)]
           F == Async!FlattenSeq(ss)
<1>0. NProcs \in Nat /\ r \in 0..NProcs-1 /\ Async!Ranks = 0..NProcs-1
  BY DEF Async!Ranks, Async!WriteAssumption
<1>1. \A i \in 1..NProcs : i - 1 \in Async!Ranks
  BY <1>0
<1>2. ASSUME NEW i \in 1..NProcs
      PROVE  ss[i] \in Seq(Nat) /\ Len(ss[i]) = 1 + 2 * Len(layout[w][i-1])
  <2>1. i - 1 \in Async!Ranks /\ ss[i] = Async!localdata(w, i - 1)
    BY <1>1
  <2> HIDE DEF ss
  <2> QED
    BY <2>1, LocalDataIs
<1>3. ss \in Seq(Seq(Nat)) /\ Len(ss) = NProcs
  BY <1>0, <1>2
<1>4. Async!globaldata(w) = F
  BY DEF Async!globaldata
<1>5. \A q \in Async!Ranks : q + 1 \in 1..NProcs /\ ss[q + 1] = Async!localdata(w, q)
  BY <1>0
<1> HIDE DEF ss
<1>6a. \E at : Joined(F, ss, at)
  BY <1>3, FlattenIs
<1> HIDE DEF F
<1>6. PICK at : Joined(F, ss, at)
  BY <1>6a
<1>7. /\ at \in [0..NProcs -> Nat]
      /\ at[0] = 0 /\ \A i \in 1..NProcs : at[i] = at[i-1] + Len(ss[i])
      /\ \A i \in 1..NProcs : \A j \in 1..Len(ss[i]) : F[at[i-1] + j] = ss[i][j]
  BY <1>3, <1>6 DEF Joined
\* Up to the rank, what is consumed is what the earlier ranks have sent.
<1>8. Async!Consumed(w, r) = at[r]
  <2> DEFINE T == {q \in 0..r : /\ IsFiniteSet(Before(w, q)) /\ IsFiniteSet(Earlier(w, q))
                                /\ Async!Consumed(w, q) = at[q]}
  <2>1. 0 \in T
    <3>1. IsFiniteSet({})
      BY FS_EmptySet
    <3>2. 0 \in 0..r
      BY <1>0
    <3> QED
      BY <1>7, <3>1, <3>2, ConsumedNone
  <2>2. ASSUME NEW i \in 1..r, i - 1 \in T PROVE i \in T
    <3>1. i \in Async!Ranks /\ i - 1 \in Async!Ranks /\ i > 0 /\ i - 1 <= r /\ i \in 1..NProcs
          /\ i \in 0..r
      BY <1>0
    <3>2. layout[w][i-1] # <<>>
      BY <3>1
    <3>3. /\ IsFiniteSet(Before(w, i)) /\ IsFiniteSet(Earlier(w, i))
          /\ Async!Consumed(w, i) = Async!Consumed(w, i-1) + (1 + 2 * Len(layout[w][i-1]))
      BY <2>2, <3>1, <3>2, ConsumedNext
    <3>4. at[i] = at[i-1] + (1 + 2 * Len(layout[w][i-1]))
      BY <1>2, <1>7, <3>1
    <3> QED
      BY <2>2, <3>1, <3>3, <3>4
  <2> HIDE DEF T
  <2>3. 0..r \subseteq T
    <3>1. r \in Nat
      BY <1>0
    <3> QED
      BY <2>1, <2>2, <3>1, UpTo
  <2>4. r \in T
    BY <1>0, <2>3
  <2> QED
    BY <2>4 DEF T
<1> DEFINE s == layout[w][r]
           L == Len(s)
<1>9. L \in Nat /\ at[r] \in Nat /\ r + 1 \in 1..NProcs /\ (r + 1) - 1 = r
  BY <1>0, <1>7, FabsAre
<1>10. /\ Len(ss[r+1]) = 1 + 2 * L /\ ss[r+1][1] = Async!Bytes(s, L)
       /\ \A j \in 1..L : ss[r+1][2 * j] = Async!Bytes(s, j - 1)
  BY <1>5, LocalDataIs
<1> HIDE DEF L
<1>11. F[at[r] + 1] = Async!Bytes(s, L)
  <2>1. 1 \in 1..Len(ss[r+1])
    BY <1>9, <1>10
  <2> QED
    BY <1>7, <1>9, <1>10, <2>1
<1>12. ASSUME NEW j \in 1..L PROVE F[at[r] + 2 * j] = Async!Bytes(s, j - 1)
  <2>1. 2 * j \in 1..Len(ss[r+1])
    BY <1>9, <1>10
  <2> QED
    BY <1>7, <1>9, <1>10, <2>1
<1>13. layout[w][r] # <<>>
  BY <1>0
<1> QED
  BY <1>4, <1>8, <1>11, <1>12, <1>13 DEF L, Async!nbytes_on_rank, Async!nbytes

\* Ranks without FABs come after those that have some.
NoGaps ==
  \A l \in Layouts : \A q, r \in Async!Ranks : q < r /\ l[r] # <<>> => l[q] # <<>>

LEMMA NumbersReadAll ==
  ASSUME Async!WriteAssumption, AsyncType, NoGaps, NEW w \in Async!Writes, NEW r \in Async!Ranks,
         layout[w][r] # <<>>
  PROVE  LET s == layout[w][r]
         IN /\ Async!nbytes_on_rank(w, r) = Async!Bytes(s, Len(s)) /\ Async!Bytes(s, Len(s)) \in Nat
            /\ \A j \in 1..Len(s) : Async!nbytes(w, r, j) = Async!Bytes(s, j - 1)
<1>1. layout[w] \in Layouts
  BY DEF AsyncType
<1>2. \A q \in Async!Ranks : q <= r => q < r \/ q = r
  BY DEF Async!Ranks, Async!WriteAssumption
<1>3. \A q \in Async!Ranks : q <= r => layout[w][q] # <<>>
  BY <1>1, <1>2 DEF NoGaps
<1>4. layout[w][r] \in Seq(Nat)
  BY FabsAre
<1>5. Async!Bytes(layout[w][r], Len(layout[w][r])) \in Nat
  <2> DEFINE s == layout[w][r]
  <2> HIDE DEF s
  <2>1. s \in Seq(Nat)
    BY <1>4 DEF s
  <2>2. Len(s) \in 0..Len(s)
    BY <2>1
  <2> QED
    BY <2>1, <2>2, BytesIs DEF s
<1> QED
  BY <1>3, <1>5, NumbersRead

\* The offsets of the header, rank after rank of a file.
LEMMA OffsetIs ==
  ASSUME Async!WriteAssumption, AsyncType, NoGaps, NEW w \in Async!Writes
  PROVE  \A r \in Async!Ranks :
           /\ Async!offset(w)[r] \in Int
           /\ Spot(r) = 0 => Async!offset(w)[r] = 0
           /\ Spot(r) > 0 /\ layout[w][r-1] # <<>> =>
                Async!offset(w)[r] =
                  Async!offset(w)[r-1] + Async!Bytes(layout[w][r-1], Len(layout[w][r-1]))
<1> DEFINE n == NProcs - 1
           nb(q) == Async!nbytes_on_rank(w, q)
           Def(F) == F = [r \in Async!Ranks |-> IF Async!s_info[r].ispot = 0 THEN 0
                                                ELSE F[r-1] + nb(r - 1)]
           F == CHOOSE F : Def(F)
           step == [r \in 1..n |-> [x \in Int |-> IF Spot(r) = 0 THEN 0 ELSE x + nb(r - 1)]]
<1>1. n \in Nat /\ Async!Ranks = 0..n
  BY DEF Async!Ranks, Async!WriteAssumption
<1>2. ASSUME NEW q \in Async!Ranks PROVE nb(q) \in Int
  <2>1. CASE layout[w][q] = <<>>
    BY <2>1 DEF Async!nbytes_on_rank
  <2>2. CASE layout[w][q] # <<>>
    BY <2>2, NumbersReadAll
  <2> QED
    BY <2>1, <2>2
<1> HIDE DEF nb, n
<1>3. \A r \in 0..n : Spot(r) \in Nat /\ (Spot(r) > 0 => r - 1 \in 0..n)
  BY <1>1, FileTurns
<1>4. \A r \in 1..n : r - 1 \in 0..n /\ nb(r - 1) \in Int
  BY <1>1, <1>2
<1>5. \E h : Def(h)
  <2>1. /\ step \in [1..n -> [Int -> Int]]
        /\ \A r \in 1..n, x \in Int : step[r][x] = IF Spot(r) = 0 THEN 0 ELSE x + nb(r - 1)
    BY <1>4
  <2> HIDE DEF step
  <2>2. PICK f : Unfolds(f, n, Int, 0, step)
    <3>1. 0 \in Int /\ n \in Nat /\ step \in [1..n -> [Int -> Int]]
      BY <1>1, <2>1
    <3> QED
      BY <3>1, RecursionExists
  <2>3. f \in [0..n -> Int] /\ f[0] = 0 /\ \A r \in 1..n : f[r] = step[r][f[r-1]]
    BY <2>2 DEF Unfolds
  <2>4. ASSUME NEW r \in 0..n PROVE f[r] = IF Spot(r) = 0 THEN 0 ELSE f[r-1] + nb(r - 1)
    <3>1. CASE r = 0
      <4>1. ~(r - 1 \in 0..n)
        BY <1>1, <3>1
      <4>2. Spot(r) = 0
        BY <1>3, <4>1
      <4> QED
        BY <2>3, <3>1, <4>2
    <3>2. CASE r # 0
      <4>1. r \in 1..n
        BY <1>1, <3>2
      <4>2. f[r-1] \in Int
        BY <1>4, <2>3, <4>1
      <4> QED
        BY <2>1, <2>3, <4>1, <4>2
    <3> QED
      BY <3>1, <3>2
  <2>5. f = [r \in 0..n |-> IF Spot(r) = 0 THEN 0 ELSE f[r-1] + nb(r - 1)]
    BY <2>3, <2>4
  <2>6. Def(f)
    BY <1>1, <2>5, Zenon DEF Spot
  <2> QED
    BY <2>6
<1>6. Def(F)
  BY <1>5
<1>7. Async!offset(w) = F
  BY Zenon DEF Async!offset, nb
<1> HIDE DEF F
<1>8. \A r \in 0..n : F[r] = IF Spot(r) = 0 THEN 0 ELSE F[r-1] + nb(r - 1)
  BY <1>1, <1>6 DEF Spot
<1>9. \A r \in 0..n : F[r] \in Int
  <2> DEFINE T == {r \in 0..n : F[r] \in Int}
  <2>1. 0 \in T
    <3>1. 0 \in 0..n /\ ~(0 - 1 \in 0..n)
      BY <1>1
    <3>2. Spot(0) = 0
      BY <1>3, <3>1
    <3>3. F[0] = 0
      BY <1>8, <3>1, <3>2
    <3> QED
      BY <3>1, <3>3
  <2>2. ASSUME NEW i \in 1..n, i - 1 \in T PROVE i \in T
    <3>1. i \in 0..n /\ nb(i - 1) \in Int /\ F[i-1] \in Int
      BY <1>1, <1>4, <2>2
    <3>2. F[i] = IF Spot(i) = 0 THEN 0 ELSE F[i-1] + nb(i - 1)
      BY <1>8, <3>1
    <3> QED
      BY <3>1, <3>2
  <2> HIDE DEF T
  <2>3. 0..n \subseteq T
    BY <1>1, <2>1, <2>2, UpTo
  <2> QED
    BY <2>3 DEF T
<1>10. ASSUME NEW r \in Async!Ranks, Spot(r) > 0, layout[w][r-1] # <<>>
       PROVE  F[r] = F[r-1] + Async!Bytes(layout[w][r-1], Len(layout[w][r-1]))
  <2>1. r - 1 \in Async!Ranks /\ Spot(r) # 0
    BY <1>10, FileTurns
  <2>2. nb(r - 1) = Async!Bytes(layout[w][r-1], Len(layout[w][r-1]))
    BY <1>10, <2>1, NumbersReadAll DEF nb
  <2> QED
    BY <1>1, <1>8, <2>1, <2>2
<1> QED
  BY <1>1, <1>7, <1>8, <1>9, <1>10

----------------------------------------------------------------------------
(* AsyncWrite.  Where the FABs are, and where the header says they are.    *)

Sizes(w, n) ==
  [k \in 1..Len(async_files[w][n]) |->
     layout[w][async_files[w][n][k][1]][async_files[w][n][k][2]]]

FileBytes(w, n) == Async!Bytes(Sizes(w, n), Len(async_files[w][n]))

\* It is the rank's turn, or will be when it begins.
Reached(r, w) == ~PastWrite(r, w) /\ AfterEarlier(r, w)

OwnBytes(r, w) == IF AtFile(r, w) THEN Async!Bytes(layout[w][r], nwritten[r]) ELSE 0

\* A rank finds its file as long as the header expects.
LengthsRight ==
  \A r \in Async!Ranks, w \in Async!Writes :
    layout[w][r] # <<>> /\ Reached(r, w) =>
      FileBytes(w, IFile(r)) = Async!offset(w)[r] + OwnBytes(r, w)

PlacesRight ==
  \A w \in Async!Writes, n \in Async!Files : \A i \in 1..Len(async_files[w][n]) :
    LET x == async_files[w][n][i]
    IN Async!Bytes(Sizes(w, n), i - 1) =
         Async!offset(w)[x[1]] + Async!Bytes(layout[w][x[1]], x[2] - 1)

HeaderIs == \A w \in Async!Writes : header[w] # <<>> => header[w] = Async!Header(w)

HeaderInv == AsyncInv /\ LengthsRight /\ PlacesRight /\ HeaderIs

\* The header is about the distributions of the FABs, which do not change.
LEMMA HeaderKept ==
  ASSUME layout' = layout, NEW w
  PROVE  /\ Async!offset(w)' = Async!offset(w)
         /\ Async!Header(w)' = Async!Header(w)
         /\ Async!Fabs(w)' = Async!Fabs(w)
<1>1. \A r : Async!localdata(w, r)' = Async!localdata(w, r)
  BY DEF Async!localdata
<1>2. Async!globaldata(w)' = Async!globaldata(w)
  BY <1>1 DEF Async!globaldata
<1>3. Async!Fabs(w)' = Async!Fabs(w)
  BY DEF Async!Fabs
<1>4. \A r : Async!Consumed(w, r)' = Async!Consumed(w, r)
  BY <1>3 DEF Async!Consumed
<1>5. \A r : Async!nbytes_on_rank(w, r)' = Async!nbytes_on_rank(w, r)
  BY <1>2, <1>4 DEF Async!nbytes_on_rank
<1>6. \A r, j : Async!nbytes(w, r, j)' = Async!nbytes(w, r, j)
  BY <1>2, <1>4 DEF Async!nbytes
<1>7. Async!offset(w)' = Async!offset(w)
  BY <1>5 DEF Async!offset
<1>8. Async!Header(w)' = Async!Header(w)
  BY <1>3, <1>6, <1>7 DEF Async!Header
<1> QED
  BY <1>3, <1>7, <1>8

LEMMA LayoutKept == [Async!Next]_(Async!vars) => layout' = layout
BY DEF Async!Next, Async!Thread, Async!Call, Async!BeginJob, Async!Open, Async!WriteFab,
   Async!Notify, Async!EndJob, Async!main, Async!vars

LEMMA SizesAre ==
  ASSUME Async!WriteAssumption, AsyncType, FilesHold,
         NEW w \in Async!Writes, NEW n \in Async!Files
  PROVE  /\ Sizes(w, n) \in Seq(Nat) /\ Len(Sizes(w, n)) = Len(async_files[w][n])
         /\ Len(async_files[w][n]) \in Nat
         /\ \A i \in 1..Len(async_files[w][n]) :
              async_files[w][n][i] \in Async!Fabs(w) /\ IFile(async_files[w][n][i][1]) = n
<1> DEFINE f == async_files[w][n]
<1>1. f \in Seq(Async!Ranks \X Nat)
  BY DEF AsyncType
<1>2. ToSet(f) = {x \in Async!Fabs(w) : IFile(x[1]) = n /\ InFile(x, w)}
  BY DEF FilesHold
<1> HIDE DEF f
<1>3. Len(f) \in Nat /\ DOMAIN f = 1..Len(f)
  BY <1>1
<1>4. ASSUME NEW i \in 1..Len(f)
      PROVE  f[i] \in Async!Fabs(w) /\ IFile(f[i][1]) = n
  <2>1. f[i] \in ToSet(f)
    BY <1>3 DEF ToSet
  <2> QED
    BY <1>2, <2>1
<1>5. ASSUME NEW i \in 1..Len(f) PROVE layout[w][f[i][1]][f[i][2]] \in Nat
  <2>1. f[i][1] \in Async!Ranks /\ f[i][2] \in 1..Len(layout[w][f[i][1]])
    BY <1>4, FabsAre
  <2>2. layout[w][f[i][1]] \in Seq(Nat)
    BY <2>1, FabsAre
  <2> QED
    BY <2>1, <2>2
<1> DEFINE s == [k \in 1..Len(f) |-> layout[w][f[k][1]][f[k][2]]]
<1>6. s \in Seq(Nat) /\ Len(s) = Len(f)
  BY <1>3, <1>5
<1>7. Sizes(w, n) = s
  BY DEF Sizes, f
<1> HIDE DEF s
<1> QED
  BY <1>3, <1>4, <1>6, <1>7 DEF f

LEMMA OneReached ==
  ASSUME Async!WriteAssumption, NEW r \in Async!Ranks, NEW q \in Async!Ranks,
         NEW w \in Async!Writes, IFile(q) = IFile(r), Reached(q, w), Reached(r, w)
  PROVE  q = r
<1>1. q \in Int /\ r \in Int
  BY DEF Async!Ranks, Async!WriteAssumption
<1>2. ~(q < r) /\ ~(r < q)
  BY DEF Reached, AfterEarlier
<1> QED
  BY <1>1, <1>2

LEMMA FileKept ==
  ASSUME layout' = layout, NEW w, NEW n, async_files'[w][n] = async_files[w][n]
  PROVE  Sizes(w, n)' = Sizes(w, n) /\ FileBytes(w, n)' = FileBytes(w, n)
BY DEF Sizes, FileBytes

\* The step of WriteFab: one more FAB at the end.
LEMMA FileGrows ==
  ASSUME Async!WriteAssumption, AsyncType, FilesHold, layout' = layout,
         NEW w \in Async!Writes, NEW n \in Async!Files, NEW x, x \in Async!Fabs(w),
         async_files'[w][n] = Append(async_files[w][n], x)
  PROVE  LET len == Len(async_files[w][n])
             size == layout[w][x[1]][x[2]]
         IN /\ len \in Nat /\ Len(async_files'[w][n]) = len + 1
            /\ \A i \in 0..len : Async!Bytes(Sizes(w, n)', i) = Async!Bytes(Sizes(w, n), i)
            /\ FileBytes(w, n)' = FileBytes(w, n) + size
<1> DEFINE f == async_files[w][n]
           g == async_files'[w][n]
           len == Len(f)
           size == layout[w][x[1]][x[2]]
           s == Sizes(w, n)
           t == Sizes(w, n)'
<1>1. f \in Seq(Async!Ranks \X Nat) /\ x \in Async!Ranks \X Nat
  <2>1. x[1] \in Async!Ranks /\ x[2] \in 1..Len(layout[w][x[1]]) /\ x = <<x[1], x[2]>>
    BY FabsAre
  <2>2. x[2] \in Nat
    BY <2>1
  <2> QED
    BY <2>1, <2>2 DEF AsyncType
<1>2. /\ len \in Nat /\ Len(g) = len + 1 /\ g[len + 1] = x
      /\ \A i \in 1..len : g[i] = f[i]
  BY <1>1
<1>3. s \in Seq(Nat) /\ Len(s) = len
  BY SizesAre
<1>4. size \in Nat
  <2>1. x[1] \in Async!Ranks /\ x[2] \in 1..Len(layout[w][x[1]])
    BY FabsAre
  <2>2. layout[w][x[1]] \in Seq(Nat)
    BY <2>1, FabsAre
  <2> QED
    BY <2>1, <2>2
<1>5. t = [k \in 1..Len(g) |-> layout[w][g[k][1]][g[k][2]]]
  BY DEF Sizes
<1>6. s = [k \in 1..len |-> layout[w][f[k][1]][f[k][2]]]
  BY DEF Sizes
<1>7. FileBytes(w, n) = Async!Bytes(s, len) /\ FileBytes(w, n)' = Async!Bytes(t, Len(g))
  BY DEF FileBytes
<1> HIDE DEF f, g, s, t
<1> HIDE DEF len
<1>8. \A i \in 1..len : s[i] \in Nat
  BY <1>3
<1>9. \A i \in 1..len : t[i] = s[i]
  <2> SUFFICES ASSUME NEW i \in 1..len PROVE t[i] = s[i]
    OBVIOUS
  <2>1. i \in 1..Len(g) /\ g[i] = f[i]
    BY <1>2
  <2> QED
    BY <1>5, <1>6, <2>1
<1>10. t[len + 1] = size
  <2>1. len + 1 \in 1..Len(g)
    BY <1>2
  <2> QED
    BY <1>2, <1>5, <2>1
<1> HIDE DEF size
<1>11. t \in Seq(Nat) /\ Len(t) = len + 1
  <2>1. \A i \in 1..len+1 : i \in 1..len \/ i = len + 1
    BY <1>2
  <2>2. \A i \in 1..len+1 : t[i] \in Nat
    BY <1>4, <1>8, <1>9, <1>10, <2>1
  <2>3. t = [k \in 1..len+1 |-> t[k]]
    BY <1>2, <1>5
  <2> DEFINE u == [k \in 1..len+1 |-> t[k]]
  <2>4. u \in Seq(Nat) /\ Len(u) = len + 1
    BY <1>2, <2>2
  <2> QED
    BY <2>3, <2>4
<1>12. \A i \in 0..len : Async!Bytes(s, i) = Async!Bytes(t, i)
  <2>1. len <= Len(s) /\ len <= Len(t) /\ \A k \in 1..len : s[k] = t[k]
    BY <1>2, <1>3, <1>9, <1>11
  <2> QED
    BY <1>2, <1>3, <1>11, <2>1, BytesAlike
<1>13. Async!Bytes(t, len + 1) = Async!Bytes(t, len) + t[len + 1]
  <2>1. len + 1 \in 1..Len(t) /\ (len + 1) - 1 = len
    BY <1>2, <1>11
  <2> QED
    BY <1>11, <2>1, BytesIs
<1>14. FileBytes(w, n)' = FileBytes(w, n) + size
  <2>1. len \in 0..len
    BY <1>2
  <2> QED
    BY <1>2, <1>7, <1>10, <1>12, <1>13, <2>1
<1> QED
  BY <1>2, <1>12, <1>14 DEF len, size, f, g, s, t

\* A file that has just been truncated.
LEMMA FileEmpty ==
  ASSUME NEW w, NEW n, async_files'[w][n] = <<>>
  PROVE  FileBytes(w, n)' = 0 /\ Len(async_files'[w][n]) = 0
<1>1. Len(async_files'[w][n]) = 0
  OBVIOUS
<1>2. Sizes(w, n)' = <<>>
  BY <1>1 DEF Sizes
<1>3. <<>> \in Seq(Nat) /\ Len(<<>>) = 0
  OBVIOUS
<1>4. Async!Bytes(<<>>, 0) = 0
  BY <1>3, BytesIs
<1> QED
  BY <1>1, <1>2, <1>4 DEF FileBytes

LEMMA LengthsStep ==
  ASSUME Async!WriteAssumption, NoGaps, HeaderInv, [Async!Next]_(Async!vars)
  PROVE  LengthsRight'
<1>0. /\ AsyncType /\ PostedOK /\ TurnsTaken /\ FilesHold /\ LengthsRight /\ layout' = layout
      /\ \A w : Async!offset(w)' = Async!offset(w)
  <2>1. layout' = layout
    BY LayoutKept
  <2> QED
    BY <2>1, HeaderKept DEF HeaderInv, AsyncInv
<1> SUFFICES ASSUME NEW q \in Async!Ranks, NEW w \in Async!Writes,
                    layout[w][q] # <<>>, Reached(q, w)'
             PROVE  FileBytes(w, IFile(q))' = Async!offset(w)[q] + OwnBytes(q, w)'
  BY <1>0, Zenon DEF LengthsRight, IFile
<1> DEFINE n == IFile(q)
<1>1. n \in Async!Files /\ layout[w][q] \in Seq(Nat) /\ Async!offset(w)[q] \in Int
  BY <1>0, FileTurns, FabsAre, OffsetIs
\* Nothing changes for the rank and its file.
<1>2. ASSUME Reached(q, w), async_files'[w][n] = async_files[w][n],
             OwnBytes(q, w)' = OwnBytes(q, w)
      PROVE  FileBytes(w, n)' = Async!offset(w)[q] + OwnBytes(q, w)'
  BY <1>0, <1>2, FileKept DEF LengthsRight
<1>3. ASSUME SamePlaces, async_files' = async_files,
             \A r \in Async!Ranks : thread_pc[r] = "write" => nwritten'[r] = nwritten[r]
      PROVE  FileBytes(w, n)' = Async!offset(w)[q] + OwnBytes(q, w)'
  <2>1. Reached(q, w)
    BY <1>3 DEF SamePlaces, Reached, AfterEarlier, IFile
  <2>2. OwnBytes(q, w)' = OwnBytes(q, w)
    <3>1. CASE AtFile(q, w)
      BY <1>0, <1>3, <3>1 DEF SamePlaces, OwnBytes, AtFile
    <3>2. CASE ~AtFile(q, w)
      BY <1>3, <3>2 DEF SamePlaces, OwnBytes
    <3> QED
      BY <3>1, <3>2
  <2> QED
    BY <1>2, <1>3, <2>1, <2>2
<1>4. ASSUME NEW r \in Async!Ranks, Async!Call(r)
      PROVE  FileBytes(w, n)' = Async!offset(w)[q] + OwnBytes(q, w)'
  BY <1>0, <1>3, <1>4, PlacesKept DEF Async!Call, Async!thread
<1>5. ASSUME NEW r \in Async!Ranks, Async!BeginJob(r)
      PROVE  FileBytes(w, n)' = Async!offset(w)[q] + OwnBytes(q, w)'
  BY <1>0, <1>3, <1>5, PlacesKept DEF Async!BeginJob
<1>6. ASSUME NEW r \in Async!Ranks, Async!EndJob(r)
      PROVE  FileBytes(w, n)' = Async!offset(w)[q] + OwnBytes(q, w)'
  BY <1>0, <1>3, <1>6, PlacesKept DEF Async!EndJob
<1>7. CASE UNCHANGED Async!vars
  BY <1>0, <1>3, <1>7, PlacesKept DEF Async!vars, Async!thread
<1>8. ASSUME NEW r \in Async!Ranks, Async!Open(r)
      PROVE  FileBytes(w, n)' = Async!offset(w)[q] + OwnBytes(q, w)'
  <2> DEFINE w0 == job[r]
  <2>0. /\ thread_pc[r] = "wait" /\ thread_pc' = [thread_pc EXCEPT ![r] = "write"] /\ job' = job
        /\ nwritten' = [nwritten EXCEPT ![r] = 0] /\ Async!MyTurn(r)
        /\ async_files' = IF Spot(r) = 0 /\ layout[w0][r] # <<>>
                          THEN [async_files EXCEPT ![w0][IFile(r)] = <<>>] ELSE async_files
    BY <1>8 DEF Async!Open, Spot, IFile
  <2>1. w0 \in Async!Writes /\ IFile(r) \in Async!Files
    BY <1>0, <2>0, BusyWithWrite, FileTurns
  <2>2. \A p \in Async!Ranks, v \in Async!Writes : PastWrite(p, v)' <=> PastWrite(p, v)
    BY <1>0, <2>0 DEF PastWrite, AsyncType
  <2>3. Reached(q, w)
    BY <2>2 DEF Reached, AfterEarlier, IFile
  <2>4. ~PastWrite(r, w0) /\ ~AtFile(r, w0)
    BY <2>0, <2>1 DEF PastWrite, AtFile, Async!Writes, Async!WriteAssumption
  <2>5. Reached(r, w0)
    BY <1>0, <2>0, <2>4, WaitedForEarlier DEF Reached
  <2>6. CASE q = r /\ w = w0
    <3>1. AtFile(q, w)' /\ nwritten'[q] = 0
      BY <1>0, <2>0, <2>6 DEF AtFile, AsyncType
    <3>2. OwnBytes(q, w)' = 0
      <4>1. OwnBytes(q, w)' = Async!Bytes(layout[w][q], 0)
        BY <1>0, <3>1 DEF OwnBytes
      <4> DEFINE s == layout[w][q]
      <4> HIDE DEF s
      <4>2. s \in Seq(Nat)
        BY <1>1 DEF s
      <4>3. Async!Bytes(s, 0) = 0
        BY <4>2, BytesIs
      <4> QED
        BY <4>1, <4>3 DEF s
    <3>3. CASE Spot(r) = 0
      <4>1. async_files'[w][n] = <<>>
        BY <1>0, <2>0, <2>1, <2>6, <3>3 DEF AsyncType
      <4>2. Async!offset(w)[q] = 0
        BY <1>0, <2>6, <3>3, OffsetIs
      <4> QED
        BY <3>2, <4>1, <4>2, FileEmpty
    <3>4. CASE Spot(r) # 0
      <4>1. async_files' = async_files
        BY <2>0, <3>4
      <4>2. OwnBytes(q, w) = 0
        BY <2>4, <2>6 DEF OwnBytes
      <4> QED
        BY <1>2, <2>3, <3>2, <4>1, <4>2
    <3> QED
      BY <3>3, <3>4
  <2>7. CASE ~(q = r /\ w = w0)
    <3>1. OwnBytes(q, w)' = OwnBytes(q, w)
      <4>1. CASE q = r
        BY <2>0, <2>7, <4>1 DEF OwnBytes, AtFile
      <4>2. CASE q # r
        <5>1. thread_pc'[q] = thread_pc[q] /\ nwritten'[q] = nwritten[q] /\ job'[q] = job[q]
          BY <1>0, <2>0, <4>2 DEF AsyncType
        <5> QED
          BY <1>0, <5>1 DEF OwnBytes, AtFile
      <4> QED
        BY <4>1, <4>2
    <3>2. ~(w = w0 /\ n = IFile(r))
      BY <2>3, <2>5, <2>7, OneReached
    <3>3. async_files'[w][n] = async_files[w][n]
      BY <1>0, <1>1, <2>0, <2>1, <3>2 DEF AsyncType
    <3> QED
      BY <1>2, <2>3, <3>1, <3>3
  <2> QED
    BY <2>6, <2>7
<1>9. ASSUME NEW r \in Async!Ranks, Async!WriteFab(r)
      PROVE  FileBytes(w, n)' = Async!offset(w)[q] + OwnBytes(q, w)'
  <2> DEFINE w0 == job[r]
             k  == nwritten[r] + 1
  <2>0. /\ thread_pc[r] = "write" /\ thread_pc' = thread_pc /\ job' = job
        /\ nwritten' = [nwritten EXCEPT ![r] = k] /\ nwritten'[r] = k
        /\ async_files' = [async_files EXCEPT ![w0][IFile(r)] = Append(@, <<r, k>>)]
        /\ nwritten[r] < Len(layout[w0][r])
    BY <1>0, <1>9 DEF Async!WriteFab, Async!HasMore, AsyncType, IFile
  <2>1. w0 \in Async!Writes /\ IFile(r) \in Async!Files
    BY <1>0, <2>0, BusyWithWrite, FileTurns
  <2>2. SamePlaces
    BY <1>0, <1>9, PlacesKept
  <2>3. Reached(q, w)
    BY <2>2 DEF SamePlaces, Reached, AfterEarlier, IFile
  <2>4. ~PastWrite(r, w0) /\ AtFile(r, w0)
    BY <2>0, <2>1 DEF PastWrite, AtFile, Async!Writes, Async!WriteAssumption
  <2>5. Reached(r, w0)
    BY <1>0, <2>1, <2>4 DEF Reached, TurnsTaken
  <2>6. CASE q = r /\ w = w0
    <3> DEFINE s == layout[w][q]
    <3>1. s \in Seq(Nat) /\ Len(s) \in Nat /\ nwritten[r] \in Nat /\ nwritten[r] < Len(s)
      BY <1>0, <1>1, <2>0, <2>6 DEF AsyncType
    <3> HIDE DEF s
    <3>2. k \in 1..Len(s) /\ k - 1 = nwritten[r] /\ nwritten[r] \in 0..Len(s) /\ k \in 0..Len(s)
      BY <3>1
    <3>3. Async!Bytes(s, k) = Async!Bytes(s, k - 1) + s[k] /\ Async!Bytes(s, nwritten[r]) \in Nat
          /\ Async!Bytes(s, k) \in Nat /\ s[k] \in Nat
      BY <3>1, <3>2, BytesIs
    <3> HIDE DEF k
    <3>4. OwnBytes(q, w) = Async!Bytes(s, nwritten[r])
      BY <2>4, <2>6 DEF OwnBytes, s
    <3>5. OwnBytes(q, w)' = Async!Bytes(s, k)
      <4>1. AtFile(q, w)'
        BY <2>2, <2>4, <2>6 DEF SamePlaces
      <4> QED
        BY <1>0, <2>0, <2>6, <4>1 DEF OwnBytes, s
    <3>6. FileBytes(w, n) = Async!offset(w)[q] + OwnBytes(q, w)
      BY <1>0, <2>3 DEF LengthsRight
    <3>7. FileBytes(w, n)' = FileBytes(w, n) + s[k]
      <4>1. async_files'[w][n] = Append(async_files[w][n], <<r, k>>)
        BY <1>0, <2>0, <2>1, <2>6 DEF AsyncType
      <4>2. <<r, k>> \in Async!Fabs(w)
        BY <1>0, <2>6, <3>2, FabsAre DEF s
      <4> DEFINE x == <<r, k>>
      <4>3. x[1] = q /\ x[2] = k
        BY <2>6
      <4>4. async_files'[w][n] = Append(async_files[w][n], x) /\ x \in Async!Fabs(w)
        BY <4>1, <4>2
      <4> HIDE DEF x
      <4>5. FileBytes(w, n)' = FileBytes(w, n) + layout[w][x[1]][x[2]]
        BY <1>0, <1>1, <4>4, FileGrows
      <4> QED
        BY <4>3, <4>5 DEF s
    <3> QED
      BY <1>1, <3>2, <3>3, <3>4, <3>5, <3>6, <3>7
  <2>7. CASE ~(q = r /\ w = w0)
    <3>1. OwnBytes(q, w)' = OwnBytes(q, w)
      <4>1. CASE q = r
        BY <2>0, <2>7, <4>1 DEF OwnBytes, AtFile
      <4>2. CASE q # r
        <5>1. nwritten'[q] = nwritten[q]
          BY <1>0, <2>0, <4>2 DEF AsyncType
        <5> QED
          BY <1>0, <2>0, <5>1 DEF OwnBytes, AtFile
      <4> QED
        BY <4>1, <4>2
    <3>2. ~(w = w0 /\ n = IFile(r))
      BY <2>3, <2>5, <2>7, OneReached
    <3>3. async_files'[w][n] = async_files[w][n]
      BY <1>0, <1>1, <2>0, <2>1, <3>2 DEF AsyncType
    <3> QED
      BY <1>2, <2>3, <3>1, <3>3
  <2> QED
    BY <2>6, <2>7
<1>10. ASSUME NEW r \in Async!Ranks, Async!Notify(r)
       PROVE  FileBytes(w, n)' = Async!offset(w)[q] + OwnBytes(q, w)'
  <2> DEFINE w0 == job[r]
  <2>0. /\ thread_pc[r] = "write" /\ thread_pc' = [thread_pc EXCEPT ![r] = "notify"]
        /\ thread_pc'[r] = "notify" /\ job' = job /\ nwritten' = nwritten
        /\ async_files' = async_files /\ ~(nwritten[r] < Len(layout[job[r]][r]))
    BY <1>0, <1>10 DEF Async!Notify, Async!HasMore, AsyncType
  <2>1. w0 \in Async!Writes
    BY <1>0, <2>0, BusyWithWrite
  <2>2. ASSUME NEW p \in Async!Ranks, NEW v \in Async!Writes
        PROVE  /\ PastWrite(p, v)' <=> PastWrite(p, v) \/ (p = r /\ v = w0)
               /\ ~(p = r /\ v = w0) => (AtFile(p, v)' <=> AtFile(p, v))
    <3>1. CASE p = r
      BY <2>0, <3>1 DEF PastWrite, AtFile
    <3>2. CASE p # r
      <4>1. thread_pc'[p] = thread_pc[p]
        BY <1>0, <2>0, <3>2 DEF AsyncType
      <4> QED
        BY <2>0, <3>2, <4>1 DEF PastWrite, AtFile
    <3> QED
      BY <3>1, <3>2
  <2>3. ~PastWrite(q, w) /\ ~(q = r /\ w = w0)
    BY <2>2 DEF Reached
  <2>4. OwnBytes(q, w)' = OwnBytes(q, w)
    BY <1>0, <2>0, <2>2, <2>3 DEF OwnBytes
  <2>5. CASE AfterEarlier(q, w)
    BY <1>2, <2>0, <2>3, <2>4, <2>5 DEF Reached
  <2>6. CASE ~AfterEarlier(q, w)
    <3>1. w = w0 /\ IFile(r) = IFile(q) /\ r < q
      <4>1. PICK p \in Async!Ranks : IFile(p) = IFile(q) /\ p < q /\ ~PastWrite(p, w)
        BY <2>6 DEF AfterEarlier
      <4>2. PastWrite(p, w)'
        BY <4>1 DEF Reached, AfterEarlier, IFile
      <4> QED
        BY <2>2, <4>1, <4>2
    <3>2. q \in Int /\ r \in Int
      BY DEF Async!Ranks, Async!WriteAssumption
    <3>3. Spot(q) > 0
      <4>1. Spot(q) - Spot(r) = q - r /\ Spot(q) \in Nat /\ Spot(r) \in Nat
        BY <3>1, FileTurns
      <4> QED
        BY <3>1, <3>2, <4>1
    <3>4. q - 1 \in Async!Ranks /\ IFile(q-1) = IFile(q)
      BY <3>3, FileTurns
    <3>5. ~PastWrite(r, w0) /\ AtFile(r, w0)
      BY <2>0, <2>1 DEF PastWrite, AtFile, Async!Writes, Async!WriteAssumption
    <3>6. r = q - 1
      <4> SUFFICES ASSUME r # q - 1 PROVE FALSE
        OBVIOUS
      <4>1. r < q - 1 /\ q - 1 < q
        BY <3>1, <3>2
      <4>2. PastWrite(q - 1, w)'
        BY <3>4, <4>1 DEF Reached, AfterEarlier, IFile
      <4>3. PastWrite(q - 1, w)
        BY <2>2, <3>4, <4>2
      <4>4. PastWrite(r, w)
        BY <1>0, <3>1, <3>4, <4>1, <4>3 DEF TurnsTaken, AfterEarlier
      <4> QED
        BY <3>1, <3>5, <4>4
    <3>7. layout[w][r] # <<>>
      <4>1. layout[w] \in Layouts
        BY <1>0 DEF AsyncType
      <4> QED
        BY <3>1, <4>1 DEF NoGaps
    <3>8. Reached(r, w0)
      BY <1>0, <2>1, <3>5 DEF Reached, TurnsTaken
    <3>9. FileBytes(w, n) = Async!offset(w)[r] + OwnBytes(r, w)
      BY <1>0, <3>1, <3>7, <3>8 DEF LengthsRight
    <3>10. OwnBytes(r, w) = Async!Bytes(layout[w][r], Len(layout[w][r]))
      <4>1. nwritten[r] = Len(layout[w][r])
        <5>1. Len(layout[w][r]) \in Nat
          BY <1>0, FabsAre
        <5> QED
          BY <1>0, <2>0, <3>1, <5>1 DEF AsyncType
      <4> QED
        BY <3>1, <3>5, <4>1 DEF OwnBytes
    <3>11. Async!offset(w)[q] = Async!offset(w)[r] + OwnBytes(r, w)
      BY <1>0, <3>3, <3>6, <3>7, <3>10, OffsetIs
    <3>12. OwnBytes(q, w) = 0
      <4>1. ~AtFile(q, w)
        BY <1>0, <3>1, <3>5 DEF TurnsTaken, AfterEarlier
      <4> QED
        BY <4>1 DEF OwnBytes
    <3>13. FileBytes(w, n)' = FileBytes(w, n)
      BY <1>0, <2>0, FileKept
    <3> QED
      BY <1>1, <2>4, <3>9, <3>11, <3>12, <3>13
  <2> QED
    BY <2>5, <2>6
<1> QED
  BY <1>4, <1>5, <1>6, <1>7, <1>8, <1>9, <1>10 DEF Async!Next, Async!Thread

LEMMA PlacesStep ==
  ASSUME Async!WriteAssumption, NoGaps, HeaderInv, [Async!Next]_(Async!vars)
  PROVE  PlacesRight'
<1>0. /\ AsyncType /\ TurnsTaken /\ FilesHold /\ LengthsRight /\ PlacesRight /\ layout' = layout
      /\ \A w : Async!offset(w)' = Async!offset(w)
  <2>1. layout' = layout
    BY LayoutKept
  <2> QED
    BY <2>1, HeaderKept DEF HeaderInv, AsyncInv
<1> DEFINE Place(w, x) == Async!offset(w)[x[1]] + Async!Bytes(layout[w][x[1]], x[2] - 1)
<1> SUFFICES ASSUME NEW w \in Async!Writes, NEW n \in Async!Files,
                    NEW i \in 1..Len(async_files'[w][n])
             PROVE  Async!Bytes(Sizes(w, n)', i - 1) = Place(w, async_files'[w][n][i])
  BY <1>0, Zenon DEF PlacesRight
<1>1. \A j \in 1..Len(async_files[w][n]) :
        Async!Bytes(Sizes(w, n), j - 1) = Place(w, async_files[w][n][j])
  BY <1>0 DEF PlacesRight
<1> HIDE DEF Place
<1>2. CASE async_files'[w][n] = async_files[w][n]
  <2>1. Sizes(w, n)' = Sizes(w, n)
    BY <1>0, <1>2, FileKept
  <2> QED
    BY <1>1, <1>2, <2>1
<1>3. CASE async_files'[w][n] = <<>>
  BY <1>3
<1>4. ASSUME NEW r \in Async!Ranks, Async!WriteFab(r)
      PROVE  Async!Bytes(Sizes(w, n)', i - 1) = Place(w, async_files'[w][n][i])
  <2> DEFINE w0 == job[r]
             k  == nwritten[r] + 1
  <2>0. /\ thread_pc[r] = "write" /\ nwritten[r] \in Nat
        /\ async_files' = [async_files EXCEPT ![w0][IFile(r)] = Append(@, <<r, k>>)]
        /\ nwritten[r] < Len(layout[w0][r])
    BY <1>0, <1>4 DEF Async!WriteFab, Async!HasMore, AsyncType, IFile
  <2>1. w0 \in Async!Writes /\ IFile(r) \in Async!Files
    BY <1>0, <2>0, BusyWithWrite, FileTurns
  <2>2. ~PastWrite(r, w0) /\ AtFile(r, w0)
    BY <2>0, <2>1 DEF PastWrite, AtFile, Async!Writes, Async!WriteAssumption
  <2>3. Reached(r, w0)
    BY <1>0, <2>1, <2>2 DEF Reached, TurnsTaken
  <2>4. CASE ~(w = w0 /\ n = IFile(r))
    <3>1. async_files'[w][n] = async_files[w][n]
      BY <1>0, <2>0, <2>1, <2>4 DEF AsyncType
    <3> QED
      BY <1>2, <3>1
  <2>5. CASE w = w0 /\ n = IFile(r)
    <3> DEFINE s == layout[w][r]
               f == async_files[w][n]
               x == <<r, k>>
    <3>1. s \in Seq(Nat) /\ Len(s) \in Nat /\ nwritten[r] < Len(s)
      BY <1>0, <2>0, <2>5, FabsAre
    <3>2. k \in 1..Len(s) /\ k - 1 = nwritten[r]
      <4> HIDE DEF s
      <4> QED
        BY <2>0, <3>1
    <3>3. x \in Async!Fabs(w) /\ x[1] = r /\ x[2] = k
      BY <1>0, <3>2, FabsAre
    <3>4. async_files'[w][n] = Append(f, x)
      BY <1>0, <2>0, <2>1, <2>5 DEF AsyncType
    <3>5. f \in Seq(Async!Ranks \X Nat)
      BY <1>0 DEF AsyncType
    <3>6. layout[w][r] # <<>>
      BY <2>0, <3>1
    <3>7. FileBytes(w, n) = Async!offset(w)[r] + OwnBytes(r, w)
      BY <1>0, <2>3, <2>5, <3>6 DEF LengthsRight
    <3>8. OwnBytes(r, w) = Async!Bytes(s, k - 1)
      BY <2>2, <2>5, <3>2 DEF OwnBytes
    <3>9. FileBytes(w, n) = Place(w, x)
      BY <3>3, <3>7, <3>8 DEF Place
    <3> HIDE DEF x, s
    <3>10. /\ Len(f) \in Nat /\ Len(async_files'[w][n]) = Len(f) + 1
           /\ \A j \in 0..Len(f) : Async!Bytes(Sizes(w, n)', j) = Async!Bytes(Sizes(w, n), j)
      BY <1>0, <3>3, <3>4, FileGrows
    <3>11. CASE i = Len(f) + 1
      <4>1. async_files'[w][n][i] = x
        BY <3>4, <3>5, <3>11
      <4>2. i - 1 = Len(f) /\ Len(f) \in 0..Len(f)
        BY <3>10, <3>11
      <4>3. Async!Bytes(Sizes(w, n)', i - 1) = FileBytes(w, n)
        BY <3>10, <4>2 DEF FileBytes
      <4> QED
        BY <3>9, <4>1, <4>3
    <3>12. CASE i # Len(f) + 1
      <4>1. i \in 1..Len(f) /\ i - 1 \in 0..Len(f)
        BY <3>10, <3>12
      <4>2. async_files'[w][n][i] = f[i]
        BY <3>4, <3>5, <4>1
      <4> QED
        BY <1>1, <3>10, <4>1, <4>2
    <3> QED
      BY <3>11, <3>12
  <2> QED
    BY <2>4, <2>5
<1>5. ASSUME NEW r \in Async!Ranks, Async!Open(r)
      PROVE  async_files'[w][n] = async_files[w][n] \/ async_files'[w][n] = <<>>
  <2> DEFINE w0 == job[r]
             m  == Async!s_info[r].ifile
  <2>1. async_files' = async_files \/ async_files' = [async_files EXCEPT ![w0][m] = <<>>]
    BY <1>5 DEF Async!Open
  <2>2. thread_pc[r] # "idle"
    BY <1>5 DEF Async!Open
  <2>3. w0 \in Async!Writes /\ m \in Async!Files
    BY <1>0, <2>2, BusyWithWrite, FileTurns DEF IFile
  <2> HIDE DEF w0, m
  <2>4. CASE async_files' = [async_files EXCEPT ![w0][m] = <<>>]
    BY <1>0, <2>3, <2>4 DEF AsyncType
  <2> QED
    BY <2>1, <2>4
<1>6. ASSUME NEW r \in Async!Ranks,
             \/ Async!Call(r) \/ Async!BeginJob(r) \/ Async!Notify(r) \/ Async!EndJob(r)
      PROVE  async_files' = async_files
  BY <1>6 DEF Async!Call, Async!BeginJob, Async!Notify, Async!EndJob, Async!thread
<1>7. CASE UNCHANGED Async!vars
  BY <1>2, <1>7 DEF Async!vars, Async!thread
<1> QED
  BY <1>2, <1>3, <1>4, <1>5, <1>6, <1>7 DEF Async!Next, Async!Thread

LEMMA HeaderIsStep ==
  ASSUME Async!WriteAssumption, HeaderInv, [Async!Next]_(Async!vars)
  PROVE  HeaderIs'
<1>0. /\ AsyncType /\ HeaderIs /\ layout' = layout
      /\ \A w : Async!Header(w)' = Async!Header(w)
  <2>1. layout' = layout
    BY LayoutKept
  <2> QED
    BY <2>1, HeaderKept DEF HeaderInv, AsyncInv
<1>1. CASE header' = header
  BY <1>0, <1>1 DEF HeaderIs
<1>2. ASSUME NEW r \in Async!Ranks, Async!BeginJob(r), header' # header
      PROVE  HeaderIs'
  <2>1. header' = [header EXCEPT ![job'[r]] = Async!Header(job'[r])]
    BY <1>2 DEF Async!BeginJob
  <2>2. ASSUME NEW w \in Async!Writes, header'[w] # <<>> PROVE header'[w] = Async!Header(w)
    BY <1>0, <2>1, <2>2 DEF HeaderIs, AsyncType
  <2> QED
    BY <1>0, <2>2 DEF HeaderIs
<1>3. (\A r \in Async!Ranks : ~Async!BeginJob(r)) => header' = header
  BY DEF Async!Next, Async!Thread, Async!Call, Async!Open, Async!WriteFab, Async!Notify,
     Async!EndJob, Async!thread, Async!vars
<1> QED
  BY <1>1, <1>2, <1>3

LEMMA HeaderInit ==
  ASSUME Async!WriteAssumption, NoGaps, Async!Init
  PROVE  HeaderInv
<1>0. AsyncInv
  BY AsyncInit
<1>1. AsyncType
  BY <1>0 DEF AsyncInv
<1>2. \A w \in Async!Writes, n \in Async!Files : async_files[w][n] = <<>>
  BY DEF Async!Init
<1>3. LengthsRight
  <2> SUFFICES ASSUME NEW r \in Async!Ranks, NEW w \in Async!Writes, Reached(r, w)
               PROVE  FileBytes(w, IFile(r)) = Async!offset(w)[r] + OwnBytes(r, w)
    BY DEF LengthsRight
  <2>1. \A q \in Async!Ranks : ~PastWrite(q, w) /\ ~AtFile(q, w)
    BY DEF Async!Init, PastWrite, AtFile, Async!Writes, Async!WriteAssumption
  <2>2. Spot(r) = 0
    <3> SUFFICES ASSUME Spot(r) > 0 PROVE FALSE
      BY FileTurns
    <3>1. r - 1 \in Async!Ranks /\ IFile(r-1) = IFile(r)
      BY FileTurns
    <3>2. r - 1 < r
      BY DEF Async!Ranks, Async!WriteAssumption
    <3>3. PastWrite(r - 1, w)
      BY <3>1, <3>2 DEF Reached, AfterEarlier
    <3> QED
      BY <2>1, <3>1, <3>3
  <2>3. Async!offset(w)[r] = 0
    BY <1>1, <2>2, OffsetIs
  <2>4. OwnBytes(r, w) = 0
    BY <2>1 DEF OwnBytes
  <2>5. FileBytes(w, IFile(r)) = 0
    <3>1. async_files[w][IFile(r)] = <<>>
      BY <1>2, FileTurns
    <3>2. Len(async_files[w][IFile(r)]) = 0
      BY <3>1
    <3>3. Sizes(w, IFile(r)) = <<>>
      BY <3>2 DEF Sizes
    <3>4. <<>> \in Seq(Nat)
      OBVIOUS
    <3>5. Async!Bytes(<<>>, 0) = 0
      BY <3>4, BytesIs
    <3> QED
      BY <3>2, <3>3, <3>5 DEF FileBytes
  <2> QED
    BY <2>3, <2>4, <2>5
<1>4. PlacesRight
  BY <1>2 DEF PlacesRight
<1>5. HeaderIs
  BY DEF HeaderIs, Async!Init
<1> QED
  BY <1>0, <1>3, <1>4, <1>5 DEF HeaderInv

LEMMA AlwaysHeaderInv ==
  ASSUME NoGaps
  PROVE  VisSpec => []HeaderInv
<1>1. VisInit => HeaderInv
  BY AsyncAssumption, HeaderInit DEF VisInit
<1>2. HeaderInv /\ [VisNext]_<<s_asyncout, vars, async_vars>> => HeaderInv'
  <2> SUFFICES ASSUME HeaderInv, [Async!Next]_(Async!vars) PROVE HeaderInv'
    BY VisStep
  <2>1. AsyncInv'
    BY AsyncAssumption, AsyncTypeStep, PostedStep, TurnsTakenStep, FilesHoldStep
    DEF AsyncInv, HeaderInv
  <2> QED
    BY <2>1, AsyncAssumption, LengthsStep, PlacesStep, HeaderIsStep DEF HeaderInv
<1> QED
  BY <1>1, <1>2, PTL DEF VisSpec

\* WriteHeaderDoit predicts from gathered sizes, before anything is written, where every FAB
\* will be: while the files are written by turns, each FAB is there.  That ranks without FABs
\* come last is needed: the loop over the FABs steps over no number of such a rank.
THEOREM HeaderPredictsFiles ==
  ASSUME NoGaps
  PROVE  VisSpec => []HeaderExact
<1> USE AsyncAssumption
<1>1. HeaderInv => HeaderExact
  <2> SUFFICES ASSUME HeaderInv, NEW w \in Async!Writes, header[w] # <<>>,
                      NEW n \in Async!Files, NEW i \in DOMAIN async_files[w][n]
               PROVE  header[w][async_files[w][n][i]] =
                        [m_name |-> n, m_head |-> Async!Bytes(Sizes(w, n), i - 1)]
    BY Zenon DEF HeaderExact, Async!HeaderExact, Sizes
  <2> DEFINE x == async_files[w][n][i]
             s == layout[w][x[1]]
  <2>0. AsyncType /\ FilesHold /\ PlacesRight /\ HeaderIs
    BY DEF HeaderInv, AsyncInv
  <2>1. i \in 1..Len(async_files[w][n])
    BY <2>0 DEF AsyncType
  <2>2. x \in Async!Fabs(w) /\ IFile(x[1]) = n
    BY <2>0, <2>1, SizesAre
  <2>3. Async!Bytes(Sizes(w, n), i - 1) = Async!offset(w)[x[1]] + Async!Bytes(s, x[2] - 1)
    BY <2>0, <2>1 DEF PlacesRight
  <2> HIDE DEF x
  <2>4. x[1] \in Async!Ranks /\ x[2] \in 1..Len(s) /\ s \in Seq(Nat)
    BY <2>0, <2>2, FabsAre
  <2>5. s # <<>>
    BY <2>4
  <2>6. Async!nbytes(w, x[1], x[2]) = Async!Bytes(s, x[2] - 1)
    BY <2>0, <2>4, <2>5, NumbersReadAll
  <2>7. header[w][x] = [m_name |-> Async!s_info[x[1]].ifile,
                        m_head |-> Async!nbytes(w, x[1], x[2]) + Async!offset(w)[x[1]]]
    BY <2>0, <2>2 DEF HeaderIs, Async!Header
  <2>8. Async!offset(w)[x[1]] \in Int /\ Async!Bytes(s, x[2] - 1) \in Nat
    <3>1. Async!offset(w)[x[1]] \in Int
      BY <2>0, <2>4, OffsetIs
    <3> HIDE DEF s
    <3>2. x[2] - 1 \in 0..Len(s)
      BY <2>4
    <3>3. Async!Bytes(s, x[2] - 1) \in Nat
      BY <2>4, <3>2, BytesIs
    <3> QED
      BY <3>1, <3>3
  <2>9. Async!s_info[x[1]].ifile = n
    BY <2>2 DEF IFile
  <2> QED
    BY <2>3, <2>6, <2>7, <2>8, <2>9 DEF x
<1> QED
  BY <1>1, AlwaysHeaderInv, PTL
=============================================================================
