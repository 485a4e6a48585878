------------------------------ MODULE FoldRule ------------------------------
(***************************************************************************)
(* Loop invariants.  A module that proves something about a loop            *)
(* instantiates this one with the loop's body, Step(e, h, x), which takes   *)
(* what the loop has computed so far, h, and the next entry of its list, x, *)
(* to the next h, and with the loop's invariant, Inv(e, k, h), which says   *)
(* what h is after k rounds.  e holds what the loop only reads.             *)
(***************************************************************************)
EXTENDS Integers, SequencesExt, WellFoundedInduction, TLAPS

CONSTANTS Step(_, _, _), Inv(_, _, _)

\* Induction over the natural numbers, for a set of them.
LEMMA NatSet ==
  ASSUME NEW T, 0 \in T, \A n \in Nat : n \in T => n + 1 \in T
  PROVE  Nat \subseteq T
  <1> DEFINE D == Nat \ T
  <1> SUFFICES ASSUME D # {} PROVE FALSE
    OBVIOUS
  <1>1. IsWellFoundedOn(OpToRel(<, Nat), Nat)
    BY NatLessThanWellFounded
  <1>2. PICK n \in D : \A m \in D : ~(<<m, n>> \in OpToRel(<, Nat))
    BY <1>1, WFMin
  <1>3. n # 0 /\ n - 1 \in Nat /\ n \in Nat
    OBVIOUS
  <1>4. <<n - 1, n>> \in OpToRel(<, Nat)
    BY <1>3 DEF OpToRel
  <1>5. n - 1 \in T
    BY <1>2, <1>3, <1>4
  <1>6. (n - 1) + 1 \in T
    BY <1>3, <1>5
  <1>7. QED BY <1>3, <1>6

LEMMA NatMin ==
  ASSUME NEW S, S \subseteq Nat, S # {}
  PROVE  \E n \in S : \A m \in S : n <= m
  <1>1. IsWellFoundedOn(OpToRel(<, Nat), Nat)
    BY NatLessThanWellFounded, Zenon
  <1>2. PICK n \in S : \A m \in S : ~(<<m, n>> \in OpToRel(<, Nat))
    BY <1>1, WFMin, Zenon
  <1>3. ASSUME NEW m \in S PROVE n <= m
    <2>1. ~(m < n)
      BY <1>2 DEF OpToRel
    <2>2. QED BY <2>1
  <1>4. QED BY <1>3

(***************************************************************************)
(* A loop over the entries of a sequence                                   *)
(***************************************************************************)

Folded(e, base, s) == FoldLeft(LAMBDA h, x : Step(e, h, x), base, s)

\* f is what FoldLeft picks: the fold over every set of positions up to n.
Iter(e, base, s, n, f) ==
  f = [t \in SUBSET (1 .. n) |->
         IF t = {} THEN base ELSE Step(e, f[t \ {Max(t)}], s[Max(t)])]

LEMMA MaxOf ==
  ASSUME NEW n \in Nat, NEW t \in SUBSET (1 .. n + 1), n + 1 \in t
  PROVE  Max(t) = n + 1
  <1>1. \A y \in t : n + 1 >= y
    OBVIOUS
  <1>2. \A x \in t : (\A y \in t : x >= y) => x = n + 1
    OBVIOUS
  <1>3. QED BY <1>1, <1>2 DEF Max

LEMMA IterExists ==
  ASSUME NEW e, NEW base, NEW s
  PROVE  \A n \in Nat : \E f : Iter(e, base, s, n, f)
  <1> DEFINE T == {n \in Nat : \E f : Iter(e, base, s, n, f)}
  <1>1. 0 \in T
    <2> DEFINE f == [t \in SUBSET (1 .. 0) |-> base]
    <2>1. SUBSET (1 .. 0) = {{}}
      OBVIOUS
    <2>2. f = [t \in SUBSET (1 .. 0) |-> IF t = {} THEN base ELSE Step(e, f[t \ {Max(t)}], s[Max(t)])]
      BY <2>1
    <2> HIDE DEF f
    <2>3. Iter(e, base, s, 0, f)
      BY <2>2 DEF Iter
    <2>4. QED BY <2>3
  <1>2. ASSUME NEW n \in Nat, n \in T PROVE n + 1 \in T
    <2>1. PICK f : Iter(e, base, s, n, f)
      BY <1>2
    <2> DEFINE h == [t \in SUBSET (1 .. n + 1) |->
                       IF n + 1 \in t THEN Step(e, f[t \ {n + 1}], s[n + 1]) ELSE f[t]]
    <2>2. ASSUME NEW t \in SUBSET (1 .. n + 1)
          PROVE  h[t] = IF t = {} THEN base ELSE Step(e, h[t \ {Max(t)}], s[Max(t)])
      <3>1. CASE n + 1 \in t
        <4>1. Max(t) = n + 1
          BY <3>1, MaxOf
        <4>2. t \ {n + 1} \in SUBSET (1 .. n + 1) /\ n + 1 \notin t \ {n + 1}
          OBVIOUS
        <4>3. h[t \ {n + 1}] = f[t \ {n + 1}]
          BY <4>2
        <4>4. h[t] = Step(e, f[t \ {n + 1}], s[n + 1])
          BY <3>1
        <4>5. QED BY <3>1, <4>1, <4>3, <4>4
      <3>2. CASE n + 1 \notin t
        <4>0. t \in SUBSET (1 .. n)
          BY <3>2
        <4>1. ASSUME NEW x PROVE t \ {x} \in SUBSET (1 .. n + 1) /\ n + 1 \notin t \ {x}
          BY <3>2
        <4>2. h[t] = f[t] /\ h[t \ {Max(t)}] = f[t \ {Max(t)}]
          BY <3>2, <4>1
        <4>3. f[t] = IF t = {} THEN base ELSE Step(e, f[t \ {Max(t)}], s[Max(t)])
          BY <2>1, <4>0 DEF Iter
        <4>4. QED BY <4>2, <4>3
      <3>3. QED BY <3>1, <3>2
    <2>3. h = [t \in SUBSET (1 .. n + 1) |-> h[t]]
      OBVIOUS
    <2> HIDE DEF h
    <2>4. Iter(e, base, s, n + 1, h)
      BY <2>2, <2>3 DEF Iter
    <2>5. QED BY <2>4
  <1>3. Nat \subseteq T
    BY <1>1, <1>2, NatSet
  <1>4. QED BY <1>3

\* A loop whose body keeps the invariant from round to round ends with it.
THEOREM FoldKeeps ==
  ASSUME NEW e, NEW S, NEW s \in Seq(S), NEW base, Inv(e, 0, base),
         ASSUME NEW k \in 1 .. Len(s), NEW h, Inv(e, k - 1, h)
         PROVE  Inv(e, k, Step(e, h, s[k]))
  PROVE  Inv(e, Len(s), Folded(e, base, s))
  <1> DEFINE f == CHOOSE f : Iter(e, base, s, Len(s), f)
  <1>0. Len(s) \in Nat /\ DOMAIN s = 1 .. Len(s)
    OBVIOUS
  <1>1. Folded(e, base, s) = f[1 .. Len(s)]
    BY <1>0 DEF Folded, FoldLeft, MapThenFoldSet, Iter
  <1>2. Iter(e, base, s, Len(s), f)
    BY <1>0, IterExists
  <1> HIDE DEF f
  <1> DEFINE T == {n \in Nat : n <= Len(s) => Inv(e, n, f[1 .. n])}
  <1>3. 0 \in T
    <2>1. 1 .. 0 = {} /\ {} \in SUBSET (1 .. Len(s))
      OBVIOUS
    <2>2. f[1 .. 0] = base
      BY <1>2, <2>1 DEF Iter
    <2>3. QED BY <2>2
  <1>4. ASSUME NEW n \in Nat, n \in T PROVE n + 1 \in T
    <2> SUFFICES ASSUME n + 1 <= Len(s) PROVE Inv(e, n + 1, f[1 .. n + 1])
      OBVIOUS
    <2>1. Inv(e, n, f[1 .. n])
      BY <1>0, <1>4
    <2>2. 1 .. n + 1 \in SUBSET (1 .. Len(s)) /\ n + 1 \in 1 .. n + 1
      BY <1>0
    <2>a. (1 .. n + 1) \ {n + 1} = 1 .. n
      OBVIOUS
    <2>b. 1 .. n + 1 # {}
      BY <2>2
    <2>3. Max(1 .. n + 1) = n + 1
      BY <2>2, MaxOf
    <2>4. f[1 .. n + 1] = Step(e, f[1 .. n], s[n + 1])
      BY <1>2, <2>2, <2>a, <2>b, <2>3 DEF Iter
    <2>5. n + 1 \in 1 .. Len(s) /\ (n + 1) - 1 = n
      BY <1>0
    <2>6. Inv(e, n + 1, Step(e, f[1 .. n], s[n + 1]))
      BY <2>1, <2>5
    <2>7. QED BY <2>4, <2>6
  <1>5. Nat \subseteq T
    BY <1>3, <1>4, NatSet
  <1>6. QED BY <1>0, <1>1, <1>5

LEMMA IterNext ==
  ASSUME NEW e, NEW base, NEW s, NEW n \in Nat, NEW f, Iter(e, base, s, n, f)
  PROVE  \A k \in Nat : k + 1 <= n => f[1 .. k + 1] = Step(e, f[1 .. k], s[k + 1])
  <1> SUFFICES ASSUME NEW k \in Nat, k + 1 <= n
               PROVE  f[1 .. k + 1] = Step(e, f[1 .. k], s[k + 1])
    OBVIOUS
  <1>1. /\ 1 .. k + 1 \in SUBSET (1 .. n)
        /\ 1 .. k + 1 # {} /\ (1 .. k + 1) \ {k + 1} = 1 .. k
    OBVIOUS
  <1>2. 1 .. k + 1 \in SUBSET (1 .. k + 1) /\ k + 1 \in 1 .. k + 1
    OBVIOUS
  <1>3. Max(1 .. k + 1) = k + 1
    BY <1>2, MaxOf
  <1>4. QED BY <1>1, <1>3 DEF Iter

LEMMA ItersAgree ==
  ASSUME NEW e, NEW base, NEW s, NEW z, NEW n \in Nat, NEW f, NEW g,
         Iter(e, base, s, n, f), Iter(e, base, z, n + 1, g), \A k \in 1 .. n : z[k] = s[k]
  PROVE  \A k \in Nat : k <= n => f[1 .. k] = g[1 .. k]
  <1>f. \A k \in Nat : k + 1 <= n => f[1 .. k + 1] = Step(e, f[1 .. k], s[k + 1])
    BY IterNext
  <1>g. \A k \in Nat : k + 1 <= n + 1 => g[1 .. k + 1] = Step(e, g[1 .. k], z[k + 1])
    <2> DEFINE m == n + 1
    <2>1. m \in Nat /\ Iter(e, base, z, m, g)
      OBVIOUS
    <2> HIDE DEF m
    <2>2. \A k \in Nat : k + 1 <= m => g[1 .. k + 1] = Step(e, g[1 .. k], z[k + 1])
      BY <2>1, IterNext
    <2>3. QED BY <2>2 DEF m
  <1> DEFINE T == {k \in Nat : k <= n => f[1 .. k] = g[1 .. k]}
  <1>1. 0 \in T
    <2>1. 1 .. 0 = {} /\ {} \in SUBSET (1 .. n) /\ {} \in SUBSET (1 .. n + 1)
      OBVIOUS
    <2>2. f[1 .. 0] = base /\ g[1 .. 0] = base
      BY <2>1 DEF Iter
    <2>3. QED BY <2>2
  <1>2. ASSUME NEW k \in Nat, k \in T PROVE k + 1 \in T
    <2> SUFFICES ASSUME k + 1 <= n PROVE f[1 .. k + 1] = g[1 .. k + 1]
      OBVIOUS
    <2>1. f[1 .. k] = g[1 .. k]
      BY <1>2
    <2>2. k + 1 <= n + 1
      OBVIOUS
    <2>3. f[1 .. k + 1] = Step(e, f[1 .. k], s[k + 1])
      BY <1>f
    <2>4. g[1 .. k + 1] = Step(e, g[1 .. k], z[k + 1])
      BY <1>g, <2>2
    <2>5. z[k + 1] = s[k + 1]
      OBVIOUS
    <2>6. QED BY <2>1, <2>3, <2>4, <2>5
  <1>3. Nat \subseteq T
    BY <1>1, <1>2, NatSet
  <1>4. QED BY <1>3

LEMMA FoldedIs ==
  ASSUME NEW e, NEW base, NEW S, NEW s \in Seq(S)
  PROVE  \E f : Iter(e, base, s, Len(s), f) /\ Folded(e, base, s) = f[1 .. Len(s)]
  <1> DEFINE f == CHOOSE f : Iter(e, base, s, Len(s), f)
  <1>0. Len(s) \in Nat /\ DOMAIN s = 1 .. Len(s)
    OBVIOUS
  <1>1. Folded(e, base, s) = f[1 .. Len(s)]
    BY <1>0 DEF Folded, FoldLeft, MapThenFoldSet, Iter
  <1>2. Iter(e, base, s, Len(s), f)
    BY <1>0, IterExists
  <1> HIDE DEF f
  <1>3. QED BY <1>1, <1>2

\* The loop over one entry more is one step more.
THEOREM FoldNext ==
  ASSUME NEW e, NEW base, NEW S, NEW s \in Seq(S), NEW x \in S
  PROVE  /\ Folded(e, base, <<>>) = base
         /\ Folded(e, base, Append(s, x)) = Step(e, Folded(e, base, s), x)
  <1>1. Folded(e, base, <<>>) = base
    <2>1. <<>> \in Seq(S) /\ Len(<<>>) = 0
      OBVIOUS
    <2>2. PICK f : Iter(e, base, <<>>, 0, f) /\ Folded(e, base, <<>>) = f[1 .. 0]
      BY <2>1, FoldedIs
    <2>3. 1 .. 0 = {} /\ {} \in SUBSET (1 .. 0)
      OBVIOUS
    <2>4. QED BY <2>2, <2>3 DEF Iter
  <1>2. Folded(e, base, Append(s, x)) = Step(e, Folded(e, base, s), x)
    <2> DEFINE n == Len(s)
               z == Append(s, x)
    <2>1. /\ n \in Nat /\ z \in Seq(S) /\ Len(z) = n + 1 /\ z[n + 1] = x
          /\ \A k \in 1 .. n : z[k] = s[k]
      OBVIOUS
    <2>2. PICK f : Iter(e, base, s, n, f) /\ Folded(e, base, s) = f[1 .. n]
      BY FoldedIs
    <2> HIDE DEF z, n
    <2>3. PICK g : Iter(e, base, z, n + 1, g) /\ Folded(e, base, z) = g[1 .. n + 1]
      <3>1. \E g : Iter(e, base, z, Len(z), g) /\ Folded(e, base, z) = g[1 .. Len(z)]
        BY <2>1, FoldedIs
      <3>2. QED BY <2>1, <3>1
    <2>4. f[1 .. n] = g[1 .. n]
      <3>1. \A k \in Nat : k <= n => f[1 .. k] = g[1 .. k]
        BY <2>1, <2>2, <2>3, ItersAgree
      <3>2. QED BY <2>1, <3>1
    <2>5. g[1 .. n + 1] = Step(e, g[1 .. n], z[n + 1])
      <3>1. n + 1 \in Nat /\ n + 1 <= n + 1
        BY <2>1
      <3>2. QED BY <2>1, <2>3, <3>1, IterNext
    <2>6. QED BY <2>1, <2>2, <2>3, <2>4, <2>5 DEF z
  <1>3. QED BY <1>1, <1>2

(***************************************************************************)
(* A loop of N rounds, written as a recursive function                     *)
(***************************************************************************)

Rounds(e, base, N) ==
  LET f[n \in 0 .. N] == IF n = 0 THEN base ELSE Step(e, f[n - 1], n)
  IN  f[N]

Chain(e, base, n, f) ==
  f = [k \in 0 .. n |-> IF k = 0 THEN base ELSE Step(e, f[k - 1], k)]

LEMMA ChainExists ==
  ASSUME NEW e, NEW base
  PROVE  \A n \in Nat : \E f : Chain(e, base, n, f)
  <1> DEFINE T == {n \in Nat : \E f : Chain(e, base, n, f)}
  <1>1. 0 \in T
    <2> DEFINE f == [k \in 0 .. 0 |-> base]
    <2>1. \A k \in 0 .. 0 : k = 0
      OBVIOUS
    <2>2. f = [k \in 0 .. 0 |-> IF k = 0 THEN base ELSE Step(e, f[k - 1], k)]
      BY <2>1
    <2> HIDE DEF f
    <2>3. Chain(e, base, 0, f)
      BY <2>2 DEF Chain
    <2>4. QED BY <2>3
  <1>2. ASSUME NEW n \in Nat, n \in T PROVE n + 1 \in T
    <2>1. PICK f : Chain(e, base, n, f)
      BY <1>2
    <2> DEFINE h == [k \in 0 .. n + 1 |->
                       IF k = n + 1 THEN Step(e, f[n], n + 1) ELSE f[k]]
    <2>2. ASSUME NEW k \in 0 .. n + 1
          PROVE  h[k] = IF k = 0 THEN base ELSE Step(e, h[k - 1], k)
      <3>1. CASE k = n + 1
        <4>1. k - 1 \in 0 .. n + 1 /\ k - 1 # n + 1 /\ k - 1 = n /\ k # 0
          BY <3>1
        <4>2. h[k - 1] = f[n] /\ h[k] = Step(e, f[n], n + 1)
          BY <3>1, <4>1
        <4>3. QED BY <3>1, <4>1, <4>2
      <3>2. CASE k # n + 1
        <4>1. k \in 0 .. n
          BY <3>2
        <4>2. h[k] = f[k]
          BY <3>2
        <4>3. f[k] = IF k = 0 THEN base ELSE Step(e, f[k - 1], k)
          BY <2>1, <4>1 DEF Chain
        <4>4. k # 0 => h[k - 1] = f[k - 1]
          BY <4>1
        <4>5. QED BY <4>2, <4>3, <4>4
      <3>3. QED BY <3>1, <3>2
    <2>3. h = [k \in 0 .. n + 1 |-> h[k]]
      OBVIOUS
    <2> HIDE DEF h
    <2>4. Chain(e, base, n + 1, h)
      BY <2>2, <2>3 DEF Chain
    <2>5. QED BY <2>4
  <1>3. Nat \subseteq T
    BY <1>1, <1>2, NatSet
  <1>4. QED BY <1>3

\* The same for a loop that counts its rounds.
THEOREM RoundsKeep ==
  ASSUME NEW e, NEW N \in Nat, NEW base, Inv(e, 0, base),
         ASSUME NEW k \in 1 .. N, NEW h, Inv(e, k - 1, h)
         PROVE  Inv(e, k, Step(e, h, k))
  PROVE  Inv(e, N, Rounds(e, base, N))
  <1> DEFINE f == CHOOSE f : Chain(e, base, N, f)
  <1>1. Rounds(e, base, N) = f[N]
    BY DEF Rounds, Chain
  <1>2. Chain(e, base, N, f)
    BY ChainExists
  <1> HIDE DEF f
  <1> DEFINE T == {n \in Nat : n <= N => Inv(e, n, f[n])}
  <1>3. 0 \in T
    <2>1. 0 \in 0 .. N
      OBVIOUS
    <2>2. f[0] = base
      BY <1>2, <2>1 DEF Chain
    <2>3. QED BY <2>2
  <1>4. ASSUME NEW n \in Nat, n \in T PROVE n + 1 \in T
    <2> SUFFICES ASSUME n + 1 <= N PROVE Inv(e, n + 1, f[n + 1])
      OBVIOUS
    <2>1. Inv(e, n, f[n])
      BY <1>4
    <2>2. n + 1 \in 0 .. N /\ n + 1 # 0 /\ (n + 1) - 1 = n /\ n + 1 \in 1 .. N
      OBVIOUS
    <2>3. f[n + 1] = Step(e, f[n], n + 1)
      BY <1>2, <2>2 DEF Chain
    <2>4. Inv(e, n + 1, Step(e, f[n], n + 1))
      BY <2>1, <2>2
    <2>5. QED BY <2>3, <2>4
  <1>5. Nat \subseteq T
    BY <1>3, <1>4, NatSet
  <1>6. QED BY <1>1, <1>5

LEMMA ChainsAgree ==
  ASSUME NEW e, NEW base, NEW m \in Nat, NEW n \in Nat, NEW f, NEW g,
         Chain(e, base, m, f), Chain(e, base, n, g)
  PROVE  \A k \in Nat : k <= m /\ k <= n => f[k] = g[k]
  <1> DEFINE T == {k \in Nat : k <= m /\ k <= n => f[k] = g[k]}
  <1>1. 0 \in T
    <2>1. 0 \in 0 .. m /\ 0 \in 0 .. n
      OBVIOUS
    <2>2. f[0] = base /\ g[0] = base
      BY <2>1 DEF Chain
    <2>3. QED BY <2>2
  <1>2. ASSUME NEW k \in Nat, k \in T PROVE k + 1 \in T
    <2> SUFFICES ASSUME k + 1 <= m, k + 1 <= n PROVE f[k + 1] = g[k + 1]
      OBVIOUS
    <2>1. f[k] = g[k]
      BY <1>2
    <2>2. k + 1 \in 0 .. m /\ k + 1 \in 0 .. n /\ k + 1 # 0 /\ (k + 1) - 1 = k
      OBVIOUS
    <2>3. f[k + 1] = Step(e, f[k], k + 1)
      BY <2>2 DEF Chain
    <2>4. g[k + 1] = Step(e, g[k], k + 1)
      BY <2>2 DEF Chain
    <2>5. QED BY <2>1, <2>3, <2>4
  <1>3. Nat \subseteq T
    BY <1>1, <1>2, NatSet
  <1>4. QED BY <1>3

\* The recursion itself: no round gives the base, and one round more is one
\* step more.
THEOREM RoundsNext ==
  ASSUME NEW e, NEW base
  PROVE  /\ Rounds(e, base, 0) = base
         /\ \A n \in Nat : Rounds(e, base, n + 1) = Step(e, Rounds(e, base, n), n + 1)
  <1> DEFINE F(n) == CHOOSE f : Chain(e, base, n, f)
  <1>1. ASSUME NEW n \in Nat PROVE Chain(e, base, n, F(n)) /\ Rounds(e, base, n) = F(n)[n]
    <2>1. Chain(e, base, n, F(n))
      BY ChainExists
    <2>2. Rounds(e, base, n) = F(n)[n]
      BY DEF Rounds, Chain
    <2>3. QED BY <2>1, <2>2
  <1> HIDE DEF F
  <1>2. Rounds(e, base, 0) = base
    <2>1. Chain(e, base, 0, F(0)) /\ Rounds(e, base, 0) = F(0)[0] /\ 0 \in 0 .. 0
      BY <1>1
    <2>2. QED BY <2>1 DEF Chain
  <1>3. ASSUME NEW n \in Nat
        PROVE  Rounds(e, base, n + 1) = Step(e, Rounds(e, base, n), n + 1)
    <2>1. Chain(e, base, n, F(n)) /\ Rounds(e, base, n) = F(n)[n]
      BY <1>1
    <2>2. Chain(e, base, n + 1, F(n + 1)) /\ Rounds(e, base, n + 1) = F(n + 1)[n + 1]
      BY <1>1
    <2>3. F(n + 1)[n] = F(n)[n]
      <3>1. n + 1 \in Nat /\ n <= n + 1 /\ n <= n
        OBVIOUS
      <3>2. QED BY ONLY <2>1, <2>2, <3>1, ChainsAgree, n \in Nat, SMT
    <2>4. n + 1 \in 0 .. n + 1 /\ n + 1 # 0 /\ (n + 1) - 1 = n
      OBVIOUS
    <2>5. F(n + 1)[n + 1] = Step(e, F(n + 1)[n], n + 1)
      BY <2>2, <2>4 DEF Chain
    <2>6. QED BY <2>1, <2>2, <2>3, <2>5
  <1>4. QED BY <1>2, <1>3
=============================================================================
