-------------------------- MODULE QuantizersProofs --------------------------
(***************************************************************************)
(* Theorems about the distance kernels and the quantizers, for every        *)
(* dimension, every machine and any number of threads.                      *)
(***************************************************************************)
EXTENDS Quantizers, SequenceTheorems, FiniteSetTheorems, TLAPS

(***************************************************************************)
(* Sums                                                                    *)
(***************************************************************************)
AddTerm(terms, h, i) == h + terms[i]
NoInv(e, k, h) == TRUE
Loop == INSTANCE FoldRule WITH Step <- AddTerm, Inv <- NoInv

\* The first n of terms.
SumTo(terms, n) == Loop!Rounds(terms, 0, n)

LEMMA SumIs == ASSUME NEW terms PROVE SumOver(terms) = SumTo(terms, Len(terms))
  BY DEF SumOver, SumTo, Loop!Rounds, AddTerm

LEMMA SumNext ==
  ASSUME NEW terms
  PROVE  /\ SumTo(terms, 0) = 0
         /\ \A n \in Nat : SumTo(terms, n + 1) = SumTo(terms, n) + terms[n + 1]
  BY Loop!RoundsNext DEF SumTo, AddTerm

LEMMA SumType ==
  ASSUME NEW terms, NEW N \in Nat, \A i \in 1 .. N : terms[i] \in Int
  PROVE  \A n \in 0 .. N : SumTo(terms, n) \in Int
  <1> DEFINE T == {n \in Nat : n <= N => SumTo(terms, n) \in Int}
  <1>1. 0 \in T
    BY SumNext
  <1>2. ASSUME NEW n \in Nat, n \in T PROVE n + 1 \in T
    <2> SUFFICES ASSUME n + 1 <= N PROVE SumTo(terms, n + 1) \in Int
      OBVIOUS
    <2>1. SumTo(terms, n) \in Int /\ terms[n + 1] \in Int
      BY <1>2
    <2>2. QED BY <2>1, SumNext
  <1>3. Nat \subseteq T
    BY <1>1, <1>2, Loop!NatSet
  <1>4. QED BY <1>3

\* Sums of the same terms are the same, and the sum of sums is the sum.
LEMMA SumSame ==
  ASSUME NEW s, NEW t, NEW N \in Nat, \A i \in 1 .. N : s[i] = t[i]
  PROVE  \A n \in 0 .. N : SumTo(s, n) = SumTo(t, n)
  <1> DEFINE T == {n \in Nat : n <= N => SumTo(s, n) = SumTo(t, n)}
  <1>1. 0 \in T
    BY SumNext
  <1>2. ASSUME NEW n \in Nat, n \in T PROVE n + 1 \in T
    <2> SUFFICES ASSUME n + 1 <= N PROVE SumTo(s, n + 1) = SumTo(t, n + 1)
      OBVIOUS
    <2>1. SumTo(s, n) = SumTo(t, n) /\ s[n + 1] = t[n + 1]
      BY <1>2
    <2>2. QED BY <2>1, SumNext
  <1>3. Nat \subseteq T
    BY <1>1, <1>2, Loop!NatSet
  <1>4. QED BY <1>3

LEMMA SumOfSums ==
  ASSUME NEW s, NEW t, NEW u, NEW N \in Nat,
         \A i \in 1 .. N : s[i] \in Int /\ t[i] \in Int /\ u[i] = s[i] + t[i]
  PROVE  SumTo(u, N) = SumTo(s, N) + SumTo(t, N)
  <1> DEFINE T == {n \in Nat : n <= N => SumTo(u, n) = SumTo(s, n) + SumTo(t, n)}
  <1>1. 0 \in T
    BY SumNext
  <1>2. ASSUME NEW n \in Nat, n \in T PROVE n + 1 \in T
    <2> SUFFICES ASSUME n + 1 <= N
                 PROVE  SumTo(u, n + 1) = SumTo(s, n + 1) + SumTo(t, n + 1)
      OBVIOUS
    <2>1. SumTo(u, n) = SumTo(s, n) + SumTo(t, n)
      BY <1>2
    <2>2. s[n + 1] \in Int /\ t[n + 1] \in Int /\ u[n + 1] = s[n + 1] + t[n + 1]
      OBVIOUS
    <2>3. SumTo(s, n) \in Int /\ SumTo(t, n) \in Int
      BY SumType
    <2>4. /\ SumTo(u, n + 1) = SumTo(u, n) + u[n + 1]
          /\ SumTo(s, n + 1) = SumTo(s, n) + s[n + 1]
          /\ SumTo(t, n + 1) = SumTo(t, n) + t[n + 1]
      BY SumNext
    <2>5. QED BY <2>1, <2>2, <2>3, <2>4
  <1>3. Nat \subseteq T
    BY <1>1, <1>2, Loop!NatSet
  <1>4. QED BY <1>3

\* The sum of what comes first and of the rest.
LEMMA SumSplit ==
  ASSUME NEW terms, NEW m \in Nat, NEW N \in Nat, NEW rest,
         \A i \in 1 .. m + N : terms[i] \in Int,
         \A i \in 1 .. N : rest[i] = terms[m + i]
  PROVE  SumTo(terms, m + N) = SumTo(terms, m) + SumTo(rest, N)
  <1> DEFINE T == {n \in Nat : n <= N => SumTo(terms, m + n) = SumTo(terms, m) + SumTo(rest, n)}
  <1>0. SumTo(terms, m) \in Int
    <2>1. m + N \in Nat /\ m \in 0 .. m + N
      OBVIOUS
    <2>2. QED BY <2>1, SumType
  <1>1. 0 \in T
    BY <1>0, SumNext
  <1>2. ASSUME NEW n \in Nat, n \in T PROVE n + 1 \in T
    <2> SUFFICES ASSUME n + 1 <= N
                 PROVE  SumTo(terms, m + (n + 1)) = SumTo(terms, m) + SumTo(rest, n + 1)
      OBVIOUS
    <2>1. SumTo(terms, m + n) = SumTo(terms, m) + SumTo(rest, n)
      BY <1>2
    <2>2. rest[n + 1] = terms[m + (n + 1)] /\ rest[n + 1] \in Int
      OBVIOUS
    <2>3. \A i \in 1 .. N : rest[i] \in Int
      OBVIOUS
    <2>4. SumTo(rest, n) \in Int
      BY <2>3, SumType
    <2>5. SumTo(rest, n + 1) = SumTo(rest, n) + rest[n + 1]
      BY SumNext
    <2>6. SumTo(terms, m + (n + 1)) = SumTo(terms, m + n) + terms[m + (n + 1)]
      <3>1. m + n \in Nat /\ (m + n) + 1 = m + (n + 1)
        OBVIOUS
      <3>2. SumTo(terms, (m + n) + 1) = SumTo(terms, m + n) + terms[(m + n) + 1]
        BY <3>1, SumNext
      <3>3. QED BY <3>1, <3>2
    <2>7. QED BY <1>0, <2>1, <2>2, <2>4, <2>5, <2>6
  <1>3. Nat \subseteq T
    BY <1>1, <1>2, Loop!NatSet
  <1>4. QED BY <1>3

(***************************************************************************)
(* The loop of lanes and rest                                              *)
(***************************************************************************)
LEMMA LaneNumbers ==
  ASSUME NEW w \in {1, 4, 8, 16}, NEW n \in Nat
  PROVE  /\ n \div w \in Nat /\ n % w \in Nat
         /\ w * (n \div w) \in Nat /\ n = w * (n \div w) + (n % w)
         /\ \A b \in 0 .. (n \div w) - 1 : \A j \in 1 .. w :
              /\ (b + 1 - 1) * w + j = w * b + j /\ w * b + j \in 1 .. n
              /\ w * (b + 1) = w * b + w /\ w * b \in Nat
         /\ \A i \in 1 .. (n % w) : w * (n \div w) + i \in 1 .. n
  <1> DEFINE whole == n \div w
             r == n % w
  <1>1. whole \in Nat /\ r \in Nat /\ n = w * whole + r /\ w \in Nat
    <2>1. CASE w = 1 BY <2>1
    <2>2. CASE w = 4 BY <2>2
    <2>3. CASE w = 8 BY <2>3
    <2>4. CASE w = 16 BY <2>4
    <2>5. QED BY <2>1, <2>2, <2>3, <2>4
  <1> HIDE DEF whole, r
  <1>2. w * whole \in Nat
    BY <1>1
  <1>3. ASSUME NEW b \in 0 .. whole - 1, NEW j \in 1 .. w
        PROVE  /\ (b + 1 - 1) * w + j = w * b + j /\ w * b + j \in 1 .. n
               /\ w * (b + 1) = w * b + w /\ w * b \in Nat
    <2>1. CASE w = 1 BY <1>1, <2>1
    <2>2. CASE w = 4 BY <1>1, <2>2
    <2>3. CASE w = 8 BY <1>1, <2>3
    <2>4. CASE w = 16 BY <1>1, <2>4
    <2>5. QED BY <2>1, <2>2, <2>3, <2>4
  <1>4. \A i \in 1 .. r : w * whole + i \in 1 .. n
    BY <1>1, <1>2
  <1>5. QED BY <1>1, <1>2, <1>3, <1>4, Zenon DEF whole, r

\* However wide the lanes are, every term is added once.
LEMMA LaneSumIs ==
  ASSUME NEW w \in {1, 4, 8, 16}, NEW terms \in Seq(Int)
  PROVE  LaneSum(w, terms) = SumTo(terms, Len(terms))
  <1> DEFINE n == Len(terms)
             blocks == n \div w
             left == n % w
             column(j) == [b \in 1 .. blocks |-> terms[(b - 1) * w + j]]
             rest == [i \in 1 .. left |-> terms[w * blocks + i]]
             \* The lanes after B blocks.
             row(B) == [j \in 1 .. w |-> SumTo(column(j), B)]
  <1>0. n \in Nat /\ \A i \in 1 .. n : terms[i] \in Int
    OBVIOUS
  <1>1. /\ blocks \in Nat /\ left \in Nat
        /\ w * blocks \in Nat /\ n = w * blocks + left /\ w \in Nat
        /\ \A b \in 0 .. blocks - 1 : \A j \in 1 .. w :
             /\ (b + 1 - 1) * w + j = w * b + j /\ w * b + j \in 1 .. n
             /\ w * (b + 1) = w * b + w /\ w * b \in Nat
        /\ \A i \in 1 .. left : w * blocks + i \in 1 .. n
    <2>1. w \in Nat
      OBVIOUS
    <2>2. QED BY <1>0, <2>1, LaneNumbers, Zenon
  <1>2. LaneSum(w, terms) = SumTo(row(blocks), w) + SumTo(rest, left)
    <2>1. \A j \in 1 .. w : SumOver(column(j)) = SumTo(column(j), blocks)
      <3>1. \A j : Len(column(j)) = blocks
        BY <1>1
      <3>2. QED BY <3>1, SumIs
    <2>2. row(blocks) = [j \in 1 .. w |-> SumOver(column(j))]
      BY <2>1
    <2>3. Len(row(blocks)) = w /\ Len(rest) = left
      BY <1>1
    <2>4. /\ SumOver(row(blocks)) = SumTo(row(blocks), w)
          /\ SumOver(rest) = SumTo(rest, left)
      BY <2>3, SumIs
    <2>5. LaneSum(w, terms) = SumOver([j \in 1 .. w |-> SumOver(column(j))]) + SumOver(rest)
      BY DEF LaneSum, Rest
    <2> HIDE DEF row, rest, column, blocks
    <2>6. QED BY <2>2, <2>4, <2>5
  <1>3. ASSUME NEW b \in 0 .. blocks - 1, NEW j \in 1 .. w
        PROVE  column(j)[b + 1] = terms[w * b + j] /\ terms[w * b + j] \in Int
    <2>1. b + 1 \in 1 .. blocks
      BY <1>1
    <2>2. (b + 1 - 1) * w + j = w * b + j /\ w * b + j \in 1 .. n
      BY <1>1
    <2> HIDE DEF blocks, n
    <2>3. column(j)[b + 1] = terms[(b + 1 - 1) * w + j]
      BY <2>1
    <2>4. QED BY <1>0, <2>2, <2>3
  <1>4. ASSUME NEW j \in 1 .. w PROVE \A B \in 0 .. blocks : SumTo(column(j), B) \in Int
    <2>1. \A i \in 1 .. blocks : column(j)[i] \in Int
      <3> SUFFICES ASSUME NEW i \in 1 .. blocks PROVE column(j)[i] \in Int
        OBVIOUS
      <3> DEFINE b == i - 1
      <3>1. b \in 0 .. blocks - 1 /\ b + 1 = i
        BY <1>1
      <3> HIDE DEF b, column, blocks, n
      <3>2. column(j)[b + 1] \in Int
        BY <1>3, <3>1
      <3>3. QED BY <3>1, <3>2
    <2> HIDE DEF column, blocks, n
    <2>2. QED BY <1>1, <2>1, SumType
  <1> HIDE DEF blocks, n, column, rest, left
  <1> DEFINE T == {B \in Nat : B <= blocks => SumTo(row(B), w) = SumTo(terms, w * B)}
  <1>5. 0 \in T
    <2>1. \A j \in 1 .. w : row(0)[j] = 0
      BY SumNext
    <2>2. SumTo(row(0), w) = 0
      <3> DEFINE Z == {m \in Nat : m <= w => SumTo(row(0), m) = 0}
      <3>1. 0 \in Z
        BY SumNext
      <3>2. ASSUME NEW m \in Nat, m \in Z PROVE m + 1 \in Z
        <4> SUFFICES ASSUME m + 1 <= w PROVE SumTo(row(0), m + 1) = 0
          OBVIOUS
        <4>1. SumTo(row(0), m) = 0
          BY <1>1, <3>2
        <4>2. row(0)[m + 1] = 0
          BY <1>1, <2>1
        <4> HIDE DEF row
        <4>3. SumTo(row(0), m + 1) = SumTo(row(0), m) + row(0)[m + 1]
          BY SumNext
        <4>4. QED BY <4>1, <4>2, <4>3
      <3>3. Nat \subseteq Z
        BY <3>1, <3>2, Loop!NatSet
      <3>4. QED BY <1>1, <3>3
    <2>3. w * 0 = 0
      BY <1>1
    <2>4. QED BY <2>2, <2>3, SumNext
  <1>6. ASSUME NEW B \in Nat, B \in T PROVE B + 1 \in T
    <2> SUFFICES ASSUME B + 1 <= blocks
                 PROVE  SumTo(row(B + 1), w) = SumTo(terms, w * (B + 1))
      OBVIOUS
    <2>0. B \in 0 .. blocks - 1 /\ B \in 0 .. blocks /\ B <= blocks
      BY <1>1
    <2>1. SumTo(row(B), w) = SumTo(terms, w * B)
      BY <1>6, <2>0
    <2> DEFINE block == [j \in 1 .. w |-> terms[w * B + j]]
    <2>2. ASSUME NEW j \in 1 .. w
          PROVE  /\ row(B)[j] \in Int /\ block[j] \in Int
                 /\ row(B + 1)[j] = row(B)[j] + block[j]
      <3>1. row(B)[j] = SumTo(column(j), B) /\ row(B + 1)[j] = SumTo(column(j), B + 1)
        OBVIOUS
      <3>2. SumTo(column(j), B + 1) = SumTo(column(j), B) + column(j)[B + 1]
        BY SumNext
      <3>3. QED BY <1>3, <1>4, <2>0, <3>1, <3>2
    <2> HIDE DEF row
    <2>3. SumTo(row(B + 1), w) = SumTo(row(B), w) + SumTo(block, w)
      <3> DEFINE s == row(B)
                 u == row(B + 1)
      <3>1. \A j \in 1 .. w : s[j] \in Int /\ block[j] \in Int /\ u[j] = s[j] + block[j]
        BY <2>2
      <3> HIDE DEF s, u, block
      <3>2. SumTo(u, w) = SumTo(s, w) + SumTo(block, w)
        BY <1>1, <3>1, SumOfSums
      <3>3. QED BY <3>2 DEF s, u
    <2>4. w * B \in Nat /\ w * (B + 1) = w * B + w
      <3>1. 1 \in 1 .. w
        OBVIOUS
      <3>2. QED BY <1>1, <2>0, <3>1
    <2>5. \A i \in 1 .. w * B + w : terms[i] \in Int
      <3>1. w * B + w \in 1 .. n
        <4>1. w \in 1 .. w
          OBVIOUS
        <4>2. QED BY <1>1, <2>0, <4>1
      <3>2. QED BY <1>0, <3>1
    <2>6. \A j \in 1 .. w : block[j] = terms[w * B + j]
      OBVIOUS
    <2> DEFINE m == w * B
    <2>a. /\ m \in Nat
          /\ \A i \in 1 .. m + w : terms[i] \in Int
          /\ \A j \in 1 .. w : block[j] = terms[m + j]
      BY <2>4, <2>5, <2>6
    <2> HIDE DEF m, block
    <2>7. SumTo(terms, m + w) = SumTo(terms, m) + SumTo(block, w)
      BY <1>1, <2>a, SumSplit
    <2>8. QED BY <2>1, <2>3, <2>4, <2>7 DEF m
  <1>7. Nat \subseteq T
    BY <1>5, <1>6, Loop!NatSet
  <1>8. SumTo(row(blocks), w) = SumTo(terms, w * blocks)
    BY <1>1, <1>7
  <1>9. SumTo(terms, w * blocks + left) = SumTo(terms, w * blocks) + SumTo(rest, left)
    <2>1. \A i \in 1 .. left : rest[i] = terms[w * blocks + i]
      BY DEF rest
    <2>2. \A i \in 1 .. w * blocks + left : terms[i] \in Int
      BY <1>0, <1>1
    <2> DEFINE m == w * blocks
    <2>3. m \in Nat /\ left \in Nat
      BY <1>1
    <2>4. (\A i \in 1 .. left : rest[i] = terms[m + i]) /\ \A i \in 1 .. m + left : terms[i] \in Int
      BY <2>1, <2>2
    <2> HIDE DEF m
    <2>5. SumTo(terms, m + left) = SumTo(terms, m) + SumTo(rest, left)
      BY <2>3, <2>4, SumSplit
    <2>6. QED BY <2>5 DEF m
  <1>10. QED BY <1>1, <1>2, <1>8, <1>9 DEF n

\* Every kernel computes the sums of the scalar one.
LEMMA KernelsAgree ==
  ASSUME NEW k \in Kernels
  PROVE  KernelAgrees[k]
  <1>1. Lanes[k] \in {1, 4, 8, 16} /\ Lanes["naive"] \in {1, 4, 8, 16}
    BY DEF Lanes, Kernels
  <1>2. ASSUME NEW a \in Seq(Int), NEW b \in Seq(Int), Len(a) = Len(b)
        PROVE  l2(k, a, b) = l2("naive", a, b) /\ dot(k, a, b) = dot("naive", a, b)
    <2> DEFINE squares == [i \in 1 .. Len(a) |-> (a[i] - b[i]) * (a[i] - b[i])]
               products == [i \in 1 .. Len(a) |-> a[i] * b[i]]
    <2>1. Len(a) \in Nat /\ \A i \in 1 .. Len(a) : a[i] \in Int /\ b[i] \in Int
      BY <1>2
    <2>2. squares \in Seq(Int) /\ products \in Seq(Int)
      BY <2>1
    <2>3. /\ l2(k, a, b) = LaneSum(Lanes[k], squares)
          /\ l2("naive", a, b) = LaneSum(Lanes["naive"], squares)
          /\ dot(k, a, b) = LaneSum(Lanes[k], products)
          /\ dot("naive", a, b) = LaneSum(Lanes["naive"], products)
      BY DEF l2, dot
    <2> HIDE DEF squares, products
    <2>4. QED BY <1>1, <2>2, <2>3, LaneSumIs
  <1>3. ASSUME NEW a \in Seq(Int), NEW b \in Seq(Int), Len(a) = Len(b)
        PROVE  cosine(k, a, b) = cosine("naive", a, b)
    BY <1>2, <1>3 DEF cosine
  <1>4. ASSUME NEW metric \in Metrics, NEW p \in Pairs,
               metric # "kIP" \/ NullPtr \notin {p.a, p.b}
        PROVE  Distance(metric, k, p.a, p.b) = Distance(metric, "naive", p.a, p.b)
    <2>1. CASE NullPtr \in {p.a, p.b}
      BY <1>4, <2>1 DEF Distance, Metrics
    <2>2. CASE NullPtr \notin {p.a, p.b}
      <3>1. p.a \in Seq(Int) /\ p.b \in Seq(Int) /\ Len(p.a) = Len(p.b)
        BY <2>2, VectorMathAssumption
      <3>2. /\ l2(k, p.a, p.b) = l2("naive", p.a, p.b)
            /\ cosine(k, p.a, p.b) = cosine("naive", p.a, p.b)
        BY <1>2, <1>3, <3>1
      <3>3. QED BY <3>2 DEF Distance, Metrics
    <2>3. QED BY <2>1, <2>2
  <1>5. QED BY <1>4, Zenon DEF KernelAgrees

(***************************************************************************)
(* The choice of a kernel                                                  *)
(***************************************************************************)

\* The table is written once, for this machine, before any thread loads it.
KernelInv ==
  /\ MathTypeOK
  /\ once = "done" => g_kernels = select_kernels(cpu)
  /\ \A t \in Threads : at[t] = "loaded" => kernel[t] = select_kernels(cpu)

LEMMA SelectedExecutes ==
  ASSUME NEW c \in Cpus
  PROVE  select_kernels(c) \in Kernels /\ Executes(c, select_kernels(c))
  <1>1. CASE "neon" \in Built /\ c.arch = "arm64"
    BY <1>1 DEF select_kernels, Executes, Kernels
  <1>2. CASE ~("neon" \in Built /\ c.arch = "arm64")
             /\ "avx2" \in Built /\ c.arch = "x86" /\ cpu_can_use_avx2(c)
    BY <1>2 DEF select_kernels, Executes, Kernels, cpu_can_use_avx2
  <1>3. CASE ~("neon" \in Built /\ c.arch = "arm64")
             /\ "avx512" \in Built /\ c.arch = "x86" /\ ~cpu_can_use_avx2(c)
             /\ cpu_can_use_avx512f(c)
    BY <1>3 DEF select_kernels, Executes, Kernels, cpu_can_use_avx512f
  <1>4. CASE /\ ~("neon" \in Built /\ c.arch = "arm64")
             /\ ~("avx2" \in Built /\ c.arch = "x86" /\ cpu_can_use_avx2(c))
             /\ ~("avx512" \in Built /\ c.arch = "x86" /\ ~cpu_can_use_avx2(c)
                  /\ cpu_can_use_avx512f(c))
    BY <1>4 DEF select_kernels, Executes, Kernels
  <1>5. QED BY <1>1, <1>2, <1>3, <1>4

LEMMA KernelInit == Init => KernelInv
  BY DEF Init, MathInit, KernelInv, MathTypeOK, Kernels

LEMMA KernelNext == KernelInv /\ [Next]_vars => KernelInv'
  <1> SUFFICES ASSUME KernelInv, [Next]_vars PROVE KernelInv'
    OBVIOUS
  <1> USE DEF KernelInv, MathTypeOK
  <1>0. select_kernels(cpu) \in Kernels /\ "naive" \in Kernels
    BY SelectedExecutes DEF Kernels
  <1>1. CASE UNCHANGED mathVars
    BY <1>1 DEF mathVars, select_kernels, cpu_can_use_avx2, cpu_can_use_avx512f
  <1>2. ASSUME NEW t \in Threads, EnterDistance(t) PROVE KernelInv'
    BY <1>2 DEF EnterDistance
  <1>3. ASSUME NEW t \in Threads, CallOnce(t) PROVE KernelInv'
    BY <1>3, VectorMathAssumption DEF CallOnce
  <1>4. ASSUME NEW t \in Threads, SelectKernels(t) PROVE KernelInv'
    BY <1>0, <1>4 DEF SelectKernels
  <1>5. ASSUME NEW t \in Threads, LoadKernels(t) PROVE KernelInv'
    BY <1>5 DEF LoadKernels
  <1>6. ASSUME NEW t \in Threads, ReturnDistance(t) PROVE KernelInv'
    BY <1>0, <1>6 DEF ReturnDistance
  <1>7. QED
    BY <1>1, <1>2, <1>3, <1>4, <1>5, <1>6 DEF Next, MathNext, vars

\* On every machine and in every build, whichever thread wins the race to choose
\* a kernel and whenever the others load it, the machine executes it, and each
\* distance of vectors of any dimension is the scalar one: every coordinate is
\* added once, by a lane or by the loop over the rest.
THEOREM KernelsAreExact == Spec => []DistancesAreExact
  <1>1. KernelInv => DistancesAreExact
    <2> SUFFICES ASSUME KernelInv, NEW t \in Threads, at[t] = "loaded"
                 PROVE  Executes(cpu, kernel[t]) /\ KernelAgrees[kernel[t]]
      BY DEF DistancesAreExact
    <2>1. kernel[t] = select_kernels(cpu) /\ cpu \in Cpus
      BY DEF KernelInv, MathTypeOK
    <2>2. Executes(cpu, kernel[t]) /\ kernel[t] \in Kernels
      BY <2>1, SelectedExecutes
    <2>3. QED BY <2>2, KernelsAgree
  <1>2. QED BY <1>1, KernelInit, KernelNext, PTL DEF Spec

(***************************************************************************)
(* Sums of squares                                                         *)
(***************************************************************************)
LEMMA SumAtMost ==
  ASSUME NEW s, NEW t, NEW N \in Nat,
         \A i \in 1 .. N : s[i] \in Int /\ t[i] \in Int /\ s[i] <= t[i]
  PROVE  SumTo(s, N) <= SumTo(t, N)
  <1> DEFINE T == {n \in Nat : n <= N => SumTo(s, n) <= SumTo(t, n)}
  <1>1. 0 \in T
    BY SumNext
  <1>2. ASSUME NEW n \in Nat, n \in T PROVE n + 1 \in T
    <2> SUFFICES ASSUME n + 1 <= N PROVE SumTo(s, n + 1) <= SumTo(t, n + 1)
      OBVIOUS
    <2>1. SumTo(s, n) <= SumTo(t, n)
      BY <1>2
    <2>2. s[n + 1] \in Int /\ t[n + 1] \in Int /\ s[n + 1] <= t[n + 1]
      OBVIOUS
    <2>3. SumTo(s, n) \in Int /\ SumTo(t, n) \in Int
      BY SumType
    <2>4. /\ SumTo(s, n + 1) = SumTo(s, n) + s[n + 1]
          /\ SumTo(t, n + 1) = SumTo(t, n) + t[n + 1]
      BY SumNext
    <2>5. QED BY <2>1, <2>2, <2>3, <2>4
  <1>3. Nat \subseteq T
    BY <1>1, <1>2, Loop!NatSet
  <1>4. QED BY <1>3

\* A sum of natural numbers is one, and is zero only when they all are.
LEMMA SumOfNats ==
  ASSUME NEW terms, NEW N \in Nat, \A i \in 1 .. N : terms[i] \in Nat
  PROVE  /\ SumTo(terms, N) \in Nat
         /\ SumTo(terms, N) = 0 <=> \A i \in 1 .. N : terms[i] = 0
  <1> DEFINE T == {n \in Nat : n <= N =>
                     /\ SumTo(terms, n) \in Nat
                     /\ SumTo(terms, n) = 0 <=> \A i \in 1 .. n : terms[i] = 0}
  <1>1. 0 \in T
    BY SumNext
  <1>2. ASSUME NEW n \in Nat, n \in T PROVE n + 1 \in T
    <2> SUFFICES ASSUME n + 1 <= N
                 PROVE  /\ SumTo(terms, n + 1) \in Nat
                        /\ SumTo(terms, n + 1) = 0 <=> \A i \in 1 .. n + 1 : terms[i] = 0
      OBVIOUS
    <2>1. /\ SumTo(terms, n) \in Nat
          /\ SumTo(terms, n) = 0 <=> \A i \in 1 .. n : terms[i] = 0
      BY <1>2
    <2>2. terms[n + 1] \in Nat
      OBVIOUS
    <2>3. SumTo(terms, n + 1) = SumTo(terms, n) + terms[n + 1]
      BY SumNext
    <2>4. \A i \in 1 .. n + 1 : i \in 1 .. n \/ i = n + 1
      OBVIOUS
    <2>5. SumTo(terms, n + 1) \in Nat
          /\ (SumTo(terms, n + 1) = 0 <=> SumTo(terms, n) = 0 /\ terms[n + 1] = 0)
      BY <2>1, <2>2, <2>3
    <2>6. QED BY <2>1, <2>4, <2>5
  <1>3. Nat \subseteq T
    BY <1>1, <1>2, Loop!NatSet
  <1>4. N \in T
    BY <1>3
  <1>5. QED BY <1>4

LEMMA SquaredType ==
  ASSUME NEW x \in Int
  PROVE  Squared(x) \in Nat /\ (Squared(x) = 0 <=> x = 0) /\ Squared(-x) = Squared(x)
  <1>1. x * x \in Int /\ x * x >= 0 /\ (x * x = 0 <=> x = 0)
    <2>1. CASE x = 0 BY <2>1
    <2>2. CASE x > 0 BY <2>2
    <2>3. CASE x < 0 BY <2>3
    <2>4. QED BY <2>1, <2>2, <2>3
  <1>2. (-x) * (-x) = x * x
    OBVIOUS
  <1>3. QED BY <1>1, <1>2 DEF Squared

LEMMA Division ==
  ASSUME NEW n \in Int, NEW m \in Nat \ {0}
  PROVE  /\ n \div m \in Int /\ n % m \in Nat /\ n % m < m
         /\ n = m * (n \div m) + (n % m)
  OBVIOUS

(***************************************************************************)
(* Distances of SQ8 codes, however sq8_l2_bytes() was compiled             *)
(***************************************************************************)
LEMMA BytesApart ==
  ASSUME NEW a \in Seq(Int), NEW b \in Seq(Int), Len(a) = Len(b)
  PROVE  sq8_l2_bytes(a, b) \in Nat /\ sq8_l2_bytes(a, a) = 0
  <1> DEFINE n == Len(a)
             whole == CASE byteKernel = "neon" -> 16 * (n \div 16)
                        [] byteKernel = "avx2" -> 32 * (n \div 32)
                        [] OTHER -> 0
             block(c, i) == Squared(IF byteKernel = "avx2" THEN Wrapped(a[i], c[i])
                                    ELSE a[i] - c[i])
             rest(c, i) == Squared(a[whole + i] - c[whole + i])
             blocks(c) == [i \in 1 .. whole |-> block(c, i)]
             rests(c) == [i \in 1 .. n - whole |-> rest(c, i)]
  <1>0. n \in Nat /\ \A i \in 1 .. n : a[i] \in Int /\ b[i] \in Int
    BY Len(a) = Len(b)
  <1>1. whole \in Nat /\ whole <= n
    <2>1. CASE byteKernel = "neon" BY <1>0, <2>1
    <2>2. CASE byteKernel = "avx2" BY <1>0, <2>2
    <2>3. CASE byteKernel \notin {"neon", "avx2"} BY <1>0, <2>3
    <2>4. QED BY <2>1, <2>2, <2>3
  <1>2. ASSUME NEW c \in {a, b} PROVE sq8_l2_bytes(a, c) = SumOver(blocks(c)) + SumOver(rests(c))
    BY DEF sq8_l2_bytes
  <1> HIDE DEF whole, n
  <1>3. ASSUME NEW c \in {a, b}
        PROVE  /\ SumOver(blocks(c)) = SumTo(blocks(c), whole)
               /\ SumOver(rests(c)) = SumTo(rests(c), n - whole)
    <2>1. Len(blocks(c)) = whole /\ Len(rests(c)) = n - whole
      BY <1>0, <1>1
    <2>2. QED BY <2>1, SumIs
  <1>4. ASSUME NEW x \in Int, NEW y \in Int
        PROVE  Wrapped(x, y) \in Int /\ Wrapped(x, x) = 0
    <2>0. ByteValues \in Nat /\ ByteValues > 1
      BY QuantizersAssumption
    <2>1. (x - y) % ByteValues \in Int
      BY <2>0, Division
    <2>2. x - x = 0 /\ 0 % ByteValues = 0
      BY <2>0
    <2>3. QED BY <2>0, <2>1, <2>2 DEF Wrapped
  <1>5. ASSUME NEW c \in {a, b}
        PROVE  /\ \A i \in 1 .. whole : block(c, i) \in Nat /\ (c = a => block(c, i) = 0)
               /\ \A i \in 1 .. n - whole : rest(c, i) \in Nat /\ (c = a => rest(c, i) = 0)
    <2>0. \A i \in 1 .. n : c[i] \in Int
      BY <1>0
    <2>1. ASSUME NEW i \in 1 .. whole
          PROVE  block(c, i) \in Nat /\ (c = a => block(c, i) = 0)
      <3>1. a[i] \in Int /\ c[i] \in Int
        BY <1>0, <1>1, <2>0
      <3>2. CASE byteKernel = "avx2"
        BY <1>4, <3>1, <3>2, SquaredType
      <3>3. CASE byteKernel # "avx2"
        <4>1. a[i] - c[i] \in Int /\ (c = a => a[i] - c[i] = 0)
          BY <3>1
        <4>2. QED BY <3>3, <4>1, SquaredType
      <3>4. QED BY <3>2, <3>3
    <2>2. ASSUME NEW i \in 1 .. n - whole
          PROVE  rest(c, i) \in Nat /\ (c = a => rest(c, i) = 0)
      <3>1. whole + i \in 1 .. n
        BY <1>0, <1>1
      <3>2. a[whole + i] - c[whole + i] \in Int /\ (c = a => a[whole + i] - c[whole + i] = 0)
        BY <1>0, <2>0, <3>1
      <3>3. QED BY <3>2, SquaredType
    <2>3. QED BY <2>1, <2>2
  <1>6. ASSUME NEW c \in {a, b}
        PROVE  /\ SumTo(blocks(c), whole) \in Nat /\ (c = a => SumTo(blocks(c), whole) = 0)
               /\ SumTo(rests(c), n - whole) \in Nat
               /\ c = a => SumTo(rests(c), n - whole) = 0
    <2>1. \A i \in 1 .. whole : blocks(c)[i] \in Nat /\ (c = a => blocks(c)[i] = 0)
      BY <1>5
    <2>2. \A i \in 1 .. n - whole : rests(c)[i] \in Nat /\ (c = a => rests(c)[i] = 0)
      BY <1>5
    <2> DEFINE m == n - whole
    <2>3. m \in Nat
      BY <1>0, <1>1
    <2> HIDE DEF blocks, rests, m
    <2>4. SumTo(blocks(c), whole) \in Nat /\ (c = a => SumTo(blocks(c), whole) = 0)
      BY <1>1, <2>1, SumOfNats
    <2>5. SumTo(rests(c), m) \in Nat /\ (c = a => SumTo(rests(c), m) = 0)
      BY <2>2, <2>3, SumOfNats DEF m
    <2>6. QED BY <2>4, <2>5 DEF m
  <1> HIDE DEF blocks, rests
  <1>7. ASSUME NEW c \in {a, b}
        PROVE  sq8_l2_bytes(a, c) \in Nat /\ (c = a => sq8_l2_bytes(a, c) = 0)
    <2>1. PICK x, y : x = SumOver(blocks(c)) /\ y = SumOver(rests(c))
      OBVIOUS
    <2>2. x = SumTo(blocks(c), whole) /\ y = SumTo(rests(c), n - whole)
      BY <1>3, <2>1
    <2>3. x \in Nat /\ y \in Nat /\ (c = a => x = 0) /\ (c = a => y = 0)
      BY <1>6, <2>2
    <2>4. sq8_l2_bytes(a, c) = x + y
      BY <1>2, <2>1
    <2>5. QED BY <2>3, <2>4
  <1>8. QED BY <1>7

(***************************************************************************)
(* A trained quantizer and the codes it has made                           *)
(***************************************************************************)
Record(x, fields) == DOMAIN x = fields /\ x = [f \in fields |-> x[f]]

FieldsSQ8 == {"mode", "dim", "min", "max"}
FieldsBinary == {"mode", "dim"}
FieldsPQ == {"mode", "dim", "m", "k", "subdim", "codebooks"}

\* A quantizer keeps its mode, and PQ its parameters, whether trained or not.
Quantizer(x) ==
  \/ x.mode = "kSQ8" /\ Record(x, FieldsSQ8)
  \/ x.mode = "kBinary" /\ Record(x, FieldsBinary)
  \/ x.mode = "kPQ" /\ Record(x, FieldsPQ) /\ x.m = PqSubspaces /\ x.k = PqCentroids

\* The centroids of a subspace of PQ.
Book(cs, subdim) ==
  /\ cs \in Seq(Seq(Int)) /\ Len(cs) \in 1 .. PqCentroids
  /\ \A c \in 1 .. Len(cs) : Len(cs[c]) = subdim

TrainedSQ8(x) ==
  /\ x.mode = "kSQ8" /\ Record(x, FieldsSQ8)
  /\ x.dim \in Nat /\ x.min \in Int /\ x.max \in Int /\ x.min < x.max

TrainedBinary(x) == x.mode = "kBinary" /\ Record(x, FieldsBinary) /\ x.dim \in Nat

TrainedPQ(x) ==
  /\ x.mode = "kPQ" /\ Record(x, FieldsPQ) /\ x.m = PqSubspaces /\ x.k = PqCentroids
  /\ x.subdim \in Nat /\ x.dim = PqSubspaces * x.subdim
  /\ x.codebooks = [s \in 1 .. PqSubspaces |-> x.codebooks[s]]
  /\ \E n \in 1 .. PqCentroids : \A s \in 1 .. PqSubspaces :
       Book(x.codebooks[s], x.subdim) /\ Len(x.codebooks[s]) = n

Trained(x) == TrainedSQ8(x) \/ TrainedBinary(x) \/ TrainedPQ(x)

EncodedBy(x, vec) ==
  CASE x.mode = "kSQ8" -> EncodeSQ8(x, vec)
    [] x.mode = "kBinary" -> EncodeBinary(x, vec)
    [] x.mode = "kPQ" -> EncodePQ(x, vec)

CodesOf(x, cs) ==
  \A c \in cs :
    c.vec \in Vectors[x.mode] /\ Len(c.vec) = x.dim /\ c.code = EncodedBy(x, c.vec)

LEMMA ValueType ==
  ASSUME NEW x, CodesOf(x, codes), Trained(x), NEW c \in codes
  PROVE  /\ x.dim \in Nat
         /\ \A j \in 1 .. x.dim : Value(c.vec[j]) \in Int
  <1>1. x.mode \in Modes
    BY DEF Trained, TrainedSQ8, TrainedBinary, TrainedPQ, Modes
  <1>2. c.vec \in Seq(Coordinate) /\ Len(c.vec) = x.dim
    BY <1>1, QuantizersAssumption DEF CodesOf
  <1>3. x.dim \in Nat /\ \A j \in 1 .. x.dim : c.vec[j] \in Coordinate
    BY <1>2
  <1>4. QED BY <1>3 DEF Value, Coordinate

(***************************************************************************)
(* SQ8                                                                     *)
(***************************************************************************)
LEMMA Rounded ==
  ASSUME NEW y \in Int, NEW r \in Nat \ {0}, NEW l, l = (2 * y + r) \div (2 * r)
  PROVE  l \in Int /\ 2 * (y - l * r) <= r /\ -r <= 2 * (y - l * r)
  <1> DEFINE n == 2 * y + r
             m == 2 * r
  <1>1. n \in Int /\ m \in Nat \ {0}
    OBVIOUS
  <1>2. n \div m \in Int /\ n % m \in Nat /\ n % m < m /\ n = m * (n \div m) + (n % m)
    BY <1>1, Division
  <1>3. l = n \div m
    OBVIOUS
  <1>4. PICK e \in Nat : e < m /\ n = m * l + e
    BY <1>2, <1>3
  <1>5. m * l = 2 * (l * r) /\ l * r \in Int
    BY <1>2, <1>3
  <1>6. 2 * y + r = 2 * (l * r) + e /\ e < 2 * r
    BY <1>4, <1>5
  <1>7. QED BY <1>2, <1>3, <1>5, <1>6

Off(x, v, l) == (ByteValues - 1) * (v - x.min) - l * (x.max - x.min)

LEMMA LevelIsNear ==
  ASSUME NEW x, TrainedSQ8(x), NEW v \in Int
  PROVE  /\ Level(x, v) \in Int
         /\ v \in x.min .. x.max =>
              /\ Off(x, v, Level(x, v)) \in Int
              /\ 2 * Off(x, v, Level(x, v)) <= x.max - x.min
              /\ -(x.max - x.min) <= 2 * Off(x, v, Level(x, v))
  <1> DEFINE B == ByteValues - 1
             r == x.max - x.min
             y == B * (v - x.min)
  <1>0. B \in Nat /\ r \in Nat \ {0} /\ x.min \in Int /\ x.max \in Int /\ y \in Int
    BY QuantizersAssumption DEF TrainedSQ8
  <1>1. CASE v <= x.min
    <2>1. Level(x, v) = 0
      BY <1>1 DEF Level
    <2>2. v \in x.min .. x.max => y = 0
      BY <1>0, <1>1
    <2> HIDE DEF r
    <2>3. Off(x, v, 0) = y - 0 * r
      BY DEF Off, r
    <2>4. Off(x, v, 0) = y
      BY <1>0, <2>3
    <2> HIDE DEF y
    <2>5. QED BY <1>0, <2>1, <2>2, <2>4 DEF r
  <1>2. CASE ~(v <= x.min) /\ v >= x.max
    <2>1. Level(x, v) = B
      BY <1>2 DEF Level
    <2>2. v \in x.min .. x.max => v = x.max
      BY <1>0, <1>2
    <2>3. v \in x.min .. x.max => y = B * r
      BY <2>2
    <2>4. Off(x, v, B) = y - B * r
      BY DEF Off
    <2>5. B * r \in Int
      BY <1>0
    <2>6. v \in x.min .. x.max => Off(x, v, B) = 0
      BY <2>3, <2>4, <2>5
    <2> HIDE DEF B, y
    <2>7. QED BY <1>0, <2>1, <2>6
  <1>3. CASE ~(v <= x.min) /\ ~(v >= x.max)
    <2>1. Level(x, v) = (2 * B * (v - x.min) + r) \div (2 * r)
      BY <1>3 DEF Level
    <2>2. 2 * B * (v - x.min) = 2 * y
      BY <1>0
    <2>3. Off(x, v, Level(x, v)) = y - Level(x, v) * r
      BY DEF Off
    <2> DEFINE l == Level(x, v)
    <2>4. l = (2 * y + r) \div (2 * r)
      BY <2>1, <2>2
    <2> HIDE DEF l, y, r
    <2>5. l \in Int /\ 2 * (y - l * r) <= r /\ -r <= 2 * (y - l * r)
      BY <1>0, <2>4, Rounded
    <2>6. y - l * r \in Int
      BY <1>0, <2>5
    <2>7. QED BY <2>3, <2>5, <2>6 DEF l, r
  <1>4. QED BY <1>0, <1>1, <1>2, <1>3

(***************************************************************************)
(* Binary                                                                  *)
(***************************************************************************)
\* No vector that is encoded has a coordinate -0.0F.
NoNegZero == \A v \in Vectors["kBinary"] : \A j \in 1 .. Len(v) : v[j] # NegZero

\* Without -0.0F the bits of a query are those of its code.
LEMMA BitsOfQuery ==
  ASSUME NoNegZero, NEW x, TrainedBinary(x),
         NEW v \in Vectors["kBinary"], Len(v) = x.dim
  PROVE  QueryBits(x, v) = EncodeBinary(x, v)
  <1>1. v \in Seq(Coordinate)
    BY QuantizersAssumption DEF Modes
  <1>2. ASSUME NEW j \in 1 .. x.dim PROVE (~SignBit(v[j])) = (Value(v[j]) >= 0)
    <2>1. v[j] # NegZero /\ v[j] \in Int
      BY <1>1 DEF NoNegZero, Coordinate
    <2>2. QED BY <2>1 DEF SignBit, Value
  <1>3. [j \in 1 .. x.dim |-> ~SignBit(v[j])] = [j \in 1 .. x.dim |-> Value(v[j]) >= 0]
    BY <1>2, Zenon
  <1>4. QED BY <1>3, Zenon DEF QueryBits, EncodeBinary

LEMMA NumberSetSize ==
  ASSUME NEW a \in Int, NEW b \in Int, NEW S, S \subseteq a .. b
  PROVE  IsFiniteSet(S) /\ Cardinality(S) \in Nat /\ (Cardinality(S) = 0 <=> S = {})
  <1>1. IsFiniteSet(a .. b)
    BY FS_Interval
  <1>2. IsFiniteSet(S)
    BY <1>1, FS_Subset
  <1>3. QED BY <1>2, FS_CardinalityType, FS_EmptySet

LEMMA HammingType ==
  ASSUME NEW n \in Nat, NEW a, NEW b, Len(a) = n,
         \A i \in 1 .. n : a[i] \subseteq 0 .. 7 /\ b[i] \subseteq 0 .. 7
  PROVE  binary_hamming(a, b) \in Nat /\ binary_hamming(a, a) = 0
  <1> DEFINE apart(c) == [i \in 1 .. n |-> Cardinality((a[i] \ c[i]) \cup (c[i] \ a[i]))]
  <1>1. ASSUME NEW c
        PROVE  Len(apart(c)) = n /\ binary_hamming(a, c) = SumTo(apart(c), n)
    <2>1. Len(apart(c)) = n
      OBVIOUS
    <2>2. binary_hamming(a, c) = SumOver(apart(c))
      BY DEF binary_hamming
    <2> HIDE DEF apart
    <2>3. SumOver(apart(c)) = SumTo(apart(c), n)
      BY <2>1, SumIs
    <2>4. QED BY <2>1, <2>2, <2>3
  <1>2. ASSUME NEW i \in 1 .. n PROVE apart(b)[i] \in Nat /\ apart(a)[i] = 0
    <2>1. (a[i] \ b[i]) \cup (b[i] \ a[i]) \subseteq 0 .. 7
      OBVIOUS
    <2>2. Cardinality((a[i] \ b[i]) \cup (b[i] \ a[i])) \in Nat
      <3> DEFINE S == (a[i] \ b[i]) \cup (b[i] \ a[i])
      <3>1. S \subseteq 0 .. 7 /\ 0 \in Int /\ 7 \in Int
        BY <2>1
      <3> HIDE DEF S
      <3>2. Cardinality(S) \in Nat
        BY <3>1, NumberSetSize
      <3>3. QED BY <3>2 DEF S
    <2>3. (a[i] \ a[i]) \cup (a[i] \ a[i]) = {} /\ Cardinality({}) = 0
      BY FS_EmptySet
    <2>4. QED BY <2>2, <2>3
  <1> HIDE DEF apart
  <1>3. SumTo(apart(b), n) \in Nat
    <2>1. \A i \in 1 .. n : apart(b)[i] \in Nat
      BY <1>2
    <2>2. QED BY <2>1, SumOfNats
  <1>4. SumTo(apart(a), n) = 0
    <2>1. \A i \in 1 .. n : apart(a)[i] = 0 /\ apart(a)[i] \in Nat
      BY <1>2
    <2>2. QED BY <2>1, SumOfNats
  <1>5. QED BY <1>1, <1>3, <1>4

LEMMA BinaryCodeType ==
  ASSUME NEW x, TrainedBinary(x), NEW v
  PROVE  /\ Len(EncodeBinary(x, v)) = (x.dim + 7) \div 8 /\ (x.dim + 7) \div 8 \in Nat
         /\ \A i \in 1 .. (x.dim + 7) \div 8 : EncodeBinary(x, v)[i] \subseteq 0 .. 7
  <1> DEFINE bits == [j \in 1 .. x.dim |-> Value(v[j]) >= 0]
             n == (x.dim + 7) \div 8
  <1>1. x.dim \in Nat
    BY DEF TrainedBinary
  <1>2. Len(bits) = x.dim
    BY <1>1
  <1>3. n \in Nat
    BY <1>1
  <1> HIDE DEF bits
  <1>4. EncodeBinary(x, v) = [b \in 1 .. n |->
          {j \in 0 .. 7 : (b - 1) * 8 + j < Len(bits) /\ bits[(b - 1) * 8 + j + 1]}]
    BY <1>2 DEF EncodeBinary, PackedBits, bits
  <1> HIDE DEF n
  <1>5. QED BY <1>3, <1>4 DEF n

(***************************************************************************)
(* PQ                                                                      *)
(***************************************************************************)
LEMMA Multiples ==
  ASSUME NEW a \in Nat, NEW b \in Nat, a <= b, NEW d \in Nat
  PROVE  a * d \in Nat /\ b * d \in Nat /\ a * d <= b * d
  <1>1. (b - a) * d \in Nat /\ a * d \in Nat /\ b * d \in Nat
    OBVIOUS
  <1>2. b * d = a * d + (b - a) * d
    OBVIOUS
  <1>3. QED BY <1>1, <1>2

\* The numbers that a subspace of a vector, or of a file, begins and ends with.
LEMMA PartNumbers ==
  ASSUME NEW m \in Nat, NEW d \in Nat, NEW s \in 1 .. m, NEW j \in 1 .. d
  PROVE  (s - 1) * d + j \in 1 .. m * d /\ (s - 1) * d + j <= s * d /\ s * d \in Nat
  <1>1. s - 1 \in Nat /\ s \in Nat
    OBVIOUS
  <1>2. (s - 1) * d \in Nat /\ s * d \in Nat /\ m * d \in Nat /\ s * d <= m * d
    BY <1>1, Multiples
  <1>3. s * d = (s - 1) * d + d
    BY <1>1
  <1>4. QED BY <1>2, <1>3

LEMMA PartType ==
  ASSUME NEW m \in Nat, NEW d \in Nat, NEW v \in Seq(Coordinate), Len(v) = m * d,
         NEW s \in 1 .. m
  PROVE  Part(v, s, d) \in Seq(Int) /\ Len(Part(v, s, d)) = d
  <1>1. ASSUME NEW j \in 1 .. d PROVE Value(v[(s - 1) * d + j]) \in Int
    <2>1. (s - 1) * d + j \in 1 .. m * d
      BY PartNumbers
    <2>2. v[(s - 1) * d + j] \in Coordinate
      BY <2>1
    <2>3. QED BY <2>2 DEF Value, Coordinate
  <1>2. QED BY <1>1 DEF Part

LEMMA ApartIs ==
  ASSUME NEW d \in Nat, NEW u \in Seq(Int), NEW v \in Seq(Int), Len(u) = d, Len(v) = d
  PROVE  /\ Apart(u, v) \in Nat
         /\ Apart(u, v) = 0 => u = v
         /\ Apart(u, v) = Apart(v, u)
  <1> DEFINE a == [j \in 1 .. Len(u) |-> Squared(u[j] - v[j])]
             b == [j \in 1 .. Len(v) |-> Squared(v[j] - u[j])]
  <1>1. ASSUME NEW j \in 1 .. d
        PROVE  a[j] \in Nat /\ a[j] = b[j] /\ (a[j] = 0 => u[j] = v[j])
    <2>1. u[j] \in Int /\ v[j] \in Int
      OBVIOUS
    <2> DEFINE x == u[j] - v[j]
    <2>2. x \in Int /\ -x = v[j] - u[j]
      BY <2>1
    <2>3. Squared(x) \in Nat /\ (Squared(x) = 0 => x = 0) /\ Squared(-x) = Squared(x)
      BY <2>2, SquaredType
    <2>4. a[j] = Squared(x) /\ b[j] = Squared(-x)
      BY <2>2
    <2>5. QED BY <2>1, <2>3, <2>4
  <1>2. Len(a) = d /\ Len(b) = d
    OBVIOUS
  <1>3. Apart(u, v) = SumOver(a) /\ Apart(v, u) = SumOver(b)
    BY DEF Apart
  <1> HIDE DEF a, b
  <1>4. Apart(u, v) = SumTo(a, d) /\ Apart(v, u) = SumTo(b, d)
    BY <1>2, <1>3, SumIs
  <1>5. SumTo(a, d) \in Nat /\ (SumTo(a, d) = 0 => \A j \in 1 .. d : a[j] = 0)
    BY <1>1, SumOfNats
  <1>6. SumTo(a, d) = SumTo(b, d)
    <2>1. d \in 0 .. d
      OBVIOUS
    <2>2. QED BY <1>1, <2>1, SumSame
  <1>7. (\A j \in 1 .. d : a[j] = 0) => u = v
    BY <1>1
  <1>8. QED BY <1>4, <1>5, <1>6, <1>7

\* There is a nearest centroid, and none is nearer.
LEMMA NearestIs ==
  ASSUME NEW d \in Nat, NEW cs \in Seq(Seq(Int)), cs # <<>>,
         \A c \in 1 .. Len(cs) : Len(cs[c]) = d,
         NEW p \in Seq(Int), Len(p) = d
  PROVE  /\ Nearest(cs, p) \in 1 .. Len(cs)
         /\ \A c \in 1 .. Len(cs) : Apart(p, cs[Nearest(cs, p)]) <= Apart(p, cs[c])
  <1> DEFINE far(c) == Apart(p, cs[c])
             all == {far(c) : c \in 1 .. Len(cs)}
  <1>1. Len(cs) \in Nat \ {0}
    OBVIOUS
  <1>2. ASSUME NEW c \in 1 .. Len(cs) PROVE far(c) \in Nat
    <2>1. cs[c] \in Seq(Int) /\ Len(cs[c]) = d
      OBVIOUS
    <2>2. QED BY <2>1, ApartIs
  <1> HIDE DEF far
  <1>3. PICK m \in all : \A n \in all : m <= n
    <2>1. all \subseteq Nat
      BY <1>2
    <2>0. 1 \in 1 .. Len(cs)
      BY <1>1
    <2>2. far(1) \in all
      BY <2>0, Zenon
    <2> HIDE DEF all
    <2>3. QED BY <2>1, <2>2, Loop!NatMin
  <1> DEFINE best == {c \in 1 .. Len(cs) : far(c) = m}
  <1>4. PICK c \in best : \A e \in best : c <= e
    <2>1. best \subseteq Nat /\ best # {}
      OBVIOUS
    <2> HIDE DEF best
    <2>2. QED BY <2>1, Loop!NatMin
  <1>5. c \in 1 .. Len(cs) /\ far(c) = m
    BY <1>4
  <1>6. ASSUME NEW e \in 1 .. Len(cs)
        PROVE  far(c) < far(e) \/ (far(c) = far(e) /\ c <= e)
    <2>1. far(c) \in Nat /\ far(e) \in Nat /\ far(e) \in all
      BY <1>2, <1>5
    <2>2. far(c) <= far(e)
      BY <1>3, <1>5, <2>1
    <2>3. far(e) = m => c <= e
      BY <1>4
    <2>4. QED BY <1>5, <2>1, <2>2, <2>3
  <1> DEFINE first(x) == \A e \in 1 .. Len(cs) :
                           Apart(p, cs[x]) < Apart(p, cs[e])
                             \/ (Apart(p, cs[x]) = Apart(p, cs[e]) /\ x <= e)
  <1>7. first(c)
    BY <1>6 DEF far
  <1>8. Nearest(cs, p) = CHOOSE x \in 1 .. Len(cs) : first(x)
    BY DEF Nearest
  <1>9. Nearest(cs, p) \in 1 .. Len(cs) /\ first(Nearest(cs, p))
    <2> HIDE DEF first
    <2>1. QED BY <1>5, <1>7, <1>8
  <1>10. ASSUME NEW e \in 1 .. Len(cs)
         PROVE  Apart(p, cs[Nearest(cs, p)]) <= Apart(p, cs[e])
    <2> DEFINE x == Nearest(cs, p)
    <2>1. far(x) \in Nat /\ far(e) \in Nat
      BY <1>2, <1>9
    <2>2. far(x) < far(e) \/ far(x) = far(e)
      BY <1>9 DEF far
    <2>3. far(x) <= far(e)
      BY <2>1, <2>2
    <2>4. QED BY <2>3 DEF far
  <1>11. QED BY <1>9, <1>10

(***************************************************************************)
(* k-means                                                                 *)
(***************************************************************************)
Points(ps, d) == ps \in Seq(Seq(Int)) /\ \A p \in 1 .. Len(ps) : Len(ps[p]) = d

\* A mean of points is a point: no centroid is divided by zero.
LEMMA MovedKeeps ==
  ASSUME NEW d \in Nat, NEW cs, Book(cs, d), NEW ps, Points(ps, d)
  PROVE  Book(Moved(cs, ps), d) /\ Len(Moved(cs, ps)) = Len(cs)
  <1> DEFINE mine(c) == {p \in 1 .. Len(ps) : Nearest(cs, ps[p]) = c}
             terms(c, j) == [p \in 1 .. Len(ps) |-> IF p \in mine(c) THEN ps[p][j] ELSE 0]
             mean(c) == [j \in 1 .. Len(cs[c]) |-> SumOver(terms(c, j)) \div Cardinality(mine(c))]
             moved(c) == IF mine(c) = {} THEN cs[c] ELSE mean(c)
  <1>1. /\ Len(cs) \in Nat /\ Len(cs) \in 1 .. PqCentroids
        /\ \A c \in 1 .. Len(cs) : cs[c] \in Seq(Int) /\ Len(cs[c]) = d
    BY DEF Book
  <1>2. Len(ps) \in Nat /\ \A p \in 1 .. Len(ps) : ps[p] \in Seq(Int) /\ Len(ps[p]) = d
    BY DEF Points
  <1>3. ASSUME NEW c, NEW j \in 1 .. d PROVE SumOver(terms(c, j)) \in Int
    <2>1. \A p \in 1 .. Len(ps) : terms(c, j)[p] \in Int
      <3> SUFFICES ASSUME NEW p \in 1 .. Len(ps) PROVE terms(c, j)[p] \in Int
        OBVIOUS
      <3>1. ps[p][j] \in Int
        BY <1>2
      <3> HIDE DEF mine
      <3>2. terms(c, j)[p] = IF p \in mine(c) THEN ps[p][j] ELSE 0
        OBVIOUS
      <3>3. QED BY <3>1, <3>2
    <2>2. Len(terms(c, j)) = Len(ps)
      BY <1>2
    <2> HIDE DEF terms
    <2>3. SumOver(terms(c, j)) = SumTo(terms(c, j), Len(ps))
      BY <2>2, SumIs
    <2>4. Len(ps) \in 0 .. Len(ps)
      BY <1>2
    <2>5. SumTo(terms(c, j), Len(ps)) \in Int
      BY <1>2, <2>1, <2>4, SumType
    <2>6. QED BY <2>3, <2>5
  <1>4. ASSUME NEW c, mine(c) # {} PROVE Cardinality(mine(c)) \in Nat \ {0}
    <2>1. mine(c) \subseteq 1 .. Len(ps) /\ 1 \in Int /\ Len(ps) \in Int
      BY <1>2
    <2> HIDE DEF mine
    <2>2. Cardinality(mine(c)) \in Nat /\ (Cardinality(mine(c)) = 0 <=> mine(c) = {})
      BY <2>1, NumberSetSize
    <2>3. QED BY <1>4, <2>2
  <1>5. Moved(cs, ps) = [c \in 1 .. Len(cs) |-> moved(c)]
    BY DEF Moved
  <1> HIDE DEF mine, terms
  <1>6. ASSUME NEW c \in 1 .. Len(cs) PROVE moved(c) \in Seq(Int) /\ Len(moved(c)) = d
    <2>1. CASE mine(c) = {}
      BY <1>1, <2>1
    <2>2. CASE mine(c) # {}
      <3>1. \A j \in 1 .. d : SumOver(terms(c, j)) \div Cardinality(mine(c)) \in Int
        BY <1>3, <1>4, <2>2, Division
      <3>2. mean(c) = [j \in 1 .. d |-> SumOver(terms(c, j)) \div Cardinality(mine(c))]
        BY <1>1
      <3>3. moved(c) = mean(c)
        BY <2>2
      <3> HIDE DEF moved, mean
      <3>4. QED BY <3>1, <3>2, <3>3
    <2>3. QED BY <2>1, <2>2
  <1> HIDE DEF moved
  <1>7. QED BY <1>1, <1>5, <1>6 DEF Book

MoveRound(e, cs, i) == Moved(cs, e.points)
KeepsBook(e, i, cs) == Book(cs, e.d) /\ Len(cs) = e.n
Means == INSTANCE FoldRule WITH Step <- MoveRound, Inv <- KeepsBook

\* However the first centroids are drawn there are as many as the points allow.
LEMMA SeedsAre ==
  ASSUME NEW d \in Nat, NEW ps, Points(ps, d), ps # <<>>, NEW seed \in Seeds(ps, PqCentroids)
  PROVE  /\ Book(seed, d)
         /\ Len(seed) = IF Len(ps) <= PqCentroids THEN Len(ps) ELSE PqCentroids
  <1>1. /\ Len(ps) \in Nat \ {0} /\ PqCentroids \in Nat \ {0}
        /\ \A p \in 1 .. Len(ps) : ps[p] \in Seq(Int) /\ Len(ps[p]) = d
    BY QuantizersAssumption DEF Points
  <1>2. CASE Len(ps) <= PqCentroids
    <2>1. seed = ps
      BY <1>2 DEF Seeds
    <2>2. QED BY <1>1, <1>2, <2>1 DEF Book, Points
  <1>3. CASE ~(Len(ps) <= PqCentroids)
    <2>1. PICK f \in [1 .. PqCentroids -> 1 .. Len(ps)] :
            seed = [i \in 1 .. PqCentroids |-> ps[f[i]]]
      BY <1>3 DEF Seeds
    <2>2. \A i \in 1 .. PqCentroids : f[i] \in 1 .. Len(ps)
      BY <2>1
    <2>3. Len(seed) = PqCentroids /\ \A i \in 1 .. PqCentroids : seed[i] = ps[f[i]]
      BY <1>1, <2>1
    <2>4. \A i \in 1 .. PqCentroids : seed[i] \in Seq(Int) /\ Len(seed[i]) = d
      BY <1>1, <2>2, <2>3
    <2>5. seed \in Seq(Seq(Int))
      BY <1>1, <2>1, <2>3, <2>4
    <2>6. QED BY <1>1, <1>3, <2>3, <2>4, <2>5 DEF Book
  <1>4. QED BY <1>2, <1>3

LEMMA MeansAre ==
  ASSUME NEW d \in Nat, NEW ps, Points(ps, d), ps # <<>>, NEW cs \in kmeans(ps, PqCentroids)
  PROVE  /\ Book(cs, d)
         /\ Len(cs) = IF Len(ps) <= PqCentroids THEN Len(ps) ELSE PqCentroids
  <1> DEFINE n == IF Len(ps) <= PqCentroids THEN Len(ps) ELSE PqCentroids
             e == [points |-> ps, d |-> d, n |-> n]
  <1>1. PICK seed \in Seeds(ps, PqCentroids) : cs = Means!Rounds(e, seed, PqIterations)
    BY DEF kmeans, Means!Rounds, MoveRound
  <1>2. KeepsBook(e, 0, seed)
    BY SeedsAre DEF KeepsBook
  <1>3. ASSUME NEW k \in 1 .. PqIterations, NEW h, KeepsBook(e, k - 1, h)
        PROVE  KeepsBook(e, k, MoveRound(e, h, k))
    BY <1>3, MovedKeeps DEF KeepsBook, MoveRound
  <1>4. PqIterations \in Nat
    BY QuantizersAssumption
  <1> HIDE DEF e
  <1>5. KeepsBook(e, PqIterations, Means!Rounds(e, seed, PqIterations))
    BY <1>2, <1>3, <1>4, Means!RoundsKeep
  <1>6. QED BY <1>1, <1>5 DEF KeepsBook, e

(***************************************************************************)
(* Training                                                                *)
(***************************************************************************)
LEMMA SampleType ==
  ASSUME NEW mode \in Modes, NEW t \in Samples[mode]
  PROVE  /\ Len(t) \in Nat \ {0} /\ Len(t[1]) \in Nat \ {0}
         /\ \A i \in 1 .. Len(t) : t[i] \in Seq(Coordinate) /\ Len(t[i]) = Len(t[1])
  <1>1. /\ t \in Seq(Seq(Coordinate)) /\ t # <<>> /\ t[1] # <<>>
        /\ \A i \in 1 .. Len(t) : Len(t[i]) = Len(t[1])
    BY QuantizersAssumption
  <1>2. Len(t) \in Nat \ {0} /\ \A i \in 1 .. Len(t) : t[i] \in Seq(Coordinate)
    BY <1>1
  <1>3. t[1] \in Seq(Coordinate)
    BY <1>2
  <1>4. Len(t[1]) \in Nat \ {0}
    BY <1>1, <1>3
  <1>5. QED BY <1>1, <1>2, <1>4

LEMMA CodebooksAre ==
  ASSUME NEW t \in Samples["kPQ"], NEW f \in Codebooks(t),
         NEW d \in Nat, d = Len(t[1]) \div PqSubspaces, Len(t[1]) = PqSubspaces * d
  PROVE  /\ f = [s \in 1 .. PqSubspaces |-> f[s]]
         /\ \E n \in 1 .. PqCentroids : \A s \in 1 .. PqSubspaces :
              Book(f[s], d) /\ Len(f[s]) = n
  <1> DEFINE part(s) == [i \in 1 .. Len(t) |-> Part(t[i], s, d)]
             n == IF Len(t) <= PqCentroids THEN Len(t) ELSE PqCentroids
  <1>1. /\ Len(t) \in Nat \ {0}
        /\ \A i \in 1 .. Len(t) : t[i] \in Seq(Coordinate) /\ Len(t[i]) = PqSubspaces * d
    BY SampleType DEF Modes
  <1>2. PqSubspaces \in Nat /\ PqCentroids \in Nat \ {0}
    BY QuantizersAssumption
  <1>3. ASSUME NEW s \in 1 .. PqSubspaces
        PROVE  Points(part(s), d) /\ part(s) # <<>> /\ Len(part(s)) = Len(t)
    <2>1. \A i \in 1 .. Len(t) : Part(t[i], s, d) \in Seq(Int) /\ Len(Part(t[i], s, d)) = d
      <3> SUFFICES ASSUME NEW i \in 1 .. Len(t)
                   PROVE  Part(t[i], s, d) \in Seq(Int) /\ Len(Part(t[i], s, d)) = d
        OBVIOUS
      <3>1. t[i] \in Seq(Coordinate) /\ Len(t[i]) = PqSubspaces * d
        BY <1>1
      <3> DEFINE v == t[i]
      <3>2. v \in Seq(Coordinate) /\ Len(v) = PqSubspaces * d /\ d \in Nat
        BY <3>1
      <3> HIDE DEF v
      <3>3. Part(v, s, d) \in Seq(Int) /\ Len(Part(v, s, d)) = d
        BY ONLY <1>2, <3>2, PartType, s \in 1 .. PqSubspaces
      <3>4. QED BY <3>3 DEF v
    <2>2. Len(part(s)) = Len(t) /\ \A i \in 1 .. Len(t) : part(s)[i] = Part(t[i], s, d)
      BY <1>1
    <2>3. part(s) \in Seq(Seq(Int))
      BY <1>1, <2>1
    <2> HIDE DEF part
    <2>4. QED BY <1>1, <2>1, <2>2, <2>3 DEF Points
  <1> DEFINE books == [s \in 1 .. PqSubspaces |-> kmeans(part(s), PqCentroids)]
  <1>4. Codebooks(t) = {g \in [1 .. PqSubspaces -> UNION {books[s] : s \in 1 .. PqSubspaces}] :
                          \A s \in 1 .. PqSubspaces : g[s] \in books[s]}
    BY DEF Codebooks
  <1> HIDE DEF part
  <1>5. f = [s \in 1 .. PqSubspaces |-> f[s]]
        /\ \A s \in 1 .. PqSubspaces : f[s] \in kmeans(part(s), PqCentroids)
    BY <1>4
  <1>6. \A s \in 1 .. PqSubspaces : Book(f[s], d) /\ Len(f[s]) = n
    <2> SUFFICES ASSUME NEW s \in 1 .. PqSubspaces PROVE Book(f[s], d) /\ Len(f[s]) = n
      OBVIOUS
    <2> DEFINE ps == part(s)
    <2>1. Points(ps, d) /\ ps # <<>> /\ Len(ps) = Len(t) /\ f[s] \in kmeans(ps, PqCentroids)
      BY <1>3, <1>5
    <2> HIDE DEF ps
    <2>2. Book(f[s], d) /\ Len(f[s]) = IF Len(ps) <= PqCentroids THEN Len(ps) ELSE PqCentroids
      BY <2>1, MeansAre
    <2>3. QED BY <2>1, <2>2
  <1>7. n \in 1 .. PqCentroids
    BY <1>1, <1>2
  <1>8. QED BY <1>5, <1>6, <1>7

LEMMA TrainedAsPQ ==
  ASSUME NEW x, Quantizer(x), x.mode = "kPQ", NEW t \in Samples["kPQ"],
         Len(t[1]) % PqSubspaces = 0, NEW y \in TrainPQ(x, t)
  PROVE  TrainedPQ(y)
  <1>1. Record(x, FieldsPQ) /\ x.m = PqSubspaces /\ x.k = PqCentroids
    BY DEF Quantizer
  <1> DEFINE dim == Len(t[1])
             d == dim \div PqSubspaces
  <1>2. PICK o \in Outcomes :
          /\ o.samples = t
          /\ y = [x EXCEPT !.dim = dim, !.subdim = d, !.codebooks = o.codebooks]
    BY <1>1 DEF TrainPQ
  <1>3. o.codebooks \in Codebooks(t)
    BY <1>2 DEF Outcomes
  <1>4. dim \in Nat /\ PqSubspaces \in Nat \ {0}
    BY SampleType, QuantizersAssumption DEF Modes
  <1>5. d \in Nat /\ dim = PqSubspaces * d
    <2>1. dim % PqSubspaces = 0
      OBVIOUS
    <2> HIDE DEF dim
    <2>2. d \in Nat /\ dim = PqSubspaces * d + (dim % PqSubspaces)
      BY <1>4, Division
    <2> HIDE DEF d
    <2>3. PqSubspaces * d \in Nat
      BY <1>4, <2>2
    <2>4. QED BY <2>1, <2>2, <2>3
  <1> HIDE DEF d, dim
  <1>6. /\ o.codebooks = [s \in 1 .. PqSubspaces |-> o.codebooks[s]]
        /\ \E n \in 1 .. PqCentroids : \A s \in 1 .. PqSubspaces :
             Book(o.codebooks[s], d) /\ Len(o.codebooks[s]) = n
    BY <1>3, <1>5, CodebooksAre DEF d, dim
  <1>7. /\ Record(y, FieldsPQ) /\ y.mode = "kPQ" /\ y.m = PqSubspaces /\ y.k = PqCentroids
        /\ y.dim = dim /\ y.subdim = d /\ y.codebooks = o.codebooks
    BY <1>1, <1>2 DEF Record, FieldsPQ
  <1>8. QED BY <1>5, <1>6, <1>7 DEF TrainedPQ

LEMMA LeastOf ==
  ASSUME NEW N \in Nat, N # 0, NEW g, \A i \in 1 .. N : g[i] \in Int
  PROVE  \E i \in 1 .. N : \A j \in 1 .. N : g[i] <= g[j]
  <1> DEFINE T == {n \in Nat : n + 1 <= N =>
                     \E i \in 1 .. n + 1 : \A j \in 1 .. n + 1 : g[i] <= g[j]}
  <1>1. 0 \in T
    OBVIOUS
  <1>2. ASSUME NEW n \in Nat, n \in T PROVE n + 1 \in T
    <2> SUFFICES ASSUME (n + 1) + 1 <= N
                 PROVE  \E i \in 1 .. (n + 1) + 1 : \A j \in 1 .. (n + 1) + 1 : g[i] <= g[j]
      OBVIOUS
    <2>1. PICK i \in 1 .. n + 1 : \A j \in 1 .. n + 1 : g[i] <= g[j]
      BY <1>2
    <2>2. \A j \in 1 .. (n + 1) + 1 : g[j] \in Int /\ (j \in 1 .. n + 1 \/ j = (n + 1) + 1)
      OBVIOUS
    <2>3. CASE g[i] <= g[(n + 1) + 1]
      BY <2>1, <2>2, <2>3
    <2>4. CASE ~(g[i] <= g[(n + 1) + 1])
      <3>1. \A j \in 1 .. (n + 1) + 1 : g[(n + 1) + 1] <= g[j]
        BY <2>1, <2>2, <2>4
      <3>2. QED BY <3>1
    <2>5. QED BY <2>3, <2>4
  <1>3. Nat \subseteq T
    BY <1>1, <1>2, Loop!NatSet
  <1>4. N - 1 \in Nat /\ (N - 1) + 1 = N
    OBVIOUS
  <1>5. QED BY <1>3, <1>4

LEMMA GridLeast ==
  ASSUME NEW M \in Nat, NEW N \in Nat, M # 0, N # 0, NEW g,
         \A i \in 1 .. M : \A j \in 1 .. N : g[i][j] \in Int
  PROVE  \E i \in 1 .. M : \E j \in 1 .. N :
           \A a \in 1 .. M : \A b \in 1 .. N : g[i][j] <= g[a][b]
  <1> DEFINE best(i) == CHOOSE j \in 1 .. N : \A b \in 1 .. N : g[i][j] <= g[i][b]
             row == [i \in 1 .. M |-> g[i][best(i)]]
  <1>1. ASSUME NEW i \in 1 .. M
        PROVE  best(i) \in 1 .. N /\ \A b \in 1 .. N : g[i][best(i)] <= g[i][b]
    <2> DEFINE h == g[i]
    <2>1. \A j \in 1 .. N : h[j] \in Int
      OBVIOUS
    <2> HIDE DEF h
    <2>2. \E j \in 1 .. N : \A b \in 1 .. N : h[j] <= h[b]
      BY <2>1, LeastOf
    <2>3. \E j \in 1 .. N : \A b \in 1 .. N : g[i][j] <= g[i][b]
      BY <2>2 DEF h
    <2>4. QED BY <2>3
  <1> HIDE DEF best
  <1>2. \A i \in 1 .. M : row[i] \in Int
    BY <1>1
  <1>3. PICK i \in 1 .. M : \A a \in 1 .. M : row[i] <= row[a]
    <2> HIDE DEF row
    <2>1. QED BY <1>2, LeastOf
  <1>4. ASSUME NEW a \in 1 .. M, NEW b \in 1 .. N PROVE g[i][best(i)] <= g[a][b]
    <2>1. g[i][best(i)] <= g[a][best(a)]
      BY <1>3
    <2>2. g[a][best(a)] <= g[a][b]
      BY <1>1
    <2>3. g[i][best(i)] \in Int /\ g[a][best(a)] \in Int /\ g[a][b] \in Int
      BY <1>1
    <2>4. QED BY <2>1, <2>2, <2>3
  <1>5. QED BY <1>1, <1>4

LEMMA TrainedAsSQ8 ==
  ASSUME NEW x, Quantizer(x), x.mode = "kSQ8", NEW t \in Samples["kSQ8"]
  PROVE  TrainedSQ8(TrainSQ8(x, t))
  <1> DEFINE M == Len(t)
             N == Len(t[1])
             all == {Value(t[i][j]) : i \in 1 .. M, j \in 1 .. N}
             up == [i \in 1 .. M |-> [j \in 1 .. N |-> Value(t[i][j])]]
             down == [i \in 1 .. M |-> [j \in 1 .. N |-> -Value(t[i][j])]]
  <1>1. M \in Nat \ {0} /\ N \in Nat \ {0}
    BY SampleType DEF Modes
  <1>2. ASSUME NEW i \in 1 .. M, NEW j \in 1 .. N PROVE Value(t[i][j]) \in Int
    <2>1. t[i] \in Seq(Coordinate) /\ Len(t[i]) = N
      BY SampleType DEF Modes
    <2>2. t[i][j] \in Coordinate
      BY <2>1
    <2>3. QED BY <2>2 DEF Value, Coordinate
  <1> HIDE DEF M, N
  <1>3. Smallest(all) \in Int
    <2>1. \A i \in 1 .. M : \A j \in 1 .. N : up[i][j] = Value(t[i][j])
      OBVIOUS
    <2>2. \A i \in 1 .. M : \A j \in 1 .. N : up[i][j] \in Int
      BY <1>2, <2>1
    <2>3. M \in Nat /\ N \in Nat /\ M # 0 /\ N # 0
      BY <1>1
    <2> HIDE DEF up
    <2>4. PICK i \in 1 .. M : \E j \in 1 .. N :
            \A a \in 1 .. M : \A b \in 1 .. N : up[i][j] <= up[a][b]
      BY <2>2, <2>3, GridLeast
    <2>5. PICK j \in 1 .. N : \A a \in 1 .. M : \A b \in 1 .. N : up[i][j] <= up[a][b]
      BY <2>4
    <2>6. Value(t[i][j]) \in all /\ \A y \in all : Value(t[i][j]) <= y
      BY <2>1, <2>5
    <2>7. \E y \in all : \A z \in all : y <= z
      BY <2>6
    <2>8. Smallest(all) \in all
      BY <2>7 DEF Smallest
    <2>9. QED BY <1>2, <2>8
  <1>4. Largest(all) \in Int
    <2>1. \A i \in 1 .. M : \A j \in 1 .. N : down[i][j] = -Value(t[i][j])
      OBVIOUS
    <2>2. \A i \in 1 .. M : \A j \in 1 .. N : down[i][j] \in Int
      BY <1>2, <2>1
    <2>3. M \in Nat /\ N \in Nat /\ M # 0 /\ N # 0
      BY <1>1
    <2> HIDE DEF down
    <2>4. PICK i \in 1 .. M : \E j \in 1 .. N :
            \A a \in 1 .. M : \A b \in 1 .. N : down[i][j] <= down[a][b]
      BY <2>2, <2>3, GridLeast
    <2>5. PICK j \in 1 .. N : \A a \in 1 .. M : \A b \in 1 .. N : down[i][j] <= down[a][b]
      BY <2>4
    <2>6. ASSUME NEW a \in 1 .. M, NEW b \in 1 .. N PROVE Value(t[i][j]) >= Value(t[a][b])
      <3>1. -Value(t[i][j]) <= -Value(t[a][b])
        BY <2>1, <2>5
      <3>2. QED BY <1>2, <3>1
    <2>7. Value(t[i][j]) \in all /\ \A y \in all : Value(t[i][j]) >= y
      BY <2>6
    <2>8. \E y \in all : \A z \in all : y >= z
      BY <2>7
    <2>9. Largest(all) \in all
      BY <2>8 DEF Largest
    <2>10. QED BY <1>2, <2>9
  <1> DEFINE lo == Smallest(all)
             hi == Largest(all)
             top == IF hi <= lo THEN lo + 1 ELSE hi
             y == TrainSQ8(x, t)
  <1>5. y = [x EXCEPT !.dim = N, !.min = lo, !.max = top]
    BY DEF TrainSQ8, M, N
  <1> HIDE DEF all, y
  <1>6. lo \in Int /\ top \in Int /\ lo < top
    BY <1>3, <1>4
  <1> HIDE DEF lo, hi, top
  <1>7. Record(x, FieldsSQ8) /\ x.mode = "kSQ8"
    BY DEF Quantizer
  <1>8. /\ Record(y, FieldsSQ8) /\ y.mode = "kSQ8"
        /\ y.dim = N /\ y.min = lo /\ y.max = top
    BY <1>5, <1>7 DEF Record, FieldsSQ8
  <1>9. QED BY <1>1, <1>6, <1>8 DEF TrainedSQ8, y

(***************************************************************************)
(* Files                                                                   *)
(***************************************************************************)
JoinBook(e, h, s) == h \o e.books[s]
\* After s books every centroid is in its slot.
SlotsFilled(e, s, h) ==
  /\ h \in Seq(Seq(Int)) /\ Len(h) = s * e.n
  /\ \A a \in 1 .. s : \A c \in 1 .. e.n : h[(a - 1) * e.n + c] = e.books[a][c]
Joins == INSTANCE FoldRule WITH Step <- JoinBook, Inv <- SlotsFilled

LEMMA JoinFills ==
  ASSUME NEW e, e.n \in Nat, NEW s \in Nat \ {0}, NEW h, SlotsFilled(e, s - 1, h),
         e.books[s] \in Seq(Seq(Int)), Len(e.books[s]) = e.n
  PROVE  SlotsFilled(e, s, JoinBook(e, h, s))
  <1> DEFINE n == e.n
             g == e.books[s]
             z == h \o g
  <1>1. /\ h \in Seq(Seq(Int)) /\ Len(h) = (s - 1) * n
        /\ \A a \in 1 .. s - 1 : \A c \in 1 .. n : h[(a - 1) * n + c] = e.books[a][c]
    BY DEF SlotsFilled
  <1>2. g \in Seq(Seq(Int)) /\ Len(g) = n /\ n \in Nat /\ s - 1 \in Nat /\ s \in Nat
    OBVIOUS
  <1> HIDE DEF g, n
  <1>3. (s - 1) * n \in Nat /\ s * n = (s - 1) * n + n
    BY <1>2
  <1>4. /\ z \in Seq(Seq(Int)) /\ Len(z) = s * n
        /\ \A i \in 1 .. (s - 1) * n : z[i] = h[i]
        /\ \A c \in 1 .. n : z[(s - 1) * n + c] = g[c]
    <2> DEFINE K == (s - 1) * n
    <2>1. K \in Nat /\ Len(h) = K
      BY <1>1, <1>3
    <2>a. s * n = K + n
      BY <1>3
    <2> HIDE DEF K
    <2>2. z \in Seq(Seq(Int)) /\ Len(z) = K + n
      <3>1. h \in Seq(Seq(Int)) /\ g \in Seq(Seq(Int)) /\ n \in Nat /\ Len(g) = n
        BY <1>1, <1>2
      <3>2. z \in Seq(Seq(Int)) /\ Len(z) = Len(h) + Len(g)
        BY <3>1, ConcatProperties, Zenon
      <3>3. QED BY <2>1, <3>1, <3>2
    <2>3. \A i \in 1 .. K : z[i] = h[i]
      BY <1>1, <1>2, <2>1
    <2>4. \A c \in 1 .. n : z[K + c] = g[c]
      BY <1>1, <1>2, <2>1
    <2>5. QED BY <2>a, <2>2, <2>3, <2>4 DEF K
  <1>5. ASSUME NEW a \in 1 .. s, NEW c \in 1 .. n
        PROVE  z[(a - 1) * n + c] = e.books[a][c]
    <2>1. CASE a = s
      BY <1>4, <2>1 DEF g
    <2>2. CASE a # s
      <3>1. a \in 1 .. s - 1
        BY <1>2, <2>2
      <3> DEFINE m == s - 1
      <3>2. m \in Nat /\ a \in 1 .. m
        BY <1>2, <3>1
      <3> HIDE DEF m
      <3>3. (a - 1) * n + c \in 1 .. m * n
        BY <1>2, <3>2, PartNumbers
      <3>4. z[(a - 1) * n + c] = h[(a - 1) * n + c]
        BY <1>4, <3>3 DEF m
      <3>5. QED BY <1>1, <3>1, <3>4
    <2>3. QED BY <2>1, <2>2
  <1>6. JoinBook(e, h, s) = z
    BY DEF JoinBook, g
  <1> HIDE DEF z
  <1>7. QED BY <1>4, <1>5, <1>6 DEF SlotsFilled, n

LEMMA FlatIs ==
  ASSUME NEW m \in Nat, NEW books, Len(books) = m, NEW n \in Nat,
         \A s \in 1 .. m : books[s] \in Seq(Seq(Int)) /\ Len(books[s]) = n
  PROVE  /\ Len(Flat(books)) = m * n
         /\ \A s \in 1 .. m : \A c \in 1 .. n : Flat(books)[(s - 1) * n + c] = books[s][c]
  <1> DEFINE e == [books |-> books, n |-> n]
  <1>1. Flat(books) = Joins!Rounds(e, <<>>, m)
    BY DEF Flat, Joins!Rounds, JoinBook
  <1>2. e.books = books /\ e.n = n
    OBVIOUS
  <1> HIDE DEF e
  <1>3. SlotsFilled(e, 0, <<>>)
    BY <1>2 DEF SlotsFilled
  <1>4. ASSUME NEW s \in 1 .. m, NEW h, SlotsFilled(e, s - 1, h)
        PROVE  SlotsFilled(e, s, JoinBook(e, h, s))
    <2>1. s \in Nat \ {0} /\ e.n \in Nat /\ e.books[s] \in Seq(Seq(Int)) /\ Len(e.books[s]) = e.n
      BY <1>2
    <2>2. QED BY <1>4, <2>1, JoinFills
  <1>5. SlotsFilled(e, m, Joins!Rounds(e, <<>>, m))
    BY <1>3, <1>4, Joins!RoundsKeep
  <1>6. QED BY <1>1, <1>2, <1>5 DEF SlotsFilled

\* What save() wrote of a quantizer.
SavedAs(f, x) ==
  /\ f.q = IF x.mode = "kPQ" THEN [x EXCEPT !.codebooks = <<>>] ELSE x
  /\ f.centroids = IF x.mode = "kPQ" THEN Flat(x.codebooks) ELSE <<>>

\* A load() that succeeds gives back the codebooks that were saved.
LEMMA LoadedAre ==
  ASSUME NEW x, TrainedPQ(x), NEW f, SavedAs(f, x), LoadSucceeds(f)
  PROVE  LoadedCodebooks(f) = x.codebooks
  <1> DEFINE m == PqSubspaces
             k == PqCentroids
             books == x.codebooks
  <1>1. m \in Nat \ {0} /\ k \in Nat \ {0}
    BY QuantizersAssumption
  <1>2. x.mode = "kPQ" /\ books = [s \in 1 .. m |-> books[s]]
    BY DEF TrainedPQ
  <1>3. PICK n \in 1 .. k : \A s \in 1 .. m :
          books[s] \in Seq(Seq(Int)) /\ Len(books[s]) = n
    BY DEF TrainedPQ, Book
  <1>4. /\ f.q.mode = "kPQ" /\ f.q.m = m /\ f.q.k = k
        /\ f.centroids = Flat(books)
    BY <1>2 DEF SavedAs, TrainedPQ, Record, FieldsPQ
  <1> HIDE DEF books
  <1>5. Len(books) = m
    BY <1>1, <1>2
  <1> HIDE DEF m, k
  <1>6. /\ Len(Flat(books)) = m * n
        /\ \A s \in 1 .. m : \A c \in 1 .. n : Flat(books)[(s - 1) * n + c] = books[s][c]
    BY <1>1, <1>3, <1>5, FlatIs
  <1>7. n = k
    <2>1. m * n >= m * k
      BY <1>4, <1>6 DEF LoadSucceeds
    <2>2. n < k => m * n < m * k
      <3> SUFFICES ASSUME n < k PROVE m * n < m * k
        OBVIOUS
      <3>1. n + 1 \in Nat /\ n + 1 <= k /\ n \in Nat
        BY <1>1
      <3>2. (n + 1) * m <= k * m
        BY <1>1, <3>1, Multiples
      <3>3. (n + 1) * m = m * n + m /\ k * m = m * k /\ m * n \in Nat /\ m * k \in Nat
        BY <1>1, <3>1
      <3>4. QED BY <1>1, <3>2, <3>3
    <2>3. m * n \in Nat /\ m * k \in Nat
      BY <1>1
    <2>4. QED BY <1>1, <2>1, <2>2, <2>3
  <1>8. ASSUME NEW s \in 1 .. m
        PROVE  [c \in 1 .. k |->
                  IF Slot(f, s, c) <= Len(f.centroids) THEN f.centroids[Slot(f, s, c)]
                  ELSE [j \in 1 .. f.q.subdim |-> 0]] = books[s]
    <2>1. ASSUME NEW c \in 1 .. k
          PROVE  Slot(f, s, c) <= Len(f.centroids) /\ f.centroids[Slot(f, s, c)] = books[s][c]
      <3>1. Slot(f, s, c) = (s - 1) * k + c
        BY <1>4 DEF Slot
      <3>2. (s - 1) * k + c \in 1 .. m * k
        BY <1>1, PartNumbers
      <3>3. m * k \in Nat
        BY <1>1
      <3>4. QED BY <1>4, <1>6, <1>7, <3>1, <3>2, <3>3
    <2>2. books[s] = [c \in 1 .. k |-> books[s][c]]
      BY <1>3, <1>7
    <2>3. QED BY <2>1, <2>2
  <1>9. LoadedCodebooks(f) =
          [s \in 1 .. m |-> [c \in 1 .. k |->
             IF Slot(f, s, c) <= Len(f.centroids) THEN f.centroids[Slot(f, s, c)]
             ELSE [j \in 1 .. f.q.subdim |-> 0]]]
    BY <1>4 DEF LoadedCodebooks
  <1>10. QED BY <1>2, <1>8, <1>9 DEF books

(***************************************************************************)
(* What a quantizer, its codes and its file always are                     *)
(***************************************************************************)
\* A quantizer that is ready is trained and its owner's codes are its own; what
\* was saved is a trained quantizer and its codes.
QuantInv ==
  /\ Quantizer(q)
  /\ ready => Trained(q) /\ CodesOf(q, codes)
  /\ file # NoQuantFile => \E x : Trained(x) /\ SavedAs(file, x) /\ CodesOf(x, file.codes)

LEMMA TrainedIs ==
  ASSUME NEW x, Trained(x)
  PROVE  Quantizer(x) /\ x.mode \in Modes
  BY DEF Trained, TrainedSQ8, TrainedBinary, TrainedPQ, Quantizer, Modes

LEMMA QuantStart == Init => QuantInv
  <1> SUFFICES ASSUME Init PROVE QuantInv
    OBVIOUS
  <1>1. PICK mode \in Modes : q = NewQuantizer(mode)
    BY DEF Init, QuantInit
  <1>2. Quantizer(q)
    <2>1. CASE mode = "kSQ8"
      BY <1>1, <2>1 DEF NewQuantizer, Quantizer, Record, FieldsSQ8
    <2>2. CASE mode = "kBinary"
      BY <1>1, <2>2 DEF NewQuantizer, Quantizer, Record, FieldsBinary
    <2>3. CASE mode = "kPQ"
      BY <1>1, <2>3 DEF NewQuantizer, Quantizer, Record, FieldsPQ
    <2>4. QED BY <2>1, <2>2, <2>3 DEF Modes
  <1>3. ~ready /\ file = NoQuantFile
    BY DEF Init, QuantInit
  <1>4. QED BY <1>2, <1>3 DEF QuantInv

LEMMA TrainKeeps ==
  ASSUME QuantInv, NEW t \in Samples[q.mode], Train(t)
  PROVE  Quantizer(q') /\ (ready' => Trained(q')) /\ codes' = {} /\ file' = file
  <1> DEFINE dim == Len(t[1])
             divides == q.mode = "kPQ" => dim % q.m = 0
  <1>0. Quantizer(q)
    BY DEF QuantInv
  <1>1. ready' = divides /\ codes' = {} /\ file' = file
    BY DEF Train
  <1>2. CASE ~divides
    <2>1. q.mode = "kPQ" /\ q' = [q EXCEPT !.dim = dim, !.subdim = dim \div q.m]
      BY <1>2 DEF Train
    <2> HIDE DEF dim
    <2>2. Quantizer(q')
      BY <1>0, <2>1 DEF Quantizer, Record, FieldsPQ
    <2>3. QED BY <1>1, <1>2, <2>2
  <1>3. CASE divides
    <2>1. CASE q.mode = "kSQ8"
      <3>1. q' = TrainSQ8(q, t)
        BY <1>3, <2>1 DEF Train
      <3>2. TrainedSQ8(q')
        BY <1>0, <2>1, <3>1, TrainedAsSQ8
      <3>3. QED BY <1>1, <3>2, TrainedIs DEF Trained
    <2>2. CASE q.mode = "kBinary"
      <3>1. q' = [q EXCEPT !.dim = dim]
        BY <1>3, <2>2 DEF Train
      <3>2. dim \in Nat
        BY <2>2, SampleType DEF Modes
      <3> HIDE DEF dim
      <3>3. TrainedBinary(q')
        BY <1>0, <2>2, <3>1, <3>2 DEF Quantizer, TrainedBinary, Record, FieldsBinary
      <3>4. QED BY <1>1, <3>3, TrainedIs DEF Trained
    <2>3. CASE q.mode = "kPQ"
      <3>1. q' \in TrainPQ(q, t)
        BY <1>3, <2>3 DEF Train
      <3>2. Len(t[1]) % PqSubspaces = 0 /\ t \in Samples["kPQ"]
        BY <1>0, <1>3, <2>3 DEF Quantizer
      <3>3. TrainedPQ(q')
        BY <1>0, <2>3, <3>1, <3>2, TrainedAsPQ
      <3>4. QED BY <1>1, <3>3, TrainedIs DEF Trained
    <2>4. QED BY <1>0, <2>1, <2>2, <2>3 DEF Quantizer
  <1>4. QED BY <1>2, <1>3

LEMMA LoadKeeps ==
  ASSUME QuantInv, LoadQuantizer
  PROVE  Quantizer(q') /\ (ready' => Trained(q') /\ CodesOf(q', codes')) /\ file' = file
  <1>0. /\ q' = IF file.q.mode = "kPQ" THEN [file.q EXCEPT !.codebooks = LoadedCodebooks(file)]
                ELSE file.q
        /\ ready' = LoadSucceeds(file) /\ codes' = file.codes /\ file' = file
    BY DEF LoadQuantizer
  <1>1. PICK x : Trained(x) /\ SavedAs(file, x) /\ CodesOf(x, file.codes)
    BY DEF QuantInv, LoadQuantizer
  <1>2. CASE x.mode # "kPQ"
    <2>1. q' = x
      BY <1>0, <1>1, <1>2 DEF SavedAs
    <2>2. QED BY <1>0, <1>1, <2>1, TrainedIs
  <1>3. CASE x.mode = "kPQ"
    <2>1. TrainedPQ(x)
      BY <1>1, <1>3 DEF Trained, TrainedSQ8, TrainedBinary
    <2>2. Record(x, FieldsPQ) /\ x.m = PqSubspaces /\ x.k = PqCentroids
      BY <2>1 DEF TrainedPQ
    <2>3. file.q = [x EXCEPT !.codebooks = <<>>]
      BY <1>1, <1>3 DEF SavedAs
    <2> DEFINE books == LoadedCodebooks(file)
    <2>4. q' = [file.q EXCEPT !.codebooks = books]
      BY <1>0, <1>3, <2>2, <2>3 DEF Record, FieldsPQ
    <2>5. LoadSucceeds(file) => books = x.codebooks
      BY <1>1, <2>1, LoadedAre
    <2> HIDE DEF books
    <2>6. Quantizer(q')
      BY <1>3, <2>2, <2>3, <2>4 DEF Quantizer, Record, FieldsPQ
    <2>7. LoadSucceeds(file) => q' = x
      BY <2>2, <2>3, <2>4, <2>5 DEF Record, FieldsPQ
    <2>8. QED BY <1>0, <1>1, <2>6, <2>7
  <1>4. QED BY <1>2, <1>3

LEMMA QuantStep == QuantInv /\ [Next]_vars => QuantInv'
  <1> SUFFICES ASSUME QuantInv, [Next]_vars PROVE QuantInv'
    OBVIOUS
  <1>1. CASE UNCHANGED quantVars
    BY <1>1 DEF quantVars, QuantInv
  <1>2. ASSUME NEW t \in Samples[q.mode], Train(t) PROVE QuantInv'
    <2>1. Quantizer(q') /\ (ready' => Trained(q')) /\ codes' = {} /\ file' = file
      BY <1>2, TrainKeeps
    <2>2. CodesOf(q', {})
      BY DEF CodesOf
    <2>3. QED BY <2>1, <2>2 DEF QuantInv
  <1>3. ASSUME NEW v \in Vectors[q.mode], Encode(v) PROVE QuantInv'
    <2>1. /\ ready /\ Len(v) = q.dim /\ q' = q /\ ready' = ready /\ file' = file
          /\ codes' = codes \cup {[vec |-> v, code |-> Encoded(v)]}
      BY <1>3 DEF Encode
    <2>2. Encoded(v) = EncodedBy(q, v)
      BY DEF Encoded, EncodedBy
    <2>3. Quantizer(q) /\ Trained(q) /\ CodesOf(q, codes)
      BY <2>1 DEF QuantInv
    <2>4. CodesOf(q, codes')
      BY <2>1, <2>2, <2>3 DEF CodesOf
    <2>5. QED BY <2>1, <2>3, <2>4 DEF QuantInv
  <1>4. ASSUME SaveQuantizer PROVE QuantInv'
    <2>1. /\ ready /\ q' = q /\ ready' = ready /\ codes' = codes
          /\ file' = [q |-> IF q.mode = "kPQ" THEN [q EXCEPT !.codebooks = <<>>] ELSE q,
                      centroids |-> IF q.mode = "kPQ" THEN Flat(q.codebooks) ELSE <<>>,
                      codes |-> codes]
      BY <1>4 DEF SaveQuantizer
    <2>2. Quantizer(q) /\ Trained(q) /\ CodesOf(q, codes)
      BY <2>1 DEF QuantInv
    <2>3. SavedAs(file', q) /\ CodesOf(q, file'.codes)
      BY <2>1, <2>2 DEF SavedAs
    <2>4. \E x : Trained(x) /\ SavedAs(file', x) /\ CodesOf(x, file'.codes)
      BY <2>2, <2>3
    <2>5. QED BY <2>1, <2>2, <2>4 DEF QuantInv
  <1>5. ASSUME LoadQuantizer PROVE QuantInv'
    <2>1. Quantizer(q') /\ (ready' => Trained(q') /\ CodesOf(q', codes')) /\ file' = file
      BY <1>5, LoadKeeps
    <2>2. QED BY <2>1 DEF QuantInv
  <1>6. QED
    BY <1>1, <1>2, <1>3, <1>4, <1>5 DEF Next, QuantNext, vars

(***************************************************************************)
(* The codes of a trained quantizer                                        *)
(***************************************************************************)
\* The index of every centroid fits into the byte that stores it.
IndexFits == PqCentroids <= ByteValues

LEMMA SQ8CodeType ==
  ASSUME NEW x, TrainedSQ8(x), NEW v \in Vectors["kSQ8"], Len(v) = x.dim
  PROVE  EncodeSQ8(x, v) \in Seq(Int) /\ Len(EncodeSQ8(x, v)) = x.dim
  <1>1. x.dim \in Nat /\ v \in Seq(Coordinate)
    BY QuantizersAssumption DEF Modes, TrainedSQ8
  <1>2. ASSUME NEW j \in 1 .. x.dim PROVE Level(x, Value(v[j])) \in Int
    <2>1. v[j] \in Coordinate
      BY <1>1
    <2>2. Value(v[j]) \in Int
      BY <2>1 DEF Value, Coordinate
    <2>3. QED BY <2>2, LevelIsNear
  <1>3. QED BY <1>1, <1>2 DEF EncodeSQ8

\* The code of a vector names in each subspace the centroid that is nearest.
LEMMA PQCodeIsNearest ==
  ASSUME IndexFits, NEW x, TrainedPQ(x), NEW v \in Vectors["kPQ"], Len(v) = x.dim,
         NEW s \in 1 .. PqSubspaces
  PROVE  /\ Part(v, s, x.subdim) \in Seq(Int) /\ Len(Part(v, s, x.subdim)) = x.subdim
         /\ Centroid(x, EncodePQ(x, v), s) \in Seq(Int)
         /\ Len(Centroid(x, EncodePQ(x, v), s)) = x.subdim
         /\ \E k \in 1 .. Len(x.codebooks[s]) :
              Centroid(x, EncodePQ(x, v), s) = x.codebooks[s][k]
         /\ \A k \in 1 .. Len(x.codebooks[s]) :
              Apart(Part(v, s, x.subdim), Centroid(x, EncodePQ(x, v), s))
                <= Apart(Part(v, s, x.subdim), x.codebooks[s][k])
  <1> DEFINE d == x.subdim
             p == Part(v, s, d)
             cs == x.codebooks[s]
             c == Nearest(cs, p)
             code == EncodePQ(x, v)
  <1>1. /\ d \in Nat /\ PqSubspaces \in Nat /\ Len(v) = PqSubspaces * d
        /\ v \in Seq(Coordinate) /\ x.m = PqSubspaces
    BY QuantizersAssumption DEF TrainedPQ, Modes
  <1>2. Book(cs, d)
    BY DEF TrainedPQ
  <1>3. /\ cs \in Seq(Seq(Int)) /\ cs # <<>> /\ Len(cs) \in 1 .. PqCentroids
        /\ \A k \in 1 .. Len(cs) : Len(cs[k]) = d
    BY <1>2 DEF Book
  <1>4. code = [r \in 1 .. PqSubspaces |->
                  (Nearest(x.codebooks[r], Part(v, r, d)) - 1) % ByteValues]
    BY <1>1 DEF EncodePQ
  <1>5. code[s] = (c - 1) % ByteValues
    BY <1>4
  <1> HIDE DEF d, code
  <1>6. p \in Seq(Int) /\ Len(p) = d
    <2>1. QED BY <1>1, PartType, Zenon
  <1> HIDE DEF p, cs
  <1>7. /\ c \in 1 .. Len(cs)
        /\ \A k \in 1 .. Len(cs) : Apart(p, cs[c]) <= Apart(p, cs[k])
    BY <1>1, <1>3, <1>6, NearestIs
  <1> HIDE DEF c
  <1>8. code[s] + 1 = c
    <2>1. c - 1 \in 0 .. ByteValues - 1 /\ ByteValues \in Nat \ {0}
      BY <1>3, <1>7, QuantizersAssumption DEF IndexFits
    <2>2. (c - 1) % ByteValues = c - 1
      BY <2>1
    <2>3. QED BY <1>5, <1>7, <2>2
  <1>9. Centroid(x, code, s) = cs[c]
    BY <1>8 DEF Centroid, cs
  <1>10. cs[c] \in Seq(Int) /\ Len(cs[c]) = d
    BY <1>3, <1>7
  <1>11. QED BY <1>6, <1>7, <1>9, <1>10 DEF p, cs, d, code

LEMMA SumsOfDistances ==
  ASSUME NEW m \in Nat, NEW a, NEW b, Len(a) = m, Len(b) = m,
         \A s \in 1 .. m : a[s] \in Nat /\ b[s] \in Nat
  PROVE  /\ (\A s \in 1 .. m : a[s] <= b[s]) => SumOver(a) <= SumOver(b)
         /\ (\A s \in 1 .. m : a[s] = b[s]) => SumOver(a) = SumOver(b)
         /\ SumOver(a) = 0 => \A s \in 1 .. m : a[s] = 0
  <1>1. SumOver(a) = SumTo(a, m) /\ SumOver(b) = SumTo(b, m)
    BY SumIs
  <1>2. (\A s \in 1 .. m : a[s] <= b[s]) => SumTo(a, m) <= SumTo(b, m)
    BY SumAtMost
  <1>3. (\A s \in 1 .. m : a[s] = b[s]) => SumTo(a, m) = SumTo(b, m)
    <2>1. m \in 0 .. m
      OBVIOUS
    <2>2. QED BY <2>1, SumSame
  <1>4. SumTo(a, m) = 0 => \A s \in 1 .. m : a[s] = 0
    BY SumOfNats
  <1>5. QED BY <1>1, <1>2, <1>3, <1>4

LEMMA CodesAre ==
  ASSUME QuantInv, ready, NEW c \in codes
  PROVE  /\ Trained(q) /\ q.mode \in Modes
         /\ c.vec \in Vectors[q.mode] /\ Len(c.vec) = q.dim /\ c.code = EncodedBy(q, c.vec)
  BY TrainedIs DEF QuantInv, CodesOf

LEMMA OwnSQ8 ==
  ASSUME QuantInv, ready, q.mode = "kSQ8", NEW c \in codes, NEW d \in codes
  PROVE  distance_to_query(c.code, c.vec) <= distance_to_query(d.code, c.vec)
  <1>1. TrainedSQ8(q)
    BY CodesAre DEF Trained, TrainedBinary, TrainedPQ
  <1>2. ASSUME NEW x \in codes
        PROVE  x.code = EncodeSQ8(q, x.vec) /\ x.code \in Seq(Int) /\ Len(x.code) = q.dim
    <2>1. /\ x.vec \in Vectors["kSQ8"] /\ Len(x.vec) = q.dim
          /\ x.code = EncodeSQ8(q, x.vec)
      BY CodesAre DEF EncodedBy
    <2>2. QED BY <1>1, <2>1, SQ8CodeType
  <1>3. ASSUME NEW x \in codes
        PROVE  distance_to_query(x.code, c.vec) = sq8_l2_bytes(x.code, c.code)
    BY <1>2 DEF distance_to_query
  <1>4. sq8_l2_bytes(c.code, c.code) = 0
    <2> DEFINE a == c.code
    <2>1. a \in Seq(Int)
      BY <1>2
    <2> HIDE DEF a
    <2>2. sq8_l2_bytes(a, a) = 0
      BY <2>1, BytesApart
    <2>3. QED BY <2>2 DEF a
  <1>5. sq8_l2_bytes(d.code, c.code) \in Nat
    <2> DEFINE a == d.code
               b == c.code
    <2>1. a \in Seq(Int) /\ b \in Seq(Int) /\ Len(a) = Len(b)
      BY <1>2
    <2> HIDE DEF a, b
    <2>2. sq8_l2_bytes(a, b) \in Nat
      BY <2>1, BytesApart
    <2>3. QED BY <2>2 DEF a, b
  <1>6. QED BY <1>3, <1>4, <1>5

LEMMA OwnBinary ==
  ASSUME QuantInv, ready, q.mode = "kBinary", NoNegZero, NEW c \in codes, NEW d \in codes
  PROVE  distance_to_query(c.code, c.vec) <= distance_to_query(d.code, c.vec)
  <1>1. TrainedBinary(q)
    BY CodesAre DEF Trained, TrainedSQ8, TrainedPQ
  <1> DEFINE n == (q.dim + 7) \div 8
  <1>2. ASSUME NEW x \in codes
        PROVE  /\ x.code = QueryBits(q, x.vec)
               /\ Len(x.code) = n /\ n \in Nat
               /\ \A i \in 1 .. n : x.code[i] \subseteq 0 .. 7
    <2>1. /\ x.vec \in Vectors["kBinary"] /\ Len(x.vec) = q.dim
          /\ x.code = EncodeBinary(q, x.vec)
      BY CodesAre DEF EncodedBy
    <2>2. QED BY <1>1, <2>1, BitsOfQuery, BinaryCodeType
  <1> HIDE DEF n
  <1>3. ASSUME NEW x \in codes
        PROVE  distance_to_query(x.code, c.vec) = binary_hamming(x.code, c.code)
    BY <1>2 DEF distance_to_query
  <1>4. ASSUME NEW x \in codes
        PROVE  binary_hamming(x.code, c.code) \in Nat /\ binary_hamming(x.code, x.code) = 0
    <2> DEFINE a == x.code
               b == c.code
    <2>1. /\ Len(a) = n /\ n \in Nat
          /\ \A i \in 1 .. n : a[i] \subseteq 0 .. 7 /\ b[i] \subseteq 0 .. 7
      BY <1>2
    <2> HIDE DEF a, b
    <2>2. binary_hamming(a, b) \in Nat /\ binary_hamming(a, a) = 0
      BY <2>1, HammingType
    <2>3. QED BY <2>2 DEF a, b
  <1>5. QED BY <1>3, <1>4

\* The distances of PQ, subspace by subspace.
LEMMA PQDistances ==
  ASSUME QuantInv, ready, q.mode = "kPQ", IndexFits, NEW c \in codes, NEW v \in codes
  PROVE  LET a == [s \in 1 .. q.m |-> Apart(Part(v.vec, s, q.subdim), Centroid(q, c.code, s))]
             b == [s \in 1 .. q.m |-> Apart(Part(v.vec, s, q.subdim), Centroid(q, v.code, s))]
             e == [s \in 1 .. q.m |-> Apart(Centroid(q, c.code, s), Centroid(q, v.code, s))]
         IN  /\ q.m \in Nat /\ Len(a) = q.m /\ Len(b) = q.m /\ Len(e) = q.m
             /\ \A s \in 1 .. q.m :
                  /\ a[s] \in Nat /\ b[s] \in Nat /\ e[s] \in Nat
                  /\ b[s] <= a[s]
                  /\ b[s] = 0 => a[s] = e[s]
             /\ distance_to_query(c.code, v.vec) = SumOver(a)
             /\ distance_to_query(v.code, v.vec) = SumOver(b)
             /\ distance(c.code, v.code) = SumOver(e)
  <1> DEFINE p(s) == Part(v.vec, s, q.subdim)
             z(x, s) == Centroid(q, x.code, s)
             a == [s \in 1 .. q.m |-> Apart(p(s), z(c, s))]
             b == [s \in 1 .. q.m |-> Apart(p(s), z(v, s))]
             e == [s \in 1 .. q.m |-> Apart(z(c, s), z(v, s))]
  <1>1. TrainedPQ(q) /\ q.m = PqSubspaces /\ q.m \in Nat /\ q.subdim \in Nat
    BY CodesAre, QuantizersAssumption DEF Trained, TrainedSQ8, TrainedBinary, TrainedPQ
  <1>2. ASSUME NEW x \in codes
        PROVE  /\ x.vec \in Vectors["kPQ"] /\ Len(x.vec) = q.dim
               /\ x.code = EncodePQ(q, x.vec)
    BY CodesAre DEF EncodedBy
  <1>3. ASSUME NEW s \in 1 .. q.m, NEW x \in codes
        PROVE  z(x, s) \in Seq(Int) /\ Len(z(x, s)) = q.subdim
    BY <1>1, <1>2, PQCodeIsNearest
  <1>4. ASSUME NEW s \in 1 .. q.m
        PROVE  p(s) \in Seq(Int) /\ Len(p(s)) = q.subdim /\ Apart(p(s), z(v, s)) <= Apart(p(s), z(c, s))
    <2>1. /\ p(s) \in Seq(Int) /\ Len(p(s)) = q.subdim
          /\ \A k \in 1 .. Len(q.codebooks[s]) :
               Apart(p(s), z(v, s)) <= Apart(p(s), q.codebooks[s][k])
      BY <1>1, <1>2, PQCodeIsNearest
    <2>2. PICK k \in 1 .. Len(q.codebooks[s]) : z(c, s) = q.codebooks[s][k]
      <3> DEFINE w == c.vec
      <3>1. w \in Vectors["kPQ"] /\ Len(w) = q.dim /\ c.code = EncodePQ(q, w)
        BY <1>2
      <3> HIDE DEF w
      <3>2. s \in 1 .. PqSubspaces /\ TrainedPQ(q)
        BY <1>1
      <3>3. \E k \in 1 .. Len(q.codebooks[s]) :
              Centroid(q, EncodePQ(q, w), s) = q.codebooks[s][k]
        BY <3>1, <3>2, PQCodeIsNearest, Zenon
      <3>4. QED BY <3>1, <3>3
    <2>3. QED BY <2>1, <2>2
  <1>5. /\ distance_to_query(c.code, v.vec) = SumOver(a)
        /\ distance_to_query(v.code, v.vec) = SumOver(b)
        /\ distance(c.code, v.code) = SumOver(e)
    BY DEF distance_to_query, distance
  <1> HIDE DEF p, z
  <1>6. Len(a) = q.m /\ Len(b) = q.m /\ Len(e) = q.m
    BY <1>1
  <1>7. ASSUME NEW s \in 1 .. q.m
        PROVE  /\ a[s] \in Nat /\ b[s] \in Nat /\ e[s] \in Nat
               /\ b[s] <= a[s]
               /\ b[s] = 0 => a[s] = e[s]
    <2>1. a[s] = Apart(p(s), z(c, s)) /\ b[s] = Apart(p(s), z(v, s)) /\ e[s] = Apart(z(c, s), z(v, s))
      OBVIOUS
    <2> DEFINE k == p(s)
               g == z(c, s)
               h == z(v, s)
    <2>2. /\ k \in Seq(Int) /\ Len(k) = q.subdim
          /\ g \in Seq(Int) /\ Len(g) = q.subdim
          /\ h \in Seq(Int) /\ Len(h) = q.subdim
      BY <1>3, <1>4
    <2>3. Apart(k, h) <= Apart(k, g)
      BY <1>4
    <2>4. a[s] = Apart(k, g) /\ b[s] = Apart(k, h) /\ e[s] = Apart(g, h)
      BY <2>1
    <2> HIDE DEF k, g, h, a, b, e
    <2>5. /\ Apart(k, g) \in Nat /\ Apart(k, h) \in Nat /\ Apart(g, h) \in Nat
          /\ Apart(k, h) = 0 => k = h
          /\ Apart(k, g) = Apart(g, k)
      BY <1>1, <2>2, ApartIs
    <2>6. QED BY <2>3, <2>4, <2>5
  <1>8. QED BY <1>1, <1>5, <1>6, <1>7 DEF p, z

LEMMA OwnPQ ==
  ASSUME QuantInv, ready, q.mode = "kPQ", IndexFits, NEW d \in codes, NEW c \in codes
  PROVE  distance_to_query(c.code, c.vec) <= distance_to_query(d.code, c.vec)
  <1> DEFINE m == q.m
             a == [s \in 1 .. m |-> Apart(Part(c.vec, s, q.subdim), Centroid(q, d.code, s))]
             b == [s \in 1 .. m |-> Apart(Part(c.vec, s, q.subdim), Centroid(q, c.code, s))]
  <1>1. /\ m \in Nat /\ Len(a) = m /\ Len(b) = m
        /\ \A s \in 1 .. m : a[s] \in Nat /\ b[s] \in Nat /\ b[s] <= a[s]
        /\ distance_to_query(d.code, c.vec) = SumOver(a)
        /\ distance_to_query(c.code, c.vec) = SumOver(b)
    BY PQDistances
  <1> HIDE DEF m, a, b
  <1>2. SumOver(b) <= SumOver(a)
    BY <1>1, SumsOfDistances
  <1>3. QED BY <1>1, <1>2

LEMMA QueryPQ ==
  ASSUME QuantInv, ready, q.mode = "kPQ", IndexFits, NEW c \in codes, NEW d \in codes,
         distance_to_query(d.code, d.vec) = 0
  PROVE  distance_to_query(c.code, d.vec) = distance(c.code, d.code)
  <1> DEFINE m == q.m
             a == [s \in 1 .. m |-> Apart(Part(d.vec, s, q.subdim), Centroid(q, c.code, s))]
             b == [s \in 1 .. m |-> Apart(Part(d.vec, s, q.subdim), Centroid(q, d.code, s))]
             e == [s \in 1 .. m |-> Apart(Centroid(q, c.code, s), Centroid(q, d.code, s))]
  <1>1. /\ m \in Nat /\ Len(a) = m /\ Len(b) = m /\ Len(e) = m
        /\ \A s \in 1 .. m : /\ a[s] \in Nat /\ b[s] \in Nat /\ e[s] \in Nat
                             /\ b[s] = 0 => a[s] = e[s]
        /\ distance_to_query(c.code, d.vec) = SumOver(a)
        /\ distance_to_query(d.code, d.vec) = SumOver(b)
        /\ distance(c.code, d.code) = SumOver(e)
    BY PQDistances
  <1> HIDE DEF m, a, b, e
  <1>2. \A s \in 1 .. m : b[s] = 0
    BY <1>1, SumsOfDistances
  <1>3. \A s \in 1 .. m : a[s] = e[s]
    BY <1>1, <1>2
  <1>4. SumOver(a) = SumOver(e)
    BY <1>1, <1>3, SumsOfDistances
  <1>5. QED BY <1>1, <1>4

\* When no vector has a coordinate -0.0F and the index of every centroid fits
\* into a byte, then of all codes kept none is nearer to a vector than its own:
\* in every mode, for every training set, however k-means draws its first
\* centroids and however the distance of SQ8 codes was compiled, and after any
\* history of train(), encode(), save() and load().
THEOREM OwnCodesAreNearest ==
  ASSUME NoNegZero, IndexFits
  PROVE  Spec => []OwnCodeIsNearest
  <1>1. QuantInv => OwnCodeIsNearest
    <2> SUFFICES ASSUME QuantInv, ready, NEW c \in codes, NEW d \in codes
                 PROVE  distance_to_query(c.code, c.vec) <= distance_to_query(d.code, c.vec)
      BY DEF OwnCodeIsNearest
    <2>1. q.mode \in Modes
      BY CodesAre
    <2>2. QED BY <2>1, OwnSQ8, OwnBinary, OwnPQ DEF Modes
  <1>2. QED BY <1>1, QuantStart, QuantStep, PTL DEF Spec

\* Under the same hypotheses the distance from a code to a query is the
\* distance to the query's own code, in PQ for the queries that lose nothing.
THEOREM QueriesAgree ==
  ASSUME NoNegZero, IndexFits
  PROVE  Spec => []QueriesAgreeWithCodes
  <1>1. QuantInv => QueriesAgreeWithCodes
    <2> SUFFICES ASSUME QuantInv, ready, NEW c \in codes, NEW d \in codes,
                        q.mode = "kPQ" => distance_to_query(d.code, d.vec) = 0
                 PROVE  distance_to_query(c.code, d.vec) = distance(c.code, d.code)
      BY DEF QueriesAgreeWithCodes
    <2>0. /\ Trained(q) /\ q.mode \in Modes
          /\ d.vec \in Vectors[q.mode] /\ Len(d.vec) = q.dim /\ d.code = EncodedBy(q, d.vec)
      BY CodesAre
    <2>1. CASE q.mode = "kSQ8"
      BY <2>0, <2>1 DEF distance_to_query, distance, EncodedBy
    <2>2. CASE q.mode = "kBinary"
      <3>1. TrainedBinary(q) /\ d.code = EncodeBinary(q, d.vec)
        BY <2>0, <2>2 DEF Trained, TrainedSQ8, TrainedPQ, EncodedBy
      <3>2. QueryBits(q, d.vec) = d.code
        BY <2>0, <2>2, <3>1, BitsOfQuery
      <3>3. QED BY <2>2, <3>2 DEF distance_to_query, distance
    <2>3. CASE q.mode = "kPQ"
      BY <2>3, QueryPQ
    <2>4. QED BY <2>0, <2>1, <2>2, <2>3 DEF Modes
  <1>2. QED BY <1>1, QuantStart, QuantStep, PTL DEF Spec

\* When the index of every centroid fits into a byte, a code keeps of its vector
\* what its mode can keep: SQ8 every coordinate in the trained range to half a
\* step, PQ in every subspace a centroid that none of the codebook is nearer than.
THEOREM CodesKeepTheirVectors ==
  ASSUME IndexFits
  PROVE  Spec => []CodesAreAccurate
  <1>1. ASSUME QuantInv, ready, q.mode = "kSQ8", NEW c \in codes, NEW j \in 1 .. q.dim,
               Value(c.vec[j]) \in q.min .. q.max
        PROVE  LET off == (ByteValues - 1) * (Value(c.vec[j]) - q.min)
                            - c.code[j] * (q.max - q.min)
               IN  2 * (IF off < 0 THEN -off ELSE off) <= q.max - q.min
    <2>0. /\ Trained(q) /\ CodesOf(q, codes)
          /\ TrainedSQ8(q) /\ c.code = EncodeSQ8(q, c.vec)
      BY <1>1, CodesAre DEF QuantInv, Trained, TrainedBinary, TrainedPQ, EncodedBy
    <2> DEFINE v == Value(c.vec[j])
               off == Off(q, v, Level(q, v))
    <2>1. v \in Int
      BY <2>0, ValueType
    <2>2. c.code[j] = Level(q, v)
      BY <1>1, <2>0 DEF EncodeSQ8
    <2>3. /\ off \in Int /\ 2 * off <= q.max - q.min /\ -(q.max - q.min) <= 2 * off
      BY <1>1, <2>0, <2>1, LevelIsNear
    <2>4. q.max - q.min \in Int
      BY <2>0 DEF TrainedSQ8
    <2>5. off = (ByteValues - 1) * (Value(c.vec[j]) - q.min) - c.code[j] * (q.max - q.min)
      BY <2>2 DEF Off
    <2> HIDE DEF off, v
    <2>6. 2 * (IF off < 0 THEN -off ELSE off) <= q.max - q.min
      BY <2>3, <2>4
    <2>7. QED BY <2>5, <2>6
  <1>2. ASSUME QuantInv, ready, q.mode = "kPQ", NEW c \in codes, NEW s \in 1 .. q.m,
               NEW k \in 1 .. Len(q.codebooks[s])
        PROVE  Apart(Part(c.vec, s, q.subdim), Centroid(q, c.code, s))
                 <= Apart(Part(c.vec, s, q.subdim), q.codebooks[s][k])
    <2> DEFINE v == c.vec
    <2>1. /\ TrainedPQ(q) /\ v \in Vectors["kPQ"] /\ Len(v) = q.dim
          /\ c.code = EncodePQ(q, v)
      BY <1>2, CodesAre DEF Trained, TrainedSQ8, TrainedBinary, EncodedBy
    <2>2. s \in 1 .. PqSubspaces
      BY <1>2, <2>1 DEF TrainedPQ
    <2> HIDE DEF v
    <2>3. Apart(Part(v, s, q.subdim), Centroid(q, EncodePQ(q, v), s))
            <= Apart(Part(v, s, q.subdim), q.codebooks[s][k])
      BY <2>1, <2>2, PQCodeIsNearest, Zenon
    <2>4. QED BY <2>1, <2>3 DEF v
  <1>3. QuantInv => CodesAreAccurate
    BY <1>1, <1>2, Zenon DEF CodesAreAccurate
  <1>4. QED BY <1>3, QuantStart, QuantStep, PTL DEF Spec
=============================================================================
