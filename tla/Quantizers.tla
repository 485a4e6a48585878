----------------------------- MODULE Quantizers -----------------------------
(***************************************************************************)
(* src/index/quantizer*.cpp and vector/quantized_distance.cpp: a quantizer *)
(* is trained on samples, turns vectors into codes and estimates distances  *)
(* from codes; it is saved and loaded, and the codes are kept by its owner. *)
(* Coordinates are integers, and NegZero for -0.0F.  Distances of SQ8 codes *)
(* are in units of the squared step.  Means are exact when the coordinates  *)
(* are multiples of every number up to the number of samples.              *)
(***************************************************************************)
EXTENDS VectorMath, FiniteSets

CONSTANTS
  Samples,       \* of each mode, the training sets: sequences of vectors
  Vectors,       \* of each mode, the vectors that are encoded
  PqSubspaces,   \* pq_subspaces
  PqCentroids,   \* pq_centroids
  PqIterations,  \* rounds of k-means: 8
  ByteValues,    \* values of a byte: 256
  ByteKernels,   \* of each architecture, the builds of sq8_l2_bytes()
  NegZero

Modes == {"kSQ8", "kBinary", "kPQ"}
Coordinate == {NegZero} \cup Int

ASSUME QuantizersAssumption ==
  /\ PqSubspaces \in Nat \ {0} /\ PqCentroids \in Nat \ {0, 1} /\ PqIterations \in Nat
  /\ ByteValues \in Nat \ {0, 1}
  /\ \A c \in Cpus : ByteKernels[c.arch] \subseteq {"neon", "avx2", "scalar"}
  /\ \A mode \in Modes :
       /\ Vectors[mode] \subseteq Seq(Coordinate)
       /\ \A t \in Samples[mode] :
            /\ t \in Seq(Seq(Coordinate)) /\ t # <<>> /\ t[1] # <<>>
            /\ \A i \in 1 .. Len(t) : Len(t[i]) = Len(t[1])

VARIABLES
  byteKernel,  \* how sq8_l2_bytes() was compiled
  q,           \* the quantizer object
  ready,       \* its last train() or load() returned OK
  codes,       \* the codes its owner keeps: [vec, code]
  file         \* what save() wrote, and the codes that belong to it

quantVars == <<byteKernel, q, ready, codes, file>>

NoQuantFile == [q |-> [mode |-> "none"], centroids |-> <<>>, codes |-> {}]

\* make_quantizer()
NewQuantizer(mode) ==
  CASE mode = "kSQ8" -> [mode |-> mode, dim |-> 0, min |-> 0, max |-> 1]
    [] mode = "kBinary" -> [mode |-> mode, dim |-> 0]
    [] mode = "kPQ" -> [mode |-> mode, dim |-> 0, m |-> PqSubspaces, k |-> PqCentroids,
                        subdim |-> 0, codebooks |-> <<>>]

QuantInit ==
  /\ byteKernel \in ByteKernels[cpu.arch]
  /\ q \in {NewQuantizer(mode) : mode \in Modes}
  /\ ready = FALSE
  /\ codes = {}
  /\ file = NoQuantFile

Value(x) == IF x = NegZero THEN 0 ELSE x
Squared(x) == x * x

(***************************************************************************)
(* SQ8: one range for all coordinates, mapped to the values of a byte      *)
(***************************************************************************)
Smallest(S) == CHOOSE x \in S : \A y \in S : x <= y
Largest(S) == CHOOSE x \in S : \A y \in S : x >= y

TrainSQ8(sq, samples) ==
  LET all == {Value(samples[i][j]) : i \in 1 .. Len(samples), j \in 1 .. Len(samples[1])}
      lo == Smallest(all)
      hi == Largest(all)
  IN  [sq EXCEPT !.dim = Len(samples[1]), !.min = lo,
                 !.max = IF hi <= lo THEN lo + 1 ELSE hi]

\* lround() of a value clamped to the range of a byte.
LevelCut(sq, x) == ((ByteValues - 1) * (x - sq.min)) \div (sq.max - sq.min)
Level(sq, x) ==
  LET range == sq.max - sq.min
  IN  IF x <= sq.min THEN 0
      ELSE IF x >= sq.max THEN ByteValues - 1
      ELSE (2 * (ByteValues - 1) * (x - sq.min) + range) \div (2 * range)

EncodeSQ8(sq, vec) == [j \in 1 .. sq.dim |-> Level(sq, Value(vec[j]))]

\* AVX2 takes the absolute value of a difference that has wrapped to 8 bits.
Wrapped(a, b) ==
  LET d == (a - b) % ByteValues IN IF 2 * d >= ByteValues THEN ByteValues - d ELSE d

\* sq8_l2_bytes(): blocks of 16 or 32 bytes, and the rest one by one.
sq8_l2_bytes(a, b) ==
  LET n == Len(a)
      whole == CASE byteKernel = "neon" -> 16 * (n \div 16)
                 [] byteKernel = "avx2" -> 32 * (n \div 32)
                 [] OTHER -> 0
      block(i) == Squared(IF byteKernel = "avx2" THEN Wrapped(a[i], b[i]) ELSE a[i] - b[i])
      rest(i) == Squared(a[whole + i] - b[whole + i])
  IN  SumOver([i \in 1 .. whole |-> block(i)])
        + SumOver([i \in 1 .. n - whole |-> rest(i)])

(***************************************************************************)
(* Binary: a bit per coordinate, the bits of a byte as a set               *)
(***************************************************************************)
PackedBits(bits) ==
  [b \in 1 .. (Len(bits) + 7) \div 8 |->
     {j \in 0 .. 7 : (b - 1) * 8 + j < Len(bits) /\ bits[(b - 1) * 8 + j + 1]}]

EncodeBinary(bq, vec) == PackedBits([j \in 1 .. bq.dim |-> Value(vec[j]) >= 0])

\* The query's bits come from the sign bit of the float.
SignBit(x) == x = NegZero \/ Value(x) < 0
QueryBitsStrict(bq, vec) == PackedBits([j \in 1 .. bq.dim |-> Value(vec[j]) > 0])
QueryBits(bq, vec) == PackedBits([j \in 1 .. bq.dim |-> ~SignBit(vec[j])])

binary_hamming(a, b) ==
  SumOver([i \in 1 .. Len(a) |-> Cardinality((a[i] \ b[i]) \cup (b[i] \ a[i]))])

(***************************************************************************)
(* PQ: k-means in every subspace                                           *)
(***************************************************************************)
Part(vec, s, subdim) == [j \in 1 .. subdim |-> Value(vec[(s - 1) * subdim + j])]
Apart(u, v) == SumOver([j \in 1 .. Len(u) |-> Squared(u[j] - v[j])])

\* The first centroid that no other is nearer than.
Nearest(cs, p) ==
  CHOOSE c \in 1 .. Len(cs) : \A d \in 1 .. Len(cs) :
    Apart(p, cs[c]) < Apart(p, cs[d]) \/ (Apart(p, cs[c]) = Apart(p, cs[d]) /\ c <= d)

\* A centroid without points stays where it is.
Moved(cs, points) ==
  [c \in 1 .. Len(cs) |->
     LET mine == {p \in 1 .. Len(points) : Nearest(cs, points[p]) = c}
         sum(j) == SumOver([p \in 1 .. Len(points) |-> IF p \in mine THEN points[p][j] ELSE 0])
     IN  IF mine = {} THEN cs[c]
         ELSE [j \in 1 .. Len(cs[c]) |-> sum(j) \div Cardinality(mine)]]

\* The points themselves, or k of them in the order of a shuffle.
Seeds(points, k) ==
  IF Len(points) <= k THEN {points}
  ELSE {[i \in 1 .. k |-> points[f[i]]] :
          f \in {g \in [1 .. k -> 1 .. Len(points)] : \A i, j \in 1 .. k : g[i] = g[j] => i = j}}

kmeans(points, k) ==
  {LET after[n \in 0 .. PqIterations] ==
         IF n = 0 THEN seed ELSE Moved(after[n - 1], points)
   IN  after[PqIterations] : seed \in Seeds(points, k)}

\* What train() may leave in codebooks_, for samples whose dimension m divides.
Codebooks(samples) ==
  LET subdim == Len(samples[1]) \div PqSubspaces
      books == [s \in 1 .. PqSubspaces |->
                  kmeans([i \in 1 .. Len(samples) |-> Part(samples[i], s, subdim)],
                         PqCentroids)]
  IN  {f \in [1 .. PqSubspaces -> UNION {books[s] : s \in 1 .. PqSubspaces}] :
         \A s \in 1 .. PqSubspaces : f[s] \in books[s]}

Outcomes ==
  UNION {{[samples |-> t, codebooks |-> f] : f \in Codebooks(t)} :
           t \in {t \in Samples["kPQ"] : Len(t[1]) % PqSubspaces = 0}}

TrainPQ(pq, samples) ==
  {[pq EXCEPT !.dim = Len(samples[1]), !.subdim = Len(samples[1]) \div pq.m,
              !.codebooks = o.codebooks] : o \in {o \in Outcomes : o.samples = samples}}

\* The index of the nearest centroid, as a byte.
EncodePQ(pq, vec) ==
  [s \in 1 .. pq.m |->
     (Nearest(pq.codebooks[s], Part(vec, s, pq.subdim)) - 1) % ByteValues]

Centroid(pq, code, s) == pq.codebooks[s][code[s] + 1]

(***************************************************************************)
(* The interface of Quantizer                                              *)
(***************************************************************************)
Encoded(vec) ==
  CASE q.mode = "kSQ8" -> EncodeSQ8(q, vec)
    [] q.mode = "kBinary" -> EncodeBinary(q, vec)
    [] q.mode = "kPQ" -> EncodePQ(q, vec)

distance_to_query(code, query) ==
  CASE q.mode = "kSQ8" -> sq8_l2_bytes(code, EncodeSQ8(q, query))
    [] q.mode = "kBinary" -> binary_hamming(code, QueryBits(q, query))
    [] q.mode = "kPQ" ->
         SumOver([s \in 1 .. q.m |-> Apart(Part(query, s, q.subdim), Centroid(q, code, s))])

distance(a, b) ==
  CASE q.mode = "kSQ8" -> sq8_l2_bytes(a, b)
    [] q.mode = "kBinary" -> binary_hamming(a, b)
    [] q.mode = "kPQ" -> SumOver([s \in 1 .. q.m |-> Apart(Centroid(q, a, s), Centroid(q, b, s))])

\* A trained quantizer makes the old codes meaningless; their owner drops them.
Train(samples) ==
  LET dim == Len(samples[1])
      divides == q.mode = "kPQ" => dim % q.m = 0
  IN  /\ q.mode = "kPQ" => dim >= q.m         \* else InvalidArgument
      /\ IF ~divides                          \* InvalidArgument, half way
         THEN q' = [q EXCEPT !.dim = dim, !.subdim = dim \div q.m]
         ELSE q' \in CASE q.mode = "kSQ8" -> {TrainSQ8(q, samples)}
                       [] q.mode = "kBinary" -> {[q EXCEPT !.dim = dim]}
                       [] q.mode = "kPQ" -> TrainPQ(q, samples)
      /\ ready' = divides
      /\ codes' = {}
      /\ UNCHANGED <<byteKernel, file>>

Encode(vec) ==
  /\ ready
  /\ Len(vec) = q.dim
  /\ codes' = codes \cup {[vec |-> vec, code |-> Encoded(vec)]}
  /\ UNCHANGED <<byteKernel, q, ready, file>>

\* The header, and of PQ the centroids one after the other.
Flat(books) ==
  LET upTo[s \in 0 .. Len(books)] == IF s = 0 THEN <<>> ELSE upTo[s - 1] \o books[s]
  IN  upTo[Len(books)]

SaveQuantizer ==
  /\ ready
  /\ file' = [q |-> IF q.mode = "kPQ" THEN [q EXCEPT !.codebooks = <<>>] ELSE q,
              centroids |-> IF q.mode = "kPQ" THEN Flat(q.codebooks) ELSE <<>>,
              codes |-> codes]
  /\ UNCHANGED <<byteKernel, q, ready, codes>>

\* load() reads k centroids of every subspace; those the file lacks stay zero.
LoadSucceeds(f) == f.q.mode = "kPQ" => Len(f.centroids) >= f.q.m * f.q.k

\* Where in the file the centroids of a subspace are.
SlotByCentroid(f, s, c) == (c - 1) * f.q.m + s
Slot(f, s, c) == (s - 1) * f.q.k + c

LoadedCodebooks(f) ==
  [s \in 1 .. f.q.m |-> [c \in 1 .. f.q.k |->
     IF Slot(f, s, c) <= Len(f.centroids) THEN f.centroids[Slot(f, s, c)]
     ELSE [j \in 1 .. f.q.subdim |-> 0]]]

LoadQuantizer ==
  /\ file # NoQuantFile
  /\ q' = IF file.q.mode = "kPQ" THEN [file.q EXCEPT !.codebooks = LoadedCodebooks(file)]
          ELSE file.q
  /\ ready' = LoadSucceeds(file)
  /\ codes' = file.codes
  /\ UNCHANGED <<byteKernel, file>>

QuantNext ==
  \/ \E samples \in Samples[q.mode] : Train(samples)
  \/ \E vec \in Vectors[q.mode] : Encode(vec)
  \/ SaveQuantizer
  \/ LoadQuantizer

(***************************************************************************)
(* A process: threads that compute distances beside a quantizer.  The byte *)
(* kernel is fixed when the library is compiled, by the architecture.       *)
(***************************************************************************)
vars == <<mathVars, quantVars>>

Init == MathInit /\ QuantInit

Next ==
  \/ MathNext /\ UNCHANGED quantVars
  \/ QuantNext /\ UNCHANGED mathVars

Spec == Init /\ [][Next]_vars

(***************************************************************************)
(* Properties                                                              *)
(***************************************************************************)
\* Among the codes of all vectors none is nearer to a vector than its own,
\* also after the quantizer and the codes were saved and loaded.
OwnCodeIsNearest ==
  ready =>
    \A c, d \in codes : distance_to_query(c.code, c.vec) <= distance_to_query(d.code, c.vec)

\* quantized_distance.h: the distance from a code to a query is the distance to
\* the query's own code, for SQ8 and Binary; for PQ the two distances differ by
\* what the query loses when it is encoded, and agree when it loses nothing.
QueriesAgreeWithCodes ==
  ready =>
    \A c, d \in codes :
      (q.mode = "kPQ" => distance_to_query(d.code, d.vec) = 0) =>
        distance_to_query(c.code, d.vec) = distance(c.code, d.code)

\* A code keeps of its vector what its mode can keep: SQ8 each coordinate
\* within the trained range to half a step, PQ in each subspace a centroid that
\* no other centroid of the codebook is nearer than.
CodesAreAccurate ==
  ready =>
    \A c \in codes :
      /\ q.mode = "kSQ8" =>
           \A j \in 1 .. q.dim :
             Value(c.vec[j]) \in q.min .. q.max =>
               LET off == (ByteValues - 1) * (Value(c.vec[j]) - q.min)
                            - c.code[j] * (q.max - q.min)
               IN  2 * (IF off < 0 THEN -off ELSE off) <= q.max - q.min
      /\ q.mode = "kPQ" =>
           \A s \in 1 .. q.m : \A k \in 1 .. Len(q.codebooks[s]) :
             Apart(Part(c.vec, s, q.subdim), Centroid(q, c.code, s))
               <= Apart(Part(c.vec, s, q.subdim), q.codebooks[s][k])

\* quantized_distance.h: sq8_l2_bytes() is exact for code-to-code distances,
\* however it was compiled.
ByteKernelsAgree ==
  ready /\ q.mode = "kSQ8" =>
    \A c, d \in codes :
      distance(c.code, d.code) = SumOver([j \in 1 .. q.dim |-> Squared(c.code[j] - d.code[j])])

\* What save() wrote can be loaded.
SavedFilesLoad == file # NoQuantFile => LoadSucceeds(file)

\* A quantizer's centroids have the dimension of its subspaces, also after a
\* train() that failed.
CodebooksFit ==
  q.mode = "kPQ" =>
    \A s \in 1 .. Len(q.codebooks) : \A k \in 1 .. Len(q.codebooks[s]) :
      Len(q.codebooks[s][k]) = q.subdim
=============================================================================
