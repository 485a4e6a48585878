------------------------ MODULE StoredEntriesProofs ------------------------
EXTENDS StoredEntries, SequenceTheorems, FiniteSetTheorems, TLAPS

NoInv(e, k, h) == TRUE

(***************************************************************************)
(* Numbers and their bytes                                                 *)
(***************************************************************************)
WeightStep(e, h, k) == h * Base
WeightLoop == INSTANCE FoldRule WITH Step <- WeightStep, Inv <- NoInv

LEMMA WeightNext ==
  Weight(0) = 1 /\ \A i \in Nat : Weight(i + 1) = Weight(i) * Base
  <1>1. ASSUME NEW i PROVE Weight(i) = WeightLoop!Rounds(0, 1, i)
    BY DEF Weight, WeightLoop!Rounds, WeightStep
  <1>2. QED BY <1>1, WeightLoop!RoundsNext DEF WeightStep

LEMMA WeightType ==
  \A i \in Nat : Weight(i) \in Nat \ {0}
  <1> DEFINE T == {i \in Nat : Weight(i) \in Nat \ {0}}
  <1>1. 0 \in T
    BY WeightNext
  <1>2. ASSUME NEW i \in Nat, i \in T PROVE i + 1 \in T
    <2>1. Weight(i + 1) = Weight(i) * Base /\ Weight(i) \in Nat \ {0} /\ Base \in Nat \ {0}
      BY <1>2, WeightNext, EntryMetaAssumption
    <2>2. Weight(i) * Base \in Nat \ {0}
      BY <2>1
    <2>3. QED BY <2>1, <2>2
  <1>3. Nat \subseteq T
    BY <1>1, <1>2, WeightLoop!NatSet
  <1>4. QED BY <1>3

\* The lengths and flags fit into their fields.
LEMMA SmallNumbers ==
  /\ Base \in Nat /\ 2 < Base
  /\ Weight(1) = Base
  /\ Weight(2) \in Nat /\ Weight(4) \in Nat /\ Weight(8) \in Nat
  /\ 7 < Weight(2) /\ Weight(2) < Weight(4) /\ 1 < Weight(8)
  <1>0. Base \in Nat /\ 2 < Base
    BY EntryMetaAssumption
  <1>1. Weight(1) = Base
    <2>1. Weight(0 + 1) = Weight(0) * Base /\ Weight(0) = 1
      BY WeightNext
    <2>2. QED BY <1>0, <2>1
  <1>2. Weight(2) = Base * Base /\ Weight(2) \in Nat
    <2>1. Weight(1 + 1) = Weight(1) * Base
      BY WeightNext
    <2>2. QED BY <1>0, <1>1, <2>1
  <1>3. Base * Base > 8
    BY <1>0
  <1>4. ASSUME NEW i \in Nat PROVE Weight(i) \in Nat /\ Weight(i) < Weight(i + 1)
    <2>1. Weight(i) \in Nat \ {0} /\ Weight(i + 1) = Weight(i) * Base
      BY WeightType, WeightNext
    <2>2. QED BY <1>0, <2>1
  <1>5. Weight(2) < Weight(3) /\ Weight(3) < Weight(4)
    <2>1. Weight(2) < Weight(2 + 1) /\ Weight(3) < Weight(3 + 1)
      BY <1>4
    <2>2. QED BY <2>1
  <1>6. Weight(3) \in Nat /\ Weight(4) \in Nat /\ Weight(7) \in Nat \ {0} /\ Weight(8) \in Nat
    BY WeightType
  <1>7. 1 < Weight(8)
    <2>1. Weight(7) < Weight(7 + 1)
      BY <1>4
    <2>2. QED BY <1>6, <2>1
  <1>8. QED BY <1>0, <1>1, <1>2, <1>3, <1>5, <1>6, <1>7

LEMMA Division ==
  ASSUME NEW n \in Nat, NEW m \in Nat \ {0}
  PROVE  /\ n \div m \in Nat /\ n % m \in Nat /\ n % m < m
         /\ n = m * (n \div m) + (n % m)
  OBVIOUS

LEMMA Remainder ==
  ASSUME NEW m \in Nat \ {0}, NEW q \in Nat, NEW r \in Nat, r < m
  PROVE  (m * q + r) % m = r
  OBVIOUS

LEMMA SmallRemainder ==
  ASSUME NEW m \in Nat \ {0}, NEW r \in Nat, r < m
  PROVE  r % m = r
  OBVIOUS

\* One digit more.
LEMMA NextDigit ==
  ASSUME NEW n \in Nat, NEW m \in Nat \ {0}, NEW b \in Nat \ {0}
  PROVE  n % (m * b) = (n % m) + ((n \div m) % b) * m
  <1> DEFINE q == n \div m
             r == n % m
             p == q \div b
             s == q % b
  <1>1. q \in Nat /\ r \in Nat /\ r < m /\ n = m * q + r
    BY Division
  <1>2. p \in Nat /\ s \in Nat /\ s < b /\ q = b * p + s
    BY <1>1, Division
  <1> HIDE DEF q, r, p, s
  <1>3. n = m * (b * p + s) + r
    BY <1>1, <1>2
  <1>4. n = (m * b) * p + (m * s + r)
    BY <1>1, <1>2, <1>3
  <1>5. m * s + r < m * b /\ m * s + r \in Nat /\ m * b \in Nat \ {0}
    BY <1>1, <1>2
  <1>6. ((m * b) * p + (m * s + r)) % (m * b) = m * s + r
    BY <1>2, <1>5, Remainder
  <1>7. n % (m * b) = r + s * m
    BY <1>1, <1>2, <1>4, <1>5, <1>6
  <1>8. QED BY <1>7 DEF q, r, p, s

LEMMA Joins ==
  ASSUME NEW x \in Seq(Byte), NEW y \in Seq(Byte)
  PROVE  /\ x \o y \in Seq(Byte) /\ Len(x) \in Nat /\ Len(y) \in Nat
         /\ Len(x \o y) = Len(x) + Len(y)
  BY ConcatProperties

LEMMA PutType ==
  ASSUME NEW n \in Nat, NEW w \in Nat
  PROVE  Put(n, w) \in Seq(Byte) /\ Len(Put(n, w)) = w
  <1>1. ASSUME NEW i \in 1 .. w PROVE (n \div Weight(i - 1)) % Base \in Byte
    <2>1. Weight(i - 1) \in Nat \ {0}
      BY WeightType
    <2>2. n \div Weight(i - 1) \in Nat
      BY <2>1, Division
    <2>3. QED BY <2>2, SmallNumbers, Division DEF Byte
  <1>2. QED BY <1>1 DEF Put

(***************************************************************************)
(* Whether b holds the bytes x behind position pos, as far as b reaches,   *)
(* and a take that comes to position end when b reaches as far.            *)
(***************************************************************************)
At(b, pos, x) ==
  /\ pos \in Nat
  /\ \A i \in 1 .. Len(x) : pos + i <= Len(b) => b[pos + i] = x[i]

Reads(t, b, end, out) ==
  IF end <= Len(b) THEN t = Took(end, out) ELSE t.ok = FALSE

LEMMA AtFirst ==
  ASSUME NEW b \in Seq(Byte), NEW pos, NEW x \in Seq(Byte), NEW y \in Seq(Byte), At(b, pos, x \o y)
  PROVE  At(b, pos, x) /\ At(b, pos + Len(x), y)
  <1>1. /\ Len(x \o y) = Len(x) + Len(y) /\ Len(x) \in Nat /\ Len(y) \in Nat /\ pos \in Nat
        /\ Len(b) \in Nat
    BY DEF At
  <1>2. ASSUME NEW i \in 1 .. Len(x), pos + i <= Len(b) PROVE b[pos + i] = x[i]
    <2>1. i \in 1 .. Len(x \o y) /\ (x \o y)[i] = x[i]
      BY <1>1
    <2>2. QED BY <1>2, <2>1 DEF At
  <1>3. ASSUME NEW i \in 1 .. Len(y), (pos + Len(x)) + i <= Len(b)
        PROVE  b[(pos + Len(x)) + i] = y[i]
    <2>1. Len(x) + i \in 1 .. Len(x \o y) /\ (x \o y)[Len(x) + i] = y[i]
      BY <1>1
    <2>2. pos + (Len(x) + i) = (pos + Len(x)) + i
      BY <1>1
    <2>3. b[pos + (Len(x) + i)] = y[i]
      BY <1>3, <2>1, <2>2 DEF At
    <2>4. QED BY <2>2, <2>3
  <1>4. QED BY <1>1, <1>2, <1>3 DEF At

NumberStep(e, h, i) == h + e.b[e.pos + i] * Weight(i - 1)
NumberInv(e, k, h) == h = e.n % Weight(k)
NumberLoop == INSTANCE FoldRule WITH Step <- NumberStep, Inv <- NumberInv

LEMMA NumberOfPut ==
  ASSUME NEW n \in Nat, NEW w \in Nat, n < Weight(w), NEW b \in Seq(Byte), NEW pos,
         At(b, pos, Put(n, w)), pos + w <= Len(b)
  PROVE  Number(b, pos, w) = n
  <1> DEFINE e == [b |-> b, pos |-> pos, n |-> n]
  <1>0. e.b = b /\ e.pos = pos /\ e.n = n
    OBVIOUS
  <1> HIDE DEF e
  <1>1. Number(b, pos, w) = NumberLoop!Rounds(e, 0, w)
    BY <1>0 DEF Number, NumberLoop!Rounds, NumberStep
  <1>2. NumberInv(e, 0, 0)
    BY <1>0, WeightNext DEF NumberInv
  <1>3. ASSUME NEW k \in 1 .. w, NEW h, NumberInv(e, k - 1, h)
        PROVE  NumberInv(e, k, NumberStep(e, h, k))
    <2>0. pos + k <= Len(b) /\ k \in 1 .. Len(Put(n, w))
      BY PutType DEF At
    <2>1. b[pos + k] = (n \div Weight(k - 1)) % Base
      BY <2>0, PutType DEF At, Put
    <2>2. Weight(k) = Weight(k - 1) * Base
      <3>1. Weight((k - 1) + 1) = Weight(k - 1) * Base
        BY WeightNext
      <3>2. QED BY <3>1
    <2>a. k - 1 \in Nat
      OBVIOUS
    <2>b. Weight(k - 1) \in Nat \ {0}
      BY <2>a, WeightType
    <2>3. Weight(k - 1) \in Nat \ {0} /\ Base \in Nat \ {0}
      BY <2>b, SmallNumbers
    <2>4. n % (Weight(k - 1) * Base)
            = (n % Weight(k - 1)) + ((n \div Weight(k - 1)) % Base) * Weight(k - 1)
      BY <2>3, NextDigit
    <2>5. QED BY <1>0, <1>3, <2>1, <2>2, <2>4 DEF NumberInv, NumberStep
  <1>4. NumberInv(e, w, NumberLoop!Rounds(e, 0, w))
    BY <1>2, <1>3, NumberLoop!RoundsKeep, Zenon
  <1>5. n % Weight(w) = n
    BY WeightType, SmallRemainder
  <1>6. QED BY <1>0, <1>1, <1>4, <1>5 DEF NumberInv

LEMMA TakeNumber ==
  ASSUME NEW n \in Nat, NEW w \in Nat, n < Weight(w), NEW b \in Seq(Byte), NEW pos,
         At(b, pos, Put(n, w))
  PROVE  Reads(take_number(b, pos, w), b, pos + w, n)
  <1>1. CASE pos + w <= Len(b)
    BY <1>1, NumberOfPut DEF take_number, Has, Reads
  <1>2. CASE ~(pos + w <= Len(b))
    BY <1>2 DEF take_number, Has, Reads, Corrupt
  <1>3. QED BY <1>1, <1>2

LEMMA BytesAt ==
  ASSUME NEW S, NEW b \in Seq(S), NEW m \in Nat, NEW n \in Nat, m + n <= Len(b)
  PROVE  /\ Bytes(b, m, n) \in Seq(S) /\ Len(Bytes(b, m, n)) = n
         /\ \A i \in 1 .. n : Bytes(b, m, n)[i] = b[m + i]
  <1>1. \A i \in m + 1 .. m + n : b[i] \in S
    BY ElementOfSeq
  <1> DEFINE y == SubSeq(b, m + 1, m + n)
  <1>2. /\ y \in Seq(S)
        /\ Len(y) = IF m + 1 <= m + n THEN (m + n) - (m + 1) + 1 ELSE 0
        /\ \A i \in 1 .. (m + n) - (m + 1) + 1 : y[i] = b[(m + 1) + i - 1]
    BY <1>1, SubSeqProperties, SMTT(30)
  <1> HIDE DEF y
  <1>3. Len(y) = n /\ (m + n) - (m + 1) + 1 = n
    BY <1>2
  <1>4. ASSUME NEW i \in 1 .. n PROVE y[i] = b[m + i]
    <2>1. (m + 1) + i - 1 = m + i
      OBVIOUS
    <2>2. QED BY <1>2, <1>3, <2>1
  <1>5. QED BY <1>2, <1>3, <1>4 DEF Bytes, y

\* A text behind its length.
LEMMA TakeText ==
  ASSUME NEW x \in Seq(Byte), NEW w \in Nat, Len(x) < Weight(w), NEW max, Len(x) <= max,
         NEW b \in Seq(Byte), NEW pos, At(b, pos, Put(Len(x), w)), At(b, pos + w, x)
  PROVE  Reads(take_text(b, pos, w, max), b, pos + w + Len(x), x)
  <1>0. Len(x) \in Nat /\ Len(b) \in Nat /\ pos \in Nat
    BY DEF At
  <1> DEFINE len == take_number(b, pos, w)
  <1>1. Reads(len, b, pos + w, Len(x))
    BY <1>0, TakeNumber
  <1> HIDE DEF len
  <1>2. ASSUME pos + w + Len(x) <= Len(b) PROVE Bytes(b, pos + w, Len(x)) = x
    <2> DEFINE y == Bytes(b, pos + w, Len(x))
    <2>1. y \in Seq(Byte) /\ Len(y) = Len(x) /\ \A i \in 1 .. Len(x) : y[i] = b[(pos + w) + i]
      <3>1. pos + w \in Nat /\ (pos + w) + Len(x) <= Len(b)
        BY <1>0, <1>2
      <3>2. QED BY <1>0, <3>1, BytesAt
    <2>2. ASSUME NEW i \in 1 .. Len(x) PROVE y[i] = x[i]
      <3>1. (pos + w) + i <= Len(b)
        BY <1>0, <1>2
      <3>2. QED BY <2>1, <3>1 DEF At
    <2> HIDE DEF y
    <2>3. y = x
      BY <1>0, <2>1, <2>2
    <2>4. QED BY <2>3 DEF y
  <1>3. CASE pos + w + Len(x) <= Len(b)
    <2>1. len.ok /\ len.out = Len(x) /\ len.pos = pos + w
      BY <1>0, <1>1, <1>3 DEF Reads, Took
    <2>2. BytesAfter(b, len, max) = Took(pos + w + Len(x), x)
      BY <1>2, <1>3, <2>1 DEF BytesAfter, Has
    <2>3. QED BY <1>3, <2>2 DEF take_text, len, Reads
  <1>4. CASE ~(pos + w + Len(x) <= Len(b))
    <2>1. len.ok => len.out = Len(x) /\ len.pos = pos + w
      BY <1>0, <1>1 DEF Reads, Took
    <2>2. BytesAfter(b, len, max) = Corrupt
      BY <1>4, <2>1 DEF BytesAfter, Has
    <2>3. QED BY <1>4, <2>2 DEF take_text, len, Reads, Corrupt
  <1>5. QED BY <1>3, <1>4

(***************************************************************************)
(* Lists: the bytes of their entries, one behind the other                 *)
(***************************************************************************)
ConcatStep(e, h, i) == h \o e[i]
ConcatLoop == INSTANCE FoldRule WITH Step <- ConcatStep, Inv <- NoInv

UpTo(ss, n) == ConcatLoop!Rounds(ss, <<>>, n)

LEMMA ConcatIs ==
  ASSUME NEW ss
  PROVE  Concat(ss) = UpTo(ss, Len(ss))
  BY DEF Concat, UpTo, ConcatLoop!Rounds, ConcatStep

LEMMA UpToNext ==
  ASSUME NEW ss
  PROVE  UpTo(ss, 0) = <<>> /\ \A n \in Nat : UpTo(ss, n + 1) = UpTo(ss, n) \o ss[n + 1]
  BY ConcatLoop!RoundsNext DEF UpTo, ConcatStep

LEMMA UpToType ==
  ASSUME NEW ss, NEW N \in Nat, \A i \in 1 .. N : ss[i] \in Seq(Byte)
  PROVE  \A n \in 0 .. N : UpTo(ss, n) \in Seq(Byte)
  <1> DEFINE T == {n \in Nat : n <= N => UpTo(ss, n) \in Seq(Byte)}
  <1>1. 0 \in T
    <2>1. UpTo(ss, 0) = <<>>
      BY UpToNext
    <2>2. <<>> \in Seq(Byte)
      OBVIOUS
    <2>3. QED BY <2>1, <2>2
  <1>2. ASSUME NEW n \in Nat, n \in T PROVE n + 1 \in T
    <2> SUFFICES ASSUME n + 1 <= N PROVE UpTo(ss, n + 1) \in Seq(Byte)
      OBVIOUS
    <2>1. UpTo(ss, n) \in Seq(Byte) /\ n + 1 \in 1 .. N
      BY <1>2
    <2>2. ss[n + 1] \in Seq(Byte)
      BY <2>1
    <2>3. UpTo(ss, n + 1) = UpTo(ss, n) \o ss[n + 1]
      BY UpToNext
    <2>4. UpTo(ss, n) \o ss[n + 1] \in Seq(Byte)
      BY <2>1, <2>2, Joins
    <2>5. QED BY <2>3, <2>4
  <1>3. Nat \subseteq T
    BY <1>1, <1>2, WeightLoop!NatSet
  <1>4. QED BY <1>3

\* What a list holds, each of its entries holds at its place.
LEMMA UpToAt ==
  ASSUME NEW ss, NEW N \in Nat, \A i \in 1 .. N : ss[i] \in Seq(Byte),
         NEW b \in Seq(Byte), NEW pos, At(b, pos, UpTo(ss, N))
  PROVE  \A k \in 1 .. N : At(b, pos + Len(UpTo(ss, k - 1)), ss[k])
  <1>1. ASSUME NEW k \in 1 .. N, At(b, pos, UpTo(ss, k))
        PROVE  At(b, pos, UpTo(ss, k - 1)) /\ At(b, pos + Len(UpTo(ss, k - 1)), ss[k])
    <2>1. k - 1 \in Nat /\ k - 1 \in 0 .. N /\ (k - 1) + 1 = k
      OBVIOUS
    <2>2. UpTo(ss, (k - 1) + 1) = UpTo(ss, k - 1) \o ss[(k - 1) + 1]
      BY <2>1, UpToNext
    <2>3. UpTo(ss, k) = UpTo(ss, k - 1) \o ss[k]
      BY <2>1, <2>2
    <2>4. UpTo(ss, k - 1) \in Seq(Byte) /\ ss[k] \in Seq(Byte)
      BY <2>1, UpToType
    <2>5. QED BY <1>1, <2>3, <2>4, AtFirst
  <1> DEFINE T == {n \in Nat : n <= N => At(b, pos, UpTo(ss, N - n))}
  <1>2. 0 \in T
    OBVIOUS
  <1>3. ASSUME NEW n \in Nat, n \in T PROVE n + 1 \in T
    <2> SUFFICES ASSUME n + 1 <= N PROVE At(b, pos, UpTo(ss, N - (n + 1)))
      OBVIOUS
    <2>1. N - n \in 1 .. N /\ (N - n) - 1 = N - (n + 1)
      OBVIOUS
    <2>2. At(b, pos, UpTo(ss, N - n))
      BY <1>3
    <2>3. At(b, pos, UpTo(ss, (N - n) - 1))
      BY <1>1, <2>1, <2>2
    <2>4. QED BY <2>1, <2>3
  <1>4. Nat \subseteq T
    BY <1>2, <1>3, WeightLoop!NatSet
  <1>5. ASSUME NEW k \in 1 .. N PROVE At(b, pos, UpTo(ss, k))
    <2>0. N - k \in Nat
      OBVIOUS
    <2>1. N - k \in T
      BY <1>4, <2>0, Zenon
    <2>2. N - (N - k) = k /\ N - k <= N
      OBVIOUS
    <2>3. QED BY <2>1, <2>2
  <1>6. QED BY <1>1, <1>5

FloatBytes(x) == [i \in 1 .. Len(x) |-> Put(x[i], 4)]
Floats == 0 .. Weight(4) - 1

LEMMA FloatBytesType ==
  ASSUME NEW x \in Seq(Floats)
  PROVE  /\ Len(FloatBytes(x)) = Len(x) /\ Len(x) \in Nat
         /\ \A i \in 1 .. Len(x) : /\ x[i] \in Nat /\ x[i] < Weight(4)
                                   /\ FloatBytes(x)[i] = Put(x[i], 4)
                                   /\ FloatBytes(x)[i] \in Seq(Byte)
                                   /\ Len(FloatBytes(x)[i]) = 4
  <1>1. Len(FloatBytes(x)) = Len(x) /\ Len(x) \in Nat
    BY DEF FloatBytes
  <1>2. ASSUME NEW i \in 1 .. Len(x)
        PROVE  x[i] \in Nat /\ x[i] < Weight(4) /\ FloatBytes(x)[i] = Put(x[i], 4)
    <2>1. x[i] \in Floats
      BY ElementOfSeq
    <2>2. x[i] \in Nat /\ x[i] < Weight(4)
      BY <2>1, SmallNumbers DEF Floats
    <2>3. FloatBytes(x)[i] = Put(x[i], 4)
      BY DEF FloatBytes
    <2>4. QED BY <2>2, <2>3
  <1>3. ASSUME NEW i \in 1 .. Len(x)
        PROVE  FloatBytes(x)[i] \in Seq(Byte) /\ Len(FloatBytes(x)[i]) = 4
    <2>1. x[i] \in Nat /\ FloatBytes(x)[i] = Put(x[i], 4)
      BY <1>2
    <2>2. QED BY <2>1, PutType
  <1>4. QED BY <1>1, <1>2, <1>3

LEMMA FloatsLength ==
  ASSUME NEW x \in Seq(Floats)
  PROVE  \A k \in 0 .. Len(x) :
           UpTo(FloatBytes(x), k) \in Seq(Byte) /\ Len(UpTo(FloatBytes(x), k)) = 4 * k
  <1> DEFINE ss == FloatBytes(x)
             T == {k \in Nat : k <= Len(x) => Len(UpTo(ss, k)) = 4 * k}
  <1>0. Len(x) \in Nat /\ \A i \in 1 .. Len(x) : ss[i] \in Seq(Byte) /\ Len(ss[i]) = 4
    BY FloatBytesType
  <1> HIDE DEF ss
  <1>1. \A k \in 0 .. Len(x) : UpTo(ss, k) \in Seq(Byte)
    BY <1>0, UpToType
  <1>2. 0 \in T
    <2>1. UpTo(ss, 0) = <<>>
      BY UpToNext
    <2>2. QED BY <2>1
  <1>3. ASSUME NEW k \in Nat, k \in T PROVE k + 1 \in T
    <2> SUFFICES ASSUME k + 1 <= Len(x) PROVE Len(UpTo(ss, k + 1)) = 4 * (k + 1)
      OBVIOUS
    <2>1. Len(UpTo(ss, k)) = 4 * k /\ UpTo(ss, k) \in Seq(Byte)
      BY <1>0, <1>1, <1>3
    <2>2. ss[k + 1] \in Seq(Byte) /\ Len(ss[k + 1]) = 4
      BY <1>0
    <2>3. UpTo(ss, k + 1) = UpTo(ss, k) \o ss[k + 1]
      BY UpToNext
    <2>4. Len(UpTo(ss, k) \o ss[k + 1]) = Len(UpTo(ss, k)) + Len(ss[k + 1])
      BY <2>1, <2>2, Joins
    <2>5. QED BY <2>1, <2>2, <2>3, <2>4
  <1>4. Nat \subseteq T
    BY <1>2, <1>3, WeightLoop!NatSet
  <1>5. QED BY <1>1, <1>4 DEF ss

LEMMA TakeFloats ==
  ASSUME NEW x \in Seq(Floats), NEW max, Len(x) <= max, Len(x) < Weight(4),
         NEW b \in Seq(Byte), NEW pos,
         At(b, pos, Put(Len(x), 4)), At(b, pos + 4, Concat(FloatBytes(x)))
  PROVE  Reads(FloatsAfter(b, take_number(b, pos, 4), max), b, pos + 4 + 4 * Len(x), x)
  <1>0. Len(x) \in Nat /\ Len(b) \in Nat /\ pos \in Nat
    BY DEF At
  <1> DEFINE len == take_number(b, pos, 4)
  <1>1. Reads(len, b, pos + 4, Len(x))
    BY <1>0, TakeNumber
  <1> HIDE DEF len
  <1>2. ASSUME pos + 4 + 4 * Len(x) <= Len(b), NEW i \in 1 .. Len(x)
        PROVE  Number(b, (pos + 4) + 4 * (i - 1), 4) = x[i]
    <2> DEFINE ss == FloatBytes(x)
    <2>1. Len(ss) = Len(x) /\ \A j \in 1 .. Len(x) : ss[j] \in Seq(Byte)
      BY FloatBytesType
    <2>2. ss[i] = Put(x[i], 4) /\ x[i] \in Nat /\ x[i] < Weight(4)
      BY FloatBytesType
    <2>3. Len(UpTo(ss, i - 1)) = 4 * (i - 1)
      <3>1. i - 1 \in 0 .. Len(x)
        BY <1>0
      <3>2. QED BY <3>1, FloatsLength
    <2> HIDE DEF ss
    <2>4. At(b, pos + 4, UpTo(ss, Len(x)))
      BY <2>1, ConcatIs DEF ss
    <2>5. At(b, (pos + 4) + Len(UpTo(ss, i - 1)), ss[i])
      BY <1>0, <2>1, <2>4, UpToAt
    <2>6. At(b, (pos + 4) + 4 * (i - 1), Put(x[i], 4))
      BY <2>2, <2>3, <2>5
    <2>7. ((pos + 4) + 4 * (i - 1)) + 4 <= Len(b)
      BY <1>0, <1>2
    <2>8. QED BY <2>2, <2>6, <2>7, NumberOfPut
  <1>3. CASE pos + 4 + 4 * Len(x) <= Len(b)
    <2>1. len.ok /\ len.out = Len(x) /\ len.pos = pos + 4
      BY <1>0, <1>1, <1>3 DEF Reads, Took
    <2>2. [i \in 1 .. Len(x) |-> Number(b, (pos + 4) + 4 * (i - 1), 4)] = x
      <3>1. x = [i \in 1 .. Len(x) |-> x[i]]
        OBVIOUS
      <3>2. QED BY <1>2, <1>3, <3>1
    <2>3. FloatsAfter(b, len, max) = Took((pos + 4) + 4 * Len(x), x)
      BY <1>3, <2>1, <2>2 DEF FloatsAfter, Has
    <2>4. QED BY <1>3, <2>3 DEF len, Reads
  <1>4. CASE ~(pos + 4 + 4 * Len(x) <= Len(b))
    <2>1. len.ok => len.out = Len(x) /\ len.pos = pos + 4
      BY <1>0, <1>1 DEF Reads, Took
    <2>2. FloatsAfter(b, len, max) = Corrupt
      BY <1>4, <2>1 DEF FloatsAfter, Has
    <2>3. QED BY <1>4, <2>2 DEF len, Reads, Corrupt
  <1>5. QED BY <1>3, <1>4

(***************************************************************************)
(* A scalar field                                                          *)
(***************************************************************************)
FieldRead(p, t, n, v) == [ok |-> TRUE, pos |-> p, type |-> t, name |-> n, value |-> v]
Raw(v) == CASE v.t = "int" -> v.n % Weight(8) [] v.t = "double" -> v.n [] v.t = "str" -> v.s
ReadsRecord(r, b, end, rec) == IF end <= Len(b) THEN r = rec ELSE r.ok = FALSE

LEMMA IntoField ==
  ASSUME NEW p, NEW t, NEW n, NEW v, NEW q, NEW o
  PROVE  /\ Into(FieldRead(p, t, n, v), "type", Took(q, o)) = FieldRead(q, o, n, v)
         /\ Into(FieldRead(p, t, n, v), "name", Took(q, o)) = FieldRead(q, t, o, v)
         /\ Into(FieldRead(p, t, n, v), "value", Took(q, o)) = FieldRead(q, t, n, o)
  BY DEF Into, Took, FieldRead

LEMMA IntoFails ==
  ASSUME NEW p, NEW t, NEW n, NEW v, NEW take, take.ok = FALSE, NEW field
  PROVE  Into(FieldRead(p, t, n, v), field, take).ok = FALSE
  BY DEF Into, FieldRead

LEMMA TypeIndices == TypeIndex("int") = 0 /\ TypeIndex("double") = 1 /\ TypeIndex("str") = 2
  <1>1. /\ ScalarTypes[1] = "int" /\ ScalarTypes[2] = "double" /\ ScalarTypes[3] = "str"
        /\ 1 .. 3 = {1, 2, 3}
    BY DEF ScalarTypes
  <1>2. (CHOOSE i \in 1 .. 3 : ScalarTypes[i] = "int") = 1
    BY <1>1
  <1>3. (CHOOSE i \in 1 .. 3 : ScalarTypes[i] = "double") = 2
    BY <1>1
  <1>4. (CHOOSE i \in 1 .. 3 : ScalarTypes[i] = "str") = 3
    BY <1>1
  <1>5. QED BY <1>2, <1>3, <1>4 DEF TypeIndex

\* The value of a 64-bit integer comes back with its sign.
LEMMA SignedAgain ==
  ASSUME NEW n \in Int64
  PROVE  n % Weight(8) \in Nat /\ n % Weight(8) < Weight(8) /\ Signed(n % Weight(8)) = n
  <1> DEFINE w == Weight(8)
             h == (w - 1) \div 2
  <1>1. w \in Nat /\ 1 < w /\ h \in Nat /\ 2 * h <= w - 1 /\ w - 1 <= 2 * h + 1
    BY SmallNumbers
  <1>2. n \in Int /\ h + 1 - w <= n /\ n <= h
    BY <1>1 DEF Int64
  <1>3. Signed(n % w) = IF n % w > h THEN (n % w) - w ELSE n % w
    BY DEF Signed
  <1> HIDE DEF w, h
  <1>4. CASE n >= 0
    <2>1. n % w = n
      BY <1>1, <1>2, <1>4, SmallRemainder
    <2>2. QED BY <1>1, <1>2, <1>3, <1>4, <2>1 DEF w
  <1>5. CASE n < 0
    <2>1. n % w = n + w
      BY <1>1, <1>2, <1>5
    <2>2. QED BY <1>1, <1>2, <1>3, <1>5, <2>1 DEF w
  <1>6. QED BY <1>2, <1>4, <1>5

\* The values whose lengths fit into the layout.
FittingValues == {v \in ScalarValues : v.t = "str" => Len(v.s) < Weight(4)}

LEMMA ScalarKinds ==
  ASSUME NEW v \in FittingValues
  PROVE  \/ v.t = "int" /\ v.n \in Int64 /\ v.s = <<>>
         \/ v.t = "double" /\ v.n \in Nat /\ v.n < Weight(8) /\ v.s = <<>>
         \/ v.t = "str" /\ v.n = 0 /\ v.s \in Seq(Byte) /\ Len(v.s) < Weight(4)
  BY SmallNumbers DEF FittingValues, ScalarValues

LEMMA ScalarAgain ==
  ASSUME NEW v \in FittingValues, NEW p, NEW n
  PROVE  ScalarOf(FieldRead(p, TypeIndex(v.t), n, Raw(v))) = [name |-> n, value |-> v]
  <1>0. v = [t |-> v.t, n |-> v.n, s |-> v.s]
    BY DEF FittingValues, ScalarValues
  <1> DEFINE r == FieldRead(p, TypeIndex(v.t), n, Raw(v))
  <1>1. r.name = n /\ r.type = TypeIndex(v.t) /\ r.value = Raw(v)
    BY DEF FieldRead
  <1> HIDE DEF r
  <1>2. CASE v.t = "int"
    <2>1. r.type = 0 /\ r.value = v.n % Weight(8) /\ v.s = <<>> /\ v.n \in Int64
      BY <1>1, <1>2, TypeIndices, ScalarKinds DEF Raw
    <2>2. Signed(r.value) = v.n
      BY <2>1, SignedAgain
    <2>3. ScalarTypes[r.type + 1] = "int"
      BY <2>1 DEF ScalarTypes
    <2>4. ScalarOf(r) = [name |-> n, value |-> [t |-> "int", n |-> v.n, s |-> <<>>]]
      BY <1>1, <2>1, <2>2, <2>3 DEF ScalarOf
    <2>5. QED BY <1>0, <1>2, <2>1, <2>4 DEF r
  <1>3. CASE v.t = "double"
    <2>1. r.type = 1 /\ r.value = v.n /\ v.s = <<>>
      BY <1>1, <1>3, TypeIndices, ScalarKinds DEF Raw
    <2>3. ScalarTypes[r.type + 1] = "double"
      BY <2>1 DEF ScalarTypes
    <2>4. ScalarOf(r) = [name |-> n, value |-> [t |-> "double", n |-> v.n, s |-> <<>>]]
      BY <1>1, <2>1, <2>3 DEF ScalarOf
    <2>5. QED BY <1>0, <1>3, <2>1, <2>4 DEF r
  <1>4. CASE v.t = "str"
    <2>1. r.type = 2 /\ r.value = v.s /\ v.n = 0
      BY <1>1, <1>4, TypeIndices, ScalarKinds DEF Raw
    <2>3. ScalarTypes[r.type + 1] = "str"
      BY <2>1 DEF ScalarTypes
    <2>4. ScalarOf(r) = [name |-> n, value |-> [t |-> "str", n |-> 0, s |-> v.s]]
      BY <1>1, <2>1, <2>3 DEF ScalarOf
    <2>5. QED BY <1>0, <1>4, <2>1, <2>4 DEF r
  <1>5. QED BY <1>2, <1>3, <1>4, ScalarKinds

LEMMA PutValueType ==
  ASSUME NEW v \in FittingValues
  PROVE  /\ PutValue(v) \in Seq(Byte) /\ Len(PutValue(v)) \in Nat
         /\ v.t = "int" => PutValue(v) = Put(v.n % Weight(8), 8)
         /\ v.t = "double" => PutValue(v) = Put(v.n, 8)
         /\ v.t = "str" => /\ PutValue(v) = Put(Len(v.s), 4) \o v.s
                           /\ Len(PutValue(v)) = 4 + Len(v.s)
  <1>1. CASE v.t = "int"
    <2>1. PutValue(v) = Put(v.n % Weight(8), 8)
      BY <1>1 DEF PutValue
    <2>2. v.n % Weight(8) \in Nat
      BY <1>1, ScalarKinds, SignedAgain
    <2>3. QED BY <1>1, <2>1, <2>2, PutType
  <1>2. CASE v.t = "double"
    <2>1. PutValue(v) = Put(v.n, 8)
      BY <1>2 DEF PutValue
    <2>2. v.n \in Nat
      BY <1>2, ScalarKinds
    <2>3. QED BY <1>2, <2>1, <2>2, PutType
  <1>3. CASE v.t = "str"
    <2>1. PutValue(v) = Put(Len(v.s), 4) \o v.s
      BY <1>3 DEF PutValue
    <2>2. v.s \in Seq(Byte) /\ Len(v.s) \in Nat
      BY <1>3, ScalarKinds
    <2>3. Put(Len(v.s), 4) \in Seq(Byte) /\ Len(Put(Len(v.s), 4)) = 4
      BY <2>2, PutType
    <2>4. /\ Put(Len(v.s), 4) \o v.s \in Seq(Byte)
          /\ Len(Put(Len(v.s), 4) \o v.s) = Len(Put(Len(v.s), 4)) + Len(v.s)
      BY <2>2, <2>3, Joins
    <2>5. PutValue(v) \in Seq(Byte) /\ Len(PutValue(v)) = 4 + Len(v.s)
      BY <2>1, <2>3, <2>4
    <2>6. Len(PutValue(v)) \in Nat
      BY <2>2, <2>5
    <2>7. v.t # "int" /\ v.t # "double"
      BY <1>3
    <2>8. QED BY <2>1, <2>5, <2>6, <2>7, Zenon
  <1>4. QED BY <1>1, <1>2, <1>3, ScalarKinds

LEMMA TakeValue ==
  ASSUME NEW v \in FittingValues, NEW n, NEW b \in Seq(Byte), NEW pos, At(b, pos, PutValue(v))
  PROVE  ReadsRecord(take_value(b, FieldRead(pos, TypeIndex(v.t), n, 0)), b,
                     pos + Len(PutValue(v)),
                     FieldRead(pos + Len(PutValue(v)), TypeIndex(v.t), n, Raw(v)))
  <1> DEFINE r == FieldRead(pos, TypeIndex(v.t), n, 0)
             end == pos + Len(PutValue(v))
  <1>0. r.ok /\ r.type = TypeIndex(v.t) /\ r.pos = pos /\ pos \in Nat /\ Len(b) \in Nat
    BY DEF FieldRead, At
  <1> DEFINE take == IF v.t = "str" THEN take_text(b, pos, 4, Weight(4) - 1)
                     ELSE take_number(b, pos, 8)
  <1> HIDE DEF r
  <1>1. take_value(b, r) = Into(r, "value", take)
    <2>1. CASE v.t = "str"
      <3>1. r.type = 2
        BY <1>0, <2>1, TypeIndices
      <3>2. take_value(b, r) = Into(r, "value", take_text(b, r.pos, 4, Weight(4) - 1))
        BY <1>0, <3>1 DEF take_value
      <3>3. QED BY <1>0, <2>1, <3>2
    <2>2. CASE v.t # "str"
      <3>1. r.type \in {0, 1}
        BY <1>0, <2>2, TypeIndices, ScalarKinds
      <3>2. take_value(b, r) = Into(r, "value", take_number(b, r.pos, 8))
        BY <1>0, <3>1 DEF take_value
      <3>3. QED BY <1>0, <2>2, <3>2
    <2>3. QED BY <2>1, <2>2
  <1>2. Reads(take, b, end, Raw(v))
    <2>1. CASE v.t = "int"
      <3>1. v.n % Weight(8) \in Nat /\ v.n % Weight(8) < Weight(8)
        BY <2>1, ScalarKinds, SignedAgain
      <3>2. PutValue(v) = Put(v.n % Weight(8), 8) /\ Raw(v) = v.n % Weight(8)
        BY <2>1, PutValueType DEF Raw
      <3>3. Len(PutValue(v)) = 8
        BY <3>1, <3>2, PutType
      <3>4. Reads(take_number(b, pos, 8), b, pos + 8, v.n % Weight(8))
        BY <3>1, <3>2, TakeNumber
      <3>5. QED BY <2>1, <3>2, <3>3, <3>4
    <2>2. CASE v.t = "double"
      <3>1. v.n \in Nat /\ v.n < Weight(8)
        BY <2>2, ScalarKinds
      <3>2. PutValue(v) = Put(v.n, 8) /\ Raw(v) = v.n
        BY <2>2, PutValueType DEF Raw
      <3>3. Len(PutValue(v)) = 8
        BY <3>1, <3>2, PutType
      <3>4. Reads(take_number(b, pos, 8), b, pos + 8, v.n)
        BY <3>1, <3>2, TakeNumber
      <3>5. QED BY <2>2, <3>2, <3>3, <3>4
    <2>3. CASE v.t = "str"
      <3>1. v.s \in Seq(Byte) /\ Len(v.s) < Weight(4) /\ Len(v.s) \in Nat
        BY <2>3, ScalarKinds
      <3>2. /\ PutValue(v) = Put(Len(v.s), 4) \o v.s /\ Raw(v) = v.s
            /\ Len(PutValue(v)) = 4 + Len(v.s)
        BY <2>3, PutValueType DEF Raw
      <3>3. Put(Len(v.s), 4) \in Seq(Byte) /\ Len(Put(Len(v.s), 4)) = 4
        BY <3>1, PutType
      <3>4. At(b, pos, Put(Len(v.s), 4)) /\ At(b, pos + 4, v.s)
        <4>1. At(b, pos, Put(Len(v.s), 4) \o v.s)
          BY <3>2
        <4>2. At(b, pos, Put(Len(v.s), 4)) /\ At(b, pos + Len(Put(Len(v.s), 4)), v.s)
          BY <3>1, <3>3, <4>1, AtFirst
        <4>3. QED BY <3>3, <4>2
      <3>5. Len(v.s) <= Weight(4) - 1
        BY <3>1, SmallNumbers
      <3>6. Reads(take_text(b, pos, 4, Weight(4) - 1), b, pos + 4 + Len(v.s), v.s)
        BY <3>1, <3>4, <3>5, TakeText
      <3>7. end = pos + 4 + Len(v.s)
        <4>1. pos \in Nat /\ Len(PutValue(v)) = 4 + Len(v.s)
          BY <1>0, <3>2
        <4>2. Len(v.s) \in Nat
          BY <3>1
        <4>3. Len(PutValue(v)) \in Nat
          BY PutValueType
        <4> DEFINE m == Len(v.s)
        <4>a. /\ pos \in Nat /\ m \in Nat
              /\ Len(PutValue(v)) = 4 + m /\ Len(PutValue(v)) \in Nat
          BY <4>1, <4>2, <4>3
        <4> HIDE DEF m
        <4>4. pos + Len(PutValue(v)) = pos + 4 + m
          BY <4>a
        <4>5. QED BY <4>4 DEF m
      <3>8. QED BY <2>3, <3>2, <3>6, <3>7
    <2>4. QED BY <2>1, <2>2, <2>3, ScalarKinds
  <1> HIDE DEF take, end
  <1>3. CASE end <= Len(b)
    <2>1. take = Took(end, Raw(v))
      BY <1>2, <1>3 DEF Reads
    <2>2. take_value(b, r) = FieldRead(end, TypeIndex(v.t), n, Raw(v))
      BY <1>1, <2>1, IntoField DEF r
    <2>3. QED BY <1>3, <2>2 DEF ReadsRecord, end, r
  <1>4. CASE ~(end <= Len(b))
    <2>1. take.ok = FALSE
      BY <1>2, <1>4 DEF Reads
    <2>2. take_value(b, r).ok = FALSE
      BY <1>1, <2>1, IntoFails DEF r
    <2>3. QED BY <1>4, <2>2 DEF ReadsRecord, end, r
  <1>5. QED BY <1>3, <1>4

\* The bytes of a field in their four parts.
LEMMA FieldParts ==
  ASSUME NEW name \in Seq(Byte), Len(name) < Weight(2), NEW v \in FittingValues,
         NEW f, f = [name |-> name, value |-> v]
  PROVE  /\ PutField(f) \in Seq(Byte)
         /\ Len(PutField(f)) = 3 + Len(name) + Len(PutValue(v))
         /\ \A b \in Seq(Byte), pos \in Nat :
              At(b, pos, PutField(f)) =>
                /\ At(b, pos, Put(TypeIndex(v.t), 1))
                /\ At(b, pos + 1, Put(Len(name), 2))
                /\ At(b, pos + 3, name)
                /\ At(b, pos + 3 + Len(name), PutValue(v))
  <1> DEFINE t == Put(TypeIndex(v.t), 1)
             l == Put(Len(name), 2)
             x == PutValue(v)
  <1>0. Len(name) \in Nat
    OBVIOUS
  <1>1. t \in Seq(Byte) /\ Len(t) = 1
    <2>1. TypeIndex(v.t) \in Nat
      BY TypeIndices, ScalarKinds
    <2>2. QED BY <2>1, PutType
  <1>2. l \in Seq(Byte) /\ Len(l) = 2
    BY <1>0, PutType
  <1>3. x \in Seq(Byte) /\ Len(x) \in Nat
    BY PutValueType
  <1>4. PutField(f) = ((t \o l) \o name) \o x
    BY DEF PutField
  <1> HIDE DEF t, l, x
  <1>5. t \o l \in Seq(Byte) /\ Len(t \o l) = 3
    <2>1. t \o l \in Seq(Byte) /\ Len(t \o l) = Len(t) + Len(l)
      BY <1>1, <1>2, Joins, Zenon
    <2>2. QED BY <1>1, <1>2, <2>1
  <1>6. (t \o l) \o name \in Seq(Byte) /\ Len((t \o l) \o name) = 3 + Len(name)
    BY <1>5, Joins
  <1>7. /\ ((t \o l) \o name) \o x \in Seq(Byte)
        /\ Len(((t \o l) \o name) \o x) = 3 + Len(name) + Len(x)
    <2>1. /\ ((t \o l) \o name) \o x \in Seq(Byte)
          /\ Len(((t \o l) \o name) \o x) = Len((t \o l) \o name) + Len(x)
      BY <1>3, <1>6, Joins
    <2>2. QED BY <1>0, <1>3, <1>6, <2>1
  <1>8. ASSUME NEW b \in Seq(Byte), NEW pos \in Nat, At(b, pos, PutField(f))
        PROVE  /\ At(b, pos, t) /\ At(b, pos + 1, l) /\ At(b, pos + 3, name)
               /\ At(b, pos + 3 + Len(name), x)
    <2>1. At(b, pos, (t \o l) \o name) /\ At(b, pos + (3 + Len(name)), x)
      <3>1. At(b, pos, ((t \o l) \o name) \o x)
        BY <1>4, <1>8
      <3>2. /\ At(b, pos, (t \o l) \o name)
            /\ At(b, pos + Len((t \o l) \o name), x)
        BY <1>3, <1>6, <3>1, AtFirst
      <3>3. QED BY <1>6, <3>2
    <2>2. At(b, pos, t \o l) /\ At(b, pos + 3, name)
      <3>1. At(b, pos, t \o l) /\ At(b, pos + Len(t \o l), name)
        BY <1>5, <2>1, AtFirst
      <3>2. QED BY <1>5, <3>1
    <2>3. At(b, pos, t) /\ At(b, pos + 1, l)
      <3>1. At(b, pos, t) /\ At(b, pos + Len(t), l)
        BY <1>1, <1>2, <2>2, AtFirst
      <3>2. QED BY <1>1, <3>1
    <2>4. pos + (3 + Len(name)) = pos + 3 + Len(name)
      BY <1>0
    <2>5. QED BY <2>1, <2>2, <2>3, <2>4
  <1>9. QED BY <1>4, <1>7, <1>8 DEF t, l, x

LEMMA TakeField ==
  ASSUME NEW name \in Seq(Byte), Len(name) < Weight(2), NEW v \in FittingValues,
         NEW f, f = [name |-> name, value |-> v],
         NEW b \in Seq(Byte), NEW pos \in Nat, At(b, pos, PutField(f))
  PROVE  ReadsRecord(take_field(b, pos), b, pos + Len(PutField(f)),
                     FieldRead(pos + Len(PutField(f)), TypeIndex(v.t), name, Raw(v)))
  <1> DEFINE start == FieldRead(pos, 0, <<>>, 0)
             kind == TypeIndex(v.t)
             r1 == take_type(b, start)
             r2 == take_key(b, r1)
             r3 == take_value(b, r2)
             p2 == pos + 3 + Len(name)
             p3 == pos + Len(PutField(f))
  <1>0. /\ Len(name) \in Nat /\ Len(PutValue(v)) \in Nat /\ Len(b) \in Nat
        /\ p3 = p2 + Len(PutValue(v)) /\ p2 = pos + 1 + 2 + Len(name)
    <2>1. Len(name) \in Nat /\ Len(PutValue(v)) \in Nat /\ Len(b) \in Nat
      BY PutValueType
    <2>2. Len(PutField(f)) = 3 + Len(name) + Len(PutValue(v))
      BY FieldParts
    <2>3. QED BY <2>1, <2>2
  <1>1. take_field(b, pos) = r3
    BY DEF take_field, FieldRead
  <1>2. kind \in Nat /\ kind < Weight(1)
    BY TypeIndices, ScalarKinds, SmallNumbers
  <1>3. /\ At(b, pos, Put(kind, 1)) /\ At(b, pos + 1, Put(Len(name), 2))
        /\ At(b, pos + 1 + 2, name) /\ At(b, p2, PutValue(v))
    <2>1. pos + 1 + 2 = pos + 3
      OBVIOUS
    <2>2. QED BY <2>1, FieldParts
  <1> HIDE DEF p3, kind
  <1>4. IF pos + 1 <= Len(b) THEN r1 = FieldRead(pos + 1, kind, <<>>, 0) ELSE r1.ok = FALSE
    <2> DEFINE take == take_number(b, pos, 1)
    <2>1. Reads(take, b, pos + 1, kind)
      BY <1>2, <1>3, TakeNumber
    <2>2. r1 = Into(start, "type", take)
      <3>1. start.pos = pos
        BY DEF FieldRead
      <3> HIDE DEF start
      <3>2. QED BY <3>1 DEF take_type
    <2> HIDE DEF take, r1
    <2>3. CASE pos + 1 <= Len(b)
      BY <2>1, <2>2, <2>3, IntoField DEF Reads
    <2>4. CASE ~(pos + 1 <= Len(b))
      BY <2>1, <2>2, <2>4, IntoFails DEF Reads
    <2>5. QED BY <2>3, <2>4
  <1> HIDE DEF r1
  <1>5. IF p2 <= Len(b) THEN r2 = FieldRead(p2, kind, name, 0) ELSE r2.ok = FALSE
    <2> DEFINE take == take_text(b, pos + 1, 2, Weight(2) - 1)
    <2>1. Reads(take, b, pos + 1 + 2 + Len(name), name)
      <3>1. Len(name) <= Weight(2) - 1
        BY <1>0, SmallNumbers
      <3>2. QED BY <1>3, <3>1, TakeText
    <2>2. Reads(take, b, p2, name)
      BY <1>0, <2>1
    <2> HIDE DEF take
    <2>3. CASE pos + 1 <= Len(b)
      <3>1. r1 = FieldRead(pos + 1, kind, <<>>, 0)
        BY <1>4, <2>3
      <3>2. r1.ok /\ r1.pos = pos + 1
        BY <3>1 DEF FieldRead
      <3>3. r2 = Into(r1, "name", take)
        BY <3>2 DEF take_key, take
      <3> HIDE DEF r2, p2
      <3>4. CASE p2 <= Len(b)
        BY <2>2, <3>1, <3>3, <3>4, IntoField DEF Reads
      <3>5. CASE ~(p2 <= Len(b))
        BY <2>2, <3>1, <3>3, <3>5, IntoFails DEF Reads
      <3>6. QED BY <3>4, <3>5
    <2>4. CASE ~(pos + 1 <= Len(b))
      <3>1. r1.ok = FALSE
        BY <1>4, <2>4
      <3>2. r2 = r1
        BY <3>1 DEF take_key
      <3>3. ~(p2 <= Len(b))
        BY <1>0, <2>4
      <3>4. QED BY <3>1, <3>2, <3>3
    <2>5. QED BY <2>3, <2>4
  <1> HIDE DEF r2
  <1>6. CASE p2 <= Len(b)
    <2>1. r2 = FieldRead(p2, kind, name, 0)
      BY <1>5, <1>6
    <2>2. ReadsRecord(r3, b, p3, FieldRead(p3, kind, name, Raw(v)))
      BY <1>0, <1>3, <2>1, TakeValue DEF kind
    <2>3. QED BY <1>1, <2>2 DEF p3, kind
  <1>7. CASE ~(p2 <= Len(b))
    <2>1. r2.ok = FALSE
      BY <1>5, <1>7
    <2>2. r3.ok = FALSE
      BY <2>1 DEF take_value
    <2>3. ~(p3 <= Len(b))
      BY <1>0, <1>7
    <2>4. QED BY <1>1, <2>2, <2>3 DEF ReadsRecord, p3
  <1>8. QED BY <1>6, <1>7

(***************************************************************************)
(* The list of fields                                                      *)
(***************************************************************************)
Fitting == {f \in [name : Seq(Byte), value : FittingValues] : Len(f.name) < Weight(2)}

\* They are the fields that encode_entry_meta() does not refuse.
LEMMA FittingFields ==
  ASSUME NEW f \in [name : Seq(Byte), value : ScalarValues]
  PROVE  f \in Fitting <=> ~FieldTooLong(f)
  <1> DEFINE n == Len(f.name)
             v == f.value
             l == Len(v.s)
  <1>1. n \in Nat /\ Weight(2) \in Nat /\ Weight(4) \in Nat
    <2>1. f.name \in Seq(Byte)
      OBVIOUS
    <2>2. n \in Nat
      BY <2>1
    <2>3. QED BY <2>2, SmallNumbers
  <1>2. v \in ScalarValues /\ v.s \in Seq(Byte)
    <2>1. v \in ScalarValues
      OBVIOUS
    <2> HIDE DEF v
    <2>2. v.s \in {<<>>} \/ v.s \in Seq(Byte)
      <3>1. CASE v \in [t : {"int"}, n : Int64, s : {<<>>}]
        BY <3>1
      <3>2. CASE v \in [t : {"double"}, n : 0 .. Weight(8) - 1, s : {<<>>}]
        BY <3>2
      <3>3. CASE v \in [t : {"str"}, n : {0}, s : Seq(Byte)]
        BY <3>3
      <3>4. QED BY <2>1, <3>1, <3>2, <3>3 DEF ScalarValues
    <2>3. <<>> \in Seq(Byte)
      OBVIOUS
    <2>4. QED BY <2>1, <2>2, <2>3
  <1>3. l \in Nat
    BY <1>2
  <1>4. f \in Fitting <=> n < Weight(2) /\ (v.t = "str" => l < Weight(4))
    <2>1. f = [name |-> f.name, value |-> v] /\ f.name \in Seq(Byte)
      OBVIOUS
    <2>2. v \in FittingValues <=> (v.t = "str" => l < Weight(4))
      BY <1>2 DEF FittingValues
    <2>3. f \in Fitting <=> v \in FittingValues /\ n < Weight(2)
      BY <2>1 DEF Fitting
    <2>4. QED BY <2>2, <2>3
  <1>5. FieldTooLong(f) <=> n >= Weight(2) \/ (v.t = "str" /\ l >= Weight(4))
    BY DEF FieldTooLong
  <1> HIDE DEF n, l
  <1>6. (n >= Weight(2) <=> ~(n < Weight(2))) /\ (l >= Weight(4) <=> ~(l < Weight(4)))
    BY <1>1, <1>3
  <1>7. QED BY <1>4, <1>5, <1>6

FieldBytes(fs) == [i \in 1 .. Len(fs) |-> PutField(fs[i])]

LEMMA FieldBytesType ==
  ASSUME NEW fs \in Seq(Fitting)
  PROVE  /\ Len(FieldBytes(fs)) = Len(fs) /\ Len(fs) \in Nat
         /\ \A i \in 1 .. Len(fs) : FieldBytes(fs)[i] = PutField(fs[i])
         /\ \A i \in 1 .. Len(fs) : FieldBytes(fs)[i] \in Seq(Byte)
         /\ \A i \in 1 .. Len(fs) :
              /\ fs[i].name \in Seq(Byte) /\ Len(fs[i].name) < Weight(2)
              /\ fs[i].value \in FittingValues
              /\ fs[i] = [name |-> fs[i].name, value |-> fs[i].value]
  <1>1. Len(FieldBytes(fs)) = Len(fs) /\ Len(fs) \in Nat
    BY DEF FieldBytes
  <1>2. ASSUME NEW i \in 1 .. Len(fs) PROVE FieldBytes(fs)[i] = PutField(fs[i])
    BY DEF FieldBytes
  <1>3. ASSUME NEW i \in 1 .. Len(fs)
        PROVE  /\ fs[i].name \in Seq(Byte) /\ Len(fs[i].name) < Weight(2)
               /\ fs[i].value \in FittingValues
               /\ fs[i] = [name |-> fs[i].name, value |-> fs[i].value]
    <2>1. fs[i] \in Fitting
      BY ElementOfSeq
    <2>2. QED BY <2>1 DEF Fitting
  <1>4. ASSUME NEW i \in 1 .. Len(fs) PROVE PutField(fs[i]) \in Seq(Byte)
    BY <1>3, FieldParts
  <1>5. QED BY <1>1, <1>2, <1>3, <1>4

FieldsStep(e, h, i) == IF h.ok THEN AppendField(h, take_field(e.b, h.pos)) ELSE Corrupt
FieldsInv(e, k, h) ==
  Reads(h, e.b, e.pos + Len(UpTo(FieldBytes(e.fs), k)), SubSeq(e.fs, 1, k))
FieldsLoop == INSTANCE FoldRule WITH Step <- FieldsStep, Inv <- FieldsInv

\* The first fields of a list and the next one.
LEMMA NextField ==
  ASSUME NEW fs \in Seq(Fitting), NEW k \in 1 .. Len(fs)
  PROVE  Append(SubSeq(fs, 1, k - 1), fs[k]) = SubSeq(fs, 1, k)
  <1>0. Len(fs) \in Nat /\ fs[k] \in Fitting /\ k - 1 \in Nat /\ k \in Nat
    BY ElementOfSeq
  <1> DEFINE x == SubSeq(fs, 1, k - 1)
             y == SubSeq(fs, 1, k)
  <1>1. x \in Seq(Fitting) /\ Len(x) = k - 1 /\ \A i \in 1 .. k - 1 : x[i] = fs[i]
    BY <1>0
  <1>2. y \in Seq(Fitting) /\ Len(y) = k /\ \A i \in 1 .. k : y[i] = fs[i]
    BY <1>0
  <1> HIDE DEF x, y
  <1>3. Append(x, fs[k]) \in Seq(Fitting) /\ Len(Append(x, fs[k])) = k
    BY <1>0, <1>1
  <1>4. ASSUME NEW i \in 1 .. k PROVE Append(x, fs[k])[i] = y[i]
    <2>1. CASE i = k
      BY <1>0, <1>1, <1>2, <2>1
    <2>2. CASE i # k
      BY <1>0, <1>1, <1>2, <2>2
    <2>3. QED BY <2>1, <2>2
  <1>5. Append(x, fs[k]) = y
    BY <1>2, <1>3, <1>4, SeqEqual
  <1>6. QED BY <1>5 DEF x, y

LEMMA TakeFields ==
  ASSUME NEW fs \in Seq(Fitting), Len(fs) < Weight(2), NEW b \in Seq(Byte), NEW pos,
         At(b, pos, Put(Len(fs), 2)), At(b, pos + 2, Concat(FieldBytes(fs)))
  PROVE  Reads(FieldsAfter(b, take_number(b, pos, 2)), b,
               pos + 2 + Len(Concat(FieldBytes(fs))), fs)
  <1> DEFINE ss == FieldBytes(fs)
             count == take_number(b, pos, 2)
             base == Took(pos + 2, <<>>)
             e == [b |-> b, pos |-> pos + 2, fs |-> fs]
  <1>0. Len(fs) \in Nat /\ Len(b) \in Nat /\ pos \in Nat /\ pos + 2 \in Nat
    BY DEF At
  <1>1. Reads(count, b, pos + 2, Len(fs))
    BY <1>0, TakeNumber
  <1>2. \A i \in 1 .. Len(fs) : ss[i] \in Seq(Byte)
    BY FieldBytesType
  <1>3. Concat(ss) = UpTo(ss, Len(fs))
    BY ConcatIs, FieldBytesType
  <1>4. \A k \in 0 .. Len(fs) : UpTo(ss, k) \in Seq(Byte) /\ Len(UpTo(ss, k)) \in Nat
    <2>1. \A k \in 0 .. Len(fs) : UpTo(ss, k) \in Seq(Byte)
      BY <1>0, <1>2, UpToType
    <2>2. QED BY <2>1
  <1>5. e.b = b /\ e.pos = pos + 2 /\ e.fs = fs
    OBVIOUS
  <1> HIDE DEF e, ss, count
  <1>6. CASE pos + 2 <= Len(b)
    <2>1. count.ok /\ count.pos = pos + 2 /\ count.out = Len(fs)
      BY <1>1, <1>6 DEF Reads, Took
    <2>2. FieldsAfter(b, count) = FieldsLoop!Rounds(e, base, Len(fs))
      BY <1>5, <2>1 DEF FieldsAfter, FieldsLoop!Rounds, FieldsStep
    <2>3. FieldsInv(e, 0, base)
      <3>1. UpTo(ss, 0) = <<>> /\ SubSeq(fs, 1, 0) = <<>>
        BY UpToNext
      <3>2. pos + 2 + Len(UpTo(ss, 0)) = pos + 2
        BY <1>0, <3>1
      <3>3. QED BY <1>5, <1>6, <3>1, <3>2 DEF FieldsInv, Reads, ss
    <2>4. ASSUME NEW k \in 1 .. Len(fs), NEW h, FieldsInv(e, k - 1, h)
          PROVE  FieldsInv(e, k, FieldsStep(e, h, k))
      <3> DEFINE p0 == pos + 2 + Len(UpTo(ss, k - 1))
                 p1 == pos + 2 + Len(UpTo(ss, k))
                 f == fs[k]
                 field == take_field(b, p0)
      <3>0. k - 1 \in 0 .. Len(fs) /\ k - 1 \in Nat /\ (k - 1) + 1 = k
        OBVIOUS
      <3>1. Reads(h, b, p0, SubSeq(fs, 1, k - 1))
        BY <1>5, <2>4 DEF FieldsInv, ss
      <3>2. /\ f.name \in Seq(Byte) /\ Len(f.name) < Weight(2) /\ f.value \in FittingValues
            /\ f = [name |-> f.name, value |-> f.value]
            /\ ss[k] = PutField(f) /\ ss[k] \in Seq(Byte)
        BY FieldBytesType DEF ss
      <3>3. UpTo(ss, k) = UpTo(ss, k - 1) \o ss[k]
        <4>1. UpTo(ss, (k - 1) + 1) = UpTo(ss, k - 1) \o ss[(k - 1) + 1]
          BY <3>0, UpToNext
        <4>2. QED BY <3>0, <4>1
      <3>4. UpTo(ss, k - 1) \in Seq(Byte)
        BY <1>4, <3>0
      <3>5. /\ Len(UpTo(ss, k)) = Len(UpTo(ss, k - 1)) + Len(PutField(f))
            /\ Len(UpTo(ss, k - 1)) \in Nat /\ Len(PutField(f)) \in Nat
        BY <3>2, <3>3, <3>4, Joins
      <3>6. p0 \in Nat /\ p1 = p0 + Len(PutField(f))
        BY <1>0, <3>5
      <3>7. At(b, p0, PutField(f))
        <4>1. At(b, pos + 2, UpTo(ss, Len(fs)))
          BY <1>3 DEF ss
        <4>2. At(b, (pos + 2) + Len(UpTo(ss, k - 1)), ss[k])
          BY <1>0, <1>2, <4>1, UpToAt
        <4>3. QED BY <3>2, <4>2
      <3>8. ReadsRecord(field, b, p1, FieldRead(p1, TypeIndex(f.value.t), f.name, Raw(f.value)))
        BY <3>2, <3>6, <3>7, TakeField
      <3> HIDE DEF p0, p1, f, field
      <3>9. Reads(FieldsStep(e, h, k), b, p1, SubSeq(fs, 1, k))
        <4>1. CASE p1 <= Len(b)
          <5>1. p0 <= Len(b)
            BY <1>0, <3>5, <3>6, <4>1
          <5>2. h.ok /\ h.pos = p0 /\ h.out = SubSeq(fs, 1, k - 1)
            BY <3>1, <5>1 DEF Reads, Took
          <5>3. FieldsStep(e, h, k) = AppendField(h, field)
            BY <1>5, <5>2 DEF FieldsStep, field
          <5>4. field = FieldRead(p1, TypeIndex(f.value.t), f.name, Raw(f.value))
            BY <3>8, <4>1 DEF ReadsRecord
          <5>5. field.ok /\ field.pos = p1
            BY <5>4 DEF FieldRead
          <5>6. ScalarOf(field) = f
            <6>1. ScalarOf(field) = [name |-> f.name, value |-> f.value]
              BY <3>2, <5>4, ScalarAgain
            <6>2. QED BY <3>2, <6>1
          <5>7. AppendField(h, field) = Took(p1, Append(SubSeq(fs, 1, k - 1), f))
            BY <5>2, <5>5, <5>6 DEF AppendField
          <5>8. Append(SubSeq(fs, 1, k - 1), f) = SubSeq(fs, 1, k)
            BY NextField DEF f
          <5>9. QED BY <4>1, <5>3, <5>7, <5>8 DEF Reads
        <4>2. CASE ~(p1 <= Len(b))
          <5>1. CASE p0 <= Len(b)
            <6>1. h.ok /\ h.pos = p0
              BY <3>1, <5>1 DEF Reads, Took
            <6>2. FieldsStep(e, h, k) = AppendField(h, field)
              BY <1>5, <6>1 DEF FieldsStep, field
            <6>3. field.ok = FALSE
              BY <3>8, <4>2 DEF ReadsRecord
            <6>4. FieldsStep(e, h, k) = Corrupt
              BY <6>2, <6>3 DEF AppendField
            <6>5. QED BY <4>2, <6>4 DEF Reads, Corrupt
          <5>2. CASE ~(p0 <= Len(b))
            <6>1. h.ok = FALSE
              BY <3>1, <5>2 DEF Reads
            <6>2. FieldsStep(e, h, k) = Corrupt
              BY <6>1 DEF FieldsStep
            <6>3. QED BY <4>2, <6>2 DEF Reads, Corrupt
          <5>3. QED BY <5>1, <5>2
        <4>3. QED BY <4>1, <4>2
      <3>10. QED BY <1>5, <3>9 DEF FieldsInv, p1, ss
    <2>5. FieldsInv(e, Len(fs), FieldsLoop!Rounds(e, base, Len(fs)))
      <3> HIDE DEF base
      <3>1. QED BY <1>0, <2>3, <2>4, FieldsLoop!RoundsKeep, Zenon
    <2>6. Reads(FieldsAfter(b, count), b, pos + 2 + Len(Concat(ss)), SubSeq(fs, 1, Len(fs)))
      BY <1>3, <1>5, <2>2, <2>5 DEF FieldsInv, ss
    <2>7. SubSeq(fs, 1, Len(fs)) = fs
      OBVIOUS
    <2>8. QED BY <2>6, <2>7 DEF count, ss
  <1>7. CASE ~(pos + 2 <= Len(b))
    <2>1. FieldsAfter(b, count) = Corrupt
      BY <1>1, <1>7 DEF FieldsAfter, Reads
    <2>2. Len(Concat(ss)) \in Nat
      BY <1>0, <1>3, <1>4
    <2>3. ~(pos + 2 + Len(Concat(ss)) <= Len(b))
      BY <1>0, <1>7, <2>2
    <2>4. QED BY <2>1, <2>3 DEF Reads, Corrupt, count, ss
  <1>8. QED BY <1>6, <1>7

(***************************************************************************)
(* Sorting by name                                                         *)
(***************************************************************************)
\* r is s with x put in at position p.
Inserted(X, r, s, p, x) ==
  /\ r \in Seq(X)
  /\ Len(r) = Len(s) + 1
  /\ \A i \in 1 .. Len(s) + 1 :
       r[i] = IF i < p THEN s[i] ELSE IF i = p THEN x ELSE s[i - 1]

LEMMA InsertAtEntries ==
  ASSUME NEW X, NEW s \in Seq(X), NEW x \in X, NEW p \in 1 .. Len(s) + 1
  PROVE  Inserted(X, Seqs!InsertAt(s, p, x), s, p, x)
  <1> DEFINE a == SubSeq(s, 1, p - 1)
             b == SubSeq(s, p, Len(s))
             r == (a \o <<x>>) \o b
  <1>0. Len(s) \in Nat /\ p \in Nat
    OBVIOUS
  <1>1. a \in Seq(X) /\ Len(a) = p - 1 /\ \A i \in 1 .. p - 1 : a[i] = s[i]
    BY <1>0
  <1>2. b \in Seq(X) /\ Len(b) = Len(s) - p + 1 /\ \A i \in 1 .. Len(s) - p + 1 : b[i] = s[p + i - 1]
    BY <1>0
  <1> HIDE DEF a, b
  <1> DEFINE c == a \o <<x>>
  <1>3. c \in Seq(X) /\ Len(c) = p /\ (\A i \in 1 .. p - 1 : c[i] = a[i]) /\ c[p] = x
    BY <1>1, <1>0
  <1> HIDE DEF c
  <1>4. c \o b \in Seq(X) /\ Len(c \o b) = Len(s) + 1
    BY <1>0, <1>2, <1>3
  <1>5. ASSUME NEW i \in 1 .. Len(s) + 1
        PROVE  (c \o b)[i] = IF i < p THEN s[i] ELSE IF i = p THEN x ELSE s[i - 1]
    <2>1. CASE i < p
      BY <2>1, <1>0, <1>1, <1>2, <1>3
    <2>2. CASE i = p
      BY <2>2, <1>0, <1>2, <1>3
    <2>3. CASE i > p
      <3>1. (c \o b)[i] = b[i - p]
        BY <2>3, <1>0, <1>2, <1>3
      <3>2. i - p \in 1 .. Len(s) - p + 1 /\ p + (i - p) - 1 = i - 1
        BY <2>3, <1>0
      <3>3. b[i - p] = s[i - 1]
        BY <1>2, <3>2
      <3>4. QED BY <2>3, <3>1, <3>3
    <2>4. i < p \/ i = p \/ i > p
      BY <1>0
    <2>5. QED BY <2>1, <2>2, <2>3, <2>4
  <1>6. Seqs!InsertAt(s, p, x) = c \o b
    BY DEF Seqs!InsertAt, a, b, c
  <1>7. QED BY <1>4, <1>5, <1>6 DEF Inserted

LEMMA NameLessOneWay ==
  ASSUME NEW a \in Seq(Byte), NEW b \in Seq(Byte), NameLess(a, b)
  PROVE  ~NameLess(b, a)
  <1>0. Len(a) \in Nat /\ Len(b) \in Nat
    OBVIOUS
  <1>1. \A k \in 1 .. Len(a) : a[k] \in Int
    <2>1. \A k \in 1 .. Len(a) : a[k] \in Byte
      BY ElementOfSeq
    <2>2. QED BY <2>1, SmallNumbers DEF Byte
  <1>2. \A k \in 1 .. Len(b) : b[k] \in Int
    <2>1. \A k \in 1 .. Len(b) : b[k] \in Byte
      BY ElementOfSeq
    <2>2. QED BY <2>1, SmallNumbers DEF Byte
  <1>3. PICK i \in 1 .. Len(b) :
          /\ \A j \in 1 .. i - 1 : j <= Len(a) /\ a[j] = b[j]
          /\ i = Len(a) + 1 \/ (i <= Len(a) /\ a[i] < b[i])
    BY DEF NameLess
  <1>4. SUFFICES ASSUME NEW k \in 1 .. Len(a),
                        \A j \in 1 .. k - 1 : j <= Len(b) /\ b[j] = a[j],
                        k = Len(b) + 1 \/ (k <= Len(b) /\ b[k] < a[k])
                 PROVE  FALSE
    BY DEF NameLess
  <1>5. CASE i < k
    <2>1. i \in 1 .. k - 1 /\ i <= Len(a)
      BY <1>0, <1>5
    <2>2. b[i] = a[i] /\ a[i] < b[i] /\ a[i] \in Int
      BY <1>0, <1>1, <1>3, <1>4, <2>1
    <2>3. QED BY <2>2
  <1>6. CASE k < i
    <2>1. k \in 1 .. i - 1 /\ k <= Len(b)
      BY <1>0, <1>6
    <2>2. b[k] = a[k] /\ b[k] < a[k] /\ a[k] \in Int
      BY <1>0, <1>1, <1>3, <1>4, <2>1
    <2>3. QED BY <2>2
  <1>7. CASE i = k
    <2>1. a[i] < b[i] /\ b[i] < a[i] /\ a[i] \in Int /\ b[i] \in Int
      BY <1>0, <1>1, <1>2, <1>3, <1>4, <1>7
    <2>2. QED BY <2>1
  <1>8. QED BY <1>5, <1>6, <1>7

Ordered(s) == \A k \in 1 .. Len(s) - 1 : ~NameLess(s[k + 1].name, s[k].name)

LEMMA InsertedWhere ==
  ASSUME NEW h \in Seq(Fitting), NEW f \in Fitting
  PROVE  \E p \in 1 .. Len(h) + 1 :
           /\ Inserted(Fitting, InsertByName(h, f), h, p, f)
           /\ \A j \in 1 .. p - 1 : ~NameLess(f.name, h[j].name)
           /\ p <= Len(h) => NameLess(f.name, h[p].name)
  <1> DEFINE later == {k \in 1 .. Len(h) : NameLess(f.name, h[k].name)}
             p == CHOOSE k \in later : \A j \in later : k <= j
  <1>0. Len(h) \in Nat
    OBVIOUS
  <1>1. CASE later = {}
    <2>1. InsertByName(h, f) = Append(h, f)
      BY <1>1 DEF InsertByName
    <2>2. Inserted(Fitting, Append(h, f), h, Len(h) + 1, f)
      BY <1>0 DEF Inserted
    <2>3. \A j \in 1 .. (Len(h) + 1) - 1 : ~NameLess(f.name, h[j].name)
      BY <1>0, <1>1
    <2>4. Len(h) + 1 \in 1 .. Len(h) + 1 /\ ~(Len(h) + 1 <= Len(h))
      BY <1>0
    <2>5. QED BY <2>1, <2>2, <2>3, <2>4
  <1>2. CASE later # {}
    <2>1. InsertByName(h, f) = Seqs!InsertAt(h, p, f)
      BY <1>2 DEF InsertByName
    <2>2. \E k \in later : \A j \in later : k <= j
      <3>1. later \subseteq Nat
        OBVIOUS
      <3> HIDE DEF later
      <3>2. QED BY <1>2, <3>1, WeightLoop!NatMin
    <2>3. p \in later /\ \A j \in later : p <= j
      <3> HIDE DEF later
      <3>1. QED BY <2>2
    <2> HIDE DEF p
    <2>4. p \in 1 .. Len(h) /\ p \in 1 .. Len(h) + 1 /\ NameLess(f.name, h[p].name)
      BY <1>0, <2>3
    <2>5. \A j \in 1 .. p - 1 : ~NameLess(f.name, h[j].name)
      <3>1. SUFFICES ASSUME NEW j \in 1 .. p - 1, NameLess(f.name, h[j].name) PROVE FALSE
        OBVIOUS
      <3>2. j \in later /\ j < p
        BY <1>0, <2>4, <3>1
      <3>3. p <= j
        BY <2>3, <3>2
      <3>4. QED BY <2>4, <3>2, <3>3
    <2>6. Inserted(Fitting, Seqs!InsertAt(h, p, f), h, p, f)
      BY <2>4, InsertAtEntries
    <2>7. QED BY <2>1, <2>4, <2>5, <2>6
  <1>3. QED BY <1>1, <1>2

LEMMA InsertKeeps ==
  ASSUME NEW h \in Seq(Fitting), NEW f \in Fitting, Ordered(h), NEW r, r = InsertByName(h, f)
  PROVE  /\ r \in Seq(Fitting) /\ Len(r) = Len(h) + 1
         /\ ScalarSet(r) = ScalarSet(h) \cup {f}
         /\ Ordered(r)
  <1>0. Len(h) \in Nat
    OBVIOUS
  <1>1. PICK p \in 1 .. Len(h) + 1 :
           /\ Inserted(Fitting, r, h, p, f)
           /\ \A j \in 1 .. p - 1 : ~NameLess(f.name, h[j].name)
           /\ p <= Len(h) => NameLess(f.name, h[p].name)
    BY InsertedWhere
  <1>2. /\ r \in Seq(Fitting) /\ Len(r) = Len(h) + 1 /\ Len(r) \in Nat
        /\ \A i \in 1 .. Len(h) + 1 :
             r[i] = IF i < p THEN h[i] ELSE IF i = p THEN f ELSE h[i - 1]
    BY <1>0, <1>1 DEF Inserted
  <1>3. ScalarSet(r) \subseteq ScalarSet(h) \cup {f}
    <2>1. ASSUME NEW i \in 1 .. Len(r) PROVE r[i] \in ScalarSet(h) \cup {f}
      <3>1. CASE i < p
        BY <1>0, <1>1, <1>2, <3>1 DEF ScalarSet
      <3>2. CASE i = p
        BY <1>0, <1>1, <1>2, <3>2
      <3>3. CASE i > p
        <4>1. r[i] = h[i - 1] /\ i - 1 \in 1 .. Len(h)
          BY <1>0, <1>1, <1>2, <3>3
        <4>2. QED BY <4>1 DEF ScalarSet
      <3>4. QED BY <3>1, <3>2, <3>3
    <2>2. QED BY <2>1 DEF ScalarSet
  <1>4. ScalarSet(h) \cup {f} \subseteq ScalarSet(r)
    <2>1. f \in ScalarSet(r)
      <3>1. r[p] = f /\ p \in 1 .. Len(r)
        BY <1>0, <1>2
      <3>2. QED BY <3>1 DEF ScalarSet
    <2>2. ASSUME NEW i \in 1 .. Len(h) PROVE h[i] \in ScalarSet(r)
      <3>1. CASE i < p
        <4>1. r[i] = h[i] /\ i \in 1 .. Len(r)
          BY <1>0, <1>2, <3>1
        <4>2. QED BY <4>1 DEF ScalarSet
      <3>2. CASE ~(i < p)
        <4>1. i + 1 \in 1 .. Len(h) + 1 /\ ~(i + 1 < p) /\ i + 1 # p /\ (i + 1) - 1 = i
          BY <1>0, <3>2
        <4>2. r[i + 1] = h[i] /\ i + 1 \in 1 .. Len(r)
          BY <1>2, <4>1
        <4>3. QED BY <4>2 DEF ScalarSet
      <3>3. QED BY <3>1, <3>2
    <2>3. QED BY <2>1, <2>2 DEF ScalarSet
  <1>5. ASSUME NEW k \in 1 .. Len(r) - 1 PROVE ~NameLess(r[k + 1].name, r[k].name)
    <2>0. k \in 1 .. Len(h) /\ k + 1 \in 1 .. Len(h) + 1 /\ k \in 1 .. Len(h) + 1
      BY <1>0, <1>2
    <2>1. CASE k + 1 < p
      <3>1. r[k + 1] = h[k + 1] /\ r[k] = h[k] /\ k \in 1 .. Len(h) - 1
        BY <1>0, <1>2, <2>0, <2>1
      <3>2. QED BY <3>1 DEF Ordered
    <2>2. CASE k + 1 = p
      <3>1. r[k + 1] = f /\ r[k] = h[k] /\ k \in 1 .. p - 1
        BY <1>0, <1>2, <2>0, <2>2
      <3>2. QED BY <1>1, <3>1
    <2>3. CASE k = p
      <3>1. r[k + 1] = h[k] /\ r[k] = f
        <4>1. ~(k + 1 < p) /\ k + 1 # p /\ (k + 1) - 1 = k /\ ~(k < p)
          BY <2>0, <2>3
        <4>2. QED BY <1>2, <2>0, <2>3, <4>1
      <3>2. NameLess(f.name, h[k].name)
        BY <1>0, <1>1, <2>0, <2>3
      <3>3. f.name \in Seq(Byte) /\ h[k].name \in Seq(Byte)
        <4>1. h[k] \in Fitting
          BY <2>0, ElementOfSeq
        <4>2. QED BY <4>1 DEF Fitting
      <3>4. QED BY <3>1, <3>2, <3>3, NameLessOneWay
    <2>4. CASE k > p
      <3>1. r[k + 1] = h[k] /\ r[k] = h[k - 1]
        <4>1. ~(k + 1 < p) /\ k + 1 # p /\ (k + 1) - 1 = k /\ ~(k < p) /\ k # p
          BY <2>0, <2>4
        <4>2. QED BY <1>2, <2>0, <4>1
      <3>2. k - 1 \in 1 .. Len(h) - 1 /\ (k - 1) + 1 = k
        BY <1>0, <2>0, <2>4
      <3>3. ~NameLess(h[(k - 1) + 1].name, h[k - 1].name)
        BY <3>2 DEF Ordered
      <3>4. QED BY <3>1, <3>2, <3>3
    <2>5. QED BY <2>0, <2>1, <2>2, <2>3, <2>4
  <1>6. QED BY <1>2, <1>3, <1>4, <1>5 DEF Ordered

SortStep(e, h, f) == InsertByName(h, f)
SortInv(e, k, h) ==
  h \in Seq(Fitting) /\ Len(h) = k /\ ScalarSet(h) = {e[j] : j \in 1 .. k} /\ Ordered(h)
SortLoop == INSTANCE FoldRule WITH Step <- SortStep, Inv <- SortInv

\* Sorting keeps the fields and puts their names in order.
LEMMA SortedFields ==
  ASSUME NEW fs \in Seq(Fitting)
  PROVE  /\ SortedByName(fs) \in Seq(Fitting)
         /\ Len(SortedByName(fs)) = Len(fs)
         /\ ScalarSet(SortedByName(fs)) = ScalarSet(fs)
         /\ Ordered(SortedByName(fs))
  <1>1. SortedByName(fs) = SortLoop!Folded(fs, <<>>, fs)
    BY DEF SortedByName, SortStep, SortLoop!Folded, Seqs!FoldLeft,
           SortLoop!FoldLeft, Seqs!MapThenFoldSet, SortLoop!MapThenFoldSet,
           Seqs!Max, SortLoop!Max
  <1>2. SortInv(fs, 0, <<>>)
    BY DEF SortInv, ScalarSet, Ordered
  <1>3. ASSUME NEW k \in 1 .. Len(fs), NEW h, SortInv(fs, k - 1, h)
        PROVE  SortInv(fs, k, SortStep(fs, h, fs[k]))
    <2>1. /\ h \in Seq(Fitting) /\ Len(h) = k - 1 /\ Ordered(h)
          /\ ScalarSet(h) = {fs[j] : j \in 1 .. k - 1} /\ fs[k] \in Fitting
      BY <1>3, ElementOfSeq DEF SortInv
    <2> DEFINE r == InsertByName(h, fs[k])
    <2>2. /\ r \in Seq(Fitting) /\ Len(r) = Len(h) + 1
          /\ ScalarSet(r) = ScalarSet(h) \cup {fs[k]} /\ Ordered(r)
      BY <2>1, InsertKeeps
    <2> HIDE DEF r
    <2>3. {fs[j] : j \in 1 .. k - 1} \cup {fs[k]} = {fs[j] : j \in 1 .. k}
      OBVIOUS
    <2>4. SortInv(fs, k, r)
      BY <2>1, <2>2, <2>3 DEF SortInv
    <2>5. QED BY <2>4 DEF SortStep, r
  <1>4. SortInv(fs, Len(fs), SortLoop!Folded(fs, <<>>, fs))
    BY <1>2, <1>3, SortLoop!FoldKeeps, Zenon
  <1>5. QED BY <1>1, <1>4 DEF SortInv, ScalarSet

(***************************************************************************)
(* The entry                                                               *)
(***************************************************************************)
Fits(m) ==
  /\ m.vec \in Seq(Floats) /\ Len(m.vec) <= kMaxVecLen
  /\ m.payload \in Seq(Byte) /\ Len(m.payload) <= kMaxPayloadLen
  /\ m.scalars \in Seq(Fitting) /\ Len(m.scalars) < kMaxScalarCount

FlagsOf(m) ==
  (IF m.vec # <<>> THEN kFlagsVec ELSE 0) + (IF m.payload # <<>> THEN kFlagsPayload ELSE 0)
    + (IF m.scalars # <<>> THEN kFlagsScalars ELSE 0)
VecBytes(m) ==
  IF m.vec # <<>> THEN Put(Len(m.vec), 4) \o Concat(FloatBytes(m.vec)) ELSE <<>>
PayloadBytes(m) ==
  IF m.payload # <<>> THEN Put(Len(m.payload), 4) \o m.payload ELSE <<>>
ScalarBytes(m) ==
  IF m.scalars # <<>>
  THEN Put(Len(m.scalars), 2) \o Concat(FieldBytes(SortedByName(m.scalars))) ELSE <<>>

\* Where the three parts end.
VecEnd(m) == 4 + Len(VecBytes(m))
PayloadEnd(m) == VecEnd(m) + Len(PayloadBytes(m))
ScalarEnd(m) == PayloadEnd(m) + Len(ScalarBytes(m))

EntryRecord(p, f, v, l, s) ==
  [ok |-> TRUE, pos |-> p, flags |-> f, vec |-> v, payload |-> l, scalars |-> s]

LEMMA IntoEntry ==
  ASSUME NEW p, NEW f, NEW v, NEW l, NEW s, NEW q, NEW o
  PROVE  /\ Into(EntryRecord(p, f, v, l, s), "flags", Took(q, o)) = EntryRecord(q, o, v, l, s)
         /\ Into(EntryRecord(p, f, v, l, s), "vec", Took(q, o)) = EntryRecord(q, f, o, l, s)
         /\ Into(EntryRecord(p, f, v, l, s), "payload", Took(q, o)) = EntryRecord(q, f, v, o, s)
         /\ Into(EntryRecord(p, f, v, l, s), "scalars", Took(q, o)) = EntryRecord(q, f, v, l, o)
  BY DEF Into, Took, EntryRecord

LEMMA IntoEntryFails ==
  ASSUME NEW p, NEW f, NEW v, NEW l, NEW s, NEW take, take.ok = FALSE, NEW field
  PROVE  Into(EntryRecord(p, f, v, l, s), field, take).ok = FALSE
  BY DEF Into, EntryRecord

LEMMA IntoReads ==
  ASSUME NEW p, NEW f, NEW v, NEW l, NEW s, NEW b, NEW take, NEW q, NEW o, Reads(take, b, q, o)
  PROVE  /\ ReadsRecord(Into(EntryRecord(p, f, v, l, s), "flags", take), b, q,
                        EntryRecord(q, o, v, l, s))
         /\ ReadsRecord(Into(EntryRecord(p, f, v, l, s), "vec", take), b, q,
                        EntryRecord(q, f, o, l, s))
         /\ ReadsRecord(Into(EntryRecord(p, f, v, l, s), "payload", take), b, q,
                        EntryRecord(q, f, v, o, s))
         /\ ReadsRecord(Into(EntryRecord(p, f, v, l, s), "scalars", take), b, q,
                        EntryRecord(q, f, v, l, o))
  <1>1. CASE q <= Len(b)
    <2>1. take = Took(q, o)
      BY <1>1 DEF Reads
    <2>2. QED BY <1>1, <2>1, IntoEntry DEF ReadsRecord
  <1>2. CASE ~(q <= Len(b))
    <2>1. take.ok = FALSE
      BY <1>2 DEF Reads
    <2>2. \A field : Into(EntryRecord(p, f, v, l, s), field, take).ok = FALSE
      BY <2>1, IntoEntryFails
    <2>3. QED BY <1>2, <2>2 DEF ReadsRecord
  <1>3. QED BY <1>1, <1>2

\* The flags say which parts are there.
LEMMA FlagsTell ==
  ASSUME NEW m
  PROVE  /\ FlagsOf(m) \in 0 .. 7
         /\ HasFlag(FlagsOf(m), kFlagsVec) <=> m.vec # <<>>
         /\ HasFlag(FlagsOf(m), kFlagsPayload) <=> m.payload # <<>>
         /\ HasFlag(FlagsOf(m), kFlagsScalars) <=> m.scalars # <<>>
  <1>1. ASSUME NEW a \in BOOLEAN, NEW b \in BOOLEAN, NEW c \in BOOLEAN, NEW n,
               n = (IF a THEN 1 ELSE 0) + (IF b THEN 2 ELSE 0) + (IF c THEN 4 ELSE 0)
        PROVE  /\ n \in 0 .. 7
               /\ ((n \div 1) % 2 = 1) <=> a
               /\ ((n \div 2) % 2 = 1) <=> b
               /\ ((n \div 4) % 2 = 1) <=> c
    BY <1>1
  <1>2. QED BY <1>1 DEF FlagsOf, HasFlag, kFlagsVec, kFlagsPayload, kFlagsScalars

LEMMA PartsTypes ==
  ASSUME NEW m, Fits(m)
  PROVE  /\ VecBytes(m) \in Seq(Byte) /\ PayloadBytes(m) \in Seq(Byte)
         /\ ScalarBytes(m) \in Seq(Byte)
         /\ m.vec # <<>> => Len(VecBytes(m)) = 4 + 4 * Len(m.vec)
         /\ m.payload # <<>> => Len(PayloadBytes(m)) = 4 + Len(m.payload)
         /\ m.scalars # <<>> =>
              Len(ScalarBytes(m)) = 2 + Len(Concat(FieldBytes(SortedByName(m.scalars))))
         /\ Concat(FloatBytes(m.vec)) \in Seq(Byte)
         /\ Concat(FieldBytes(SortedByName(m.scalars))) \in Seq(Byte)
  <1> DEFINE vec == m.vec
             load == m.payload
             list == SortedByName(m.scalars)
             vb == Concat(FloatBytes(vec))
             sb == Concat(FieldBytes(list))
  <1>1. /\ vec \in Seq(Floats) /\ load \in Seq(Byte) /\ list \in Seq(Fitting)
        /\ Len(vec) \in Nat /\ Len(load) \in Nat /\ Len(m.scalars) \in Nat
    BY SortedFields DEF Fits
  <1>2. vb \in Seq(Byte) /\ Len(vb) = 4 * Len(vec)
    <2>1. vb = UpTo(FloatBytes(vec), Len(vec))
      BY <1>1, ConcatIs, FloatBytesType
    <2>2. Len(vec) \in 0 .. Len(vec)
      BY <1>1
    <2>3. QED BY <1>1, <2>1, <2>2, FloatsLength
  <1>3. sb \in Seq(Byte)
    <2>1. sb = UpTo(FieldBytes(list), Len(list)) /\ Len(list) \in Nat
      BY <1>1, ConcatIs, FieldBytesType
    <2>2. \A k \in 0 .. Len(list) : UpTo(FieldBytes(list), k) \in Seq(Byte)
      <3>1. \A i \in 1 .. Len(list) : FieldBytes(list)[i] \in Seq(Byte)
        BY <1>1, FieldBytesType
      <3>2. QED BY <2>1, <3>1, UpToType
    <2>3. QED BY <2>1, <2>2
  <1> HIDE DEF vb, sb
  <1>4. /\ Put(Len(vec), 4) \in Seq(Byte) /\ Len(Put(Len(vec), 4)) = 4
        /\ Put(Len(load), 4) \in Seq(Byte) /\ Len(Put(Len(load), 4)) = 4
        /\ Put(Len(m.scalars), 2) \in Seq(Byte) /\ Len(Put(Len(m.scalars), 2)) = 2
    BY <1>1, PutType
  <1>5. /\ Put(Len(vec), 4) \o vb \in Seq(Byte)
        /\ Len(Put(Len(vec), 4) \o vb) = 4 + 4 * Len(vec)
    <2>1. /\ Put(Len(vec), 4) \o vb \in Seq(Byte)
          /\ Len(Put(Len(vec), 4) \o vb) = Len(Put(Len(vec), 4)) + Len(vb)
      BY <1>2, <1>4, Joins
    <2>2. QED BY <1>2, <1>4, <2>1
  <1>6. /\ Put(Len(load), 4) \o load \in Seq(Byte)
        /\ Len(Put(Len(load), 4) \o load) = 4 + Len(load)
    BY <1>1, <1>4, Joins
  <1>7. /\ Put(Len(m.scalars), 2) \o sb \in Seq(Byte)
        /\ Len(Put(Len(m.scalars), 2) \o sb) = 2 + Len(sb)
    BY <1>3, <1>4, Joins
  <1>8. <<>> \in Seq(Byte)
    OBVIOUS
  <1>9. /\ VecBytes(m) \in Seq(Byte)
        /\ m.vec # <<>> => Len(VecBytes(m)) = 4 + 4 * Len(m.vec)
    BY <1>5, <1>8 DEF VecBytes, vb
  <1>10. /\ PayloadBytes(m) \in Seq(Byte)
         /\ m.payload # <<>> => Len(PayloadBytes(m)) = 4 + Len(m.payload)
    BY <1>6, <1>8 DEF PayloadBytes
  <1>11. /\ ScalarBytes(m) \in Seq(Byte)
         /\ m.scalars # <<>> => Len(ScalarBytes(m)) = 2 + Len(sb)
    BY <1>7, <1>8 DEF ScalarBytes, sb
  <1>12. QED BY <1>2, <1>3, <1>9, <1>10, <1>11 DEF vb, sb

\* What encode_entry_meta() returns, and where its parts are.
LEMMA Encoded ==
  ASSUME NEW m, Fits(m)
  PROVE  /\ encode_entry_meta(m).ok
         /\ encode_entry_meta(m).bytes \in Seq(Byte)
         /\ Len(encode_entry_meta(m).bytes) = ScalarEnd(m)
         /\ \A b \in Seq(Byte) :
              At(b, 0, encode_entry_meta(m).bytes) =>
                /\ At(b, 0, Put(FlagsOf(m), 4))
                /\ At(b, 4, VecBytes(m))
                /\ At(b, VecEnd(m), PayloadBytes(m))
                /\ At(b, PayloadEnd(m), ScalarBytes(m))
  <1> DEFINE f == Put(FlagsOf(m), 4)
             v == VecBytes(m)
             l == PayloadBytes(m)
             s == ScalarBytes(m)
  <1>1. encode_entry_meta(m) = [ok |-> TRUE, bytes |-> ((f \o v) \o l) \o s]
    <2>1. ~ \/ Len(m.vec) > kMaxVecLen
            \/ Len(m.payload) > kMaxPayloadLen
            \/ Len(m.scalars) > kMaxScalarCount
            \/ \E i \in 1 .. Len(m.scalars) : FieldTooLong(m.scalars[i])
      <3>1. /\ Len(m.vec) \in Nat /\ Len(m.payload) \in Nat /\ Len(m.scalars) \in Nat
            /\ kMaxVecLen \in Nat /\ kMaxPayloadLen \in Nat /\ kMaxScalarCount \in Nat
        <4>1. Len(m.vec) \in Nat /\ Len(m.payload) \in Nat /\ Len(m.scalars) \in Nat
          BY DEF Fits
        <4>2. kMaxVecLen \in Nat /\ kMaxPayloadLen \in Nat /\ kMaxScalarCount \in Nat
          BY SmallNumbers, EntryMetaAssumption DEF kMaxVecLen, kMaxScalarCount
        <4>3. QED BY <4>1, <4>2
      <3>2. ~(Len(m.vec) > kMaxVecLen) /\ ~(Len(m.payload) > kMaxPayloadLen)
        BY <3>1 DEF Fits
      <3>3. ~(Len(m.scalars) > kMaxScalarCount)
        BY <3>1 DEF Fits
      <3>4. ASSUME NEW i \in 1 .. Len(m.scalars) PROVE ~FieldTooLong(m.scalars[i])
        <4> DEFINE e == m.scalars[i]
        <4>1. e \in Fitting
          BY ElementOfSeq DEF Fits
        <4> HIDE DEF e
        <4>2. e \in [name : Seq(Byte), value : ScalarValues]
          BY <4>1 DEF Fitting, FittingValues
        <4>3. ~FieldTooLong(e)
          BY <4>1, <4>2, FittingFields
        <4>4. QED BY <4>3 DEF e
      <3>5. QED BY <3>2, <3>3, <3>4
    <2>2. QED
      BY <2>1 DEF encode_entry_meta, FlagsOf, VecBytes, PayloadBytes, ScalarBytes,
                  FloatBytes, FieldBytes
  <1>2. f \in Seq(Byte) /\ Len(f) = 4
    <2>1. FlagsOf(m) \in Nat
      BY FlagsTell
    <2>2. QED BY <2>1, PutType
  <1>3. v \in Seq(Byte) /\ l \in Seq(Byte) /\ s \in Seq(Byte)
    BY PartsTypes
  <1> HIDE DEF f, v, l, s
  <1>4. f \o v \in Seq(Byte) /\ Len(f \o v) = VecEnd(m)
    BY <1>2, <1>3, Joins DEF VecEnd, v
  <1>5. (f \o v) \o l \in Seq(Byte) /\ Len((f \o v) \o l) = PayloadEnd(m)
    BY <1>3, <1>4, Joins DEF PayloadEnd, l
  <1>6. ((f \o v) \o l) \o s \in Seq(Byte) /\ Len(((f \o v) \o l) \o s) = ScalarEnd(m)
    BY <1>3, <1>5, Joins DEF ScalarEnd, s
  <1>7. ASSUME NEW b \in Seq(Byte), At(b, 0, ((f \o v) \o l) \o s)
        PROVE  At(b, 0, f) /\ At(b, 4, v) /\ At(b, VecEnd(m), l) /\ At(b, PayloadEnd(m), s)
    <2>1. At(b, 0, (f \o v) \o l) /\ At(b, 0 + PayloadEnd(m), s)
      BY <1>3, <1>5, <1>7, AtFirst
    <2>2. At(b, 0, f \o v) /\ At(b, 0 + VecEnd(m), l)
      BY <1>3, <1>4, <2>1, AtFirst
    <2>3. At(b, 0, f) /\ At(b, 0 + 4, v)
      BY <1>2, <1>3, <2>2, AtFirst
    <2>4. Len(f \o v) \in Nat /\ Len((f \o v) \o l) \in Nat
      BY <1>4, <1>5
    <2>5. 0 + PayloadEnd(m) = PayloadEnd(m) /\ 0 + VecEnd(m) = VecEnd(m) /\ 0 + 4 = 4
      BY <1>4, <1>5, <2>4
    <2>6. QED BY <2>1, <2>2, <2>3, <2>5
  <1>8. QED BY <1>1, <1>6, <1>7 DEF f, v, l, s

LEMMA Ends ==
  ASSUME NEW m, Fits(m)
  PROVE  /\ VecEnd(m) \in Nat /\ PayloadEnd(m) \in Nat /\ ScalarEnd(m) \in Nat
         /\ 4 <= VecEnd(m) /\ VecEnd(m) <= PayloadEnd(m) /\ PayloadEnd(m) <= ScalarEnd(m)
  <1>1. /\ Len(VecBytes(m)) \in Nat /\ Len(PayloadBytes(m)) \in Nat
        /\ Len(ScalarBytes(m)) \in Nat
    BY PartsTypes
  <1>2. VecEnd(m) \in Nat /\ 4 <= VecEnd(m)
    BY <1>1 DEF VecEnd
  <1>3. PayloadEnd(m) \in Nat /\ VecEnd(m) <= PayloadEnd(m)
    BY <1>1, <1>2 DEF PayloadEnd
  <1>4. ScalarEnd(m) \in Nat /\ PayloadEnd(m) <= ScalarEnd(m)
    BY <1>1, <1>3 DEF ScalarEnd
  <1>5. QED BY <1>2, <1>3, <1>4

LEMMA FlagsRead ==
  ASSUME NEW m, Fits(m), NEW b \in Seq(Byte), At(b, 0, encode_entry_meta(m).bytes)
  PROVE  ReadsRecord(take_flags(b), b, 4, EntryRecord(4, FlagsOf(m), <<>>, <<>>, <<>>))
  <1> DEFINE take == take_number(b, 0, 4)
             start == EntryRecord(0, 0, <<>>, <<>>, <<>>)
  <1>1. take_flags(b) = Into(start, "flags", take)
    BY DEF take_flags, EntryRecord
  <1>2. Reads(take, b, 4, FlagsOf(m))
    <2>1. FlagsOf(m) \in Nat /\ FlagsOf(m) < Weight(4)
      <3>1. FlagsOf(m) \in Nat /\ FlagsOf(m) <= 7
        BY FlagsTell
      <3>2. QED BY <3>1, SmallNumbers
    <2>2. At(b, 0, Put(FlagsOf(m), 4))
      BY Encoded
    <2>3. Reads(take, b, 0 + 4, FlagsOf(m))
      BY <2>1, <2>2, TakeNumber
    <2>4. QED BY <2>3
  <1> HIDE DEF take
  <1>3. ReadsRecord(Into(start, "flags", take), b, 4, EntryRecord(4, FlagsOf(m), <<>>, <<>>, <<>>))
    BY <1>2, IntoReads
  <1>4. QED BY <1>1, <1>3

LEMMA VecRead ==
  ASSUME NEW m, Fits(m), NEW b \in Seq(Byte), At(b, 0, encode_entry_meta(m).bytes), NEW r,
         ReadsRecord(r, b, 4, EntryRecord(4, FlagsOf(m), <<>>, <<>>, <<>>))
  PROVE  ReadsRecord(take_vec(b, r), b, VecEnd(m),
                     EntryRecord(VecEnd(m), FlagsOf(m), m.vec, <<>>, <<>>))
  <1> DEFINE take == FloatsAfter(b, take_number(b, 4, 4), kMaxVecLen)
             f == FlagsOf(m)
             end == VecEnd(m)
  <1>0. Len(b) \in Nat /\ end \in Nat /\ 4 <= end
    BY Ends
  <1>1. HasFlag(f, kFlagsVec) <=> m.vec # <<>>
    BY FlagsTell
  <1>2. m.vec # <<>> => Reads(take, b, end, m.vec)
    <2> SUFFICES ASSUME m.vec # <<>> PROVE Reads(take, b, end, m.vec)
      OBVIOUS
    <2>1. /\ m.vec \in Seq(Floats) /\ Len(m.vec) \in Nat /\ Len(m.vec) <= kMaxVecLen
          /\ Len(m.vec) < Weight(4)
      BY SmallNumbers DEF Fits, kMaxVecLen
    <2>2. At(b, 4, VecBytes(m)) /\ VecBytes(m) = Put(Len(m.vec), 4) \o Concat(FloatBytes(m.vec))
      BY Encoded DEF VecBytes
    <2>3. /\ Put(Len(m.vec), 4) \in Seq(Byte) /\ Len(Put(Len(m.vec), 4)) = 4
          /\ Concat(FloatBytes(m.vec)) \in Seq(Byte)
      BY <2>1, PutType, PartsTypes
    <2>4. At(b, 4, Put(Len(m.vec), 4)) /\ At(b, 4 + 4, Concat(FloatBytes(m.vec)))
      <3>1. At(b, 4, Put(Len(m.vec), 4) \o Concat(FloatBytes(m.vec)))
        BY <2>2
      <3>2. /\ At(b, 4, Put(Len(m.vec), 4))
            /\ At(b, 4 + Len(Put(Len(m.vec), 4)), Concat(FloatBytes(m.vec)))
        BY <2>3, <3>1, AtFirst
      <3>3. QED BY <2>3, <3>2
    <2>5. Reads(take, b, 4 + 4 + 4 * Len(m.vec), m.vec)
      BY <2>1, <2>4, TakeFloats
    <2>6. end = 4 + 4 + 4 * Len(m.vec)
      <3>1. Len(VecBytes(m)) = 4 + 4 * Len(m.vec)
        BY PartsTypes
      <3>2. QED BY <2>1, <3>1 DEF VecEnd
    <2>7. QED BY <2>5, <2>6
  <1>3. m.vec = <<>> => end = 4
    BY DEF VecEnd, VecBytes
  <1> HIDE DEF take, f, end
  <1>4. CASE 4 <= Len(b)
    <2>1. r = EntryRecord(4, f, <<>>, <<>>, <<>>)
      BY <1>4 DEF ReadsRecord, f
    <2>2. r.ok /\ r.pos = 4 /\ r.flags = f
      BY <2>1 DEF EntryRecord
    <2>3. CASE m.vec # <<>>
      <3>1. take_vec(b, r) = Into(r, "vec", take)
        BY <1>1, <2>2, <2>3 DEF take_vec, take
      <3>2. ReadsRecord(Into(EntryRecord(4, f, <<>>, <<>>, <<>>), "vec", take), b, end,
                        EntryRecord(end, f, m.vec, <<>>, <<>>))
        BY <1>2, <2>3, IntoReads
      <3>3. QED BY <2>1, <3>1, <3>2 DEF f, end
    <2>4. CASE m.vec = <<>>
      <3>1. take_vec(b, r) = r
        BY <1>1, <2>2, <2>4 DEF take_vec
      <3>2. QED BY <1>3, <1>4, <2>1, <2>4, <3>1 DEF ReadsRecord, f, end
    <2>5. QED BY <2>3, <2>4
  <1>5. CASE ~(4 <= Len(b))
    <2>1. r.ok = FALSE
      BY <1>5 DEF ReadsRecord
    <2>2. take_vec(b, r) = r
      BY <2>1 DEF take_vec
    <2>3. ~(end <= Len(b))
      BY <1>0, <1>5
    <2>4. QED BY <2>1, <2>2, <2>3 DEF ReadsRecord, end
  <1>6. QED BY <1>4, <1>5

LEMMA PayloadRead ==
  ASSUME NEW m, Fits(m), NEW b \in Seq(Byte), At(b, 0, encode_entry_meta(m).bytes), NEW r,
         ReadsRecord(r, b, VecEnd(m), EntryRecord(VecEnd(m), FlagsOf(m), m.vec, <<>>, <<>>))
  PROVE  ReadsRecord(take_payload(b, r), b, PayloadEnd(m),
                     EntryRecord(PayloadEnd(m), FlagsOf(m), m.vec, m.payload, <<>>))
  <1> DEFINE take == take_text(b, VecEnd(m), 4, kMaxPayloadLen)
             f == FlagsOf(m)
             from == VecEnd(m)
             end == PayloadEnd(m)
             load == m.payload
  <1>0. Len(b) \in Nat /\ from \in Nat /\ end \in Nat /\ from <= end
    BY Ends
  <1>1. HasFlag(f, kFlagsPayload) <=> load # <<>>
    BY FlagsTell
  <1>2. load # <<>> => Reads(take, b, end, load)
    <2> SUFFICES ASSUME load # <<>> PROVE Reads(take, b, end, load)
      OBVIOUS
    <2>1. /\ load \in Seq(Byte) /\ Len(load) \in Nat /\ Len(load) <= kMaxPayloadLen
          /\ Len(load) < Weight(4)
      BY SmallNumbers, EntryMetaAssumption DEF Fits
    <2>2. At(b, from, Put(Len(load), 4) \o load)
      BY Encoded DEF PayloadBytes
    <2>3. Put(Len(load), 4) \in Seq(Byte) /\ Len(Put(Len(load), 4)) = 4
      BY <2>1, PutType
    <2>4. Len(PayloadBytes(m)) = 4 + Len(load)
      BY PartsTypes
    <2> HIDE DEF load
    <2>5. At(b, from, Put(Len(load), 4)) /\ At(b, from + 4, load)
      <3>1. At(b, from, Put(Len(load), 4)) /\ At(b, from + Len(Put(Len(load), 4)), load)
        BY <2>1, <2>2, <2>3, AtFirst
      <3>2. QED BY <2>3, <3>1
    <2>6. Reads(take, b, from + 4 + Len(load), load)
      BY <2>1, <2>5, TakeText
    <2>7. end = from + 4 + Len(load)
      BY <1>0, <2>1, <2>4 DEF PayloadEnd
    <2>8. QED BY <2>6, <2>7
  <1>3. load = <<>> => end = from
    BY <1>0 DEF PayloadEnd, PayloadBytes
  <1> HIDE DEF take, f, from, end
  <1>4. CASE from <= Len(b)
    <2>1. r = EntryRecord(from, f, m.vec, <<>>, <<>>)
      BY <1>4 DEF ReadsRecord, f, from
    <2>2. r.ok /\ r.pos = from /\ r.flags = f
      BY <2>1 DEF EntryRecord
    <2>3. CASE load # <<>>
      <3>1. take_payload(b, r) = Into(r, "payload", take)
        BY <1>1, <2>2, <2>3 DEF take_payload, take, from
      <3>2. ReadsRecord(Into(EntryRecord(from, f, m.vec, <<>>, <<>>), "payload", take), b, end,
                        EntryRecord(end, f, m.vec, load, <<>>))
        BY <1>2, <2>3, IntoReads
      <3>3. QED BY <2>1, <3>1, <3>2 DEF f, end
    <2>4. CASE load = <<>>
      <3>1. take_payload(b, r) = r
        BY <1>1, <2>2, <2>4 DEF take_payload
      <3>2. QED BY <1>3, <1>4, <2>1, <2>4, <3>1 DEF ReadsRecord, f, end
    <2>5. QED BY <2>3, <2>4
  <1>5. CASE ~(from <= Len(b))
    <2>1. r.ok = FALSE
      BY <1>5 DEF ReadsRecord, from
    <2>2. take_payload(b, r) = r
      BY <2>1 DEF take_payload
    <2>3. ~(end <= Len(b))
      BY <1>0, <1>5
    <2>4. QED BY <2>1, <2>2, <2>3 DEF ReadsRecord, end
  <1>6. QED BY <1>4, <1>5

LEMMA ScalarsRead ==
  ASSUME NEW m, Fits(m), NEW b \in Seq(Byte), At(b, 0, encode_entry_meta(m).bytes), NEW r,
         ReadsRecord(r, b, PayloadEnd(m),
                     EntryRecord(PayloadEnd(m), FlagsOf(m), m.vec, m.payload, <<>>))
  PROVE  ReadsRecord(take_scalars(b, r), b, ScalarEnd(m),
                     EntryRecord(ScalarEnd(m), FlagsOf(m), m.vec, m.payload,
                                 SortedByName(m.scalars)))
  <1> DEFINE take == FieldsAfter(b, take_number(b, PayloadEnd(m), 2))
             f == FlagsOf(m)
             from == PayloadEnd(m)
             end == ScalarEnd(m)
             list == SortedByName(m.scalars)
             fb == Concat(FieldBytes(list))
  <1>0. Len(b) \in Nat /\ from \in Nat /\ end \in Nat /\ from <= end
    BY Ends
  <1>1. HasFlag(f, kFlagsScalars) <=> m.scalars # <<>>
    BY FlagsTell
  <1>2. list \in Seq(Fitting) /\ Len(list) = Len(m.scalars) /\ Len(list) \in Nat
    BY SortedFields DEF Fits
  <1>3. m.scalars # <<>> => Reads(take, b, end, list)
    <2> SUFFICES ASSUME m.scalars # <<>> PROVE Reads(take, b, end, list)
      OBVIOUS
    <2>1. Len(list) < Weight(2)
      BY <1>2 DEF Fits, kMaxScalarCount
    <2>2. At(b, from, Put(Len(list), 2) \o fb)
      <3>1. At(b, from, ScalarBytes(m)) /\ ScalarBytes(m) = Put(Len(m.scalars), 2) \o fb
        BY Encoded DEF ScalarBytes
      <3>2. QED BY <1>2, <3>1
    <2>3. Put(Len(list), 2) \in Seq(Byte) /\ Len(Put(Len(list), 2)) = 2 /\ fb \in Seq(Byte)
      BY <1>2, PutType, PartsTypes
    <2>4. Len(ScalarBytes(m)) = 2 + Len(fb) /\ Len(fb) \in Nat
      BY <2>3, PartsTypes
    <2> HIDE DEF fb
    <2>5. At(b, from, Put(Len(list), 2)) /\ At(b, from + 2, fb)
      <3>1. At(b, from, Put(Len(list), 2)) /\ At(b, from + Len(Put(Len(list), 2)), fb)
        BY <2>2, <2>3, AtFirst
      <3>2. QED BY <2>3, <3>1
    <2> HIDE DEF list, from
    <2>6. Reads(FieldsAfter(b, take_number(b, from, 2)), b, from + 2 + Len(fb), list)
      BY <1>2, <2>1, <2>5, TakeFields DEF fb
    <2>7. end = from + 2 + Len(fb)
      BY <1>0, <2>4 DEF ScalarEnd, from
    <2>8. QED BY <2>6, <2>7 DEF from
  <1>4. m.scalars = <<>> => end = from /\ list = <<>>
    <2>1. m.scalars = <<>> => end = from
      BY <1>0 DEF ScalarEnd, ScalarBytes
    <2>2. m.scalars = <<>> => list = <<>>
      BY <1>2
    <2>3. QED BY <2>1, <2>2
  <1> HIDE DEF take, f, from, end, list
  <1>5. CASE from <= Len(b)
    <2>1. r = EntryRecord(from, f, m.vec, m.payload, <<>>)
      BY <1>5 DEF ReadsRecord, f, from
    <2>2. r.ok /\ r.pos = from /\ r.flags = f
      BY <2>1 DEF EntryRecord
    <2>3. CASE m.scalars # <<>>
      <3>1. take_scalars(b, r) = Into(r, "scalars", take)
        BY <1>1, <2>2, <2>3 DEF take_scalars, take, from
      <3>2. ReadsRecord(Into(EntryRecord(from, f, m.vec, m.payload, <<>>), "scalars", take),
                        b, end, EntryRecord(end, f, m.vec, m.payload, list))
        BY <1>3, <2>3, IntoReads
      <3>3. QED BY <2>1, <3>1, <3>2 DEF f, end, list
    <2>4. CASE m.scalars = <<>>
      <3>1. take_scalars(b, r) = r
        BY <1>1, <2>2, <2>4 DEF take_scalars
      <3>2. QED BY <1>4, <1>5, <2>1, <2>4, <3>1 DEF ReadsRecord, f, end, list
    <2>5. QED BY <2>3, <2>4
  <1>6. CASE ~(from <= Len(b))
    <2>1. r.ok = FALSE
      BY <1>6 DEF ReadsRecord, from
    <2>2. take_scalars(b, r) = r
      BY <2>1 DEF take_scalars
    <2>3. ~(end <= Len(b))
      BY <1>0, <1>6
    <2>4. QED BY <2>1, <2>2, <2>3 DEF ReadsRecord, end
  <1>7. QED BY <1>5, <1>6

ReadBack(m) == [vec |-> m.vec, payload |-> m.payload, scalars |-> SortedByName(m.scalars)]

\* What decode_entry_meta() makes of bytes that agree with an encoded entry as
\* far as they reach: it accepts them when they are just as long.
LEMMA Decoding ==
  ASSUME NEW m, Fits(m), NEW b \in Seq(Byte), At(b, 0, encode_entry_meta(m).bytes)
  PROVE  decode_entry_meta(b) = IF Len(b) = ScalarEnd(m)
                                THEN [ok |-> TRUE, meta |-> ReadBack(m)]
                                ELSE [ok |-> FALSE]
  <1> DEFINE r1 == take_flags(b)
             r2 == take_vec(b, r1)
             r3 == take_payload(b, r2)
             r4 == take_scalars(b, r3)
             end == ScalarEnd(m)
             list == SortedByName(m.scalars)
             whole == EntryRecord(end, FlagsOf(m), m.vec, m.payload, list)
  <1>1. ReadsRecord(r1, b, 4, EntryRecord(4, FlagsOf(m), <<>>, <<>>, <<>>))
    BY FlagsRead
  <1> HIDE DEF r1
  <1>2. ReadsRecord(r2, b, VecEnd(m), EntryRecord(VecEnd(m), FlagsOf(m), m.vec, <<>>, <<>>))
    BY <1>1, VecRead
  <1> HIDE DEF r2
  <1>3. ReadsRecord(r3, b, PayloadEnd(m),
                    EntryRecord(PayloadEnd(m), FlagsOf(m), m.vec, m.payload, <<>>))
    BY <1>2, PayloadRead
  <1> HIDE DEF r3
  <1>4. ReadsRecord(r4, b, end, whole)
    BY <1>3, ScalarsRead
  <1> HIDE DEF r4
  <1>5. decode_entry_meta(b) = EntryRead(b, r4)
    BY DEF decode_entry_meta, r4, r3, r2, r1
  <1>6. Len(b) \in Nat /\ end \in Nat
    BY Ends
  <1>7. FlagsOf(m) < 2 * kFlagsScalars
    <2>1. FlagsOf(m) \in 0 .. 7
      BY FlagsTell
    <2>2. QED BY <2>1 DEF kFlagsScalars
  <1> HIDE DEF end, list
  <1>8. CASE end <= Len(b)
    <2>1. r4 = whole
      BY <1>4, <1>8 DEF ReadsRecord
    <2>2. /\ r4.ok = TRUE /\ r4.pos = end /\ r4.flags = FlagsOf(m) /\ r4.vec = m.vec
          /\ r4.payload = m.payload /\ r4.scalars = list
      BY <2>1 DEF EntryRecord
    <2>3. CASE Len(b) = end
      <3>1. EntryRead(b, r4) = [ok |-> TRUE, meta |-> ReadBack(m)]
        BY <1>7, <2>2, <2>3 DEF EntryRead, Whole, ReadBack, list
      <3>2. QED BY <1>5, <2>3, <3>1 DEF end
    <2>4. CASE Len(b) # end
      <3>1. EntryRead(b, r4) = [ok |-> FALSE]
        BY <2>2, <2>4 DEF EntryRead, Whole
      <3>2. QED BY <1>5, <2>4, <3>1 DEF end
    <2>5. QED BY <2>3, <2>4
  <1>9. CASE ~(end <= Len(b))
    <2>1. r4.ok = FALSE
      BY <1>4, <1>9 DEF ReadsRecord
    <2>2. EntryRead(b, r4) = [ok |-> FALSE]
      BY <2>1 DEF EntryRead
    <2>3. Len(b) # end
      BY <1>6, <1>9
    <2>4. QED BY <1>5, <2>2, <2>3 DEF end
  <1>10. QED BY <1>8, <1>9

(***************************************************************************)
(* The stored entries                                                      *)
(***************************************************************************)
\* The count of scalars is written as 16 bits, and encode_entry_meta() lets a
\* list through whose length is the first number that does not fit.
CountsFit == \A s \in ScalarSeqs : Len(s) < kMaxScalarCount

\* Every stored entry is the encoding of the one given.
StoredInv ==
  /\ dim \in Dims
  /\ stored \in [Ids -> Seq(Byte) \cup {NoMeta}]
  /\ DOMAIN given = Ids
  /\ \A i \in Live : /\ given[i] \in Metas(dim)
                     /\ Fits(given[i])
                     /\ stored[i] = encode_entry_meta(given[i]).bytes

\* The filter index knows of every live id the scalars it was given.
FilterInv ==
  /\ all_ids = Live
  /\ bits = [s \in Scalars |-> {i \in Live : s \in ScalarSet(given[i].scalars)}]
  /\ \A i \in Live : \A s \in ScalarSet(given[i].scalars) : s.name \in fields

\* What encode_entry_meta() lets through fits into the layout.
LEMMA AcceptedFits ==
  ASSUME CountsFit, NEW d \in Dims, NEW m \in Metas(d), encode_entry_meta(m).ok
  PROVE  Fits(m)
  <1>1. /\ d \in Nat /\ m.vec \in [1 .. d -> Numbers] /\ m.payload \in Payloads
        /\ m.scalars \in ScalarSeqs
    BY StoredEntriesAssumption DEF Metas
  <1>2. ~ \/ Len(m.vec) > kMaxVecLen
          \/ Len(m.payload) > kMaxPayloadLen
          \/ Len(m.scalars) > kMaxScalarCount
          \/ \E i \in 1 .. Len(m.scalars) : FieldTooLong(m.scalars[i])
    BY DEF encode_entry_meta, Refused
  <1>3. m.vec \in Seq(Floats)
    <2> DEFINE v == m.vec
    <2>1. v \in [1 .. d -> Numbers] /\ Numbers \subseteq Floats
      BY <1>1, StoredEntriesAssumption DEF Floats
    <2> HIDE DEF v
    <2>2. v \in [1 .. d -> Floats]
      BY <2>1
    <2>3. v \in Seq(Floats)
      BY <1>1, <2>2
    <2>4. QED BY <2>3 DEF v
  <1>4. /\ m.payload \in Seq(Byte) /\ m.scalars \in Seq(Scalars)
        /\ Len(m.payload) \in Nat /\ Len(m.scalars) \in Nat /\ Len(m.vec) \in Nat
    BY <1>1, <1>3, StoredEntriesAssumption
  <1>5. /\ kMaxVecLen \in Nat /\ kMaxPayloadLen \in Nat /\ kMaxScalarCount \in Nat
        /\ Weight(2) \in Nat
    BY SmallNumbers, EntryMetaAssumption DEF kMaxVecLen, kMaxScalarCount
  <1>6. Len(m.vec) <= kMaxVecLen
    BY <1>2, <1>4, <1>5
  <1>7. Len(m.payload) <= kMaxPayloadLen
    BY <1>2, <1>4, <1>5
  <1>8. Len(m.scalars) < kMaxScalarCount
    BY <1>1 DEF CountsFit
  <1>9. ASSUME NEW i \in 1 .. Len(m.scalars) PROVE m.scalars[i] \in Fitting
    <2> DEFINE e == m.scalars[i]
    <2>1. e \in Scalars
      BY <1>4, ElementOfSeq
    <2>2. ~FieldTooLong(e)
      BY <1>2
    <2> HIDE DEF e
    <2>3. e \in [name : Seq(Byte), value : ScalarValues]
      BY <2>1, StoredEntriesAssumption DEF Scalars
    <2>4. e \in Fitting
      BY <2>2, <2>3, FittingFields
    <2>5. QED BY <2>4 DEF e
  <1>10. m.scalars \in Seq(Fitting)
    <2> DEFINE s == m.scalars
    <2>1. s \in Seq(Scalars) /\ \A i \in 1 .. Len(s) : s[i] \in Fitting
      BY <1>4, <1>9
    <2> HIDE DEF s
    <2>2. s \in Seq(Fitting)
      BY <2>1
    <2>3. QED BY <2>2 DEF s
  <1>11. QED BY <1>3, <1>4, <1>6, <1>7, <1>8, <1>10 DEF Fits

\* Bytes as they were written.
LEMMA AtItself ==
  ASSUME NEW x \in Seq(Byte)
  PROVE  At(x, 0, x)
  BY DEF At

\* A live entry is read back as it was given, and its scalars are the same.
LEMMA ReadsBack ==
  ASSUME StoredInv, NEW i \in Live
  PROVE  /\ Decoded(i).ok /\ Decoded(i).meta = ReadBack(given[i])
         /\ ~Refuses(i)
         /\ DecodedScalars(i) = ScalarSet(given[i].scalars)
  <1> DEFINE m == given[i]
             b == encode_entry_meta(m).bytes
  <1>1. /\ i \in Ids /\ dim \in Nat /\ m \in Metas(dim) /\ Fits(m) /\ stored[i] = b
    BY StoredEntriesAssumption DEF StoredInv, Live
  <1>2. b \in Seq(Byte) /\ Len(b) = ScalarEnd(m)
    BY <1>1, Encoded
  <1>3. At(b, 0, encode_entry_meta(m).bytes)
    BY <1>2, AtItself
  <1>4. decode_entry_meta(b) = [ok |-> TRUE, meta |-> ReadBack(m)]
    BY <1>1, <1>2, <1>3, Decoding
  <1> HIDE DEF b
  <1>5. Decoded(i).ok /\ Decoded(i).meta = ReadBack(m)
    BY <1>1, <1>4 DEF Decoded
  <1>6. Decoded(i).meta.vec = m.vec /\ Decoded(i).meta.scalars = SortedByName(m.scalars)
    BY <1>5 DEF ReadBack
  <1>7. Len(m.vec) = dim
    <2>1. m.vec \in [1 .. dim -> Numbers]
      BY <1>1 DEF Metas
    <2>2. m.vec \in Seq(Numbers) /\ Len(m.vec) = dim
      BY <1>1, <2>1
    <2>3. QED BY <2>2
  <1>8. ~Refuses(i)
    BY <1>5, <1>6, <1>7 DEF Refuses
  <1>9. DecodedScalars(i) = ScalarSet(m.scalars)
    <2>1. m.scalars \in Seq(Fitting)
      BY <1>1 DEF Fits
    <2>2. ScalarSet(SortedByName(m.scalars)) = ScalarSet(m.scalars)
      BY <2>1, SortedFields
    <2>3. QED BY <1>6, <2>2 DEF DecodedScalars
  <1>10. QED BY <1>5, <1>8, <1>9

LEMMA StoredInit ==
  ASSUME Init
  PROVE  StoredInv
  BY DEF Init, StoredInv, Live

LEMMA StoreKeepsStored ==
  ASSUME CountsFit, StoredInv, NEW i \in Ids, NEW m \in Metas(dim), Store(i, m)
  PROVE  StoredInv'
  <1> DEFINE b == encode_entry_meta(m).bytes
  <1>1. /\ encode_entry_meta(m).ok /\ dim' = dim /\ dim \in Dims
        /\ stored' = [stored EXCEPT ![i] = b] /\ given' = [given EXCEPT ![i] = m]
    BY DEF Store, StoredInv
  <1>2. Fits(m) /\ b \in Seq(Byte)
    <2>1. Fits(m)
      BY <1>1, AcceptedFits
    <2>2. QED BY <2>1, Encoded
  <1> HIDE DEF b
  <1>3. stored' \in [Ids -> Seq(Byte) \cup {NoMeta}] /\ DOMAIN given' = Ids
    BY <1>1, <1>2 DEF StoredInv
  <1>4. stored'[i] = b /\ given'[i] = m /\ \A j \in Ids \ {i} : stored'[j] = stored[j] /\ given'[j] = given[j]
    BY <1>1 DEF StoredInv
  <1>5. ASSUME NEW j \in Live'
        PROVE  given'[j] \in Metas(dim') /\ Fits(given'[j])
               /\ stored'[j] = encode_entry_meta(given'[j]).bytes
    <2>1. CASE j = i
      BY <1>1, <1>2, <1>4, <2>1 DEF b
    <2>2. CASE j # i
      <3>1. j \in Live /\ stored'[j] = stored[j] /\ given'[j] = given[j]
        BY <1>4, <1>5, <2>2 DEF Live
      <3>2. QED BY <1>1, <3>1 DEF StoredInv
    <2>3. QED BY <2>1, <2>2
  <1>6. QED BY <1>1, <1>3, <1>5 DEF StoredInv

LEMMA RemoveKeepsStored ==
  ASSUME StoredInv, NEW i \in Ids, Remove(i)
  PROVE  StoredInv'
  <1>1. /\ dim' = dim /\ stored' = [stored EXCEPT ![i] = NoMeta]
        /\ given' = [given EXCEPT ![i] = NoMeta]
    BY DEF Remove
  <1>2. /\ stored' \in [Ids -> Seq(Byte) \cup {NoMeta}] /\ DOMAIN given' = Ids
        /\ stored'[i] = NoMeta
        /\ \A j \in Ids \ {i} : stored'[j] = stored[j] /\ given'[j] = given[j]
    BY <1>1 DEF StoredInv
  <1>3. ASSUME NEW j \in Live'
        PROVE  j \in Live /\ stored'[j] = stored[j] /\ given'[j] = given[j]
    BY <1>2, <1>3 DEF Live
  <1>4. QED BY <1>1, <1>2, <1>3 DEF StoredInv

LEMMA StoredStep ==
  ASSUME CountsFit, StoredInv, [Next]_vars
  PROVE  StoredInv'
  <1>1. ASSUME NEW i \in Ids, NEW m \in Metas(dim), Store(i, m) PROVE StoredInv'
    BY <1>1, StoreKeepsStored
  <1>2. ASSUME NEW i \in Ids, Remove(i) PROVE StoredInv'
    BY <1>2, RemoveKeepsStored
  <1>3. CASE Reopen
    <2>1. dim' = dim /\ stored' = stored /\ given' = given
      BY <1>3 DEF Reopen
    <2>2. QED BY <2>1 DEF StoredInv, Live
  <1>4. CASE UNCHANGED vars
    <2>1. dim' = dim /\ stored' = stored /\ given' = given
      BY <1>4 DEF vars
    <2>2. QED BY <2>1 DEF StoredInv, Live
  <1>5. QED BY <1>1, <1>2, <1>3, <1>4 DEF Next

\* Every live entry is stored as encode_entry_meta() wrote it, and it fits into
\* the widths of the layout (entry_meta.cpp).
THEOREM EntriesAreEncoded ==
  ASSUME CountsFit
  PROVE  Spec => []StoredInv
  <1>1. Init => StoredInv
    BY StoredInit
  <1>2. StoredInv /\ [Next]_vars => StoredInv'
    BY StoredStep
  <1>3. QED BY <1>1, <1>2, PTL DEF Spec

\* decode_entry_meta() gives back the vector, the payload and the scalars that
\* encode_entry_meta() was given, these in the order of their names.
THEOREM EntriesAreReadBack ==
  ASSUME CountsFit
  PROVE  Spec => []DecodeInvertsEncode
  <1>1. StoredInv => DecodeInvertsEncode
    <2> SUFFICES ASSUME StoredInv, NEW i \in Live
                 PROVE  /\ Decoded(i).ok
                        /\ Decoded(i).meta.vec = given[i].vec
                        /\ Decoded(i).meta.payload = given[i].payload
                        /\ LET read == Decoded(i).meta.scalars
                               gave == given[i].scalars
                           IN  /\ Len(read) = Len(gave)
                               /\ ScalarSet(read) = ScalarSet(gave)
                               /\ \A k \in 1 .. Len(read) - 1 :
                                    ~NameLess(read[k + 1].name, read[k].name)
      BY DEF DecodeInvertsEncode
    <2> DEFINE list == SortedByName(given[i].scalars)
    <2>1. Decoded(i).ok /\ Decoded(i).meta = ReadBack(given[i])
      BY ReadsBack
    <2>2. /\ Decoded(i).meta.vec = given[i].vec /\ Decoded(i).meta.payload = given[i].payload
          /\ Decoded(i).meta.scalars = list
      BY <2>1 DEF ReadBack
    <2>3. given[i].scalars \in Seq(Fitting)
      BY DEF StoredInv, Fits
    <2>4. /\ Len(list) = Len(given[i].scalars)
          /\ ScalarSet(list) = ScalarSet(given[i].scalars)
          /\ Ordered(list)
      BY <2>3, SortedFields
    <2> HIDE DEF list
    <2>5. \A k \in 1 .. Len(list) - 1 : ~NameLess(list[k + 1].name, list[k].name)
      BY <2>4 DEF Ordered
    <2>6. QED BY <2>1, <2>2, <2>4, <2>5
  <1>2. Spec => []StoredInv
    BY EntriesAreEncoded
  <1>3. QED BY <1>1, <1>2, PTL

\* decode_entry_meta() refuses every proper prefix of a stored entry and every
\* stored entry with a byte behind it (entry_meta.cpp, Reader and the check for
\* trailing bytes).
THEOREM PartsAreRefused ==
  ASSUME CountsFit
  PROVE  Spec => []DecodeIsStrict
  <1>1. StoredInv => DecodeIsStrict
    <2> SUFFICES ASSUME StoredInv, NEW i \in Live
                 PROVE  /\ \A n \in 0 .. Len(stored[i]) - 1 :
                             ~decode_entry_meta(SubSeq(stored[i], 1, n)).ok
                        /\ \A x \in 0 .. Base - 1 :
                             ~decode_entry_meta(Append(stored[i], x)).ok
      BY DEF DecodeIsStrict
    <2> DEFINE m == given[i]
               s == encode_entry_meta(m).bytes
    <2>1. Fits(m) /\ stored[i] = s
      BY DEF StoredInv
    <2>2. s \in Seq(Byte) /\ Len(s) = ScalarEnd(m) /\ Len(s) \in Nat
      BY <2>1, Encoded
    <2>3. ASSUME NEW b \in Seq(Byte), At(b, 0, s), Len(b) # Len(s)
          PROVE  ~decode_entry_meta(b).ok
      <3>1. decode_entry_meta(b) = [ok |-> FALSE]
        BY <2>1, <2>2, <2>3, Decoding
      <3>2. QED BY <3>1
    <2> HIDE DEF s
    <2>4. ASSUME NEW n \in 0 .. Len(s) - 1 PROVE ~decode_entry_meta(SubSeq(s, 1, n)).ok
      <3> DEFINE b == SubSeq(s, 1, n)
      <3>1. b \in Seq(Byte) /\ Len(b) = n /\ \A j \in 1 .. n : b[j] = s[j]
        BY <2>2
      <3> HIDE DEF b
      <3>2. At(b, 0, s) /\ Len(b) # Len(s)
        BY <2>2, <3>1 DEF At
      <3>3. ~decode_entry_meta(b).ok
        BY <2>3, <3>1, <3>2
      <3>4. QED BY <3>3 DEF b
    <2>5. ASSUME NEW x \in 0 .. Base - 1 PROVE ~decode_entry_meta(Append(s, x)).ok
      <3> DEFINE b == Append(s, x)
      <3>1. b \in Seq(Byte) /\ Len(b) = Len(s) + 1 /\ \A j \in 1 .. Len(s) : b[j] = s[j]
        BY <2>2 DEF Byte
      <3> HIDE DEF b
      <3>2. At(b, 0, s) /\ Len(b) # Len(s)
        BY <2>2, <3>1 DEF At
      <3>3. ~decode_entry_meta(b).ok
        BY <2>3, <3>1, <3>2
      <3>4. QED BY <3>3 DEF b
    <2>6. QED BY <2>1, <2>4, <2>5
  <1>2. Spec => []StoredInv
    BY EntriesAreEncoded
  <1>3. QED BY <1>1, <1>2, PTL

(***************************************************************************)
(* The filter index over the stored entries                                *)
(***************************************************************************)
ScalarsOf(i) == ScalarSet(given[i].scalars)

LEMMA GivenScalars ==
  ASSUME StoredInv, NEW i \in Live
  PROVE  ScalarsOf(i) \subseteq Scalars
  <1> DEFINE s == given[i].scalars
  <1>1. s \in Seq(Scalars)
    BY StoredEntriesAssumption DEF StoredInv, Metas
  <1> HIDE DEF s
  <1>2. \A k \in 1 .. Len(s) : s[k] \in Scalars
    BY <1>1, ElementOfSeq
  <1>3. QED BY <1>2 DEF ScalarsOf, ScalarSet, s

LEMMA FilterInitially ==
  ASSUME Init
  PROVE  FilterInv
  BY DEF Init, FilterInit, FilterInv, Live

LEMMA StoreKeepsFilter ==
  ASSUME CountsFit, ~AddsTwice, StoredInv, FilterInv, NEW i \in Ids, NEW m \in Metas(dim),
         Store(i, m)
  PROVE  FilterInv'
  <1> DEFINE b == encode_entry_meta(m).bytes
             S == ScalarSet(m.scalars)
  <1>1. /\ i \notin Live /\ encode_entry_meta(m).ok /\ dim \in Dims
        /\ stored' = [stored EXCEPT ![i] = b] /\ given' = [given EXCEPT ![i] = m]
        /\ FilterAdd(i, S)
    BY DEF Store, StoredInv
  <1>2. b # NoMeta
    <2>1. Fits(m)
      BY <1>1, AcceptedFits
    <2>2. b \in Seq(Byte)
      BY <2>1, Encoded
    <2>3. QED BY <2>2, StoredEntriesAssumption
  <1> HIDE DEF b, S
  <1>3. /\ stored'[i] = b /\ given'[i] = m
        /\ \A j \in Ids \ {i} : stored'[j] = stored[j] /\ given'[j] = given[j]
    BY <1>1 DEF StoredInv
  <1>4. Live' = Live \cup {i}
    BY <1>2, <1>3 DEF Live
  <1>5. ScalarsOf(i)' = S /\ \A j \in Live : ScalarsOf(j)' = ScalarsOf(j)
    <2>1. \A j \in Live : given'[j] = given[j]
      BY <1>1, <1>3 DEF Live
    <2>2. QED BY <1>3, <2>1 DEF ScalarsOf, S, ScalarSet
  <1>6. all_ids' = Live'
    BY <1>1, <1>4 DEF FilterAdd, FilterInv
  <1>7. bits' = [s \in Scalars |-> {j \in Live' : s \in ScalarsOf(j)'}]
    <2>1. bits' = [s \in Scalars |-> IF s \in S THEN bits[s] \cup {i} ELSE bits[s]]
      BY <1>1 DEF FilterAdd
    <2>2. \A s \in Scalars : bits[s] = {j \in Live : s \in ScalarsOf(j)}
      BY DEF FilterInv, ScalarsOf
    <2>3. ASSUME NEW s \in Scalars
          PROVE  (IF s \in S THEN bits[s] \cup {i} ELSE bits[s])
                   = {j \in Live' : s \in ScalarsOf(j)'}
      BY <1>1, <1>4, <1>5, <2>2
    <2>4. QED BY <2>1, <2>3
  <1>8. ASSUME NEW j \in Live', NEW s \in ScalarsOf(j)' PROVE s.name \in fields'
    <2>1. fields' = fields \cup {t.name : t \in S}
      BY <1>1 DEF FilterAdd
    <2>2. CASE j = i
      BY <1>5, <1>8, <2>1, <2>2
    <2>3. CASE j # i
      <3>1. j \in Live /\ s \in ScalarsOf(j)
        BY <1>4, <1>5, <1>8, <2>3
      <3>2. QED BY <2>1, <3>1 DEF FilterInv, ScalarsOf
    <2>4. QED BY <2>2, <2>3
  <1>9. QED BY <1>6, <1>7, <1>8 DEF FilterInv, ScalarsOf

LEMMA RemoveKeepsFilter ==
  ASSUME StoredInv, FilterInv, NEW i \in Ids, Remove(i)
  PROVE  FilterInv'
  <1>1. /\ stored' = [stored EXCEPT ![i] = NoMeta] /\ given' = [given EXCEPT ![i] = NoMeta]
        /\ FilterRemove(i)
    BY DEF Remove
  <1>2. /\ stored'[i] = NoMeta
        /\ \A j \in Ids \ {i} : stored'[j] = stored[j] /\ given'[j] = given[j]
    BY <1>1 DEF StoredInv
  <1>3. Live' = Live \ {i}
    BY <1>2 DEF Live
  <1>4. \A j \in Live' : ScalarsOf(j)' = ScalarsOf(j)
    <2>1. \A j \in Live' : given'[j] = given[j]
      BY <1>2, <1>3 DEF Live
    <2>2. QED BY <2>1 DEF ScalarsOf
  <1>5. all_ids' = Live' /\ fields' = fields
    BY <1>1, <1>3 DEF FilterRemove, FilterInv
  <1>6. bits' = [s \in Scalars |-> {j \in Live' : s \in ScalarsOf(j)'}]
    <2>1. bits' = [s \in Scalars |-> bits[s] \ {i}]
      BY <1>1 DEF FilterRemove, BitsWithout
    <2>2. \A s \in Scalars : bits[s] = {j \in Live : s \in ScalarsOf(j)}
      BY DEF FilterInv, ScalarsOf
    <2>3. ASSUME NEW s \in Scalars
          PROVE  bits[s] \ {i} = {j \in Live' : s \in ScalarsOf(j)'}
      BY <1>3, <1>4, <2>2
    <2>4. QED BY <2>1, <2>3
  <1>7. ASSUME NEW j \in Live', NEW s \in ScalarsOf(j)' PROVE s.name \in fields'
    <2>1. j \in Live /\ s \in ScalarsOf(j)
      BY <1>3, <1>4, <1>7
    <2>2. QED BY <1>5, <2>1 DEF FilterInv, ScalarsOf
  <1>8. QED BY <1>5, <1>6, <1>7 DEF FilterInv, ScalarsOf

\* open() visits every live entry, since none is refused, and registers what
\* the entry was given.
LEMMA ReopenKeepsFilter ==
  ASSUME StoredInv, Reopen
  PROVE  FilterInv'
  <1>1. \A i \in Live : ~Refuses(i) /\ DecodedScalars(i) = ScalarsOf(i)
    BY ReadsBack DEF ScalarsOf
  <1>2. stored' = stored /\ given' = given
    BY DEF Reopen
  <1>3. Live' = Live
    BY <1>2 DEF Live
  <1>4. \A i : ScalarsOf(i)' = ScalarsOf(i)
    BY <1>2 DEF ScalarsOf
  <1>5. PICK V \in SUBSET {i \in Live : ~Refuses(i)} :
          /\ (\E i \in Live : Refuses(i)) \/ V = Live
          /\ fields' = UNION {{s.name : s \in DecodedScalars(i)} : i \in V}
          /\ bits' = [s \in Scalars |-> {i \in V : s \in DecodedScalars(i)}]
          /\ all_ids' = V
    BY DEF Reopen
  <1>6. V = Live
    BY <1>1, <1>5
  <1>7. all_ids' = Live'
    BY <1>3, <1>5, <1>6
  <1>8. bits' = [s \in Scalars |-> {i \in Live' : s \in ScalarsOf(i)'}]
    <2>1. bits' = [s \in Scalars |-> {i \in Live : s \in DecodedScalars(i)}]
      BY <1>5, <1>6
    <2>2. ASSUME NEW s \in Scalars
          PROVE  {i \in Live : s \in DecodedScalars(i)} = {i \in Live' : s \in ScalarsOf(i)'}
      BY <1>1, <1>3, <1>4
    <2>3. QED BY <2>1, <2>2
  <1>9. ASSUME NEW i \in Live', NEW s \in ScalarsOf(i)' PROVE s.name \in fields'
    <2>1. i \in V /\ s \in DecodedScalars(i)
      BY <1>1, <1>3, <1>4, <1>6, <1>9
    <2>2. QED BY <1>5, <2>1
  <1>10. QED BY <1>7, <1>8, <1>9 DEF FilterInv, ScalarsOf

LEMMA FilterStep ==
  ASSUME CountsFit, ~AddsTwice, StoredInv, FilterInv, [Next]_vars
  PROVE  FilterInv'
  <1>1. ASSUME NEW i \in Ids, NEW m \in Metas(dim), Store(i, m) PROVE FilterInv'
    BY <1>1, StoreKeepsFilter
  <1>2. ASSUME NEW i \in Ids, Remove(i) PROVE FilterInv'
    BY <1>2, RemoveKeepsFilter
  <1>3. CASE Reopen
    BY <1>3, ReopenKeepsFilter
  <1>4. CASE UNCHANGED vars
    <2>1. stored' = stored /\ given' = given /\ UNCHANGED filterVars
      BY <1>4 DEF vars
    <2>2. QED BY <2>1 DEF filterVars, FilterInv, Live
  <1>5. QED BY <1>1, <1>2, <1>3, <1>4 DEF Next

\* An id is in the bit set of a field and value when it was given them.
LEMMA BitsTell ==
  ASSUME StoredInv, FilterInv, NEW i \in Ids, NEW f \in Fields, NEW v \in Values
  PROVE  ValueContains(f, v, i) <=> i \in Live /\ [name |-> f, value |-> v] \in ScalarsOf(i)
  <1> DEFINE s == [name |-> f, value |-> v]
  <1>1. s \in Scalars
    BY DEF Scalars
  <1> HIDE DEF s
  <1>2. bits[s] = {j \in Live : s \in ScalarsOf(j)}
    BY <1>1 DEF FilterInv, ScalarsOf
  <1>3. ValueContains(f, v, i) <=> i \in bits[s]
    BY DEF ValueContains, s
  <1>4. QED BY <1>2, <1>3 DEF s

GivenTo(i) == IF i \in Live THEN ScalarSet(given[i].scalars) ELSE {}
ValuesOf(S, f) == {s.value : s \in {t \in S : t.name = f}}

LEMMA GivenTypes ==
  ASSUME StoredInv, NEW i \in Ids
  PROVE  GivenTo(i) \subseteq Scalars
  BY GivenScalars DEF GivenTo, ScalarsOf

LEMMA ValuesTell ==
  ASSUME NEW S \in SUBSET Scalars, NEW f \in Fields, NEW v
  PROVE  v \in ValuesOf(S, f) <=> v \in Values /\ [name |-> f, value |-> v] \in S
  <1>1. ASSUME v \in ValuesOf(S, f) PROVE v \in Values /\ [name |-> f, value |-> v] \in S
    <2>1. PICK s \in S : s.name = f /\ s.value = v
      BY <1>1 DEF ValuesOf
    <2>2. s = [name |-> f, value |-> v] /\ v \in Values
      BY <2>1 DEF Scalars
    <2>3. QED BY <2>1, <2>2
  <1>2. ASSUME v \in Values, [name |-> f, value |-> v] \in S PROVE v \in ValuesOf(S, f)
    BY <1>2 DEF ValuesOf
  <1>3. QED BY <1>1, <1>2

\* What the bit sets of a field say of an id.
LEMMA IndexTells ==
  ASSUME StoredInv, FilterInv, NEW i \in Ids, NEW f \in Fields
  PROVE  /\ \A v \in Values : ValueContains(f, v, i) <=> v \in ValuesOf(GivenTo(i), f)
         /\ ValuesOf(GivenTo(i), f) \subseteq Values
         /\ ValuesOf(GivenTo(i), f) # {} => f \in fields
  <1> DEFINE S == GivenTo(i)
  <1>1. S \in SUBSET Scalars
    BY GivenTypes
  <1>2. \A v : v \in ValuesOf(S, f) <=> v \in Values /\ [name |-> f, value |-> v] \in S
    BY <1>1, ValuesTell
  <1>3. \A s : s \in S <=> i \in Live /\ s \in ScalarsOf(i)
    BY DEF GivenTo, ScalarsOf
  <1>4. ASSUME NEW v \in Values PROVE ValueContains(f, v, i) <=> v \in ValuesOf(S, f)
    <2>1. ValueContains(f, v, i) <=> i \in Live /\ [name |-> f, value |-> v] \in ScalarsOf(i)
      BY BitsTell
    <2>2. QED BY <1>2, <1>3, <2>1
  <1>5. ASSUME ValuesOf(S, f) # {} PROVE f \in fields
    <2>1. PICK v : v \in ValuesOf(S, f)
      BY <1>5
    <2>2. i \in Live /\ [name |-> f, value |-> v] \in ScalarsOf(i)
      BY <1>2, <1>3, <2>1
    <2>3. [name |-> f, value |-> v].name \in fields
      BY <2>2 DEF FilterInv, ScalarsOf
    <2>4. QED BY <2>3
  <1>6. QED BY <1>2, <1>4, <1>5

LEMMA ExactClause ==
  ASSUME StoredInv, FilterInv, NEW i \in Ids, NEW c \in Clauses, c.op # "kNe"
  PROVE  ClauseMatches(i, c) = Satisfies(GivenTo(i), c)
  <1> DEFINE f == c.field
             v == c.value
             P == ValuesOf(GivenTo(i), f)
  <1>1. f \in Fields /\ v \in Values /\ c.op \in FilterOps
    BY DEF Clauses
  <1>2. /\ \A w \in Values : ValueContains(f, w, i) <=> w \in P
        /\ P \subseteq Values
        /\ P # {} => f \in fields
    BY <1>1, IndexTells
  <1>3. CASE c.op = "kEq"
    <2>1. ClauseMatches(i, c) = (f \in fields /\ ValueContains(f, v, i))
      BY <1>3 DEF ClauseMatches
    <2>2. Satisfies(GivenTo(i), c) = (v \in P)
      BY <1>3 DEF Satisfies, ValuesOf
    <2> HIDE DEF P
    <2>3. (f \in fields /\ ValueContains(f, v, i)) <=> v \in P
      BY <1>1, <1>2
    <2>4. (f \in fields /\ ValueContains(f, v, i)) = (v \in P)
      BY <2>3
    <2>5. QED BY <2>1, <2>2, <2>4
  <1>4. CASE c.op # "kEq"
    <2>1. ClauseMatches(i, c) = (f \in fields /\ InRange(f, c.op, v, i))
      BY <1>4 DEF ClauseMatches
    <2>2. Satisfies(GivenTo(i), c) =
            (\E w \in P : w.t = v.t /\ w.t # "str" /\ Compare(c.op, w.n, v.n))
      BY <1>4 DEF Satisfies, ValuesOf
    <2> HIDE DEF P
    <2>3. InRange(f, c.op, v, i)
            <=> \E w \in Values : /\ w.t = v.t /\ w.t # "str" /\ Compare(c.op, w.n, v.n)
                                  /\ w \in P
      BY <1>2, Zenon DEF InRange, Comparable
    <2>4. (f \in fields /\ InRange(f, c.op, v, i))
            <=> (\E w \in P : w.t = v.t /\ w.t # "str" /\ Compare(c.op, w.n, v.n))
      BY <1>2, <2>3, Zenon
    <2>5. QED BY <2>1, <2>2, <2>4
  <1>5. QED BY <1>3, <1>4

LEMMA ExactNotEqual ==
  ASSUME StoredInv, FilterInv, NEW i \in Ids, NEW c \in Clauses, c.op = "kNe",
         ClauseMatches(i, c)
  PROVE  i \in Live /\ ~Satisfies(GivenTo(i), [c EXCEPT !.op = "kEq"])
  <1> DEFINE f == c.field
             v == c.value
             P == ValuesOf(GivenTo(i), f)
             e == [c EXCEPT !.op = "kEq"]
  <1>1. f \in Fields /\ v \in Values
    BY DEF Clauses
  <1>2. i \in all_ids /\ ~ValueContains(f, v, i)
    BY DEF ClauseMatches
  <1>3. i \in Live
    BY <1>2 DEF FilterInv
  <1>4. v \notin P
    BY <1>1, <1>2, IndexTells
  <1>5. e.op = "kEq" /\ e.field = f /\ e.value = v
    BY DEF Clauses
  <1>6. Satisfies(GivenTo(i), e) = (v \in P)
    <2> HIDE DEF e
    <2>1. QED BY <1>5 DEF Satisfies, ValuesOf
  <1>7. QED BY <1>3, <1>4, <1>6

LEMMA FilterExact ==
  ASSUME StoredInv, FilterInv
  PROVE  FilterIsExact
  <1>1. ASSUME NEW i \in Ids, NEW c \in Clauses, c.op = "kNe", ClauseMatches(i, c)
        PROVE  i \in Live /\ ~Satisfies(GivenTo(i), [c EXCEPT !.op = "kEq"])
    BY <1>1, ExactNotEqual
  <1>2. ASSUME NEW i \in Ids, NEW c \in Clauses, c.op # "kNe"
        PROVE  ClauseMatches(i, c) = Satisfies(GivenTo(i), c)
    BY <1>2, ExactClause
  <1>3. QED BY <1>1, <1>2 DEF FilterIsExact, GivenTo

BothInv == StoredInv /\ FilterInv

LEMMA BothHold ==
  ASSUME CountsFit, ~AddsTwice
  PROVE  Spec => []BothInv
  <1>1. Init => BothInv
    BY StoredInit, FilterInitially DEF BothInv
  <1>2. BothInv /\ [Next]_vars => BothInv'
    BY StoredStep, FilterStep DEF BothInv
  <1>3. QED BY <1>1, <1>2, PTL DEF Spec

\* matches() is right about every equality and every range over the scalars an
\* id was given, and != lets no equal value and no removed id through
\* (filter_index.cpp, clause_matches), when no id is added twice, as
\* Collection::add() sees to.
THEOREM AnswersAreExact ==
  ASSUME CountsFit, ~AddsTwice
  PROVE  Spec => []FilterIsExact
  <1>1. BothInv => FilterIsExact
    BY FilterExact DEF BothInv
  <1>2. Spec => []BothInv
    BY BothHold
  <1>3. QED BY <1>1, <1>2, PTL

\* The index that open() rebuilds from the stored bytes answers every equality
\* and every range as the one before it (collection.cpp, the rebuild in open()).
THEOREM RestartsKeepAnswers ==
  ASSUME CountsFit, ~AddsTwice
  PROVE  Spec => ReopenKeepsAnswers
  <1> DEFINE Equal == Answers(FilterOps \ {"kNe"})
             Exact == \A i \in Ids, c \in Clauses :
                        c.op # "kNe" => ClauseMatches(i, c) = Satisfies(GivenTo(i), c)
  <1>1. ASSUME Exact, Exact', Reopen PROVE Equal' = Equal
    <2>1. \A i : GivenTo(i)' = GivenTo(i)
      <3>1. stored' = stored /\ given' = given
        BY <1>1 DEF Reopen
      <3>2. QED BY <3>1 DEF GivenTo, Live
    <2>2. ASSUME NEW i \in Ids, NEW c \in Clauses, c.op # "kNe"
          PROVE  ClauseMatches(i, c)' = ClauseMatches(i, c)
      <3>1. ClauseMatches(i, c) = Satisfies(GivenTo(i), c)
        BY <1>1, <2>2
      <3>2. ClauseMatches(i, c)' = Satisfies(GivenTo(i), c)'
        BY <1>1, <2>2
      <3>3. Satisfies(GivenTo(i), c)' = Satisfies(GivenTo(i)', c)
        BY DEF Satisfies, Compare
      <3>4. QED BY <2>1, <3>1, <3>2, <3>3
    <2>3. ASSUME NEW a \in Ids \X Clauses, a[2].op # "kNe"
          PROVE  ClauseMatches(a[1], a[2])' = ClauseMatches(a[1], a[2])
      BY <2>2, <2>3
    <2>4. QED BY <2>3 DEF Answers
  <1>2. BothInv => Exact
    BY ExactClause DEF BothInv
  <1>3. Exact /\ Exact' /\ [Next]_vars => [Reopen => Equal' = Equal]_vars
    BY <1>1
  <1>4. Spec => []BothInv
    BY BothHold
  <1>5. QED BY <1>2, <1>3, <1>4, PTL DEF Spec, ReopenKeepsAnswers
=============================================================================
