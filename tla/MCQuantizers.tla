---------------------------- MODULE MCQuantizers ----------------------------
EXTENDS Quantizers, TLC

(***************************************************************************)
(* An ARM machine; x86 machines with everything, whose system does not      *)
(* save the wide registers, with AVX-512 behind a hidden FMA, and without.  *)
(***************************************************************************)
SmallCpus ==
  {[arch |-> "arm64", has |-> {}],
   [arch |-> "x86", has |-> Features],
   [arch |-> "x86", has |-> Features \ {"ymm", "zmm"}],
   [arch |-> "x86", has |-> Features \ {"fma", "avx2"}],
   [arch |-> "x86", has |-> {"avx", "osxsave", "ymm"}]}

Portable == [arm64 |-> {"neon"}, x86 |-> {"scalar"}]
MarchNative == [arm64 |-> {"neon"}, x86 |-> {"scalar", "avx2"}]

\* Dimensions around the lanes of 4, 8 and 16, a null vector and null pointers.
Ramp(n, k) == [i \in 1 .. n |-> ((k * i) % 5) - 2]
SmallPairs ==
  {[a |-> Ramp(n, 2), b |-> Ramp(n, 3)] : n \in {0, 3, 9, 16, 37}}
    \cup {[a |-> Ramp(9, 2), b |-> [i \in 1 .. 9 |-> 0]],
          [a |-> NullPtr, b |-> Ramp(3, 2)], [a |-> Ramp(3, 2), b |-> NullPtr]}

Const(n, x) == [i \in 1 .. n |-> x]

\* A range of 7 beside one that is a single value; beyond 8 bits for Binary;
\* for PQ fewer samples than centroids, as many, more, and a bad dimension.
SmallSamples ==
  [kSQ8 |-> {<<Ramp(17, 2), [Ramp(17, 1) EXCEPT ![17] = 5]>>, <<Const(17, 3)>>},
   kBinary |-> {<<Const(8, 1)>>, <<Const(9, 1)>>},
   kPQ |-> {<<<<6, 0>>>>, <<<<0, 12>>, <<6, 0>>>>, <<<<0, 0>>, <<6, 0>>, <<24, 6>>>>,
            <<<<0, 6, 12, 0, 6>>>>}]

SmallVectors ==
  [kSQ8 |-> {Ramp(17, 2), Ramp(17, 3), [Const(17, 9) EXCEPT ![2] = -4]},
   kBinary |-> {Ramp(9, 1), Ramp(9, 3), [Const(9, -1) EXCEPT ![9] = 0], Const(8, 0)},
   kPQ |-> {<<6, 0>>, <<0, 12>>, <<18, 6>>}]

\* The same with -0.0, and with codes of 32 bytes that are far apart.
WithNegZero == [SmallVectors EXCEPT !["kBinary"] = {Const(8, 1), Const(8, NegZero)}]
WideSamples == [SmallSamples EXCEPT !["kSQ8"] = {<<Const(32, 0), Const(32, 255)>>}]
WideVectors == [SmallVectors EXCEPT !["kSQ8"] = {Const(32, 0), Const(32, 255)}]

Symmetric == Permutations(Threads)
=============================================================================
