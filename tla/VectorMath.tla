----------------------------- MODULE VectorMath -----------------------------
(***************************************************************************)
(* src/vector/vector_math_*.cpp and engine/pipeline.cpp: the distance      *)
(* kernels and the choice of one at run time.  Threads race to the first   *)
(* call; std::call_once lets one of them ask the CPU and store a kernel     *)
(* table.  A kernel sums in lanes and adds the rest one by one.             *)
(* Coordinates are integers, on which float sums of this size are exact;   *)
(* a cosine distance is given by the three sums it is computed from.       *)
(***************************************************************************)
EXTENDS Integers, Sequences

CONSTANTS
  Threads,
  Cpus,    \* the machines: [arch : {"arm64", "x86"}, has : SUBSET Features]
  Built,   \* the optional kernels in the build
  Pairs,   \* arguments [a, b]: vectors of one dimension, or NullPtr
  NullPtr

Features == {"avx", "osxsave", "ymm", "fma", "leaf7", "avx2", "avx512f", "zmm"}
Kernels == {"naive", "neon", "avx2", "avx512"}
Metrics == {"kL2", "kIP", "kCosine"}

ASSUME VectorMathAssumption ==
  /\ {"no", "done"} \cap Threads = {}
  /\ \A c \in Cpus : c.arch \in {"arm64", "x86"} /\ c.has \subseteq Features
  /\ Built \subseteq Kernels
  /\ \A p \in Pairs : NullPtr \notin {p.a, p.b} =>
       {p.a, p.b} \subseteq Seq(Int) /\ Len(p.a) = Len(p.b)

VARIABLES
  cpu,        \* the machine of this process
  once,       \* g_init_flag: "no", the thread inside call_once, "done"
  g_kernels,  \* the kernel table
  at,         \* where each thread is
  kernel      \* the table each thread has loaded

mathVars == <<cpu, once, g_kernels, at, kernel>>

MathTypeOK ==
  /\ cpu \in Cpus
  /\ once \in {"no", "done"} \cup Threads
  /\ g_kernels \in Kernels
  /\ at \in [Threads -> {"idle", "entered", "loaded"}]
  /\ kernel \in [Threads -> Kernels]

MathInit ==
  /\ cpu \in Cpus
  /\ once = "no"
  /\ g_kernels = "naive"
  /\ at = [t \in Threads |-> "idle"]
  /\ kernel = [t \in Threads |-> "naive"]

(***************************************************************************)
(* select_kernels().  The ymm and zmm bits of XCR0 can only be read when    *)
(* OSXSAVE is set, and AVX-512 is only tried after AVX2 has failed.         *)
(***************************************************************************)
CanUseAvx2UncheckedOs(c) == {"avx", "fma", "leaf7", "avx2"} \subseteq c.has
cpu_can_use_avx2(c) == {"avx", "osxsave", "ymm", "fma", "leaf7", "avx2"} \subseteq c.has
cpu_can_use_avx512f(c) == {"leaf7", "avx512f", "osxsave", "ymm", "zmm"} \subseteq c.has

select_kernels(c) ==
  CASE "neon" \in Built /\ c.arch = "arm64" -> "neon"
    [] "avx2" \in Built /\ c.arch = "x86" /\ cpu_can_use_avx2(c) -> "avx2"
    [] "avx512" \in Built /\ c.arch = "x86" /\ ~cpu_can_use_avx2(c)
         /\ cpu_can_use_avx512f(c) -> "avx512"
    [] OTHER -> "naive"

\* l2_entry(), cosine_entry() behind their tests, and init().
EnterDistance(t) ==
  /\ at[t] = "idle"
  /\ at' = [at EXCEPT ![t] = "entered"]
  /\ UNCHANGED <<cpu, once, g_kernels, kernel>>

CallOnce(t) ==
  /\ at[t] = "entered"
  /\ once = "no"
  /\ once' = t
  /\ UNCHANGED <<cpu, g_kernels, at, kernel>>

SelectKernels(t) ==
  /\ once = t
  /\ g_kernels' = select_kernels(cpu)
  /\ once' = "done"
  /\ UNCHANGED <<cpu, at, kernel>>

\* The acquire load; a thread that lost the race has waited in call_once.
LoadKernels(t) ==
  /\ at[t] = "entered"
  /\ once = "done"
  /\ kernel' = [kernel EXCEPT ![t] = g_kernels]
  /\ at' = [at EXCEPT ![t] = "loaded"]
  /\ UNCHANGED <<cpu, once, g_kernels>>

\* The kernel runs and the call returns.
ReturnDistance(t) ==
  /\ at[t] = "loaded"
  /\ at' = [at EXCEPT ![t] = "idle"]
  /\ kernel' = [kernel EXCEPT ![t] = "naive"]
  /\ UNCHANGED <<cpu, once, g_kernels>>

MathNext ==
  \E t \in Threads :
    \/ EnterDistance(t)
    \/ CallOnce(t)
    \/ SelectKernels(t)
    \/ LoadKernels(t)
    \/ ReturnDistance(t)

(***************************************************************************)
(* The kernels                                                             *)
(***************************************************************************)
SumOver(terms) ==
  LET upTo[i \in 0 .. Len(terms)] == IF i = 0 THEN 0 ELSE upTo[i - 1] + terms[i]
  IN  upTo[Len(terms)]

Lanes == [naive |-> 1, neon |-> 4, avx2 |-> 8, avx512 |-> 16]

\* The elements a loop of w lanes leaves over.
RestDropped(n, w) == 0
Rest(n, w) == n % w

LaneSum(w, terms) ==
  LET n == Len(terms)
      blocks == n \div w
      lane(j) == SumOver([b \in 1 .. blocks |-> terms[(b - 1) * w + j]])
  IN  SumOver([j \in 1 .. w |-> lane(j)])
        + SumOver([i \in 1 .. Rest(n, w) |-> terms[w * blocks + i]])

l2(k, a, b) ==
  LaneSum(Lanes[k], [i \in 1 .. Len(a) |-> (a[i] - b[i]) * (a[i] - b[i])])

dot(k, a, b) == LaneSum(Lanes[k], [i \in 1 .. Len(a) |-> a[i] * b[i]])

One == "one"   \* the cosine distance of a null vector
NaN == "quiet NaN"

cosine(k, a, b) ==
  LET na == dot(k, a, a)
      nb == dot(k, b, b)
  IN  IF na = 0 \/ nb = 0 THEN One ELSE [dot |-> dot(k, a, b), na |-> na, nb |-> nb]

\* distance_for_metric(), called with kernel k.
Distance(metric, k, a, b) ==
  CASE metric = "kIP" -> -dot("naive", a, b)
    [] metric = "kCosine" ->
         IF a = <<>> \/ b = <<>> THEN One
         ELSE IF NullPtr \in {a, b} THEN NaN
         ELSE cosine(k, a, b)
    [] OTHER ->
         IF a = <<>> \/ b = <<>> THEN 0
         ELSE IF NullPtr \in {a, b} THEN NaN
         ELSE l2(k, a, b)

(***************************************************************************)
(* Whether a machine executes a kernel (external): an instruction set that *)
(* the processor lacks, or whose registers the system does not save, is an  *)
(* illegal instruction.                                                    *)
(***************************************************************************)
Executes(c, k) ==
  CASE k = "naive" -> TRUE
    [] k = "neon" -> c.arch = "arm64"
    [] k = "avx2" -> c.arch = "x86" /\ {"avx", "fma", "avx2", "osxsave", "ymm"} \subseteq c.has
    [] k = "avx512" -> c.arch = "x86" /\ {"avx512f", "osxsave", "ymm", "zmm"} \subseteq c.has

(***************************************************************************)
(* Properties                                                              *)
(***************************************************************************)
KernelAgrees ==
  [k \in Kernels |->
     \A metric \in Metrics, p \in Pairs :
       metric # "kIP" \/ NullPtr \notin {p.a, p.b} =>
         Distance(metric, k, p.a, p.b) = Distance(metric, "naive", p.a, p.b)]

\* Whichever kernel a thread has loaded, on whichever machine and however many
\* threads raced to choose it, the machine executes it and every distance is
\* the one the scalar definition gives, for dimensions below, at and above the
\* width of its lanes (select_kernels() and the kernels it chooses from).
DistancesAreExact ==
  \A t \in Threads :
    at[t] = "loaded" => Executes(cpu, kernel[t]) /\ KernelAgrees[kernel[t]]
=============================================================================
