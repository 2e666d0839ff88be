----------------------------- MODULE Placement -----------------------------
(***************************************************************************)
(* Where the mining threads of a process run: the slots that               *)
(* os_build_affinity_plan (src/linux/perf_platform.cpp) makes of what the  *)
(* kernel says of each CPU, their order, and the slot pin_current_thread   *)
(* gives each worker (src/perf.cpp).                                       *)
(*                                                                         *)
(* A machine is a function from the numbers of its CPUs to what the kernel *)
(* says of each: [package, core, type, freq], with type 1 for an efficient *)
(* core and 2 for a performance core.  Each of the four is a file, which   *)
(* may be missing; of a CPU that is offline, all are.  It has a slot like  *)
(* the others: that the system refuses the worker which asks for it is     *)
(* ignored by the code, and left out here.                                 *)
(***************************************************************************)
EXTENDS Integers, SequencesExt

CONSTANTS
  Machines,    \* the machines
  Unread,      \* what is known of a file that is missing
  FreqSlack,   \* CPUs this close to the fastest are fast: 200000 kHz
  MaxWorkers   \* bound on the workers that are started

Readings == Int \cup {Unread}

ASSUME PlacementAssumption ==
  /\ Unread \notin Int /\ FreqSlack \in Nat /\ MaxWorkers \in Nat
  /\ \A m \in Machines :
       /\ IsFiniteSet(DOMAIN m) /\ DOMAIN m # {} /\ DOMAIN m \subseteq Nat
       /\ m \in [DOMAIN m -> [package : Readings, core : Readings, type : Readings,
                               freq : Nat \cup {Unread}]]

VARIABLES
  machine,                 \* what the kernel says; never changes
  performance_cores_only,  \* performance_cores_only; never changes
  slots,                   \* plan.slots, the first at 1, built once
  cpuOf                    \* the CPU each worker asked for that has been started

placementVars == <<machine, performance_cores_only, slots, cpuOf>>

(***************************************************************************)
(* The slots.                                                              *)
(***************************************************************************)
\* What a reading is taken for; a negative one for 0.
Taken(reading, default) ==
  IF reading = Unread THEN default ELSE IF reading < 0 THEN 0 ELSE reading

\* A CPU whose core cannot be read is taken for the core of its own number, which
\* another may be on.
Core(m, cpu)    == <<Taken(m[cpu].package, 0), Taken(m[cpu].core, cpu)>>
CoreType(m, cpu) == Taken(m[cpu].type, 0)
MaxFreq(m, cpu) == Taken(m[cpu].freq, 0)

HasCoreType(m) == \E cpu \in DOMAIN m : CoreType(m, cpu) > 0

Threshold(m) ==
  LET fastest == Max({MaxFreq(m, cpu) : cpu \in DOMAIN m}) IN
  IF fastest > FreqSlack THEN fastest - FreqSlack ELSE fastest

\* performance_tier: 0 is the faster one.  Without a type or a frequency all
\* CPUs are of one tier.
PerformanceTier(m, cpu) ==
  LET slow == IF HasCoreType(m) THEN CoreType(m, cpu) = 1
                                ELSE MaxFreq(m, cpu) < Threshold(m)
  IN  IF slow THEN 1 ELSE 0

\* sibling_index: the CPUs of a core are counted in the order of their numbers.
SiblingIndex(m, cpu) ==
  Cardinality({c \in DOMAIN m : c < cpu /\ Core(m, c) = Core(m, cpu)})

(***************************************************************************)
(* A definition named D_<fault> is D with a plausible bug seeded; nothing  *)
(* of the specification uses it.  Each one breaks a property below.        *)
(***************************************************************************)
\* What the slots are sorted by, the first that differs deciding.
SortKey_CoreFirst(m, cpu) ==
  <<PerformanceTier(m, cpu)>> \o Core(m, cpu) \o <<SiblingIndex(m, cpu), cpu>>
SortKey(m, cpu) ==
  <<PerformanceTier(m, cpu), SiblingIndex(m, cpu), Core(m, cpu)[1], Core(m, cpu)[2], cpu>>

SortsBefore(a, b) ==
  \E i \in DOMAIN a : a[i] < b[i] /\ \A j \in 1 .. i - 1 : a[j] = b[j]

\* sort_affinity_slots: std::sort puts the slots of all CPUs in this order.
Sorted(m) ==
  LET key == [cpu \in DOMAIN m |-> SortKey(m, cpu)] IN
  {plan \in [1 .. Cardinality(DOMAIN m) -> DOMAIN m] :
     /\ Range(plan) = DOMAIN m
     /\ \A i, j \in DOMAIN plan : i < j => SortsBefore(key[plan[i]], key[plan[j]])}

PlacementInit ==
  /\ machine \in Machines
  /\ performance_cores_only \in BOOLEAN
  /\ slots \in Sorted(machine)
  /\ cpuOf = << >>

(***************************************************************************)
(* What the slots are used for.                                            *)
(***************************************************************************)
Tier(i) == PerformanceTier(machine, slots[i])

HybridTopology == \E i \in DOMAIN slots : Tier(i) # Tier(1)

\* performance_prefix_count: the slots before the first one of another tier.
PerformancePrefixCount ==
  Cardinality({i \in DOMAIN slots : \A j \in 1 .. i : Tier(j) = Tier(1)})

\* The slots that workers get are the first ones, or all.
UsedCount ==
  IF performance_cores_only /\ HybridTopology THEN PerformancePrefixCount ELSE Len(slots)

CpuForWorker(worker) == slots[(worker % UsedCount) + 1]

PhysicalCores == Cardinality({Core(machine, slots[i]) : i \in 1 .. UsedCount})

\* What the configuration's threads are set to on a machine.
RecommendedMiningThreads == PhysicalCores

(***************************************************************************)
(* Workers are started in the order of their numbers, and each pins itself *)
(* when it comes to it; where it runs depends on nothing but its number.   *)
(***************************************************************************)
Started == DOMAIN cpuOf

StartWorker ==
  LET worker == Cardinality(Started) IN
  /\ worker < MaxWorkers
  /\ cpuOf' = [w \in 0 .. worker |-> IF w = worker THEN CpuForWorker(w) ELSE cpuOf[w]]
  /\ UNCHANGED <<machine, performance_cores_only, slots>>

PlacementSpec == PlacementInit /\ [][StartWorker]_placementVars
-----------------------------------------------------------------------------
CpusOfCore(cpu) == {c \in DOMAIN machine : Core(machine, c) = Core(machine, cpu)}

\* The workers on some CPUs.
On(cpus) == Cardinality({w \in Started : cpuOf[w] \in cpus})

\* Over the CPUs they may use, workers are spread as evenly as can be.
EvenlySpread ==
  \A i, j \in 1 .. UsedCount : On({slots[i]}) <= On({slots[j]}) + 1

\* The CPUs of a core are of one tier, as they are where the kernel says the same
\* of all of them.
CoresAlike ==
  \A a \in DOMAIN machine : \A b \in CpusOfCore(a) :
    PerformanceTier(machine, a) = PerformanceTier(machine, b)

\* Two share a core only when every core as fast has a worker.
CoresBeforeSiblings ==
  CoresAlike => \A a, b \in DOMAIN machine : \A c \in CpusOfCore(a) \ {a} :
    /\ On({a}) > 0 /\ On({c}) > 0
    /\ PerformanceTier(machine, a) = PerformanceTier(machine, b)
    => On(CpusOfCore(b)) > 0

\* One is on a slower core only when all CPUs of the faster ones have one.
FastBeforeSlow ==
  \A a, b \in DOMAIN machine :
    On({b}) > 0 /\ PerformanceTier(machine, a) < PerformanceTier(machine, b) =>
      On({a}) > 0 /\ ~performance_cores_only

\* As many workers as are recommended have a core each, if they are not to use
\* cores of two speeds.
CoreEach ==
  /\ CoresAlike
  /\ Cardinality(Started) <= RecommendedMiningThreads
  /\ performance_cores_only \/ ~HybridTopology
  => \A cpu \in DOMAIN machine : On(CpusOfCore(cpu)) <= 1

\* Any number of workers is spread over the CPUs of any machine, whatever the
\* kernel can be read to say of it.
WorkersSpread == EvenlySpread /\ CoresBeforeSiblings /\ FastBeforeSlow /\ CoreEach

(***************************************************************************)
(* The inductive invariant: of n workers, each on the CPU of its number,   *)
(* the CPUs in use have q each, and the first n % UsedCount one more.      *)
(***************************************************************************)
PlacedByNumber ==
  /\ \E n \in 0 .. MaxWorkers : Started = 0 .. n - 1
  /\ \A w \in Started : cpuOf[w] = CpuForWorker(w)

CountedPerSlot ==
  \E q \in 0 .. Cardinality(Started) : \A i \in 1 .. UsedCount :
    On({slots[i]}) = q + (IF i <= Cardinality(Started) % UsedCount THEN 1 ELSE 0)

PlacementInv ==
  /\ machine \in Machines /\ slots \in Sorted(machine)
  /\ PlacedByNumber /\ CountedPerSlot
=============================================================================
