--------------------------- MODULE RandomXRuntime ---------------------------
(***************************************************************************)
(* The RandomX runtime of src/crypto.cpp: init_randomx_internal's ladder   *)
(* of attempts, try_init_randomx_once with the threads that fill the       *)
(* dataset, the VM each hashing thread makes for itself in get_thread_vm,  *)
(* and release_randomx_state.                                              *)
(*                                                                         *)
(* A machine is what it supports and what cannot be had on it: an attempt  *)
(* that asks for something of "bad" fails, at the cache or at the dataset. *)
(* The same attempt fails every time; memory that comes and goes between   *)
(* two attempts is not modelled, nor std::thread's constructor throwing    *)
(* while the dataset is filled, which ends the process.                    *)
(***************************************************************************)
EXTENDS Naturals, FiniteSets

CONSTANTS Hashers,     \* the threads that may call hash_data
          Items,       \* randomx_dataset_item_count()
          InitThreads, \* init_threads: config_.threads, at least 1
          Requests     \* the sets of options a HashingConfig may ask for

Options == {"jit", "aes", "secure", "full", "large"}

ASSUME RandomXAssumption ==
  /\ Items \in Nat \ {0}
  /\ InitThreads \in Nat \ {0}
  /\ Requests \subseteq SUBSET Options

VARIABLES
  asked,        \* the HashingConfig
  supported,    \* randomx_get_flags(), the AES probe, the large-page hint
  bad,          \* what fails on this machine; "memory" fails every attempt
  rxpc,         \* where initialize_hashing is
  wanted,       \* active_base_flags, want_full_mem and want_large_pages
  caches,       \* caches allocated and not released
  datasets,     \* datasets allocated and not released
  chunks,       \* the init threads that have not run yet
  times,        \* how often each dataset item has been initialised
  initialized,  \* g_randomx_state.initialized
  flags,        \* g_randomx_state.flags, full_mem and large_pages
  vm            \* the flags each thread's VM was made with, NoVm for none

machineVars == <<asked, supported, bad>>
memoryVars  == <<caches, datasets, chunks, times>>
stateVars   == <<initialized, flags>>
rxVars == <<machineVars, rxpc, wanted, memoryVars, stateVars, vm>>

NoVm == {"none"}
ItemIds == 0 .. Items - 1
Threads == 0 .. InitThreads - 1

Granted == asked \cap (supported \cup {"secure", "full"})

\* What is not asked for can neither be supported nor fail.
RxInit ==
  /\ asked \in Requests
  /\ supported \in SUBSET (asked \ {"secure", "full"})
  /\ bad \in SUBSET ((Granted \ {"secure"}) \cup {"memory"})
  /\ rxpc = "uninitialized" /\ wanted = {}
  /\ caches = 0 /\ datasets = 0 /\ chunks = {}
  /\ times = [k \in ItemIds |-> 0]
  /\ initialized = FALSE /\ flags = {}
  /\ vm = [h \in Hashers |-> NoVm]

(***************************************************************************)
(* init_randomx_internal.                                                  *)
(***************************************************************************)
ComputeFlags ==
  /\ rxpc = "uninitialized"
  /\ wanted' = Granted
  /\ rxpc' = "try"
  /\ UNCHANGED <<machineVars, memoryVars, stateVars, vm>>

Works(options) == (options \cup {"memory"}) \cap bad = {}

CacheFails ==
  /\ rxpc = "try"
  /\ ~ Works(wanted)
  /\ rxpc' = "fallback"
  /\ UNCHANGED <<machineVars, wanted, memoryVars, stateVars, vm>>

AllocCache ==
  /\ rxpc = "try"
  /\ Works(wanted) \/ "full" \in wanted
  /\ "memory" \notin bad
  /\ caches' = caches + 1
  /\ rxpc' = IF "full" \in wanted THEN "dataset" ELSE "publish"
  /\ UNCHANGED <<machineVars, wanted, datasets, chunks, times, stateVars, vm>>

\* The cache goes back with the dataset that could not be had.
ReleasedCaches == caches - 1

DatasetFails ==
  /\ rxpc = "dataset"
  /\ ~ Works(wanted)
  /\ caches' = ReleasedCaches
  /\ rxpc' = "fallback"
  /\ UNCHANGED <<machineVars, wanted, datasets, chunks, times, stateVars, vm>>

(***************************************************************************)
(* Thread i fills count items from start on; the last one may have fewer,  *)
(* and there may be fewer threads than init_threads.                       *)
(***************************************************************************)
Chunk_RoundedDown == Items \div InitThreads
Chunk == (Items + InitThreads - 1) \div InitThreads
Least(a, b) == IF a < b THEN a ELSE b
Filled(i) == {k \in ItemIds : /\ Chunk * i <= k
                              /\ k < Chunk * i + Least(Chunk, Items - Chunk * i)}

AllocDataset ==
  /\ rxpc = "dataset"
  /\ Works(wanted)
  /\ datasets' = datasets + 1
  /\ chunks' = {i \in Threads : Chunk * i < Items}
  /\ times' = [k \in ItemIds |-> 0]
  /\ rxpc' = "fill"
  /\ UNCHANGED <<machineVars, wanted, caches, stateVars, vm>>

FillChunk(i) ==
  /\ rxpc = "fill"
  /\ i \in chunks
  /\ chunks' = chunks \ {i}
  /\ times' = [k \in ItemIds |-> IF k \in Filled(i) THEN times[k] + 1 ELSE times[k]]
  /\ UNCHANGED <<machineVars, rxpc, wanted, caches, datasets, stateVars, vm>>

JoinFillers ==
  /\ rxpc = "fill"
  /\ chunks = {}
  /\ rxpc' = "publish"
  /\ UNCHANGED <<machineVars, wanted, memoryVars, stateVars, vm>>

Publish ==
  /\ rxpc = "publish"
  /\ flags' = wanted
  /\ initialized' = TRUE
  /\ rxpc' = "ready"
  /\ UNCHANGED <<machineVars, wanted, memoryVars, vm>>

\* What the next attempt does without; JIT takes the secure flag with it.
Rungs_AesFirst == <<"aes", "large", "jit", "full">>
Rungs == <<"large", "aes", "jit", "full">>
Dropped(o) == IF o = "jit" THEN {"jit", "secure"} ELSE {o}

FallBack ==
  /\ rxpc = "fallback"
  /\ \E r \in 1 .. 4 :
       /\ Rungs[r] \in wanted
       /\ \A q \in 1 .. r - 1 : Rungs[q] \notin wanted
       /\ wanted' = wanted \ Dropped(Rungs[r])
  /\ rxpc' = "try"
  /\ UNCHANGED <<machineVars, memoryVars, stateVars, vm>>

InitThrows ==
  /\ rxpc = "fallback"
  /\ wanted \cap {"large", "aes", "jit", "full"} = {}
  /\ rxpc' = "threw"
  /\ UNCHANGED <<machineVars, wanted, memoryVars, stateVars, vm>>

Initialize ==
  \/ ComputeFlags \/ CacheFails \/ AllocCache \/ DatasetFails \/ AllocDataset
  \/ \E i \in Threads : FillChunk(i)
  \/ JoinFillers \/ Publish \/ FallBack \/ InitThrows

(***************************************************************************)
(* hash_data and the pipeline calls: the first one of a thread makes its   *)
(* VM.  thread_local holder: the VM goes with its thread.                  *)
(***************************************************************************)
Hash(h) ==
  /\ initialized
  /\ vm' = [vm EXCEPT ![h] = IF @ = NoVm THEN flags ELSE @]
  /\ UNCHANGED <<machineVars, rxpc, wanted, memoryVars, stateVars>>

DestroyVm(h) == vm' = [vm EXCEPT ![h] = NoVm]

\* shutdown_hashing, that is release_randomx_state, which each attempt to initialise
\* also begins with, when there is nothing yet to release.
ReleaseState ==
  /\ initialized' = FALSE
  /\ caches' = 0
  /\ datasets' = 0
  /\ UNCHANGED <<machineVars, rxpc, wanted, chunks, times, flags, vm>>

-----------------------------------------------------------------------------
RxTypeOK ==
  /\ asked \subseteq Options /\ wanted \subseteq Options /\ flags \subseteq Options
  /\ supported \subseteq {"jit", "aes", "large"}
  /\ bad \subseteq {"jit", "aes", "full", "large", "memory"}
  /\ rxpc \in {"uninitialized", "try", "dataset", "fill", "publish", "fallback",
               "ready", "threw"}
  /\ caches \in Nat /\ datasets \in Nat
  /\ chunks \subseteq Threads
  /\ times \in [ItemIds -> Nat]
  /\ initialized \in BOOLEAN
  /\ vm \in [Hashers -> (SUBSET Options) \cup {NoVm}]

\* The memory that is held at each step of the initialisation; while the
\* dataset is filled, an item is done iff its thread has run.
Held == {"dataset", "fill", "publish", "ready"}

RxInv ==
  /\ RxTypeOK
  /\ rxpc \notin {"ready"} => /\ ~ initialized
                             /\ caches = IF rxpc \in Held THEN 1 ELSE 0
  /\ rxpc \notin {"fill", "publish", "ready"} => datasets = 0
  /\ rxpc \in {"fill", "publish"} =>
        /\ Works(wanted)
        /\ datasets = IF "full" \in wanted THEN 1 ELSE 0
  /\ rxpc = "dataset" => "full" \in wanted
  /\ rxpc = "fill" =>
        /\ "full" \in wanted
        /\ \A k \in ItemIds :
             times[k] = IF \E i \in chunks : k \in Filled(i) THEN 0 ELSE 1
  /\ rxpc = "publish" /\ "full" \in wanted => \A k \in ItemIds : times[k] = 1
  /\ rxpc = "fallback" => ~ Works(wanted)
  /\ rxpc = "threw" => "memory" \in bad
  /\ rxpc # "uninitialized" /\ bad \subseteq {"large"} =>
        wanted \in {Granted, Granted \ bad}
  /\ rxpc = "ready" => Works(flags) /\ flags = wanted
  /\ rxpc = "ready" /\ "full" \in flags => \A k \in ItemIds : times[k] = 1

(***************************************************************************)
(* What the ladder ends with, against what the machine can do: it fails    *)
(* only where nothing works; a machine whose only trouble is large pages   *)
(* loses large pages only ("large page privilege failures are common and   *)
(* should not force AES fallback", crypto.cpp:656); and nothing the        *)
(* machine cannot do is left in the flags.                                 *)
(***************************************************************************)
LadderOutcome ==
  /\ rxpc = "threw" => "memory" \in bad
  /\ rxpc = "ready" => Works(flags)
  /\ rxpc = "ready" /\ bad \subseteq {"large"} => flags = Granted \ bad

(***************************************************************************)
(* Before any thread can hash in full-memory mode each item of the dataset *)
(* has been initialised, and by one thread only (crypto.cpp:562-584); and  *)
(* a failed attempt keeps no memory.                                       *)
(***************************************************************************)
DatasetWhole ==
  /\ rxpc = "ready" /\ "full" \in flags => \A k \in ItemIds : times[k] = 1
  /\ rxpc \in {"fallback", "threw"} => caches = 0 /\ datasets = 0
=============================================================================
