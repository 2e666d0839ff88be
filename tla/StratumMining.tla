---------------------------- MODULE StratumMining ----------------------------
(***************************************************************************)
(* Mining for a stratum pool: Miner::run_pool_stratum (src/miner.cpp), its *)
(* main loop, which polls the pool for jobs and submits shares, and its    *)
(* worker threads, which hash the active job and queue the shares found.   *)
(*                                                                         *)
(* StratumClient is abstracted here to the outcomes its calls have:        *)
(* poll_job returns a job, times out or reports a broken stream, and       *)
(* submit_share fails, or says whether the pool accepted.  A job is its    *)
(* job_id, its clean_jobs flag and the number under which it arrived,      *)
(* which stands for its blob, target and height: the pool may send         *)
(* different work under one job_id, or the same job twice.  A call that    *)
(* throws (ReadThrows in StratumClient) ends the process, since there are  *)
(* threads nobody has joined: see MinerProcess.                            *)
(*                                                                         *)
(* One action is one critical section, or one access to the atomics the    *)
(* threads share.  A worker at "block" holds job_mutex: it found the wait  *)
(* predicate false and has not gone to sleep yet.  share_mutex is never    *)
(* held across two actions.                                                *)
(***************************************************************************)
EXTENDS Naturals, Sequences, FiniteSets

CONSTANTS Workers,  \* worker ids, 0 .. thread_count - 1 in the code
          JobIds,   \* job_id values the pool uses
          NoId,     \* the empty job_id of a StratumJob{}
          MaxJobs,  \* bound on the jobs the pool sends
          MaxHits   \* bound on the shares one worker finds

ASSUME StratumAssumption ==
  /\ Workers # {}
  /\ JobIds # {} /\ NoId \notin JobIds
  /\ MaxJobs \in Nat /\ MaxHits \in Nat

VARIABLES
  stop,         \* stop_
  paused,       \* paused_
  quit,         \* quit_workers
  version,      \* job_version; have_job is version > 0
  active_job,   \* active_job
  pending,      \* pending_shares
  pc,           \* where each worker is
  observed,     \* each worker's observed_version
  local_job,    \* each worker's local_job
  hits,         \* shares each worker has found so far
  mpc,          \* where the main loop is
  incoming,     \* incoming_job
  share,        \* the share in the main loop's hands
  prefer_alt,   \* prefer_alt_nonce_format
  pool_alt,     \* the nonce format the pool understands; never changes
  stream,       \* whether the pool's stream is "up" or "broken"
  ledger        \* what became of every share that left the queue for good

jobVars    == <<version, active_job>>
workerVars == <<pc, observed, local_job, hits>>
mainVars   == <<mpc, incoming, share, prefer_alt>>
poolVars   == <<stream, pool_alt>>
userVars   == <<stop, paused>>
vars == <<jobVars, pending, workerVars, mainVars, poolVars, userVars, quit, ledger>>

\* "top": head of the worker's outer loop; "wait" / "block" / "asleep" in
\* job_cv.wait; "hot": in the hot loop; "push": a share in hand.
WorkerPC == {"top", "wait", "block", "asleep", "hot", "push", "exited"}
MainPC == {"poll", "install", "clear", "notify", "pop", "check",
           "submit", "fallback", "quit", "quit_notify", "join", "done"}

Job == [id : JobIds \cup {NoId}, clean : BOOLEAN, serial : 0 .. MaxJobs]
NoJob == [id |-> NoId, clean |-> FALSE, serial |-> 0]
Share == [by : Workers, n : 1 .. MaxHits, id : JobIds \cup {NoId},
          serial : 0 .. MaxJobs]
NoShare == [by |-> NoId, n |-> 0, id |-> NoId, serial |-> 0]
Outcome == {"clean", "stale", "failed", "accepted", "rejected"}

Init ==
  /\ stop = FALSE /\ paused = FALSE /\ quit = FALSE
  /\ version = 0 /\ active_job = NoJob /\ pending = << >>
  /\ pc = [w \in Workers |-> "top"]
  /\ observed = [w \in Workers |-> 0]
  /\ local_job = [w \in Workers |-> NoJob]
  /\ hits = [w \in Workers |-> 0]
  /\ mpc = "poll" /\ incoming = NoJob /\ share = NoShare
  /\ prefer_alt = FALSE /\ pool_alt \in BOOLEAN
  /\ stream = "up" /\ ledger = {}

JobMutexFree == \A w \in Workers : pc[w] # "block"

Move(w, to) == pc' = [pc EXCEPT ![w] = to]

\* job_cv.notify_all.
WakeWorkers_NotSent == pc
WakeWorkers == [w \in Workers |-> IF pc[w] = "asleep" THEN "wait" ELSE pc[w]]

Seal(s, outcome) == ledger' = ledger \cup {[share |-> s, outcome |-> outcome]}

(***************************************************************************)
(* A definition named D_<fault> is D with a plausible bug seeded; nothing  *)
(* of the specification uses it.  Each one breaks a property below.        *)
(***************************************************************************)

(***************************************************************************)
(* The worker threads.                                                     *)
(***************************************************************************)
\* The outer loop; while paused the worker sleeps 50 ms and looks again.
Top(w) ==
  /\ pc[w] = "top"
  /\ stop \/ quit \/ ~paused
  /\ Move(w, IF stop \/ quit THEN "exited" ELSE "wait")
  /\ UNCHANGED <<jobVars, pending, observed, local_job, hits, mainVars,
                 poolVars, userVars, quit, ledger>>

\* The version a worker remembers along with the job it copied.
SeenVersion == version

TakeJob(w) ==
  /\ pc[w] = "wait"
  /\ JobMutexFree
  /\ ~stop /\ ~quit
  /\ version > 0 /\ version # observed[w]
  /\ Move(w, "hot")
  /\ observed' = [observed EXCEPT ![w] = SeenVersion]
  /\ local_job' = [local_job EXCEPT ![w] = active_job]
  /\ UNCHANGED <<jobVars, pending, hits, mainVars, poolVars, userVars, quit, ledger>>

\* The wait's predicate is false (the worker still holds the mutex), or a
\* flag is up and the worker leaves.
WaitForJob(w) ==
  /\ pc[w] = "wait"
  /\ JobMutexFree
  /\ \/ (stop \/ quit) /\ Move(w, "exited")
     \/ ~stop /\ ~quit /\ version = observed[w] /\ Move(w, "block")
  /\ UNCHANGED <<jobVars, pending, observed, local_job, hits, mainVars,
                 poolVars, userVars, quit, ledger>>

FallAsleep(w) ==
  /\ pc[w] = "block"
  /\ Move(w, "asleep")
  /\ UNCHANGED <<jobVars, pending, observed, local_job, hits, mainVars,
                 poolVars, userVars, quit, ledger>>

SpuriousWakeup(w) ==
  /\ pc[w] = "asleep"
  /\ Move(w, "wait")
  /\ UNCHANGED <<jobVars, pending, observed, local_job, hits, mainVars,
                 poolVars, userVars, quit, ledger>>

MayHash(w) == ~stop /\ ~quit /\ ~paused /\ version = observed[w]

LeaveHotLoop(w) ==
  /\ pc[w] = "hot"
  /\ ~MayHash(w)
  /\ Move(w, "top")
  /\ UNCHANGED <<jobVars, pending, observed, local_job, hits, mainVars,
                 poolVars, userVars, quit, ledger>>

\* An iteration that hashes below the target; the others change nothing.
Hit(w) ==
  /\ pc[w] = "hot"
  /\ MayHash(w)
  /\ hits[w] < MaxHits
  /\ hits' = [hits EXCEPT ![w] = @ + 1]
  /\ Move(w, "push")
  /\ UNCHANGED <<jobVars, pending, observed, local_job, mainVars, poolVars,
                 userVars, quit, ledger>>

\* The share a worker at "push" has in its hands.
ShareOf(w) == [by |-> w, n |-> hits[w], id |-> local_job[w].id,
               serial |-> local_job[w].serial]

PushShare(w) ==
  /\ pc[w] = "push"
  /\ Move(w, "hot")
  /\ pending' = Append(pending, ShareOf(w))
  /\ UNCHANGED <<jobVars, observed, local_job, hits, mainVars, poolVars,
                 userVars, quit, ledger>>

(***************************************************************************)
(* The main loop: one poll, at most one job, at most one share.            *)
(***************************************************************************)
LeaveLoop ==
  /\ mpc = "poll"
  /\ stop
  /\ mpc' = "quit"
  /\ UNCHANGED <<jobVars, pending, workerVars, incoming, share, prefer_alt,
                 poolVars, userVars, quit, ledger>>

\* poll_job returns the pool's next job.
PollJob(id, clean) ==
  /\ mpc = "poll"
  /\ ~stop
  /\ stream = "up"
  /\ version < MaxJobs
  /\ mpc' = "install"
  /\ incoming' = [id |-> id, clean |-> clean, serial |-> version + 1]
  /\ UNCHANGED <<jobVars, pending, workerVars, share, prefer_alt, poolVars,
                 userVars, quit, ledger>>

\* "timeout waiting for pool message": nothing to report.
PollTimesOut ==
  /\ mpc = "poll"
  /\ ~stop
  /\ stream = "up"
  /\ mpc' = "pop"
  /\ UNCHANGED <<jobVars, pending, workerVars, incoming, share, prefer_alt,
                 poolVars, userVars, quit, ledger>>

\* Where the loop goes on after a broken poll: a share may still be waiting.
AfterBrokenPoll_Continue == "poll"
AfterBrokenPoll == "pop"

\* Bad JSON (the stream stays up), or the connection is gone, which every
\* later poll reports again at once.
PollFails ==
  /\ mpc = "poll"
  /\ ~stop
  /\ mpc' = AfterBrokenPoll
  /\ UNCHANGED <<jobVars, pending, workerVars, incoming, share, prefer_alt,
                 poolVars, userVars, quit, ledger>>

\* The critical section of job_mutex that installs a job.
JobMayInstall_Unlocked == TRUE
JobMayInstall == JobMutexFree

InstallJob ==
  /\ mpc = "install"
  /\ JobMayInstall
  /\ mpc' = IF incoming.clean THEN "clear" ELSE "notify"
  /\ active_job' = incoming
  /\ version' = version + 1
  /\ incoming' = NoJob
  /\ UNCHANGED <<pending, workerVars, share, prefer_alt, poolVars, userVars,
                 quit, ledger>>

\* clean_jobs: the queue is emptied after job_mutex has been released.
ClearPending ==
  /\ mpc = "clear"
  /\ mpc' = "notify"
  /\ pending' = << >>
  /\ ledger' = ledger \cup
       {[share |-> pending[i], outcome |-> "clean"] : i \in DOMAIN pending}
  /\ UNCHANGED <<jobVars, workerVars, incoming, share, prefer_alt, poolVars,
                 userVars, quit>>

NotifyJob ==
  /\ mpc = "notify"
  /\ mpc' = "pop"
  /\ pc' = WakeWorkers
  /\ UNCHANGED <<jobVars, pending, observed, local_job, hits, incoming, share,
                 prefer_alt, poolVars, userVars, quit, ledger>>

\* What is left of the queue once its first share is taken.
AfterPop_KeepsFront(shares) == shares
AfterPop(shares) == Tail(shares)

PopShare ==
  /\ mpc = "pop"
  /\ pending # << >>
  /\ mpc' = "check"
  /\ share' = Head(pending)
  /\ pending' = AfterPop(pending)
  /\ UNCHANGED <<jobVars, workerVars, incoming, prefer_alt, poolVars, userVars,
                 quit, ledger>>

NothingToSubmit ==
  /\ mpc = "pop"
  /\ pending = << >>
  /\ mpc' = "poll"
  /\ UNCHANGED <<jobVars, pending, workerVars, incoming, share, prefer_alt,
                 poolVars, userVars, quit, ledger>>

\* The share was found for another job_id than the active one.
IsStale_NeverAsked(s) == FALSE
IsStale(s) == version > 0 /\ s.id # active_job.id

CheckShare ==
  /\ mpc = "check"
  /\ JobMutexFree
  /\ IF IsStale(share)
     THEN mpc' = "poll" /\ Seal(share, "stale") /\ share' = NoShare
     ELSE mpc' = "submit" /\ UNCHANGED <<ledger, share>>
  /\ UNCHANGED <<jobVars, pending, workerVars, incoming, prefer_alt, poolVars,
                 userVars, quit>>

\* The main loop is done with its share.
Resolve(outcome) ==
  /\ mpc' = "poll"
  /\ Seal(share, outcome)
  /\ share' = NoShare

\* submit_share returns false: the share is gone.
SubmitFails ==
  /\ mpc = "submit"
  /\ Resolve("failed")
  /\ UNCHANGED <<jobVars, pending, workerVars, incoming, prefer_alt, poolVars,
                 userVars, quit>>

\* Only the format the pool understands can be accepted; the other one
\* hashes to something else, which the pool finds above the target.
SubmitAccepted ==
  /\ mpc = "submit"
  /\ prefer_alt = pool_alt
  /\ Resolve("accepted")
  /\ UNCHANGED <<jobVars, pending, workerVars, incoming, prefer_alt, poolVars,
                 userVars, quit>>

SubmitRejected ==
  /\ mpc = "submit"
  /\ Resolve("rejected")
  /\ UNCHANGED <<jobVars, pending, workerVars, incoming, prefer_alt, poolVars,
                 userVars, quit>>

\* "Block pow difficulty is not up to target": try the other nonce format.
SubmitMismatch ==
  /\ mpc = "submit"
  /\ mpc' = "fallback"
  /\ UNCHANGED <<jobVars, pending, workerVars, incoming, share, prefer_alt,
                 poolVars, userVars, quit, ledger>>

\* The format to prefer after a fallback that the pool accepted or refused.
FormatAfter_AlwaysOther(ok) == ~prefer_alt
FormatAfter(ok) == IF ok THEN ~prefer_alt ELSE prefer_alt

Fallback ==
  /\ mpc = "fallback"
  /\ \E ok \in BOOLEAN :
       /\ ok => prefer_alt # pool_alt
       /\ prefer_alt' = FormatAfter(ok)
       /\ Resolve(IF ok THEN "accepted" ELSE "rejected")
  /\ UNCHANGED <<jobVars, pending, workerVars, incoming, poolVars, userVars, quit>>

\* After the loop: stop the workers, join them, disconnect.
QuitFlag ==
  /\ mpc = "quit"
  /\ mpc' = "quit_notify"
  /\ quit' = TRUE
  /\ UNCHANGED <<jobVars, pending, workerVars, incoming, share, prefer_alt,
                 poolVars, userVars, ledger>>

QuitNotify ==
  /\ mpc = "quit_notify"
  /\ mpc' = "join"
  /\ pc' = WakeWorkers
  /\ UNCHANGED <<jobVars, pending, observed, local_job, hits, incoming, share,
                 prefer_alt, poolVars, userVars, quit, ledger>>

JoinWorkers ==
  /\ mpc = "join"
  /\ \A w \in Workers : pc[w] = "exited"
  /\ mpc' = "done"
  /\ UNCHANGED <<jobVars, pending, workerVars, incoming, share, prefer_alt,
                 poolVars, userVars, quit, ledger>>

(***************************************************************************)
(* The user, through request_stop, request_pause and request_resume (whose *)
(* other effects concern the pool of WorkerPool), and the network.         *)
(***************************************************************************)
Stop ==
  /\ ~stop
  /\ stop' = TRUE
  /\ UNCHANGED <<jobVars, pending, workerVars, mainVars, poolVars, paused, quit, ledger>>

Pause ==
  /\ paused' = TRUE
  /\ UNCHANGED <<jobVars, pending, workerVars, mainVars, poolVars, stop, quit,
                 ledger>>

Resume ==
  /\ paused' = FALSE
  /\ UNCHANGED <<jobVars, pending, workerVars, mainVars, poolVars, stop, quit,
                 ledger>>

StreamBreaks ==
  /\ stream = "up"
  /\ stream' = "broken"
  /\ UNCHANGED <<jobVars, pending, workerVars, mainVars, pool_alt, userVars, quit, ledger>>
-----------------------------------------------------------------------------
Worker(w) ==
  \/ Top(w) \/ TakeJob(w) \/ WaitForJob(w) \/ FallAsleep(w)
  \/ LeaveHotLoop(w) \/ PushShare(w)

Main ==
  \/ LeaveLoop \/ (\E id \in JobIds, clean \in BOOLEAN : PollJob(id, clean))
  \/ PollTimesOut \/ PollFails \/ InstallJob \/ ClearPending \/ NotifyJob
  \/ PopShare \/ NothingToSubmit \/ CheckShare
  \/ SubmitFails \/ SubmitAccepted \/ SubmitRejected \/ SubmitMismatch \/ Fallback
  \/ QuitFlag \/ QuitNotify \/ JoinWorkers

Environment ==
  \/ Stop \/ Pause \/ Resume \/ StreamBreaks
  \/ \E w \in Workers : SpuriousWakeup(w)

Next == Main \/ (\E w \in Workers : Worker(w) \/ Hit(w)) \/ Environment

Spec == Init /\ [][Next]_vars

(***************************************************************************)
(* The operating system runs every thread, and a thread that wants         *)
(* job_mutex gets it (strong fairness on the steps that lock it).  Every   *)
(* call of StratumClient returns (CallsReturn, module StratumClient).  The *)
(* user, the network, spurious wakeups and the luck of a hash owe nothing. *)
(***************************************************************************)
Fairness ==
  /\ WF_vars(Main) /\ SF_vars(InstallJob \/ CheckShare)
  /\ \A w \in Workers :
       WF_vars(Worker(w)) /\ SF_vars(TakeJob(w) \/ WaitForJob(w))

FairSpec == Spec /\ Fairness
-----------------------------------------------------------------------------
TypeOK ==
  /\ stop \in BOOLEAN /\ paused \in BOOLEAN /\ quit \in BOOLEAN
  /\ version \in 0 .. MaxJobs /\ active_job \in Job
  /\ pending \in Seq(Share)
  /\ pc \in [Workers -> WorkerPC]
  /\ observed \in [Workers -> 0 .. MaxJobs]
  /\ local_job \in [Workers -> Job]
  /\ hits \in [Workers -> 0 .. MaxHits]
  /\ mpc \in MainPC /\ incoming \in Job
  /\ share \in Share \cup {NoShare}
  /\ prefer_alt \in BOOLEAN /\ pool_alt \in BOOLEAN
  /\ stream \in {"up", "broken"}
  /\ ledger \subseteq [share : Share, outcome : Outcome]

\* The job a worker hashes is the job of the version it watches.  The two
\* are copied under job_mutex, watched and replaced separately: were they to
\* part, a worker would go on with dead work, no change of job_version
\* telling it to stop.
VersionNamesTheJob ==
  /\ active_job.serial = version
  /\ \A w \in Workers :
       /\ local_job[w].serial = observed[w] /\ observed[w] <= version
       /\ observed[w] = version => local_job[w] = active_job

\* A share goes to the pool only under the job_id of the active job, however
\* many jobs came in while it was in the queue.
SubmitsTheActiveJob ==
  mpc \in {"submit", "fallback"} => share.id = active_job.id

\* The shares that were found and have not been answered, given up or
\* dropped: the queue and the main loop's hands.
Queued == {pending[i] : i \in DOMAIN pending}
InHand == IF share = NoShare THEN {} ELSE {share}
Resolved == {entry.share : entry \in ledger}

\* Every share has one fate: it is queued once, leaves the queue when it is
\* taken, and is answered, given up or dropped once.
EveryShareOneFate ==
  /\ \A i, j \in DOMAIN pending : pending[i] = pending[j] => i = j
  /\ Queued \cap InHand = {}
  /\ (Queued \cup InHand) \cap Resolved = {}
  /\ \A a, b \in ledger : a.share = b.share => a = b

\* Shares are numbered as they are found: one that is still in its finder's
\* hands is newer than every share known elsewhere.
SharesNumbered ==
  \A s \in Queued \cup InHand \cup Resolved :
    /\ s \in Share
    /\ s.n <= hits[s.by]
    /\ pc[s.by] = "push" => s.n < hits[s.by]

\* A share comes from a job: there is none before the first.
SharesHaveAnOrigin ==
  /\ \A w \in Workers : pc[w] \in {"hot", "push"} => observed[w] > 0
  /\ \A w \in Workers : pc[w] = "push" => hits[w] > 0
  /\ pending # << >> \/ share # NoShare => version > 0

\* What the main loop knows at each of its steps.
MainKnows ==
  /\ mpc = "install" => incoming.serial = version + 1
  /\ share # NoShare <=> mpc \in {"check", "submit", "fallback"}

\* The inductive invariant: queueing, dropping and answering shares and
\* replacing the job under them keep all of this together.
StratumInv ==
  /\ TypeOK
  /\ MainKnows
  /\ VersionNamesTheJob
  /\ SubmitsTheActiveJob
  /\ SharesHaveAnOrigin
  /\ SharesNumbered
  /\ EveryShareOneFate

\* job_cv remembers no notification.  A worker that is not on the active job is
\* on its way to look for it, or has left because of a stop, or sleeps while the
\* main loop is on its way to notify_all: no worker goes to sleep on a job that
\* has been replaced under it.
NoJobSleptThrough ==
  \A w \in Workers : version # observed[w] =>
    \/ pc[w] \in {"top", "wait", "hot", "push"}
    \/ pc[w] = "exited" /\ stop
    \/ pc[w] = "asleep" /\ mpc \in {"clear", "notify"}

\* The workers are sent away, and leave, only because of a stop.
LeavesOnStop ==
  /\ mpc \in {"quit", "quit_notify", "join", "done"} \/ quit => stop
  /\ \A w \in Workers : pc[w] = "exited" => stop

\* Once the format of the nonce is the one the pool understands it stays so:
\* only a share the pool accepted in the other format changes it.
FormatSettles == [][prefer_alt = pool_alt => prefer_alt' = prefer_alt]_vars

\* A new job reaches every worker, asleep or busy with the old one, unless
\* mining is paused or stopped first.
NewJobReachesWorkers ==
  \A w \in Workers :
    version # observed[w] ~> version = observed[w] \/ paused \/ stop

\* A stop ends the mode, whatever the workers and the pool are doing, but for
\* one case: quit_workers goes up while a worker is between its predicate and
\* its sleep, and the notification may come before it sleeps.
StopEndsUnlessMissed ==
  stop /\ mpc # "join" /\ mpc # "quit_notify"
    ~> \/ mpc = "done"
       \/ mpc = "quit_notify" /\ ~JobMutexFree

\* A queued share is submitted or dropped even if the pool sends no jobs, or
\* its stream is broken.
SharesDrain ==
  \A w \in Workers : pc[w] = "push" ~> stop \/ (pending = << >> /\ share = NoShare)
=============================================================================
