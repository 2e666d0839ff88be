---------------------------- MODULE PoolSession ----------------------------
(***************************************************************************)
(* What StratumClient promises run_pool_stratum, which knows nothing of    *)
(* methods, variants, connections and messages: login succeeds or gives    *)
(* up, once; from then on poll_job returns the pool's jobs, each once, in  *)
(* order and without leaving one out that has come, or says that none has; *)
(* submit_share says of each share, once, what the pool did with it.  How  *)
(* a ladder of dialects on a stream shared by answers and jobs comes to    *)
(* that is the business of StratumClient, which implements this module.    *)
(***************************************************************************)
EXTENDS Naturals, Sequences

CONSTANTS Modes,     \* the ways to submit a share that login may settle on
          Resending  \* those in which an unanswered share is sent again

VARIABLES phase,     \* "login", "ready", "polling", "submitting", "failed" or "threw"
          mode,      \* how shares are submitted, "UNKNOWN" until login says
          taken,     \* the last job returned: jobs are numbered as they are sent
          waiting,   \* the jobs that have come and have not been returned
          share,     \* the number of shares given to submit_share
          verdicts,  \* what it has said of them
          credited   \* the shares the pool has accepted

sessionVars == <<phase, mode, taken, waiting, share, verdicts, credited>>
jobVars   == <<taken, waiting>>
shareVars == <<share, verdicts, credited>>

SessionInit ==
  /\ phase = "login" /\ mode = "UNKNOWN"
  /\ taken = 0 /\ waiting = {} /\ share = 0 /\ verdicts = << >> /\ credited = {}

\* A job newer than all there are.
Newer(n) == n \in Nat /\ n > taken /\ \A m \in waiting : n > m

\* The answers of a login may bring jobs.
LogIn ==
  /\ phase = "login"
  /\ \/ /\ phase' = "ready" /\ mode' \in Modes
        /\ \A n \in waiting' : Newer(n)
     \/ phase' = "failed" /\ UNCHANGED <<mode, waiting>>
  /\ UNCHANGED <<taken, shareVars>>

\* poll_job returns the oldest job that waits; if there is none it asks ...
ReturnWaiting ==
  /\ phase = "ready"
  /\ taken' \in waiting /\ \A n \in waiting : taken' <= n
  /\ waiting' = waiting \ {taken'}
  /\ UNCHANGED <<phase, mode, shareVars>>

Ask ==
  /\ phase = "ready"
  /\ waiting = {}
  /\ phase' = "polling"
  /\ UNCHANGED <<mode, jobVars, shareVars>>

\* ... and returns the one that comes, or none.
ReturnNew ==
  /\ phase = "polling"
  /\ phase' = "ready"
  /\ Newer(taken')
  /\ UNCHANGED <<mode, waiting, shareVars>>

ReturnNone ==
  /\ phase = "polling"
  /\ phase' = "ready"
  /\ UNCHANGED <<mode, jobVars, shareVars>>

GiveShare ==
  /\ phase = "ready"
  /\ phase' = "submitting"
  /\ share' = share + 1
  /\ UNCHANGED <<mode, jobVars, verdicts, credited>>

\* A job comes while submit_share waits for its answer.
Keep ==
  /\ phase = "submitting"
  /\ \E n \in waiting' : Newer(n) /\ waiting' = waiting \cup {n}
  /\ UNCHANGED <<phase, mode, taken, shareVars>>

\* "failed" promises nothing: the pool may have the share, or get it later.
Judge ==
  /\ phase = "submitting"
  /\ phase' = "ready"
  /\ \E verdict \in {"accepted", "rejected", "failed"} :
       /\ verdicts' = Append(verdicts, verdict)
       /\ verdict = "accepted" => share \in credited
       /\ verdict = "rejected" /\ mode \notin Resending => share \notin credited
  /\ UNCHANGED <<mode, jobVars, share, credited>>

\* The pool accepts a share given to it, but no longer one reported rejected.
Credit ==
  /\ \E s \in (1 .. share) \ credited :
       /\ credited' = credited \cup {s}
       /\ s \in DOMAIN verdicts /\ mode \notin Resending => verdicts[s] # "rejected"
  /\ UNCHANGED <<phase, mode, jobVars, share, verdicts>>

\* Any call may throw, which ends the session: the share it was about, if any,
\* is not judged.
Throw ==
  /\ phase \in {"login", "polling", "submitting"}
  /\ phase' = "threw"
  /\ UNCHANGED <<mode, jobVars, shareVars>>

SessionNext ==
  \/ LogIn \/ ReturnWaiting \/ Ask \/ ReturnNew \/ ReturnNone
  \/ GiveShare \/ Keep \/ Judge \/ Credit \/ Throw

SessionSpec == SessionInit /\ [][SessionNext]_sessionVars
=============================================================================
