---------------------------- MODULE StratumClient ----------------------------
(***************************************************************************)
(* StratumClient (src/stratum_client.cpp): logging in to a pool of an      *)
(* unknown dialect, matching answers with requests on a connection that    *)
(* also carries jobs, polling for jobs and submitting shares.              *)
(*                                                                         *)
(* login tries five methods, each with some variants of its request, on a  *)
(* new connection each; the text of the variants is abstracted to their    *)
(* number.  A message is what the code finds in it: a job, a difficulty    *)
(* ("odd" when it is not a number), something that is not JSON ("bad"), or *)
(* the answer to a request, which says "ok", "no" (a result of false),     *)
(* "error", or "retry" (an error such as an unknown method, after which    *)
(* submit_share tries the next form).                                      *)
(*                                                                         *)
(* The client is used by one thread.  One action is a message sent, a      *)
(* message read or a read that failed, with all the code does about it.    *)
(* The pool is external: it answers late, out of order or not at all,      *)
(* sends jobs at any time and drops connections.                           *)
(***************************************************************************)
EXTENDS Naturals, Sequences

CONSTANTS
  Ladder,     \* the methods in the order login tries them (1, 2, 3, 4, 5)
  Variants,   \* Variants[m]: request forms of the login method m (8, 6, 8, 6, 6)
  Auths,      \* authorize methods try_mining_method tries (3)
  Forms,      \* Forms[mode]: forms in which submit_share sends a share
  MaxShares,  \* bound on the shares submitted
  MaxSent,    \* bound on the messages the pool sends unasked
  MaxWire     \* bound on the messages on their way at one time

\* The methods of login: 1 login, 2 mining.auth, 3 Login, 4 mining.subscribe
\* and mining.authorize, 5 mining.authorize only; the mode each one ends in.
Methods == 1 .. 5
Mode == <<"LOGIN_SUBMIT", "MINING_AUTH_SUBMIT_SHORT", "LOGIN_CAPS_SUBMIT",
          "MINING_SUBMIT", "MINING_SUBMIT">>
Modes == {Mode[m] : m \in Methods}

ASSUME ClientAssumption ==
  /\ Ladder \in Seq(Methods) /\ Ladder # << >>
  /\ Variants \in [Methods -> Nat \ {0}] /\ Auths \in Nat \ {0}
  /\ Forms \in [Modes -> Nat \ {0}]
  /\ MaxShares \in Nat /\ MaxSent \in Nat /\ MaxWire \in Nat

VARIABLES
  sock,        \* socket_fd_: "none", "live", or "dead" once the pool is gone
  conn,        \* the number of the connection, 0 before any
  wire,        \* messages on their way, and in rx_buffer_
  next_id,     \* next_request_id_
  queued,      \* queued_jobs_
  session,     \* session_id_: the connection it was given on, 0 without one
  difficulty,  \* difficulty_: likewise
  mode,        \* mode_
  stage,       \* "reconnect", "send", "read", "ready", "failed" or "threw"
  call,        \* what is being sent or read for
  rung, variant, auth,  \* the attempt of login in progress: Ladder[rung]
  form,        \* the form in which the share is being sent
  req,         \* the id of the request in progress
  share,       \* the last share given to submit_share
  taken,       \* the last job poll_job has returned
  verdicts,    \* what submit_share has said of each share
  asked,       \* requests the pool has got on this connection and not answered
  served,      \* jobs the pool has sent
  sent,        \* messages it has sent unasked
  credited     \* shares it has accepted

connVars  == <<sock, conn>>
stateVars == <<queued, session, difficulty, mode>>
loginVars == <<rung, variant, auth>>
shareVars == <<form, share, verdicts>>
poolVars  == <<asked, served, sent, credited>>
vars == <<connVars, wire, next_id, stateVars, stage, call, loginVars, req,
          shareVars, taken, poolVars>>

method == Ladder[rung]
Job(n) == [serial |-> n, conn |-> conn]

\* How each method begins.
FirstCall(m) == IF m \in {1, 3} THEN "login" ELSE IF m = 4 THEN "subscribe" ELSE "auth"

\* run_pool_stratum connects before it logs in.
Init ==
  /\ sock = "live" /\ conn = 1 /\ wire = << >> /\ next_id = 1
  /\ queued = << >> /\ session = 0 /\ difficulty = 0 /\ mode = "UNKNOWN"
  /\ stage = "send" /\ call = FirstCall(Ladder[1]) /\ rung = 1 /\ variant = 1 /\ auth = 1
  /\ form = 1 /\ req = 0 /\ share = 0 /\ taken = 0 /\ verdicts = << >>
  /\ asked = {} /\ served = 0 /\ sent = 0 /\ credited = {}

(***************************************************************************)
(* A definition named D_<fault> is D with a plausible bug seeded; nothing  *)
(* of the specification uses it.  Each one breaks a property below.        *)
(***************************************************************************)

(***************************************************************************)
(* How an attempt goes on once one of its calls has failed.                *)
(***************************************************************************)
NextMethod ==
  IF rung < Len(Ladder)
  THEN stage' = "reconnect" /\ rung' = rung + 1 /\ variant' = 1 /\ auth' = 1
       /\ UNCHANGED call
  ELSE stage' = "failed" /\ UNCHANGED <<loginVars, call>>

NextVariant ==
  IF variant < Variants[method]
  THEN stage' = "reconnect" /\ variant' = variant + 1 /\ auth' = 1
       /\ UNCHANGED <<rung, call>>
  ELSE NextMethod

\* try_mining_method goes through the authorize methods on one connection.
AuthFails ==
  IF method = 4 /\ call # "subscribe" /\ auth < Auths
  THEN auth' = auth + 1 /\ stage' = "send" /\ call' = "authorize"
       /\ UNCHANGED <<rung, variant>>
  ELSE NextVariant

(***************************************************************************)
(* reconnect: disconnect forgets the connection's state, then connect.     *)
(***************************************************************************)
Forget_KeepsJobs ==
  session' = 0 /\ difficulty' = 0 /\ mode' = "UNKNOWN" /\ UNCHANGED queued
Forget == queued' = << >> /\ session' = 0 /\ difficulty' = 0 /\ mode' = "UNKNOWN"

NewConnection == wire' = << >> /\ asked' = {}

Reconnect ==
  /\ stage = "reconnect"
  /\ Forget /\ NewConnection
  /\ sock' = "live" /\ conn' = conn + 1
  /\ stage' = "send" /\ call' = FirstCall(method)
  /\ UNCHANGED <<next_id, loginVars, req, shareVars, taken, served, sent, credited>>

\* Between methods a failed reconnection skips the method; between the
\* variants of one it is ignored, and the request will fail.
ReconnectFails ==
  /\ stage = "reconnect"
  /\ Forget /\ NewConnection
  /\ sock' = "none"
  /\ IF variant = 1
     THEN NextMethod
     ELSE stage' = "send" /\ call' = FirstCall(method) /\ UNCHANGED loginVars
  /\ UNCHANGED <<conn, next_id, req, shareVars, taken, served, sent, credited>>

(***************************************************************************)
(* The sending half of request_response and request_response_or_job.       *)
(***************************************************************************)
\* A share goes to the pool under the session's id, or the user's.
Request == [id |-> next_id, call |-> call, share |-> IF call = "submit" THEN share ELSE 0]

Send ==
  /\ stage = "send"
  /\ sock # "none"
  /\ stage' = "read"
  /\ req' = next_id /\ next_id' = next_id + 1
  /\ asked' = IF sock = "live" THEN asked \cup {Request} ELSE asked
  /\ UNCHANGED <<connVars, wire, stateVars, call, loginVars, shareVars, taken,
                 served, sent, credited>>

\* submit_share reports a share.
Report(verdict) ==
  /\ verdicts' = Append(verdicts, verdict)
  /\ stage' = "ready"
  /\ UNCHANGED <<call, loginVars, form, share>>

\* There is another form to send the share in.
FormsLeft == form < Forms[mode]

NextForm ==
  /\ form' = form + 1 /\ stage' = "send"
  /\ UNCHANGED <<call, loginVars, share, verdicts>>

\* A share whose request went without an answer is sent in its next form.
ResendsUnanswered_Always == TRUE
ResendsUnanswered == mode = "LOGIN_CAPS_SUBMIT"

\* The call has failed: what the code does next depends on who made it.
CallFails ==
  CASE call = "poll" -> stage' = "ready" /\ UNCHANGED <<call, loginVars, shareVars>>
    [] call = "submit" ->
         IF ResendsUnanswered /\ FormsLeft THEN NextForm ELSE Report("failed")
    [] OTHER -> AuthFails /\ UNCHANGED shareVars

SendFails ==
  /\ stage = "send"
  /\ sock # "live"
  /\ next_id' = next_id + 1
  /\ CallFails
  /\ UNCHANGED <<connVars, wire, stateVars, req, taken, poolVars>>

(***************************************************************************)
(* The reading half, and the reads of poll_job.  read_message keeps the    *)
(* jobs and the difficulty it meets, whatever it is reading for.           *)
(***************************************************************************)
\* The wire is silent for too long, or ends.
Silence_NoTimeout == wire = << >> /\ sock # "live"
Silence == wire = << >>

\* Silence, or something unreadable.
ReadFails ==
  /\ stage = "read"
  /\ \/ Silence /\ UNCHANGED wire
     \/ wire # << >> /\ Head(wire).kind = "bad" /\ wire' = Tail(wire)
  /\ CallFails
  /\ UNCHANGED <<connVars, next_id, stateVars, req, taken, poolVars>>

Message == Head(wire)
Reading(kinds) ==
  /\ stage = "read" /\ wire # << >> /\ Message.kind \in kinds
  /\ wire' = Tail(wire)
  /\ UNCHANGED <<connVars, next_id, req, poolVars>>

\* job, mining.job or mining.notify.  A job whose blob, nonce offset or
\* target cannot be read is skipped like an answer nobody waits for.
ReadingJob == Reading({"job"})

\* The answer to the request in progress; others are skipped.
IsMine == Message.kind = "answer" /\ Message.id = req

ReadsForAnswer == {"login", "subscribe", "auth", "authorize", "submit"}
ReadsForJob == {"login", "first_job", "poll"}

Skip ==
  /\ Reading({"answer", "difficulty"})
  /\ ~(IsMine /\ call \in ReadsForAnswer)
  /\ difficulty' = IF Message.kind = "difficulty" THEN conn ELSE difficulty
  /\ UNCHANGED <<queued, session, mode, stage, call, loginVars, shareVars, taken>>

\* as_double throws, and nobody between read_message and the caller of login,
\* poll_job or submit_share catches: the call ends, and run_pool_stratum with it.
ReadThrows ==
  /\ Reading({"odd"})
  /\ stage' = "threw"
  /\ UNCHANGED <<stateVars, call, loginVars, shareVars, taken>>

\* A job comes in while something else is being waited for.
KeepJob ==
  /\ ReadingJob
  /\ call \notin ReadsForJob
  /\ queued' = Append(queued, Job(Message.serial))
  /\ UNCHANGED <<session, difficulty, mode, stage, call, loginVars, shareVars, taken>>

\* login and Login are content with a job in place of an answer.
JobForLogin ==
  /\ ReadingJob
  /\ call = "login"
  /\ queued' = Append(queued, Job(Message.serial))
  /\ mode' = Mode[method]
  /\ stage' = "ready"
  /\ UNCHANGED <<session, difficulty, call, loginVars, shareVars, taken>>

\* The answer to login may hold a session and a job; of Login's only the
\* session is used.
LoginAnswered ==
  /\ Reading({"answer"})
  /\ call = "login" /\ IsMine
  /\ Message.verdict \in {"ok", "no"}
  /\ session' = IF Message.session THEN conn ELSE session
  /\ queued' = IF method = 1 /\ Message.serial > 0
               THEN Append(queued, Job(Message.serial)) ELSE queued
  /\ mode' = Mode[method]
  /\ stage' = "ready"
  /\ UNCHANGED <<difficulty, call, loginVars, shareVars, taken>>

LoginRejected ==
  /\ Reading({"answer"})
  /\ call \in {"login", "subscribe", "auth", "authorize"} /\ IsMine
  /\ Message.verdict = "error"
  /\ AuthFails
  /\ UNCHANGED <<stateVars, shareVars, taken>>

SubscribeAnswered ==
  /\ Reading({"answer"})
  /\ call = "subscribe" /\ IsMine
  /\ Message.verdict \in {"ok", "no"}
  /\ stage' = "send" /\ call' = "authorize"
  /\ UNCHANGED <<stateVars, loginVars, shareVars, taken>>

\* The authorization is answered: the first job must come, or has come.
HasFirstJob_Unneeded == TRUE
HasFirstJob == queued # << >>

AuthAnswered ==
  /\ Reading({"answer"})
  /\ call \in {"auth", "authorize"} /\ IsMine
  /\ Message.verdict \in {"ok", "no"}
  /\ mode' = Mode[method]
  /\ IF HasFirstJob THEN stage' = "ready" /\ UNCHANGED call
                    ELSE stage' = "read" /\ call' = "first_job"
  /\ UNCHANGED <<queued, session, difficulty, loginVars, shareVars, taken>>

FirstJob ==
  /\ ReadingJob
  /\ call = "first_job"
  /\ queued' = Append(queued, Job(Message.serial))
  /\ stage' = "ready"
  /\ UNCHANGED <<session, difficulty, mode, call, loginVars, shareVars, taken>>

(***************************************************************************)
(* poll_job and submit_share, called in any order once logged in.          *)
(***************************************************************************)
\* The queued job to return, and what is left of the queue.
NextJob_Newest == queued[Len(queued)].serial
NextJob == Head(queued).serial

Poll ==
  /\ stage = "ready"
  /\ IF queued # << >>
     THEN taken' = NextJob /\ queued' = Tail(queued) /\ UNCHANGED <<stage, call>>
     ELSE stage' = "read" /\ call' = "poll" /\ UNCHANGED <<taken, queued>>
  /\ UNCHANGED <<connVars, wire, next_id, session, difficulty, mode, loginVars,
                 req, shareVars, poolVars>>

PolledJob ==
  /\ ReadingJob
  /\ call = "poll"
  /\ taken' = Message.serial
  /\ stage' = "ready"
  /\ UNCHANGED <<stateVars, call, loginVars, shareVars>>

Submit ==
  /\ stage = "ready"
  /\ share < MaxShares
  /\ share' = share + 1 /\ form' = 1
  /\ stage' = "send" /\ call' = "submit"
  /\ UNCHANGED <<connVars, wire, next_id, stateVars, loginVars, req, verdicts,
                 taken, poolVars>>

SubmitAnswered ==
  /\ Reading({"answer"})
  /\ call = "submit" /\ IsMine
  /\ IF Message.verdict = "retry" /\ FormsLeft
     THEN NextForm
     ELSE Report(IF Message.verdict = "ok" THEN "accepted" ELSE "rejected")
  /\ UNCHANGED <<stateVars, taken>>

(***************************************************************************)
(* The pool (external).  It accepts a share once.                          *)
(***************************************************************************)
Answer(r, verdict, job, sess) ==
  [kind |-> "answer", id |-> r.id, verdict |-> verdict,
   serial |-> IF job THEN served + 1 ELSE 0, session |-> sess]

\* "error" is told apart from "no" by login only, "retry" by submit_share.
Verdict(r) == {"ok", "no", IF r.call = "submit" THEN "retry" ELSE "error"}

PoolAnswers ==
  /\ sock = "live" /\ Len(wire) < MaxWire
  /\ \E r \in asked : \E verdict \in Verdict(r), job \in BOOLEAN, sess \in BOOLEAN :
       /\ job \/ sess => r.call = "login" /\ verdict = "ok"
       /\ job => sent < MaxSent
       /\ r.share \in credited => verdict # "ok"
       /\ wire' = Append(wire, Answer(r, verdict, job, sess))
       /\ asked' = asked \ {r}
       /\ credited' = IF r.call = "submit" /\ verdict = "ok"
                      THEN credited \cup {r.share} ELSE credited
       /\ served' = IF job THEN served + 1 ELSE served
       /\ sent' = IF job THEN sent + 1 ELSE sent
  /\ UNCHANGED <<connVars, next_id, stateVars, stage, call, loginVars, req,
                 shareVars, taken>>

PoolSends ==
  /\ sock = "live" /\ Len(wire) < MaxWire
  /\ sent < MaxSent
  /\ sent' = sent + 1
  /\ \E kind \in {"job", "difficulty", "odd", "bad"} :
       /\ wire' = Append(wire, [kind |-> kind, serial |-> served + 1])
       /\ served' = IF kind = "job" THEN served + 1 ELSE served
  /\ UNCHANGED <<connVars, next_id, stateVars, stage, call, loginVars, req,
                 shareVars, taken, asked, credited>>

PoolDrops ==
  /\ sock = "live"
  /\ sock' = "dead"
  /\ wire' \in {wire, << >>}
  /\ asked' = {}
  /\ UNCHANGED <<conn, next_id, stateVars, stage, call, loginVars, req,
                 shareVars, taken, served, sent, credited>>
-----------------------------------------------------------------------------
Call ==
  \/ Reconnect \/ ReconnectFails \/ Send \/ SendFails \/ ReadFails
  \/ Skip \/ ReadThrows \/ KeepJob \/ JobForLogin \/ LoginAnswered \/ LoginRejected
  \/ SubscribeAnswered \/ AuthAnswered \/ FirstJob \/ PolledJob \/ SubmitAnswered

Next == Call \/ Poll \/ Submit \/ PoolAnswers \/ PoolSends \/ PoolDrops

Spec == Init /\ [][Next]_vars

\* A call that has begun goes on: every read ends with a message or a timeout.
FairSpec == Spec /\ WF_vars(Call)
-----------------------------------------------------------------------------
Kinds == {"job", "difficulty", "odd", "bad", "answer"}
Calls == ReadsForAnswer \cup ReadsForJob

\* The indices into the tables of methods, variants and forms are in range.
TypeOK ==
  /\ sock \in {"none", "live", "dead"} /\ conn \in Nat /\ next_id \in Nat
  /\ \A i \in DOMAIN wire : wire[i].kind \in Kinds
  /\ \A i \in DOMAIN queued : queued[i].serial \in Nat /\ queued[i].conn \in Nat
  /\ session \in 0 .. conn /\ difficulty \in 0 .. conn
  /\ mode \in Modes \cup {"UNKNOWN"}
  /\ stage \in {"reconnect", "send", "read", "ready", "failed", "threw"}
  /\ call \in Calls
  /\ rung \in DOMAIN Ladder /\ variant \in 1 .. Variants[method] /\ auth \in 1 .. Auths
  /\ form \in 1 .. IF mode = "UNKNOWN" THEN 1 ELSE Forms[mode]
  /\ req \in 0 .. next_id - 1 /\ share \in 0 .. MaxShares
  /\ \A i \in DOMAIN verdicts : verdicts[i] \in {"accepted", "rejected", "failed"}
  /\ taken \in 0 .. served /\ credited \subseteq 1 .. share

\* Jobs reach the miner in the order in which the pool sent them, each once,
\* whether they came with the login's answer, during it, while a share was
\* being submitted, or while the client was polling.
JobsInOrder ==
  /\ \A i \in DOMAIN queued : queued[i].serial > taken
  /\ \A i, j \in DOMAIN queued : i < j => queued[i].serial < queued[j].serial
  /\ \A i \in DOMAIN wire : wire[i].kind = "job" =>
       /\ wire[i].serial > taken
       /\ \A j \in DOMAIN queued : wire[i].serial > queued[j].serial

\* Nothing the client has kept comes from an earlier connection: not a job,
\* not the session under which shares are submitted, not the difficulty.
NothingOfAnOldConnection ==
  /\ \A i \in DOMAIN queued : queued[i].conn = conn
  /\ session \in {0, conn} /\ difficulty \in {0, conn}

\* They hold of every state of the client.
StratumClientInv == TypeOK /\ JobsInOrder /\ NothingOfAnOldConnection

\* login has succeeded: the calls are those of run_pool_stratum's main loop.
LoggedIn == stage = "ready" \/ call \in {"poll", "submit"}

\* A successful login has settled how shares are submitted, by the method the
\* pool answered on this very connection; where the protocol needs a first
\* job, it has come.
LoginSettles ==
  LoggedIn =>
    /\ sock # "none"
    /\ mode = Mode[method]
    /\ method \notin {1, 3} => taken > 0 \/ queued # << >>

\* What submit_share says of a share is what the pool did with it: no answer
\* to another request, that came late, is taken for the share's.  Only where
\* an unanswered share is sent again may the pool refuse the copy of one that
\* it has accepted.
VerdictsAreTrue ==
  \A s \in DOMAIN verdicts :
    /\ verdicts[s] = "accepted" => s \in credited
    /\ verdicts[s] = "rejected" /\ s \in credited => mode = "LOGIN_CAPS_SUBMIT"

\* What run_pool_stratum sees of the client: see PoolSession.
Phase == IF stage \in {"ready", "failed", "threw"} THEN stage
         ELSE CASE call = "poll" -> "polling"
                [] call = "submit" -> "submitting"
                [] OTHER -> "login"

Session == INSTANCE PoolSession WITH
             phase <- Phase,
             mode <- IF LoggedIn THEN mode ELSE "UNKNOWN",
             waiting <- IF LoggedIn THEN {queued[i].serial : i \in DOMAIN queued} ELSE {},
             Resending <- {"LOGIN_CAPS_SUBMIT"}

\* The calls of the client keep their promises: login settles the mode of the
\* session for good, poll_job returns every job that has come, once and in
\* order, and submit_share judges every share once, by what the pool did.
ImplementsSession == Session!SessionSpec

\* Every call of the client ends, however the pool answers, as long as it does
\* not send other messages for ever.
CallsReturn == stage # "ready" ~> stage \in {"ready", "failed", "threw"}
=============================================================================
