------------------------- MODULE StratumClientProofs -------------------------
(***************************************************************************)
(* StratumClient, for any ladder of methods, any number of variants, forms *)
(* and shares, and any bound on what the pool sends: jobs reach the miner  *)
(* in order, nothing of an earlier connection is kept, a login settles     *)
(* what shares are submitted under, and what submit_share says of a share  *)
(* is what the pool did with it.  PoolSession, the contract on which the   *)
(* mining loop is built, is implemented step by step.                      *)
(*                                                                         *)
(* The inductive invariant is ClientInv.  Its part Ordered orders all that *)
(* may still become a job: the last one taken, the queue, and the jobs on  *)
(* the wire.  Its parts Exchange, Honest and SentOnce follow a share: an   *)
(* id belongs to one request and to one answer, so the answer that is read *)
(* is about the share in progress; and except in the mode that sends an    *)
(* unanswered share again, a share is sent again only when the pool has    *)
(* said that it did not take it, so a rejected share is lost for good.     *)
(***************************************************************************)
EXTENDS StratumClient, SequenceTheorems, TLAPS

Answers  == [kind : {"answer"}, id : Nat, verdict : {"ok", "no", "error", "retry"},
             serial : Nat, session : BOOLEAN]
Unasked  == [kind : {"job", "difficulty", "odd", "bad"}, serial : Nat]
Messages == Answers \cup Unasked
Jobs     == [serial : Nat, conn : Nat]
Requests == [id : Nat, call : Calls, share : Nat]
Verdicts == {"accepted", "rejected", "failed"}

Typed ==
  /\ sock \in {"none", "live", "dead"} /\ conn \in Nat /\ next_id \in Nat
  /\ wire \in Seq(Messages) /\ queued \in Seq(Jobs)
  /\ session \in Nat /\ difficulty \in Nat
  /\ mode \in Modes \cup {"UNKNOWN"}
  /\ stage \in {"reconnect", "send", "read", "ready", "failed", "threw"}
  /\ call \in Calls
  /\ rung \in 1 .. Len(Ladder) /\ variant \in 1 .. Variants[method] /\ auth \in 1 .. Auths
  /\ form \in Nat \ {0} /\ req \in Nat /\ share \in 0 .. MaxShares
  /\ verdicts \in Seq(Verdicts)
  /\ asked \in SUBSET Requests
  /\ taken \in Nat /\ served \in Nat /\ sent \in Nat /\ credited \in SUBSET Nat

\* Where login is, and what has been settled once it has succeeded.
LoginPath ==
  /\ stage \in {"send", "read"} =>
       /\ call = "login" => method \in {1, 3}
       /\ call \in {"subscribe", "authorize"} => method = 4
       /\ call = "auth" => method \in {2, 5}
       /\ call = "first_job" => stage = "read" /\ mode = Mode[method] /\ method \notin {1, 3}
       /\ call = "poll" => stage = "read"
  /\ stage = "read" => sock # "none"
  /\ stage \in {"reconnect", "failed"} => call \notin {"poll", "submit"}
  /\ ~LoggedIn => form = 1 /\ share = 0 /\ verdicts = << >>

Settled ==
  LoggedIn =>
    /\ sock # "none" /\ mode = Mode[method] /\ form <= Forms[mode]
    /\ method \notin {1, 3} => taken > 0 \/ queued # << >>

OfThisConnection ==
  /\ \A i \in 1 .. Len(queued) : queued[i].conn = conn
  /\ session \in {0, conn} /\ difficulty \in {0, conn}

\* A message with a job in it.
Carries(m) == m.kind = "job" \/ (m.kind = "answer" /\ m.serial > 0)

Ordered ==
  /\ \A i \in 1 .. Len(wire) : Carries(wire[i]) =>
       /\ taken < wire[i].serial /\ wire[i].serial <= served
       /\ \A j \in 1 .. Len(queued) : queued[j].serial < wire[i].serial
  /\ \A i, j \in 1 .. Len(wire) :
       i < j /\ Carries(wire[i]) /\ Carries(wire[j]) => wire[i].serial < wire[j].serial
  /\ \A i \in 1 .. Len(queued) : taken < queued[i].serial /\ queued[i].serial <= served
  /\ \A i, j \in 1 .. Len(queued) : i < j => queued[i].serial < queued[j].serial
  /\ taken <= served
  /\ call = "poll" /\ stage = "read" => queued = << >>

\* A request is open until the pool answers it; each answer is to one request.
IsAnswer(m, id) == m.kind = "answer" /\ m.id = id

Exchange ==
  /\ req < next_id
  /\ \A r \in asked : r.id < next_id /\ r.share <= share /\ (r.call = "submit" <=> r.share > 0)
  /\ \A r, s \in asked : r.id = s.id => r = s
  /\ \A i \in 1 .. Len(wire) : wire[i].kind = "answer" =>
       wire[i].id < next_id /\ \A r \in asked : r.id # wire[i].id
  /\ \A s \in credited : s > 0 /\ s <= share
  /\ Len(verdicts) = IF call = "submit" /\ stage \in {"send", "read", "threw"} THEN share - 1 ELSE share
  /\ call = "submit" => share > 0

Honest ==
  /\ call = "submit" /\ stage = "read" =>
       /\ \A r \in asked : r.id = req => r.share = share
       /\ \A i \in 1 .. Len(wire) :
            IsAnswer(wire[i], req) /\ wire[i].verdict = "ok" => share \in credited
  /\ \A s \in 1 .. Len(verdicts) : verdicts[s] = "accepted" => s \in credited

\* Nobody has accepted share s, or will.
Lost(s) == s \notin credited /\ \A r \in asked : r.share # s

SentOnce ==
  mode # "LOGIN_CAPS_SUBMIT" =>
    /\ \A s \in 1 .. Len(verdicts) : verdicts[s] = "rejected" => Lost(s)
    /\ call = "submit" /\ stage = "send" => Lost(share)
    /\ call = "submit" /\ stage = "read" =>
         /\ \A r \in asked : r.share = share => r.id = req /\ share \notin credited
         /\ \A i \in 1 .. Len(wire) :
              IsAnswer(wire[i], req) /\ wire[i].verdict # "ok" => Lost(share)

CInv == Typed /\ LoginPath /\ Settled /\ OfThisConnection /\ Ordered /\ Exchange /\ Honest /\ SentOnce

\* The tables of the login methods.
LEMMA MethodTyped ==
  ASSUME NEW r \in 1 .. Len(Ladder)
  PROVE  Ladder[r] \in Methods /\ Variants[Ladder[r]] \in Nat \ {0} /\ Mode[Ladder[r]] \in Modes
<1>1. Ladder[r] \in Methods
  BY ClientAssumption
<1> QED BY <1>1, ClientAssumption DEF Modes

\* Every method begins with a call the client makes.
LEMMA FirstCallTyped ==
  ASSUME NEW m PROVE FirstCall(m) \in Calls
BY DEF FirstCall, Calls, ReadsForAnswer

\* A message is taken off the wire, or put on it.
LEMMA WireTail ==
  ASSUME Typed, wire # << >>, wire' = Tail(wire)
  PROVE  /\ wire' \in Seq(Messages) /\ Len(wire') = Len(wire) - 1 /\ Len(wire) \in Nat \ {0}
         /\ \A i \in 1 .. Len(wire') : wire'[i] = wire[i + 1] /\ i + 1 \in 1 .. Len(wire)
         /\ Message = wire[1] /\ 1 \in 1 .. Len(wire) /\ Message \in Messages
BY HeadTailProperties DEF Typed, Message

LEMMA WireAppend ==
  ASSUME Typed, NEW m \in Messages, wire' = Append(wire, m)
  PROVE  /\ wire' \in Seq(Messages) /\ Len(wire') = Len(wire) + 1 /\ Len(wire) \in Nat
         /\ \A i \in 1 .. Len(wire) : wire'[i] = wire[i]
         /\ wire'[Len(wire) + 1] = m
BY AppendProperties DEF Typed

\* A job is queued, or taken from the queue.
LEMMA QueuedAppend ==
  ASSUME Typed, NEW j \in Jobs, queued' = Append(queued, j)
  PROVE  /\ queued' \in Seq(Jobs) /\ Len(queued') = Len(queued) + 1 /\ Len(queued) \in Nat
         /\ \A i \in 1 .. Len(queued) : queued'[i] = queued[i]
         /\ queued'[Len(queued) + 1] = j
BY AppendProperties DEF Typed

LEMMA QueuedTail ==
  ASSUME Typed, queued # << >>, queued' = Tail(queued)
  PROVE  /\ queued' \in Seq(Jobs) /\ Len(queued') = Len(queued) - 1 /\ Len(queued) \in Nat \ {0}
         /\ \A i \in 1 .. Len(queued') : queued'[i] = queued[i + 1] /\ i + 1 \in 1 .. Len(queued)
         /\ NextJob = queued[1].serial /\ queued[1] \in Jobs
BY HeadTailProperties DEF Typed, NextJob

\* submit_share reports one more share.
LEMMA ReportedOne ==
  ASSUME Typed, NEW v \in Verdicts, verdicts' = Append(verdicts, v)
  PROVE  /\ verdicts' \in Seq(Verdicts) /\ Len(verdicts') = Len(verdicts) + 1
         /\ Len(verdicts) \in Nat
         /\ \A i \in 1 .. Len(verdicts) : verdicts'[i] = verdicts[i]
         /\ verdicts'[Len(verdicts) + 1] = v
BY AppendProperties DEF Typed

\* After a failed call login goes on with the next attempt, or gives up.
LEMMA AttemptGoesOn ==
  ASSUME Typed, AuthFails
  PROVE  /\ rung' \in 1 .. Len(Ladder) /\ variant' \in 1 .. Variants[method'] /\ auth' \in 1 .. Auths
         /\ \/ stage' = "send" /\ method = 4 /\ call' = "authorize" /\ rung' = rung
            \/ stage' \in {"reconnect", "failed"} /\ call' = call
<1> USE ClientAssumption
<1>1. /\ rung \in 1 .. Len(Ladder) /\ variant \in 1 .. Variants[Ladder[rung]] /\ auth \in 1 .. Auths
      /\ Auths \in Nat \ {0} /\ Len(Ladder) \in Nat
  BY DEF Typed, method
<1>2. CASE method = 4 /\ call # "subscribe" /\ auth < Auths
  BY <1>1, <1>2 DEF AuthFails, method
<1>3. CASE ~(method = 4 /\ call # "subscribe" /\ auth < Auths)
  <2>1. NextVariant
    BY <1>3 DEF AuthFails
  <2>2. CASE variant < Variants[method]
    <3>1. Variants[Ladder[rung]] \in Nat
      BY <1>1, MethodTyped
    <3> QED BY <1>1, <2>1, <2>2, <3>1 DEF NextVariant, method
  <2>3. CASE ~(variant < Variants[method])
    <3>1. NextMethod
      BY <2>1, <2>3 DEF NextVariant
    <3>2. CASE rung < Len(Ladder)
      <4>1. rung + 1 \in 1 .. Len(Ladder)
        BY <1>1, <3>2
      <4>2. Variants[Ladder[rung + 1]] \in Nat \ {0}
        BY <4>1, MethodTyped
      <4> QED BY <1>1, <3>1, <3>2, <4>1, <4>2 DEF NextMethod, method
    <3>3. CASE ~(rung < Len(Ladder))
      BY <1>1, <3>1, <3>3 DEF NextMethod, loginVars, method
    <3> QED BY <3>2, <3>3
  <2> QED BY <2>2, <2>3
<1> QED BY <1>2, <1>3

\* What becomes of a call that has failed.
LEMMA CallFailsCases ==
  ASSUME CallFails
  PROVE  \/ call = "poll" /\ stage' = "ready" /\ UNCHANGED <<call, rung, variant, auth, form, share, verdicts>>
         \/ /\ call = "submit" /\ ResendsUnanswered /\ form < Forms[mode]
            /\ form' = form + 1 /\ stage' = "send"
            /\ UNCHANGED <<call, rung, variant, auth, share, verdicts>>
         \/ /\ call = "submit" /\ verdicts' = Append(verdicts, "failed") /\ stage' = "ready"
            /\ UNCHANGED <<call, rung, variant, auth, form, share>>
         \/ call \notin {"poll", "submit"} /\ AuthFails /\ UNCHANGED <<form, share, verdicts>>
<1>1. CASE call = "poll"
  BY <1>1 DEF CallFails, loginVars, shareVars
<1>2. CASE call = "submit"
  BY <1>2 DEF CallFails, NextForm, Report, FormsLeft, loginVars
<1>3. CASE call \notin {"poll", "submit"}
  BY <1>3 DEF CallFails, shareVars
<1> QED BY <1>1, <1>2, <1>3

\* The tables are never left.
LEMMA FailureTyped ==
  ASSUME Typed, CallFails
  PROVE  /\ rung' \in 1 .. Len(Ladder) /\ variant' \in 1 .. Variants[method'] /\ auth' \in 1 .. Auths
         /\ stage' \in {"reconnect", "send", "ready", "failed"} /\ call' \in Calls
         /\ form' \in Nat \ {0} /\ share' \in 0 .. MaxShares /\ verdicts' \in Seq(Verdicts)
<1>1. CASE UNCHANGED <<call, rung, variant, auth, share>> /\ stage' \in {"send", "ready"}
           /\ form' \in {form, form + 1}
           /\ \/ UNCHANGED verdicts
              \/ verdicts' = Append(verdicts, "failed")
  <2>1. verdicts' \in Seq(Verdicts)
    BY <1>1, ReportedOne DEF Typed, Verdicts
  <2>2. form' \in Nat \ {0}
    BY <1>1 DEF Typed
  <2> QED BY <1>1, <2>1, <2>2 DEF Typed, method
<1>2. CASE AuthFails /\ UNCHANGED <<form, share, verdicts>>
  <2>1. call' \in Calls
    BY <1>2, AttemptGoesOn DEF Typed, Calls, ReadsForAnswer
  <2> QED BY <1>2, <2>1, AttemptGoesOn DEF Typed
<1> QED BY <1>1, <1>2, CallFailsCases

\* What every read leaves alone, and what it takes.
LEMMA ReadOne ==
  ASSUME Typed, NEW kinds, Reading(kinds)
  PROVE  /\ stage = "read" /\ Message.kind \in kinds /\ Message \in Messages /\ Message.serial \in Nat
         /\ UNCHANGED <<sock, conn, next_id, req, asked, served, sent, credited>>
         /\ wire' \in Seq(Messages) /\ Len(wire') = Len(wire) - 1 /\ Len(wire) \in Nat \ {0}
         /\ \A i \in 1 .. Len(wire') : wire'[i] = wire[i + 1] /\ i + 1 \in 1 .. Len(wire)
         /\ Message = wire[1] /\ 1 \in 1 .. Len(wire)
<1>1. /\ stage = "read" /\ wire # << >> /\ Message.kind \in kinds /\ wire' = Tail(wire)
      /\ UNCHANGED <<sock, conn, next_id, req, asked, served, sent, credited>>
  BY DEF Reading, connVars, poolVars
<1>2. Message \in Messages => Message.serial \in Nat
  BY DEF Messages, Answers, Unasked
<1> QED BY <1>1, <1>2, WireTail

\* A job is what the queue holds.
LEMMA JobTyped == ASSUME Typed, NEW n \in Nat PROVE Job(n) \in Jobs
BY DEF Typed, Job, Jobs

\* What is on the wire, and what was asked.
LEMMA WireTyped ==
  ASSUME Typed, NEW i \in 1 .. Len(wire) PROVE wire[i] \in Messages
BY DEF Typed

LEMMA AskedTyped ==
  ASSUME Typed, NEW r \in asked PROVE r.id \in Nat /\ r.share \in Nat /\ r.call \in Calls
BY DEF Typed, Requests

\* The job just read is the last of the queue.
LEMMA JobQueued ==
  ASSUME Typed, NEW n \in Nat, queued' = Append(queued, Job(n))
  PROVE  /\ queued' # << >> /\ Len(queued') = Len(queued) + 1 /\ Len(queued) \in Nat
         /\ \A i \in 1 .. Len(queued) : queued'[i] = queued[i]
         /\ queued'[Len(queued) + 1] = [serial |-> n, conn |-> conn]
<1>1. /\ Len(queued') = Len(queued) + 1 /\ Len(queued) \in Nat /\ queued' \in Seq(Jobs)
      /\ \A i \in 1 .. Len(queued) : queued'[i] = queued[i]
      /\ queued'[Len(queued) + 1] = Job(n)
  BY JobTyped, QueuedAppend
<1>2. Len(queued') # 0
  BY <1>1
<1>3. queued' # << >>
  BY <1>1, <1>2, EmptySeq
<1> QED BY <1>1, <1>3 DEF Job

\* Types.
LEMMA TypedInit == Init => Typed
<1> SUFFICES ASSUME Init PROVE Typed
  OBVIOUS
<1> USE ClientAssumption DEF Init
<1>1. 1 \in 1 .. Len(Ladder) /\ method \in Methods
  BY DEF method
<1>2. variant \in 1 .. Variants[method]
  BY <1>1
<1>3. call \in Calls
  BY FirstCallTyped
<1> QED BY <1>1, <1>2, <1>3 DEF Typed

\* Every step keeps the types.
LEMMA TypedStep ==
  ASSUME Typed, [Next]_vars
  PROVE  Typed'
<1>1. CASE Reconnect
  <2>1. call' \in Calls /\ variant' \in 1 .. Variants[method']
    BY <1>1, FirstCallTyped DEF Reconnect, Typed, loginVars, method
  <2> QED BY <1>1, <2>1 DEF Reconnect, Typed, Forget, NewConnection, loginVars, shareVars
<1>2. CASE ReconnectFails
  <2>1. /\ rung' \in 1 .. Len(Ladder) /\ variant' \in 1 .. Variants[method'] /\ auth' \in 1 .. Auths
        /\ stage' \in {"send", "reconnect", "failed"} /\ call' \in Calls
    <3>1. CASE variant = 1
      <4>1. NextMethod
        BY <1>2, <3>1 DEF ReconnectFails
      <4>2. CASE rung < Len(Ladder)
        <5>1. rung + 1 \in 1 .. Len(Ladder)
          BY <4>2, ClientAssumption DEF Typed
        <5>2. Variants[Ladder[rung + 1]] \in Nat \ {0}
          BY <5>1, MethodTyped
        <5> QED BY <4>1, <4>2, <5>1, <5>2, ClientAssumption DEF NextMethod, method, Typed
      <4>3. CASE ~(rung < Len(Ladder))
        BY <4>1, <4>3 DEF NextMethod, loginVars, Typed, method
      <4> QED BY <4>2, <4>3
    <3>2. CASE variant # 1
      BY <1>2, <3>2, FirstCallTyped DEF ReconnectFails, loginVars, Typed, method
    <3> QED BY <3>1, <3>2
  <2> QED BY <1>2, <2>1 DEF ReconnectFails, Typed, Forget, NewConnection, shareVars
<1>3. CASE Send
  <2>1. Request \in Requests
    BY DEF Request, Requests, Typed
  <2> QED BY <1>3, <2>1 DEF Send, Typed, connVars, stateVars, loginVars, shareVars, method
<1>4. CASE SendFails
  BY <1>4, FailureTyped DEF SendFails, Typed, connVars, stateVars, poolVars
<1>5. CASE ReadFails
  <2>1. wire' \in Seq(Messages)
    BY <1>5, WireTail DEF ReadFails, Typed
  <2> QED BY <1>5, <2>1, FailureTyped DEF ReadFails, Typed, connVars, stateVars, poolVars
<1>6. CASE Skip \/ ReadThrows
  BY <1>6, ReadOne DEF Skip, ReadThrows, Typed, stateVars, loginVars, shareVars, method
<1>7. CASE KeepJob
  <2>1. Job(Message.serial) \in Jobs
    BY <1>7, ReadOne, JobTyped DEF KeepJob, ReadingJob
  <2> QED BY <1>7, <2>1, ReadOne, QueuedAppend
          DEF KeepJob, ReadingJob, Typed, loginVars, shareVars, method
<1>8. CASE JobForLogin
  <2>1. Job(Message.serial) \in Jobs /\ Mode[method] \in Modes
    BY <1>8, ReadOne, JobTyped, MethodTyped DEF JobForLogin, ReadingJob, Typed, method
  <2> QED BY <1>8, <2>1, ReadOne, QueuedAppend
          DEF JobForLogin, ReadingJob, Typed, loginVars, shareVars, method
<1>9. CASE LoginAnswered
  <2>1. Job(Message.serial) \in Jobs /\ Mode[method] \in Modes
    BY <1>9, ReadOne, JobTyped, MethodTyped DEF LoginAnswered, Typed, method
  <2>2. queued' \in Seq(Jobs)
    BY <1>9, <2>1, QueuedAppend DEF LoginAnswered, Typed
  <2> QED BY <1>9, <2>1, <2>2, ReadOne DEF LoginAnswered, Typed, loginVars, shareVars, method
<1>10. CASE LoginRejected
  <2>1. call' \in Calls
    BY <1>10, AttemptGoesOn DEF LoginRejected, Typed, Calls, ReadsForAnswer
  <2> QED BY <1>10, <2>1, ReadOne, AttemptGoesOn DEF LoginRejected, Typed, stateVars, shareVars
<1>11. CASE SubscribeAnswered
  BY <1>11, ReadOne
     DEF SubscribeAnswered, Typed, stateVars, loginVars, shareVars, method, Calls, ReadsForAnswer
<1>12. CASE AuthAnswered
  <2>1. Mode[method] \in Modes /\ call' \in Calls
    BY <1>12, MethodTyped DEF AuthAnswered, Typed, method, Calls, ReadsForJob
  <2> QED BY <1>12, <2>1, ReadOne DEF AuthAnswered, Typed, loginVars, shareVars, method
<1>13. CASE FirstJob
  <2>1. Job(Message.serial) \in Jobs
    BY <1>13, ReadOne, JobTyped DEF FirstJob, ReadingJob
  <2> QED BY <1>13, <2>1, ReadOne, QueuedAppend
          DEF FirstJob, ReadingJob, Typed, loginVars, shareVars, method
<1>14. CASE PolledJob
  BY <1>14, ReadOne
     DEF PolledJob, ReadingJob, Typed, stateVars, loginVars, shareVars, method
<1>15. CASE SubmitAnswered
  <2>1. verdicts' \in Seq(Verdicts) /\ form' \in Nat \ {0}
    BY <1>15, ReportedOne DEF SubmitAnswered, NextForm, Report, Typed, Verdicts
  <2> QED BY <1>15, <2>1, ReadOne
          DEF SubmitAnswered, NextForm, Report, Typed, stateVars, loginVars, method
<1>16. CASE Poll
  <2>1. queued' \in Seq(Jobs) /\ taken' \in Nat
    BY <1>16, QueuedTail DEF Poll, Typed, Jobs
  <2>2. call' \in Calls
    BY <1>16 DEF Poll, Typed, Calls, ReadsForJob
  <2> QED BY <1>16, <2>1, <2>2 DEF Poll, Typed, connVars, loginVars, shareVars, poolVars, method
<1>17. CASE Submit
  BY <1>17, ClientAssumption
     DEF Submit, Typed, connVars, stateVars, loginVars, poolVars, method, Calls, ReadsForAnswer
<1>18. CASE PoolAnswers
  <2>1. PICK r \in asked : \E verdict \in Verdict(r), job \in BOOLEAN, sess \in BOOLEAN :
          /\ wire' = Append(wire, Answer(r, verdict, job, sess))
          /\ asked' = asked \ {r}
          /\ credited' \in {credited, credited \cup {r.share}}
          /\ served' \in {served, served + 1} /\ sent' \in {sent, sent + 1}
    BY <1>18 DEF PoolAnswers
  <2>2. PICK verdict \in Verdict(r), job \in BOOLEAN, sess \in BOOLEAN :
          wire' = Append(wire, Answer(r, verdict, job, sess))
    BY <2>1
  <2>3. r.id \in Nat /\ r.share \in Nat
    BY DEF Typed, Requests
  <2>4. Answer(r, verdict, job, sess) \in Messages
    BY <2>3 DEF Answer, Messages, Answers, Verdict, Typed
  <2>5. wire' \in Seq(Messages)
    BY <2>2, <2>4, WireAppend
  <2>6. credited' \in SUBSET Nat /\ asked' \in SUBSET Requests /\ served' \in Nat /\ sent' \in Nat
    BY <2>1, <2>3 DEF Typed
  <2> QED BY <1>18, <2>5, <2>6
          DEF PoolAnswers, Typed, connVars, stateVars, loginVars, shareVars, method
<1>19. CASE PoolSends
  <2>1. PICK kind \in {"job", "difficulty", "odd", "bad"} :
          wire' = Append(wire, [kind |-> kind, serial |-> served + 1])
    BY <1>19 DEF PoolSends
  <2>2. [kind |-> kind, serial |-> served + 1] \in Messages
    BY DEF Messages, Unasked, Typed
  <2>3. wire' \in Seq(Messages)
    BY <2>1, <2>2, WireAppend
  <2> QED BY <1>19, <2>3
          DEF PoolSends, Typed, connVars, stateVars, loginVars, shareVars, method
<1>20. CASE PoolDrops
  <2>1. wire' \in Seq(Messages)
    BY <1>20, EmptySeq DEF PoolDrops, Typed
  <2> QED BY <1>20, <2>1 DEF PoolDrops, Typed, stateVars, loginVars, shareVars, method
<1>21. CASE UNCHANGED vars
  BY <1>21 DEF vars, connVars, stateVars, loginVars, shareVars, poolVars, Typed, method
<1> QED BY <1>1, <1>2, <1>3, <1>4, <1>5, <1>6, <1>7, <1>8, <1>9, <1>10, <1>11, <1>12, <1>13,
           <1>14, <1>15, <1>16, <1>17, <1>18, <1>19, <1>20, <1>21 DEF Next, Call

\* A login has just begun.
LEMMA PathInit == Init => LoginPath /\ Settled
<1> SUFFICES ASSUME Init PROVE LoginPath /\ Settled
  OBVIOUS
<1>1. Ladder[1] \in 1 .. 5
  BY ClientAssumption DEF Methods
<1> QED BY <1>1 DEF Init, LoginPath, Settled, LoggedIn, FirstCall, method

\* The steps in the middle of a login, and those of a client that is logged in.
LEMMA PathOfLogin ==
  ASSUME Typed, LoginPath, Settled,
         \/ Reconnect \/ ReconnectFails \/ KeepJob \/ LoginRejected \/ SubscribeAnswered
         \/ JobForLogin \/ LoginAnswered \/ AuthAnswered \/ FirstJob
  PROVE  LoginPath' /\ Settled'
<1>0. method \in 1 .. 5 /\ Mode[method] \in Modes /\ Forms[Mode[method]] \in Nat \ {0}
  <2>1. method \in Methods
    BY MethodTyped DEF Typed, method
  <2> QED BY <2>1, ClientAssumption DEF Modes, Methods
<1>1. CASE Reconnect
  <2>1. ~LoggedIn /\ ~LoggedIn' /\ method' = method /\ call' = FirstCall(method)
    BY <1>1 DEF Reconnect, LoginPath, LoggedIn, FirstCall, loginVars, method
  <2> QED BY <1>0, <1>1, <2>1
          DEF Reconnect, LoginPath, Settled, LoggedIn, FirstCall, shareVars
<1>2. CASE ReconnectFails
  <2>1. ~LoggedIn /\ stage = "reconnect" /\ UNCHANGED <<form, share, verdicts>>
    BY <1>2 DEF ReconnectFails, LoginPath, LoggedIn, shareVars
  <2>2. CASE variant = 1
    <3>1. call' = call /\ stage' \in {"reconnect", "failed"}
      BY <1>2, <2>2 DEF ReconnectFails, NextMethod
    <3> QED BY <2>1, <3>1 DEF LoginPath, Settled, LoggedIn
  <2>3. CASE variant # 1
    <3>1. stage' = "send" /\ call' = FirstCall(method) /\ method' = method
      BY <1>2, <2>3 DEF ReconnectFails, loginVars, method
    <3> QED BY <1>0, <2>1, <3>1 DEF LoginPath, Settled, LoggedIn, FirstCall
  <2> QED BY <2>2, <2>3
<1>3. CASE KeepJob
  <2>1. /\ UNCHANGED <<sock, mode, stage, call, rung, form, share, verdicts, taken>>
        /\ queued' = Append(queued, Job(Message.serial)) /\ Message.serial \in Nat
    BY <1>3, ReadOne DEF KeepJob, ReadingJob, loginVars, shareVars
  <2>2. queued' # << >>
    BY <2>1, JobQueued
  <2> QED BY <2>1, <2>2 DEF LoginPath, Settled, LoggedIn, method
<1>4. CASE LoginRejected
  <2>1. /\ stage = "read" /\ call \notin {"poll", "submit"}
        /\ UNCHANGED <<sock, queued, mode, form, share, verdicts, taken>>
    BY <1>4, ReadOne DEF LoginRejected, stateVars, shareVars
  <2>2. \/ stage' = "send" /\ method = 4 /\ call' = "authorize" /\ rung' = rung
        \/ stage' \in {"reconnect", "failed"} /\ call' = call
    BY <1>4, AttemptGoesOn DEF LoginRejected
  <2> QED BY <2>1, <2>2 DEF LoginPath, Settled, LoggedIn, method
<1>5. CASE SubscribeAnswered
  <2>1. /\ stage = "read" /\ call = "subscribe" /\ stage' = "send" /\ call' = "authorize"
        /\ UNCHANGED <<sock, queued, mode, form, share, verdicts, taken, rung>>
    BY <1>5, ReadOne DEF SubscribeAnswered, stateVars, shareVars, loginVars
  <2> QED BY <2>1 DEF LoginPath, Settled, LoggedIn, method
<1>6. CASE JobForLogin \/ LoginAnswered
  <2>1. /\ stage = "read" /\ call = "login" /\ stage' = "ready" /\ mode' = Mode[method]
        /\ UNCHANGED <<sock, call, rung, form, share, verdicts, taken>>
    BY <1>6, ReadOne DEF JobForLogin, LoginAnswered, ReadingJob, shareVars, loginVars
  <2> QED BY <1>0, <2>1 DEF LoginPath, Settled, LoggedIn, method
<1>7. CASE AuthAnswered
  <2>1. /\ stage = "read" /\ call \in {"auth", "authorize"} /\ mode' = Mode[method]
        /\ UNCHANGED <<sock, rung, form, share, verdicts, taken, queued>>
        /\ \/ queued # << >> /\ stage' = "ready" /\ call' = call
           \/ stage' = "read" /\ call' = "first_job"
    BY <1>7, ReadOne DEF AuthAnswered, HasFirstJob, shareVars, loginVars
  <2> QED BY <1>0, <2>1 DEF LoginPath, Settled, LoggedIn, method
<1>8. CASE FirstJob
  <2>1. /\ stage = "read" /\ call = "first_job" /\ stage' = "ready"
        /\ UNCHANGED <<sock, mode, call, rung, form, share, verdicts, taken>>
        /\ queued' = Append(queued, Job(Message.serial)) /\ Message.serial \in Nat
    BY <1>8, ReadOne DEF FirstJob, ReadingJob, shareVars, loginVars
  <2>2. queued' # << >>
    BY <2>1, JobQueued
  <2> QED BY <1>0, <2>1, <2>2 DEF LoginPath, Settled, LoggedIn, method
<1> QED BY <1>1, <1>2, <1>3, <1>4, <1>5, <1>6, <1>7, <1>8

\* The calls, what they read, and what the pool does.
LEMMA PathOfCalls ==
  ASSUME Typed, LoginPath, Settled, Ordered,
         \/ Send \/ SendFails \/ ReadFails \/ Skip \/ ReadThrows \/ PolledJob \/ SubmitAnswered
         \/ Poll \/ Submit
         \/ PoolAnswers \/ PoolSends \/ PoolDrops \/ UNCHANGED vars
  PROVE  LoginPath' /\ Settled'
<1>1. CASE Send
  <2>1. /\ stage = "send" /\ stage' = "read" /\ sock # "none"
        /\ UNCHANGED <<sock, queued, mode, call, rung, form, share, verdicts, taken>>
    BY <1>1 DEF Send, connVars, stateVars, loginVars, shareVars
  <2> QED BY <2>1 DEF LoginPath, Settled, LoggedIn, method
<1>2. CASE SendFails \/ ReadFails
  <2>1. /\ stage \in {"send", "read"} /\ CallFails
        /\ UNCHANGED <<sock, queued, mode, taken>>
    BY <1>2 DEF SendFails, ReadFails, connVars, stateVars
  <2>2. CASE call \in {"poll", "submit"} /\ stage' = "ready" /\ UNCHANGED <<call, rung, form, share>>
    BY <2>1, <2>2 DEF LoginPath, Settled, LoggedIn, method
  <2>3. CASE /\ call = "submit" /\ form < Forms[mode] /\ form' = form + 1 /\ stage' = "send"
             /\ UNCHANGED <<call, rung, share, verdicts>>
    <3>1. form' <= Forms[mode]
      <4>1. mode \in Modes /\ Forms[mode] \in Nat /\ form \in Nat
        BY <2>1, <2>3, MethodTyped, ClientAssumption DEF Settled, LoggedIn, Typed, method
      <4> QED BY <2>3, <4>1
    <3> QED BY <2>1, <2>3, <3>1 DEF LoginPath, Settled, LoggedIn, method
  <2>4. CASE call \notin {"poll", "submit"} /\ AuthFails /\ UNCHANGED <<form, share, verdicts>>
    <3>1. \/ stage' = "send" /\ method = 4 /\ call' = "authorize" /\ rung' = rung
          \/ stage' \in {"reconnect", "failed"} /\ call' = call
      BY <2>4, AttemptGoesOn
    <3> QED BY <2>1, <2>4, <3>1 DEF LoginPath, Settled, LoggedIn, method
  <2> QED BY <2>1, <2>2, <2>3, <2>4, CallFailsCases
<1>3. CASE Skip
  <2>1. UNCHANGED <<sock, queued, mode, stage, call, rung, form, share, verdicts, taken>>
    BY <1>3, ReadOne DEF Skip, loginVars, shareVars
  <2> QED BY <2>1 DEF LoginPath, Settled, LoggedIn, method
<1>4. CASE ReadThrows
  <2>1. /\ stage = "read" /\ stage' = "threw"
        /\ UNCHANGED <<sock, queued, mode, call, rung, form, share, verdicts, taken>>
    BY <1>4, ReadOne DEF ReadThrows, Reading, stateVars, loginVars, shareVars
  <2> QED BY <2>1 DEF LoginPath, Settled, LoggedIn, method
<1>5. CASE PolledJob
  <2>1. /\ stage = "read" /\ call = "poll" /\ stage' = "ready" /\ taken' = Message.serial
        /\ UNCHANGED <<sock, queued, mode, call, rung, form, share, verdicts>>
    BY <1>5, ReadOne DEF PolledJob, ReadingJob, stateVars, loginVars, shareVars
  <2>2. taken' > 0
    <3>1. Message = wire[1] /\ 1 \in 1 .. Len(wire) /\ Carries(wire[1]) /\ Message.serial \in Nat
      BY <1>5, ReadOne DEF PolledJob, ReadingJob, Carries
    <3>2. taken < Message.serial /\ taken \in Nat
      BY <3>1 DEF Ordered, Typed
    <3> QED BY <2>1, <3>1, <3>2
  <2> QED BY <2>1, <2>2 DEF LoginPath, Settled, LoggedIn, method
<1>6. CASE SubmitAnswered
  <2>1. /\ stage = "read" /\ call = "submit" /\ call' = call
        /\ UNCHANGED <<sock, queued, mode, rung, share, taken>>
        /\ \/ stage' = "send" /\ form < Forms[mode] /\ form' = form + 1
           \/ stage' = "ready" /\ form' = form
    BY <1>6, ReadOne DEF SubmitAnswered, NextForm, FormsLeft, Report, stateVars, loginVars
  <2>2. mode \in Modes /\ Forms[mode] \in Nat /\ form \in Nat
    BY <2>1, MethodTyped, ClientAssumption DEF Settled, LoggedIn, Typed, method
  <2>3. form' <= Forms[mode]
    BY <2>1, <2>2 DEF Settled, LoggedIn
  <2> QED BY <2>1, <2>3 DEF LoginPath, Settled, LoggedIn, method
<1>7. CASE Poll
  <2>1. /\ stage = "ready" /\ UNCHANGED <<sock, mode, rung, form, share, verdicts>>
        /\ \/ queued # << >> /\ taken' = NextJob /\ queued' = Tail(queued) /\ UNCHANGED <<stage, call>>
           \/ stage' = "read" /\ call' = "poll" /\ UNCHANGED <<taken, queued>>
    BY <1>7 DEF Poll, connVars, loginVars, shareVars
  <2>2. taken' > 0 \/ (taken' = taken /\ queued' = queued)
    <3>1. CASE queued # << >> /\ taken' = NextJob /\ queued' = Tail(queued)
      <4>1. 1 \in 1 .. Len(queued) /\ taken' = queued[1].serial /\ queued[1] \in Jobs
        BY <3>1, QueuedTail
      <4>2. taken < queued[1].serial /\ taken \in Nat /\ queued[1].serial \in Nat
        BY <4>1 DEF Ordered, Typed, Jobs
      <4> QED BY <4>1, <4>2
    <3> QED BY <2>1, <3>1
  <2> QED BY <2>1, <2>2 DEF LoginPath, Settled, LoggedIn, method
<1>8. CASE Submit
  <2>1. /\ stage = "ready" /\ stage' = "send" /\ call' = "submit" /\ form' = 1
        /\ UNCHANGED <<sock, mode, rung, taken, queued>>
    BY <1>8 DEF Submit, connVars, stateVars, loginVars
  <2>2. Forms[mode] \in Nat \ {0}
    BY <2>1, MethodTyped, ClientAssumption DEF Settled, LoggedIn, Typed, method
  <2> QED BY <2>1, <2>2 DEF LoginPath, Settled, LoggedIn, method
<1>9. CASE PoolAnswers \/ PoolSends \/ PoolDrops
  <2>1. /\ UNCHANGED <<queued, mode, stage, call, rung, form, share, verdicts, taken>>
        /\ sock # "none" /\ sock' # "none"
    BY <1>9 DEF PoolAnswers, PoolSends, PoolDrops, connVars, stateVars, loginVars, shareVars
  <2> QED BY <2>1 DEF LoginPath, Settled, LoggedIn, method
<1>10. CASE UNCHANGED vars
  BY <1>10 DEF vars, connVars, stateVars, loginVars, shareVars, LoginPath, Settled, LoggedIn, method
<1> QED BY <1>1, <1>2, <1>3, <1>4, <1>5, <1>6, <1>7, <1>8, <1>9, <1>10

\* Nothing is kept yet.
LEMMA ConnectionInit == Init => OfThisConnection
BY DEF Init, OfThisConnection

\* Nothing the client keeps outlives its connection.
LEMMA ConnectionStep ==
  ASSUME Typed, OfThisConnection, [Next]_vars
  PROVE  OfThisConnection'
<1>1. CASE Reconnect \/ ReconnectFails
  BY <1>1 DEF Reconnect, ReconnectFails, Forget, OfThisConnection
<1>2. CASE KeepJob \/ JobForLogin \/ FirstJob
  <2>1. /\ queued' = Append(queued, Job(Message.serial)) /\ Message.serial \in Nat
        /\ UNCHANGED <<conn, session, difficulty>>
    BY <1>2, ReadOne DEF KeepJob, JobForLogin, FirstJob, ReadingJob
  <2>2. \A i \in 1 .. Len(queued') : queued'[i].conn = conn
    BY <2>1, JobTyped, QueuedAppend DEF Job, OfThisConnection
  <2> QED BY <2>1, <2>2 DEF OfThisConnection
<1>3. CASE LoginAnswered
  <2>1. /\ session' \in {session, conn} /\ UNCHANGED <<conn, difficulty>>
        /\ \/ queued' = queued
           \/ queued' = Append(queued, Job(Message.serial)) /\ Message.serial \in Nat
    BY <1>3, ReadOne DEF LoginAnswered
  <2>2. \A i \in 1 .. Len(queued') : queued'[i].conn = conn
    BY <2>1, JobTyped, QueuedAppend DEF Job, OfThisConnection
  <2> QED BY <2>1, <2>2 DEF OfThisConnection
<1>4. CASE Skip
  BY <1>4, ReadOne DEF Skip, OfThisConnection
<1>5. CASE Poll
  <2>1. /\ UNCHANGED <<conn, session, difficulty>>
        /\ queued' = queued \/ (queued # << >> /\ queued' = Tail(queued))
    BY <1>5 DEF Poll, connVars
  <2> QED BY <2>1, QueuedTail DEF OfThisConnection
<1>6. CASE UNCHANGED <<conn, queued, session, difficulty>>
  BY <1>6 DEF OfThisConnection
<1>7. ASSUME \/ Send \/ SendFails \/ ReadFails \/ ReadThrows \/ PolledJob \/ LoginRejected
             \/ SubscribeAnswered \/ AuthAnswered \/ SubmitAnswered \/ Submit \/ PoolAnswers \/ PoolSends \/ PoolDrops
             \/ UNCHANGED vars
      PROVE  UNCHANGED <<conn, queued, session, difficulty>>
  BY <1>7 DEF Send, SendFails, ReadFails, ReadThrows, PolledJob, LoginRejected, SubscribeAnswered,
     AuthAnswered, SubmitAnswered, Submit, PoolAnswers, PoolSends, PoolDrops, vars, connVars, stateVars,
     ReadingJob, Reading
<1> QED BY <1>1, <1>2, <1>3, <1>4, <1>5, <1>6, <1>7 DEF Next, Call

\* No job is there yet.
LEMMA OrderedInit == Init => Ordered
BY DEF Init, Ordered

\* A message is read, or lost, that is not kept.
LEMMA OrderedTail ==
  ASSUME Typed, Ordered, UNCHANGED <<queued, taken, served>>,
         wire' \in {wire, << >>} \/ (wire # << >> /\ wire' = Tail(wire)),
         call' = "poll" /\ stage' = "read" => queued' = << >>
  PROVE  Ordered'
<1>1. CASE wire' = wire
  BY <1>1 DEF Ordered, Carries
<1>2. CASE wire' = << >>
  BY <1>2 DEF Ordered, Carries
<1>3. CASE wire # << >> /\ wire' = Tail(wire)
  <2>1. \A i \in 1 .. Len(wire') :
          wire'[i] = wire[i + 1] /\ i + 1 \in 1 .. Len(wire)
    BY <1>3, WireTail
  <2>2. \A i, j \in 1 .. Len(wire') : i < j =>
          i + 1 < j + 1 /\ wire'[i] = wire[i + 1] /\ wire'[j] = wire[j + 1]
          /\ i + 1 \in 1 .. Len(wire) /\ j + 1 \in 1 .. Len(wire)
    BY <2>1
  <2>3. \A i, j \in 1 .. Len(wire') :
          i < j /\ Carries(wire'[i]) /\ Carries(wire'[j]) => wire'[i].serial < wire'[j].serial
    BY <2>2 DEF Ordered
  <2>4. \A i \in 1 .. Len(wire') : Carries(wire'[i]) =>
          /\ taken < wire'[i].serial /\ wire'[i].serial <= served
          /\ \A j \in 1 .. Len(queued) : queued[j].serial < wire'[i].serial
    BY <2>1 DEF Ordered
  <2> QED BY <2>3, <2>4 DEF Ordered, Carries
<1> QED BY <1>1, <1>2, <1>3

\* The job that is read is put at the end of the queue.
LEMMA OrderedQueue ==
  ASSUME Typed, Ordered, wire # << >>, wire' = Tail(wire), Carries(Message), Message.serial \in Nat,
         queued' = Append(queued, Job(Message.serial)), UNCHANGED <<taken, served>>,
         ~(call' = "poll" /\ stage' = "read")
  PROVE  Ordered'
<1>1. /\ \A i \in 1 .. Len(wire') : wire'[i] = wire[i + 1] /\ i + 1 \in 1 .. Len(wire)
      /\ Message = wire[1] /\ 1 \in 1 .. Len(wire)
  BY WireTail
<1>2. /\ Len(queued') = Len(queued) + 1 /\ Len(queued) \in Nat
      /\ \A i \in 1 .. Len(queued) : queued'[i] = queued[i]
      /\ queued'[Len(queued) + 1].serial = wire[1].serial
  <2>1. /\ Len(queued') = Len(queued) + 1 /\ Len(queued) \in Nat
        /\ \A i \in 1 .. Len(queued) : queued'[i] = queued[i]
        /\ queued'[Len(queued) + 1] = [serial |-> Message.serial, conn |-> conn]
    BY JobQueued
  <2> QED BY <1>1, <2>1
<1>3. /\ taken < wire[1].serial /\ wire[1].serial <= served
      /\ \A j \in 1 .. Len(queued) : queued[j].serial < wire[1].serial
  BY <1>1 DEF Ordered
<1>4. \A i \in 1 .. Len(queued') :
        i \in 1 .. Len(queued) \/ i = Len(queued) + 1
  BY <1>2
<1>5. \A i \in 1 .. Len(queued') : taken < queued'[i].serial /\ queued'[i].serial <= served
  BY <1>2, <1>3, <1>4 DEF Ordered
<1>6. \A i, j \in 1 .. Len(queued') : i < j => queued'[i].serial < queued'[j].serial
  <2> TAKE i, j \in 1 .. Len(queued')
  <2> HAVE i < j
  <2>1. i \in 1 .. Len(queued)
    BY <1>2
  <2>2. CASE j \in 1 .. Len(queued)
    BY <1>2, <2>1, <2>2 DEF Ordered
  <2>3. CASE j = Len(queued) + 1
    BY <1>2, <1>3, <2>1, <2>3
  <2> QED BY <1>4, <2>2, <2>3
<1>7. \A i \in 1 .. Len(wire') : Carries(wire'[i]) =>
        /\ taken < wire'[i].serial /\ wire'[i].serial <= served
        /\ \A j \in 1 .. Len(queued') : queued'[j].serial < wire'[i].serial
  <2> TAKE i \in 1 .. Len(wire')
  <2> HAVE Carries(wire'[i])
  <2>1. wire'[i] = wire[i + 1] /\ i + 1 \in 1 .. Len(wire) /\ 1 < i + 1
    BY <1>1
  <2>2. wire[1].serial < wire[i + 1].serial
    BY <1>1, <2>1 DEF Ordered
  <2>3. \A j \in 1 .. Len(queued) : queued'[j].serial < wire'[i].serial
    BY <1>2, <2>1 DEF Ordered
  <2>4. taken < wire'[i].serial /\ wire'[i].serial <= served
    BY <2>1 DEF Ordered
  <2> QED BY <1>2, <1>4, <2>1, <2>2, <2>3, <2>4
<1>8. \A i, j \in 1 .. Len(wire') :
        i < j /\ Carries(wire'[i]) /\ Carries(wire'[j]) => wire'[i].serial < wire'[j].serial
  <2> TAKE i, j \in 1 .. Len(wire')
  <2>1. /\ wire'[i] = wire[i + 1] /\ i + 1 \in 1 .. Len(wire)
        /\ wire'[j] = wire[j + 1] /\ j + 1 \in 1 .. Len(wire)
        /\ i < j => i + 1 < j + 1
    BY <1>1
  <2> QED BY <2>1 DEF Ordered
<1>9. taken' <= served'
  BY DEF Ordered
<1> QED BY <1>5, <1>6, <1>7, <1>8, <1>9 DEF Ordered, Carries

\* The pool numbers the jobs it sends.
LEMMA OrderedSend ==
  ASSUME Typed, Ordered, NEW m \in Messages, wire' = Append(wire, m),
         served' \in {served, served + 1},
         Carries(m) => m.serial = served + 1 /\ served' = served + 1,
         UNCHANGED <<queued, taken, stage, call>>
  PROVE  Ordered'
<1>1. /\ Len(wire') = Len(wire) + 1 /\ Len(wire) \in Nat /\ wire'[Len(wire) + 1] = m
      /\ \A i \in 1 .. Len(wire) : wire'[i] = wire[i]
  BY WireAppend
<1>0. \A i \in 1 .. Len(wire) : wire[i] \in Messages
  BY DEF Typed
<1>2. taken \in Nat /\ served \in Nat /\ served <= served' /\ taken <= served'
  BY DEF Typed, Ordered
<1>3. \A i \in 1 .. Len(queued) : queued[i].serial \in Nat
  <2>1. \A i \in 1 .. Len(queued) : queued[i] \in Jobs
    BY DEF Typed
  <2> QED BY <2>1 DEF Jobs
<1>4. \A i \in 1 .. Len(wire) : wire[i].serial \in Nat
  BY <1>0 DEF Messages, Answers, Unasked
<1>5. \A i \in 1 .. Len(queued) : taken < queued[i].serial /\ queued[i].serial <= served'
  BY <1>2, <1>3 DEF Ordered
<1>6. \A i \in 1 .. Len(wire') : i \in 1 .. Len(wire) \/ (i = Len(wire) + 1 /\ wire'[i] = m)
  BY <1>1
<1>7. \A i \in 1 .. Len(wire') : Carries(wire'[i]) =>
        /\ taken < wire'[i].serial /\ wire'[i].serial <= served'
        /\ \A j \in 1 .. Len(queued) : queued[j].serial < wire'[i].serial
  <2> TAKE i \in 1 .. Len(wire')
  <2> HAVE Carries(wire'[i])
  <2>1. CASE i \in 1 .. Len(wire)
    <3>1. /\ taken < wire[i].serial /\ wire[i].serial <= served
          /\ \A j \in 1 .. Len(queued) : queued[j].serial < wire[i].serial
      BY <1>1, <2>1 DEF Ordered
    <3> QED BY <1>1, <1>2, <1>4, <2>1, <3>1
  <2>2. CASE i = Len(wire) + 1 /\ wire'[i] = m
    <3>1. wire'[i].serial = served + 1 /\ served' = served + 1
      BY <2>2
    <3> QED BY <1>2, <1>3, <1>5, <3>1 DEF Ordered
  <2> QED BY <1>6, <2>1, <2>2
<1>8. \A i, j \in 1 .. Len(wire') :
        i < j /\ Carries(wire'[i]) /\ Carries(wire'[j]) => wire'[i].serial < wire'[j].serial
  <2> TAKE i, j \in 1 .. Len(wire')
  <2> HAVE i < j /\ Carries(wire'[i]) /\ Carries(wire'[j])
  <2>1. i \in 1 .. Len(wire) /\ wire'[i] = wire[i]
    BY <1>1
  <2>2. CASE j \in 1 .. Len(wire)
    BY <1>1, <2>1, <2>2 DEF Ordered
  <2>3. CASE j = Len(wire) + 1 /\ wire'[j] = m
    <3>1. wire[i].serial <= served /\ wire[i].serial \in Nat
      BY <1>4, <2>1 DEF Ordered
    <3> QED BY <1>2, <2>1, <2>3, <3>1
  <2> QED BY <1>6, <2>2, <2>3
<1> QED BY <1>2, <1>5, <1>7, <1>8 DEF Ordered, Carries

\* A call that has failed is reading nothing.
LEMMA FailureStage ==
  ASSUME Typed, CallFails PROVE stage' # "read"
BY CallFailsCases, AttemptGoesOn

\* Jobs stay in order whatever is read, polled or sent.
LEMMA OrderedStep ==
  ASSUME Typed, LoginPath, Ordered, [Next]_vars
  PROVE  Ordered'
<1>1. CASE Reconnect \/ ReconnectFails
  <2>1. wire' = << >> /\ queued' = << >> /\ UNCHANGED <<taken, served>>
    BY <1>1 DEF Reconnect, ReconnectFails, Forget, NewConnection
  <2> QED BY <2>1 DEF Ordered, Carries
<1>2. CASE Send
  <2>1. /\ UNCHANGED <<wire, queued, taken, served, call>> /\ stage = "send"
    BY <1>2 DEF Send, stateVars
  <2> QED BY <2>1, OrderedTail DEF LoginPath
<1>3. CASE SendFails \/ ReadFails
  <2>1. /\ UNCHANGED <<queued, taken, served>> /\ stage' # "read"
        /\ wire' = wire \/ (wire # << >> /\ wire' = Tail(wire))
    BY <1>3, FailureStage DEF SendFails, ReadFails, stateVars, poolVars
  <2> QED BY <2>1, OrderedTail
<1>4. CASE Skip \/ ReadThrows
  <2>1. /\ UNCHANGED <<queued, taken, served, call>> /\ stage' \in {stage, "threw"}
        /\ wire # << >> /\ wire' = Tail(wire)
    BY <1>4 DEF Skip, ReadThrows, Reading, stateVars, poolVars
  <2> QED BY <2>1, OrderedTail DEF Ordered
<1>5. CASE KeepJob \/ JobForLogin \/ FirstJob
  <2>1. /\ wire # << >> /\ wire' = Tail(wire) /\ UNCHANGED <<taken, served>>
        /\ queued' = Append(queued, Job(Message.serial)) /\ Message.kind = "job"
        /\ ~(call' = "poll" /\ stage' = "read")
    BY <1>5 DEF KeepJob, JobForLogin, FirstJob, ReadingJob, Reading, poolVars, ReadsForJob
  <2>2. Message.serial \in Nat
    BY <1>5, ReadOne DEF KeepJob, JobForLogin, FirstJob, ReadingJob
  <2> QED BY <2>1, <2>2, OrderedQueue DEF Carries
<1>6. CASE LoginAnswered
  <2>1. /\ wire # << >> /\ wire' = Tail(wire) /\ UNCHANGED <<taken, served>>
        /\ Message.kind = "answer" /\ stage' # "read"
        /\ \/ Message.serial > 0 /\ queued' = Append(queued, Job(Message.serial))
           \/ queued' = queued
    BY <1>6 DEF LoginAnswered, Reading, poolVars
  <2>2. Message.serial \in Nat
    BY <1>6, ReadOne DEF LoginAnswered
  <2> QED BY <2>1, <2>2, OrderedQueue, OrderedTail DEF Carries
<1>7. CASE LoginRejected
  <2>1. /\ wire # << >> /\ wire' = Tail(wire) /\ UNCHANGED <<queued, taken, served>>
        /\ stage' # "read"
    BY <1>7, AttemptGoesOn DEF LoginRejected, Reading, stateVars, poolVars
  <2> QED BY <2>1, OrderedTail
<1>8. CASE SubscribeAnswered \/ AuthAnswered \/ SubmitAnswered
  <2>1. /\ wire # << >> /\ wire' = Tail(wire) /\ UNCHANGED <<queued, taken, served>>
        /\ ~(stage' = "read" /\ call' = "poll")
    BY <1>8 DEF SubscribeAnswered, AuthAnswered, SubmitAnswered, Report, NextForm, Reading,
       stateVars, poolVars
  <2> QED BY <2>1, OrderedTail
<1>9. CASE PolledJob
  <2>1. /\ taken' = Message.serial /\ stage' # "read" /\ queued = << >>
        /\ UNCHANGED <<served, queued>> /\ Message.kind = "job"
    BY <1>9 DEF PolledJob, ReadingJob, Reading, stateVars, poolVars, Ordered
  <2>2. /\ \A i \in 1 .. Len(wire') : wire'[i] = wire[i + 1] /\ i + 1 \in 1 .. Len(wire)
        /\ Message = wire[1] /\ 1 \in 1 .. Len(wire)
    BY <1>9, ReadOne DEF PolledJob, ReadingJob
  <2>3. taken' = wire[1].serial /\ taken' <= served /\ Carries(wire[1])
    BY <2>1, <2>2 DEF Ordered, Carries
  <2>4. \A i, j \in 1 .. Len(wire') :
          i < j /\ Carries(wire'[i]) /\ Carries(wire'[j]) => wire'[i].serial < wire'[j].serial
    <3> TAKE i, j \in 1 .. Len(wire')
    <3>1. /\ wire'[i] = wire[i + 1] /\ i + 1 \in 1 .. Len(wire)
          /\ wire'[j] = wire[j + 1] /\ j + 1 \in 1 .. Len(wire)
          /\ i < j => i + 1 < j + 1
      BY <2>2
    <3> QED BY <3>1 DEF Ordered
  <2>5. \A i \in 1 .. Len(wire') : Carries(wire'[i]) =>
          taken' < wire'[i].serial /\ wire'[i].serial <= served
    <3> TAKE i \in 1 .. Len(wire')
    <3>1. wire'[i] = wire[i + 1] /\ i + 1 \in 1 .. Len(wire) /\ 1 < i + 1
      BY <2>2
    <3> QED BY <2>2, <2>3, <3>1 DEF Ordered
  <2> QED BY <2>1, <2>3, <2>4, <2>5 DEF Ordered, Carries
<1>10. CASE Poll
  <2>1. CASE queued # << >>
    <3>1. /\ taken' = NextJob /\ queued' = Tail(queued)
          /\ UNCHANGED <<stage, call, wire, served>> /\ stage = "ready"
      BY <1>10, <2>1 DEF Poll, poolVars
    <3>2. /\ \A i \in 1 .. Len(queued') : queued'[i] = queued[i + 1] /\ i + 1 \in 1 .. Len(queued)
          /\ taken' = queued[1].serial /\ 1 \in 1 .. Len(queued)
      BY <2>1, <3>1, QueuedTail
    <3>3. \A i \in 1 .. Len(wire') : Carries(wire'[i]) =>
            /\ taken' < wire'[i].serial /\ wire'[i].serial <= served
            /\ \A j \in 1 .. Len(queued') : queued'[j].serial < wire'[i].serial
      BY <3>1, <3>2 DEF Ordered
    <3>4. \A i \in 1 .. Len(queued') :
            taken' < queued'[i].serial /\ queued'[i].serial <= served
      <4> TAKE i \in 1 .. Len(queued')
      <4>1. queued'[i] = queued[i + 1] /\ i + 1 \in 1 .. Len(queued) /\ 1 < i + 1
        BY <3>2
      <4> QED BY <3>2, <4>1 DEF Ordered
    <3>5. \A i, j \in 1 .. Len(queued') : i < j => queued'[i].serial < queued'[j].serial
      <4> TAKE i, j \in 1 .. Len(queued')
      <4>1. /\ queued'[i] = queued[i + 1] /\ i + 1 \in 1 .. Len(queued)
            /\ queued'[j] = queued[j + 1] /\ j + 1 \in 1 .. Len(queued)
            /\ i < j => i + 1 < j + 1
        BY <3>2
      <4> QED BY <4>1 DEF Ordered
    <3>6. taken' <= served'
      BY <3>1, <3>2 DEF Ordered
    <3> QED BY <3>1, <3>3, <3>4, <3>5, <3>6 DEF Ordered, Carries
  <2>2. CASE queued = << >>
    <3>1. UNCHANGED <<wire, queued, taken, served>>
      BY <1>10, <2>2 DEF Poll, poolVars
    <3> QED BY <2>2, <3>1, OrderedTail
  <2> QED BY <2>1, <2>2
<1>11. CASE Submit
  <2>1. UNCHANGED <<wire, queued, taken, served>> /\ stage' # "read"
    BY <1>11 DEF Submit, stateVars, poolVars
  <2> QED BY <2>1, OrderedTail
<1>12. CASE PoolAnswers
  <2>1. UNCHANGED <<queued, taken, stage, call>>
    BY <1>12 DEF PoolAnswers, stateVars
  <2>2. PICK r \in asked : \E verdict \in Verdict(r), job \in BOOLEAN, sess \in BOOLEAN :
          /\ wire' = Append(wire, Answer(r, verdict, job, sess))
          /\ served' = IF job THEN served + 1 ELSE served
    BY <1>12 DEF PoolAnswers
  <2>3. PICK verdict \in Verdict(r), job \in BOOLEAN, sess \in BOOLEAN :
          /\ wire' = Append(wire, Answer(r, verdict, job, sess))
          /\ served' = IF job THEN served + 1 ELSE served
    BY <2>2
  <2>4. Answer(r, verdict, job, sess) \in Messages
    BY DEF Answer, Messages, Answers, Verdict, Typed, Requests
  <2>5. Carries(Answer(r, verdict, job, sess)) =>
          Answer(r, verdict, job, sess).serial = served + 1 /\ served' = served + 1
    BY <2>3 DEF Answer, Carries
  <2> QED BY <2>1, <2>3, <2>4, <2>5, OrderedSend
<1>13. CASE PoolSends
  <2>1. UNCHANGED <<queued, taken, stage, call>>
    BY <1>13 DEF PoolSends, stateVars
  <2>2. PICK kind \in {"job", "difficulty", "odd", "bad"} :
          /\ wire' = Append(wire, [kind |-> kind, serial |-> served + 1])
          /\ served' = IF kind = "job" THEN served + 1 ELSE served
    BY <1>13 DEF PoolSends
  <2>3. [kind |-> kind, serial |-> served + 1] \in Messages
    BY DEF Messages, Unasked, Typed
  <2>4. Carries([kind |-> kind, serial |-> served + 1]) => kind = "job"
    BY DEF Carries
  <2> QED BY <2>1, <2>2, <2>3, <2>4, OrderedSend
<1>14. CASE PoolDrops
  <2>1. UNCHANGED <<queued, taken, served, stage, call>> /\ wire' \in {wire, << >>}
    BY <1>14 DEF PoolDrops, stateVars
  <2> QED BY <2>1, OrderedTail DEF Ordered
<1>15. CASE UNCHANGED vars
  BY <1>15 DEF vars, stateVars, poolVars, Ordered, Carries
<1> QED BY <1>1, <1>2, <1>3, <1>4, <1>5, <1>6, <1>7, <1>8, <1>9, <1>10, <1>11, <1>12, <1>13,
           <1>14, <1>15 DEF Next, Call

\* Nothing has been asked.
LEMMA ExchangeInit == Init => Exchange /\ Honest /\ SentOnce
BY DEF Init, Exchange, Honest, SentOnce, FirstCall

\* What is on the wire is a part of what was.
Shrunk(w, v) == \A i \in 1 .. Len(w) : \E j \in 1 .. Len(v) : w[i] = v[j]

LEMMA TailShrinks ==
  ASSUME Typed, wire' \in {wire, << >>} \/ (wire # << >> /\ wire' = Tail(wire))
  PROVE  Shrunk(wire', wire)
BY WireTail DEF Shrunk

\* Nothing new is asked or answered.
LEMMA ExchangeShrinks ==
  ASSUME Typed, Exchange, Shrunk(wire', wire), asked' \subseteq asked, UNCHANGED credited,
         next_id <= next_id', next_id' \in Nat, req' = req, share <= share', share' \in Nat,
         Len(verdicts') = IF call' = "submit" /\ stage' \in {"send", "read", "threw"}
                          THEN share' - 1 ELSE share',
         call' = "submit" => share' > 0
  PROVE  Exchange'
<1>1. req' < next_id'
  BY DEF Exchange, Typed
<1>2. \A r \in asked' :
        r.id < next_id' /\ r.share <= share' /\ (r.call = "submit" <=> r.share > 0)
  BY DEF Exchange, Typed, Requests
<1>3. \A i \in 1 .. Len(wire') : wire'[i].kind = "answer" =>
        wire'[i].id < next_id' /\ \A r \in asked' : r.id # wire'[i].id
  <2> SUFFICES ASSUME NEW i \in 1 .. Len(wire'), wire'[i].kind = "answer"
               PROVE  wire'[i].id < next_id' /\ \A r \in asked' : r.id # wire'[i].id
    OBVIOUS
  <2>1. PICK j \in 1 .. Len(wire) : wire'[i] = wire[j]
    BY DEF Shrunk
  <2>2. wire[j] \in Answers
    <3>1. wire[j] \in Messages
      BY DEF Typed
    <3> QED BY <2>1, <3>1 DEF Messages, Unasked
  <2>3. wire[j].id \in Nat
    BY <2>2 DEF Answers
  <2> QED BY <2>1, <2>3 DEF Exchange, Typed
<1>4. \A s \in credited' : s > 0 /\ s <= share'
  BY DEF Exchange, Typed
<1>5. \A r, s \in asked' : r.id = s.id => r = s
  BY DEF Exchange
<1> QED BY <1>1, <1>2, <1>3, <1>4, <1>5 DEF Exchange

\* No share is accepted, and what was said of shares was said before, or is true.
LEMMA HonestShrinks ==
  ASSUME Honest, Shrunk(wire', wire), asked' \subseteq asked, UNCHANGED credited,
         call' = "submit" /\ stage' = "read" =>
           call = "submit" /\ stage = "read" /\ req' = req /\ share' = share,
         \A s \in 1 .. Len(verdicts') :
           verdicts'[s] = "accepted" =>
             s \in credited \/ (s \in 1 .. Len(verdicts) /\ verdicts[s] = "accepted")
  PROVE  Honest'
BY DEF Honest, Shrunk, IsAnswer

\* No share is accepted, and one that is sent again was not taken.
LEMMA SentOnceShrinks ==
  ASSUME SentOnce, Shrunk(wire', wire), asked' \subseteq asked, UNCHANGED <<credited, mode>>,
         call' = "submit" /\ stage' = "read" =>
           call = "submit" /\ stage = "read" /\ req' = req /\ share' = share,
         mode # "LOGIN_CAPS_SUBMIT" /\ call' = "submit" /\ stage' = "send" => Lost(share'),
         mode # "LOGIN_CAPS_SUBMIT" =>
           \A s \in 1 .. Len(verdicts') :
             verdicts'[s] = "rejected" =>
               Lost(s) \/ (s \in 1 .. Len(verdicts) /\ verdicts[s] = "rejected")
  PROVE  SentOnce'
<1> SUFFICES ASSUME mode # "LOGIN_CAPS_SUBMIT" PROVE SentOnce'
  BY DEF SentOnce
<1>1. \A s : Lost(s) => Lost(s)'
  BY DEF Lost
<1>2. \A s \in 1 .. Len(verdicts') : verdicts'[s] = "rejected" => Lost(s)'
  BY <1>1 DEF SentOnce
<1>3. call' = "submit" /\ stage' = "send" => Lost(share)'
  BY <1>1 DEF Lost
<1>4. ASSUME call' = "submit" /\ stage' = "read"
      PROVE  /\ \A r \in asked' : r.share = share' => r.id = req' /\ share' \notin credited'
             /\ \A i \in 1 .. Len(wire') :
                  IsAnswer(wire'[i], req') /\ wire'[i].verdict # "ok" => Lost(share)'
  <2>1. call = "submit" /\ stage = "read" /\ req' = req /\ share' = share
    BY <1>4
  <2>2. \A r \in asked : r.share = share => r.id = req /\ share \notin credited
    BY <2>1 DEF SentOnce
  <2>3. \A i \in 1 .. Len(wire) :
          IsAnswer(wire[i], req) /\ wire[i].verdict # "ok" => Lost(share)
    BY <2>1 DEF SentOnce
  <2>4. Lost(share) => Lost(share)'
    BY <2>1 DEF Lost
  <2> QED BY <2>1, <2>2, <2>3, <2>4 DEF Shrunk, IsAnswer
<1> QED BY <1>2, <1>3, <1>4 DEF SentOnce, IsAnswer

\* Before login has succeeded no share is on its way and none has a verdict.
LEMMA NoShareYet ==
  ASSUME LoginPath', ~LoggedIn'
  PROVE  /\ share' = 0 /\ verdicts' = << >> /\ call' # "submit"
         /\ Len(verdicts') = IF call' = "submit" /\ stage' \in {"send", "read"}
                             THEN share' - 1 ELSE share'
BY EmptySeq DEF LoginPath, LoggedIn

\* Nothing is claimed of shares while there are none.
LEMMA SentOnceNoShare ==
  ASSUME verdicts' = << >>, call' # "submit" PROVE SentOnce'
BY DEF SentOnce

Net == Exchange /\ Honest /\ SentOnce

\* The client connects, or goes through a login.
LEMMA NetOfLogin ==
  ASSUME Typed, Typed', LoginPath, LoginPath', Net,
         \/ Reconnect \/ ReconnectFails \/ JobForLogin \/ LoginAnswered \/ LoginRejected
         \/ SubscribeAnswered \/ AuthAnswered \/ FirstJob
  PROVE  Net'
<1>1. /\ share = 0 /\ verdicts = << >> /\ UNCHANGED <<share, verdicts, credited, req, next_id>>
      /\ asked' \subseteq asked
      /\ wire' = << >> \/ (wire # << >> /\ wire' = Tail(wire))
  <2>1. CASE Reconnect \/ ReconnectFails
    BY <2>1 DEF Reconnect, ReconnectFails, NewConnection, LoginPath, LoggedIn, shareVars
  <2>2. CASE \/ JobForLogin \/ LoginAnswered \/ LoginRejected \/ SubscribeAnswered \/ AuthAnswered
             \/ FirstJob
    BY <2>2 DEF JobForLogin, LoginAnswered, LoginRejected, SubscribeAnswered, AuthAnswered,
       FirstJob, ReadingJob, Reading, LoginPath, LoggedIn, shareVars, poolVars
  <2> QED BY <2>1, <2>2
<1>2. call' # "submit"
  <2>1. CASE Reconnect
    BY <2>1 DEF Reconnect, FirstCall
  <2>2. CASE ReconnectFails
    <3>1. call' \in {call, FirstCall(method)}
      BY <2>2 DEF ReconnectFails, NextMethod
    <3> QED BY <2>2, <3>1 DEF ReconnectFails, LoginPath, FirstCall
  <2>3. CASE LoginRejected
    BY <2>3, AttemptGoesOn DEF LoginRejected
  <2>4. CASE JobForLogin \/ LoginAnswered \/ SubscribeAnswered \/ AuthAnswered \/ FirstJob
    BY <2>4 DEF JobForLogin, LoginAnswered, SubscribeAnswered, AuthAnswered, FirstJob
  <2> QED BY <2>1, <2>2, <2>3, <2>4
<1>3. Shrunk(wire', wire)
  BY <1>1, TailShrinks
<1>4. Len(verdicts') = 0
  BY <1>1, EmptySeq
<1>5. Exchange'
  <2>1. share' = 0 /\ next_id <= next_id' /\ next_id' \in Nat /\ share <= share' /\ share' \in Nat
    BY <1>1 DEF Typed
  <2>2. Exchange /\ req' = req /\ UNCHANGED credited /\ asked' \subseteq asked
    BY <1>1 DEF Net
  <2> QED BY <1>2, <1>3, <1>4, <2>1, <2>2, ExchangeShrinks
<1>6. Honest'
  BY <1>1, <1>2, <1>3, <1>4, HonestShrinks DEF Net
<1>7. SentOnce'
  BY <1>1, <1>2, SentOnceNoShare
<1> QED BY <1>5, <1>6, <1>7 DEF Net

\* A message is sent under an id of its own.
LEMMA NetOfSend ==
  ASSUME Typed, Typed', LoginPath, Net, Send
  PROVE  Net'
<1>1. /\ stage = "send" /\ stage' = "read" /\ req' = next_id /\ next_id' = next_id + 1
      /\ asked' \in {asked, asked \cup {Request}}
      /\ UNCHANGED <<wire, mode, call, share, verdicts, credited>>
  BY DEF Send, stateVars, shareVars
<1>2. next_id \in Nat /\ share \in Nat /\ \A r \in asked : r.id \in Nat /\ r.id < next_id /\ r.share \in Nat
  <2>1. next_id \in Nat /\ share \in Nat
    BY DEF Typed
  <2>2. \A r \in asked : r.id < next_id
    BY DEF Net, Exchange
  <2> QED BY <2>1, <2>2, AskedTyped
<1>3. /\ Request.id = next_id /\ Request.call = call
      /\ Request.share = IF call = "submit" THEN share ELSE 0
  BY DEF Request
<1>4. \A i \in 1 .. Len(wire) : wire[i].kind = "answer" => wire[i].id < next_id /\ wire[i].id \in Nat
  <2> TAKE i \in 1 .. Len(wire)
  <2> HAVE wire[i].kind = "answer"
  <2>1. wire[i] \in Messages
    BY WireTyped
  <2>2. wire[i].id \in Nat
    BY <2>1 DEF Messages, Answers, Unasked
  <2> QED BY <2>2 DEF Net, Exchange
<1>5. \A r \in asked' : r \in asked \/ r = Request
  BY <1>1
<1>6. Exchange'
  <2>1. \A r \in asked' :
          r.id < next_id' /\ r.share <= share' /\ (r.call = "submit" <=> r.share > 0)
    BY <1>1, <1>2, <1>3, <1>5 DEF Net, Exchange
  <2>2. \A r, s \in asked' : r.id = s.id => r = s
    BY <1>2, <1>3, <1>5 DEF Net, Exchange
  <2>3. \A i \in 1 .. Len(wire') : wire'[i].kind = "answer" =>
          wire'[i].id < next_id' /\ \A r \in asked' : r.id # wire'[i].id
    BY <1>1, <1>2, <1>3, <1>4, <1>5 DEF Net, Exchange
  <2> QED BY <1>1, <1>2, <2>1, <2>2, <2>3 DEF Net, Exchange
<1>7. Honest'
  <2>1. call' = "submit" => \A r \in asked' : r.id = req' => r.share = share'
    BY <1>1, <1>2, <1>3, <1>5
  <2>2. \A i \in 1 .. Len(wire') : ~IsAnswer(wire'[i], req')
    BY <1>1, <1>2, <1>4 DEF IsAnswer
  <2> QED BY <1>1, <2>1, <2>2 DEF Net, Honest, IsAnswer
<1>8. SentOnce'
  <2> SUFFICES ASSUME mode # "LOGIN_CAPS_SUBMIT" PROVE SentOnce'
    BY <1>1 DEF SentOnce
  <2>1. Len(verdicts) = IF call = "submit" THEN share - 1 ELSE share
    BY <1>1 DEF Net, Exchange
  <2>2. \A s \in 1 .. Len(verdicts') : verdicts'[s] = "rejected" => Lost(s)'
    <3> TAKE s \in 1 .. Len(verdicts')
    <3> HAVE verdicts'[s] = "rejected"
    <3>1. Lost(s) /\ s \in Nat \ {0} /\ (call = "submit" => s # share)
      BY <1>1, <1>2, <2>1 DEF Net, SentOnce
    <3> QED BY <1>1, <1>3, <1>5, <3>1 DEF Lost
  <2>3. ASSUME call' = "submit"
        PROVE  \A r \in asked' : r.share = share' => r.id = req' /\ share' \notin credited'
    <3>1. Lost(share)
      BY <1>1, <2>3 DEF Net, SentOnce
    <3> QED BY <1>1, <1>3, <1>5, <3>1 DEF Lost
  <2>4. \A i \in 1 .. Len(wire') : ~IsAnswer(wire'[i], req')
    BY <1>1, <1>2, <1>4 DEF IsAnswer
  <2> QED BY <1>1, <2>2, <2>3, <2>4 DEF SentOnce, IsAnswer
<1> QED BY <1>6, <1>7, <1>8 DEF Net

\* submit_share reports a share, in its turn.
LEMMA NetOfVerdict ==
  ASSUME Typed, Typed', Net, NEW v \in Verdicts,
         call = "submit", stage \in {"send", "read"}, stage' = "ready",
         wire' = wire \/ (wire # << >> /\ wire' = Tail(wire)),
         verdicts' = Append(verdicts, v), UNCHANGED <<call, share, req, mode, asked, credited>>,
         next_id' \in {next_id, next_id + 1},
         v = "accepted" => share \in credited,
         v = "rejected" /\ mode # "LOGIN_CAPS_SUBMIT" => Lost(share)
  PROVE  Net'
<1>1. Shrunk(wire', wire)
  BY TailShrinks
<1>2. /\ Len(verdicts') = Len(verdicts) + 1 /\ Len(verdicts) = share - 1 /\ share \in Nat
      /\ \A s \in 1 .. Len(verdicts) : verdicts'[s] = verdicts[s]
      /\ verdicts'[Len(verdicts) + 1] = v
  <2>1. Len(verdicts) = share - 1
    BY DEF Net, Exchange
  <2>2. share \in Nat
    BY DEF Typed
  <2> QED BY <2>1, <2>2, ReportedOne
<1>3. \A s \in 1 .. Len(verdicts') :
        \/ s \in 1 .. Len(verdicts) /\ verdicts'[s] = verdicts[s]
        \/ s = share /\ verdicts'[s] = v
  BY <1>2
<1>4. next_id <= next_id' /\ next_id' \in Nat
  BY DEF Typed
<1>5. Exchange'
  BY <1>1, <1>2, <1>4, ExchangeShrinks DEF Net, Exchange
<1>6. Honest'
  BY <1>1, <1>3, HonestShrinks DEF Net
<1>7. SentOnce'
  BY <1>1, <1>3, SentOnceShrinks DEF Net
<1> QED BY <1>5, <1>6, <1>7 DEF Net

\* submit_share tries the next form of a request that can no longer be answered.
LEMMA NetOfNextForm ==
  ASSUME Typed, Typed', Net,
         call = "submit", stage \in {"send", "read"}, stage' = "send",
         wire' = wire \/ (wire # << >> /\ wire' = Tail(wire)),
         UNCHANGED <<call, share, verdicts, req, mode, asked, credited>>,
         next_id' \in {next_id, next_id + 1},
         mode # "LOGIN_CAPS_SUBMIT" => Lost(share)
  PROVE  Net'
<1>1. Shrunk(wire', wire)
  BY TailShrinks
<1>2. next_id <= next_id' /\ next_id' \in Nat /\ share \in Nat /\ Len(verdicts) = share - 1
  <2>1. next_id <= next_id' /\ next_id' \in Nat /\ share \in Nat
    BY DEF Typed
  <2>2. Len(verdicts) = share - 1
    BY DEF Net, Exchange
  <2> QED BY <2>1, <2>2
<1>3. Exchange'
  BY <1>1, <1>2, ExchangeShrinks DEF Net, Exchange
<1>4. Honest'
  BY <1>1, HonestShrinks DEF Net
<1>5. SentOnce'
  BY <1>1, SentOnceShrinks DEF Net
<1> QED BY <1>3, <1>4, <1>5 DEF Net

\* Nothing changes that has to do with shares.
LEMMA NetOfOthers ==
  ASSUME Typed, Typed', Net, Shrunk(wire', wire), asked' \subseteq asked,
         UNCHANGED <<share, verdicts, req, mode, credited>>, next_id' \in {next_id, next_id + 1},
         \/ call' = call /\ (stage' = stage \/ (stage = "read" /\ stage' = "threw"))
         \/ /\ call = "submit" => stage \notin {"send", "read", "threw"}
            /\ call' = "submit" => stage' \notin {"send", "read", "threw"} /\ share > 0
  PROVE  Net'
<1>1. next_id <= next_id' /\ next_id' \in Nat /\ share \in Nat
  BY DEF Typed
<1>2. Exchange'
  BY <1>1, ExchangeShrinks DEF Net, Exchange
<1>3. Honest'
  BY HonestShrinks DEF Net
<1>4. mode # "LOGIN_CAPS_SUBMIT" /\ call' = "submit" /\ stage' = "send" => Lost(share')
  BY DEF Net, SentOnce
<1>5. SentOnce'
  BY <1>4, SentOnceShrinks DEF Net
<1> QED BY <1>2, <1>3, <1>5 DEF Net

\* The pool has one more message on its way, which answers the request r or none.
LEMMA NetOfPool ==
  ASSUME Typed, Typed', Net, NEW m \in Messages, wire' = Append(wire, m),
         UNCHANGED <<next_id, stage, call, req, share, verdicts, mode>>,
         \/ m.kind # "answer" /\ UNCHANGED <<asked, credited>>
         \/ \E r \in asked :
              /\ m.kind = "answer" /\ m.id = r.id /\ asked' = asked \ {r}
              /\ credited' = IF r.call = "submit" /\ m.verdict = "ok"
                             THEN credited \cup {r.share} ELSE credited
              /\ r.share \in credited => m.verdict # "ok"
  PROVE  Net'
<1>1. /\ \A i \in 1 .. Len(wire') : (i \in 1 .. Len(wire) /\ wire'[i] = wire[i]) \/ wire'[i] = m
  BY WireAppend
<1>2. CASE m.kind # "answer" /\ UNCHANGED <<asked, credited>>
  <2>1. Exchange'
    BY <1>1, <1>2 DEF Net, Exchange
  <2>2. Honest'
    BY <1>1, <1>2 DEF Net, Honest, IsAnswer
  <2>3. SentOnce'
    BY <1>1, <1>2 DEF Net, SentOnce, IsAnswer, Lost
  <2> QED BY <2>1, <2>2, <2>3 DEF Net
<1>3. ASSUME NEW r \in asked, m.kind = "answer", m.id = r.id, asked' = asked \ {r},
             credited' = IF r.call = "submit" /\ m.verdict = "ok"
                         THEN credited \cup {r.share} ELSE credited,
             r.share \in credited => m.verdict # "ok"
      PROVE  Net'
  <2>1. /\ r.id < next_id /\ r.share <= share /\ (r.call = "submit" <=> r.share > 0)
        /\ \A s \in asked : s.id = r.id => s = r
    BY DEF Net, Exchange
  <2>2. Exchange'
    <3>1. \A i \in 1 .. Len(wire') : wire'[i].kind = "answer" =>
            wire'[i].id < next_id' /\ \A s \in asked' : s.id # wire'[i].id
      BY <1>1, <1>3, <2>1 DEF Net, Exchange
    <3>2. \A s \in credited' : s > 0 /\ s <= share'
      BY <1>3, <2>1 DEF Net, Exchange
    <3> QED BY <1>3, <3>1, <3>2 DEF Net, Exchange
  <2>3. Honest'
    <3>1. \A s \in credited : s \in credited'
      BY <1>3
    <3>2. ASSUME call = "submit", stage = "read", m.id = req, m.verdict = "ok"
          PROVE  share \in credited'
      <4>1. r.share = share /\ share > 0
        BY <1>3, <3>2 DEF Net, Honest, Exchange
      <4> QED BY <1>3, <2>1, <3>2, <4>1
    <3> QED BY <1>1, <1>3, <3>1, <3>2 DEF Net, Honest, IsAnswer
  <2>4. SentOnce'
    <3> SUFFICES ASSUME mode # "LOGIN_CAPS_SUBMIT" PROVE SentOnce'
      BY DEF SentOnce
    <3>1. ASSUME NEW s, Lost(s) PROVE Lost(s)'
      BY <1>3, <3>1 DEF Lost
    <3>2. ASSUME call = "submit", stage = "read"
          PROVE  \A s \in asked' : s.share = share => s.id = req /\ share \notin credited'
      <4> TAKE s \in asked'
      <4> HAVE s.share = share
      <4>1. s \in asked /\ s # r /\ s.id = req /\ share \notin credited
        BY <1>3, <3>2 DEF Net, SentOnce
      <4>2. r.share # share
        BY <2>1, <3>2, <4>1 DEF Net, SentOnce
      <4> QED BY <1>3, <4>1, <4>2
    <3>3. ASSUME call = "submit", stage = "read", m.id = req, m.verdict # "ok"
          PROVE  Lost(share)'
      <4>1. r.share = share /\ share \notin credited
        BY <1>3, <3>3 DEF Net, Honest, SentOnce
      <4>2. \A s \in asked' : s.share # share
        BY <1>3, <2>1, <3>3 DEF Net, SentOnce
      <4> QED BY <1>3, <3>3, <4>1, <4>2 DEF Lost
    <3>4. \A s \in 1 .. Len(verdicts') : verdicts'[s] = "rejected" => Lost(s)'
      BY <3>1 DEF Net, SentOnce
    <3>5. call' = "submit" /\ stage' = "send" => Lost(share)'
      <4>1. call = "submit" /\ stage = "send" => Lost(share)
        BY DEF Net, SentOnce
      <4> QED BY <3>1, <4>1
    <3>6. call' = "submit" /\ stage' = "read" =>
            \A i \in 1 .. Len(wire') :
              IsAnswer(wire'[i], req') /\ wire'[i].verdict # "ok" => Lost(share)'
      <4>1. call = "submit" /\ stage = "read" =>
              \A i \in 1 .. Len(wire) :
                IsAnswer(wire[i], req) /\ wire[i].verdict # "ok" => Lost(share)
        BY DEF Net, SentOnce
      <4>2. Lost(share) => Lost(share)'
        BY <3>1
      <4> QED BY <1>1, <3>3, <4>1, <4>2 DEF IsAnswer
    <3>7. call' = "submit" /\ stage' = "read" =>
            \A s \in asked' : s.share = share' => s.id = req' /\ share' \notin credited'
      BY <3>2
    <3> QED BY <3>4, <3>5, <3>6, <3>7 DEF SentOnce, IsAnswer
  <2> QED BY <2>2, <2>3, <2>4 DEF Net
<1> QED BY <1>2, <1>3

\* Requests, answers and verdicts stay together in every step.
LEMMA NetStep ==
  ASSUME Typed, Typed', LoginPath, LoginPath', Net, [Next]_vars
  PROVE  Net'
<1>1. CASE \/ Reconnect \/ ReconnectFails \/ JobForLogin \/ LoginAnswered \/ LoginRejected
           \/ SubscribeAnswered \/ AuthAnswered \/ FirstJob
  BY <1>1, NetOfLogin
<1>2. CASE Send
  BY <1>2, NetOfSend
<1>3. CASE SendFails \/ ReadFails
  <2>1. /\ stage \in {"send", "read"} /\ CallFails /\ UNCHANGED <<req, mode, asked, credited>>
        /\ wire' = wire \/ (wire # << >> /\ wire' = Tail(wire))
        /\ next_id' \in {next_id, next_id + 1}
    BY <1>3 DEF SendFails, ReadFails, stateVars, poolVars
  <2>2. Shrunk(wire', wire)
    BY <2>1, TailShrinks
  <2>3. CASE call = "poll" /\ stage' = "ready" /\ UNCHANGED <<call, share, verdicts>>
    BY <2>1, <2>2, <2>3, NetOfOthers
  <2>4. CASE /\ call = "submit" /\ ResendsUnanswered /\ stage' = "send"
             /\ UNCHANGED <<call, share, verdicts>>
    BY <2>1, <2>4, NetOfNextForm DEF ResendsUnanswered
  <2>5. CASE /\ call = "submit" /\ verdicts' = Append(verdicts, "failed") /\ stage' = "ready"
             /\ UNCHANGED <<call, share>>
    BY <2>1, <2>5, NetOfVerdict DEF Verdicts
  <2>6. CASE call \notin {"poll", "submit"} /\ AuthFails /\ UNCHANGED <<share, verdicts>>
    <3>1. call' # "submit"
      BY <2>6, AttemptGoesOn
    <3> QED BY <2>1, <2>2, <2>6, <3>1, NetOfOthers
  <2> QED BY <2>1, <2>3, <2>4, <2>5, <2>6, CallFailsCases
<1>4. CASE Skip \/ ReadThrows \/ KeepJob
  <2>1. /\ wire # << >> /\ wire' = Tail(wire)
        /\ UNCHANGED <<share, verdicts, req, mode, asked, credited, next_id, call>>
        /\ stage' = stage \/ (stage = "read" /\ stage' = "threw")
    BY <1>4 DEF Skip, ReadThrows, KeepJob, ReadingJob, Reading, stateVars, poolVars, shareVars
  <2>2. Shrunk(wire', wire)
    BY <2>1, TailShrinks
  <2> QED BY <2>1, <2>2, NetOfOthers
<1>5. CASE PolledJob
  <2>1. /\ wire # << >> /\ wire' = Tail(wire) /\ call = "poll" /\ call' = call
        /\ UNCHANGED <<share, verdicts, req, mode, asked, credited, next_id>>
    BY <1>5 DEF PolledJob, ReadingJob, Reading, poolVars, shareVars, stateVars
  <2>2. Shrunk(wire', wire)
    BY <2>1, TailShrinks
  <2> QED BY <2>1, <2>2, NetOfOthers
<1>6. CASE Poll
  <2>1. /\ UNCHANGED <<wire, share, verdicts, req, mode, asked, credited, next_id>>
        /\ UNCHANGED <<call, stage>> \/ (stage = "ready" /\ call' = "poll")
    BY <1>6 DEF Poll, poolVars, shareVars
  <2>2. Shrunk(wire', wire)
    BY <2>1, TailShrinks
  <2> QED BY <2>1, <2>2, NetOfOthers
<1>7. CASE Submit
  <2>1. /\ stage = "ready" /\ stage' = "send" /\ call' = "submit" /\ share' = share + 1
        /\ UNCHANGED <<wire, verdicts, req, mode, asked, credited, next_id>>
    BY <1>7 DEF Submit, poolVars, stateVars
  <2>2. Shrunk(wire', wire)
    BY <2>1, TailShrinks
  <2>3. /\ next_id <= next_id' /\ next_id' \in Nat /\ share <= share' /\ share' \in Nat
        /\ share' - 1 = share /\ share' > 0
    BY <2>1 DEF Typed
  <2>4. Len(verdicts') = share
    BY <2>1 DEF Net, Exchange
  <2>5. Exchange'
    BY <2>1, <2>2, <2>3, <2>4, ExchangeShrinks DEF Net
  <2>6. Honest'
    BY <2>1, <2>2, HonestShrinks DEF Net
  <2>7. Lost(share')
    <3>1. share \in Nat /\ \A s \in credited : s <= share
      BY DEF Net, Exchange, Typed
    <3>2. \A r \in asked : r.share <= share /\ r.share \in Nat
      BY AskedTyped DEF Net, Exchange
    <3> QED BY <2>1, <3>1, <3>2 DEF Lost
  <2>8. SentOnce'
    BY <2>1, <2>2, <2>7, SentOnceShrinks DEF Net
  <2> QED BY <2>5, <2>6, <2>8 DEF Net
<1>8. CASE SubmitAnswered
  <2>1. /\ stage = "read" /\ call = "submit" /\ call' = call /\ IsMine
        /\ wire # << >> /\ wire' = Tail(wire)
        /\ UNCHANGED <<share, req, mode, asked, credited, next_id>>
        /\ \/ Message.verdict # "ok" /\ stage' = "send" /\ verdicts' = verdicts
           \/ /\ stage' = "ready"
              /\ verdicts' = Append(verdicts, IF Message.verdict = "ok" THEN "accepted" ELSE "rejected")
    BY <1>8 DEF SubmitAnswered, Reading, NextForm, Report, poolVars, stateVars
  <2>2. 1 \in 1 .. Len(wire) /\ IsAnswer(wire[1], req) /\ Message = wire[1]
    BY <2>1, WireTail DEF IsMine, IsAnswer
  <2>3. Message.verdict = "ok" => share \in credited
    BY <2>1, <2>2 DEF Net, Honest
  <2>4. mode # "LOGIN_CAPS_SUBMIT" /\ Message.verdict # "ok" => Lost(share)
    BY <2>1, <2>2 DEF Net, SentOnce
  <2>5. CASE Message.verdict # "ok" /\ stage' = "send" /\ verdicts' = verdicts
    BY <2>1, <2>4, <2>5, NetOfNextForm
  <2>6. CASE Message.verdict = "ok" /\ stage' = "ready" /\ verdicts' = Append(verdicts, "accepted")
    BY <2>1, <2>3, <2>6, NetOfVerdict DEF Verdicts
  <2>7. CASE Message.verdict # "ok" /\ stage' = "ready" /\ verdicts' = Append(verdicts, "rejected")
    BY <2>1, <2>4, <2>7, NetOfVerdict DEF Verdicts
  <2> QED BY <2>1, <2>5, <2>6, <2>7
<1>9. CASE PoolAnswers
  <2>1. UNCHANGED <<next_id, stage, call, req, share, verdicts, mode>>
    BY <1>9 DEF PoolAnswers, stateVars, shareVars
  <2>2. PICK r \in asked : \E verdict \in Verdict(r), job \in BOOLEAN, sess \in BOOLEAN :
          /\ r.share \in credited => verdict # "ok"
          /\ wire' = Append(wire, Answer(r, verdict, job, sess))
          /\ asked' = asked \ {r}
          /\ credited' = IF r.call = "submit" /\ verdict = "ok"
                         THEN credited \cup {r.share} ELSE credited
    BY <1>9 DEF PoolAnswers
  <2>3. PICK verdict \in Verdict(r), job \in BOOLEAN, sess \in BOOLEAN :
          /\ r.share \in credited => verdict # "ok"
          /\ wire' = Append(wire, Answer(r, verdict, job, sess))
          /\ asked' = asked \ {r}
          /\ credited' = IF r.call = "submit" /\ verdict = "ok"
                         THEN credited \cup {r.share} ELSE credited
    BY <2>2
  <2>4. Answer(r, verdict, job, sess) \in Messages
    <3>1. r.id \in Nat /\ served \in Nat
      BY AskedTyped DEF Typed
    <3> QED BY <3>1 DEF Answer, Messages, Answers, Verdict
  <2>5. /\ Answer(r, verdict, job, sess).kind = "answer" /\ Answer(r, verdict, job, sess).id = r.id
        /\ Answer(r, verdict, job, sess).verdict = verdict
    BY DEF Answer
  <2> QED BY <2>1, <2>3, <2>4, <2>5, NetOfPool
<1>10. CASE PoolSends
  <2>1. UNCHANGED <<next_id, stage, call, req, share, verdicts, mode, asked, credited>>
    BY <1>10 DEF PoolSends, stateVars, shareVars
  <2>2. PICK kind \in {"job", "difficulty", "odd", "bad"} :
          wire' = Append(wire, [kind |-> kind, serial |-> served + 1])
    BY <1>10 DEF PoolSends
  <2>3. [kind |-> kind, serial |-> served + 1] \in Messages
    BY DEF Messages, Unasked, Typed
  <2> QED BY <2>1, <2>2, <2>3, NetOfPool
<1>11. CASE PoolDrops
  <2>1. /\ UNCHANGED <<next_id, stage, call, req, share, verdicts, mode, credited>>
        /\ asked' \subseteq asked /\ wire' \in {wire, << >>}
    BY <1>11 DEF PoolDrops, stateVars, shareVars
  <2>2. Shrunk(wire', wire)
    BY <2>1, TailShrinks
  <2> QED BY <2>1, <2>2, NetOfOthers
<1>12. CASE UNCHANGED vars
  <2>1. /\ UNCHANGED <<next_id, stage, call, req, share, verdicts, mode, credited, asked, wire>>
    BY <1>12 DEF vars, stateVars, shareVars, poolVars
  <2>2. Shrunk(wire', wire)
    BY <2>1, TailShrinks
  <2> QED BY <2>1, <2>2, NetOfOthers
<1> QED BY <1>1, <1>2, <1>3, <1>4, <1>5, <1>6, <1>7, <1>8, <1>9, <1>10, <1>11, <1>12
        DEF Next, Call

\* The inductive invariant.
ClientInv == Typed /\ LoginPath /\ Settled /\ OfThisConnection /\ Ordered /\ Net

\* The inductive invariant holds of every state of the client.
THEOREM ClientInvHolds == Spec => []ClientInv
<1>1. Init => ClientInv
  BY TypedInit, PathInit, ConnectionInit, OrderedInit, ExchangeInit DEF ClientInv, Net
<1>2. ClientInv /\ [Next]_vars => ClientInv'
  <2> SUFFICES ASSUME ClientInv, [Next]_vars PROVE ClientInv'
    OBVIOUS
  <2> USE DEF ClientInv
  <2>1. Typed'
    BY TypedStep
  <2>2. LoginPath' /\ Settled'
    BY PathOfLogin, PathOfCalls DEF Next, Call
  <2>3. OfThisConnection' /\ Ordered'
    BY ConnectionStep, OrderedStep
  <2>4. Net'
    BY <2>1, <2>2, NetStep
  <2> QED BY <2>1, <2>2, <2>3, <2>4
<1> QED BY <1>1, <1>2, PTL DEF Spec

\* Ordered says it of the jobs in answers, too.
LEMMA InOrder == ClientInv => JobsInOrder
<1> SUFFICES ASSUME ClientInv PROVE JobsInOrder
  OBVIOUS
<1>1. DOMAIN queued = 1 .. Len(queued) /\ DOMAIN wire = 1 .. Len(wire)
  BY LenProperties DEF ClientInv, Typed
<1>2. \A i \in DOMAIN queued : queued[i].serial > taken
  <2> TAKE i \in DOMAIN queued
  <2>1. taken < queued[i].serial
    BY <1>1 DEF ClientInv, Ordered
  <2> QED BY <2>1
<1>3. \A i \in DOMAIN wire : wire[i].kind = "job" =>
        wire[i].serial > taken /\ \A j \in DOMAIN queued : wire[i].serial > queued[j].serial
  <2> TAKE i \in DOMAIN wire
  <2> HAVE wire[i].kind = "job"
  <2>1. taken < wire[i].serial /\ \A j \in 1 .. Len(queued) : queued[j].serial < wire[i].serial
    BY <1>1 DEF ClientInv, Ordered, Carries
  <2> QED BY <1>1, <2>1
<1> QED BY <1>1, <1>2, <1>3 DEF JobsInOrder, ClientInv, Ordered

\* poll_job returns the jobs in the order in which the pool sent them.
THEOREM JobsAlwaysInOrder == Spec => []JobsInOrder
BY InOrder, ClientInvHolds, PTL

\* What submit_share says of a share is what the pool did with it.
THEOREM VerdictsAlwaysTrue == Spec => []VerdictsAreTrue
<1>1. ClientInv => VerdictsAreTrue
  <2> SUFFICES ASSUME ClientInv, NEW s \in DOMAIN verdicts
               PROVE  /\ verdicts[s] = "accepted" => s \in credited
                      /\ verdicts[s] = "rejected" /\ s \in credited => mode = "LOGIN_CAPS_SUBMIT"
    BY DEF VerdictsAreTrue
  <2>1. s \in 1 .. Len(verdicts)
    BY LenProperties DEF ClientInv, Typed
  <2> QED BY <2>1 DEF ClientInv, Net, Honest, SentOnce, Lost
<1> QED BY <1>1, ClientInvHolds, PTL

\* A client that is logged in knows how to submit, and has its first job.
THEOREM LoginAlwaysSettles == Spec => []LoginSettles
<1>1. ClientInv => LoginSettles
  BY DEF ClientInv, Settled, LoggedIn, LoginSettles
<1> QED BY <1>1, ClientInvHolds, PTL

\* Types, the ranges of the tables, and nothing of an old connection.
THEOREM StratumClientInvHolds == Spec => []StratumClientInv
<1>1. ClientInv => StratumClientInv
  <2> SUFFICES ASSUME ClientInv PROVE StratumClientInv
    OBVIOUS
  <2>1. /\ DOMAIN queued = 1 .. Len(queued) /\ DOMAIN wire = 1 .. Len(wire)
        /\ DOMAIN verdicts = 1 .. Len(verdicts)
    BY LenProperties DEF ClientInv, Typed
  <2>2. DOMAIN Ladder = 1 .. Len(Ladder)
    BY ClientAssumption, LenProperties
  <2>3. NothingOfAnOldConnection
    BY <2>1 DEF ClientInv, OfThisConnection, NothingOfAnOldConnection
  <2>4. \A i \in DOMAIN wire : wire[i].kind \in Kinds
    <3> TAKE i \in DOMAIN wire
    <3>1. wire[i] \in Messages
      BY <2>1, WireTyped DEF ClientInv
    <3> QED BY <3>1 DEF Messages, Answers, Unasked, Kinds
  <2>5. \A i \in DOMAIN queued : queued[i].serial \in Nat /\ queued[i].conn \in Nat
    <3> TAKE i \in DOMAIN queued
    <3>1. queued[i] \in Jobs
      BY <2>1 DEF ClientInv, Typed
    <3> QED BY <3>1 DEF Jobs
  <2>6. session \in 0 .. conn /\ difficulty \in 0 .. conn
    BY DEF ClientInv, Typed, OfThisConnection
  <2>7. form \in 1 .. IF mode = "UNKNOWN" THEN 1 ELSE Forms[mode]
    <3>1. CASE LoggedIn
      <4>1. Mode[method] \in Modes
        BY MethodTyped DEF ClientInv, Typed, method
      <4>2. mode # "UNKNOWN" /\ Forms[mode] \in Nat
        BY <3>1, <4>1, ClientAssumption DEF ClientInv, Settled, Modes, Mode, Methods
      <4> QED BY <3>1, <4>2 DEF ClientInv, Settled, Typed
    <3>2. CASE ~LoggedIn
      <4>1. mode # "UNKNOWN" => Forms[mode] \in Nat \ {0}
        BY ClientAssumption DEF ClientInv, Typed
      <4> QED BY <3>2, <4>1 DEF ClientInv, LoginPath
    <3> QED BY <3>1, <3>2
  <2>8. req \in 0 .. next_id - 1 /\ taken \in 0 .. served /\ credited \subseteq 1 .. share
    BY DEF ClientInv, Typed, Net, Exchange, Ordered
  <2>9. \A i \in DOMAIN verdicts : verdicts[i] \in {"accepted", "rejected", "failed"}
    BY <2>1 DEF ClientInv, Typed, Verdicts
  <2>10. TypeOK
    BY <2>2, <2>4, <2>5, <2>6, <2>7, <2>8, <2>9 DEF TypeOK, ClientInv, Typed
  <2> QED BY <2>3, <2>10, InOrder DEF StratumClientInv
<1> QED BY <1>1, ClientInvHolds, PTL

-----------------------------------------------------------------------------
(***************************************************************************)
(* The client implements PoolSession.                                      *)
(***************************************************************************)
\* The jobs that have come and have not been returned.
Kept == {queued[i].serial : i \in DOMAIN queued}
Waiting == IF LoggedIn THEN Kept ELSE {}

\* They are numbers, and newer than the last job returned.
LEMMA KeptJobs ==
  ASSUME ClientInv
  PROVE  /\ DOMAIN queued = 1 .. Len(queued)
         /\ taken \in Nat /\ \A n \in Kept : n \in Nat /\ n > taken
<1>1. DOMAIN queued = 1 .. Len(queued) /\ taken \in Nat
  BY LenProperties DEF ClientInv, Typed
<1>2. ASSUME NEW i \in DOMAIN queued
      PROVE  queued[i].serial \in Nat /\ queued[i].serial > taken
  <2>1. queued[i] \in Jobs /\ taken < queued[i].serial
    BY <1>1, <1>2 DEF ClientInv, Typed, Ordered
  <2> QED BY <1>1, <2>1 DEF Jobs
<1> QED BY <1>1, <1>2 DEF Kept

LEMMA SessionBegins == Init => Session!SessionInit
<1> SUFFICES ASSUME Init PROVE Session!SessionInit
  OBVIOUS
<1>1. stage = "send" /\ call \notin {"poll", "submit"}
  BY DEF Init, FirstCall
<1> QED BY <1>1 DEF Init, Session!SessionInit, Phase, LoggedIn

\* A step that changes nothing run_pool_stratum can see.
LEMMA Unseen ==
  ASSUME UNCHANGED <<stage, call, mode, taken, queued, share, verdicts, credited>>
  PROVE  UNCHANGED Session!sessionVars
BY DEF Session!sessionVars, Phase, LoggedIn

\* Until login returns, nothing can be seen of it; then it has settled a mode.
LEMMA LoginUnseen ==
  ASSUME ClientInv, ClientInv', ~LoggedIn, stage \notin {"failed", "threw"},
         call' \notin {"poll", "submit"} \/ stage' = "ready",
         UNCHANGED <<taken, share, verdicts, credited>>
  PROVE  [Session!SessionNext]_(Session!sessionVars)
<1>1. Phase = "login"
  BY DEF Phase, LoggedIn
<1>2. CASE stage' = "ready"
  <2>1. mode' \in Modes
    BY <1>2, MethodTyped DEF ClientInv, Typed, Settled, LoggedIn, method
  <2>2. \A n \in Kept' : n \in Nat /\ n > taken
    <3>1. queued' \in Seq(Jobs) /\ taken \in Nat /\ taken' = taken
      BY DEF ClientInv, Typed
    <3>2. \A i \in 1 .. Len(queued') : taken' < queued'[i].serial
      BY DEF ClientInv, Ordered
    <3>3. DOMAIN queued' = 1 .. Len(queued')
      BY <3>1, LenProperties
    <3>4. \A i \in 1 .. Len(queued') : queued'[i].serial \in Nat
      <4>1. \A i \in 1 .. Len(queued') : queued'[i] \in Jobs
        BY <3>1, <3>3
      <4> QED BY <4>1 DEF Jobs
    <3> QED BY <3>1, <3>2, <3>3, <3>4 DEF Kept
  <2>3. Session!LogIn
    BY <1>1, <1>2, <2>1, <2>2
       DEF Session!LogIn, Session!Newer, Session!shareVars, Phase, LoggedIn, Kept
  <2> QED BY <2>3 DEF Session!SessionNext
<1>3. CASE stage' = "failed"
  <2>1. Session!LogIn
    BY <1>1, <1>3 DEF Session!LogIn, Session!shareVars, Phase, LoggedIn
  <2> QED BY <2>1 DEF Session!SessionNext
<1>4. CASE stage' = "threw"
  <2>1. ~LoggedIn'
    BY <1>4 DEF LoggedIn
  <2>2. Session!Throw
    BY <1>1, <1>4, <2>1
       DEF Session!Throw, Session!jobVars, Session!shareVars, Phase, LoggedIn
  <2> QED BY <2>2 DEF Session!SessionNext
<1>5. CASE stage' \notin {"ready", "failed", "threw"}
  <2>1. Phase' = "login" /\ ~LoggedIn'
    BY <1>5 DEF Phase, LoggedIn
  <2> QED BY <1>1, <2>1 DEF Session!sessionVars
<1> QED BY <1>2, <1>3, <1>4, <1>5

\* The one verdict on a share is true.
LEMMA Judged ==
  ASSUME ClientInv, ClientInv', call = "submit", stage \in {"send", "read"},
         NEW v \in Verdicts, verdicts' = Append(verdicts, v), stage' = "ready",
         UNCHANGED <<mode, taken, queued, share, credited>>
  PROVE  Session!Judge
<1>1. share \in Nat \ {0} /\ Len(verdicts) = share - 1
  <2>1. share \in Nat /\ share > 0
    BY ClientAssumption DEF ClientInv, Typed, Net, Exchange
  <2> QED BY <2>1 DEF ClientInv, Net, Exchange
<1>2. Len(verdicts') = share /\ verdicts'[share] = v
  BY <1>1, ReportedOne DEF ClientInv
<1>3. share \in 1 .. Len(verdicts')
  BY <1>1, <1>2
<1>4. v = "accepted" => share \in credited
  BY <1>2, <1>3 DEF ClientInv, Net, Honest
<1>5. v = "rejected" /\ mode # "LOGIN_CAPS_SUBMIT" => share \notin credited
  BY <1>2, <1>3 DEF ClientInv, Net, SentOnce, Lost
<1>6. Phase = "submitting" /\ Phase' = "ready" /\ LoggedIn /\ LoggedIn'
  BY DEF Phase, LoggedIn
<1> QED BY <1>4, <1>5, <1>6 DEF Session!Judge, Session!jobVars, Verdicts

\* The pool credits a share that it has, and that is not reported rejected.
LEMMA Credited ==
  ASSUME ClientInv, PoolAnswers
  PROVE  UNCHANGED credited \/ Session!Credit
<1>1. UNCHANGED <<mode, stage, call, share, verdicts, taken, queued>>
  BY DEF PoolAnswers, stateVars, shareVars
<1>2. PICK r \in asked, verdict \in {"ok", "no", "retry", "error"} :
        /\ r.share \in credited => verdict # "ok"
        /\ credited' = IF r.call = "submit" /\ verdict = "ok"
                       THEN credited \cup {r.share} ELSE credited
  BY DEF PoolAnswers, Verdict
<1>3. CASE r.call = "submit" /\ verdict = "ok"
  <2>1. r.share \in Nat /\ r.share > 0 /\ r.share <= share /\ share \in Nat
    BY <1>3, AskedTyped, ClientAssumption DEF ClientInv, Typed, Net, Exchange
  <2>2. r.share \in (1 .. share) \ credited /\ credited' = credited \cup {r.share}
    BY <1>2, <1>3, <2>1
  <2>3. ASSUME r.share \in DOMAIN verdicts,
               (IF LoggedIn THEN mode ELSE "UNKNOWN") \notin {"LOGIN_CAPS_SUBMIT"}
        PROVE  verdicts[r.share] # "rejected"
    <3>1. DOMAIN verdicts = 1 .. Len(verdicts)
      BY LenProperties DEF ClientInv, Typed
    <3>2. CASE LoggedIn
      BY <2>3, <3>1, <3>2 DEF ClientInv, Net, SentOnce, Lost
    <3>3. CASE ~LoggedIn
      BY <2>3, <3>3 DEF ClientInv, LoginPath
    <3> QED BY <3>2, <3>3
  <2>4. UNCHANGED <<Phase, IF LoggedIn THEN mode ELSE "UNKNOWN", Waiting>>
    BY <1>1 DEF Phase, LoggedIn, Waiting, Kept
  <2> QED BY <1>1, <2>2, <2>3, <2>4 DEF Session!Credit, Session!jobVars, Waiting, Kept
<1>4. CASE ~(r.call = "submit" /\ verdict = "ok")
  BY <1>2, <1>4
<1> QED BY <1>3, <1>4

\* The head of the queue is the oldest job that waits, and goes.
LEMMA HeadReturned ==
  ASSUME ClientInv, stage = "ready", stage' = "ready", queued # << >>,
         taken' = NextJob, queued' = Tail(queued), UNCHANGED <<mode, share, verdicts, credited>>
  PROVE  Session!ReturnWaiting
<1>1. /\ Len(queued') = Len(queued) - 1 /\ Len(queued) \in Nat \ {0}
      /\ \A i \in 1 .. Len(queued') : queued'[i] = queued[i + 1] /\ i + 1 \in 1 .. Len(queued)
      /\ taken' = queued[1].serial /\ queued' \in Seq(Jobs)
  BY QueuedTail DEF ClientInv
<1>2. DOMAIN queued = 1 .. Len(queued) /\ DOMAIN queued' = 1 .. Len(queued')
  BY <1>1, LenProperties DEF ClientInv, Typed
<1>3. \A i, j \in 1 .. Len(queued) : i < j => queued[i].serial < queued[j].serial
  BY DEF ClientInv, Ordered
<1>4. \A i \in 1 .. Len(queued) : queued[i].serial \in Nat
  <2>1. \A i \in 1 .. Len(queued) : queued[i] \in Jobs
    BY <1>2 DEF ClientInv, Typed
  <2> QED BY <2>1 DEF Jobs
<1>5. taken' \in Kept
  BY <1>1, <1>2 DEF Kept
<1>6. ASSUME NEW n \in Kept PROVE taken' <= n
  <2>1. PICK i \in 1 .. Len(queued) : n = queued[i].serial
    BY <1>2, <1>6 DEF Kept
  <2> QED BY <1>1, <1>3, <1>4, <2>1
<1>7. Kept' = Kept \ {taken'}
  <2>1. ASSUME NEW n \in Kept' PROVE n \in Kept \ {taken'}
    <3>1. PICK i \in 1 .. Len(queued') : n = queued'[i].serial
      BY <1>2, <2>1 DEF Kept
    <3>2. n = queued[i + 1].serial /\ i + 1 \in 1 .. Len(queued) /\ 1 < i + 1
      BY <1>1, <3>1
    <3>3. queued[1].serial < queued[i + 1].serial /\ 1 \in 1 .. Len(queued)
      BY <1>1, <1>3, <3>2
    <3> QED BY <1>1, <1>2, <1>4, <3>2, <3>3 DEF Kept
  <2>2. ASSUME NEW n \in Kept, n # taken' PROVE n \in Kept'
    <3>1. PICK i \in 1 .. Len(queued) : n = queued[i].serial
      BY <1>2, <2>2 DEF Kept
    <3>2. i - 1 \in 1 .. Len(queued') /\ (i - 1) + 1 = i
      BY <1>1, <2>2, <3>1
    <3>3. queued'[i - 1] = queued[i]
      BY <1>1, <3>2
    <3> QED BY <1>2, <3>1, <3>2, <3>3 DEF Kept
  <2> QED BY <2>1, <2>2
<1>8. Phase = "ready" /\ Phase' = "ready" /\ LoggedIn /\ LoggedIn'
  BY DEF Phase, LoggedIn
<1> QED BY <1>5, <1>6, <1>7, <1>8 DEF Session!ReturnWaiting, Session!shareVars, Kept

\* A job that comes is newer than all there are.
LEMMA ReadIsNewer ==
  ASSUME ClientInv, LoggedIn, ReadingJob
  PROVE  /\ Message.serial \in Nat /\ Message.serial > taken
         /\ \A n \in Kept : Message.serial > n
<1>1. /\ Message = wire[1] /\ 1 \in 1 .. Len(wire) /\ Carries(wire[1]) /\ Message.serial \in Nat
  BY ReadOne DEF ReadingJob, Carries, ClientInv
<1>2. taken < wire[1].serial /\ \A j \in 1 .. Len(queued) : queued[j].serial < wire[1].serial
  BY <1>1 DEF ClientInv, Ordered
<1> QED BY <1>1, <1>2, KeptJobs DEF Kept

\* A job that comes while a share is being submitted is put last.
LEMMA JobKept ==
  ASSUME ClientInv, KeepJob
  PROVE  [Session!SessionNext]_(Session!sessionVars)
<1>1. /\ stage = "read" /\ ReadingJob /\ call \notin ReadsForJob
      /\ queued' = Append(queued, Job(Message.serial)) /\ Message.serial \in Nat
      /\ UNCHANGED <<stage, call, mode, taken, share, verdicts, credited>>
  BY ReadOne DEF KeepJob, ReadingJob, shareVars, ClientInv
<1>2. CASE call = "submit"
  <2>1. LoggedIn /\ LoggedIn' /\ Phase = "submitting" /\ Phase' = "submitting"
    BY <1>1, <1>2 DEF LoggedIn, Phase
  <2>2. Kept' = Kept \cup {Message.serial}
    <3>1. /\ queued' \in Seq(Jobs) /\ Len(queued') = Len(queued) + 1 /\ Len(queued) \in Nat
          /\ \A i \in 1 .. Len(queued) : queued'[i] = queued[i]
          /\ queued'[Len(queued) + 1] = Job(Message.serial)
      BY <1>1, JobTyped, QueuedAppend DEF ClientInv
    <3>2. DOMAIN queued = 1 .. Len(queued) /\ DOMAIN queued' = 1 .. Len(queued')
      BY <3>1, LenProperties DEF ClientInv, Typed
    <3>3. Job(Message.serial).serial = Message.serial
      BY DEF Job
    <3> QED BY <3>1, <3>2, <3>3 DEF Kept
  <2>3. Session!Keep
    BY <1>1, <2>1, <2>2, ReadIsNewer DEF Session!Keep, Session!Newer, Session!shareVars, Kept
  <2> QED BY <2>3 DEF Session!SessionNext
<1>3. CASE call # "submit"
  BY <1>1, <1>3 DEF Session!sessionVars, Phase, LoggedIn, ReadsForJob
<1> QED BY <1>2, <1>3

\* A call that fails in poll_job, in submit_share or in login.
LEMMA FailureSeen ==
  ASSUME ClientInv, ClientInv', SendFails \/ ReadFails
  PROVE  [Session!SessionNext]_(Session!sessionVars)
<1>1. /\ stage \in {"send", "read"} /\ CallFails
      /\ UNCHANGED <<mode, taken, queued, credited>>
  BY DEF SendFails, ReadFails, stateVars, poolVars
<1>2. CASE call = "poll" /\ stage' = "ready" /\ UNCHANGED <<call, share, verdicts>>
  <2>1. Session!ReturnNone
    BY <1>1, <1>2 DEF Session!ReturnNone, Session!jobVars, Session!shareVars, Phase, LoggedIn
  <2> QED BY <2>1 DEF Session!SessionNext
<1>3. CASE call = "submit" /\ stage' = "send" /\ UNCHANGED <<call, share, verdicts>>
  BY <1>1, <1>3 DEF Session!sessionVars, Phase, LoggedIn
<1>4. CASE /\ call = "submit" /\ verdicts' = Append(verdicts, "failed") /\ stage' = "ready"
           /\ UNCHANGED <<call, share>>
  <2>1. Session!Judge
    BY <1>1, <1>4, Judged DEF Verdicts
  <2> QED BY <2>1 DEF Session!SessionNext
<1>5. CASE call \notin {"poll", "submit"} /\ AuthFails /\ UNCHANGED <<form, share, verdicts>>
  <2>1. call' \notin {"poll", "submit"}
    BY <1>5, AttemptGoesOn DEF ClientInv
  <2> QED BY <1>1, <1>5, <2>1, LoginUnseen DEF LoggedIn
<1> QED BY <1>1, <1>2, <1>3, <1>4, <1>5, CallFailsCases

\* The steps of a login.
LEMMA LoginSeen ==
  ASSUME ClientInv, ClientInv',
         \/ Reconnect \/ ReconnectFails \/ LoginRejected \/ SubscribeAnswered
         \/ JobForLogin \/ LoginAnswered \/ AuthAnswered \/ FirstJob
  PROVE  [Session!SessionNext]_(Session!sessionVars)
<1>1. CASE Reconnect \/ ReconnectFails
  <2>1. /\ stage = "reconnect" /\ (call' = call \/ call' = FirstCall(method))
        /\ UNCHANGED <<taken, share, verdicts, credited>>
    BY <1>1 DEF Reconnect, ReconnectFails, NextMethod, shareVars
  <2>2. call \notin {"poll", "submit"} /\ FirstCall(method) \notin {"poll", "submit"}
    BY <2>1 DEF ClientInv, LoginPath, FirstCall
  <2> QED BY <2>1, <2>2, LoginUnseen DEF LoggedIn
<1>2. CASE LoginRejected
  <2>1. /\ stage = "read" /\ call \notin {"poll", "submit"} /\ AuthFails
        /\ UNCHANGED <<taken, share, verdicts, credited>>
    BY <1>2, ReadOne DEF LoginRejected, shareVars, ClientInv
  <2>2. call' \notin {"poll", "submit"}
    BY <2>1, AttemptGoesOn DEF ClientInv
  <2> QED BY <2>1, <2>2, LoginUnseen DEF LoggedIn
<1>3. CASE SubscribeAnswered \/ AuthAnswered
  <2>1. /\ stage = "read" /\ call \notin {"poll", "submit"}
        /\ call' \in {"authorize", "first_job", call}
        /\ UNCHANGED <<taken, share, verdicts, credited>>
    BY <1>3, ReadOne DEF SubscribeAnswered, AuthAnswered, shareVars, ClientInv
  <2> QED BY <2>1, LoginUnseen DEF LoggedIn
<1>4. CASE JobForLogin \/ LoginAnswered \/ FirstJob
  <2>1. /\ stage = "read" /\ call \notin {"poll", "submit"} /\ stage' = "ready"
        /\ UNCHANGED <<taken, share, verdicts, credited>>
    BY <1>4, ReadOne DEF JobForLogin, LoginAnswered, FirstJob, ReadingJob, shareVars, ClientInv
  <2> QED BY <2>1, LoginUnseen DEF LoggedIn
<1> QED BY <1>1, <1>2, <1>3, <1>4

\* The calls of a client that is logged in.
LEMMA CallSeen ==
  ASSUME ClientInv, ClientInv', Poll \/ PolledJob \/ Submit \/ SubmitAnswered
  PROVE  [Session!SessionNext]_(Session!sessionVars)
<1>1. CASE Poll
  <2>1. stage = "ready" /\ UNCHANGED <<mode, share, verdicts, credited>>
    BY <1>1 DEF Poll, shareVars, poolVars
  <2>2. CASE queued # << >>
    <3>1. taken' = NextJob /\ queued' = Tail(queued) /\ stage' = "ready"
      BY <1>1, <2>1, <2>2 DEF Poll
    <3>2. Session!ReturnWaiting
      BY <2>1, <2>2, <3>1, HeadReturned
    <3> QED BY <3>2 DEF Session!SessionNext
  <2>3. CASE queued = << >>
    <3>1. stage' = "read" /\ call' = "poll" /\ UNCHANGED <<taken, queued>>
      BY <1>1, <2>3 DEF Poll
    <3>2. {queued[i].serial : i \in DOMAIN queued} = {}
      BY <2>3
    <3>3. Session!Ask
      BY <2>1, <3>1, <3>2 DEF Session!Ask, Session!jobVars, Session!shareVars, Phase, LoggedIn
    <3> QED BY <3>3 DEF Session!SessionNext
  <2> QED BY <2>2, <2>3
<1>2. CASE PolledJob
  <2>1. /\ stage = "read" /\ call = "poll" /\ stage' = "ready" /\ taken' = Message.serial
        /\ ReadingJob /\ UNCHANGED <<mode, queued, share, verdicts, credited>>
    BY <1>2, ReadOne DEF PolledJob, ReadingJob, stateVars, shareVars, ClientInv
  <2>2. taken' \in Nat /\ taken' > taken /\ \A n \in Kept : taken' > n
    BY <2>1, ReadIsNewer DEF LoggedIn
  <2>3. Session!ReturnNew
    BY <2>1, <2>2 DEF Session!ReturnNew, Session!Newer, Session!shareVars, Phase, LoggedIn, Kept
  <2> QED BY <2>3 DEF Session!SessionNext
<1>3. CASE Submit
  <2>1. Session!GiveShare
    BY <1>3 DEF Submit, Session!GiveShare, Session!jobVars, Phase, LoggedIn, stateVars, poolVars
  <2> QED BY <2>1 DEF Session!SessionNext
<1>4. CASE SubmitAnswered
  <2>1. /\ stage = "read" /\ call = "submit" /\ call' = call
        /\ UNCHANGED <<mode, taken, queued, share, credited>>
        /\ \/ stage' = "send" /\ UNCHANGED verdicts
           \/ /\ stage' = "ready"
              /\ \E v \in {"accepted", "rejected"} : verdicts' = Append(verdicts, v)
    BY <1>4, ReadOne DEF SubmitAnswered, NextForm, Report, stateVars, loginVars, ClientInv
  <2>2. CASE stage' = "send" /\ UNCHANGED verdicts
    BY <2>1, <2>2 DEF Session!sessionVars, Phase, LoggedIn
  <2>3. ASSUME NEW v \in {"accepted", "rejected"}, stage' = "ready",
               verdicts' = Append(verdicts, v)
        PROVE  Session!Judge
    BY <2>1, <2>3, Judged DEF Verdicts
  <2> QED BY <2>1, <2>2, <2>3 DEF Session!SessionNext
<1> QED BY <1>1, <1>2, <1>3, <1>4

\* The client implements the session run_pool_stratum counts on, whatever the
\* pool sends, delays or drops: a mode that login settles once, every job that
\* has come in its turn, and one true verdict on every share.
THEOREM ClientImplementsSession == Spec => ImplementsSession
<1>1. ASSUME ClientInv, ClientInv', [Next]_vars
      PROVE  [Session!SessionNext]_(Session!sessionVars)
  <2>1. CASE Send
    BY <1>1, <2>1 DEF Send, stateVars, shareVars, Session!sessionVars, Phase, LoggedIn
  <2>2. CASE Skip
    <3>1. UNCHANGED <<stage, call, mode, taken, queued, share, verdicts, credited>>
      BY <1>1, <2>2, ReadOne DEF Skip, shareVars, ClientInv
    <3> QED BY <3>1, Unseen
  <2>3. CASE ReadThrows
    <3>1. /\ stage = "read" /\ stage' = "threw"
          /\ UNCHANGED <<call, mode, taken, queued, share, verdicts, credited>>
      BY <1>1, <2>3, ReadOne DEF ReadThrows, Reading, stateVars, shareVars, ClientInv
    <3>2. CASE LoggedIn
      <4>1. Session!Throw
        BY <3>1, <3>2 DEF Session!Throw, Session!jobVars, Session!shareVars, Phase, LoggedIn
      <4> QED BY <4>1 DEF Session!SessionNext
    <3>3. CASE ~LoggedIn
      BY <1>1, <3>1, <3>3, LoginUnseen DEF LoggedIn
    <3> QED BY <3>2, <3>3
  <2>4. CASE PoolAnswers
    <3>1. UNCHANGED <<stage, call, mode, taken, queued, share, verdicts>>
      BY <2>4 DEF PoolAnswers, stateVars, shareVars
    <3> QED BY <1>1, <2>4, <3>1, Credited, Unseen DEF Session!SessionNext
  <2>5. CASE PoolSends \/ PoolDrops \/ UNCHANGED vars
    <3>1. UNCHANGED <<stage, call, mode, taken, queued, share, verdicts, credited>>
      BY <2>5 DEF PoolSends, PoolDrops, vars, stateVars, shareVars, poolVars
    <3> QED BY <3>1, Unseen
  <2> QED BY <1>1, <2>1, <2>2, <2>3, <2>4, <2>5, JobKept, FailureSeen, LoginSeen, CallSeen
         DEF Next, Call
<1>2. Init => Session!SessionInit
  BY SessionBegins
<1> QED BY <1>1, <1>2, ClientInvHolds, PTL DEF Spec, ImplementsSession, Session!SessionSpec
=============================================================================
