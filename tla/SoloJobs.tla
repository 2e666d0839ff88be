------------------------------- MODULE SoloJobs -------------------------------
(***************************************************************************)
(* What Miner::run_solo asks its node for, over the connection of          *)
(* SubmitClient: build_solo_job with its cached mempool, read page by page *)
(* while the node's mempool changes (src/miner.cpp, NodeClient::           *)
(* mempool_all), the polls of a round's stale watcher, and the submission  *)
(* of what was found.  With a pool the connection carries the submissions  *)
(* of run_pool instead.  When rounds are given up, and why, is the subject *)
(* of SoloMining.                                                          *)
(*                                                                         *)
(* A block is its height.  A transaction is a value that arrives in the    *)
(* node's mempool once and leaves it once, mined by somebody or expired.   *)
(***************************************************************************)
EXTENDS SubmitClient, SequencesExt

CONSTANTS
  Txs,        \* the transactions
  Cases,      \* which transactions are dated too far ahead, and the value of
              \* SNAP_MAX_TRANSACTIONS_PER_BLOCK
  PageSize,   \* transactions on a page of the node's mempool
  MaxPages,   \* max_pages of mempool_all
  MaxHeight   \* bound on the height of the chain

ASSUME SoloJobsAssumption ==
  /\ PageSize \in Nat \ {0} /\ MaxPages \in Nat /\ MaxHeight \in Nat
  /\ Cases \subseteq [early : SUBSET Txs, max_txs : Nat \ {0}]

VARIABLES
  include,  \* config_.include_mempool_transactions; never changes
  case,     \* the case at hand; never changes
  chain,    \* the node's height
  mempool,  \* the node's mempool, in the order of its pages
  gone,     \* the transactions that have left it
  at,       \* what is being asked for, or done, next
  height,   \* height, the first thing build_solo_job asks for
  page,     \* page of mempool_all
  all,      \* all of mempool_all
  cache,    \* cached_mempool_
  age,      \* seconds since cached_mempool_at_, up to RefreshAge
  asked     \* seconds since now, the time build_solo_job looked at

\* What the code does not know: what had left the mempool at the time now,
\* what of the cache had left it at cached_mempool_at_, and whether, since the
\* first page was asked for, what has been read stands where it was read.
VARIABLES gone_asked, outdated, still

nodeVars  == <<chain, mempool, gone>>
buildVars == <<height, page, all, cache, age, asked>>
ghostVars == <<gone_asked, outdated, still>>
configVars == <<include, case>>
jobVars == <<configVars, nodeVars, at, buildVars, ghostVars>>
allVars == <<vars, jobVars>>

RefreshAge == 2

\* Requests whose failure the caller catches: the first height of run_solo,
\* the polls of the stale watcher, a submission of run_pool.
Careless == {"start", "mine", "pool"}
Asking   == Careless \cup {"height", "difficulty", "reward", "page", "prev", "submit"}

JobsInit ==
  /\ Init
  /\ include \in BOOLEAN /\ case \in Cases
  /\ chain = 0 /\ mempool = << >> /\ gone = {}
  /\ at = IF is_pool THEN "pool" ELSE "start"
  /\ height = 0 /\ page = 0 /\ all = << >> /\ cache = << >>
  /\ age = RefreshAge /\ asked = 0
  /\ gone_asked = {} /\ outdated = {} /\ still = FALSE

(***************************************************************************)
(* A definition named D_<fault> is D with a plausible bug seeded; nothing  *)
(* of the specification uses it.  Each one breaks a property below.        *)
(***************************************************************************)

(***************************************************************************)
(* The node (external) and the time.  Their steps are seen only where an   *)
(* answer tells of the chain or the mempool, where the clock is read, and  *)
(* between rounds.  At any other time they commute with what the miner     *)
(* does, and are left to come later (Seen): nothing is lost.               *)
(***************************************************************************)
Seen ==
  /\ ~is_pool
  /\ \/ pc = "read" /\ at \in {"height", "page", "submit"}
     \/ pc = "idle" /\ at \in {"clock", "mine"}

\* What is left of a list of transactions, in its order.
Without(list, txs) ==
  LET kept[i \in 0 .. Len(list)] ==
        IF i = 0 THEN << >>
        ELSE IF list[i] \in txs THEN kept[i - 1] ELSE Append(kept[i - 1], list[i])
  IN  kept[Len(list)]

\* The pages that have been read stay as they are.
PagesKept ==
  /\ page * PageSize <= Len(mempool')
  /\ \A i \in 1 .. page * PageSize : mempool'[i] = mempool[i]

Leaves(txs) ==
  /\ mempool' = Without(mempool, txs)
  /\ gone' = gone \cup txs
  /\ still' = (still /\ PagesKept)

TxArrives ==
  /\ Seen
  /\ \E t \in Txs \ (ToSet(mempool) \cup gone), i \in 1 .. Len(mempool) + 1 :
       mempool' = InsertAt(mempool, i, t)
  /\ still' = (still /\ PagesKept)
  /\ UNCHANGED <<vars, configVars, chain, gone, at, buildVars, gone_asked,
                 outdated>>

TxExpires ==
  /\ Seen
  /\ \E t \in ToSet(mempool) : Leaves({t})
  /\ UNCHANGED <<vars, configVars, chain, at, buildVars, gone_asked,
                 outdated>>

BlockArrives ==
  /\ Seen /\ chain < MaxHeight
  /\ chain' = chain + 1
  /\ \E txs \in SUBSET ToSet(mempool) : Leaves(txs)
  /\ UNCHANGED <<vars, configVars, at, buildVars, gone_asked, outdated>>

OneMore(seconds) == IF seconds < RefreshAge THEN seconds + 1 ELSE seconds

Tick ==
  /\ Seen
  /\ age' = OneMore(age)
  /\ asked' = IF at = "page" THEN OneMore(asked) ELSE 0
  /\ <<age', asked'>> # <<age, asked>>
  /\ UNCHANGED <<vars, configVars, nodeVars, at, height, page, all, cache,
                 ghostVars>>

(***************************************************************************)
(* Requests.                                                               *)
(***************************************************************************)
Ask ==
  /\ SendRequest
  /\ at \in Asking
  /\ UNCHANGED jobVars

Carry ==
  /\ UseOpenSocket \/ Reopen \/ Greet \/ Write
  /\ UNCHANGED jobVars

AskNext(next) == Read /\ at' = next

\* The caller of the request goes on as it was.
CarelessAnswer ==
  /\ at \in Careless
  /\ AskNext(IF at = "start" THEN "height" ELSE at)
  /\ UNCHANGED <<configVars, nodeVars, buildVars, ghostVars>>

HeightAnswer ==
  /\ at = "height"
  /\ AskNext("difficulty")
  /\ height' = chain
  /\ UNCHANGED <<configVars, nodeVars, page, all, cache, age, asked, ghostVars>>

DifficultyAnswer ==
  /\ at = "difficulty"
  /\ AskNext("reward")
  /\ UNCHANGED <<configVars, nodeVars, buildVars, ghostVars>>

\* Without height there is no previous block to ask for.
AfterMempool == IF height = 0 THEN "mine" ELSE "prev"

RewardAnswer ==
  /\ at = "reward"
  /\ AskNext(IF include THEN "clock" ELSE AfterMempool)
  /\ UNCHANGED <<configVars, nodeVars, buildVars, ghostVars>>

\* A young cache is used as it is, unless it is empty.
MustRefresh_OnlyWhenEmpty == cache = << >>
MustRefresh == cache = << >> \/ age >= RefreshAge

UseCache ==
  /\ at = "clock" /\ pc = "idle"
  /\ ~MustRefresh
  /\ at' = AfterMempool
  /\ UNCHANGED <<vars, configVars, nodeVars, buildVars, ghostVars>>

Refresh ==
  /\ at = "clock" /\ pc = "idle"
  /\ MustRefresh
  /\ at' = "page"
  /\ page' = 0 /\ all' = << >> /\ asked' = 0
  /\ gone_asked' = gone /\ still' = TRUE
  /\ UNCHANGED <<vars, configVars, nodeVars, height, cache, age, outdated>>

\* mempool_all returns or throws: its locals are gone.
FetchOver ==
  /\ page' = 0 /\ all' = << >> /\ asked' = 0
  /\ gone_asked' = {} /\ still' = FALSE

\* What the node puts on a page, and whether it names a next one.
PageOf(n) == SubSeq(mempool, n * PageSize + 1, Min({(n + 1) * PageSize, Len(mempool)}))
HasNext(n) == (n + 1) * PageSize < Len(mempool)

\* mempool_all goes on while there is a next page, up to page max_pages.
LastPage_StopsShort(n) == ~HasNext(n) \/ n + 1 >= MaxPages
LastPage(n) == ~HasNext(n) \/ n >= MaxPages

NextPage_Same(n) == n
NextPage(n) == n + 1

PageAnswer ==
  /\ at = "page"
  /\ ~LastPage(page)
  /\ AskNext("page")
  /\ all' = all \o PageOf(page)
  /\ page' = NextPage(page)
  /\ UNCHANGED <<configVars, nodeVars, height, cache, age, asked, ghostVars>>

\* filter_mempool: room is left for the reward transaction.
Filtered(txs) ==
  LET kept_txs == Without(txs, case.early)
  IN  SubSeq(kept_txs, 1, Min({Len(kept_txs), case.max_txs - 1}))

\* cached_mempool_at_ becomes the time looked at before the pages were read.
RefreshDone ==
  /\ at = "page"
  /\ LastPage(page)
  /\ AskNext(AfterMempool)
  /\ cache' = Filtered(all \o PageOf(page))
  /\ age' = asked /\ outdated' = ToSet(cache') \cap gone_asked
  /\ FetchOver
  /\ UNCHANGED <<configVars, nodeVars, height>>

PrevAnswer ==
  /\ at = "prev"
  /\ AskNext("mine")
  /\ UNCHANGED <<configVars, nodeVars, buildVars, ghostVars>>

(***************************************************************************)
(* The round, and what comes of it.                                        *)
(***************************************************************************)
\* mine_block returns and the watcher has been joined: the job is stale, or a
\* solution is to be submitted.
Found == chain < MaxHeight /\ at' = "submit" /\ UNCHANGED height

NextJob == at' = "height" /\ height' = 0

MineEnds ==
  /\ at = "mine" /\ pc = "idle"
  /\ Found \/ NextJob
  /\ UNCHANGED <<vars, configVars, nodeVars, page, all, cache, age, asked, ghostVars>>

\* The node takes a block on top of its chain, of transactions that wait.
Valid == height = chain /\ IsInjective(cache) /\ ToSet(cache) \subseteq ToSet(mempool)

Accepted ==
  /\ at = "submit"
  /\ Valid
  /\ Read /\ NextJob
  /\ chain' = chain + 1 /\ Leaves(ToSet(cache))
  /\ UNCHANGED <<configVars, page, all, cache, age, asked, gone_asked, outdated>>

Rejected ==
  /\ at = "submit"
  /\ ~Valid
  /\ Read /\ NextJob
  /\ UNCHANGED <<configVars, nodeVars, page, all, cache, age, asked, ghostVars>>

(***************************************************************************)
(* A request that throws.                                                  *)
(***************************************************************************)
Throws == ReopenFails \/ GreetFails \/ Refused \/ ExchangeFails

CarelessFailure ==
  /\ at \in Careless
  /\ Throws
  /\ at' = IF at = "start" THEN "height" ELSE at
  /\ UNCHANGED <<configVars, nodeVars, buildVars, ghostVars>>

\* "Keep previous cache if mempool refresh fails."
AfterFailedRefresh_CountsAsDone ==
  age' = asked /\ outdated' = ToSet(cache) \cap gone_asked
AfterFailedRefresh == UNCHANGED <<age, outdated>>

RefreshFails ==
  /\ at = "page"
  /\ Throws
  /\ at' = AfterMempool
  /\ AfterFailedRefresh
  /\ FetchOver
  /\ UNCHANGED <<configVars, nodeVars, height, cache>>

\* Anything else that throws leaves run_solo, and ends the miner.
RequestFails ==
  /\ at \in {"height", "difficulty", "reward", "prev", "submit"}
  /\ Throws
  /\ at' = "ended"
  /\ UNCHANGED <<configVars, nodeVars, buildVars, ghostVars>>
-----------------------------------------------------------------------------
Answers ==
  \/ CarelessAnswer \/ HeightAnswer \/ DifficultyAnswer \/ RewardAnswer
  \/ PageAnswer \/ RefreshDone \/ PrevAnswer \/ Accepted \/ Rejected

Failures == CarelessFailure \/ RefreshFails \/ RequestFails

Miner == Ask \/ Carry \/ UseCache \/ Refresh \/ Answers \/ Failures

Node == TxArrives \/ TxExpires \/ BlockArrives \/ (Peer /\ UNCHANGED jobVars)

JobsNext == Miner \/ MineEnds \/ Node \/ Tick

JobsSpec == JobsInit /\ [][JobsNext]_allVars

(***************************************************************************)
(* The threads run and time passes; a live peer does not refuse every      *)
(* request.  Luck, the node and the pool owe nothing else: what a property *)
(* needs of them, it says.                                                 *)
(***************************************************************************)
FairJobsSpec ==
  JobsSpec /\ WF_allVars(Miner) /\ SF_allVars(Answers) /\ SF_allVars(Tick)
-----------------------------------------------------------------------------
JobsTypeOK ==
  /\ include \in BOOLEAN /\ case \in Cases
  /\ chain \in 0 .. MaxHeight /\ height \in 0 .. chain
  /\ mempool \in Seq(Txs \ gone) /\ IsInjective(mempool)
  /\ at \in Asking \cup {"clock", "ended"}
  /\ page \in 0 .. MaxPages
  /\ all \in Seq(Txs) /\ cache \in Seq(Txs)
  /\ age \in 0 .. RefreshAge /\ asked \in 0 .. RefreshAge
  /\ gone_asked \subseteq gone /\ outdated \subseteq ToSet(cache)

\* What has been read of the mempool was in it at the time asked, or came later,
\* and, unless what has been read moves, it is the pages so far and no more.
FetchInOrder ==
  /\ ToSet(all) \cap gone_asked = {}
  /\ still => /\ at = "page"
              /\ page * PageSize <= Len(mempool)
              /\ all = SubSeq(mempool, 1, page * PageSize)

\* Between two requests nothing is owed, whatever the builder does with one
\* that failed; a fetch is in order; and no block found passes the bound on the
\* chain.  This is the inductive invariant.
JobsInv ==
  /\ ClientInv /\ JobsTypeOK /\ FetchInOrder
  /\ at = "submit" => height < MaxHeight

\* The cache is what its time stamp says: no transaction in it had left the
\* mempool before cached_mempool_at_, although the pages are read later, one
\* after the other, and any of them may fail and leave the cache as it was.
\* (So a job holds nothing that had left two seconds before it was built,
\* unless a refresh failed.  Two seconds is not now: it may well hold what the
\* block that started the round has just mined.)
CacheIsDated == outdated = {}

\* However many transactions arrive and leave behind the pages that have been
\* read, reading page by page neither repeats nor misses one of those that the
\* mempool has at the end, and the job takes as many as a block has room for.
\* When one arrives or leaves in a page that has been read, all behind it move,
\* and the code repeats or misses some: that is not a property of it.
Reached == SubSeq(mempool, 1, Min({Len(mempool), (MaxPages + 1) * PageSize}))
PagesAddUp ==
  [][ RefreshDone /\ still =>
        /\ IsInjective(cache')
        /\ ToSet(cache') \subseteq ToSet(Reached) \ case.early
        /\ Len(cache') = Min({Cardinality(ToSet(Reached) \ case.early), case.max_txs - 1})
    ]_allVars

\* Polls, and with them everything else, get through again once the node is
\* back for good, unless a request without a catch has ended the miner.
PollsRecover ==
  ~is_pool /\ <>[](peer = "up") => <>(at = "ended") \/ []<>(last = "ok")

\* A transaction that the node keeps where the pages reach it, and that a
\* block has room for, is mined if jobs keep being built: a cache that is
\* never seen to be old, or a refresh that never succeeds, would keep it out.
WaitingTxMined ==
  \A t \in Txs :
    /\ include /\ <>[](t \in ToSet(Filtered(Reached)))
    /\ []<>(at = "clock") /\ <>[](last = "ok")
    => <>[](at = "mine" => t \in ToSet(cache))
=============================================================================
