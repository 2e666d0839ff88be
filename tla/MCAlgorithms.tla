---------------------------- MODULE MCAlgorithms ----------------------------
(***************************************************************************)
(* The sequential computations a miner rests on, for TLC: each state is    *)
(* one step of the target's loops, or one input of one of the others, with *)
(* bytes, radices and words that are smaller than the program's.           *)
(***************************************************************************)
EXTENDS BlockTarget, PowBuffer, Placement, Base36

CONSTANTS
  MaxText,    \* characters of the longest text in base 36
  MaxLexemes  \* words and brackets of the longest text in JSON

VARIABLES
  subject,  \* what is computed
  sample    \* the input

Json  == INSTANCE JsonText WITH Word <- 1000
Chain == INSTANCE ChainJson WITH Word <- 1000, Byte <- Octet, Short <- 100

Powers == [p \in 0 .. Size |-> Base ^ p]
PowersOf8 == [k \in 0 .. 8 |-> 8 ^ k]

(***************************************************************************)
(* Transactions and blocks whose fields take different numbers of bytes,   *)
(* and nonces that take 9, from the first on.                              *)
(***************************************************************************)
Inputs ==
  {<<>>} \cup {<<[transaction_id |-> <<1>>, output_index |-> n, signature |-> s,
                  output_owner |-> <<2>>]>> : n \in {2, 3}, s \in {<<>>, <<<<5, 5>>>>}}

SomeTransactions ==
  {[inputs |-> i, outputs |-> [k \in 1 .. n |-> [amount |-> a, receiver |-> <<2>>]],
    transaction_id |-> id, nonce |-> 4097, timestamp |-> t] :
     i \in Inputs, n \in {1, 3}, a \in {1, 70}, id \in {<<>>, <<<<4>>>>}, t \in {2, 600}}

SomeBlocks ==
  {[transactions |-> txs, timestamp |-> t, nonce |-> 0,
    meta |-> [block_pow_difficulty |-> <<7>>, tx_pow_difficulty |-> <<7>>,
              previous_block |-> <<3>>, hash |-> h, merkle_tree_root |-> <<0>>,
              address_inclusion_filter |->
                [bits |-> b, num_bits |-> 8 * Len(b), num_hashes |-> 2]]] :
     txs \in LET short == {z \in SomeTransactions : Len(z.outputs) = 1 /\ z.timestamp = 600}
                 named == {z \in short : z.transaction_id # <<>> /\ z.outputs[1].amount = 70}
             IN  {<<x>> : x \in short}
                   \cup {s \in named \X named : \E k \in 1 .. 2 : s[k].inputs = <<>>},
     t \in {5, 6}, h \in {<<>>, <<<<6>>>>}, b \in {<<>>, <<1, 0, 1>>}}

SomeNonces == {4096, 4097, 8191, 2 ^ 23}
SomeHashes == {<<6>>}

(***************************************************************************)
(* Machines of 1 to 4 CPUs.  In most the CPUs of a core are alike, and the *)
(* kernel names the types of the cores, or the frequencies can be read, or *)
(* not; in the others anything may be missing or negative.                 *)
(***************************************************************************)
Cores == {[package |-> 0, core |-> 0], [package |-> 0, core |-> 1],
          [package |-> 1, core |-> 0]}
Kinds == [Cores -> {[type |-> t, freq |-> Unread] : t \in {Unread, 1, 2}}]
           \cup [Cores -> {[type |-> Unread, freq |-> f] : f \in {Unread, 2, 4}}]
SomeReadings ==
  {[package |-> Unread, core |-> Unread, type |-> Unread, freq |-> Unread],
   [package |-> -1, core |-> -1, type |-> -1, freq |-> 4],
   [package |-> 1, core |-> 1, type |-> Unread, freq |-> 4],
   [package |-> 0, core |-> 0, type |-> 0, freq |-> 1]}
    \cup {[package |-> 0, core |-> 1, type |-> t, freq |-> Unread] : t \in 0 .. 2}
SomeMachines == [{0, 1, 3} -> SomeReadings] \cup
  UNION {{[cpu \in cpus |->
             [package |-> of[cpu].package, core |-> of[cpu].core,
              type |-> kind[of[cpu]].type, freq |-> kind[of[cpu]].freq]] :
            of \in [cpus -> Cores], kind \in Kinds} :
         cpus \in {{0}, 0 .. 1, 0 .. 3}}

ShortTexts == UNION {[1 .. n -> Digits \cup {NotADigit}] : n \in 0 .. MaxText}

(***************************************************************************)
(* JSON: values two levels deep, and texts that are mostly none.           *)
(***************************************************************************)
JsonStrings ==
  UNION {[1 .. n -> {"a", "u", "quote", "backslash", "slash", "newline", "bell", "space"}] :
         n \in 0 .. 2}
Leaves ==
  {Json!Null, Json!Bool(TRUE), Json!Bool(FALSE), Json!Int64(-500), Json!Int64(-10), Json!Int64(0),
   Json!Int64(499), Json!Uint64(0), Json!Uint64(9), Json!Uint64(10), Json!Uint64(999)}
    \cup {Json!String(s) : s \in JsonStrings}
Few == {Json!Null, Json!Uint64(10), Json!String(<<"bell", "quote">>)}
Groups(values) ==
  {Json!Array(s) : s \in UNION {[1 .. n -> values] : n \in 0 .. 2}}
    \cup {Json!Object(f) :
             f \in UNION {[keys -> values] : keys \in SUBSET {<<>>, <<"a">>, <<"bell">>}}}
JsonValues == Leaves \cup Groups(Few) \cup Groups({Json!Array(<<>>), Json!Array(<<Json!Null>>),
  Json!Object(<<"a">> :> Json!Array(<<Json!Null, Json!Null>>)), Json!Int64(-1)})

Words == {<<"[">>, <<"]">>, <<"comma">>, <<"{">>, <<"}">>, <<"colon">>, <<"space">>, <<"0">>,
          <<"quote", "a", "quote">>, <<"quote", "a", "quote", "colon">>}
JsonTexts ==
  {FlattenSeq(w) : w \in UNION {[1 .. n -> Words] : n \in 0 .. MaxLexemes}}
    \cup UNION {[1 .. n -> {"minus", "0", "1", "9", "space"}] : n \in 1 .. 4}
    \cup {<<"minus", "5", "0", "1">>, <<"t", "r", "u">>, <<"n", "u", "l", "l", "0">>,
          <<"quote", "backslash", "quote">>, <<"quote", "backslash", "a", "quote">>}

(***************************************************************************)
(* What is sent as JSON, with fields that are missing or empty, or not.    *)
(***************************************************************************)
SentHashes == [1 .. 3 -> {0, 1, 4}]
SentTransactions ==
  {[inputs |-> i, outputs |-> o, transaction_id |-> id, nonce |-> n, timestamp |-> 60] :
     i \in {<<>>} \cup {<<[transaction_id |-> <<0, 0, 4>>, output_index |-> 2, signature |-> s,
                         output_owner |-> <<4, 4, 4>>]>> : s \in {<<>>, <<<<0, 0, 0>>>>}},
     o \in {<<>>, <<[amount |-> 7, receiver |-> <<1, 0, 0>>], [amount |-> 0, receiver |-> <<0, 0, 0>>]>>},
     id \in {<<>>, <<<<0, 3, 0>>>>}, n \in {0, 999}}
SentBlocks ==
  {[transactions |-> txs, timestamp |-> 5, nonce |-> 999,
    meta |-> [block_pow_difficulty |-> d, tx_pow_difficulty |-> <<4, 4, 4>>,
              previous_block |-> <<0, 0, 0>>, hash |-> h, merkle_tree_root |-> <<1, 0, 0>>,
              address_inclusion_filter |->
                [bits |-> b, num_bits |-> 24, num_hashes |-> 99]]] :
     txs \in {<<>>} \cup {<<x, y>> : x, y \in {z \in SentTransactions :
                                         z.nonce = 0 /\ z.outputs # <<>> /\ z.transaction_id # <<>>}},
     d \in {<<0, 0, 0>>, <<4, 0, 1>>}, h \in {<<>>, <<<<4, 0, 0>>>>}, b \in {<<>>, <<0, 4>>}}

\* Where something else is computed, one buffer and one machine stay as they are.
OneTransaction == CHOOSE tx \in SomeTransactions : TRUE
OneBuffer ==
  mined = [kind |-> "transaction", of |-> OneTransaction] /\ nonce = 4096 /\ PowInit
OneMachine ==
  /\ machine = [cpu \in {0} |-> [package |-> 0, core |-> 0, type |-> 0, freq |-> 0]]
  /\ performance_cores_only = FALSE /\ slots = <<0>> /\ cpuOf = << >>
OneTarget == input = [p \in Places |-> 0] /\ scale = Divide

Init ==
  /\ TargetInit
  /\ \/ subject = "target" /\ sample = 0 /\ OneBuffer /\ OneMachine
     \/ subject = "nonce" /\ sample = 0 /\ OneTarget /\ PowInit /\ OneMachine
     \/ subject = "machine" /\ sample = 0 /\ OneTarget /\ OneBuffer /\ PlacementInit
     \/ /\ OneTarget /\ OneBuffer /\ OneMachine
        /\ \/ subject = "value" /\ sample \in JsonValues
           \/ subject = "json" /\ sample \in JsonTexts
           \/ subject = "transaction" /\ sample \in SentTransactions
           \/ subject = "block" /\ sample \in SentBlocks
           \/ subject = "hash" /\ sample \in SentHashes
           \/ subject = "bytes" /\ sample \in Arrays
           \/ subject = "text" /\ sample \in ShortTexts

Next ==
  \/ subject = "target" /\ TargetNext /\ UNCHANGED <<subject, sample, powVars, placementVars>>
  \/ subject = "nonce" /\ WriteNonce /\ UNCHANGED <<subject, sample, targetVars, placementVars>>
  \/ subject = "machine" /\ StartWorker /\ UNCHANGED <<subject, sample, targetVars, powVars>>

Spec == Init /\ [][Next]_<<targetVars, powVars, placementVars, subject, sample>>
-----------------------------------------------------------------------------
\* What is written as text is read back as what it was, and text that means
\* nothing is refused: hashes, keys and addresses in base 36, JSON, and the
\* transactions, blocks and events made of them.
TextIsExact ==
  /\ subject = "bytes" => ReadBack(sample)
  /\ subject = "text" => TextMeansItsNumber(sample)
  /\ subject = "value" => \A pretty \in BOOLEAN : Json!ReadBack(sample, pretty)
  /\ subject = "json" => Json!AcceptsOnlyJson(sample)
  /\ subject \in {"transaction", "block"} => Chain!SentAsMeant(subject, sample)
  /\ \A i \in DOMAIN Chain!Events :
       Chain!Events[i].type = subject => Chain!EventAsMeant(Chain!Events[i], sample)
=============================================================================
