----------------------------- MODULE PowBuffer -----------------------------
(***************************************************************************)
(* The bytes that are hashed (src/crypto.cpp): the encoding of a reward    *)
(* transaction or of a block, and the nonces that are written into it in   *)
(* place, without encoding again.  Numbers take 1, 3, 5 or 9 bytes,        *)
(* whichever is enough, so the place of the nonce moves with what is       *)
(* before it, and a nonce fits into the 9 bytes that were reserved only if *)
(* it needs all of them.                                                   *)
(*                                                                         *)
(* Hashes, keys, signatures and targets are sequences of bytes.  A block   *)
(* has its metadata as fields, and a hash or signature that may be missing *)
(* is a sequence of at most one.                                           *)
(***************************************************************************)
EXTENDS Integers, SequencesExt

CONSTANTS
  Byte,          \* values of a byte (256)
  Power,         \* Power[k], what byte k of a number counts for: Byte^k
  Migration,     \* SNAP_SCIP1_MIGRATION
  RewardTransactions,  \* the transactions that are hashed,
  JobBlocks,     \* the blocks,
  Nonces,        \* the nonces that are tried: next_nonce_base sets bit 32
  Hashes         \* what may be filled in for an id or a hash

\* What the encoded structures hold.
ByteString == Seq(0 .. Byte - 1)
Option(S) == {option \in Seq(S) : Len(option) <= 1}

TxInput == [transaction_id : ByteString, output_index : Nat, signature : Option(ByteString),
            output_owner : ByteString]
TxOutput == [amount : Nat, receiver : ByteString]
Transaction == [inputs : Seq(TxInput), outputs : Seq(TxOutput),
                transaction_id : Option(ByteString), nonce : Nat, timestamp : Nat]

AddressFilter == [bits : ByteString, num_bits : Nat, num_hashes : Nat]
BlockMeta == [block_pow_difficulty : ByteString, tx_pow_difficulty : ByteString,
              previous_block : ByteString, hash : Option(ByteString), merkle_tree_root : ByteString,
              address_inclusion_filter : AddressFilter]
Block == [transactions : Seq(Transaction), timestamp : Nat, nonce : Nat,
          meta : BlockMeta]


(***************************************************************************)
(* Numbers.  A search begins with a nonce that needs all 8 bytes.          *)
(***************************************************************************)
LittleEndian(value, width) == [i \in 1 .. width |-> (value \div Power[i - 1]) % Byte]

TemplateNonce == Power[4]

ASSUME PowBufferAssumption ==
  /\ Byte \in Nat /\ Byte > 5 /\ Migration \in Nat
  /\ Power \in [0 .. 8 -> Nat] /\ Power[0] = 1
  /\ \A k \in 0 .. 7 : Power[k + 1] = Byte * Power[k]
  /\ RewardTransactions \subseteq Transaction /\ JobBlocks \subseteq Block
  /\ Nonces \subseteq {n \in Nat : n >= TemplateNonce} /\ Hashes \subseteq ByteString

\* 251, 252 and 253 say that 2, 4 and 8 bytes follow.
Follow2 == Byte - 5
Follow4 == Byte - 4
Follow8 == Byte - 3

VarUint(value) ==
  IF value < Follow2 THEN <<value>>
  ELSE IF value < Power[2] THEN <<Follow2>> \o LittleEndian(value, 2)
  ELSE IF value < Power[4] THEN <<Follow4>> \o LittleEndian(value, 4)
  ELSE <<Follow8>> \o LittleEndian(value, 8)

(***************************************************************************)
(* Transactions and blocks.                                                *)
(***************************************************************************)
\* A vector: its length, and what is in it.
EncodeAll(encodings) == VarUint(Len(encodings)) \o FlattenSeq(encodings)

\* An optional: whether there is one, and it.
EncodeOption(option) == VarUint(Len(option)) \o FlattenSeq(option)

EncodeTxInput(input) ==
  input.transaction_id \o VarUint(input.output_index)
    \o EncodeOption(input.signature) \o input.output_owner

EncodeTxOutput(output) == VarUint(output.amount) \o output.receiver

EncodeTxInputs(tx) ==
  EncodeAll([i \in DOMAIN tx.inputs |-> EncodeTxInput(tx.inputs[i])])

BeforeNonce(tx) ==
  EncodeTxInputs(tx)
    \o EncodeAll([i \in DOMAIN tx.outputs |-> EncodeTxOutput(tx.outputs[i])])
    \o EncodeOption(tx.transaction_id)

EncodeTransaction(tx) == BeforeNonce(tx) \o VarUint(tx.nonce) \o VarUint(tx.timestamp)

EncodeAddressFilter(filter) ==
  EncodeAll([i \in DOMAIN filter.bits |-> <<filter.bits[i]>>])
    \o VarUint(filter.num_bits) \o VarUint(filter.num_hashes)

EncodeBlockMeta(meta) ==
  meta.block_pow_difficulty \o meta.tx_pow_difficulty \o meta.previous_block
    \o EncodeOption(meta.hash) \o meta.merkle_tree_root
    \o EncodeAddressFilter(meta.address_inclusion_filter)

BeforeBlockNonce(block) ==
  EncodeAll([i \in DOMAIN block.transactions |-> EncodeTransaction(block.transactions[i])])
    \o VarUint(block.timestamp)

EncodeBlock(block) ==
  BeforeBlockNonce(block) \o VarUint(block.nonce) \o EncodeBlockMeta(block.meta)

\* The digest: here any short one of fixed length that depends on every byte,
\* in place of SHA-256, whose arithmetic no property is about.
Sha256(bytes) ==
  LET digest[i \in 0 .. Len(bytes)] ==
        IF i = 0 THEN 1 ELSE (digest[i - 1] * 3 + bytes[i]) % Power[2]
  IN  LittleEndian(digest[Len(bytes)], 2)

(***************************************************************************)
(* What is hashed, with the place of the nonce in it, counted from 0.      *)
(***************************************************************************)
\* transaction_pow_buffer: the transaction without its id.
TransactionPowBuffer(tx) ==
  LET normalized == [tx EXCEPT !.transaction_id = <<>>]
  IN  [bytes        |-> EncodeTransaction(normalized),
       nonce_offset |-> Len(BeforeNonce(normalized))]

\* Inputs are digested twice over, and taken out together with the outputs.
InputDigest(tx) ==
  LET once == EncodeTxInputs(tx) IN Sha256(once \o once)

\* block_pow_buffer: the block without its hash and without what its
\* transactions spend and pay, and the digests of what they spend.
BlockPowBuffer(block) ==
  LET stripped == [block EXCEPT
        !.meta.hash = <<>>,
        !.transactions = [i \in DOMAIN block.transactions |->
           [block.transactions[i] EXCEPT !.inputs = <<>>, !.outputs = <<>>]]]
      digests  == FlattenSeq([i \in DOMAIN block.transactions |->
                                InputDigest(block.transactions[i])])
  IN  [bytes        |-> EncodeBlock(stripped)
                          \o (IF block.timestamp > Migration THEN digests ELSE <<>>),
       nonce_offset |-> Len(BeforeBlockNonce(stripped))]

NotPatched == <<>>

\* patch_nonce_in_pow_buffer: only 9 bytes that say so are overwritten.
PatchNonceInPowBuffer(bytes, offset, value) ==
  IF \/ offset >= Len(bytes)
     \/ bytes[offset + 1] # Follow8
     \/ offset + 9 > Len(bytes)
  THEN NotPatched
  ELSE [i \in DOMAIN bytes |->
          IF i - offset \in 1 .. 9
          THEN (<<Follow8>> \o LittleEndian(value, 8))[i - offset]
          ELSE bytes[i]]
-----------------------------------------------------------------------------
(***************************************************************************)
(* A worker's buffer: a template is made once, and every nonce is written  *)
(* over the one before.                                                    *)
(***************************************************************************)
VARIABLES
  mined,         \* the block of a job, or a reward transaction; never changes
  nonce_offset,  \* block_nonce_offset of the job, or nonce_offset
  nonce,         \* nonce
  local_buffer   \* local_buffer; the buffer of the pipeline is another one

powVars == <<mined, nonce_offset, nonce, local_buffer>>

Mined == [kind : {"transaction"}, of : RewardTransactions] \cup [kind : {"block"}, of : JobBlocks]

\* The reward transaction and the block of a job, as their templates are made.
Template ==
  CASE mined.kind = "transaction" ->
         TransactionPowBuffer([mined.of EXCEPT !.transaction_id = <<>>, !.nonce = TemplateNonce])
    [] mined.kind = "block" ->
         BlockPowBuffer([mined.of EXCEPT !.meta.hash = <<>>, !.nonce = TemplateNonce])

PowInit ==
  /\ mined \in Mined
  /\ nonce \in Nonces
  /\ nonce_offset = Template.nonce_offset
  /\ local_buffer = PatchNonceInPowBuffer(Template.bytes, nonce_offset, nonce)

fast_nonce_patch == local_buffer # NotPatched

\* nonce_ptr is behind the byte that says 8 bytes follow.  (A definition named
\* D_<fault> is D with a plausible bug seeded; nothing uses it.)
NoncePtr_AtMarker == nonce_offset
NoncePtr == nonce_offset + 1

\* write_nonce_le.
WriteNonce ==
  /\ nonce' \in Nonces
  /\ local_buffer' = [i \in DOMAIN local_buffer |->
                        IF i - NoncePtr \in 1 .. 8 THEN LittleEndian(nonce', 8)[i - NoncePtr]
                        ELSE local_buffer[i]]
  /\ UNCHANGED <<mined, nonce_offset>>

PowSpec == PowInit /\ [][WriteNonce]_powVars

\* What is encoded with a nonce: by a worker that cannot patch it, and, with
\* an id or a hash filled in, by whoever gets it.
Encoded(optional) ==
  CASE mined.kind = "transaction" ->
         TransactionPowBuffer([mined.of EXCEPT !.transaction_id = optional, !.nonce = nonce]).bytes
    [] mined.kind = "block" ->
         BlockPowBuffer([mined.of EXCEPT !.meta.hash = optional, !.nonce = nonce]).bytes

Hashed == IF fast_nonce_patch THEN local_buffer ELSE Encoded(<<>>)
-----------------------------------------------------------------------------
PowTypeOK ==
  /\ mined \in Mined
  /\ nonce \in Nonces /\ nonce_offset \in Nat /\ local_buffer \in ByteString

\* The hash found for a nonce written into a buffer, over any others, is the
\* hash the network computes for the transaction or block sent with it.
HashedAsSent == \A filled_in \in Hashes : Hashed = Encoded(<<filled_in>>)
=============================================================================
