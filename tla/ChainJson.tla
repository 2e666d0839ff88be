------------------------------ MODULE ChainJson ------------------------------
(***************************************************************************)
(* Transactions, blocks and events as JSON (src/types.cpp): what the       *)
(* miner submits, and what it is sent.  Each transaction_to_json and       *)
(* transaction_from_json goes through the fields of a record one by one;   *)
(* here the fields and their types are a table, and one operator goes      *)
(* through it in each direction.  A hash, a key or a signature is its      *)
(* bytes, and its text is in base 36; one that may be missing is a         *)
(* sequence of at most one.                                                *)
(***************************************************************************)
EXTENDS JsonText

CONSTANTS
  Byte, Radix, Length,  \* as in Base36
  Short                 \* values of a 32 bit number

Digits36 == INSTANCE Base36 WITH Octet <- Byte

Layout ==
  [input       |-> [transaction_id |-> "hash", output_index |-> "number",
                    signature |-> "option", output_owner |-> "hash"],
   output      |-> [amount |-> "number", receiver |-> "hash"],
   transaction |-> [inputs |-> "inputs", outputs |-> "outputs", transaction_id |-> "option",
                    nonce |-> "number", timestamp |-> "number"],
   filter      |-> [bits |-> "bytes", num_bits |-> "number", num_hashes |-> "short"],
   meta        |-> [block_pow_difficulty |-> "target", tx_pow_difficulty |-> "target",
                    previous_block |-> "hash", hash |-> "option",
                    merkle_tree_root |-> "target", address_inclusion_filter |-> "filter"],
   block       |-> [transactions |-> "transactions", timestamp |-> "number",
                    nonce |-> "number", meta |-> "meta"]]

\* The arrays, and what is in them.
Element == [inputs |-> "input", outputs |-> "output", transactions |-> "transaction",
            bytes |-> "byte", target |-> "byte"]

\* A number is cut to the width it is stored in.
Width == [number |-> Word, short |-> Short, byte |-> Byte]

Key(field) == <<field>>

(***************************************************************************)
(* Hashes, keys and signatures.                                            *)
(***************************************************************************)
HashText(bytes) == LET digits == Digits36!EncodeBase36(bytes)
                   IN  [i \in DOMAIN digits |-> Decimal[digits[i] + 1]]

DigitOf(c) == IF \E d \in 0 .. Radix - 1 : Decimal[d + 1] = c
              THEN CHOOSE d \in 0 .. Radix - 1 : Decimal[d + 1] = c
              ELSE Digits36!NotADigit

\* decode_base36 is instantiated for 32 bytes (hashes and keys) and for 64
\* (signatures); they do the same, with another Length.
HashBytes(text) == Digits36!DecodeBase36([i \in DOMAIN text |-> DigitOf(text[i])])

(***************************************************************************)
(* Writing and reading.                                                    *)
(***************************************************************************)
RECURSIVE ValueOf(_, _)
ValueOf(type, x) ==
  CASE type \in DOMAIN Width   -> Uint64(x)
    [] type = "hash"           -> String(HashText(x))
    [] type = "option"         -> IF x = <<>> THEN Null ELSE ValueOf("hash", x[1])
    [] type \in DOMAIN Element -> Array([i \in DOMAIN x |-> ValueOf(Element[type], x[i])])
    [] type \in DOMAIN Layout  ->
         Object([k \in {Key(f) : f \in DOMAIN Layout[type]} |->
                   ValueOf(Layout[type][k[1]], x[k[1]])])

\* What can be read as a type; anything else is an exception.  Fields that are
\* not asked for are passed over, none that is may be missing.
RECURSIVE Readable(_, _)
Readable(type, value) ==
  CASE type \in DOMAIN Width   -> Is("uint64", value) \/ (Is("int64", value) /\ value.int64 >= 0)
    [] type = "hash"           -> Is("string", value) /\ HashBytes(value.string) # Digits36!Error
    [] type = "option"         -> Is("null", value) \/ Readable("hash", value)
    [] type \in DOMAIN Element ->
         /\ Is("array", value)
         /\ type = "target" => Len(value.array) = Length
         /\ \A i \in DOMAIN value.array : Readable(Element[type], value.array[i])
    [] type \in DOMAIN Layout  ->
         /\ Is("object", value)
         /\ \A f \in DOMAIN Layout[type] :
              Key(f) \in DOMAIN value.object /\ Readable(Layout[type][f], value.object[Key(f)])

RECURSIVE FromValue(_, _)
FromValue(type, value) ==
  CASE type \in DOMAIN Width   ->
         (IF Is("uint64", value) THEN value.uint64 ELSE value.int64) % Width[type]
    [] type = "hash"           -> HashBytes(value.string)
    [] type = "option"         -> IF Is("null", value) THEN <<>> ELSE <<FromValue("hash", value)>>
    [] type \in DOMAIN Element ->
         [i \in DOMAIN value.array |-> FromValue(Element[type], value.array[i])]
    [] type \in DOMAIN Layout  ->
         [f \in DOMAIN Layout[type] |-> FromValue(Layout[type][f], value.object[Key(f)])]

(***************************************************************************)
(* Events: the first of the known names decides.                           *)
(***************************************************************************)
Events ==
  <<[name |-> "Block", member |-> "block", type |-> "block", kind |-> "BLOCK"],
    [name |-> "Transaction", member |-> "transaction", type |-> "transaction",
     kind |-> "TRANSACTION"],
    [name |-> "TransactionExpiration", member |-> "transaction", type |-> "hash",
     kind |-> "TRANSACTION_EXPIRATION"]>>

ChainEvent(value) ==
  LET known == {i \in DOMAIN Events : Key(Events[i].name) \in DOMAIN value.object}
      event == Events[Min(known)]
      inner == value.object[Key(event.name)]
  IN  CASE ~Is("object", value) -> Failed
        [] Is("object", value) /\ known = {} -> [kind |-> "UNKNOWN"]
        [] OTHER ->
             IF /\ Is("object", inner) /\ Key(event.member) \in DOMAIN inner.object
                /\ Readable(event.type, inner.object[Key(event.member)])
             THEN [kind |-> event.kind,
                   of   |-> FromValue(event.type, inner.object[Key(event.member)])]
             ELSE Failed
-----------------------------------------------------------------------------
\* What is sent is what is read at the other end; without any one of its fields
\* it is refused.
SentAsMeant(type, x) ==
  LET value == ParseJson(ToJson(ValueOf(type, x), FALSE)).value
  IN  /\ Readable(type, value) /\ FromValue(type, value) = x
      /\ \A k \in DOMAIN value.object :
           ~Readable(type, Object([j \in DOMAIN value.object \ {k} |-> value.object[j]]))

\* An event is what its name says, and tells what it was sent with.
EventAsMeant(event, x) ==
  LET value == Object(Key(event.name) :> Object(Key(event.member) :> ValueOf(event.type, x)))
  IN  ChainEvent(ParseJson(ToJson(value, FALSE)).value) = [kind |-> event.kind, of |-> x]
=============================================================================
