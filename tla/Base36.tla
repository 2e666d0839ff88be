------------------------------ MODULE Base36 ------------------------------
(***************************************************************************)
(* Keys, hashes and addresses as text: encode_base36 and decode_base36     *)
(* (src/types.cpp).  An array of bytes is a large number; the encoder      *)
(* divides it by the radix until nothing is left, the decoder multiplies   *)
(* and adds, one character at a time.                                      *)
(***************************************************************************)
EXTENDS Integers, SequencesExt

CONSTANTS
  Octet,  \* values of a byte (256)
  Radix,  \* values of a character (36)
  Length  \* bytes of an array (32, and 64 for a signature)

\* A number with one value only for its digits would not end.
ASSUME Base36Assumption == /\ Octet \in Nat /\ Octet > 1
                           /\ Radix \in Nat /\ Radix > 1
                           /\ Length \in Nat \ {0}

Octets == 0 .. Octet - 1
Digits == 0 .. Radix - 1

\* Digits without zeros at the front.
Stripped(digits) == {v \in Seq(digits) : v # <<>> => v[1] # 0}

\* A character is taken for the digit it is, a letter in either case for the same
\* one; all that are none are one.
NotADigit == Radix
Error     == <<>>

\* Zeros at the front are erased.
WithoutLeadingZeros(value) ==
  LET zeros == Max({n \in 0 .. Len(value) : \A i \in 1 .. n : value[i] = 0})
  IN  SubSeq(value, zeros + 1, Len(value))

(***************************************************************************)
(* Encoding.                                                               *)
(***************************************************************************)
\* One division of all of the value: a quotient without zeros at its front, and
\* the remainder.
Divided[value \in Seq(Octets)] ==
  IF value = <<>> THEN [remainder |-> 0, quotient |-> <<>>]
  ELSE LET before == Divided[Front(value)]
           acc    == before.remainder * Octet + Last(value)
           q      == (acc \div Radix) % Octet
       IN  [remainder |-> acc % Radix,
            quotient  |-> IF before.quotient # <<>> \/ q # 0 THEN Append(before.quotient, q)
                                                             ELSE <<>>]

\* The characters, the last one first as they are found.
Characters[value \in Stripped(Octets)] ==
  IF value = <<>> THEN <<>>
  ELSE Append(Characters[Divided[value].quotient], Divided[value].remainder)

EncodeBase36(bytes) ==
  LET value == WithoutLeadingZeros(bytes)
  IN  IF value = <<>> THEN <<0>> ELSE Characters[value]

(***************************************************************************)
(* Decoding.  A definition named D_<fault> is D with a plausible bug       *)
(* seeded; nothing of the specification uses it.  It breaks the property   *)
(* below.                                                                  *)
(***************************************************************************)
\* What is carried out of the first byte is put in front of it.
CarryBytes[carry \in Nat] ==
  IF carry = 0 THEN <<>> ELSE Append(CarryBytes[carry \div Octet], carry % Octet)
CarriedOver_Dropped(carry) == <<>>
CarriedOver(carry) == CarryBytes[carry]

\* One character: the value times the radix and what is carried, from the right.
Extended[value \in Seq(Octets)] ==
  [carry \in Nat |->
     IF value = <<>> THEN CarriedOver(carry)
     ELSE LET acc == Last(value) * Radix + carry
          IN  Append(Extended[Front(value)][acc \div Octet], acc % Octet)]

\* The value after the characters read so far.
ValueRead[text \in Seq(Digits)] ==
  IF text = <<>> THEN <<0>> ELSE Extended[ValueRead[Front(text)]][Last(text)]

\* The size is looked at when all characters are read.
DecodeBase36(text) ==
  IF text = <<>> \/ \E i \in DOMAIN text : text[i] = NotADigit THEN Error
  ELSE LET value == WithoutLeadingZeros(ValueRead[text])
       IN  IF Len(value) > Length THEN Error
           ELSE [i \in 1 .. Length - Len(value) |-> 0] \o value
-----------------------------------------------------------------------------
\* The number that digits stand for, in each base.
Number(digits, base) ==
  LET value[s \in Seq(Nat)] == IF s = <<>> THEN 0 ELSE value[Front(s)] * base + Last(s)
  IN  value[digits]

\* The arrays of bytes that are written as text, and what is tried to be read.
Arrays == [1 .. Length -> Octets]
Texts  == Seq(Digits \cup {NotADigit})

\* A text is decoded to the number it stands for, if an array has room for it,
\* and refused otherwise; encoded again it is the same text, but for the case
\* of letters, without zeros at its front.
TextMeansItsNumber(text) ==
  IF text = <<>> \/ \E i \in DOMAIN text : text[i] = NotADigit
  THEN DecodeBase36(text) = Error
  ELSE IF \A bytes \in Arrays : Number(bytes, Octet) # Number(text, Radix)
  THEN DecodeBase36(text) = Error
  ELSE /\ Number(DecodeBase36(text), Octet) = Number(text, Radix)
       /\ DecodeBase36(text) \in Arrays
       /\ EncodeBase36(DecodeBase36(text)) =
            IF WithoutLeadingZeros(text) = <<>> THEN <<0>> ELSE WithoutLeadingZeros(text)

\* What is encoded is decoded to the same bytes.
ReadBack(bytes) == DecodeBase36(EncodeBase36(bytes)) = bytes
=============================================================================
