------------------------------ MODULE JsonText ------------------------------
(***************************************************************************)
(* The text of the messages: parse_json and to_json (src/json.cpp).        *)
(*                                                                         *)
(* A text is a sequence of characters, and a character is a word: a letter *)
(* or digit stands for itself, others go by their name.  A value has one   *)
(* field, which is the alternative of the variant it holds.  Numbers with  *)
(* a point or an exponent are left out.                                    *)
(***************************************************************************)
EXTENDS Integers, SequencesExt

CONSTANT Word  \* values of an unsigned number (2^64)

Null      == [null |-> TRUE]
Bool(b)   == [bool |-> b]
Int64(n)  == [int64 |-> n]
Uint64(n) == [uint64 |-> n]
String(s) == [string |-> s]
Array(s)  == [array |-> s]
Object(f) == [object |-> f]
Is(kind, value) == kind \in DOMAIN value

(***************************************************************************)
(* Characters.                                                             *)
(***************************************************************************)
Spaces   == {"space", "newline", "tab", "return", "vertical_tab", "formfeed"}
Decimal  == <<"0", "1", "2", "3", "4", "5", "6", "7", "8", "9">>
Digits   == ToSet(Decimal)
HexDigits == Digits \cup {"a", "b", "c", "d", "e", "f", "A", "B", "C", "D", "E", "F"}
Literals == [null |-> <<"n", "u", "l", "l">>, true |-> <<"t", "r", "u", "e">>,
             false |-> <<"f", "a", "l", "s", "e">>]

\* What stands behind a backslash for a character, and the characters that have
\* no such letter but a code.
Letter == [quote |-> "quote", backslash |-> "backslash", backspace |-> "b",
           formfeed |-> "f", newline |-> "n", return |-> "r", tab |-> "t"]
Code   == [bell |-> <<"0", "0", "0", "7">>, vertical_tab |-> <<"0", "0", "0", "B">>,
           escape |-> <<"0", "0", "1", "B">>]

(***************************************************************************)
(* Writing.                                                                *)
(***************************************************************************)
RECURSIVE DecimalText(_)
DecimalText(n) ==
  IF n < 10 THEN <<Decimal[n + 1]>> ELSE DecimalText(n \div 10) \o <<Decimal[(n % 10) + 1]>>

Escaped(c) ==
  CASE c \in DOMAIN Letter -> <<"backslash", Letter[c]>>
    [] c \in DOMAIN Code   -> <<"backslash", "u">> \o Code[c]
    [] OTHER               -> <<c>>
EscapeString(s) ==
  <<"quote">> \o FlattenSeq([i \in DOMAIN s |-> Escaped(s[i])]) \o <<"quote">>

\* Only pretty text has white space.
NewLine(pretty, level) ==
  IF pretty THEN <<"newline">> \o [i \in 1 .. 2 * level |-> "space"] ELSE <<>>

\* What is in brackets: items on lines of their own, with commas between them.
Bracketed(open, items, close, pretty, level) ==
  <<open>>
    \o FlattenSeq([i \in DOMAIN items |->
         NewLine(pretty, level + 1) \o items[i]
           \o (IF i # Len(items) THEN <<"comma">> ELSE <<>>)])
    \o (IF items # <<>> THEN NewLine(pretty, level) ELSE <<>>)
    \o <<close>>

RECURSIVE Stringify(_, _, _)
Stringify(value, pretty, level) ==
  CASE Is("null", value)   -> Literals.null
    [] Is("bool", value)   -> IF value.bool THEN Literals.true ELSE Literals.false
    [] Is("int64", value)  -> IF value.int64 < 0 THEN <<"minus">> \o DecimalText(-value.int64)
                                                 ELSE DecimalText(value.int64)
    [] Is("uint64", value) -> DecimalText(value.uint64)
    [] Is("string", value) -> EscapeString(value.string)
    [] Is("array", value)  ->
         Bracketed("[", [i \in DOMAIN value.array |->
                           Stringify(value.array[i], pretty, level + 1)], "]", pretty, level)
    [] Is("object", value) ->
         LET keys == SetToSeq(DOMAIN value.object)  \* in some order
         IN  Bracketed("{", [i \in DOMAIN keys |->
                               EscapeString(keys[i]) \o <<"colon">>
                                 \o (IF pretty THEN <<"space">> ELSE <<>>)
                                 \o Stringify(value.object[keys[i]], pretty, level + 1)],
                       "}", pretty, level)

ToJson(value, pretty) == Stringify(value, pretty, 0)

(***************************************************************************)
(* Reading.  Each function returns what it read and the position behind    *)
(* it, or Failed in place of the exception.                                *)
(***************************************************************************)
Failed == [pos |-> 0]
Read(value, pos) == [pos |-> pos, value |-> value]

Peek(text, pos) == IF pos <= Len(text) THEN text[pos] ELSE "eof"

\* The first position from pos on whose character is not one of these.
After(chars, text, pos) ==
  Min({p \in pos .. Max({Len(text) + 1, pos}) : Peek(text, p) \notin chars})
SkipWs(text, pos) == After(Spaces, text, pos)

ParseLiteral(text, pos, word, value) ==
  IF \A i \in DOMAIN word : Peek(text, pos + i - 1) = word[i]
  THEN Read(value, pos + Len(word)) ELSE Failed

\* A string from the character behind its quote on.  Codes stay escaped.
RECURSIVE ParseString(_, _, _)
ParseString(text, pos, out) ==
  LET c   == Peek(text, pos)
      esc == Peek(text, pos + 1)
  IN  CASE c = "eof"   -> Failed
        [] c = "quote" -> Read(out, pos + 1)
        [] c = "backslash" /\ esc = "slash" ->
             ParseString(text, pos + 2, Append(out, "slash"))
        [] c = "backslash" /\ \E d \in DOMAIN Letter : Letter[d] = esc ->
             ParseString(text, pos + 2,
                         Append(out, CHOOSE d \in DOMAIN Letter : Letter[d] = esc))
        [] c = "backslash" /\ esc = "u" /\ \A i \in 2 .. 5 : Peek(text, pos + i) \in HexDigits ->
             ParseString(text, pos + 6, out \o SubSeq(text, pos, pos + 5))
        [] c = "backslash" -> Failed
        [] OTHER -> ParseString(text, pos + 1, Append(out, c))

\* A zero is not followed by digits: they would be what is left over.
Number(digits) ==
  FoldLeft(LAMBDA n, d : n * 10 + (CHOOSE i \in 1 .. 10 : Decimal[i] = d) - 1, 0, digits)
ParseNumber(text, pos) ==
  LET negative == text[pos] = "minus"
      start == IF negative THEN pos + 1 ELSE pos
      end   == IF Peek(text, start) = "0" THEN start + 1 ELSE After(Digits, text, start)
      n     == Number(SubSeq(text, start, end - 1))
  IN  CASE Peek(text, start) \notin Digits     -> Failed
        [] negative /\ n <= Word \div 2        -> Read(Int64(-n), end)
        [] ~negative /\ n < Word               -> Read(Uint64(n), end)
        [] OTHER                               -> Failed

RECURSIVE ParseValue(_, _), ParseItems(_, _, _), ParseMembers(_, _, _)
ParseValue(text, pos) ==
  LET c == Peek(text, pos)
      first == SkipWs(text, pos + 1)
  IN  CASE c = "n" -> ParseLiteral(text, pos, Literals.null, Null)
        [] c = "t" -> ParseLiteral(text, pos, Literals.true, Bool(TRUE))
        [] c = "f" -> ParseLiteral(text, pos, Literals.false, Bool(FALSE))
        [] c = "quote" -> LET s == ParseString(text, pos + 1, <<>>)
                          IN  IF s = Failed THEN Failed ELSE Read(String(s.value), s.pos)
        [] c = "[" -> IF Peek(text, first) = "]" THEN Read(Array(<<>>), first + 1)
                      ELSE ParseItems(text, first, <<>>)
        [] c = "{" -> IF Peek(text, first) = "}" THEN Read(Object([k \in {} |-> Null]), first + 1)
                      ELSE ParseMembers(text, first, [k \in {} |-> Null])
        [] c \in Digits \cup {"minus"} -> ParseNumber(text, pos)
        [] OTHER -> Failed

\* The items of an array up to its bracket.
ParseItems(text, pos, out) ==
  LET item == ParseValue(text, SkipWs(text, pos))
  IN  IF item = Failed THEN Failed
      ELSE LET end == SkipWs(text, item.pos)
               all == Append(out, item.value)
           IN  CASE Peek(text, end) = "]"     -> Read(Array(all), end + 1)
                 [] Peek(text, end) = "comma" -> ParseItems(text, end + 1, all)
                 [] OTHER                     -> Failed

\* The members of an object.  Of two with one key the first is kept.
ParseMembers(text, pos, out) ==
  LET start == SkipWs(text, pos)
      key   == IF Peek(text, start) = "quote" THEN ParseString(text, start + 1, <<>>) ELSE Failed
      colon == IF key = Failed THEN 0 ELSE SkipWs(text, key.pos)
      item  == IF key = Failed \/ Peek(text, colon) # "colon" THEN Failed
               ELSE ParseValue(text, SkipWs(text, colon + 1))
  IN  IF item = Failed THEN Failed
      ELSE LET end == SkipWs(text, item.pos)
               all == out @@ (key.value :> item.value)
           IN  CASE Peek(text, end) = "}"     -> Read(Object(all), end + 1)
                 [] Peek(text, end) = "comma" -> ParseMembers(text, end + 1, all)
                 [] OTHER                     -> Failed

\* Nothing but white space may be left over.
ParseJson(text) ==
  LET value == ParseValue(text, SkipWs(text, 1))
  IN  IF value = Failed \/ SkipWs(text, value.pos) <= Len(text) THEN Failed ELSE value
-----------------------------------------------------------------------------
\* What comes back of a value: a number that is not negative is unsigned, and a
\* character that was written as its code stays one.
AsRead(s) == FlattenSeq([i \in DOMAIN s |-> IF s[i] \in DOMAIN Code THEN Escaped(s[i]) ELSE <<s[i]>>])
RECURSIVE Kept(_)
Kept(value) ==
  CASE Is("int64", value) /\ value.int64 >= 0 -> Uint64(value.int64)
    [] Is("string", value) -> String(AsRead(value.string))
    [] Is("array", value)  -> Array([i \in DOMAIN value.array |-> Kept(value.array[i])])
    [] Is("object", value) ->
         Object([k \in {AsRead(key) : key \in DOMAIN value.object} |->
                   Kept(value.object[CHOOSE key \in DOMAIN value.object : AsRead(key) = k])])
    [] OTHER -> value

\* What is written is read back, pretty or not.
ReadBack(value, pretty) ==
  ParseJson(ToJson(value, pretty)) = Read(Kept(value), Len(ToJson(value, pretty)) + 1)

\* A text without escapes or two members of one key is accepted only if it is,
\* but for white space and the sign of a zero, what is written for the value
\* read from it.
Compact(text) == SelectSeq(text, LAMBDA c : c \notin Spaces)
AcceptsOnlyJson(text) ==
  ParseJson(text) # Failed =>
    Compact(text) \in {Compact(ToJson(ParseJson(text).value, FALSE)), <<"minus", "0">>}
=============================================================================
