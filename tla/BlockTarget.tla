---------------------------- MODULE BlockTarget ----------------------------
(***************************************************************************)
(* The target a block has to meet, calculate_block_difficulty_target:      *)
(* every transaction makes the node's target easier, by a factor of        *)
(* scale / Divide.  A target is an array of bytes that stands for a large  *)
(* number; multiply_divide_target (src/crypto.cpp) multiplies it byte by   *)
(* byte from the right and divides the product byte by byte from the left. *)
(*                                                                         *)
(* One action is one pass through one of its two loops.  Places are        *)
(* counted from the right: place p is the byte Size - 1 - p of the array.  *)
(***************************************************************************)
EXTENDS Integers

CONSTANTS
  Base,    \* values of a byte (256)
  Size,    \* bytes of a target (32)
  Divide,  \* divide (1000)
  Scales,  \* the values of multiply: 1000, and about 5 more for each transaction,
           \* as the floating-point product comes out, cut (1004 for one)
  Weight   \* Weight[p], what a byte at place p counts for: Base^p

Places == 0 .. Size - 1
Bytes  == 0 .. Base - 1

ASSUME TargetAssumption ==
  /\ Base \in Nat /\ Base > 1 /\ Size \in Nat /\ Divide \in Nat /\ Divide > 0
  /\ Scales \subseteq Nat

ASSUME WeightAssumption ==
  /\ Weight \in [0 .. Size -> Nat]
  /\ Weight[0] = 1
  /\ \A p \in Places : Weight[p + 1] = Base * Weight[p]

VARIABLES
  phase,       \* "multiply", "divide", "done", or "saturated"
  input,       \* input
  scale,       \* multiply
  place,       \* the next place in either loop
  carry,       \* carry
  multiplied,  \* multiplied
  remainder,   \* remainder
  quotient     \* what the bytes of result filled so far stand for

\* What the bytes read and written so far stand for, which the code does not
\* compute: the input from the right, the product from the right (up to every
\* place), the product from the left.
VARIABLES total, low, high

loopVars  == <<carry, multiplied, remainder, quotient>>
accountVars == <<total, low, high>>
targetVars == <<phase, input, scale, place, loopVars, accountVars>>

TargetInit ==
  /\ phase = "multiply"
  /\ input \in [Places -> Bytes] /\ scale \in Scales
  /\ place = 0 /\ carry = 0 /\ multiplied = [p \in Places |-> 0]
  /\ remainder = 0 /\ quotient = 0
  /\ total = 0 /\ low = [p \in 0 .. Size |-> 0] /\ high = 0

(***************************************************************************)
(* A definition named D_<fault> is D with a plausible bug seeded; nothing  *)
(* of the specification uses it.  Each one breaks the property below.      *)
(***************************************************************************)

(***************************************************************************)
(* The first loop.                                                         *)
(***************************************************************************)
\* cur: a byte times multiply, and what is carried over.
Product == input[place] * scale + carry

MultiplyByte ==
  /\ phase = "multiply" /\ place < Size
  /\ multiplied' = [multiplied EXCEPT ![place] = Product % Base]
  /\ carry' = Product \div Base
  /\ place' = place + 1
  /\ total' = total + input[place] * Weight[place]
  /\ low' = [low EXCEPT ![place + 1] = low[place] + (Product % Base) * Weight[place]]
  /\ UNCHANGED <<phase, input, scale, remainder, quotient, high>>

\* What is left to carry does not fit: every byte of the target is 0xFF.
Saturate ==
  /\ phase = "multiply" /\ place = Size
  /\ carry > 0
  /\ phase' = "saturated"
  /\ UNCHANGED <<input, scale, place, loopVars, accountVars>>

StartDividing ==
  /\ phase = "multiply" /\ place = Size
  /\ carry = 0
  /\ phase' = "divide"
  /\ UNCHANGED <<input, scale, place, loopVars, accountVars>>

(***************************************************************************)
(* The second loop.                                                        *)
(***************************************************************************)
\* cur: what was left over, and the next byte.
Dividend_RemainderForgotten == multiplied[place - 1]
Dividend == remainder * Base + multiplied[place - 1]

\* The quotient is cast to a byte.
DivideByte ==
  /\ phase = "divide" /\ place > 0
  /\ quotient' = quotient * Base + ((Dividend \div Divide) % Base)
  /\ remainder' = Dividend % Divide
  /\ place' = place - 1
  /\ high' = high * Base + multiplied[place - 1]
  /\ UNCHANGED <<phase, input, scale, carry, multiplied, total, low>>

Finish ==
  /\ phase = "divide" /\ place = 0
  /\ phase' = "done"
  /\ UNCHANGED <<input, scale, place, loopVars, accountVars>>
-----------------------------------------------------------------------------
TargetNext == MultiplyByte \/ Saturate \/ StartDividing \/ DivideByte \/ Finish

TargetSpec == TargetInit /\ [][TargetNext]_targetVars
-----------------------------------------------------------------------------
TargetTypeOK ==
  /\ phase \in {"multiply", "divide", "done", "saturated"}
  /\ input \in [Places -> Bytes] /\ scale \in Nat
  /\ place \in 0 .. Size /\ carry \in Nat
  /\ multiplied \in [Places -> Bytes]
  /\ remainder \in 0 .. Divide - 1 /\ quotient \in Nat
  /\ total \in Nat /\ low \in [0 .. Size -> Nat] /\ high \in Nat

\* The first loop: what was read, multiplied, is what was written and what is
\* carried; what was written fits into its places.
Multiplying ==
  phase # "divide" /\ phase # "done" =>
    /\ total * scale = low[place] + carry * Weight[place]
    /\ phase = "saturated" => place = Size /\ carry > 0

Written ==
  LET filled == IF phase = "multiply" THEN place ELSE Size IN
  /\ low[0] = 0
  /\ \A p \in Places : p < filled =>
       low[p + 1] = low[p] + multiplied[p] * Weight[p]
  /\ \A p \in 0 .. Size : p <= filled => low[p] < Weight[p]

\* The second loop: the product is what was divided and what is still to
\* come; what was divided is the quotient and the remainder.
Dividing ==
  phase \in {"divide", "done"} =>
    /\ total * scale = low[Size]
    /\ low[Size] = high * Weight[place] + low[place]
    /\ high = quotient * Divide + remainder
    /\ phase = "done" => place = 0

\* Before it is divided the second loop's numbers are still 0.
NotYetDividing == phase = "multiply" => high = 0 /\ quotient = 0 /\ remainder = 0

\* The inductive invariant.
TargetInv == TargetTypeOK /\ Multiplying /\ Written /\ Dividing /\ NotYetDividing

\* The target is the node's target times scale / Divide, rounded down, to the
\* last bit, unless the product does not fit into Size bytes, and then, and
\* only then, everything meets it.  No byte of the quotient is cut off.
TargetIsExact ==
  /\ phase = "done" =>
       /\ quotient * Divide <= total * scale
       /\ total * scale < (quotient + 1) * Divide
       /\ total * scale < Weight[Size]
  /\ phase = "saturated" => total * scale >= Weight[Size]
=============================================================================
