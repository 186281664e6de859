------------------------------ MODULE KebabScan ------------------------------
(***************************************************************************)
(* The two loops that decide whether a text is a stable name:              *)
(* `require_code` (crates/aura-runtime-protocol/src/lib.rs) for error      *)
(* codes and `is_valid_type_name` (crates/aura-bridge-value/src/value.rs,  *)
(* copied into the guest SDK) for the types of handles.  Both run over the *)
(* bytes once and remember only whether the last byte was a separator.     *)
(*                                                                         *)
(* They differ in the separators they know and in when they look at the    *)
(* length: require_code last, is_valid_type_name first.                    *)
(***************************************************************************)
EXTENDS Naturals, Sequences

CONSTANTS
  Loops,       \* the loops there are: what they know and when they measure
  MaxLength,   \* 128 bytes, scaled down
  TextLimit    \* bound: the longest text tried

ASSUME ScanAssumption ==
  /\ Loops \subseteq [separators : SUBSET {".", "-"}, lengthFirst : BOOLEAN]
  /\ MaxLength \in Nat /\ TextLimit \in Nat

VARIABLES
  loop,       \* the one that runs
  text,       \* the bytes, by the classes the loops tell apart
  position,   \* bytes looked at so far
  separator,  \* the last one was a separator
  verdict     \* "none" while the loop runs

scan == <<loop, text, position, separator, verdict>>

\* Lower-case letters, digits, the separators, and every other byte.
Classes == {"lower", "digit", ".", "-", "other"}

Separators == loop.separators
LengthFirst == loop.lengthFirst

ScanInit ==
  /\ loop \in Loops
  /\ text \in UNION {[1..n -> Classes] : n \in 0..TextLimit}
  /\ position = 0 /\ separator = FALSE /\ verdict = "none"

TooLong == Len(text) > MaxLength

Decide(v) == verdict' = v /\ UNCHANGED <<loop, text, position, separator>>

\* is_valid_type_name() looks at the length first.
TooLongAtOnce == LengthFirst /\ TooLong

Measure ==
  /\ position = 0 /\ TooLongAtOnce
  /\ Decide("bad")

\* A text begins with a letter, and is not empty.
Begins == Len(text) > 0 /\ text[1] = "lower"

First ==
  /\ position = 0 /\ ~TooLongAtOnce
  /\ IF Begins
       THEN position' = 1 /\ UNCHANGED <<loop, text, separator, verdict>>
       ELSE Decide("bad")

\* Mutant: a loop that forgets to reset the flag.
NeverReset(c) == separator \/ c \in Separators

\* The flag after a byte.
Flag(c) == c \in Separators

ByteFits(c) ==
  \/ c \in Separators /\ ~separator
  \/ c \in {"lower", "digit"}

Byte ==
  /\ position \in 1..(Len(text) - 1)
  /\ LET c == text[position + 1] IN
       IF ByteFits(c)
         THEN /\ position' = position + 1 /\ separator' = Flag(c)
              /\ UNCHANGED <<loop, text, verdict>>
         ELSE Decide("bad")

EndsWell == ~separator /\ ~(~LengthFirst /\ TooLong)

\* Behind the last byte.
Finish ==
  /\ position > 0 /\ position = Len(text)
  /\ Decide(IF EndsWell THEN "good" ELSE "bad")

ScanNext == verdict = "none" /\ (Measure \/ First \/ Byte \/ Finish)

ScanSpec == ScanInit /\ [][ScanNext]_scan

-----------------------------------------------------------------------------
\* Properties.

\* The scan keeps its type and never runs past the text.
TypeOK ==
  /\ loop \in Loops
  /\ text \in Seq(Classes)
  /\ position \in 0..Len(text)
  /\ separator \in BOOLEAN
  /\ verdict \in {"none", "good", "bad"}

\* What the names are: words of letters and digits joined by single
\* separators, the first beginning with a letter.
Kebab ==
  /\ Len(text) \in 1..MaxLength
  /\ text[1] = "lower"
  /\ \A i \in 1..Len(text) : text[i] \in Separators \cup {"lower", "digit"}
  /\ \A i \in 1..Len(text) :
       text[i] \in Separators => i < Len(text) /\ text[i + 1] \notin Separators

\* The loop accepts exactly those names, for whichever separators and in
\* whichever order it looks at the length.
AcceptsExactlyKebab == verdict # "none" => (verdict = "good" <=> Kebab)
=============================================================================
