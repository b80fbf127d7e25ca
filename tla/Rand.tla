-------------------------------- MODULE Rand -------------------------------
(***************************************************************************)
(* rand.c: how get_random_num makes the key of a new blob out of draws of  *)
(* rand(), digit by digit.  A character is the digit it stands for, and a  *)
(* string is the sequence of its characters without the NUL.               *)
(***************************************************************************)
EXTENDS Integers, SequencesExt

CONSTANTS HEX,          \* 16
          RAND_MAX,     \* 2^31 - 1
          Draws,        \* 13
          KeyLength,    \* 96
          Buffer2       \* 9, the bytes of buffer2

ASSUME RandAssumption ==
  /\ HEX \in Nat \ {0, 1} /\ RAND_MAX \in Nat
  /\ Draws \in Nat /\ KeyLength \in Nat /\ Buffer2 \in Nat

VARIABLES draws,        \* what rand() has returned
          longest,      \* bytes of the longest string that buffer2 has held
          ret           \* the digits so far

randVars == <<draws, longest, ret>>

----------------------------------------------------------------------------
\* The do loop of itoa: the last digit comes first.
backwards[n \in Nat] ==
  <<n % HEX>> \o (IF n \div HEX > 0 THEN backwards[n \div HEX] ELSE << >>)

\* The digits of n.
reverse(s) == Reverse(s)

\* MUTANT: all numbers of one length.
PaddedItoa(n) ==
  LET s == reverse(backwards[n])
      w == Len(backwards[RAND_MAX])
  IN  [i \in 1..(w - Len(s)) |-> 0] \o s
\* MUTANT: the digits are not turned round.
UnreversedItoa(n) == backwards[n]
\* MUTANT: binary digits (a base too small for the buffer).
ShortBaseItoa(n) ==
  LET bits[m \in Nat] == <<m % 2>> \o (IF m \div 2 > 0 THEN bits[m \div 2] ELSE << >>)
  IN  reverse(bits[n])

itoa(n) == reverse(backwards[n])

RandInit == draws = << >> /\ longest = 0 /\ ret = << >>

\* One turn of the loop of get_random_num.
Draw ==
  /\ Len(draws) < Draws
  /\ \E t \in 0..RAND_MAX :
       /\ draws' = Append(draws, t)
       /\ ret' = ret \o itoa(t)
       /\ longest' = IF Len(itoa(t)) + 1 > longest THEN Len(itoa(t)) + 1 ELSE longest

\* The key: the first 96 characters, or fewer when the digits run out.
Drawn == Len(draws) = Draws
Key   == SubSeq(ret, 1, IF Len(ret) < KeyLength THEN Len(ret) ELSE KeyLength)

RandSpec == RandInit /\ [][Draw]_randVars

----------------------------------------------------------------------------
(* Properties.                                                             *)

\* No draw is ever the key of the root, 95 zeroes and a 2, nor the empty key:
\* itoa gives 0 one digit, and the key has more digits than there are draws
\* (rand.c, root_id of dict.h).  Blob assumes it: root_id is not in Ids.
NeverRootId ==
  Drawn => /\ Key # << >>
           /\ ~ (Len(Key) = KeyLength /\ \A i \in 1..(KeyLength - 1) : Key[i] = 0)

Value(s) ==
  LET value[i \in 0..Len(s)] == IF i = 0 THEN 0 ELSE HEX * value[i-1] + s[i]
  IN  value[Len(s)]
Width == Len(backwards[RAND_MAX])

\* The draws in front of the first short one can be read back from the key: so
\* two keys are the same only if those are, or where a short draw has moved
\* the digits behind it (rand.c joins them without padding).
FullDrawsReadBack ==
  Drawn => \A j \in 1..Draws :
             /\ j * Width <= KeyLength
             /\ \A i \in 1..j : Len(itoa(draws[i])) = Width
             => Value(SubSeq(Key, (j - 1) * Width + 1, j * Width)) = draws[j]

\* Every number fits buffer2 with its NUL.
FitsBuffer2 == longest <= Buffer2
============================================================================
