------------------------------- MODULE MCText ------------------------------
(* Rand and PathStrings for TLC: two programs that share nothing, each run   *)
(* while the other one has not begun.                                        *)
EXTENDS Rand, PathStrings

CONSTANT MaxLength      \* bound: characters of a path

\* The lists of names whose path has n characters.
lists[n \in Nat] ==
  IF n = 0 THEN {<< >>}
  ELSE UNION {{Append(l, w) : l \in lists[n - 1 - k], w \in [1..k -> Letters]} : k \in 1..(n - 1)}
MCNameLists == UNION {lists[n] : n \in 2..MaxLength}

TextInit == RandInit /\ PathInit
TextNext == \/ Draw /\ pc = "split" /\ Len(path) = 2 /\ UNCHANGED pathVars
            \/ PathNext /\ draws = << >> /\ UNCHANGED randVars
TextSpec == TextInit /\ [][TextNext]_<<randVars, pathVars>>
============================================================================
