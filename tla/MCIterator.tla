---------------------------- MODULE MCIterator -----------------------------
(* Iterator for TLC: the root, keys as a driver inserts them, a drawn key.  *)
EXTENDS Iterator

CONSTANTS root, hello1, hello2, hello3, drawn, other

MCKeys == {root, hello1, hello2, hello3, drawn, other}

Zeros == [i \in 1..4 |-> "0"]

\* A drawn key begins with the first digit of a number.
MCFirstBytes == [k \in MCKeys |-> CASE k = drawn -> [Zeros EXCEPT ![1] = "1"]
                                    [] k = other -> [Zeros EXCEPT ![3] = "1"]
                                    [] OTHER     -> Zeros]

MCKind == [k \in MCKeys |-> IF k = root THEN "d" ELSE "2"]
============================================================================
