----------------------------- MODULE Iterator ------------------------------
(***************************************************************************)
(* perform_iterator and print_iterator_keyvals (dict.c): the keys of the   *)
(* container are fetched in batches and printed with what is stored under  *)
(* them.  The container does not change meanwhile.  Calls of the device    *)
(* may fail, and a caller may call again after an error.                   *)
(***************************************************************************)
EXTENDS Naturals, FiniteSets, Functions

CONSTANTS Keys,         \* the keys in the container
          FirstBytes,   \* the first four characters of each
          Kind,         \* the first byte of the blob under each, all "%s" prints
          MaxBatch,     \* entries of it_list that fit in iter_buff
          MaxCalls,     \* bound: calls of perform_iterator
          MaxFaults     \* bound: device calls that fail

ASSUME IteratorAssumption ==
  /\ IsFiniteSet(Keys)
  /\ FirstBytes \in [Keys -> [1..4 -> STRING]]
  /\ Kind \in [Keys -> {"d", "2"}]
  /\ MaxBatch \in Nat \ {0}
  /\ MaxCalls \in Nat /\ MaxFaults \in Nat

VARIABLES pc,           \* where perform_iterator is
          ahead,        \* keys the device's iterator has not handed out
          it_list,      \* entries of the batch not printed yet
          end,          \* the device has said that this batch is the last
          total_entries,\* static: it outlives the call
          value,        \* what the buffer of print_iterator_keyvals holds
          visited,      \* how often this call has printed each key
          wrong,        \* values printed for a key that has another
          calls,        \* calls of perform_iterator
          opened,       \* iterators opened and not closed
          faults

iterVars == <<pc, ahead, it_list, end, total_entries, value, visited, wrong,
              calls, opened, faults>>

bitmask    == {1, 2}            \* 0xffff0000: the bytes of the key it selects
prefix_str == [i \in 1..4 |-> "0"]

\* MUTANT: a mask one byte longer.
LongMask(k) == \A i \in bitmask \cup {3} : FirstBytes[k][i] = prefix_str[i]

\* The keys that the device's iterator goes over.
Matches(k) == \A i \in bitmask : FirstBytes[k][i] = prefix_str[i]

Matching == {k \in Keys : Matches(k)}

IteratorInit ==
  /\ pc = "idle" /\ ahead = {} /\ it_list = {} /\ end = FALSE
  /\ total_entries = 0 /\ value = "?"
  /\ visited = [k \in Keys |-> 0]
  /\ wrong = 0 /\ calls = 0 /\ opened = 0 /\ faults = 0

Works == UNCHANGED faults
Fails == faults < MaxFaults /\ faults' = faults + 1

\* kvs_open_iterator.
OpenIterator ==
  /\ pc = "idle" /\ calls < MaxCalls /\ calls' = calls + 1
  /\ end' = FALSE /\ it_list' = {}
  /\ visited' = [k \in Keys |-> 0]
  /\ \/ Works /\ pc' = "next" /\ ahead' = Matching /\ opened' = opened + 1
     \/ Fails /\ UNCHANGED <<pc, ahead, opened>>
  /\ UNCHANGED <<total_entries, value, wrong>>

\* A full batch, or all there is: then the device may say so, or with an empty
\* batch the next time.
Batches == {b \in SUBSET ahead : \/ Cardinality(b) = MaxBatch
                                 \/ b = ahead /\ Cardinality(b) < MaxBatch}

\* MUTANT: the batch is counted when it is the last.
CountAtEnd ==
  /\ pc = "next"
  /\ \E b \in Batches :
       /\ Works /\ pc' = "print"
       /\ it_list' = b /\ ahead' = ahead \ b
       /\ end' \in IF b = {} THEN {TRUE} ELSE IF b = ahead THEN BOOLEAN ELSE {FALSE}
       /\ total_entries' = IF end' THEN total_entries + Cardinality(b) ELSE total_entries
  /\ UNCHANGED <<value, visited, wrong, calls, opened>>

\* kvs_iterator_next.  When it fails perform_iterator returns, with the iterator
\* open and total_entries as it is.
NextBatch ==
  /\ pc = "next"
  /\ \/ \E b \in Batches :
          /\ Works /\ pc' = "print"
          /\ it_list' = b /\ ahead' = ahead \ b
          /\ end' \in IF b = {} THEN {TRUE} ELSE IF b = ahead THEN BOOLEAN ELSE {FALSE}
          /\ total_entries' = total_entries + Cardinality(b)
     \/ Fails /\ pc' = "idle" /\ UNCHANGED <<ahead, it_list, end, total_entries>>
  /\ UNCHANGED <<value, visited, wrong, calls, opened>>

\* MUTANT: the value is printed before it is read.
PrintFirst ==
  /\ pc = "print"
  /\ \E k \in it_list :
       /\ it_list' = it_list \ {k}
       /\ Works /\ value' = Kind[k]
       /\ visited' = [visited EXCEPT ![k] = @ + 1]
       /\ wrong' = IF value = Kind[k] THEN wrong ELSE wrong + 1
  /\ UNCHANGED <<pc, ahead, end, total_entries, calls, opened>>

\* print_iterator_keyvals, one key: perform_read copies a whole WriteBlob into
\* value, which is shorter; that may end the process.  When the read fails the
\* buffer is printed as it is.
PrintKey ==
  /\ pc = "print"
  /\ \E k \in it_list :
       /\ it_list' = it_list \ {k}
       /\ \/ Works /\ value' = Kind[k] /\ pc' \in {"print", "died"}
          \/ Fails /\ UNCHANGED <<value, pc>>
       /\ visited' = [visited EXCEPT ![k] = @ + 1]
       /\ wrong' = IF value' = Kind[k] THEN wrong ELSE wrong + 1
  /\ UNCHANGED <<ahead, end, total_entries, calls, opened>>

\* MUTANT: the end is not looked at.
AlwaysMore ==
  /\ pc = "print" /\ it_list = {}
  /\ pc' = "next"
  /\ UNCHANGED <<ahead, it_list, end, total_entries, value, visited, wrong, calls,
                 opened, faults>>

\* "Done with all keys": exit(1), before kvs_close_iterator.
DoneOrMore ==
  /\ pc = "print" /\ it_list = {}
  /\ pc' = IF end THEN "exited" ELSE "next"
  /\ UNCHANGED <<ahead, it_list, end, total_entries, value, visited, wrong, calls,
                 opened, faults>>

Iterating == NextBatch \/ PrintKey \/ DoneOrMore

\* Once the process has ended nothing happens.
IteratorSpec == IteratorInit /\ [][OpenIterator \/ Iterating]_iterVars
                             /\ WF_iterVars(Iterating)

----------------------------------------------------------------------------
\* A call that gets to its end has printed every key that begins with "00"
\* once, in however many batches they come and whether or not their values can
\* be read, and no other.
EachKeyOnce ==
  pc = "exited" =>
    visited = [k \in Keys |-> IF FirstBytes[k][1] = "0" /\ FirstBytes[k][2] = "0" THEN 1 ELSE 0]

\* The total it prints counts those keys, if no earlier call was cut short in
\* its middle: total_entries is static.
TotalIsRight ==
  pc = "exited" /\ opened = 1 => total_entries = Cardinality(Matching)

\* A value printed for the wrong key is always a failed read's: the buffer then
\* shows the value of the key before.
WrongByFault == wrong <= faults

\* Every call comes to an end.
Terminates == pc = "next" ~> pc \in {"idle", "exited", "died"}

============================================================================
