--------------------------- MODULE IteratorProofs --------------------------
(***************************************************************************)
(* Proofs about Iterator, for every container, size of the batches, number *)
(* of calls and of failing calls of the device.                            *)
(***************************************************************************)
EXTENDS Iterator, FiniteSetTheorems, TLAPS

----------------------------------------------------------------------------
(* The inductive invariant: the keys that match are ahead, in the batch or *)
(* printed, one of the three; and what total_entries counts is no longer   *)
(* ahead.                                                                  *)

Shared == /\ ahead \subseteq Matching
          /\ it_list \subseteq Matching
          /\ ahead \cap it_list = {}

Visits == \A k \in Keys :
            visited[k] = IF k \in Matching \ (ahead \cup it_list) THEN 1 ELSE 0

Counted == total_entries + Cardinality(ahead) = Cardinality(Matching)

Places == /\ pc \in {"idle", "next", "print", "exited", "died"}
          /\ pc = "next" => it_list = {}
          /\ pc = "print" /\ end => ahead = {}
          /\ pc = "exited" => ahead = {} /\ it_list = {}

Numbers == /\ total_entries \in Nat /\ wrong \in Nat /\ faults \in Nat /\ opened \in Nat
           /\ wrong <= faults

Seen  == /\ visited \in [Keys -> Nat]
         /\ pc \in {"next", "print", "exited"} => Visits

Total == /\ opened = 0 => pc = "idle" /\ total_entries = 0
         /\ opened = 1 /\ pc # "idle" => Counted

IterInv == Shared /\ Places /\ Numbers /\ Seen /\ Total

LEMMA MatchingFinite == IsFiniteSet(Matching) /\ Cardinality(Matching) \in Nat
BY IteratorAssumption, FS_Subset, FS_CardinalityType DEF Matching

LEMMA InitInv == IteratorInit => IterInv
BY DEF IteratorInit, IterInv, Shared, Places, Numbers, Seen, Total

LEMMA StepOpen == IterInv /\ OpenIterator => IterInv'
<1>. SUFFICES ASSUME IterInv, OpenIterator PROVE IterInv'
  OBVIOUS
<1>. USE DEF IterInv, OpenIterator
<1>1. Shared'
  BY DEF Shared, Fails, Works
<1>2. Places'
  BY DEF Places
<1>3. Numbers'
  BY DEF Numbers, Fails, Works
<1>4. Seen'
  <2>1. CASE pc' = "next" /\ ahead' = Matching
    BY <2>1 DEF Seen, Visits
  <2>2. CASE UNCHANGED <<pc, ahead>>
    BY <2>2 DEF Seen, Visits
  <2>. QED BY <2>1, <2>2
<1>5. Total'
  BY MatchingFinite DEF Total, Counted, Numbers
<1>. QED BY <1>1, <1>2, <1>3, <1>4, <1>5

\* A batch is taken off the keys ahead; the last one takes them all.
LEMMA BatchTaken ==
  ASSUME IterInv, NEW b \in Batches
  PROVE  /\ b \subseteq ahead
         /\ b = {} => ahead = {}
         /\ Cardinality(b) \in Nat
         /\ Cardinality(ahead \ b) \in Nat
         /\ Cardinality(b) + Cardinality(ahead \ b) = Cardinality(ahead)
<1>1. b \subseteq ahead
  BY DEF Batches
<1>2. IsFiniteSet(ahead) /\ IsFiniteSet(b)
  BY <1>1, MatchingFinite, FS_Subset DEF IterInv, Shared
<1>3. b = {} => ahead = {}
  BY FS_EmptySet, IteratorAssumption DEF Batches
<1>4. ahead \cap b = b
  BY <1>1
<1>5. /\ IsFiniteSet(ahead \ b)
      /\ Cardinality(ahead \ b) = Cardinality(ahead) - Cardinality(b)
  BY <1>2, <1>4, FS_Difference
<1>6. Cardinality(b) \in Nat /\ Cardinality(ahead) \in Nat /\ Cardinality(ahead \ b) \in Nat
  BY <1>2, <1>5, FS_CardinalityType
<1>. QED BY <1>1, <1>3, <1>5, <1>6

LEMMA StepNext == IterInv /\ NextBatch => IterInv'
<1>. SUFFICES ASSUME IterInv, NextBatch PROVE IterInv'
  OBVIOUS
<1>1. ASSUME NEW b \in Batches, Works, pc' = "print", it_list' = b, ahead' = ahead \ b,
             end' \in IF b = {} THEN {TRUE} ELSE IF b = ahead THEN BOOLEAN ELSE {FALSE},
             total_entries' = total_entries + Cardinality(b)
      PROVE  IterInv'
  <2>. USE <1>1, BatchTaken DEF NextBatch, Works, IterInv
  <2>1. Shared'
    BY DEF Shared
  <2>2. Places'
    BY DEF Places
  <2>3. Numbers'
    <3>1. Cardinality(b) \in Nat
      OBVIOUS
    <3>2. total_entries' \in Nat
      BY <3>1 DEF Numbers
    <3>3. UNCHANGED <<wrong, faults, opened>>
      OBVIOUS
    <3>. QED BY <3>2, <3>3 DEF Numbers
  <2>4. Seen'
    <3>1. Matching \ (ahead' \cup it_list') = Matching \ (ahead \cup it_list)
      BY DEF Places
    <3>. QED BY <3>1 DEF Seen, Visits
  <2>5. Total'
    BY MatchingFinite DEF Total, Counted, Numbers
  <2>. QED BY <2>1, <2>2, <2>3, <2>4, <2>5
<1>2. CASE Fails /\ pc' = "idle" /\ UNCHANGED <<ahead, it_list, end, total_entries>>
  BY <1>2 DEF NextBatch, Fails, IterInv, Shared, Places, Numbers, Seen, Total
<1>. QED BY <1>1, <1>2 DEF NextBatch

LEMMA StepPrint == IterInv /\ PrintKey => IterInv'
<1>. SUFFICES ASSUME IterInv, NEW k \in it_list, PrintKey,
                     it_list' = it_list \ {k}, visited' = [visited EXCEPT ![k] = @ + 1],
                     wrong' = IF value' = Kind[k] THEN wrong ELSE wrong + 1,
                     \/ Works /\ value' = Kind[k] /\ pc' \in {"print", "died"}
                     \/ Fails /\ UNCHANGED <<value, pc>>
              PROVE  IterInv'
  BY DEF PrintKey
<1>. USE DEF PrintKey, IterInv
<1>1. Shared'
  BY DEF Shared
<1>2. Places'
  BY DEF Places
<1>3. Numbers'
  BY DEF Numbers, Works, Fails
<1>4. Seen'
  <2>1. k \in Matching /\ k \notin ahead /\ k \in Keys
    BY DEF Shared, Matching
  <2>2. visited' \in [Keys -> Nat]
    BY <2>1 DEF Seen
  <2>3. Matching \ (ahead' \cup it_list') = (Matching \ (ahead \cup it_list)) \cup {k}
    BY <2>1
  <2>4. Visits'
    BY <2>1, <2>2, <2>3 DEF Seen, Visits
  <2>. QED BY <2>2, <2>4 DEF Seen
<1>5. Total'
  BY DEF Total, Counted
<1>. QED BY <1>1, <1>2, <1>3, <1>4, <1>5

LEMMA StepDone == IterInv /\ DoneOrMore => IterInv'
BY DEF DoneOrMore, IterInv, Shared, Places, Numbers, Seen, Visits, Total, Counted

LEMMA Invariant == IteratorSpec => []IterInv
<1>1. IterInv /\ UNCHANGED iterVars => IterInv'
  BY DEF iterVars, IterInv, Shared, Places, Numbers, Seen, Visits, Total, Counted
<1>2. IterInv /\ [OpenIterator \/ Iterating]_iterVars => IterInv'
  BY <1>1, StepOpen, StepNext, StepPrint, StepDone DEF Iterating
<1>. QED BY <1>2, InitInv, PTL DEF IteratorSpec

----------------------------------------------------------------------------
(* The theorems.                                                           *)

\* A call of perform_iterator that gets to its end has printed every key that
\* begins with "00" once and no other, whatever the batches.
THEOREM PrintsEachKeyOnce == IteratorSpec => []EachKeyOnce
<1>1. IterInv => EachKeyOnce
  <2>. SUFFICES ASSUME IterInv, pc = "exited" PROVE EachKeyOnce
    BY DEF EachKeyOnce
  <2>1. ASSUME NEW k \in Keys
        PROVE  Matches(k) <=> FirstBytes[k][1] = "0" /\ FirstBytes[k][2] = "0"
    BY DEF Matches, bitmask, prefix_str
  <2>2. \A k \in Keys : visited[k] = IF Matches(k) THEN 1 ELSE 0
    BY DEF IterInv, Places, Seen, Visits, Matching
  <2>. QED BY <2>1, <2>2 DEF EachKeyOnce, IterInv, Seen
<1>. QED BY <1>1, Invariant, PTL

\* The total printed at the end is right unless an earlier call was cut short.
THEOREM CountsTheKeys == IteratorSpec => []TotalIsRight
<1>1. IterInv => TotalIsRight
  BY MatchingFinite, FS_EmptySet DEF IterInv, Places, Numbers, Total, Counted, TotalIsRight
<1>. QED BY <1>1, Invariant, PTL

\* No value is printed for the wrong key but by a failed read.
THEOREM ValuesAreWrongByFault == IteratorSpec => []WrongByFault
<1>1. IterInv => WrongByFault
  BY DEF IterInv, Numbers, WrongByFault
<1>. QED BY <1>1, Invariant, PTL
============================================================================
