---------------------------- MODULE CkvfsProofs ----------------------------
(***************************************************************************)
(* The inductive invariant of Ckvfs and what follows from it, for every    *)
(* value of the constants.                                                 *)
(*                                                                         *)
(* The argument has two layers.  A device is judged by its blobs, the      *)
(* function BlobsOf(s) from keys to blobs: Links says that their entries   *)
(* fit together, and three lemmas say that replacing a file's data, adding *)
(* an entry with its blob and removing an entry with its blob keep it so.  *)
(* The steps of Ckvfs are then shown to be one of the three.               *)
(***************************************************************************)
EXTENDS Ckvfs, NaturalsInduction, WellFoundedInduction, SequenceTheorems, TLAPS

----------------------------------------------------------------------------
\* The inductive invariant.  The root has no entry named HEAD, since a look at
\* "/HEAD" always finds a directory: so no path behind it leads to a file that
\* hello_create would take for a directory.
IInv ==
  /\ TypeOK
  /\ UniqueNames
  /\ NoDangling
  /\ SingleParent
  /\ mounted => ~ has_path(Blobs[root_id], HEAD)

----------------------------------------------------------------------------
(* What the operators of Blob return and preserve.                         *)

\* Every non-empty set of numbers has a least one: a proof by induction is, in
\* this module, one that no least counterexample exists.
LEMMA LeastNumber ==
  ASSUME NEW I \in SUBSET Nat, I # {}
  PROVE  \E m \in I : \A i \in I : m <= i
<1>1. PICK m \in I : \A i \in I : ~ (<<i, m>> \in OpToRel(<, Nat))
  BY WFMin, NatLessThanWellFounded
<1>2. \A i \in I : ~ (i < m)
  BY <1>1 DEF OpToRel
<1>. QED BY <1>2

LEMMA MinIsLeast ==
  ASSUME NEW I \in SUBSET Nat, I # {}
  PROVE  Min(I) \in I /\ \A i \in I : Min(I) <= i
BY LeastNumber DEF Min

\* A lookup stops at an entry of the name, or there is none.
LEMMA PositionFound ==
  ASSUME NEW b, NEW name, b.sub_items \in Seq(Item)
  PROVE  LET i == Position(b, name) IN
         /\ i \in 0..Len(b.sub_items)
         /\ i # 0 => b.sub_items[i].item_path = name
         /\ i = 0 => \A j \in 1..Len(b.sub_items) : b.sub_items[j].item_path # name
<1>. DEFINE I == {i \in 1..Len(b.sub_items) : b.sub_items[i].item_path = name}
<1>1. Position(b, name) = IF I # {} THEN Min(I) ELSE 0
  BY DEF Position, SelectInSeq
<1>2. I \in SUBSET Nat /\ Len(b.sub_items) \in Nat
  OBVIOUS
<1>. HIDE DEF I
<1>3. I # {} => Min(I) \in I
  BY <1>2, MinIsLeast
<1>. QED BY <1>1, <1>2, <1>3 DEF I

----------------------------------------------------------------------------
(* Blobs and their stored form.                                            *)

DirBlob  == [inodeid : Keys, is_dir : {ISDIR},
             sub_items : Seq(Item), data : {<< >>}]
FileBlob == [inodeid : Keys, is_dir : {NOTDIR},
             sub_items : {<< >>}, data : Seq(Bytes)]

\* What is stored of a directory or a file is read back as it was.
LEMMA RoundTrip ==
  ASSUME NEW b \in DirBlob \cup FileBlob
  PROVE  convert_to_blob(convert_to_write_blob(b)) = b
<1>1. CASE b \in DirBlob
  <2>1. SubSeq(b.sub_items, 1, Len(b.sub_items)) = b.sub_items
    BY <1>1, SubSeqFull DEF DirBlob
  <2>. QED BY <1>1, <2>1 DEF DirBlob, convert_to_blob, convert_to_write_blob, ISDIR, NOTDIR
<1>2. CASE b \in FileBlob
  <2>1. SubSeq(b.data, 1, Len(b.data)) = b.data
    BY <1>2, SubSeqFull DEF FileBlob
  <2>. QED BY <1>2, <2>1 DEF FileBlob, convert_to_blob, convert_to_write_blob, ISDIR, NOTDIR
<1>. QED BY <1>1, <1>2

----------------------------------------------------------------------------
(* Lookup and removal in a directory.                                      *)

\* A lookup returns the key of an entry of that name, or NULL if none has it.
LEMMA InodeOfEntry ==
  ASSUME NEW b, NEW name, b.sub_items \in Seq(Item)
  PROVE  LET id == get_inode_from_path(b, name) IN
         \/ /\ id = NULL
            /\ ~ has_path(b, name)
            /\ \A j \in 1..Len(b.sub_items) : b.sub_items[j].item_path # name
         \/ /\ has_path(b, name)
            /\ Position(b, name) \in 1..Len(b.sub_items)
            /\ b.sub_items[Position(b, name)].item_path = name
            /\ id = b.sub_items[Position(b, name)].inodeid
            /\ id \in Ids
<1>. DEFINE i == Position(b, name)
<1>1. /\ i \in 0..Len(b.sub_items)
      /\ i # 0 => b.sub_items[i].item_path = name
      /\ i = 0 => \A j \in 1..Len(b.sub_items) : b.sub_items[j].item_path # name
  BY PositionFound
<1>2. i # 0 => i \in 1..Len(b.sub_items) /\ b.sub_items[i] \in Item
  BY <1>1, ElementOfSeq
<1>. HIDE DEF i
<1>. QED BY <1>1, <1>2 DEF get_inode_from_path, has_path, Item, i

\* The entries before the one removed keep their place, the others move up.
LEMMA RemoveAtShifts ==
  ASSUME NEW S, NEW s \in Seq(S), NEW i \in 1..Len(s)
  PROVE  /\ RemoveAt(s, i) \in Seq(S)
         /\ Len(RemoveAt(s, i)) = Len(s) - 1
         /\ \A j \in 1..(Len(s) - 1) :
              RemoveAt(s, i)[j] = IF j < i THEN s[j] ELSE s[j+1]
<1>. DEFINE l == SubSeq(s, 1, i-1)
            r == SubSeq(s, i+1, Len(s))
<1>1. Len(s) \in Nat /\ i \in Nat /\ i >= 1 /\ i <= Len(s)
  OBVIOUS
<1>2. /\ l \in Seq(S) /\ Len(l) = i - 1
      /\ \A j \in 1..(i-1) : l[j] = s[j]
  BY <1>1
<1>3. /\ r \in Seq(S) /\ Len(r) = Len(s) - i
      /\ \A j \in 1..(Len(s) - i) : r[j] = s[i + j]
  BY <1>1
<1>4. RemoveAt(s, i) = l \o r
  BY DEF RemoveAt
<1>. HIDE DEF l, r
<1>5. /\ l \o r \in Seq(S)
      /\ Len(l \o r) = Len(s) - 1
      /\ \A j \in 1..(Len(s) - 1) :
           (l \o r)[j] = IF j <= Len(l) THEN l[j] ELSE r[j - Len(l)]
  <2>1. l \o r \in Seq(S) /\ Len(l \o r) = Len(l) + Len(r)
    BY <1>2, <1>3, ConcatProperties
  <2>2. \A j \in 1..(Len(l) + Len(r)) :
           (l \o r)[j] = IF j <= Len(l) THEN l[j] ELSE r[j - Len(l)]
    BY <1>2, <1>3
  <2>3. Len(l) + Len(r) = Len(s) - 1
    BY <1>1, <1>2, <1>3
  <2>. QED BY <2>1, <2>2, <2>3
<1>6. ASSUME NEW j \in 1..(Len(s) - 1)
      PROVE  (l \o r)[j] = IF j < i THEN s[j] ELSE s[j+1]
  <2>1. CASE j < i
    BY <2>1, <1>1, <1>2, <1>5
  <2>2. CASE ~ (j < i)
    <3>1. j - (i - 1) \in 1..(Len(s) - i) /\ i + (j - (i - 1)) = j + 1
      BY <2>2, <1>1
    <3>. QED BY <3>1, <2>2, <1>1, <1>2, <1>3, <1>5
  <2>. QED BY <2>1, <2>2
<1>. QED BY <1>4, <1>5, <1>6

\* Removing a name from a directory removes that name, and what the other
\* names lead to stays: remove_inode_from_path (blob.c) moves the entries behind up.
THEOREM RemovalSparesTheOthers ==
  ASSUME NEW b, NEW name, b.sub_items \in Seq(Item), has_path(b, name),
         b = [inodeid |-> b.inodeid, is_dir |-> b.is_dir,
              sub_items |-> b.sub_items, data |-> b.data],
         \A i, j \in 1..Len(b.sub_items) :
            b.sub_items[i].item_path = b.sub_items[j].item_path => i = j
  PROVE  LET c == remove_inode_from_path(b, name)
         IN  /\ ~ has_path(c, name)
             /\ \A n \in Names \ {name} : get_inode_from_path(c, n) = get_inode_from_path(b, n)
<1>. DEFINE A == b.sub_items
            c == remove_inode_from_path(b, name)
            R == c.sub_items
            i == Position(b, name)
<1>1. i \in 1..Len(A) /\ A[i].item_path = name
  BY PositionFound DEF has_path
<1>2. R = RemoveAt(A, i)
  BY DEF remove_inode_from_path
<1>. HIDE DEF c, i, A, R
<1>3. /\ R \in Seq(Item) /\ Len(R) = Len(A) - 1
      /\ \A j \in 1..(Len(A) - 1) : R[j] = IF j < i THEN A[j] ELSE A[j+1]
  BY <1>1, <1>2, RemoveAtShifts DEF A
<1>4. ASSUME NEW j \in 1..Len(R)
      PROVE  \E m \in 1..Len(A) \ {i} : R[j] = A[m]
  <2>1. Len(A) \in Nat /\ i \in Nat /\ j \in 1..(Len(A) - 1)
    BY <1>1, <1>3 DEF A
  <2>2. CASE j < i
    BY <1>3, <2>1, <2>2
  <2>3. CASE ~ (j < i)
    <3>1. j + 1 \in 1..Len(A) \ {i} /\ R[j] = A[j+1]
      BY <1>3, <2>1, <2>3
    <3>. QED BY <3>1
  <2>. QED BY <2>2, <2>3
<1>5. ASSUME NEW m \in 1..Len(A) \ {i}
      PROVE  \E j \in 1..Len(R) : R[j] = A[m]
  <2>1. Len(A) \in Nat /\ i \in Nat
    BY <1>1 DEF A
  <2>2. CASE m < i
    BY <1>1, <1>3, <2>1, <2>2
  <2>3. CASE ~ (m < i)
    <3>1. m - 1 \in 1..(Len(A) - 1) /\ ~ (m - 1 < i) /\ (m - 1) + 1 = m
      BY <1>1, <2>1, <2>3
    <3>2. R[m-1] = A[m]
      BY <1>3, <3>1
    <3>. QED BY <1>3, <3>1, <3>2
  <2>. QED BY <2>2, <2>3
<1>6. ~ has_path(c, name)
  <2>1. SUFFICES ASSUME has_path(c, name) PROVE FALSE
    OBVIOUS
  <2>2. Position(c, name) \in 1..Len(R) /\ R[Position(c, name)].item_path = name
    BY <1>3, <2>1, PositionFound DEF has_path, R
  <2>3. PICK m \in 1..Len(A) \ {i} : A[m].item_path = name
    BY <1>4, <2>2
  <2>. QED BY <1>1, <2>3 DEF A
<1>7. ASSUME NEW n \in Names \ {name}
      PROVE  get_inode_from_path(c, n) = get_inode_from_path(b, n)
  <2>. DEFINE j == Position(b, n)
              m == Position(c, n)
  <2>1. /\ j \in 0..Len(A) /\ (j # 0 => A[j].item_path = n)
        /\ j = 0 => \A l \in 1..Len(A) : A[l].item_path # n
    BY PositionFound DEF A
  <2>2. /\ m \in 0..Len(R) /\ (m # 0 => R[m].item_path = n)
        /\ m = 0 => \A l \in 1..Len(R) : R[l].item_path # n
    BY <1>3, PositionFound DEF R
  <2>3. /\ get_inode_from_path(b, n) = IF j = 0 THEN NULL ELSE A[j].inodeid
        /\ get_inode_from_path(c, n) = IF m = 0 THEN NULL ELSE R[m].inodeid
    BY DEF get_inode_from_path, A, R
  <2>. HIDE DEF j, m
  <2>4. CASE m = 0
    <3>1. \A l \in 1..Len(A) \ {i} : A[l].item_path # n
      BY <1>5, <2>2, <2>4
    <3>2. j = 0
      BY <1>1, <2>1, <3>1
    <3>. QED BY <2>3, <2>4, <3>2
  <2>5. CASE m # 0
    <3>1. PICK l \in 1..Len(A) \ {i} : R[m] = A[l]
      BY <1>4, <2>2, <2>5
    <3>2. j # 0 /\ A[j].item_path = A[l].item_path
      BY <2>1, <2>2, <2>5, <3>1
    <3>3. j = l
      BY <2>1, <3>1, <3>2 DEF A
    <3>. QED BY <2>3, <2>5, <3>1, <3>2, <3>3
  <2>. QED BY <2>4, <2>5
<1>. QED BY <1>6, <1>7 DEF c

----------------------------------------------------------------------------
(* The walk along a path.                                                  *)

\* A device in which the walk never leaves what is stored: the root is there,
\* and so is what every entry leads to.
Closed(s) ==
  /\ root_id \in DOMAIN s
  /\ \A k \in DOMAIN s : LET items == get_blob_from_key(s, k).sub_items IN
       /\ items \in Seq(Item)
       /\ \A i \in 1..Len(items) : items[i].inodeid \in DOMAIN s

Places(s) == DOMAIN s \cup {NULL}

LEMMA EnterStays ==
  ASSUME NEW s, Closed(s), NEW name
  PROVE  Enter(s, name) \in [Places(s) -> Places(s)]
<1>1. ASSUME NEW k \in DOMAIN s
      PROVE  get_inode_from_path(get_blob_from_key(s, k), name) \in Places(s)
  <2>. DEFINE b == get_blob_from_key(s, k)
  <2>1. b.sub_items \in Seq(Item)
    BY DEF Closed
  <2>. HIDE DEF b
  <2>2. \/ get_inode_from_path(b, name) = NULL
        \/ /\ Position(b, name) \in 1..Len(b.sub_items)
           /\ get_inode_from_path(b, name) = b.sub_items[Position(b, name)].inodeid
    BY <2>1, InodeOfEntry
  <2>. QED BY <2>2 DEF Closed, Places, b
<1>. QED BY <1>1 DEF Enter, Places

\* The equation that defines the walk has a solution: were there a shortest
\* path without one, the walk along the path without its last component would
\* have one, and Enter extends it.
LEMMA WalkExists ==
  ASSUME NEW s, Closed(s), NEW path, Len(path) \in Nat
  PROVE  \E f \in [0..Len(path) -> Places(s)] :
            \A i \in 0..Len(path) :
               f[i] = IF i = 0 THEN root_id ELSE Enter(s, path[i])[f[i-1]]
<1>. DEFINE Walk(n, f) ==
              \A i \in 0..n : f[i] = IF i = 0 THEN root_id ELSE Enter(s, path[i])[f[i-1]]
            Has(n) == \E f \in [0..n -> Places(s)] : Walk(n, f)
            Lacking == {n \in Nat : ~ Has(n)}
<1>1. SUFFICES Lacking = {}
  BY Zenon
<1>2. SUFFICES ASSUME Lacking # {}
               PROVE  FALSE
  OBVIOUS
<1>3. PICK n \in Lacking : \A m \in Lacking : n <= m
  BY <1>2, LeastNumber
<1>4. Has(0)
  <2>. DEFINE f == [i \in 0..0 |-> root_id]
  <2>1. f \in [0..0 -> Places(s)]
    BY DEF Closed, Places
  <2>2. Walk(0, f)
    OBVIOUS
  <2>. QED BY <2>1, <2>2
<1>5. n \in Nat /\ n # 0 /\ n - 1 \in Nat /\ Has(n - 1)
  <2>. HIDE DEF Has
  <2>1. n \in Nat /\ n # 0 /\ n - 1 \in Nat
    BY <1>3, <1>4
  <2>2. n - 1 \notin Lacking
    BY <2>1, <1>3
  <2>. QED BY <2>1, <2>2
<1>6. PICK g \in [0..(n-1) -> Places(s)] : Walk(n-1, g)
  BY <1>5
<1>. DEFINE f == [i \in 0..n |-> IF i = n THEN Enter(s, path[n])[g[n-1]] ELSE g[i]]
<1>7. f \in [0..n -> Places(s)]
  <2>1. Enter(s, path[n])[g[n-1]] \in Places(s)
    BY <1>5, EnterStays
  <2>. QED BY <2>1, <1>5
<1>8. Walk(n, f)
  BY <1>5, <1>6
<1>9. Has(n)
  BY <1>7, <1>8
<1>. QED BY <1>3, <1>9

\* A path leads to a stored blob or nowhere.
LEMMA WalkStays ==
  ASSUME NEW s, Closed(s), NEW path, Len(path) \in Nat
  PROVE  go_through_inodes(s, path) \in Places(s)
<1>. DEFINE Solves(f) ==
       f = [i \in 0..Len(path) |->
              IF i = 0 THEN root_id ELSE Enter(s, path[i])[f[i-1]]]
<1>1. PICK g \in [0..Len(path) -> Places(s)] :
            \A i \in 0..Len(path) :
               g[i] = IF i = 0 THEN root_id ELSE Enter(s, path[i])[g[i-1]]
  BY WalkExists
<1>2. Solves(g)
  BY <1>1
<1>. DEFINE w == CHOOSE f : Solves(f)
            Astray == {i \in 0..Len(path) : w[i] \notin Places(s)}
<1>3. /\ go_through_inodes(s, path) = w[Len(path)]
      /\ \A i \in 0..Len(path) :
            w[i] = IF i = 0 THEN root_id ELSE Enter(s, path[i])[w[i-1]]
  <2>1. Solves(w)
    BY <1>2
  <2>2. go_through_inodes(s, path) = w[Len(path)]
    BY DEF go_through_inodes
  <2>. QED BY <2>1, <2>2
<1>. HIDE DEF w
<1>4. ASSUME Astray # {}
      PROVE  FALSE
  <2>. Astray \in SUBSET Nat
    OBVIOUS
  <2>1. PICK m \in Astray : \A i \in Astray : m <= i
    <3>. HIDE DEF Astray
    <3>. QED BY <1>4, LeastNumber
  <2>2. m # 0
    BY <2>1, <1>3 DEF Closed, Places
  <2>3. w[m-1] \in Places(s)
    BY <2>1, <2>2
  <2>4. Enter(s, path[m])[w[m-1]] \in Places(s)
    BY <2>3, EnterStays
  <2>. QED BY <2>1, <2>2, <2>4, <1>3
<1>. QED BY <1>3, <1>4

\* The empty path leads to the root.
LEMMA WalkOfRoot ==
  ASSUME NEW s
  PROVE  go_through_inodes(s, << >>) = root_id
<1>. DEFINE Solves(f) == f = [i \in 0..Len(<< >>) |->
                                IF i = 0 THEN root_id ELSE Enter(s, << >>[i])[f[i-1]]]
            g == [i \in 0..0 |-> root_id]
            w == CHOOSE f : Solves(f)
<1>1. Len(<< >>) = 0 /\ \A i \in 0..0 : i = 0
  OBVIOUS
<1>2. Solves(g)
  BY <1>1
<1>3. Solves(w)
  BY <1>2
<1>4. go_through_inodes(s, << >>) = w[0]
  BY <1>1 DEF go_through_inodes
<1>. HIDE DEF w
<1>. QED BY <1>1, <1>3, <1>4

LEMMA FrontLast ==
  ASSUME NEW S, NEW path \in Seq(S), path # << >>
  PROVE  /\ Len(path) \in Nat /\ Len(path) # 0
         /\ Front(path) \in Seq(S) /\ Len(Front(path)) = Len(path) - 1
         /\ \A i \in 1..(Len(path) - 1) : Front(path)[i] = path[i]
         /\ Last(path) = path[Len(path)] /\ Last(path) \in S
<1>. DEFINE n == Len(path)
<1>1. n \in Nat /\ n # 0 /\ n \in 1..n /\ n - 1 \in Nat
  OBVIOUS
<1>2. /\ Front(path) \in Seq(S) /\ Len(Front(path)) = n - 1
      /\ \A i \in 1..(n-1) : Front(path)[i] = path[i]
  <2>1. /\ 1 \in Int /\ n - 1 \in Int
        /\ \A i \in 1..(n-1) : path[i] \in S
    BY <1>1, ElementOfSeq
  <2>2. Front(path) = SubSeq(path, 1, n-1)
    BY DEF Front
  <2>. HIDE DEF n
  <2>3. /\ SubSeq(path, 1, n-1) \in Seq(S)
        /\ Len(SubSeq(path, 1, n-1)) = IF 1 <= n-1 THEN (n-1)-1+1 ELSE 0
        /\ \A i \in 1..((n-1)-1+1) : SubSeq(path, 1, n-1)[i] = path[1+i-1]
    BY <2>1, SubSeqProperties
  <2>4. (n-1)-1+1 = n-1 /\ (~ 1 <= n-1 => n-1 = 0) /\ \A i \in 1..(n-1) : 1+i-1 = i
    BY <1>1
  <2>. QED BY <1>1, <2>2, <2>3, <2>4
<1>3. Last(path) = path[n] /\ path[n] \in S
  BY <1>1, ElementOfSeq DEF Last
<1>. QED BY <1>1, <1>2, <1>3

\* The path of one component.
LEMMA Single ==
  ASSUME NEW S, NEW path \in Seq(S), path # << >>
  PROVE  Front(path) = << >> <=> path = <<Last(path)>>
<1>1. CASE Front(path) = << >>
  <2>1. Len(path) \in Nat /\ Len(path) - 1 = 0 /\ Last(path) = path[Len(path)]
    BY <1>1, FrontLast
  <2>2. Len(path) = 1
    BY <2>1
  <2>3. path = <<path[1]>>
    BY <2>2
  <2>. QED BY <1>1, <2>1, <2>2, <2>3
<1>2. CASE path = <<Last(path)>>
  <2>1. Len(path) = 1
    BY <1>2
  <2>2. Front(path) \in Seq(S) /\ Len(Front(path)) = 0
    BY <2>1, FrontLast
  <2>. QED BY <1>2, <2>2
<1>. QED BY <1>1, <1>2

\* A set of sequences that has the empty one, and each whose front it has, has
\* all: a shortest one that is not there has its front there.
LEMMA PathInduction ==
  ASSUME NEW S, NEW P, << >> \in P,
         \A p \in Seq(S) : p # << >> /\ Front(p) \in P => p \in P
  PROVE  \A p \in Seq(S) : p \in P
<1>. DEFINE Lengths == {n \in Nat : \E p \in Seq(S) : Len(p) = n /\ p \notin P}
<1>1. SUFFICES ASSUME NEW q \in Seq(S), q \notin P
               PROVE  FALSE
  OBVIOUS
<1>2. Lengths # {}
  <2>1. Len(q) \in Nat
    OBVIOUS
  <2>2. Len(q) \in Lengths
    BY <1>1, <2>1
  <2>. QED BY <2>2
<1>3. PICK n \in Lengths : \A m \in Lengths : n <= m
  <2>1. Lengths \in SUBSET Nat
    OBVIOUS
  <2>. HIDE DEF Lengths
  <2>. QED BY <1>2, <2>1, LeastNumber
<1>4. PICK p \in Seq(S) : Len(p) = n /\ p \notin P
  OBVIOUS
<1>5. p # << >>
  BY <1>4
<1>6. Front(p) \in Seq(S) /\ Len(Front(p)) = n - 1 /\ n - 1 \in Nat
  <2>1. Len(p) \in Nat /\ Len(p) # 0 /\ Front(p) \in Seq(S) /\ Len(Front(p)) = Len(p) - 1
    BY <1>5, FrontLast
  <2>. QED BY <1>4, <2>1
<1>7. Front(p) \in P
  <2>1. Front(p) \notin P => n - 1 \in Lengths
    BY <1>6
  <2>2. ~ (n <= n - 1)
    OBVIOUS
  <2>. QED BY <1>3, <2>1, <2>2
<1>. QED BY <1>4, <1>5, <1>7

\* The walk of a path is that of the path without its last component, and one
\* step more.
LEMMA WalkExtends ==
  ASSUME NEW s, Closed(s), NEW S, NEW path \in Seq(S), path # << >>
  PROVE  go_through_inodes(s, path)
           = Enter(s, Last(path))[go_through_inodes(s, Front(path))]
<1>. DEFINE n == Len(path)
            Walked(p, f) == f = [i \in 0..Len(p) |->
                                   IF i = 0 THEN root_id ELSE Enter(s, p[i])[f[i-1]]]
            v == CHOOSE f : Walked(path, f)
            w == CHOOSE f : Walked(Front(path), f)
            Differ == {i \in 0..(n-1) : v[i] # w[i]}
<1>1. /\ n \in Nat /\ n # 0 /\ n - 1 \in Nat
      /\ Front(path) \in Seq(S) /\ Len(Front(path)) = n - 1
      /\ \A i \in 1..(n-1) : Front(path)[i] = path[i]
      /\ Last(path) = path[n]
  BY DEF Front, Last
<1>2. Walked(path, v)
  <2>1. PICK g \in [0..n -> Places(s)] :
          \A i \in 0..n : g[i] = IF i = 0 THEN root_id ELSE Enter(s, path[i])[g[i-1]]
    BY <1>1, WalkExists, SMTT(30)
  <2>2. Walked(path, g)
    BY <2>1
  <2>. QED BY <2>2
<1>3. Walked(Front(path), w)
  <2>1. PICK g \in [0..(n-1) -> Places(s)] :
          \A i \in 0..(n-1) :
             g[i] = IF i = 0 THEN root_id ELSE Enter(s, Front(path)[i])[g[i-1]]
    BY <1>1, WalkExists, SMTT(30)
  <2>2. Walked(Front(path), g)
    BY <1>1, <2>1
  <2>. QED BY <2>2
<1>4. /\ go_through_inodes(s, path) = v[n]
      /\ go_through_inodes(s, Front(path)) = w[n-1]
  BY <1>1 DEF go_through_inodes
<1>. HIDE DEF v, w
<1>5. /\ \A i \in 0..n : v[i] = IF i = 0 THEN root_id ELSE Enter(s, path[i])[v[i-1]]
      /\ \A i \in 0..(n-1) : w[i] = IF i = 0 THEN root_id ELSE Enter(s, path[i])[w[i-1]]
  <2>1. \A i \in 0..n : v[i] = IF i = 0 THEN root_id ELSE Enter(s, path[i])[v[i-1]]
    BY <1>2
  <2>2. \A i \in 0..(n-1) :
           w[i] = IF i = 0 THEN root_id ELSE Enter(s, Front(path)[i])[w[i-1]]
    BY <1>1, <1>3
  <2>3. \A i \in 0..(n-1) : i # 0 => Front(path)[i] = path[i]
    BY <1>1
  <2>. QED BY <2>1, <2>2, <2>3
<1>6. ASSUME Differ # {}
      PROVE  FALSE
  <2>. Differ \in SUBSET Nat
    OBVIOUS
  <2>1. PICK m \in Differ : \A i \in Differ : m <= i
    <3>. HIDE DEF Differ
    <3>. QED BY <1>6, LeastNumber
  <2>2. m # 0 /\ m - 1 \in 0..(n-1) /\ m - 1 \notin Differ
    BY <2>1, <1>1, <1>5
  <2>. QED BY <2>1, <2>2, <1>1, <1>5
<1>7. v[n-1] = w[n-1]
  <2>1. n - 1 \in 0..(n-1)
    BY <1>1
  <2>. QED BY <1>6, <2>1
<1>8. go_through_inodes(s, path) = v[n] /\ go_through_inodes(s, Front(path)) = w[n-1]
  BY <1>1, <1>4
<1>9. v[n] = Enter(s, path[n])[v[n-1]]
  BY <1>1, <1>5
<1>. HIDE DEF v, w
<1>. QED BY <1>1, <1>7, <1>8, <1>9

----------------------------------------------------------------------------
(* Devices and their blobs.                                                *)

BlobsOf(s) == [k \in DOMAIN s |-> get_blob_from_key(s, k)]

Stored(s) == /\ DOMAIN s \subseteq Keys
             /\ \A k \in DOMAIN s : WellStored(k, s[k])

\* A blob that can be stored under k.
GoodBlob(k, b) == /\ b \in DirBlob \cup FileBlob
                  /\ b.inodeid = k
                  /\ Len(b.sub_items) <= MAX_ITEMS

\* The entries of a directory have different names,
UniqueEntries(B) ==
  \A k \in DOMAIN B : \A i, j \in 1..Len(B[k].sub_items) :
     B[k].sub_items[i].item_path = B[k].sub_items[j].item_path => i = j

\* every entry leads to a blob of its kind,
EntriesLead(B) ==
  \A k \in DOMAIN B : \A i \in 1..Len(B[k].sub_items) :
     /\ B[k].sub_items[i].inodeid \in DOMAIN B
     /\ B[k].sub_items[i].is_dir <=> B[B[k].sub_items[i].inodeid].is_dir = ISDIR

\* and no two entries lead to the same blob.
OneEntryEach(B) ==
  \A k1, k2 \in DOMAIN B :
     \A i \in 1..Len(B[k1].sub_items), j \in 1..Len(B[k2].sub_items) :
        B[k1].sub_items[i].inodeid = B[k2].sub_items[j].inodeid => k1 = k2 /\ i = j

Links(B) == UniqueEntries(B) /\ EntriesLead(B) /\ OneEntryEach(B)

Rooted(B) == /\ root_id \in DOMAIN B
             /\ B[root_id].is_dir = ISDIR
             /\ ~ has_path(B[root_id], HEAD)

Replied == /\ reply.path \in Paths
           /\ reply.err \in {"OK", "ENOENT", "ENOTDIR", "SIGSEGV"}
           /\ reply.n \in Nat

\* The inductive invariant in the terms of this module.
LEMMA InvariantOfBlobs ==
  IInv <=> /\ Stored(store)
           /\ Links(BlobsOf(store))
           /\ mounted \in BOOLEAN
           /\ mounted => Rooted(BlobsOf(store))
           /\ Replied
<1>1. Blobs = BlobsOf(store) /\ DOMAIN BlobsOf(store) = DOMAIN store
  BY DEF Blobs, BlobsOf
<1>2. TypeOK <=> Stored(store) /\ mounted \in BOOLEAN /\ Replied
  BY DEF TypeOK, Stored, Replied
<1>3. UniqueNames <=> UniqueEntries(BlobsOf(store))
  BY <1>1 DEF UniqueNames, UniqueEntries
<1>5. SingleParent <=> OneEntryEach(BlobsOf(store))
  BY <1>1 DEF SingleParent, OneEntryEach
<1>4. NoDangling <=> /\ EntriesLead(BlobsOf(store))
                     /\ mounted => /\ root_id \in DOMAIN BlobsOf(store)
                                   /\ BlobsOf(store)[root_id].is_dir = ISDIR
  BY <1>1, Zenon DEF NoDangling, EntriesLead
<1>. QED BY <1>1, <1>2, <1>3, <1>4, <1>5 DEF IInv, Links, Rooted

----------------------------------------------------------------------------
(* Reading and writing one blob.                                           *)

LEMMA ReadBack ==
  ASSUME NEW k \in Keys, NEW w, WellStored(k, w)
  PROVE  GoodBlob(k, convert_to_blob(w))
<1>1. CASE /\ w.is_dir = ISDIR /\ w.data \in Seq(Item)
           /\ w.num_items = Len(w.data) /\ Len(w.data) <= MAX_ITEMS
  <2>1. SubSeq(w.data, 1, w.num_items) = w.data
    BY <1>1, SubSeqFull
  <2>. QED BY <1>1, <2>1, BlobAssumption
           DEF WellStored, GoodBlob, convert_to_blob, DirBlob
<1>2. CASE /\ w.is_dir = NOTDIR /\ w.data \in Seq(Bytes)
           /\ w.size = Len(w.data)
  <2>1. SubSeq(w.data, 1, w.size) = w.data
    BY <1>2, SubSeqFull
  <2>. QED BY <1>2, <2>1, BlobAssumption
           DEF WellStored, GoodBlob, convert_to_blob, FileBlob, ISDIR, NOTDIR
<1>. QED BY <1>1, <1>2 DEF WellStored

LEMMA Writable ==
  ASSUME NEW k, NEW b, GoodBlob(k, b)
  PROVE  WellStored(k, convert_to_write_blob(b))
<1>1. CASE b \in DirBlob
  BY <1>1 DEF GoodBlob, WellStored, convert_to_write_blob, DirBlob, ISDIR, NOTDIR
<1>2. CASE b \in FileBlob
  BY <1>2 DEF GoodBlob, WellStored, convert_to_write_blob, FileBlob, ISDIR, NOTDIR
<1>. QED BY <1>1, <1>2 DEF GoodBlob

LEMMA StoredBlobs ==
  ASSUME NEW s, Stored(s)
  PROVE  /\ DOMAIN BlobsOf(s) = DOMAIN s
         /\ \A k \in DOMAIN s : /\ BlobsOf(s)[k] = get_blob_from_key(s, k)
                                /\ GoodBlob(k, BlobsOf(s)[k])
BY ReadBack DEF Stored, BlobsOf, get_blob_from_key, perform_read

\* Between s and t, only the blob stored under k changes: to b.
Written(s, k, b, t) ==
  /\ Stored(t)
  /\ DOMAIN t = DOMAIN s \cup {k}
  /\ DOMAIN BlobsOf(t) = DOMAIN s \cup {k}
  /\ BlobsOf(t)[k] = b
  /\ \A x \in DOMAIN s \ {k} : BlobsOf(t)[x] = BlobsOf(s)[x]

\* Writing a good blob changes that blob only.
LEMMA WriteBlobOf ==
  ASSUME NEW s, Stored(s), NEW k, k \in Keys, NEW b, GoodBlob(k, b)
  PROVE  Written(s, k, b, write_to_dict(s, k, b))
<1>. DEFINE t == write_to_dict(s, k, b)
<1>1. /\ DOMAIN t = DOMAIN s \cup {k}
      /\ \A x \in DOMAIN t : t[x] = IF x = k THEN convert_to_write_blob(b) ELSE s[x]
  BY DEF write_to_dict, perform_insertion
<1>. HIDE DEF t
<1>2. Stored(t)
  BY <1>1, Writable DEF Stored
<1>3. convert_to_blob(convert_to_write_blob(b)) = b
  BY RoundTrip DEF GoodBlob
<1>4. \A x \in DOMAIN t : get_blob_from_key(t, x) = IF x = k THEN b ELSE BlobsOf(s)[x]
  BY <1>1, <1>3 DEF get_blob_from_key, perform_read, BlobsOf
<1>5. /\ DOMAIN BlobsOf(t) = DOMAIN s \cup {k}
      /\ BlobsOf(t)[k] = b
      /\ \A x \in DOMAIN s \ {k} : BlobsOf(t)[x] = BlobsOf(s)[x]
  <2>1. DOMAIN BlobsOf(t) = DOMAIN t /\ \A x \in DOMAIN t : BlobsOf(t)[x] = get_blob_from_key(t, x)
    BY DEF BlobsOf
  <2>. QED BY <2>1, <1>1, <1>4
<1>. QED BY <1>1, <1>2, <1>5 DEF t, Written

LEMMA DeleteBlobOf ==
  ASSUME NEW s, Stored(s), NEW k
  PROVE  /\ Stored(perform_delete(s, k))
         /\ DOMAIN perform_delete(s, k) = DOMAIN s \ {k}
         /\ \A x \in DOMAIN s \ {k} : BlobsOf(perform_delete(s, k))[x] = BlobsOf(s)[x]
BY DEF Stored, perform_delete, BlobsOf, get_blob_from_key, perform_read

----------------------------------------------------------------------------
(* The three changes of the blobs.                                         *)

\* A blob is replaced by one with the same entries and kind.
LEMMA LinksReplace ==
  ASSUME NEW B, Links(B), NEW k \in DOMAIN B,
         NEW b, b.sub_items = B[k].sub_items, b.is_dir = B[k].is_dir,
         NEW C, DOMAIN C = DOMAIN B, C[k] = b, \A x \in DOMAIN B \ {k} : C[x] = B[x]
  PROVE  Links(C)
<1>1. \A x \in DOMAIN B : C[x].sub_items = B[x].sub_items /\ C[x].is_dir = B[x].is_dir
  OBVIOUS
<1>2. DOMAIN C = DOMAIN B
  OBVIOUS
<1>3. UniqueEntries(C)
  BY <1>1, <1>2 DEF Links, UniqueEntries
<1>4. EntriesLead(C)
  BY <1>1, <1>2 DEF Links, EntriesLead
<1>5. OneEntryEach(C)
  BY <1>1, <1>2 DEF Links, OneEntryEach
<1>. QED BY <1>3, <1>4, <1>5 DEF Links

\* From B to C, the directory d gets item, of a new name, and item's new key a
\* blob of no entries.
Added(B, d, item, C) ==
  /\ d \in DOMAIN B /\ B[d].sub_items \in Seq(Item)
  /\ item \in Item /\ item.inodeid \notin DOMAIN B
  /\ \A j \in 1..Len(B[d].sub_items) : B[d].sub_items[j].item_path # item.item_path
  /\ DOMAIN C = DOMAIN B \cup {item.inodeid}
  /\ C[d].sub_items = Append(B[d].sub_items, item) /\ C[d].is_dir = B[d].is_dir
  /\ C[item.inodeid].sub_items = << >>
  /\ C[item.inodeid].is_dir = ISDIR <=> item.is_dir
  /\ \A x \in DOMAIN B \ {d} : C[x] = B[x]

LEMMA LinksAdd ==
  ASSUME NEW B, Links(B), NEW d, NEW item, NEW C, Added(B, d, item, C)
  PROVE  Links(C)
<1>. DEFINE id  == item.inodeid
            l   == Len(B[d].sub_items)
            dir == C[d]
            new == C[id]
<1>0. d \in DOMAIN B
  BY DEF Added
<1>1. /\ l \in Nat
      /\ Len(dir.sub_items) = l + 1
      /\ \A i \in 1..l : dir.sub_items[i] = B[d].sub_items[i]
      /\ dir.sub_items[l+1] = item
  BY DEF Added
<1>2. /\ DOMAIN C = DOMAIN B \cup {id}
      /\ id \notin DOMAIN B
      /\ Len(C[id].sub_items) = 0
      /\ C[id].is_dir = ISDIR <=> item.is_dir
      /\ \A x \in DOMAIN B \ {d} : C[x] = B[x]
      /\ \A x \in DOMAIN B : C[x].is_dir = B[x].is_dir
      /\ \A j \in 1..l : B[d].sub_items[j].item_path # item.item_path
  BY DEF Added
<1>. HIDE DEF id, l
\* Every entry of C is an entry of B, at its place, or the new one.
<1>3. ASSUME NEW k \in DOMAIN C, NEW i \in 1..Len(C[k].sub_items)
      PROVE  /\ k \in DOMAIN B
             /\ \/ /\ i \in 1..Len(B[k].sub_items)
                   /\ C[k].sub_items[i] = B[k].sub_items[i]
                \/ /\ k = d /\ i = l + 1
                   /\ C[k].sub_items[i] = item
  <2>1. CASE k = id
    <3>1. i \in 1..0
      BY <2>1, <1>2
    <3>. QED BY <3>1
  <2>2. CASE k = d
    <3>1. i \in 1..(l+1)
      BY <2>2, <1>1
    <3>2. CASE i = l + 1
      BY <2>2, <3>2, <1>0, <1>1
    <3>3. CASE i \in 1..l
      BY <2>2, <3>3, <1>0, <1>1 DEF l
    <3>. QED BY <3>1, <3>2, <3>3, <1>1
  <2>3. CASE k \in DOMAIN B \ {d}
    BY <2>3, <1>2
  <2>. QED BY <2>1, <2>2, <2>3, <1>2
<1>. HIDE DEF dir, new
<1>4. ASSUME NEW k \in DOMAIN C, NEW i \in 1..Len(C[k].sub_items),
             NEW j \in 1..Len(C[k].sub_items),
             C[k].sub_items[i].item_path = C[k].sub_items[j].item_path
      PROVE  i = j
  <2>. DEFINE Old(m) == /\ m \in 1..Len(B[k].sub_items)
                        /\ C[k].sub_items[m] = B[k].sub_items[m]
              New(m) == k = d /\ m = l + 1 /\ C[k].sub_items[m] = item
  <2>1. k \in DOMAIN B /\ (Old(i) \/ New(i)) /\ (Old(j) \/ New(j))
    BY <1>3
  <2>2. CASE Old(i) /\ Old(j)
    BY <1>4, <2>1, <2>2 DEF Links, UniqueEntries
  <2>3. CASE New(i) /\ Old(j)
    BY <1>2, <1>4, <2>3 DEF l
  <2>4. CASE Old(i) /\ New(j)
    BY <1>2, <1>4, <2>4 DEF l
  <2>. QED BY <2>1, <2>2, <2>3, <2>4
<1>5. ASSUME NEW k \in DOMAIN C, NEW i \in 1..Len(C[k].sub_items)
      PROVE  /\ C[k].sub_items[i].inodeid \in DOMAIN C
             /\ C[k].sub_items[i].is_dir <=> C[C[k].sub_items[i].inodeid].is_dir = ISDIR
  <2>1. CASE C[k].sub_items[i] = item
    BY <2>1, <1>2 DEF id
  <2>2. CASE i \in 1..Len(B[k].sub_items) /\ C[k].sub_items[i] = B[k].sub_items[i]
    <3>. DEFINE x == B[k].sub_items[i].inodeid
    <3>1. x \in DOMAIN B /\ (B[k].sub_items[i].is_dir <=> B[x].is_dir = ISDIR)
      BY <1>3, <2>2 DEF Links, EntriesLead
    <3>. HIDE DEF x
    <3>2. x \in DOMAIN C /\ C[x].is_dir = B[x].is_dir
      BY <3>1, <1>2
    <3>. QED BY <2>2, <3>1, <3>2 DEF x
  <2>. QED BY <1>3, <2>1, <2>2
<1>6. ASSUME NEW k1 \in DOMAIN C, NEW k2 \in DOMAIN C,
             NEW i \in 1..Len(C[k1].sub_items), NEW j \in 1..Len(C[k2].sub_items),
             C[k1].sub_items[i].inodeid = C[k2].sub_items[j].inodeid
      PROVE  k1 = k2 /\ i = j
  <2>. DEFINE Old(k, m) == /\ m \in 1..Len(B[k].sub_items)
                           /\ C[k].sub_items[m] = B[k].sub_items[m]
              New(k, m) == k = d /\ m = l + 1 /\ C[k].sub_items[m] = item
  <2>1. k1 \in DOMAIN B /\ (Old(k1, i) \/ New(k1, i))
    BY <1>3
  <2>2. k2 \in DOMAIN B /\ (Old(k2, j) \/ New(k2, j))
    BY <1>3
  <2>3. CASE Old(k1, i) /\ Old(k2, j)
    BY <1>6, <2>1, <2>2, <2>3 DEF Links, OneEntryEach
  <2>4. CASE New(k1, i) /\ Old(k2, j)
    <3>1. B[k2].sub_items[j].inodeid \in DOMAIN B
      BY <2>2, <2>4 DEF Links, EntriesLead
    <3>. QED BY <1>2, <1>6, <2>4, <3>1 DEF id
  <2>5. CASE Old(k1, i) /\ New(k2, j)
    <3>1. B[k1].sub_items[i].inodeid \in DOMAIN B
      BY <2>1, <2>5 DEF Links, EntriesLead
    <3>. QED BY <1>2, <1>6, <2>5, <3>1 DEF id
  <2>. QED BY <2>1, <2>2, <2>3, <2>4, <2>5
<1>7. UniqueEntries(C)
  BY <1>4 DEF UniqueEntries
<1>8. EntriesLead(C)
  BY <1>5 DEF EntriesLead
<1>9. OneEntryEach(C)
  BY <1>6 DEF OneEntryEach
<1>. QED BY <1>7, <1>8, <1>9 DEF Links

\* From B to C, the directory d loses its n-th entry, and the device the blob
\* that one leads to, unless it is d itself.
Removed(B, d, n, C) ==
  /\ d \in DOMAIN B /\ B[d].sub_items \in Seq(Item)
  /\ n \in 1..Len(B[d].sub_items)
  /\ C[d].sub_items = RemoveAt(B[d].sub_items, n) /\ C[d].is_dir = B[d].is_dir
  /\ DOMAIN C = (DOMAIN B \ {B[d].sub_items[n].inodeid}) \cup {d}
  /\ \A x \in DOMAIN C \ {d} : C[x] = B[x]

LEMMA LinksRemove ==
  ASSUME NEW B, Links(B), NEW d, NEW n, NEW C, Removed(B, d, n, C)
  PROVE  Links(C)
<1>. DEFINE l   == Len(B[d].sub_items)
            id  == B[d].sub_items[n].inodeid
            dir == C[d]
            Old(i) == IF i < n THEN i ELSE i + 1
<1>1. /\ l \in Nat /\ n \in Nat
      /\ Len(dir.sub_items) = l - 1
      /\ \A i \in 1..(l-1) : dir.sub_items[i] = B[d].sub_items[Old(i)]
  <2>1. /\ Len(RemoveAt(B[d].sub_items, n)) = l - 1
        /\ \A i \in 1..(l-1) :
             RemoveAt(B[d].sub_items, n)[i]
               = IF i < n THEN B[d].sub_items[i] ELSE B[d].sub_items[i+1]
    BY RemoveAtShifts DEF Removed
  <2>. QED BY <2>1 DEF Removed
<1>2. /\ d \in DOMAIN B /\ n \in 1..l
      /\ DOMAIN C = (DOMAIN B \ {id}) \cup {d}
      /\ \A x \in DOMAIN C \ {d} : C[x] = B[x]
      /\ \A x \in DOMAIN C : x \in DOMAIN B /\ C[x].is_dir = B[x].is_dir
  BY DEF Removed
\* Every entry of C is an entry of B, and not the n-th of d.
<1>. DEFINE Was(k, i) == IF k = d THEN Old(i) ELSE i
<1>3. ASSUME NEW k \in DOMAIN C, NEW i \in 1..Len(C[k].sub_items)
      PROVE  /\ k \in DOMAIN B
             /\ Was(k, i) \in 1..Len(B[k].sub_items)
             /\ C[k].sub_items[i] = B[k].sub_items[Was(k, i)]
             /\ ~ (k = d /\ Was(k, i) = n)
  <2>1. CASE k = d
    BY <1>1, <1>2, <2>1
  <2>2. CASE k # d
    BY <1>1, <1>2, <2>2
  <2>. QED BY <2>1, <2>2
<1>4. ASSUME NEW k, NEW i \in Nat, NEW j \in Nat, Was(k, i) = Was(k, j)
      PROVE  i = j
  BY <1>1, <1>4
<1>5. ASSUME NEW k \in DOMAIN C, NEW i \in 1..Len(C[k].sub_items)
      PROVE  i \in Nat
  OBVIOUS
<1>. HIDE DEF Was, l, dir
<1>6. ASSUME NEW k \in DOMAIN C, NEW i \in 1..Len(C[k].sub_items),
             NEW j \in 1..Len(C[k].sub_items),
             C[k].sub_items[i].item_path = C[k].sub_items[j].item_path
      PROVE  i = j
  <2>1. /\ k \in DOMAIN B
        /\ Was(k, i) \in 1..Len(B[k].sub_items)
        /\ Was(k, j) \in 1..Len(B[k].sub_items)
        /\ B[k].sub_items[Was(k, i)].item_path = B[k].sub_items[Was(k, j)].item_path
    BY <1>3, <1>6
  <2>2. Was(k, i) = Was(k, j)
    BY <2>1 DEF Links, UniqueEntries
  <2>. QED BY <2>2, <1>4, <1>5
<1>7. ASSUME NEW k \in DOMAIN C, NEW i \in 1..Len(C[k].sub_items)
      PROVE  /\ C[k].sub_items[i].inodeid \in DOMAIN C
             /\ C[k].sub_items[i].is_dir <=> C[C[k].sub_items[i].inodeid].is_dir = ISDIR
  <2>. DEFINE was == B[k].sub_items[Was(k, i)]
              x   == was.inodeid
  <2>1. /\ k \in DOMAIN B /\ Was(k, i) \in 1..Len(B[k].sub_items)
        /\ C[k].sub_items[i] = was /\ ~ (k = d /\ Was(k, i) = n)
    BY <1>3
  <2>2. x \in DOMAIN B /\ (was.is_dir <=> B[x].is_dir = ISDIR)
    BY <2>1 DEF Links, EntriesLead
  <2>3. x # id
    BY <2>1, <1>2 DEF Links, OneEntryEach, l
  <2>. HIDE DEF x
  <2>4. x \in DOMAIN C /\ C[x].is_dir = B[x].is_dir
    BY <2>2, <2>3, <1>2
  <2>. QED BY <2>1, <2>2, <2>4 DEF x
<1>8. ASSUME NEW k1 \in DOMAIN C, NEW k2 \in DOMAIN C,
             NEW i \in 1..Len(C[k1].sub_items), NEW j \in 1..Len(C[k2].sub_items),
             C[k1].sub_items[i].inodeid = C[k2].sub_items[j].inodeid
      PROVE  k1 = k2 /\ i = j
  <2>1. /\ k1 \in DOMAIN B /\ Was(k1, i) \in 1..Len(B[k1].sub_items)
        /\ k2 \in DOMAIN B /\ Was(k2, j) \in 1..Len(B[k2].sub_items)
        /\ B[k1].sub_items[Was(k1, i)].inodeid = B[k2].sub_items[Was(k2, j)].inodeid
    BY <1>3, <1>8
  <2>2. k1 = k2 /\ Was(k1, i) = Was(k2, j)
    BY <2>1 DEF Links, OneEntryEach
  <2>. QED BY <2>2, <1>4, <1>5
<1>9. UniqueEntries(C)
  BY <1>6 DEF UniqueEntries
<1>10. EntriesLead(C)
  BY <1>7 DEF EntriesLead
<1>11. OneEntryEach(C)
  BY <1>8 DEF OneEntryEach
<1>. QED BY <1>9, <1>10, <1>11 DEF Links

----------------------------------------------------------------------------
(* The same changes, of a device.                                          *)

Sound(s) == Stored(s) /\ Links(BlobsOf(s)) /\ Rooted(BlobsOf(s))

LEMMA HasPath ==
  ASSUME NEW b, NEW name, b.sub_items \in Seq(Item)
  PROVE  has_path(b, name)
           <=> \E j \in 1..Len(b.sub_items) : b.sub_items[j].item_path = name
BY PositionFound DEF has_path

LEMMA GoodBlobItems ==
  ASSUME NEW k, NEW b, GoodBlob(k, b)
  PROVE  /\ b.sub_items \in Seq(Item)
         /\ b.data \in Seq(Bytes)
         /\ b.is_dir \in {ISDIR, NOTDIR}
         /\ b.is_dir = ISDIR => b \in DirBlob
         /\ b.is_dir = NOTDIR => b \in FileBlob
<1>1. << >> \in Seq(Item) /\ << >> \in Seq(Bytes)
  OBVIOUS
<1>2. CASE b \in DirBlob
  <2>1. b.is_dir = ISDIR /\ b.sub_items \in Seq(Item) /\ b.data = << >>
    BY <1>2 DEF DirBlob
  <2>2. b.is_dir # NOTDIR
    BY <2>1 DEF ISDIR, NOTDIR
  <2>. QED BY <1>1, <1>2, <2>1, <2>2
<1>3. CASE b \in FileBlob
  <2>1. b.is_dir = NOTDIR /\ b.sub_items = << >> /\ b.data \in Seq(Bytes)
    BY <1>3 DEF FileBlob
  <2>2. b.is_dir # ISDIR
    BY <2>1 DEF ISDIR, NOTDIR
  <2>. QED BY <1>1, <1>3, <2>1, <2>2
<1>. QED BY <1>2, <1>3 DEF GoodBlob

\* hello_write: a file gets other data.
LEMMA DataReplaced ==
  ASSUME NEW s, Sound(s), NEW k \in DOMAIN s, BlobsOf(s)[k].is_dir = NOTDIR,
         NEW buf \in Seq(Bytes)
  PROVE  LET b == [BlobsOf(s)[k] EXCEPT !.data = buf]
             t == write_to_dict(s, k, b)
         IN  /\ Sound(t) /\ Written(s, k, b, t)
             /\ b.sub_items = BlobsOf(s)[k].sub_items
             /\ b.is_dir = NOTDIR /\ b.data = buf
<1>. DEFINE B == BlobsOf(s)
            b == [B[k] EXCEPT !.data = buf]
            t == write_to_dict(s, k, b)
<1>1. DOMAIN B = DOMAIN s /\ k \in Keys /\ GoodBlob(k, B[k])
  BY StoredBlobs DEF Sound, Stored
<1>2. /\ B[k] \in FileBlob
      /\ b \in FileBlob /\ b.inodeid = B[k].inodeid /\ b.data = buf
      /\ b.sub_items = B[k].sub_items /\ b.is_dir = B[k].is_dir
  BY <1>1, GoodBlobItems DEF FileBlob
<1>. HIDE DEF B, b
<1>3. GoodBlob(k, b)
  BY <1>1, <1>2 DEF GoodBlob
<1>4. /\ Written(s, k, b, t)
      /\ Stored(t) /\ DOMAIN BlobsOf(t) = DOMAIN B
      /\ BlobsOf(t)[k] = b
      /\ \A x \in DOMAIN B \ {k} : BlobsOf(t)[x] = B[x]
  <2>1. Stored(s)
    BY DEF Sound
  <2>2. Written(s, k, b, t)
    BY <1>1, <1>3, <2>1, WriteBlobOf
  <2>. HIDE DEF t
  <2>. QED BY <1>1, <2>2 DEF Written, B
<1>. HIDE DEF t
<1>5. Links(BlobsOf(t))
  BY <1>1, <1>2, <1>4, LinksReplace DEF Sound, B
<1>6. Rooted(BlobsOf(t))
  <2>1. root_id \in DOMAIN B /\ B[root_id].is_dir = ISDIR /\ ~ has_path(B[root_id], HEAD)
    BY DEF Sound, Rooted, B
  <2>2. root_id # k
    BY <2>1, <1>2 DEF B, FileBlob, ISDIR, NOTDIR
  <2>. QED BY <2>1, <2>2, <1>4 DEF Rooted
<1>7. Sound(t)
  BY <1>4, <1>5, <1>6 DEF Sound
<1>8. B[k].is_dir = NOTDIR
  BY DEF B
<1>. QED BY <1>2, <1>4, <1>7, <1>8 DEF t, b, B

\* hello_create, hello_mkdir: a directory gets an entry, the device its blob.
LEMMA EntryAdded ==
  ASSUME NEW s, Sound(s), NEW d \in DOMAIN s, NEW fn \in Names, NEW is_dir \in BOOLEAN,
         BlobsOf(s)[d].is_dir = ISDIR,
         ~ has_path(BlobsOf(s)[d], fn),
         Len(BlobsOf(s)[d].sub_items) < MAX_ITEMS,
         d = root_id => fn # HEAD,
         NEW id \in Ids, id \notin DOMAIN s,
         NEW new, GoodBlob(id, new), new.sub_items = << >>, new.is_dir = ISDIR <=> is_dir
  PROVE  LET item == [item_path |-> fn, inodeid |-> id, is_dir |-> is_dir]
             t    == write_to_dict(insert_item_into_blob(s, BlobsOf(s)[d], fn, is_dir, id),
                                   id, new)
         IN  /\ Sound(t)
             /\ Added(BlobsOf(s), d, item, BlobsOf(t)) /\ BlobsOf(t)[id] = new
             /\ BlobsOf(t)[d].data = BlobsOf(s)[d].data
<1>. DEFINE B    == BlobsOf(s)
            item == [item_path |-> fn, inodeid |-> id, is_dir |-> is_dir]
            dir  == [B[d] EXCEPT !.sub_items = Append(@, item)]
            s1   == insert_item_into_blob(s, B[d], fn, is_dir, id)
            t    == write_to_dict(s1, id, new)
<1>1. /\ DOMAIN B = DOMAIN s /\ d \in Keys /\ GoodBlob(d, B[d])
      /\ B[d] \in DirBlob /\ B[d].inodeid = d
  BY StoredBlobs, GoodBlobItems DEF Sound, Stored, GoodBlob
<1>2. item \in Item /\ item.item_path = fn /\ item.inodeid = id /\ item.is_dir = is_dir
  BY DEF Item
<1>3. /\ dir \in DirBlob /\ dir.inodeid = d /\ dir.is_dir = B[d].is_dir
      /\ dir.sub_items = Append(B[d].sub_items, item)
      /\ dir.data = B[d].data
      /\ Len(dir.sub_items) = Len(B[d].sub_items) + 1
  <2>. HIDE DEF B, item
  <2>. QED BY <1>1, <1>2 DEF DirBlob
<1>4. s1 = write_to_dict(s, d, dir)
  BY <1>1 DEF insert_item_into_blob
<1>5. /\ \A j \in 1..Len(B[d].sub_items) : B[d].sub_items[j].item_path # fn
      /\ B[d].sub_items \in Seq(Item)
  BY <1>1, HasPath, GoodBlobItems
<1>. HIDE DEF B, item, dir, s1
<1>6. GoodBlob(d, dir)
  <2>1. Len(dir.sub_items) <= MAX_ITEMS
    BY <1>1, <1>3, <1>5, BlobAssumption DEF B
  <2>. QED BY <2>1, <1>1, <1>3 DEF GoodBlob
<1>7. /\ Stored(s1) /\ DOMAIN s1 = DOMAIN s
      /\ BlobsOf(s1)[d] = dir
      /\ \A x \in DOMAIN s \ {d} : BlobsOf(s1)[x] = B[x]
  <2>1. Stored(s)
    BY DEF Sound
  <2>2. Written(s, d, dir, s1)
    BY <1>1, <1>4, <1>6, <2>1, WriteBlobOf
  <2>. QED BY <1>1, <2>2 DEF Written, B
<1>8. /\ Stored(t) /\ DOMAIN BlobsOf(t) = DOMAIN s \cup {id}
      /\ BlobsOf(t)[id] = new /\ BlobsOf(t)[d] = dir
      /\ \A x \in DOMAIN s \ {d} : BlobsOf(t)[x] = B[x]
  <2>1. id \in Keys
    BY DEF Keys
  <2>2. Written(s1, id, new, t)
    BY <2>1, <1>7, WriteBlobOf
  <2>. HIDE DEF t
  <2>. QED BY <2>2, <1>7 DEF Written
<1>. HIDE DEF t
<1>9. Links(BlobsOf(t)) /\ Added(B, d, item, BlobsOf(t))
  <2>1. Links(B) /\ d \in DOMAIN B
    BY <1>1 DEF Sound, B
  <2>2. Added(B, d, item, BlobsOf(t))
    <3>1. /\ d \in DOMAIN B /\ B[d].sub_items \in Seq(Item)
          /\ item \in Item /\ item.inodeid \notin DOMAIN B
          /\ DOMAIN BlobsOf(t) = DOMAIN B \cup {item.inodeid}
      BY <1>1, <1>2, <1>5, <1>8
    <3>2. \A j \in 1..Len(B[d].sub_items) :
             B[d].sub_items[j].item_path # item.item_path
      BY <1>2, <1>5
    <3>3. /\ BlobsOf(t)[item.inodeid].sub_items = << >>
          /\ BlobsOf(t)[item.inodeid].is_dir = ISDIR <=> item.is_dir
      BY <1>2, <1>8
    <3>4. /\ BlobsOf(t)[d].sub_items = Append(B[d].sub_items, item)
          /\ BlobsOf(t)[d].is_dir = B[d].is_dir
          /\ \A x \in DOMAIN B \ {d} : BlobsOf(t)[x] = B[x]
      BY <1>1, <1>3, <1>8
    <3>. QED BY <3>1, <3>2, <3>3, <3>4 DEF Added
  <2>. QED BY <2>1, <2>2, LinksAdd
<1>10. Rooted(BlobsOf(t))
  <2>1. root_id \in DOMAIN s /\ B[root_id].is_dir = ISDIR /\ ~ has_path(B[root_id], HEAD)
    BY <1>1 DEF Sound, Rooted, B
  <2>2. root_id # id
    BY BlobAssumption
  <2>3. CASE d # root_id
    BY <2>1, <2>2, <2>3, <1>8 DEF Rooted
  <2>4. CASE d = root_id
    <3>1. BlobsOf(t)[root_id] = dir /\ root_id \in DOMAIN BlobsOf(t)
      BY <2>1, <2>2, <2>4, <1>8
    <3>2. ~ has_path(dir, HEAD)
      <4>1. \A j \in 1..Len(B[d].sub_items) : B[d].sub_items[j].item_path # HEAD
        BY <2>1, <2>4, <1>5, HasPath
      <4>2. dir.sub_items \in Seq(Item)
        BY <1>6, GoodBlobItems
      <4>3. \A j \in 1..Len(dir.sub_items) : dir.sub_items[j].item_path # HEAD
        BY <4>1, <2>4, <1>2, <1>3, <1>5
      <4>. QED BY <4>2, <4>3, HasPath
    <3>. QED BY <3>1, <3>2, <1>3, <2>1, <2>4 DEF Rooted
  <2>. QED BY <2>3, <2>4
<1>11. Sound(t)
  BY <1>8, <1>9, <1>10 DEF Sound
<1>12. BlobsOf(t)[id] = new /\ BlobsOf(t)[d].data = B[d].data
  BY <1>3, <1>8
<1>. QED BY <1>9, <1>11, <1>12 DEF t, s1, B, item

\* hello_unlink, hello_rmdir: the device loses a blob, a directory its entry.
LEMMA EntryRemoved ==
  ASSUME NEW s, Sound(s), NEW d \in DOMAIN s, NEW fn,
         has_path(BlobsOf(s)[d], fn)
  PROVE  LET t == write_to_dict(perform_delete(s, get_inode_from_path(BlobsOf(s)[d], fn)),
                                BlobsOf(s)[d].inodeid,
                                remove_inode_from_path(BlobsOf(s)[d], fn))
         IN  /\ Sound(t)
             /\ Removed(BlobsOf(s), d, Position(BlobsOf(s)[d], fn), BlobsOf(t))
             /\ BlobsOf(t)[d].data = BlobsOf(s)[d].data
             /\ BlobsOf(t)[d] = remove_inode_from_path(BlobsOf(s)[d], fn)
<1>. DEFINE B   == BlobsOf(s)
            n   == Position(B[d], fn)
            id  == get_inode_from_path(B[d], fn)
            dir == remove_inode_from_path(B[d], fn)
            s1  == perform_delete(s, id)
            t   == write_to_dict(s1, d, dir)
<1>1. /\ DOMAIN B = DOMAIN s /\ d \in Keys /\ GoodBlob(d, B[d])
      /\ B[d].sub_items \in Seq(Item) /\ B[d].inodeid = d
  BY StoredBlobs, GoodBlobItems DEF Sound, Stored, GoodBlob
<1>2. /\ n \in 1..Len(B[d].sub_items)
      /\ id = B[d].sub_items[n].inodeid /\ id \in Ids
  BY <1>1, InodeOfEntry
<1>3. /\ RemoveAt(B[d].sub_items, n) \in Seq(Item)
      /\ Len(RemoveAt(B[d].sub_items, n)) = Len(B[d].sub_items) - 1
      /\ \A j \in 1..(Len(B[d].sub_items) - 1) :
           RemoveAt(B[d].sub_items, n)[j]
             = IF j < n THEN B[d].sub_items[j] ELSE B[d].sub_items[j+1]
  BY <1>1, <1>2, RemoveAtShifts
<1>4. dir = [B[d] EXCEPT !.sub_items = RemoveAt(@, n)]
  BY DEF remove_inode_from_path
<1>5. B[d] \in DirBlob
  <2>1. B[d] \in FileBlob => Len(B[d].sub_items) = 0
    BY DEF FileBlob
  <2>. QED BY <2>1, <1>1, <1>2 DEF GoodBlob
<1>6. /\ dir \in DirBlob /\ dir.inodeid = d /\ dir.is_dir = B[d].is_dir
      /\ dir.sub_items = RemoveAt(B[d].sub_items, n) /\ dir.data = B[d].data
  BY <1>1, <1>3, <1>4, <1>5 DEF DirBlob
<1>. HIDE DEF B, n, id, dir, s1
<1>7. GoodBlob(d, dir)
  <2>1. Len(dir.sub_items) <= MAX_ITEMS
    BY <1>1, <1>3, <1>6, BlobAssumption DEF GoodBlob
  <2>. QED BY <2>1, <1>1, <1>6 DEF GoodBlob
<1>8. /\ Stored(s1) /\ DOMAIN s1 = DOMAIN s \ {id}
      /\ \A x \in DOMAIN s1 : BlobsOf(s1)[x] = B[x]
  BY DeleteBlobOf DEF Sound, s1, B
<1>9. /\ Stored(t) /\ DOMAIN BlobsOf(t) = (DOMAIN s \ {id}) \cup {d}
      /\ BlobsOf(t)[d] = dir
      /\ \A x \in DOMAIN s \ {id, d} : BlobsOf(t)[x] = B[x]
  <2>1. Written(s1, d, dir, t)
    BY <1>1, <1>7, <1>8, WriteBlobOf
  <2>. HIDE DEF t
  <2>. QED BY <2>1, <1>8 DEF Written
<1>. HIDE DEF t
<1>10. Links(BlobsOf(t)) /\ Removed(B, d, n, BlobsOf(t))
  <2>1. Links(B) /\ d \in DOMAIN B
    BY <1>1 DEF Sound, B
  <2>2. Removed(B, d, n, BlobsOf(t))
    BY <1>1, <1>2, <1>6, <1>9 DEF Removed
  <2>. QED BY <2>1, <2>2, LinksRemove
<1>11. Rooted(BlobsOf(t))
  <2>1. root_id \in DOMAIN s /\ B[root_id].is_dir = ISDIR /\ ~ has_path(B[root_id], HEAD)
    BY <1>1 DEF Sound, Rooted, B
  <2>2. root_id # id
    BY <1>2, BlobAssumption
  <2>3. CASE d # root_id
    BY <2>1, <2>2, <2>3, <1>9 DEF Rooted
  <2>4. CASE d = root_id
    <3>1. BlobsOf(t)[root_id] = dir /\ root_id \in DOMAIN BlobsOf(t)
      BY <2>4, <1>9
    <3>2. ~ has_path(dir, HEAD)
      <4>1. \A j \in 1..Len(B[d].sub_items) : B[d].sub_items[j].item_path # HEAD
        BY <2>1, <2>4, <1>1, HasPath
      <4>2. \A j \in 1..Len(dir.sub_items) : dir.sub_items[j].item_path # HEAD
        BY <4>1, <1>1, <1>2, <1>3, <1>6, SMTT(30)
      <4>. QED BY <4>2, <1>3, <1>6, HasPath
    <3>. QED BY <3>1, <3>2, <1>6, <2>1, <2>4 DEF Rooted
  <2>. QED BY <2>3, <2>4
<1>12. Sound(t) /\ B[d].inodeid = d /\ BlobsOf(t)[d].data = B[d].data
  BY <1>1, <1>6, <1>9, <1>10, <1>11 DEF Sound
<1>. QED BY <1>9, <1>10, <1>12 DEF t, s1, B, n, id, dir

----------------------------------------------------------------------------
(* What the handlers find on a sound device.                               *)

LEMMA PathIsSeq ==
  ASSUME NEW p \in Paths
  PROVE  /\ p \in Seq(Names) /\ Len(p) \in Nat
         /\ p # Root => Front(p) \in Seq(Names) /\ Last(p) \in Names
<1>1. p \in Seq(Names)
  BY DEF Paths
<1>2. p # << >> => Front(p) \in Seq(Names) /\ Last(p) \in Names
  BY <1>1, FrontLast
<1>. QED BY <1>1, <1>2 DEF Root

LEMMA SoundClosed ==
  ASSUME NEW s, Sound(s)
  PROVE  Closed(s)
<1>1. DOMAIN BlobsOf(s) = DOMAIN s /\ root_id \in DOMAIN s
  BY StoredBlobs DEF Sound, Rooted
<1>2. ASSUME NEW k \in DOMAIN s
      PROVE  /\ get_blob_from_key(s, k) = BlobsOf(s)[k]
             /\ get_blob_from_key(s, k).sub_items \in Seq(Item)
  BY StoredBlobs, GoodBlobItems DEF Sound
<1>3. ASSUME NEW k \in DOMAIN s, NEW i \in 1..Len(get_blob_from_key(s, k).sub_items)
      PROVE  get_blob_from_key(s, k).sub_items[i].inodeid \in DOMAIN s
  BY <1>1, <1>2 DEF Sound, Links, EntriesLead
<1>. QED BY <1>1, <1>2, <1>3 DEF Closed

\* Only directories have entries; they lead to stored blobs other than the root.
LEMMA EntryOfDirectory ==
  ASSUME NEW s, Sound(s), NEW d \in DOMAIN s, NEW name,
         \/ has_path(BlobsOf(s)[d], name)
         \/ get_inode_from_path(BlobsOf(s)[d], name) # NULL
  PROVE  LET id == get_inode_from_path(BlobsOf(s)[d], name)
         IN  /\ has_path(BlobsOf(s)[d], name)
             /\ BlobsOf(s)[d].is_dir = ISDIR
             /\ id \in DOMAIN s /\ id \in Ids /\ id # root_id
<1>. DEFINE b  == BlobsOf(s)[d]
            id == get_inode_from_path(b, name)
            i  == Position(b, name)
<1>1. /\ DOMAIN BlobsOf(s) = DOMAIN s /\ GoodBlob(d, b)
      /\ b.sub_items \in Seq(Item)
  BY StoredBlobs, GoodBlobItems DEF Sound
<1>2. /\ has_path(b, name) /\ i \in 1..Len(b.sub_items)
      /\ id = b.sub_items[i].inodeid /\ id \in Ids
  BY <1>1, InodeOfEntry
<1>3. id \in DOMAIN s
  BY <1>1, <1>2 DEF Sound, Links, EntriesLead
<1>4. b \in DirBlob
  <2>1. b \in FileBlob => Len(b.sub_items) = 0
    BY DEF FileBlob
  <2>. QED BY <2>1, <1>1, <1>2 DEF GoodBlob
<1>. QED BY <1>2, <1>3, <1>4, BlobAssumption DEF DirBlob

\* The last step of a walk that leads somewhere.
LEMMA WalkEnters ==
  ASSUME NEW s, Sound(s), NEW p \in Seq(Names), p # << >>,
         go_through_inodes(s, p) # NULL
  PROVE  LET d == go_through_inodes(s, Front(p))
         IN  /\ d \in DOMAIN s
             /\ has_path(BlobsOf(s)[d], Last(p))
             /\ BlobsOf(s)[d].is_dir = ISDIR
             /\ go_through_inodes(s, p) = get_inode_from_path(BlobsOf(s)[d], Last(p))
             /\ go_through_inodes(s, p) # root_id
<1>. DEFINE d == go_through_inodes(s, Front(p))
<1>1. go_through_inodes(s, p) = Enter(s, Last(p))[d]
  BY SoundClosed, WalkExtends
<1>2. d \in DOMAIN s \cup {NULL}
  <2>1. Front(p) \in Seq(Names) /\ Len(Front(p)) \in Nat
    BY FrontLast
  <2>. QED BY <2>1, SoundClosed, WalkStays DEF Places
<1>. HIDE DEF d
<1>3. Enter(s, Last(p))[d] = IF d = NULL THEN NULL
                             ELSE get_inode_from_path(get_blob_from_key(s, d), Last(p))
  BY <1>2 DEF Enter
<1>4. d \in DOMAIN s
  BY <1>1, <1>2, <1>3
<1>5. get_blob_from_key(s, d) = BlobsOf(s)[d] /\ d # NULL
  BY <1>4, StoredBlobs, BlobAssumption DEF Sound, Stored
<1>6. get_inode_from_path(BlobsOf(s)[d], Last(p)) # NULL
  BY <1>1, <1>3, <1>5
<1>. QED BY <1>1, <1>3, <1>4, <1>5, <1>6, EntryOfDirectory DEF d

\* Where the walk to the directory of a path may end.
LEMMA WalkEnds ==
  ASSUME NEW s, Sound(s), NEW p \in Seq(Names)
  PROVE  /\ go_through_inodes(s, p) \in DOMAIN s \cup {NULL}
         /\ NULL \notin DOMAIN s
<1>1. Len(p) \in Nat
  OBVIOUS
<1>. QED BY <1>1, SoundClosed, WalkStays, BlobAssumption DEF Places, Sound, Stored

\* hello_getattr answers within its types.
LEMMA AttrTypes ==
  ASSUME NEW s, Sound(s), NEW p \in Seq(Names)
  PROVE  /\ attr(s, p).err \in {"OK", "ENOENT"}
         /\ attr(s, p).n \in Nat
<1>. DEFINE fn    == Last(p)
            cur   == go_through_inodes(s, Front(p))
            found(b) == [err  |-> "OK", n |-> Len(b.data),
                         kind |-> IF b.is_dir = ISDIR THEN "dir" ELSE "file"]
            absent   == [err |-> "ENOENT", n |-> 0, kind |-> "none"]
<1>1. ASSUME NEW k \in DOMAIN s
      PROVE  Len(get_blob_from_key(s, k).data) \in Nat
  <2>1. GoodBlob(k, get_blob_from_key(s, k))
    BY StoredBlobs DEF Sound
  <2>2. get_blob_from_key(s, k).data \in Seq(Bytes)
    BY <2>1, GoodBlobItems
  <2>. QED BY <2>1, <2>2, BlobAssumption DEF GoodBlob
<1>2. 0 \in Nat
  OBVIOUS
<1>3. CASE p \in {Root, <<HEAD>>}
  <2>1. attr(s, p) = found(get_blob_from_key(s, root_id))
    BY <1>3 DEF attr, get_root_inode, get_blob_from_key
  <2>2. root_id \in DOMAIN s
    BY StoredBlobs DEF Sound, Rooted
  <2>. QED BY <2>1, <2>2, <1>1
<1>4. CASE p \notin {Root, <<HEAD>>}
  <2>1. attr(s, p) = IF cur = NULL THEN absent
                     ELSE IF /\ has_path(get_blob_from_key(s, cur), fn)
                             /\ get_blob_from_key(s, cur).is_dir = ISDIR
                          THEN found(get_blob_from_key(s,
                                 get_inode_from_path(get_blob_from_key(s, cur), fn)))
                          ELSE absent
    BY <1>4 DEF attr, get_fn_dir
  <2>2. p # << >>
    BY <1>4 DEF Root
  <2>3. cur \in DOMAIN s \cup {NULL}
    BY <2>2, WalkEnds, FrontLast
  <2>. HIDE DEF cur, fn
  <2>4. ASSUME cur # NULL, has_path(get_blob_from_key(s, cur), fn)
        PROVE  get_inode_from_path(get_blob_from_key(s, cur), fn) \in DOMAIN s
    <3>1. cur \in DOMAIN s
      BY <2>3, <2>4
    <3>2. get_blob_from_key(s, cur) = BlobsOf(s)[cur]
      BY <3>1, StoredBlobs DEF Sound
    <3>. QED BY <2>4, <3>1, <3>2, EntryOfDirectory
  <2>. QED BY <2>1, <2>4, <1>1, <1>2
<1>. QED BY <1>3, <1>4

\* What looks like a file to hello_getattr is one.
LEMMA FileEntry ==
  ASSUME NEW s, Sound(s), NEW p \in Seq(Names), attr(s, p).kind = "file"
  PROVE  LET d  == go_through_inodes(s, Front(p))
             id == get_inode_from_path(get_blob_from_key(s, d), Last(p))
         IN  /\ d \in DOMAIN s /\ id \in DOMAIN s
             /\ BlobsOf(s)[id].is_dir = NOTDIR
<1>. DEFINE fn  == Last(p)
            d   == go_through_inodes(s, Front(p))
            id  == get_inode_from_path(get_blob_from_key(s, d), fn)
            kind(b) == IF b.is_dir = ISDIR THEN "dir" ELSE "file"
<1>1. p \notin {Root, <<HEAD>>}
  <2>1. get_blob_from_key(s, root_id).is_dir = ISDIR
    BY StoredBlobs DEF Sound, Rooted
  <2>2. p \in {Root, <<HEAD>>} => attr(s, p).kind = "dir"
    BY <2>1 DEF attr, get_root_inode, get_blob_from_key
  <2>. QED BY <2>2
<1>2. attr(s, p).kind = IF d = NULL THEN "none"
                        ELSE IF /\ has_path(get_blob_from_key(s, d), fn)
                                /\ get_blob_from_key(s, d).is_dir = ISDIR
                             THEN kind(get_blob_from_key(s, id))
                             ELSE "none"
  BY <1>1 DEF attr, get_fn_dir
<1>3. d \in DOMAIN s \cup {NULL}
  BY <1>1, WalkEnds, FrontLast DEF Root
<1>. HIDE DEF d
<1>4. /\ d \in DOMAIN s /\ has_path(get_blob_from_key(s, d), fn)
      /\ get_blob_from_key(s, id).is_dir # ISDIR
  BY <1>2, <1>3
<1>5. get_blob_from_key(s, d) = BlobsOf(s)[d]
  BY <1>4, StoredBlobs DEF Sound
<1>. HIDE DEF fn
<1>6. id \in DOMAIN s
  BY <1>4, <1>5, EntryOfDirectory
<1>. HIDE DEF id
<1>7. /\ BlobsOf(s)[id] = get_blob_from_key(s, id)
      /\ GoodBlob(id, BlobsOf(s)[id])
  BY <1>6, StoredBlobs DEF Sound
<1>8. BlobsOf(s)[id].is_dir \in {ISDIR, NOTDIR}
  BY <1>7, GoodBlobItems
<1>. QED BY <1>4, <1>6, <1>7, <1>8 DEF d, id, fn

\* The directory hello_create or hello_mkdir puts an entry in is one, since its
\* path does not look like a file's; and "/HEAD" is not asked for.
LEMMA DirectoryOfNew ==
  ASSUME NEW s, Sound(s), NEW p \in Seq(Names), p \notin {Root, <<HEAD>>},
         attr(s, Front(p)).kind # "file", go_through_inodes(s, Front(p)) # NULL
  PROVE  LET d == go_through_inodes(s, Front(p))
         IN  /\ d \in DOMAIN s
             /\ BlobsOf(s)[d].is_dir = ISDIR
             /\ d = root_id => Last(p) # HEAD
<1>. DEFINE q == Front(p)
            d == go_through_inodes(s, q)
<1>1. q \in Seq(Names) /\ p # << >>
  BY FrontLast DEF Root
<1>2. d \in DOMAIN s
  BY <1>1, WalkEnds
<1>3. /\ root_id \in DOMAIN BlobsOf(s) /\ BlobsOf(s)[root_id].is_dir = ISDIR
      /\ ~ has_path(BlobsOf(s)[root_id], HEAD)
  BY DEF Sound, Rooted
<1>4. go_through_inodes(s, << >>) = root_id
  BY WalkOfRoot
<1>5. CASE q = << >>
  <2>1. d = root_id
    BY <1>4, <1>5
  <2>2. Last(p) # HEAD
    <3>1. p = <<Last(p)>>
      BY <1>1, <1>5, Single
    <3>. QED BY <3>1
  <2>. QED BY <1>2, <1>3, <2>1, <2>2
<1>6. CASE q # << >>
  <2>. DEFINE e == go_through_inodes(s, Front(q))
  <2>1. /\ e \in DOMAIN s /\ has_path(BlobsOf(s)[e], Last(q))
        /\ BlobsOf(s)[e].is_dir = ISDIR
        /\ d = get_inode_from_path(BlobsOf(s)[e], Last(q))
        /\ d # root_id
    BY <1>1, <1>6, WalkEnters
  <2>2. q # <<HEAD>>
    <3>1. ASSUME q = <<HEAD>>
          PROVE  FALSE
      <4>1. Last(q) = HEAD
        BY <3>1 DEF Last
      <4>2. Front(q) = << >>
        BY <3>1, <4>1, <1>1, <1>6, Single
      <4>. QED BY <4>1, <4>2, <2>1, <1>3, <1>4
    <3>. QED BY <3>1
  <2>3. e # NULL /\ get_blob_from_key(s, e) = BlobsOf(s)[e]
        /\ get_blob_from_key(s, d) = BlobsOf(s)[d]
    BY <2>1, <1>1, <1>2, StoredBlobs, WalkEnds DEF Sound
  <2>. HIDE DEF q
  <2>4. attr(s, q).kind = IF get_blob_from_key(s, d).is_dir = ISDIR THEN "dir" ELSE "file"
    BY <1>6, <2>1, <2>2, <2>3 DEF attr, get_fn_dir, Root
  <2>5. BlobsOf(s)[d].is_dir = ISDIR
    BY <2>3, <2>4 DEF q
  <2>. QED BY <1>2, <2>1, <2>5 DEF q
<1>. QED BY <1>5, <1>6

----------------------------------------------------------------------------
(* The steps.                                                              *)

LEMMA InvariantOfBlobsPrimed ==
  IInv' <=> /\ Stored(store')
            /\ Links(BlobsOf(store'))
            /\ mounted' \in BOOLEAN
            /\ mounted' => Rooted(BlobsOf(store'))
            /\ Replied'
<1>1. (IInv <=> /\ Stored(store)
                /\ Links(BlobsOf(store))
                /\ mounted \in BOOLEAN
                /\ mounted => Rooted(BlobsOf(store))
                /\ Replied)'
  BY InvariantOfBlobs, PTL
<1>. QED BY <1>1

LEMMA MountedSound ==
  ASSUME IInv, mounted
  PROVE  Sound(store)
BY InvariantOfBlobs DEF Sound

\* A step that leaves the device alone, or ends the process.
LEMMA Quiet ==
  ASSUME IInv, UNCHANGED store, mounted' \in {mounted, FALSE}, Replied'
  PROVE  IInv'
<1>1. /\ Stored(store) /\ Links(BlobsOf(store))
      /\ mounted \in BOOLEAN /\ (mounted => Rooted(BlobsOf(store)))
  BY InvariantOfBlobs
<1>2. CASE mounted' = mounted
  <2>1. mounted' \in BOOLEAN /\ (mounted' => Rooted(BlobsOf(store)))
    BY <1>1, <1>2, Zenon
  <2>. QED BY <1>1, <2>1, InvariantOfBlobsPrimed
<1>3. CASE mounted' = FALSE
  BY <1>1, <1>3, InvariantOfBlobsPrimed
<1>. QED BY <1>2, <1>3

\* A step that leaves a sound device to a mounted file system.
LEMMA Changed ==
  ASSUME Sound(store'), mounted' = TRUE, Replied'
  PROVE  IInv'
BY InvariantOfBlobsPrimed DEF Sound

LEMMA Answered ==
  ASSUME NEW r, Return(r), r.path \in Paths, r.n \in Nat,
         r.err \in {"OK", "ENOENT", "ENOTDIR", "SIGSEGV"}
  PROVE  Replied' /\ mounted' = mounted
BY DEF Return, Replied

LEMMA RequestFields ==
  ASSUME NEW op, NEW p
  PROVE  /\ Request(op, p).path = p
         /\ Request(op, p).err = "OK"
         /\ Request(op, p).n = 0
         /\ \A e, m, k, o, z :
              LET r == [Request(op, p) EXCEPT !.err = e, !.n = m, !.kind = k,
                                              !.off = o, !.out = z]
              IN  r.path = p /\ r.err = e /\ r.n = m
BY DEF Request, NoReply

LEMMA ZeroBytes == 0 \in Nat
OBVIOUS

LEMMA Died ==
  ASSUME IInv, NEW op, NEW p \in Paths, Die(op, p)
  PROVE  IInv'
<1>1. Replied'
  BY ZeroBytes DEF Die, Replied, Request, NoReply
<1>. QED BY <1>1, Quiet DEF Die

LEMMA NoReplyOK ==
  ASSUME reply' = NoReply
  PROVE  Replied'
<1>1. Root \in Paths
  <2>1. Root \in [1..0 -> Names] /\ 0 \in 0..MaxDepth
    BY CkvfsAssumption DEF Root
  <2>. QED BY <2>1 DEF Paths
<1>. QED BY <1>1, ZeroBytes DEF Replied, NoReply

\* write_root on the new container.
LEMMA SoundRoot == Sound(write_root(set_up_ssd))
<1>. DEFINE s == set_up_ssd
            t == write_root(s)
<1>1. DOMAIN s = {} /\ Stored(s)
  BY DEF set_up_ssd, Stored
<1>2. /\ root_id \in Keys /\ GoodBlob(root_id, EmptyDir(root_id))
      /\ EmptyDir(root_id).sub_items = << >> /\ EmptyDir(root_id).is_dir = ISDIR
  BY BlobAssumption DEF Keys, GoodBlob, EmptyDir, DirBlob
<1>. HIDE DEF s
<1>3. Written(s, root_id, EmptyDir(root_id), t)
  BY <1>1, <1>2, WriteBlobOf DEF write_root
<1>. HIDE DEF t
<1>4. /\ Stored(t) /\ DOMAIN BlobsOf(t) = {root_id}
      /\ BlobsOf(t)[root_id].sub_items = << >>
      /\ BlobsOf(t)[root_id].is_dir = ISDIR
  BY <1>1, <1>2, <1>3 DEF Written
<1>5. \A k \in DOMAIN BlobsOf(t) : Len(BlobsOf(t)[k].sub_items) = 0
  BY <1>4
<1>6. Links(BlobsOf(t))
  BY <1>5 DEF Links, UniqueEntries, EntriesLead, OneEntryEach
<1>7. ~ has_path(BlobsOf(t)[root_id], HEAD)
  <2>1. << >> \in Seq(Item) /\ Len(<< >>) = 0
    OBVIOUS
  <2>. DEFINE b == BlobsOf(t)[root_id]
  <2>2. b.sub_items \in Seq(Item) /\ Len(b.sub_items) = 0
    BY <1>4, <2>1
  <2>. HIDE DEF b
  <2>3. ~ \E j \in 1..Len(b.sub_items) : b.sub_items[j].item_path = HEAD
    BY <2>2
  <2>4. ~ has_path(b, HEAD)
    BY <2>2, <2>3, HasPath
  <2>. QED BY <2>4 DEF b
<1>. QED BY <1>4, <1>6, <1>7 DEF Sound, Rooted, t, s

\* An empty device holds nothing that could be wrong.
LEMMA EmptyDevice == Stored(set_up_ssd) /\ Links(BlobsOf(set_up_ssd))
<1>1. DOMAIN set_up_ssd = {}
  BY DEF set_up_ssd
<1>. QED BY <1>1 DEF Stored, BlobsOf, Links, UniqueEntries, EntriesLead, OneEntryEach

LEMMA StepInit ==
  ASSUME IInv, hello_init
  PROVE  IInv'
<1>1. CASE store' = write_root(set_up_ssd) /\ mounted' = TRUE /\ reply' = NoReply
  BY <1>1, SoundRoot, NoReplyOK, Changed
<1>2. CASE store' \in {store, set_up_ssd} /\ UNCHANGED <<mounted, reply>>
  <2>1. mounted' = FALSE /\ Replied'
    BY <1>2, InvariantOfBlobs DEF hello_init, Replied
  <2>2. CASE store' = store
    BY <2>1, <2>2, Quiet
  <2>3. CASE store' = set_up_ssd
    BY <2>1, <2>3, EmptyDevice, InvariantOfBlobsPrimed
  <2>. QED BY <1>2, <2>2, <2>3
<1>. QED BY <1>1, <1>2 DEF hello_init

LEMMA StepExit ==
  ASSUME IInv, Exit
  PROVE  IInv'
BY NoReplyOK, Quiet DEF Exit

LEMMA StepGetattr ==
  ASSUME IInv, NEW p \in Paths, hello_getattr(p)
  PROVE  IInv'
<1>1. attr(store, p).err \in {"OK", "ENOENT"} /\ attr(store, p).n \in Nat
  BY MountedSound, PathIsSeq, AttrTypes DEF hello_getattr
<1>. DEFINE r == [Request("getattr", p) EXCEPT !.err  = attr(store, p).err,
                                               !.kind = attr(store, p).kind,
                                               !.n    = attr(store, p).n]
<1>2. Return(r) /\ UNCHANGED store
  BY DEF hello_getattr
<1>3. r.path = p /\ r.err = attr(store, p).err /\ r.n = attr(store, p).n
  BY DEF Request, NoReply
<1>. HIDE DEF r
<1>. QED BY <1>1, <1>2, <1>3, Answered, Quiet

LEMMA StepFail ==
  ASSUME NEW op, NEW p \in Paths, NEW err \in {"OK", "ENOENT", "ENOTDIR"},
         Fail(op, p, err)
  PROVE  Replied' /\ mounted' = mounted
<1>. DEFINE r == [Request(op, p) EXCEPT !.err = err]
<1>1. r.path = p /\ r.err = err /\ r.n = 0
  BY DEF Request, NoReply
<1>2. Return(r)
  BY DEF Fail
<1>. HIDE DEF r
<1>. QED BY <1>1, <1>2, ZeroBytes, Answered

LEMMA StepRequest ==
  ASSUME NEW op, NEW p \in Paths, Return(Request(op, p))
  PROVE  Replied' /\ mounted' = mounted
BY ZeroBytes, Answered, RequestFields

LEMMA StepListing ==
  ASSUME NEW p \in Paths, NEW b, Return(Listing(p, b))
  PROVE  Replied' /\ mounted' = mounted
<1>1. /\ Listing(p, b).path = p /\ Listing(p, b).err = "OK" /\ Listing(p, b).n = 0
  BY DEF Listing, Request, NoReply
<1>. QED BY <1>1, ZeroBytes, Answered

LEMMA StepReaddir ==
  ASSUME IInv, NEW p \in Paths, hello_readdir(p)
  PROVE  IInv'
<1>1. CASE UNCHANGED store /\ \E b : Return(Listing(p, b))
  BY <1>1, StepListing, Quiet
<1>2. CASE UNCHANGED store /\ \E err \in {"ENOENT", "ENOTDIR"} : Fail("readdir", p, err)
  BY <1>2, StepFail, Quiet
<1>3. CASE Die("readdir", p)
  BY <1>3, Died
<1>4. ReadUninitialised(p) => \/ UNCHANGED store /\ \E b : Return(Listing(p, b))
                              \/ Die("readdir", p)
  BY DEF ReadUninitialised
<1>. QED BY <1>1, <1>2, <1>3, <1>4 DEF hello_readdir

LEMMA StepOpen ==
  ASSUME IInv, NEW p \in Paths, hello_open(p)
  PROVE  IInv'
BY StepRequest, Quiet DEF hello_open

LEMMA StepRead ==
  ASSUME IInv, NEW p \in Paths, hello_read(p)
  PROVE  IInv'
<1>. DEFINE d  == go_through_inodes(store, Front(p))
            id == get_inode_from_path(get_blob_from_key(store, d), Last(p))
            b  == get_blob_from_key(store, id)
            r  == [Request("read", p) EXCEPT !.n = Len(b.data), !.out = b.data]
<1>1. Sound(store) /\ p \in Seq(Names) /\ attr(store, p).kind = "file"
  BY MountedSound, PathIsSeq DEF hello_read, IsFile
<1>2. id \in DOMAIN store
  BY <1>1, FileEntry
<1>3. Len(b.data) \in Nat
  <2>. HIDE DEF id
  <2>1. GoodBlob(id, b)
    BY <1>1, <1>2, StoredBlobs DEF Sound
  <2>2. b.data \in Seq(Bytes)
    BY <2>1, GoodBlobItems
  <2>. QED BY <2>1, <2>2, BlobAssumption DEF GoodBlob
<1>4. /\ UNCHANGED store
      /\ (\E err \in {"OK", "ENOENT"} : Fail("read", p, err)) \/ Return(r)
  BY DEF hello_read, get_fn_dir
<1>5. r.path = p /\ r.err = "OK" /\ r.n = Len(b.data)
  BY DEF Request, NoReply
<1>. HIDE DEF r, b
<1>. QED BY <1>3, <1>4, <1>5, StepFail, Answered, Quiet

LEMMA KeptBytes ==
  ASSUME NEW buf \in Seq(Bytes)
  PROVE  Kept(buf) \in Seq(Bytes) /\ Len(Kept(buf)) = Len(buf)
<1>1. Len(buf) \in Nat /\ \A i \in 1..Len(buf) : buf[i] \in Bytes
  OBVIOUS
<1>2. \A i \in 1..Len(buf) : (IF i <= MAX_BLOCK THEN buf[i] ELSE Junk) \in Bytes
  BY <1>1, CkvfsAssumption
<1>. QED BY <1>1, <1>2 DEF Kept

LEMMA StepWrite ==
  ASSUME IInv, NEW p \in Paths, NEW buf \in Payloads, hello_write(p, buf)
  PROVE  IInv'
<1>. DEFINE d  == go_through_inodes(store, Front(p))
            id == get_inode_from_path(get_blob_from_key(store, d), Last(p))
            b  == get_blob_from_key(store, id)
            req(off) == [Request("write", p) EXCEPT !.off = off]
<1>1. Sound(store) /\ p \in Seq(Names) /\ Len(p) \in Nat /\ attr(store, p).kind = "file"
  BY MountedSound, PathIsSeq DEF hello_write, IsFile
<1>2. d # NULL /\ id \in DOMAIN store /\ BlobsOf(store)[id].is_dir = NOTDIR
  BY <1>1, FileEntry, WalkEnds
<1>3. PICK off \in {0, attr(store, p).n}, scanned \in Scanned(buf) :
        IF TooLong(p, scanned) THEN Return(req(off)) /\ UNCHANGED store
        ELSE /\ Return([req(off) EXCEPT !.n = Len(buf)])
             /\ store' = write_to_dict(store, b.inodeid, [b EXCEPT !.data = Kept(buf)])
  BY <1>2 DEF hello_write, get_fn_dir
<1>4. CASE Return(req(off)) /\ UNCHANGED store
  <2>1. req(off).path = p /\ req(off).err = "OK" /\ req(off).n = 0
    BY DEF Request, NoReply
  <2>. HIDE DEF req
  <2>. QED BY <1>4, <2>1, ZeroBytes, Answered, Quiet
<1>5. CASE /\ Return([req(off) EXCEPT !.n = Len(buf)])
           /\ store' = write_to_dict(store, b.inodeid, [b EXCEPT !.data = Kept(buf)])
  <2>. DEFINE r == [req(off) EXCEPT !.n = Len(buf)]
  <2>1. Kept(buf) \in Seq(Bytes) /\ Len(buf) \in Nat
    BY KeptBytes, CkvfsAssumption
  <2>2. r.path = p /\ r.err = "OK" /\ r.n = Len(buf)
    BY DEF Request, NoReply
  <2>. HIDE DEF r
  <2>3. Replied' /\ mounted' = mounted
    BY <1>5, <2>1, <2>2, Answered DEF r
  <2>. HIDE DEF id
  <2>4. b = BlobsOf(store)[id] /\ b.inodeid = id
    BY <1>1, <1>2, StoredBlobs DEF Sound, GoodBlob
  <2>5. Sound(store')
    BY <1>1, <1>2, <1>5, <2>1, <2>4, DataReplaced
  <2>6. mounted' = TRUE
    BY <2>3, InvariantOfBlobs DEF hello_write
  <2>. QED BY <2>3, <2>5, <2>6, Changed
<1>. QED BY <1>3, <1>4, <1>5

\* What hello_create and hello_mkdir share: the new blob is any good one of the
\* entry's kind that has no entries.
LEMMA StepAdd ==
  ASSUME IInv, mounted, NEW op, NEW p \in Paths, p \notin {Root, <<HEAD>>}, ~ IsFile(Front(p)),
         go_through_inodes(store, Front(p)) # NULL,
         NEW dir, dir = get_blob_from_key(store, go_through_inodes(store, Front(p))),
         ~ has_path(dir, Last(p)), ~ (Len(dir.sub_items) >= MAX_ITEMS),
         NEW is_dir \in BOOLEAN, NEW id \in get_random_num(store),
         NEW new, GoodBlob(id, new), new.sub_items = << >>, new.is_dir = ISDIR <=> is_dir,
         store' = write_to_dict(insert_item_into_blob(store, dir, Last(p), is_dir, id),
                                id, new),
         Return(Request(op, p))
  PROVE  IInv'
<1>. DEFINE d == go_through_inodes(store, Front(p))
<1>1. Sound(store) /\ p \in Seq(Names) /\ Last(p) \in Names
  BY MountedSound, PathIsSeq
<1>2. /\ d \in DOMAIN store
      /\ BlobsOf(store)[d].is_dir = ISDIR
      /\ d = root_id => Last(p) # HEAD
  BY <1>1, DirectoryOfNew DEF IsFile
<1>3. dir = BlobsOf(store)[d] /\ GoodBlob(d, dir)
  BY <1>1, <1>2, StoredBlobs DEF Sound
<1>. HIDE DEF d
<1>4. id \in Ids /\ id \notin DOMAIN store
  BY DEF get_random_num
<1>5. Len(dir.sub_items) < MAX_ITEMS
  <2>1. Len(dir.sub_items) \in Nat
    BY <1>3, GoodBlobItems
  <2>. QED BY <2>1, BlobAssumption
<1>6. store' = write_to_dict(insert_item_into_blob(store, BlobsOf(store)[d], Last(p), is_dir, id),
                             id, new)
  BY <1>3
<1>7. /\ BlobsOf(store)[d].is_dir = ISDIR
      /\ ~ has_path(BlobsOf(store)[d], Last(p))
      /\ Len(BlobsOf(store)[d].sub_items) < MAX_ITEMS
  BY <1>2, <1>3, <1>5
<1>8. Sound(store')
  <2>1. Sound(write_to_dict(insert_item_into_blob(store, BlobsOf(store)[d], Last(p), is_dir, id),
                            id, new))
    BY <1>1, <1>2, <1>4, <1>7, EntryAdded
  <2>. QED BY <1>6, <2>1
<1>9. Replied' /\ mounted' = TRUE
  BY StepRequest, InvariantOfBlobs
<1>. QED BY <1>8, <1>9, Changed

LEMMA NewBlobs ==
  ASSUME NEW id \in Ids
  PROVE  /\ GoodBlob(id, EmptyDir(id)) /\ EmptyDir(id).sub_items = << >>
         /\ EmptyDir(id).is_dir = ISDIR
         /\ GoodBlob(id, EmptyFile(id)) /\ EmptyFile(id).sub_items = << >>
         /\ EmptyFile(id).is_dir # ISDIR
<1>1. id \in Keys
  BY DEF Keys
<1>. QED BY <1>1, BlobAssumption
         DEF GoodBlob, EmptyDir, EmptyFile, DirBlob, FileBlob, ISDIR, NOTDIR

LEMMA StepCreate ==
  ASSUME IInv, NEW p \in Paths, hello_create(p)
  PROVE  IInv'
<1>. DEFINE d   == go_through_inodes(store, Front(p))
            dir == get_blob_from_key(store, d)
<1>1. CASE d = NULL \/ has_path(dir, Last(p))
  <2>1. Return(Request("create", p)) /\ UNCHANGED store
    BY <1>1 DEF hello_create, get_fn_dir
  <2>. QED BY <2>1, StepRequest, Quiet
<1>2. CASE ~ (d = NULL \/ has_path(dir, Last(p)))
  <2>1. /\ mounted /\ p \notin {Root, <<HEAD>>} /\ ~ IsFile(Front(p))
        /\ AddEntry("create", p, dir, FALSE)
    BY <1>2 DEF hello_create, get_fn_dir
  <2>2. CASE Die("create", p)
    BY <2>2, Died
  <2>3. CASE ~ (Len(dir.sub_items) >= MAX_ITEMS)
    <3>1. PICK id \in get_random_num(store) :
            /\ store' = write_to_dict(insert_item_into_blob(store, dir, Last(p), FALSE, id),
                                      id, EmptyFile(id))
            /\ Return(Request("create", p))
      BY <2>1, <2>3 DEF AddEntry, get_fn_dir
    <3>2. /\ GoodBlob(id, EmptyFile(id)) /\ EmptyFile(id).sub_items = << >>
          /\ EmptyFile(id).is_dir = ISDIR <=> FALSE
      BY NewBlobs DEF get_random_num
    <3>. QED BY <1>2, <2>1, <2>3, <3>1, <3>2, StepAdd
  <2>. QED BY <2>1, <2>2, <2>3 DEF AddEntry
<1>. QED BY <1>1, <1>2

LEMMA StepMkdir ==
  ASSUME IInv, NEW p \in Paths, hello_mkdir(p)
  PROVE  IInv'
<1>. DEFINE d   == go_through_inodes(store, Front(p))
            dir == get_blob_from_key(store, d)
<1>1. CASE Fail("mkdir", p, "ENOTDIR") /\ UNCHANGED store
  BY <1>1, StepFail, Quiet
<1>2. CASE Return(Request("mkdir", p)) /\ UNCHANGED store
  BY <1>2, StepRequest, Quiet
<1>3. CASE ~ (d = NULL \/ has_path(dir, Last(p))) /\ AddEntry("mkdir", p, dir, TRUE)
  <2>1. mounted /\ p \notin {Root, <<HEAD>>} /\ ~ IsFile(Front(p))
    BY DEF hello_mkdir, get_fn_dir
  <2>2. CASE Die("mkdir", p)
    BY <2>2, Died
  <2>3. CASE ~ (Len(dir.sub_items) >= MAX_ITEMS)
    <3>1. PICK id \in get_random_num(store) :
            /\ store' = write_to_dict(insert_item_into_blob(store, dir, Last(p), TRUE, id),
                                      id, EmptyDir(id))
            /\ Return(Request("mkdir", p))
      BY <1>3, <2>3 DEF AddEntry, get_fn_dir
    <3>2. /\ GoodBlob(id, EmptyDir(id)) /\ EmptyDir(id).sub_items = << >>
          /\ EmptyDir(id).is_dir = ISDIR <=> TRUE
      BY NewBlobs DEF get_random_num
    <3>. QED BY <1>3, <2>1, <2>3, <3>1, <3>2, StepAdd
  <2>. QED BY <1>3, <2>2, <2>3 DEF AddEntry
<1>. QED BY <1>1, <1>2, <1>3 DEF hello_mkdir, get_fn_dir

LEMMA StepRemove ==
  ASSUME IInv, mounted, NEW op, NEW p \in Paths, p # Root, RemoveEntry(op, p)
  PROVE  IInv'
<1>. DEFINE d   == go_through_inodes(store, Front(p))
            dir == get_blob_from_key(store, d)
            id  == get_inode_from_path(dir, Last(p))
<1>1. Replied' /\ mounted' = mounted /\ mounted' = TRUE
  BY StepRequest, InvariantOfBlobs DEF RemoveEntry
<1>2. CASE UNCHANGED store
  BY <1>1, <1>2, Quiet
<1>3. CASE /\ d # NULL /\ id # NULL
           /\ store' = write_to_dict(perform_delete(store, id), dir.inodeid,
                                     remove_inode_from_path(dir, Last(p)))
  <2>1. Sound(store) /\ Front(p) \in Seq(Names)
    BY MountedSound, PathIsSeq
  <2>2. d \in DOMAIN store
    BY <1>3, <2>1, WalkEnds
  <2>3. dir = BlobsOf(store)[d]
    BY <2>1, <2>2, StoredBlobs DEF Sound
  <2>. HIDE DEF d, dir
  <2>4. has_path(BlobsOf(store)[d], Last(p))
    BY <1>3, <2>1, <2>2, <2>3, EntryOfDirectory
  <2>5. Sound(store')
    BY <1>3, <2>1, <2>2, <2>3, <2>4, EntryRemoved
  <2>. QED BY <1>1, <2>5, Changed
<1>. QED BY <1>2, <1>3 DEF RemoveEntry, get_fn_dir

----------------------------------------------------------------------------
(* The theorems.                                                           *)

\* Between any two requests, mounts and process ends, the device holds whole
\* blobs whose entries have different names, lead to stored blobs of their kind
\* and to no blob twice, and a mounted device has its root: hello_init sets this
\* up, and no handler of main.c, with the calls it makes into blob.c and dict.c,
\* breaks it.
THEOREM InductiveInvariant == Spec => []IInv
<1>1. Init => IInv
  <2>. SUFFICES ASSUME Init PROVE IInv
    OBVIOUS
  <2>1. store = set_up_ssd /\ mounted = FALSE
    BY DEF Init
  <2>2. Stored(store) /\ Links(BlobsOf(store))
    BY <2>1, EmptyDevice
  <2>3. Replied
    <3>1. Root \in [1..0 -> Names] /\ 0 \in 0..MaxDepth
      BY CkvfsAssumption DEF Root
    <3>2. Root \in Paths
      BY <3>1 DEF Paths
    <3>. QED BY <3>2, ZeroBytes DEF Init, Replied, NoReply
  <2>. QED BY <2>1, <2>2, <2>3, InvariantOfBlobs
<1>2. IInv /\ [Next]_vars => IInv'
  <2>. SUFFICES ASSUME IInv, [Next]_vars PROVE IInv'
    OBVIOUS
  <2>1. CASE hello_init
    BY <2>1, StepInit
  <2>2. CASE Exit
    BY <2>2, StepExit
  <2>3. ASSUME NEW p \in Paths, hello_getattr(p)
        PROVE  IInv'
    BY <2>3, StepGetattr
  <2>4. ASSUME NEW p \in Paths, hello_readdir(p)
        PROVE  IInv'
    BY <2>4, StepReaddir
  <2>5. ASSUME NEW p \in Paths, hello_open(p)
        PROVE  IInv'
    BY <2>5, StepOpen
  <2>6. ASSUME NEW p \in Paths, hello_read(p)
        PROVE  IInv'
    BY <2>6, StepRead
  <2>7. ASSUME NEW p \in Paths, NEW buf \in Payloads, hello_write(p, buf)
        PROVE  IInv'
    BY <2>7, StepWrite
  <2>8. ASSUME NEW p \in Paths, hello_create(p)
        PROVE  IInv'
    BY <2>8, StepCreate
  <2>9. ASSUME NEW p \in Paths, hello_mkdir(p)
        PROVE  IInv'
    BY <2>9, StepMkdir
  <2>10. ASSUME NEW p \in Paths, hello_unlink(p) \/ hello_rmdir(p)
         PROVE  IInv'
    BY <2>10, StepRemove DEF hello_unlink, hello_rmdir
  <2>11. CASE UNCHANGED vars
    BY <2>11, Quiet, InvariantOfBlobs DEF vars, Replied
  <2>. QED BY <2>1, <2>2, <2>3, <2>4, <2>5, <2>6, <2>7, <2>8, <2>9, <2>10, <2>11 DEF Next
<1>. QED BY <1>1, <1>2, PTL DEF Spec

\* Every record on the device is a whole blob, which carries the key it is stored
\* under, and the entries of a directory fit its block; and every answer is one a
\* handler of main.c can give.  (A file may be longer than its block: WritesFitBlock.)
THEOREM TypeCorrect == Spec => []TypeOK
<1>1. IInv => TypeOK
  BY DEF IInv
<1>. QED BY <1>1, InductiveInvariant, PTL

\* No directory ever has two entries of one name: hello_create and hello_mkdir
\* add one only when has_path finds none.
THEOREM NamesAreUnique == Spec => []UniqueNames
<1>1. IInv => UniqueNames
  BY DEF IInv
<1>. QED BY <1>1, InductiveInvariant, PTL

\* No entry is left behind without its blob, and a mounted device has its root,
\* although an entry and its blob are stored and deleted by separate calls.
THEOREM NothingDangles == Spec => []NoDangling
<1>1. IInv => NoDangling
  BY DEF IInv
<1>. QED BY <1>1, InductiveInvariant, PTL

\* No two entries on the device lead to one blob: the blobs form a forest.
THEOREM OneParent == Spec => []SingleParent
<1>1. IInv => SingleParent
  BY DEF IInv
<1>. QED BY <1>1, InductiveInvariant, PTL
============================================================================
