----------------------------- MODULE TreeProofs ----------------------------
(***************************************************************************)
(* The walks along all paths, before and after a handler: what becomes of  *)
(* blobs that no path leads to, and that Ckvfs implements FileTree.        *)
(***************************************************************************)
EXTENDS CkvfsProofs

----------------------------------------------------------------------------
(* Paths: sequences that are taken apart at their end.                     *)

\* Two paths with the same front and the same last name are one.
LEMMA SameEnds ==
  ASSUME NEW S, NEW p \in Seq(S), NEW q \in Seq(S), p # << >>, q # << >>,
         Front(p) = Front(q), Last(p) = Last(q)
  PROVE  p = q
<1>1. /\ Len(p) \in Nat /\ Len(p) # 0 /\ Len(Front(p)) = Len(p) - 1
      /\ \A i \in 1..(Len(p) - 1) : Front(p)[i] = p[i]
      /\ Last(p) = p[Len(p)]
  BY FrontLast
<1>2. /\ Len(q) \in Nat /\ Len(q) # 0 /\ Len(Front(q)) = Len(q) - 1
      /\ \A i \in 1..(Len(q) - 1) : Front(q)[i] = q[i]
      /\ Last(q) = q[Len(q)]
  BY FrontLast
<1>3. Len(p) = Len(q)
  BY <1>1, <1>2
<1>4. \A i \in 1..Len(p) : p[i] = q[i]
  <2>1. \A i \in 1..(Len(p) - 1) : p[i] = q[i]
    BY <1>1, <1>2, <1>3
  <2>2. p[Len(p)] = q[Len(p)]
    BY <1>1, <1>2, <1>3
  <2>. QED BY <2>1, <2>2, <1>1
<1>. QED BY <1>3, <1>4, SeqEqual

LEMMA PrefixIs ==
  ASSUME NEW S, NEW p \in Seq(S), NEW q \in Seq(S)
  PROVE  IsPrefix(p, q) <=> Len(p) <= Len(q) /\ \A i \in 1..Len(p) : p[i] = q[i]
<1>1. SubSeq(p, 1, Len(p)) = p
  BY SubSeqFull
<1>2. ASSUME Len(p) <= Len(q)
      PROVE  /\ SubSeq(q, 1, Len(p)) \in Seq(S)
             /\ Len(SubSeq(q, 1, Len(p))) = Len(p)
             /\ \A i \in 1..Len(p) : SubSeq(q, 1, Len(p))[i] = q[i]
  BY <1>2
<1>3. ASSUME Len(p) <= Len(q), \A i \in 1..Len(p) : p[i] = q[i]
      PROVE  p = SubSeq(q, 1, Len(p))
  BY <1>2, <1>3, SeqEqual
<1>. QED BY <1>1, <1>2, <1>3 DEF IsPrefix

\* The paths at or above q are q and those at or above its directory.
LEMMA PrefixOfFront ==
  ASSUME NEW S, NEW p \in Seq(S), NEW q \in Seq(S), q # << >>
  PROVE  IsPrefix(p, q) <=> p = q \/ IsPrefix(p, Front(q))
<1>1. /\ Len(q) \in Nat /\ Len(q) # 0 /\ Front(q) \in Seq(S)
      /\ Len(Front(q)) = Len(q) - 1
      /\ \A i \in 1..(Len(q) - 1) : Front(q)[i] = q[i]
  BY FrontLast
<1>2. Len(p) \in Nat
  OBVIOUS
<1>3. ASSUME IsPrefix(p, q), p # q
      PROVE  IsPrefix(p, Front(q))
  <2>1. Len(p) <= Len(q) /\ \A i \in 1..Len(p) : p[i] = q[i]
    BY <1>3, PrefixIs
  <2>2. Len(p) # Len(q)
    BY <1>3, <2>1, SeqEqual
  <2>. QED BY <1>1, <1>2, <2>1, <2>2, PrefixIs
<1>4. IsPrefix(p, Front(q)) => IsPrefix(p, q)
  <2>1. IsPrefix(p, Front(q)) <=>
          Len(p) <= Len(Front(q)) /\ \A i \in 1..Len(p) : p[i] = Front(q)[i]
    BY <1>1, PrefixIs
  <2>2. IsPrefix(p, q) <=> Len(p) <= Len(q) /\ \A i \in 1..Len(p) : p[i] = q[i]
    BY PrefixIs
  <2>. QED BY <1>1, <1>2, <2>1, <2>2
<1>5. p = q => IsPrefix(p, q)
  BY <1>1, PrefixIs
<1>. QED BY <1>3, <1>4, <1>5

----------------------------------------------------------------------------
(* The walks along all paths of a sound device are a tree.                 *)

LEMMA StepOfWalk ==
  ASSUME NEW s, Sound(s), NEW p \in Seq(Names), p # << >>
  PROVE  LET d == go_through_inodes(s, Front(p))
         IN  /\ d \in DOMAIN s \cup {NULL}
             /\ go_through_inodes(s, p)
                  = IF d = NULL THEN NULL ELSE get_inode_from_path(BlobsOf(s)[d], Last(p))
<1>. DEFINE d == go_through_inodes(s, Front(p))
<1>1. go_through_inodes(s, p) = Enter(s, Last(p))[d]
  BY SoundClosed, WalkExtends
<1>2. d \in DOMAIN s \cup {NULL}
  BY FrontLast, WalkEnds
<1>. HIDE DEF d
<1>3. d \in DOMAIN s => get_blob_from_key(s, d) = BlobsOf(s)[d]
  BY StoredBlobs DEF Sound
<1>. QED BY <1>1, <1>2, <1>3 DEF Enter, d

\* In a sound device a name has one entry, and the lookup finds it.
LEMMA Lookup ==
  ASSUME NEW s, Sound(s), NEW d \in DOMAIN s, NEW j \in 1..Len(BlobsOf(s)[d].sub_items),
         NEW name, BlobsOf(s)[d].sub_items[j].item_path = name
  PROVE  /\ get_inode_from_path(BlobsOf(s)[d], name) = BlobsOf(s)[d].sub_items[j].inodeid
         /\ has_path(BlobsOf(s)[d], name)
         /\ Position(BlobsOf(s)[d], name) = j
         /\ BlobsOf(s)[d].sub_items[j].inodeid # NULL
<1>. DEFINE b == BlobsOf(s)[d]
<1>1. DOMAIN BlobsOf(s) = DOMAIN s /\ b.sub_items \in Seq(Item)
  BY StoredBlobs, GoodBlobItems DEF Sound
<1>2. /\ has_path(b, name) /\ Position(b, name) \in 1..Len(b.sub_items)
      /\ b.sub_items[Position(b, name)].item_path = name
      /\ get_inode_from_path(b, name) = b.sub_items[Position(b, name)].inodeid
  BY <1>1, InodeOfEntry
<1>3. Position(b, name) = j
  BY <1>1, <1>2 DEF Sound, Links, UniqueEntries
<1>4. b.sub_items[j].inodeid # NULL
  <2>1. b.sub_items[j] \in Item
    BY <1>1, ElementOfSeq
  <2>. HIDE DEF b
  <2>. QED BY <2>1, BlobAssumption DEF Item, Keys
<1>. QED BY <1>2, <1>3, <1>4

LEMMA LookupOfItems ==
  ASSUME NEW b, NEW c, b.sub_items = c.sub_items, NEW name
  PROVE  get_inode_from_path(b, name) = get_inode_from_path(c, name)
BY DEF get_inode_from_path, Position

\* No two paths lead to one blob.
LEMMA OnePath ==
  ASSUME NEW s, Sound(s)
  PROVE  \A p, q \in Seq(Names) :
           /\ go_through_inodes(s, p) = go_through_inodes(s, q)
           /\ go_through_inodes(s, p) # NULL
           => p = q
<1>. DEFINE walk(p) == go_through_inodes(s, p)
            P == {p \in Seq(Names) :
                    \A q \in Seq(Names) : walk(p) = walk(q) /\ walk(p) # NULL => p = q}
<1>1. << >> \in P
  <2>1. walk(<< >>) = root_id
    BY WalkOfRoot
  <2>2. \A q \in Seq(Names) : q # << >> /\ walk(q) # NULL => walk(q) # root_id
    BY WalkEnters
  <2>. QED BY <2>1, <2>2
<1>2. ASSUME NEW p \in Seq(Names), p # << >>, Front(p) \in P
      PROVE  p \in P
  <2>1. SUFFICES ASSUME NEW q \in Seq(Names), walk(p) = walk(q), walk(p) # NULL
                 PROVE  p = q
    OBVIOUS
  <2>. DEFINE d == walk(Front(p))
              e == walk(Front(q))
              i == Position(BlobsOf(s)[d], Last(p))
              j == Position(BlobsOf(s)[e], Last(q))
  <2>2. q # << >>
    <3>1. walk(p) # root_id
      BY <1>2, <2>1, WalkEnters
    <3>. QED BY <2>1, <3>1, WalkOfRoot
  <2>3. /\ d \in DOMAIN s /\ has_path(BlobsOf(s)[d], Last(p))
        /\ walk(p) = get_inode_from_path(BlobsOf(s)[d], Last(p))
    BY <1>2, <2>1, WalkEnters
  <2>4. /\ e \in DOMAIN s /\ has_path(BlobsOf(s)[e], Last(q))
        /\ walk(q) = get_inode_from_path(BlobsOf(s)[e], Last(q))
    BY <2>1, <2>2, WalkEnters
  <2>5. Front(p) \in Seq(Names) /\ Front(q) \in Seq(Names)
    BY <1>2, <2>2, FrontLast
  <2>6. DOMAIN BlobsOf(s) = DOMAIN s /\ \A k \in DOMAIN s : BlobsOf(s)[k].sub_items \in Seq(Item)
    BY StoredBlobs, GoodBlobItems DEF Sound
  <2>. HIDE DEF d, e
  <2>7. /\ i \in 1..Len(BlobsOf(s)[d].sub_items)
        /\ BlobsOf(s)[d].sub_items[i].item_path = Last(p)
        /\ walk(p) = BlobsOf(s)[d].sub_items[i].inodeid
    BY <2>3, <2>6, InodeOfEntry
  <2>8. /\ j \in 1..Len(BlobsOf(s)[e].sub_items)
        /\ BlobsOf(s)[e].sub_items[j].item_path = Last(q)
        /\ walk(q) = BlobsOf(s)[e].sub_items[j].inodeid
    BY <2>4, <2>6, InodeOfEntry
  <2>9. d = e /\ i = j
    <3>1. BlobsOf(s)[d].sub_items[i].inodeid = BlobsOf(s)[e].sub_items[j].inodeid
      BY <2>1, <2>7, <2>8
    <3>2. OneEntryEach(BlobsOf(s)) /\ d \in DOMAIN BlobsOf(s) /\ e \in DOMAIN BlobsOf(s)
      BY <2>3, <2>4, <2>6 DEF Sound, Links
    <3>. HIDE DEF i, j
    <3>. QED BY <2>7, <2>8, <3>1, <3>2 DEF OneEntryEach
  <2>10. d # NULL
    BY <2>3, <2>5, WalkEnds
  <2>11. Front(p) = Front(q)
    BY <1>2, <2>5, <2>9, <2>10 DEF d, e
  <2>12. Last(p) = Last(q)
    BY <2>7, <2>8, <2>9
  <2>. QED BY <1>2, <2>2, <2>11, <2>12, SameEnds
<1>. HIDE DEF P
<1>3. \A p \in Seq(Names) : p \in P
  BY <1>1, <1>2, PathInduction
<1>. QED BY <1>3 DEF P

\* Above a path that leads somewhere there are directories.
LEMMA AboveIsDirectory ==
  ASSUME NEW s, Sound(s), NEW p \in Seq(Names)
  PROVE  \A q \in Seq(Names) :
           IsPrefix(p, q) /\ go_through_inodes(s, q) # NULL
             => \/ p = q
                \/ /\ go_through_inodes(s, p) \in DOMAIN s
                   /\ BlobsOf(s)[go_through_inodes(s, p)].is_dir = ISDIR
<1>. DEFINE Dir(k) == k \in DOMAIN s /\ BlobsOf(s)[k].is_dir = ISDIR
            P == {q \in Seq(Names) :
                    IsPrefix(p, q) /\ go_through_inodes(s, q) # NULL
                      => p = q \/ Dir(go_through_inodes(s, p))}
<1>1. << >> \in P
  <2>1. IsPrefix(p, << >>) => p = << >>
    BY DEF IsPrefix
  <2>. QED BY <2>1
<1>2. ASSUME NEW q \in Seq(Names), q # << >>, Front(q) \in P
      PROVE  q \in P
  <2>1. SUFFICES ASSUME IsPrefix(p, q), go_through_inodes(s, q) # NULL, p # q
                 PROVE  Dir(go_through_inodes(s, p))
    BY <1>2
  <2>2. IsPrefix(p, Front(q))
    BY <1>2, <2>1, PrefixOfFront
  <2>3. Dir(go_through_inodes(s, Front(q)))
    BY <1>2, <2>1, WalkEnters
  <2>4. go_through_inodes(s, Front(q)) # NULL
    BY <1>2, <2>3, WalkEnds, FrontLast
  <2>. QED BY <1>2, <2>2, <2>3, <2>4
<1>. HIDE DEF P
<1>3. \A q \in Seq(Names) : q \in P
  BY <1>1, <1>2, PathInduction
<1>. QED BY <1>3 DEF P

----------------------------------------------------------------------------
(* What the three changes of a device do to the walks.                     *)

\* Other data in a file: nothing.
LEMMA WalksReplaced ==
  ASSUME NEW s, Sound(s), NEW t, Sound(t), NEW k \in DOMAIN s, NEW b,
         Written(s, k, b, t), b.sub_items = BlobsOf(s)[k].sub_items
  PROVE  \A p \in Seq(Names) : go_through_inodes(t, p) = go_through_inodes(s, p)
<1>. DEFINE P == {p \in Seq(Names) : go_through_inodes(t, p) = go_through_inodes(s, p)}
<1>1. << >> \in P
  BY WalkOfRoot
<1>2. ASSUME NEW p \in Seq(Names), p # << >>, Front(p) \in P
      PROVE  p \in P
  <2>. DEFINE d == go_through_inodes(s, Front(p))
  <2>1. go_through_inodes(t, Front(p)) = d
    BY <1>2
  <2>2. /\ d \in DOMAIN s \cup {NULL}
        /\ go_through_inodes(s, p)
             = IF d = NULL THEN NULL ELSE get_inode_from_path(BlobsOf(s)[d], Last(p))
    BY <1>2, StepOfWalk
  <2>3. go_through_inodes(t, p)
          = IF d = NULL THEN NULL ELSE get_inode_from_path(BlobsOf(t)[d], Last(p))
    BY <1>2, <2>1, StepOfWalk
  <2>. HIDE DEF d
  <2>4. d \in DOMAIN s => BlobsOf(t)[d].sub_items = BlobsOf(s)[d].sub_items
    BY DEF Written
  <2>. QED BY <1>2, <2>2, <2>3, <2>4, LookupOfItems
<1>. HIDE DEF P
<1>3. \A p \in Seq(Names) : p \in P
  BY <1>1, <1>2, PathInduction
<1>. QED BY <1>3 DEF P

\* A new entry: the path of its name leads to its blob.
LEMMA WalksAdded ==
  ASSUME NEW s, Sound(s), NEW t, Sound(t), NEW d, NEW item,
         Added(BlobsOf(s), d, item, BlobsOf(t)),
         NEW r \in Seq(Names), r # << >>,
         go_through_inodes(s, Front(r)) = d, Last(r) = item.item_path
  PROVE  /\ go_through_inodes(s, r) = NULL
         /\ \A p \in Seq(Names) :
              go_through_inodes(t, p) = IF p = r THEN item.inodeid ELSE go_through_inodes(s, p)
<1>. DEFINE B  == BlobsOf(s)
            C  == BlobsOf(t)
            id == item.inodeid
            P  == {p \in Seq(Names) :
                     go_through_inodes(t, p) = IF p = r THEN id ELSE go_through_inodes(s, p)}
<1>1. /\ DOMAIN B = DOMAIN s /\ DOMAIN C = DOMAIN t
      /\ \A k \in DOMAIN s : B[k].sub_items \in Seq(Item)
      /\ \A k \in DOMAIN t : C[k].sub_items \in Seq(Item)
      /\ NULL \notin DOMAIN s /\ NULL \notin DOMAIN t
  BY StoredBlobs, GoodBlobItems, WalkEnds DEF Sound
<1>2. /\ d \in DOMAIN s /\ d \in DOMAIN t /\ id \in DOMAIN t /\ id \notin DOMAIN s
      /\ \A x \in DOMAIN s \ {d} : x \in DOMAIN t /\ C[x] = B[x]
      /\ C[id].sub_items = << >>
      /\ \A j \in 1..Len(B[d].sub_items) : B[d].sub_items[j].item_path # Last(r)
      /\ C[d].sub_items = Append(B[d].sub_items, item)
      /\ item \in Item
  BY <1>1 DEF Added
<1>3. go_through_inodes(s, r) = NULL
  <2>1. go_through_inodes(s, r) = get_inode_from_path(B[d], Last(r))
    BY <1>1, <1>2, StepOfWalk
  <2>2. B[d].sub_items \in Seq(Item)
        /\ \A j \in 1..Len(B[d].sub_items) : B[d].sub_items[j].item_path # Last(r)
    BY <1>1, <1>2
  <2>. HIDE DEF B
  <2>3. get_inode_from_path(B[d], Last(r)) = NULL
    BY <2>2, InodeOfEntry
  <2>. QED BY <2>1, <2>3
\* The lookup of a name in d, and in the new directory.
<1>4. get_inode_from_path(C[d], Last(r)) = id
  <2>. DEFINE n == Len(B[d].sub_items) + 1
  <2>1. n \in 1..Len(C[d].sub_items) /\ C[d].sub_items[n] = item
    BY <1>1, <1>2
  <2>2. C[d].sub_items[n].item_path = Last(r) /\ d \in DOMAIN t
    BY <1>2, <2>1
  <2>. HIDE DEF n
  <2>3. get_inode_from_path(C[d], Last(r)) = C[d].sub_items[n].inodeid
    BY <2>1, <2>2, Lookup
  <2>. QED BY <2>1, <2>3
<1>5. ASSUME NEW name, name # Last(r)
      PROVE  get_inode_from_path(C[d], name) = get_inode_from_path(B[d], name)
  <2>. DEFINE l == Len(B[d].sub_items)
              i == Position(B[d], name)
  <2>1. /\ l \in Nat /\ Len(C[d].sub_items) = l + 1
        /\ \A j \in 1..l : C[d].sub_items[j] = B[d].sub_items[j]
        /\ C[d].sub_items[l+1].item_path # name
    <3>1. item.item_path # name
      BY <1>5
    <3>2. B[d].sub_items \in Seq(Item) /\ item \in Item
          /\ C[d].sub_items = Append(B[d].sub_items, item)
      BY <1>1, <1>2
    <3>3. \A q \in Seq(Item) : Append(q, item)[Len(q) + 1] = item
      BY <3>2
    <3>. HIDE DEF B, C
    <3>. QED BY <3>1, <3>2, <3>3
  <2>2. CASE /\ get_inode_from_path(B[d], name) = NULL
             /\ \A j \in 1..l : B[d].sub_items[j].item_path # name
    <3>1. ASSUME NEW j \in 1..Len(C[d].sub_items)
          PROVE  C[d].sub_items[j].item_path # name
      <4>. HIDE DEF B, C, l
      <4>1. j \in 1..l \/ j = l + 1
        BY <2>1
      <4>. QED BY <2>1, <2>2, <4>1
    <3>2. C[d].sub_items \in Seq(Item)
      BY <1>1, <1>2
    <3>. HIDE DEF B, C, l, i
    <3>3. get_inode_from_path(C[d], name) = NULL
      BY <3>1, <3>2, InodeOfEntry
    <3>. QED BY <2>2, <3>3
  <2>3. CASE /\ i \in 1..l /\ B[d].sub_items[i].item_path = name
             /\ get_inode_from_path(B[d], name) = B[d].sub_items[i].inodeid
    <3>1. i \in 1..Len(C[d].sub_items) /\ C[d].sub_items[i] = B[d].sub_items[i]
      BY <2>1, <2>3
    <3>. HIDE DEF i
    <3>2. d \in DOMAIN t /\ C[d].sub_items[i].item_path = name
      BY <1>2, <2>3, <3>1
    <3>3. get_inode_from_path(C[d], name) = C[d].sub_items[i].inodeid
      BY <3>1, <3>2, Lookup
    <3>. QED BY <2>3, <3>1, <3>3
  <2>. QED BY <1>1, <1>2, <2>2, <2>3, InodeOfEntry
<1>6. ASSUME NEW name
      PROVE  get_inode_from_path(C[id], name) = NULL
  <2>1. Len(C[id].sub_items) = 0
    BY <1>2
  <2>2. ~ \E j \in 1..Len(C[id].sub_items) : TRUE
    BY <2>1
  <2>. QED BY <1>1, <1>2, <2>2, InodeOfEntry
<1>7. << >> \in P
  BY WalkOfRoot
<1>8. ASSUME NEW p \in Seq(Names), p # << >>, Front(p) \in P
      PROVE  p \in P
  <2>. DEFINE v == go_through_inodes(s, Front(p))
              w == go_through_inodes(t, Front(p))
  <2>1. /\ v \in DOMAIN s \cup {NULL}
        /\ go_through_inodes(s, p)
             = IF v = NULL THEN NULL ELSE get_inode_from_path(B[v], Last(p))
        /\ go_through_inodes(t, p)
             = IF w = NULL THEN NULL ELSE get_inode_from_path(C[w], Last(p))
        /\ w = IF Front(p) = r THEN id ELSE v
        /\ p = r => v = d
    BY <1>8, StepOfWalk
  <2>2. Front(p) \in Seq(Names) /\ Front(r) \in Seq(Names)
    BY <1>8, FrontLast
  <2>3. v = d => Front(p) = Front(r)
    BY <1>1, <1>2, <2>2, OnePath
  <2>4. Front(p) = r => v = NULL
    BY <1>3
  <2>. HIDE DEF v, w, B, C, id
  <2>5. CASE Front(p) = r
    BY <1>1, <1>2, <1>6, <1>8, <2>1, <2>4, <2>5 DEF P
  <2>6. CASE Front(p) # r /\ v = NULL
    BY <1>1, <1>2, <1>8, <2>1, <2>6 DEF P
  <2>7. CASE Front(p) # r /\ v \in DOMAIN s /\ v # d
    BY <1>1, <1>2, <1>8, <2>1, <2>7 DEF P
  <2>8. CASE Front(p) # r /\ v = d /\ Last(p) = Last(r)
    <3>1. p = r
      BY <1>8, <2>3, <2>8, SameEnds
    <3>. QED BY <1>1, <1>2, <1>4, <2>1, <2>8, <3>1 DEF P
  <2>9. CASE Front(p) # r /\ v = d /\ Last(p) # Last(r)
    <3>1. p # r
      BY <2>9
    <3>. QED BY <1>1, <1>2, <1>5, <1>8, <2>1, <2>9, <3>1 DEF P
  <2>. QED BY <2>1, <2>5, <2>6, <2>7, <2>8, <2>9
<1>. HIDE DEF P
<1>9. \A p \in Seq(Names) : p \in P
  BY <1>7, <1>8, PathInduction
<1>. QED BY <1>3, <1>9 DEF P

\* An entry less: no path at or below its name leads anywhere any more.
LEMMA WalksRemoved ==
  ASSUME NEW s, Sound(s), NEW t, Sound(t), NEW d, NEW n,
         Removed(BlobsOf(s), d, n, BlobsOf(t)),
         NEW r \in Seq(Names), r # << >>,
         go_through_inodes(s, Front(r)) = d, Last(r) = BlobsOf(s)[d].sub_items[n].item_path,
         NEW id, id = BlobsOf(s)[d].sub_items[n].inodeid
  PROVE  /\ go_through_inodes(s, r) = id
         /\ id # d
         /\ \A p \in Seq(Names) :
              go_through_inodes(t, p) = IF IsPrefix(r, p) THEN NULL ELSE go_through_inodes(s, p)
<1>. DEFINE B  == BlobsOf(s)
            C  == BlobsOf(t)
            l  == Len(B[d].sub_items)
            P  == {p \in Seq(Names) :
                     go_through_inodes(t, p)
                       = IF IsPrefix(r, p) THEN NULL ELSE go_through_inodes(s, p)}
<1>1. /\ DOMAIN B = DOMAIN s /\ DOMAIN C = DOMAIN t
      /\ \A k \in DOMAIN s : B[k].sub_items \in Seq(Item)
      /\ \A k \in DOMAIN t : C[k].sub_items \in Seq(Item)
      /\ NULL \notin DOMAIN s /\ NULL \notin DOMAIN t
  BY StoredBlobs, GoodBlobItems, WalkEnds DEF Sound
<1>2. /\ d \in DOMAIN s /\ n \in 1..l
      /\ C[d].sub_items = RemoveAt(B[d].sub_items, n)
      /\ DOMAIN t = (DOMAIN s \ {id}) \cup {d}
      /\ \A x \in DOMAIN t \ {d} : x \in DOMAIN s /\ C[x] = B[x]
  BY <1>1 DEF Removed
<1>3. Front(r) \in Seq(Names)
  BY FrontLast
<1>4. go_through_inodes(s, r) = id
  <2>1. get_inode_from_path(B[d], Last(r)) = id
    BY <1>2, Lookup
  <2>2. go_through_inodes(s, r) = get_inode_from_path(B[d], Last(r))
    BY <1>1, <1>2, StepOfWalk
  <2>. QED BY <2>1, <2>2
\* A directory is not its own entry.
<1>5. id # d
  <2>1. ASSUME id = d
        PROVE  FALSE
    <3>1. r = Front(r)
      BY <1>1, <1>2, <1>3, <1>4, <2>1, OnePath
    <3>2. Len(r) \in Nat /\ Len(Front(r)) = Len(r) - 1
      BY FrontLast
    <3>3. Len(r) = Len(r) - 1
      BY <3>1, <3>2
    <3>. QED BY <3>2, <3>3
  <2>. QED BY <2>1
<1>6. /\ l \in Nat /\ Len(C[d].sub_items) = l - 1
      /\ \A j \in 1..(l-1) :
           C[d].sub_items[j] = IF j < n THEN B[d].sub_items[j] ELSE B[d].sub_items[j+1]
      /\ \A i \in 1..l : B[d].sub_items[i].item_path = Last(r) => i = n
  <2>1. /\ l \in Nat /\ Len(RemoveAt(B[d].sub_items, n)) = l - 1
        /\ \A j \in 1..(l-1) : RemoveAt(B[d].sub_items, n)[j]
             = IF j < n THEN B[d].sub_items[j] ELSE B[d].sub_items[j+1]
    <3>1. B[d].sub_items \in Seq(Item) /\ n \in 1..Len(B[d].sub_items)
      BY <1>1, <1>2
    <3>2. l \in Nat
      BY <3>1
    <3>. HIDE DEF B
    <3>. QED BY <3>1, <3>2, RemoveAtShifts
  <2>2. \A i \in 1..l : B[d].sub_items[i].item_path = Last(r) => i = n
    BY <1>1, <1>2 DEF Sound, Links, UniqueEntries
  <2>. QED BY <1>2, <2>1, <2>2
<1>. DEFINE Old(j) == IF j < n THEN j ELSE j + 1
<1>7. \A j \in 1..Len(C[d].sub_items) :
        /\ Old(j) \in 1..l /\ Old(j) # n
        /\ C[d].sub_items[j] = B[d].sub_items[Old(j)]
  <2>. HIDE DEF B, C, l
  <2>. QED BY <1>2, <1>6
<1>. HIDE DEF Old
<1>8. get_inode_from_path(C[d], Last(r)) = NULL
  <2>1. \A j \in 1..Len(C[d].sub_items) : C[d].sub_items[j].item_path # Last(r)
    <3>. HIDE DEF B, C, l
    <3>. QED BY <1>6, <1>7
  <2>. QED BY <1>1, <1>2, <2>1, InodeOfEntry
<1>9. ASSUME NEW name, name # Last(r)
      PROVE  get_inode_from_path(C[d], name) = get_inode_from_path(B[d], name)
  <2>. DEFINE j == Position(C[d], name)
              i == Position(B[d], name)
  <2>1. CASE /\ get_inode_from_path(C[d], name) = NULL
             /\ \A m \in 1..Len(C[d].sub_items) : C[d].sub_items[m].item_path # name
    <3>1. \A m \in 1..l : B[d].sub_items[m].item_path # name
      <4>1. SUFFICES ASSUME NEW m \in 1..l, B[d].sub_items[m].item_path = name
                     PROVE  FALSE
        OBVIOUS
      <4>2. m # n
        BY <1>2, <1>9, <4>1
      <4>. DEFINE x == IF m < n THEN m ELSE m - 1
      <4>. HIDE DEF B, C, l
      <4>3. x \in 1..(l-1) /\ (x < n <=> m < n) /\ (~ (x < n) => x + 1 = m)
        BY <1>2, <1>6, <4>2
      <4>4. C[d].sub_items[x] = B[d].sub_items[m] /\ x \in 1..Len(C[d].sub_items)
        BY <1>6, <4>3
      <4>. QED BY <2>1, <4>1, <4>4
    <3>. QED BY <1>1, <1>2, <2>1, <3>1, InodeOfEntry
  <2>2. CASE /\ j \in 1..Len(C[d].sub_items) /\ C[d].sub_items[j].item_path = name
             /\ get_inode_from_path(C[d], name) = C[d].sub_items[j].inodeid
    <3>1. Old(j) \in 1..l /\ C[d].sub_items[j] = B[d].sub_items[Old(j)]
      BY <1>7, <2>2
    <3>. HIDE DEF j
    <3>2. get_inode_from_path(B[d], name) = B[d].sub_items[Old(j)].inodeid
      BY <1>2, <2>2, <3>1, Lookup
    <3>. QED BY <2>2, <3>1, <3>2
  <2>. QED BY <1>1, <1>2, <2>1, <2>2, InodeOfEntry
<1>10. << >> \in P
  <2>1. ~ IsPrefix(r, << >>)
    <3>1. Len(r) \in Nat /\ Len(r) # 0 /\ Len(<< >>) = 0
      OBVIOUS
    <3>2. ~ (Len(r) <= 0)
      BY <3>1
    <3>. QED BY <3>1, <3>2 DEF IsPrefix
  <2>. QED BY <2>1, WalkOfRoot
<1>11. ASSUME NEW p \in Seq(Names), p # << >>, Front(p) \in P
       PROVE  p \in P
  <2>. DEFINE v == go_through_inodes(s, Front(p))
              w == go_through_inodes(t, Front(p))
  <2>1. /\ v \in DOMAIN s \cup {NULL} /\ w \in DOMAIN t \cup {NULL}
        /\ go_through_inodes(s, p)
             = IF v = NULL THEN NULL ELSE get_inode_from_path(B[v], Last(p))
        /\ go_through_inodes(t, p)
             = IF w = NULL THEN NULL ELSE get_inode_from_path(C[w], Last(p))
        /\ w = IF IsPrefix(r, Front(p)) THEN NULL ELSE v
        /\ p = r => v = d
    BY <1>11, StepOfWalk
  <2>2. Front(p) \in Seq(Names)
    BY <1>11, FrontLast
  <2>3. v = d => Front(p) = Front(r)
    BY <1>1, <1>2, <1>3, <2>2, OnePath
  <2>4. IsPrefix(r, p) <=> r = p \/ IsPrefix(r, Front(p))
    BY <1>11, PrefixOfFront
  <2>. HIDE DEF v, w, B, C, l
  <2>5. CASE IsPrefix(r, Front(p))
    BY <1>11, <2>1, <2>4, <2>5 DEF P
  <2>6. CASE ~ IsPrefix(r, Front(p)) /\ v = NULL
    BY <1>11, <2>1, <2>6 DEF P
  <2>7. CASE ~ IsPrefix(r, Front(p)) /\ v # NULL /\ v # d
    BY <1>1, <1>2, <1>11, <2>1, <2>4, <2>7 DEF P
  <2>8. CASE ~ IsPrefix(r, Front(p)) /\ v = d /\ Last(p) = Last(r)
    <3>1. p = r
      BY <1>11, <2>3, <2>8, SameEnds
    <3>. QED BY <1>1, <1>2, <1>8, <1>11, <2>1, <2>4, <2>8, <3>1 DEF P
  <2>9. CASE ~ IsPrefix(r, Front(p)) /\ v = d /\ Last(p) # Last(r)
    <3>1. p # r
      BY <2>9
    <3>. QED BY <1>1, <1>2, <1>9, <1>11, <2>1, <2>4, <2>9, <3>1 DEF P
  <2>. QED BY <2>1, <2>5, <2>6, <2>7, <2>8, <2>9
<1>. HIDE DEF P
<1>12. \A p \in Seq(Names) : p \in P
  BY <1>10, <1>11, PathInduction
<1>. QED BY <1>2, <1>4, <1>5, <1>12 DEF P

----------------------------------------------------------------------------
(* What the handlers do to a sound device, in terms of its paths.          *)

LEMMA PathsAre ==
  \A p : p \in Paths <=> p \in Seq(Names) /\ Len(p) <= MaxDepth
<1>1. ASSUME NEW p \in Paths
      PROVE  p \in Seq(Names) /\ Len(p) <= MaxDepth
  <2>1. PICK n \in 0..MaxDepth : p \in [1..n -> Names]
    BY DEF Paths
  <2>2. n \in Nat /\ n <= MaxDepth
    BY <2>1, CkvfsAssumption
  <2>. QED BY <2>1, <2>2
<1>2. ASSUME NEW p \in Seq(Names), Len(p) <= MaxDepth
      PROVE  p \in Paths
  <2>1. Len(p) \in 0..MaxDepth /\ p \in [1..Len(p) -> Names]
    BY <1>2, CkvfsAssumption
  <2>. QED BY <2>1 DEF Paths
<1>. QED BY <1>1, <1>2

LEMMA FrontIsPath ==
  ASSUME NEW p \in Paths, p # << >>
  PROVE  Front(p) \in Paths
<1>1. /\ p \in Seq(Names) /\ Len(p) <= MaxDepth /\ Len(p) \in Nat
      /\ Front(p) \in Seq(Names) /\ Len(Front(p)) = Len(p) - 1
  BY PathsAre, FrontLast
<1>. QED BY <1>1, PathsAre, CkvfsAssumption

Node(s, k) == [kind |-> IF BlobsOf(s)[k].is_dir = ISDIR THEN "dir" ELSE "file",
               data |-> BlobsOf(s)[k].data]

\* What no path leads to stays as it is.
Frozen(s, t) ==
  \A k \in DOMAIN s :
    (\A q \in Paths : go_through_inodes(s, q) # k) => k \in DOMAIN t /\ t[k] = s[k]

\* The file at p gets the data buf,
Refilled(s, p, buf, t) ==
  LET k == go_through_inodes(s, p)
  IN  /\ Frozen(s, t)
      /\ k \in DOMAIN s /\ DOMAIN t = DOMAIN s
      /\ \A q \in Seq(Names) : go_through_inodes(t, q) = go_through_inodes(s, q)
      /\ \A x \in DOMAIN s :
           Node(t, x) = IF x = k THEN [kind |-> "file", data |-> buf] ELSE Node(s, x)

\* p, which led nowhere, leads to the new key id and its node,
Grown(s, p, id, node, t) ==
  LET d == go_through_inodes(s, Front(p))
  IN  /\ Frozen(s, t)
      /\ d \in DOMAIN s /\ Node(s, d).kind = "dir" /\ go_through_inodes(s, p) = NULL
      /\ id \notin DOMAIN s /\ id # NULL /\ DOMAIN t = DOMAIN s \cup {id}
      /\ \A q \in Seq(Names) :
           go_through_inodes(t, q) = IF q = p THEN id ELSE go_through_inodes(s, q)
      /\ \A x \in DOMAIN t : Node(t, x) = IF x = id THEN node ELSE Node(s, x)

\* and p and what is below it lead nowhere any more.
Shrunk(s, p, t) ==
  LET k == go_through_inodes(s, p)
  IN  /\ Frozen(s, t)
      /\ k \in DOMAIN s /\ DOMAIN t = DOMAIN s \ {k}
      /\ \A q \in Seq(Names) :
           go_through_inodes(t, q) = IF IsPrefix(p, q) THEN NULL ELSE go_through_inodes(s, q)
      /\ \A x \in DOMAIN t : Node(t, x) = Node(s, x)

LEMMA RefilledByData ==
  ASSUME NEW s, Sound(s), NEW p \in Paths, NEW k, k = go_through_inodes(s, p),
         k \in DOMAIN s, BlobsOf(s)[k].is_dir = NOTDIR,
         NEW buf \in Seq(Bytes)
  PROVE  Refilled(s, p, buf, write_to_dict(s, k, [BlobsOf(s)[k] EXCEPT !.data = buf]))
<1>. DEFINE b == [BlobsOf(s)[k] EXCEPT !.data = buf]
            t == write_to_dict(s, k, b)
<1>1. /\ Sound(t) /\ Written(s, k, b, t)
      /\ b.sub_items = BlobsOf(s)[k].sub_items /\ b.is_dir = NOTDIR /\ b.data = buf
  BY DataReplaced
<1>2. \A x \in DOMAIN s \ {k} : t[x] = s[x]
  BY DEF write_to_dict, perform_insertion
<1>. HIDE DEF t, b
<1>3. \A q \in Seq(Names) : go_through_inodes(t, q) = go_through_inodes(s, q)
  BY <1>1, WalksReplaced
<1>4. /\ DOMAIN t = DOMAIN s /\ BlobsOf(t)[k] = b
      /\ \A x \in DOMAIN s \ {k} : BlobsOf(t)[x] = BlobsOf(s)[x]
  BY <1>1 DEF Written
<1>5. \A x \in DOMAIN s :
         Node(t, x) = IF x = k THEN [kind |-> "file", data |-> buf] ELSE Node(s, x)
  BY <1>1, <1>4 DEF Node, ISDIR, NOTDIR
<1>6. Frozen(s, t)
  BY <1>2, <1>4 DEF Frozen
<1>. QED BY <1>3, <1>4, <1>5, <1>6 DEF Refilled, t, b

LEMMA GrownByEntry ==
  ASSUME NEW s, Sound(s), NEW p \in Paths, p # << >>,
         NEW d, d = go_through_inodes(s, Front(p)), d \in DOMAIN s, NEW is_dir \in BOOLEAN,
         BlobsOf(s)[d].is_dir = ISDIR,
         ~ has_path(BlobsOf(s)[d], Last(p)),
         Len(BlobsOf(s)[d].sub_items) < MAX_ITEMS,
         d = root_id => Last(p) # HEAD,
         NEW id \in Ids, id \notin DOMAIN s,
         NEW new, GoodBlob(id, new), new.sub_items = << >>, new.is_dir = ISDIR <=> is_dir
  PROVE  Grown(s, p, id, [kind |-> IF is_dir THEN "dir" ELSE "file", data |-> new.data],
               write_to_dict(insert_item_into_blob(s, BlobsOf(s)[d], Last(p), is_dir, id),
                             id, new))
<1>. DEFINE item == [item_path |-> Last(p), inodeid |-> id, is_dir |-> is_dir]
            t    == write_to_dict(insert_item_into_blob(s, BlobsOf(s)[d], Last(p), is_dir, id),
                                  id, new)
<1>1. p \in Seq(Names) /\ Last(p) \in Names /\ Front(p) \in Paths
  BY PathIsSeq, FrontIsPath DEF Root
<1>2. /\ Sound(t)
      /\ Added(BlobsOf(s), d, item, BlobsOf(t)) /\ BlobsOf(t)[id] = new
      /\ BlobsOf(t)[d].data = BlobsOf(s)[d].data
  BY <1>1, EntryAdded
<1>3. BlobsOf(s)[d].inodeid = d /\ DOMAIN BlobsOf(s) = DOMAIN s /\ DOMAIN BlobsOf(t) = DOMAIN t
  BY <1>2, StoredBlobs DEF Sound, GoodBlob
<1>4. \A x \in DOMAIN s \ {d, id} : t[x] = s[x]
  BY <1>3 DEF write_to_dict, perform_insertion, insert_item_into_blob
<1>5. item.item_path = Last(p) /\ item.inodeid = id
  OBVIOUS
<1>. HIDE DEF t, item
<1>6. /\ go_through_inodes(s, p) = NULL
      /\ \A q \in Seq(Names) :
           go_through_inodes(t, q) = IF q = p THEN id ELSE go_through_inodes(s, q)
  <2>1. go_through_inodes(s, Front(p)) = d
    OBVIOUS
  <2>. QED BY <1>1, <1>2, <1>5, <2>1, WalksAdded
<1>7. /\ DOMAIN t = DOMAIN s \cup {id}
      /\ BlobsOf(t)[d].is_dir = ISDIR
      /\ \A x \in DOMAIN s \ {d} : BlobsOf(t)[x] = BlobsOf(s)[x]
  BY <1>2, <1>3, <1>5 DEF Added
<1>8. id # NULL
  BY BlobAssumption DEF Keys
<1>9. \A x \in DOMAIN t :
        Node(t, x) = IF x = id THEN [kind |-> IF is_dir THEN "dir" ELSE "file",
                                     data |-> new.data]
                     ELSE Node(s, x)
  BY <1>2, <1>7 DEF Node
<1>10. Frozen(s, t)
  <2>1. ASSUME NEW k \in DOMAIN s, \A q \in Paths : go_through_inodes(s, q) # k
        PROVE  k \in DOMAIN t /\ t[k] = s[k]
    BY <1>1, <1>4, <1>7, <2>1
  <2>. QED BY <2>1 DEF Frozen
<1>11. Node(s, d).kind = "dir"
  BY DEF Node
<1>. QED BY <1>6, <1>7, <1>8, <1>9, <1>10, <1>11 DEF Grown, t

LEMMA ShrunkByRemoval ==
  ASSUME NEW s, Sound(s), NEW p \in Paths, p # << >>,
         NEW d, d = go_through_inodes(s, Front(p)), d \in DOMAIN s,
         has_path(BlobsOf(s)[d], Last(p))
  PROVE  Shrunk(s, p, write_to_dict(perform_delete(s, get_inode_from_path(BlobsOf(s)[d], Last(p))),
                                    BlobsOf(s)[d].inodeid,
                                    remove_inode_from_path(BlobsOf(s)[d], Last(p))))
<1>. DEFINE n  == Position(BlobsOf(s)[d], Last(p))
            id == get_inode_from_path(BlobsOf(s)[d], Last(p))
            t  == write_to_dict(perform_delete(s, id), BlobsOf(s)[d].inodeid,
                                remove_inode_from_path(BlobsOf(s)[d], Last(p)))
<1>1. p \in Seq(Names) /\ Front(p) \in Paths
  BY PathIsSeq, FrontIsPath DEF Root
<1>2. /\ Sound(t) /\ Removed(BlobsOf(s), d, n, BlobsOf(t))
      /\ BlobsOf(t)[d].data = BlobsOf(s)[d].data
  BY EntryRemoved
<1>3. /\ BlobsOf(s)[d].inodeid = d /\ BlobsOf(s)[d].sub_items \in Seq(Item)
      /\ DOMAIN BlobsOf(s) = DOMAIN s /\ DOMAIN BlobsOf(t) = DOMAIN t
  BY <1>2, StoredBlobs, GoodBlobItems DEF Sound, GoodBlob
<1>4. \A x \in DOMAIN s \ {d, id} : t[x] = s[x]
  BY <1>3 DEF write_to_dict, perform_insertion, perform_delete
<1>5. /\ BlobsOf(s)[d].sub_items[n].item_path = Last(p)
      /\ BlobsOf(s)[d].sub_items[n].inodeid = id
  BY <1>3, InodeOfEntry
<1>. HIDE DEF t, n, id
<1>6. /\ go_through_inodes(s, p) = id
      /\ DOMAIN t = DOMAIN s \ {id}
      /\ \A q \in Seq(Names) :
           go_through_inodes(t, q) = IF IsPrefix(p, q) THEN NULL ELSE go_through_inodes(s, q)
  <2>1. /\ go_through_inodes(s, Front(p)) = d
        /\ Last(p) = BlobsOf(s)[d].sub_items[n].item_path
        /\ id = BlobsOf(s)[d].sub_items[n].inodeid
    BY <1>5
  <2>2. /\ go_through_inodes(s, p) = id /\ id # d
        /\ \A q \in Seq(Names) :
             go_through_inodes(t, q) = IF IsPrefix(p, q) THEN NULL ELSE go_through_inodes(s, q)
    BY <1>1, <1>2, <2>1, WalksRemoved
  <2>3. DOMAIN t = DOMAIN s \ {id}
    BY <1>2, <1>3, <2>1, <2>2 DEF Removed
  <2>. QED BY <2>2, <2>3
<1>7. /\ BlobsOf(t)[d].is_dir = BlobsOf(s)[d].is_dir
      /\ \A x \in DOMAIN t \ {d} : BlobsOf(t)[x] = BlobsOf(s)[x]
  BY <1>2, <1>3 DEF Removed
<1>8. \A x \in DOMAIN t : Node(t, x) = Node(s, x)
  BY <1>2, <1>7 DEF Node
<1>9. Frozen(s, t)
  <2>1. ASSUME NEW k \in DOMAIN s, \A q \in Paths : go_through_inodes(s, q) # k
        PROVE  k \in DOMAIN t /\ t[k] = s[k]
    BY <1>1, <1>4, <1>6, <2>1
  <2>. QED BY <2>1 DEF Frozen
<1>10. id \in DOMAIN s
  <2>1. id = BlobsOf(s)[d].sub_items[n].inodeid /\ n \in 1..Len(BlobsOf(s)[d].sub_items)
    BY <1>3, <1>5, InodeOfEntry DEF n
  <2>. QED BY <1>3, <2>1 DEF Sound, Links, EntriesLead
<1>. QED BY <1>6, <1>8, <1>9, <1>10 DEF Shrunk, t, id

----------------------------------------------------------------------------
(* The handlers.                                                           *)

\* What the look at a path tells of it: "/HEAD", which leads nowhere, passes
\* for a directory.
LEMMA AttrOfPath ==
  ASSUME NEW s, Sound(s), NEW p \in Seq(Names)
  PROVE  LET k == go_through_inodes(s, p)
         IN  /\ p = <<HEAD>> => k = NULL /\ attr(s, p).err = "OK" /\ attr(s, p).kind = "dir"
             /\ p # <<HEAD>> /\ k # NULL =>
                  /\ k \in DOMAIN s
                  /\ attr(s, p).err = "OK" /\ attr(s, p).kind = Node(s, k).kind
                  /\ attr(s, p).n = Len(Node(s, k).data)
             /\ p # <<HEAD>> /\ k = NULL => attr(s, p).err = "ENOENT" /\ attr(s, p).kind = "none"
<1>. DEFINE found(b) == [err  |-> "OK", n |-> Len(b.data),
                         kind |-> IF b.is_dir = ISDIR THEN "dir" ELSE "file"]
            absent   == [err |-> "ENOENT", n |-> 0, kind |-> "none"]
            k        == go_through_inodes(s, p)
            d        == go_through_inodes(s, Front(p))
            fn       == Last(p)
<1>1. /\ DOMAIN BlobsOf(s) = DOMAIN s /\ root_id \in DOMAIN s /\ NULL \notin DOMAIN s
      /\ BlobsOf(s)[root_id].is_dir = ISDIR /\ ~ has_path(BlobsOf(s)[root_id], HEAD)
      /\ \A x \in DOMAIN s : get_blob_from_key(s, x) = BlobsOf(s)[x]
  BY StoredBlobs, WalkEnds DEF Sound, Rooted
<1>2. CASE p = << >>
  <2>1. attr(s, p) = found(BlobsOf(s)[root_id])
    BY <1>1, <1>2 DEF attr, get_root_inode, get_blob_from_key, Root
  <2>2. k = root_id /\ k # NULL
    BY <1>1, <1>2, WalkOfRoot
  <2>3. << >> # <<HEAD>>
    OBVIOUS
  <2>. QED BY <1>1, <1>2, <2>1, <2>2, <2>3 DEF Node
<1>3. CASE p = <<HEAD>>
  <2>1. attr(s, p) = found(BlobsOf(s)[root_id])
    BY <1>1, <1>3 DEF attr, get_root_inode, get_blob_from_key
  <2>2. p # << >> /\ Last(p) = HEAD /\ Front(p) = << >>
    <3>1. p # << >> /\ Last(p) = HEAD
      BY <1>3 DEF Last
    <3>. QED BY <1>3, <3>1, Single
  <2>3. d = root_id
    BY <2>2, WalkOfRoot
  <2>4. k = NULL
    BY <1>1, <2>2, <2>3, WalkEnters
  <2>. QED BY <1>1, <1>3, <2>1, <2>4
<1>4. CASE p # << >> /\ p # <<HEAD>>
  <2>1. /\ d \in DOMAIN s \cup {NULL}
        /\ k = IF d = NULL THEN NULL ELSE get_inode_from_path(BlobsOf(s)[d], fn)
    BY <1>4, StepOfWalk
  <2>2. attr(s, p) = IF d = NULL THEN absent
                     ELSE IF /\ has_path(get_blob_from_key(s, d), fn)
                             /\ get_blob_from_key(s, d).is_dir = ISDIR
                          THEN found(get_blob_from_key(s,
                                 get_inode_from_path(get_blob_from_key(s, d), fn)))
                          ELSE absent
    BY <1>4 DEF attr, get_fn_dir, Root
  <2>. HIDE DEF d, k, fn
  <2>3. CASE d = NULL
    BY <1>4, <2>1, <2>2, <2>3 DEF k
  <2>4. CASE d \in DOMAIN s /\ k = NULL
    <3>1. ~ has_path(BlobsOf(s)[d], fn)
      BY <1>1, <2>1, <2>4, EntryOfDirectory
    <3>. QED BY <1>1, <1>4, <2>2, <2>4, <3>1 DEF k
  <2>5. CASE d \in DOMAIN s /\ k # NULL
    <3>1. /\ k = get_inode_from_path(BlobsOf(s)[d], fn)
          /\ has_path(BlobsOf(s)[d], fn) /\ BlobsOf(s)[d].is_dir = ISDIR /\ k \in DOMAIN s
      BY <1>1, <2>1, <2>5, EntryOfDirectory
    <3>2. attr(s, p) = found(BlobsOf(s)[k])
      BY <1>1, <2>2, <2>5, <3>1
    <3>. QED BY <1>4, <2>5, <3>1, <3>2 DEF Node, k
  <2>. QED BY <2>1, <2>3, <2>4, <2>5
<1>. QED BY <1>2, <1>3, <1>4

LEMMA KindsOfNodes ==
  ASSUME NEW s, Sound(s), NEW k \in DOMAIN s
  PROVE  /\ Node(s, k).kind \in {"dir", "file"}
         /\ Node(s, k).kind = "dir" <=> BlobsOf(s)[k].is_dir = ISDIR
         /\ Node(s, k).kind = "file" <=> BlobsOf(s)[k].is_dir = NOTDIR
         /\ Node(s, k).kind = "dir" => Node(s, k).data = << >>
<1>1. BlobsOf(s)[k] \in DirBlob \cup FileBlob
  BY StoredBlobs DEF Sound, GoodBlob
<1>. QED BY <1>1 DEF Node, DirBlob, FileBlob, ISDIR, NOTDIR

\* strlen stops at the first NUL, or runs on behind a buffer without one.
LEMMA ScannedBounds ==
  ASSUME NEW buf \in Seq(Bytes), NEW n \in Scanned(buf)
  PROVE  Text(buf) \in Nat /\ n \in Nat /\ Text(buf) <= n /\ n <= Text(buf) + MaxOverread
<1>. DEFINE I == {i \in 1..Len(buf) : buf[i] = NUL}
            m == IF I # {} THEN Min(I) ELSE 0
<1>1. Len(buf) \in Nat /\ I \in SUBSET Nat /\ I \subseteq 1..Len(buf)
  OBVIOUS
<1>2. Text(buf) = IF m = 0 THEN Len(buf) ELSE m - 1
  BY DEF Text, SelectInSeq
<1>3. I # {} => Min(I) \in I
  BY <1>1, MinIsLeast
<1>4. m \in 0..Len(buf)
  BY <1>1, <1>3
<1>. HIDE DEF m
<1>5. Text(buf) \in Nat
  BY <1>1, <1>2, <1>4
<1>. QED BY <1>5, CkvfsAssumption DEF Scanned

\* hello_write fills the file at its path or refuses.
LEMMA WriteRefills ==
  ASSUME IInv, NEW p \in Paths, NEW buf \in Payloads, hello_write(p, buf)
  PROVE  /\ mounted /\ mounted' = mounted
         /\ reply'.op = "write" /\ reply'.path = p /\ reply'.err = "OK"
         /\ Node(store, go_through_inodes(store, p)).kind = "file"
         /\ go_through_inodes(store, p) # NULL
         /\ \/ /\ UNCHANGED store
               /\ reply'.n = 0 /\ ~ FitsBlock(p, Text(buf) + MaxOverread)
            \/ /\ Refilled(store, p, Kept(buf), store')
               /\ reply'.n = Len(buf) /\ FitsBlock(p, Text(buf))
<1>. DEFINE d  == go_through_inodes(store, Front(p))
            id == get_inode_from_path(get_blob_from_key(store, d), Last(p))
            b  == get_blob_from_key(store, id)
            req(off) == [Request("write", p) EXCEPT !.off = off]
<1>1. /\ Sound(store) /\ mounted /\ p \in Seq(Names) /\ Len(p) \in Nat
      /\ attr(store, p).kind = "file"
  BY MountedSound, PathIsSeq DEF hello_write, IsFile
<1>2. /\ d # NULL /\ d \in DOMAIN store
      /\ id \in DOMAIN store /\ BlobsOf(store)[id].is_dir = NOTDIR
  BY <1>1, FileEntry, WalkEnds
<1>3. PICK off \in {0, attr(store, p).n}, scanned \in Scanned(buf) :
        IF TooLong(p, scanned) THEN Return(req(off)) /\ UNCHANGED store
        ELSE /\ Return([req(off) EXCEPT !.n = Len(buf)])
             /\ store' = write_to_dict(store, b.inodeid, [b EXCEPT !.data = Kept(buf)])
  BY <1>2 DEF hello_write, get_fn_dir
<1>4. /\ b = BlobsOf(store)[id] /\ b.inodeid = id
      /\ get_blob_from_key(store, d) = BlobsOf(store)[d]
  <2>. HIDE DEF id, d
  <2>. QED BY <1>1, <1>2, StoredBlobs DEF Sound, GoodBlob
<1>5. id = go_through_inodes(store, p)
  <2>1. p # << >>
    <3>1. attr(store, << >>).kind = "dir"
      BY <1>1, StoredBlobs DEF attr, Root, get_root_inode, get_blob_from_key, Sound, Rooted
    <3>. QED BY <1>1, <3>1
  <2>. QED BY <1>1, <1>2, <1>4, <2>1, StepOfWalk
<1>6. /\ Text(buf) \in Nat /\ scanned \in Nat
      /\ Text(buf) <= scanned /\ scanned <= Text(buf) + MaxOverread
      /\ Kept(buf) \in Seq(Bytes)
  BY CkvfsAssumption, ScannedBounds, KeptBytes
<1>7. /\ req(off).op = "write" /\ req(off).path = p /\ req(off).err = "OK" /\ req(off).n = 0
      /\ LET r == [req(off) EXCEPT !.n = Len(buf)]
         IN  r.op = "write" /\ r.path = p /\ r.err = "OK" /\ r.n = Len(buf)
  BY DEF Request, NoReply
<1>. HIDE DEF id, d, b, req
<1>8. Node(store, id).kind = "file" /\ id # NULL
  BY <1>1, <1>2, KindsOfNodes, WalkEnds
<1>9. CASE TooLong(p, scanned)
  <2>1. ~ FitsBlock(p, Text(buf) + MaxOverread)
    <3>1. scanned + 2 * Len(p) > MAX_BLOCK
      BY <1>9 DEF TooLong, strlen
    <3>2. ~ (Text(buf) + MaxOverread + 2 * Len(p) <= MAX_BLOCK)
      BY <3>1, <1>1, <1>6, CkvfsAssumption, BlobAssumption
    <3>. QED BY <3>2 DEF FitsBlock, strlen
  <2>. QED BY <1>1, <1>3, <1>5, <1>7, <1>8, <1>9, <2>1 DEF Return
<1>10. CASE ~ TooLong(p, scanned)
  <2>1. Text(buf) + 2 * Len(p) <= MAX_BLOCK
    <3>1. ~ (scanned + 2 * Len(p) > MAX_BLOCK)
      BY <1>10 DEF TooLong, strlen
    <3>. QED BY <3>1, <1>1, <1>6, BlobAssumption
  <2>2. FitsBlock(p, Text(buf))
    BY <2>1, <1>1, <1>6, BlobAssumption DEF FitsBlock, strlen
  <2>3. Refilled(store, p, Kept(buf),
               write_to_dict(store, id, [BlobsOf(store)[id] EXCEPT !.data = Kept(buf)]))
    BY <1>1, <1>2, <1>5, <1>6, RefilledByData
  <2>. QED BY <1>1, <1>3, <1>4, <1>5, <1>7, <1>8, <1>10, <2>2, <2>3 DEF Return
<1>. QED BY <1>9, <1>10

\* A name in the directory of a path: the path leads somewhere.
LEMMA NameTaken ==
  ASSUME NEW s, Sound(s), NEW p \in Seq(Names), p # << >>,
         go_through_inodes(s, Front(p)) # NULL
  PROVE  has_path(get_blob_from_key(s, go_through_inodes(s, Front(p))), Last(p))
           <=> go_through_inodes(s, p) # NULL
<1>. DEFINE d == go_through_inodes(s, Front(p))
<1>1. /\ d \in DOMAIN s
      /\ go_through_inodes(s, p) = get_inode_from_path(BlobsOf(s)[d], Last(p))
  BY StepOfWalk
<1>. HIDE DEF d
<1>2. get_blob_from_key(s, d) = BlobsOf(s)[d] /\ NULL \notin DOMAIN s
  BY <1>1, StoredBlobs, WalkEnds DEF Sound
<1>3. has_path(BlobsOf(s)[d], Last(p)) => go_through_inodes(s, p) # NULL
  BY <1>1, <1>2, EntryOfDirectory
<1>4. go_through_inodes(s, p) # NULL => has_path(BlobsOf(s)[d], Last(p))
  BY <1>1, EntryOfDirectory
<1>. QED BY <1>2, <1>3, <1>4 DEF d

\* What hello_create and hello_mkdir share when they add an entry.
LEMMA AddGrows ==
  ASSUME IInv, mounted, NEW op, NEW p \in Paths, p \notin {Root, <<HEAD>>}, ~ IsFile(Front(p)),
         go_through_inodes(store, Front(p)) # NULL,
         NEW dir, dir = get_blob_from_key(store, go_through_inodes(store, Front(p))),
         ~ has_path(dir, Last(p)), NEW is_dir \in BOOLEAN,
         AddEntry(op, p, dir, is_dir)
  PROVE  \/ Die(op, p)
         \/ /\ mounted' = mounted
            /\ reply'.op = op /\ reply'.path = p /\ reply'.err = "OK"
            /\ \E id : Grown(store, p, id,
                             [kind |-> IF is_dir THEN "dir" ELSE "file", data |-> << >>], store')
<1>. DEFINE d == go_through_inodes(store, Front(p))
<1>1. Sound(store) /\ p \in Seq(Names) /\ p # << >>
  BY MountedSound, PathIsSeq DEF Root
<1>2. /\ d \in DOMAIN store
      /\ BlobsOf(store)[d].is_dir = ISDIR
      /\ d = root_id => Last(p) # HEAD
  BY <1>1, DirectoryOfNew DEF IsFile
<1>3. dir = BlobsOf(store)[d] /\ GoodBlob(d, dir)
  BY <1>1, <1>2, StoredBlobs DEF Sound
<1>4. CASE Len(dir.sub_items) >= MAX_ITEMS
  BY <1>4 DEF AddEntry
<1>5. CASE ~ (Len(dir.sub_items) >= MAX_ITEMS)
  <2>1. PICK id \in get_random_num(store) :
          /\ store' = write_to_dict(insert_item_into_blob(store, dir, Last(p), is_dir, id),
                                    id, IF is_dir THEN EmptyDir(id) ELSE EmptyFile(id))
          /\ Return(Request(op, p))
    BY <1>5 DEF AddEntry, get_fn_dir
  <2>2. id \in Ids /\ id \notin DOMAIN store
    BY DEF get_random_num
  <2>. DEFINE new == IF is_dir THEN EmptyDir(id) ELSE EmptyFile(id)
  <2>3. /\ GoodBlob(id, new) /\ new.sub_items = << >> /\ new.data = << >>
        /\ new.is_dir = ISDIR <=> is_dir
    BY <2>2, NewBlobs DEF EmptyDir, EmptyFile
  <2>. HIDE DEF new, d
  <2>4. Len(dir.sub_items) < MAX_ITEMS
    <3>1. Len(dir.sub_items) \in Nat
      BY <1>3, GoodBlobItems
    <3>. QED BY <1>5, <3>1, BlobAssumption
  <2>5. d = go_through_inodes(store, Front(p))
    BY DEF d
  <2>6. /\ ~ has_path(BlobsOf(store)[d], Last(p))
        /\ Len(BlobsOf(store)[d].sub_items) < MAX_ITEMS
    BY <1>3, <2>4
  <2>7. Grown(store, p, id, [kind |-> IF is_dir THEN "dir" ELSE "file", data |-> new.data],
              write_to_dict(insert_item_into_blob(store, BlobsOf(store)[d], Last(p), is_dir, id),
                            id, new))
    BY <1>1, <1>2, <2>2, <2>3, <2>5, <2>6, GrownByEntry
  <2>8. Grown(store, p, id, [kind |-> IF is_dir THEN "dir" ELSE "file", data |-> << >>], store')
    BY <1>3, <2>1, <2>3, <2>7 DEF new
  <2>9. /\ mounted' = mounted
        /\ reply'.op = op /\ reply'.path = p /\ reply'.err = "OK"
    BY <2>1 DEF Return, Request, NoReply
  <2>. QED BY <2>8, <2>9
<1>. QED BY <1>4, <1>5

\* hello_create and hello_mkdir make p what it is to be, unless it is there or
\* its directory is not; or they die.
LEMMA CreateGrows ==
  ASSUME IInv, NEW p \in Paths, hello_create(p)
  PROVE  /\ mounted /\ p # << >>
         /\ \/ Die("create", p)
            \/ /\ mounted' = mounted
               /\ reply'.op = "create" /\ reply'.path = p /\ reply'.err = "OK"
               /\ \/ /\ UNCHANGED store
                     /\ \/ go_through_inodes(store, Front(p)) = NULL
                        \/ go_through_inodes(store, p) # NULL
                  \/ \E id : Grown(store, p, id, [kind |-> "file", data |-> << >>], store')
<1>. DEFINE d   == go_through_inodes(store, Front(p))
            dir == get_blob_from_key(store, d)
<1>1. /\ mounted /\ Sound(store) /\ p \in Seq(Names) /\ p # << >>
      /\ p \notin {Root, <<HEAD>>} /\ ~ IsFile(Front(p))
  BY MountedSound, PathIsSeq DEF hello_create, get_fn_dir, Root
<1>2. CASE d = NULL \/ has_path(dir, Last(p))
  <2>1. Return(Request("create", p)) /\ UNCHANGED store
    BY <1>2 DEF hello_create, get_fn_dir
  <2>2. d = NULL \/ go_through_inodes(store, p) # NULL
    BY <1>1, <1>2, NameTaken
  <2>. QED BY <1>1, <2>1, <2>2 DEF Return, Request, NoReply
<1>3. CASE ~ (d = NULL \/ has_path(dir, Last(p)))
  <2>1. AddEntry("create", p, dir, FALSE)
    BY <1>3 DEF hello_create, get_fn_dir
  <2>. QED BY <1>1, <1>3, <2>1, AddGrows
<1>. QED BY <1>2, <1>3

LEMMA MkdirGrows ==
  ASSUME IInv, NEW p \in Paths, hello_mkdir(p)
  PROVE  /\ mounted /\ p # << >>
         /\ \/ Die("mkdir", p)
            \/ /\ mounted' = mounted
               /\ reply'.op = "mkdir" /\ reply'.path = p
               /\ \/ /\ UNCHANGED store /\ reply'.err \in {"OK", "ENOTDIR"}
                     /\ \/ go_through_inodes(store, Front(p)) = NULL
                        \/ go_through_inodes(store, p) # NULL
                  \/ /\ reply'.err = "OK"
                     /\ \E id : Grown(store, p, id, [kind |-> "dir", data |-> << >>], store')
<1>. DEFINE d   == go_through_inodes(store, Front(p))
            dir == get_blob_from_key(store, d)
<1>1. /\ mounted /\ Sound(store) /\ p \in Seq(Names) /\ p # << >>
      /\ p \notin {Root, <<HEAD>>} /\ ~ IsFile(Front(p))
  BY MountedSound, PathIsSeq DEF hello_mkdir, get_fn_dir, Root
<1>2. CASE d = NULL
  <2>1. Fail("mkdir", p, "ENOTDIR") /\ UNCHANGED store
    BY <1>2 DEF hello_mkdir, get_fn_dir
  <2>. QED BY <1>1, <1>2, <2>1 DEF Fail, Return, Request, NoReply
<1>3. CASE d # NULL
  <2>1. dir.is_dir = ISDIR
    <3>1. d \in DOMAIN store /\ BlobsOf(store)[d].is_dir = ISDIR
      BY <1>1, <1>3, DirectoryOfNew DEF IsFile
    <3>. HIDE DEF d
    <3>. QED BY <1>1, <3>1, StoredBlobs DEF Sound
  <2>2. CASE has_path(dir, Last(p))
    <3>1. Return(Request("mkdir", p)) /\ UNCHANGED store
      BY <1>3, <2>2 DEF hello_mkdir, get_fn_dir
    <3>2. go_through_inodes(store, p) # NULL
      BY <1>1, <1>3, <2>2, NameTaken
    <3>. QED BY <1>1, <3>1, <3>2 DEF Return, Request, NoReply
  <2>3. CASE ~ has_path(dir, Last(p))
    <3>1. AddEntry("mkdir", p, dir, TRUE)
      BY <1>3, <2>1, <2>3 DEF hello_mkdir, get_fn_dir
    <3>. QED BY <1>1, <1>3, <2>3, <3>1, AddGrows
  <2>. QED BY <2>2, <2>3
<1>. QED BY <1>2, <1>3

\* hello_unlink and hello_rmdir take away p and what is below it, if p leads
\* anywhere.
LEMMA RemovalShrinks ==
  ASSUME IInv, mounted, NEW op, NEW p \in Paths, p # Root, RemoveEntry(op, p)
  PROVE  /\ mounted' = mounted
         /\ reply'.op = op /\ reply'.path = p /\ reply'.err = "OK"
         /\ \/ UNCHANGED store /\ go_through_inodes(store, p) = NULL
            \/ Shrunk(store, p, store')
<1>. DEFINE d   == go_through_inodes(store, Front(p))
            dir == get_blob_from_key(store, d)
            id  == get_inode_from_path(dir, Last(p))
<1>1. Sound(store) /\ p \in Seq(Names) /\ p # << >>
  BY MountedSound, PathIsSeq DEF Root
<1>2. /\ mounted' = mounted
      /\ reply'.op = op /\ reply'.path = p /\ reply'.err = "OK"
  BY DEF RemoveEntry, Return, Request, NoReply
<1>3. /\ d \in DOMAIN store \cup {NULL}
      /\ go_through_inodes(store, p)
           = IF d = NULL THEN NULL ELSE get_inode_from_path(BlobsOf(store)[d], Last(p))
  BY <1>1, StepOfWalk
<1>4. d \in DOMAIN store => dir = BlobsOf(store)[d]
  <2>. HIDE DEF d
  <2>. QED BY <1>1, StoredBlobs DEF Sound
<1>5. CASE d = NULL \/ id = NULL
  <2>1. UNCHANGED store
    BY <1>5 DEF RemoveEntry, get_fn_dir
  <2>. QED BY <1>2, <1>3, <1>4, <1>5, <2>1
<1>6. CASE d # NULL /\ id # NULL
  <2>1. store' = write_to_dict(perform_delete(store, id), dir.inodeid,
                               remove_inode_from_path(dir, Last(p)))
    BY <1>6 DEF RemoveEntry, get_fn_dir
  <2>2. d \in DOMAIN store /\ d = go_through_inodes(store, Front(p))
    BY <1>3, <1>6
  <2>. HIDE DEF d
  <2>3. has_path(BlobsOf(store)[d], Last(p))
    BY <1>1, <1>4, <1>6, <2>2, EntryOfDirectory
  <2>4. Shrunk(store, p,
               write_to_dict(perform_delete(store, get_inode_from_path(BlobsOf(store)[d], Last(p))),
                             BlobsOf(store)[d].inodeid,
                             remove_inode_from_path(BlobsOf(store)[d], Last(p))))
    BY <1>1, <2>2, <2>3, ShrunkByRemoval
  <2>5. Shrunk(store, p, store')
    BY <1>4, <2>1, <2>2, <2>4
  <2>. QED BY <1>2, <2>5
<1>. QED BY <1>5, <1>6

----------------------------------------------------------------------------
(* Blobs that no path leads to.                                            *)

\* The handlers that change a mounted device make one of the three changes, and
\* only hello_rmdir takes away a directory.
LEMMA TreeChange ==
  ASSUME IInv, Next, mounted, mounted', store' # store
  PROVE  \E p \in Paths :
           \/ \E buf : Refilled(store, p, buf, store')
           \/ \E id, node : Grown(store, p, id, node, store')
           \/ /\ Shrunk(store, p, store') /\ reply'.path = p
              /\ \/ reply'.op = "rmdir"
                 \/ Node(store, go_through_inodes(store, p)).kind = "file"
<1>1. ~ (hello_init \/ Exit)
  BY DEF hello_init, Exit
<1>2. PICK p \in Paths :
        \/ hello_getattr(p) \/ hello_readdir(p) \/ hello_open(p) \/ hello_read(p)
        \/ hello_create(p)  \/ hello_mkdir(p)
        \/ hello_unlink(p)  \/ hello_rmdir(p)
        \/ \E buf \in Payloads : hello_write(p, buf)
  BY <1>1 DEF Next
<1>3. ~ (hello_getattr(p) \/ hello_open(p) \/ hello_read(p))
  BY DEF hello_getattr, hello_open, hello_read
<1>4. ~ hello_readdir(p)
  BY DEF hello_readdir, ReadUninitialised, Die
<1>5. ASSUME NEW op
      PROVE  ~ Die(op, p)
  BY DEF Die
<1>6. CASE hello_create(p)
  BY <1>5, <1>6, CreateGrows
<1>7. CASE hello_mkdir(p)
  BY <1>5, <1>7, MkdirGrows
<1>8. CASE hello_rmdir(p)
  BY <1>8, RemovalShrinks DEF hello_rmdir
<1>9. CASE hello_unlink(p)
  <2>1. Shrunk(store, p, store') /\ reply'.path = p /\ ~ IsDir(p)
    BY <1>9, RemovalShrinks DEF hello_unlink
  <2>. DEFINE k == go_through_inodes(store, p)
  <2>2. Sound(store) /\ p \in Seq(Names) /\ k \in DOMAIN store
    BY <2>1, MountedSound, PathIsSeq DEF Shrunk
  <2>3. k # NULL
    BY <2>2, WalkEnds
  <2>4. Node(store, k).kind # "dir"
    BY <2>1, <2>2, <2>3, AttrOfPath DEF IsDir
  <2>. HIDE DEF k
  <2>5. Node(store, k).kind = "file"
    BY <2>2, <2>4, KindsOfNodes
  <2>. QED BY <2>1, <2>5 DEF k
<1>10. CASE \E buf \in Payloads : hello_write(p, buf)
  BY <1>10, WriteRefills
<1>. QED BY <1>2, <1>3, <1>4, <1>6, <1>7, <1>8, <1>9, <1>10

LEMMA OrphanStays ==
  ASSUME NEW s, Sound(s), NEW p \in Paths, NEW t,
         \/ \E buf : Refilled(s, p, buf, t)
         \/ \E id, node : Grown(s, p, id, node, t)
         \/ Shrunk(s, p, t),
         NEW k \in DOMAIN s, \A q \in Paths : go_through_inodes(s, q) # k
  PROVE  /\ k \in DOMAIN t /\ t[k] = s[k]
         /\ \A q \in Paths : go_through_inodes(t, q) # k
<1>1. k # NULL /\ \A q \in Paths : q \in Seq(Names)
  BY PathIsSeq, WalkEnds
<1>2. ASSUME NEW buf, Refilled(s, p, buf, t)
      PROVE  Frozen(s, t) /\ \A q \in Paths : go_through_inodes(t, q) # k
  BY <1>1, <1>2 DEF Refilled
<1>3. ASSUME NEW id, NEW node, Grown(s, p, id, node, t)
      PROVE  Frozen(s, t) /\ \A q \in Paths : go_through_inodes(t, q) # k
  BY <1>1, <1>3 DEF Grown
<1>4. ASSUME Shrunk(s, p, t)
      PROVE  Frozen(s, t) /\ \A q \in Paths : go_through_inodes(t, q) # k
  BY <1>1, <1>4 DEF Shrunk
<1>. QED BY <1>2, <1>3, <1>4 DEF Frozen

\* A blob becomes one only when a directory above it is taken away.
LEMMA NewOrphan ==
  ASSUME NEW s, Sound(s), NEW p \in Paths, NEW t,
         \/ \E buf : Refilled(s, p, buf, t)
         \/ \E id, node : Grown(s, p, id, node, t)
         \/ Shrunk(s, p, t),
         NEW k \in DOMAIN t, \A q \in Paths : go_through_inodes(t, q) # k,
         ~ (k \in DOMAIN s /\ \A q \in Paths : go_through_inodes(s, q) # k)
  PROVE  /\ \A buf : ~ Refilled(s, p, buf, t)
         /\ \A id, node : ~ Grown(s, p, id, node, t)
         /\ Node(s, go_through_inodes(s, p)).kind = "dir"
         /\ \E q \in Paths : IsStrictPrefix(p, q) /\ go_through_inodes(s, q) = k
<1>1. p \in Seq(Names) /\ \A q \in Paths : q \in Seq(Names)
  BY PathIsSeq
<1>2. ASSUME NEW buf, Refilled(s, p, buf, t)
      PROVE  FALSE
  BY <1>1, <1>2 DEF Refilled
<1>3. ASSUME NEW id, NEW node, Grown(s, p, id, node, t)
      PROVE  FALSE
  <2>1. go_through_inodes(t, p) = id /\ DOMAIN t = DOMAIN s \cup {id}
    BY <1>1, <1>3 DEF Grown
  <2>2. PICK q \in Paths : go_through_inodes(s, q) = k /\ k \in DOMAIN s
    BY <2>1
  <2>3. go_through_inodes(t, q) = IF q = p THEN id ELSE k
    BY <1>1, <1>3, <2>2 DEF Grown
  <2>4. q = p => k = NULL
    BY <1>3, <2>2 DEF Grown
  <2>. QED BY <2>2, <2>3, <2>4, <1>1, WalkEnds
<1>4. Shrunk(s, p, t)
  BY <1>2, <1>3
<1>5. PICK q \in Paths : go_through_inodes(s, q) = k
  BY <1>4 DEF Shrunk
<1>6. IsPrefix(p, q) /\ k # go_through_inodes(s, p) /\ go_through_inodes(s, p) \in DOMAIN s
  BY <1>1, <1>4, <1>5 DEF Shrunk
<1>7. IsStrictPrefix(p, q)
  BY <1>5, <1>6 DEF IsStrictPrefix
<1>8. k # NULL
  <2>1. k \in DOMAIN s
    BY <1>4 DEF Shrunk
  <2>. QED BY <2>1, <1>1, WalkEnds
<1>9. BlobsOf(s)[go_through_inodes(s, p)].is_dir = ISDIR
  BY <1>1, <1>5, <1>6, <1>8, AboveIsDirectory
<1>. QED BY <1>2, <1>3, <1>5, <1>7, <1>9 DEF Node

LEMMA OrphansAre ==
  ASSUME NEW k
  PROVE  /\ k \in Orphans <=> /\ k \in DOMAIN store
                              /\ \A q \in Paths : go_through_inodes(store, q) # k
         /\ k \in Orphans' <=> /\ k \in DOMAIN store'
                               /\ \A q \in Paths : go_through_inodes(store', q) # k
BY DEF Orphans

\* A blob that no path leads to is out of every handler's reach until the next
\* mount: its content stays, no lookup or draw brings it back (main.c, blob.c).
THEOREM OrphansAreFrozen == Spec => OrphansFrozen
<1>1. IInv /\ [Next]_vars
        => [mounted /\ mounted' /\ store' # store =>
              \A k \in Orphans : k \in Orphans' /\ store'[k] = store[k]]_vars
  <2>1. SUFFICES ASSUME IInv, Next, mounted, mounted', store' # store, NEW k \in Orphans
                 PROVE  k \in Orphans' /\ store'[k] = store[k]
    OBVIOUS
  <2>2. k \in DOMAIN store /\ \A q \in Paths : go_through_inodes(store, q) # k
    BY OrphansAre
  <2>3. k \in DOMAIN store' /\ store'[k] = store[k]
        /\ \A q \in Paths : go_through_inodes(store', q) # k
    BY <2>1, <2>2, MountedSound, TreeChange, OrphanStays
  <2>. QED BY <2>3, OrphansAre
<1>. QED BY <1>1, InductiveInvariant, PTL DEF Spec, OrphansFrozen

\* Only hello_rmdir loses blobs, and only those below the directory it removes:
\* it deletes that directory's blob without a look at its entries (main.c).
THEOREM OnlyRmdirLeaks == Spec => LeakOnlyByRmdir
<1>1. IInv /\ [Next]_vars
        => [mounted /\ mounted' /\ store' # store =>
              \A k \in Orphans' \ Orphans :
                 /\ reply'.op = "rmdir"
                 /\ \E q \in Paths : /\ IsStrictPrefix(reply'.path, q)
                                     /\ go_through_inodes(store, q) = k]_vars
  <2>1. SUFFICES ASSUME IInv, Next, mounted, mounted', store' # store,
                        NEW k \in Orphans' \ Orphans
                 PROVE  /\ reply'.op = "rmdir"
                        /\ \E q \in Paths : /\ IsStrictPrefix(reply'.path, q)
                                            /\ go_through_inodes(store, q) = k
    OBVIOUS
  <2>2. /\ k \in DOMAIN store' /\ \A q \in Paths : go_through_inodes(store', q) # k
        /\ ~ (k \in DOMAIN store /\ \A q \in Paths : go_through_inodes(store, q) # k)
    BY OrphansAre
  <2>3. PICK p \in Paths :
           \/ \E buf : Refilled(store, p, buf, store')
           \/ \E id, node : Grown(store, p, id, node, store')
           \/ /\ Shrunk(store, p, store') /\ reply'.path = p
              /\ \/ reply'.op = "rmdir"
                 \/ Node(store, go_through_inodes(store, p)).kind = "file"
    BY <2>1, TreeChange
  <2>4. /\ \A buf : ~ Refilled(store, p, buf, store')
        /\ \A id, node : ~ Grown(store, p, id, node, store')
        /\ Node(store, go_through_inodes(store, p)).kind = "dir"
        /\ \E q \in Paths : IsStrictPrefix(p, q) /\ go_through_inodes(store, q) = k
    BY <2>1, <2>2, <2>3, MountedSound, NewOrphan
  <2>5. reply'.path = p /\ reply'.op = "rmdir"
    BY <2>3, <2>4
  <2>. QED BY <2>4, <2>5
<1>. QED BY <1>1, InductiveInvariant, PTL DEF Spec, LeakOnlyByRmdir

----------------------------------------------------------------------------
(* Ckvfs implements FileTree: every handler does to the tree of paths, and *)
(* answers, what FileTree says.                                            *)


\* The tree the device s stands for.
TreeOf(s) == [p \in {p \in Paths : go_through_inodes(s, p) # NULL} |->
                Node(s, go_through_inodes(s, p))]

\* The tree T with a node at p, and without p and what is below it.
With(T, p, node) == [q \in DOMAIN T \cup {p} |-> IF q = p THEN node ELSE T[q]]
Without(T, p)    == [q \in {q \in DOMAIN T : ~ IsPrefix(p, q)} |-> T[q]]

\* Nothing lies deeper than the paths of the requests: so a directory's
\* listing is what the paths below it show.
ShallowIn(s) == \A p \in Seq(Names) : go_through_inodes(s, p) # NULL => p \in Paths
Shallow == mounted => ShallowIn(store)

\* The names of the nodes right below p in the tree T.
Below(T, p) == {Last(q) : q \in {q \in DOMAIN T : q # << >> /\ Front(q) = p}}

\* FileTree's operators on sequences are the ones of Ckvfs.
LEMMA SameOperators ==
  /\ \A q : FT!Front(q) = Front(q) /\ FT!Last(q) = Last(q)
  /\ \A p, q : FT!IsPrefix(p, q) <=> IsPrefix(p, q)
<1>1. \A q : FT!Front(q) = Front(q) /\ FT!Last(q) = Last(q)
  BY DEF FT!Front, Front, FT!Last, Last
<1>2. \A p, q : FT!IsPrefix(p, q) <=> IsPrefix(p, q)
  BY DEF FT!IsPrefix, IsPrefix
<1>. QED BY <1>1, <1>2

LEMMA SameShape == \A s : PathTree(s) = TreeOf(s)
BY DEF PathTree, TreeOf, Node, BlobsOf

LEMMA MountedTree ==
  /\ mounted   => TreeOfStore = TreeOf(store)
  /\ mounted'  => TreeOfStore' = TreeOf(store')
  /\ ~mounted  => TreeOfStore = FT!Nothing
  /\ ~mounted' => TreeOfStore' = FT!Nothing
<1>1. mounted => TreeOfStore = TreeOf(store)
  BY SameShape DEF TreeOfStore
<1>2. mounted' => TreeOfStore' = TreeOf(store')
  BY SameShape DEF TreeOfStore
<1>3. ~mounted => TreeOfStore = FT!Nothing
  BY DEF TreeOfStore, FT!Nothing
<1>4. ~mounted' => TreeOfStore' = FT!Nothing
  BY DEF TreeOfStore, FT!Nothing
<1>. QED BY <1>1, <1>2, <1>3, <1>4

LEMMA NodesOfTree ==
  ASSUME NEW s, NEW p \in Paths
  PROVE  /\ p \in DOMAIN TreeOf(s) <=> go_through_inodes(s, p) # NULL
         /\ p \in DOMAIN TreeOf(s) => TreeOf(s)[p] = Node(s, go_through_inodes(s, p))
BY DEF TreeOf

LEMMA RefilledTree ==
  ASSUME NEW s, Sound(s), NEW p \in Paths, NEW buf, NEW t, Refilled(s, p, buf, t)
  PROVE  TreeOf(t) = [TreeOf(s) EXCEPT ![p] = FT!File(buf)]
<1>1. \A q \in Paths : q \in Seq(Names)
  BY PathIsSeq
<1>2. \A q \in Paths : go_through_inodes(t, q) = go_through_inodes(s, q)
  BY <1>1 DEF Refilled
<1>3. ASSUME NEW q \in Paths, go_through_inodes(s, q) # NULL
      PROVE  Node(t, go_through_inodes(t, q))
               = IF q = p THEN FT!File(buf) ELSE Node(s, go_through_inodes(s, q))
  <2>1. go_through_inodes(s, q) \in DOMAIN s
    BY <1>1, <1>3, WalkEnds
  <2>2. go_through_inodes(s, q) = go_through_inodes(s, p) => q = p
    BY <1>1, <1>3, OnePath
  <2>. QED BY <1>2, <2>1, <2>2 DEF Refilled, FT!File
<1>4. go_through_inodes(s, p) # NULL
  BY <1>1, WalkEnds DEF Refilled
<1>. QED BY <1>2, <1>3, <1>4 DEF TreeOf

LEMMA GrownTree ==
  ASSUME NEW s, Sound(s), NEW p \in Paths, p # << >>, NEW id, NEW node, NEW t,
         Grown(s, p, id, node, t)
  PROVE  /\ p \notin DOMAIN TreeOf(s)
         /\ Front(p) \in DOMAIN TreeOf(s) /\ TreeOf(s)[Front(p)].kind = "dir"
         /\ TreeOf(t) = With(TreeOf(s), p, node)
<1>1. \A q \in Paths : q \in Seq(Names)
  BY PathIsSeq
<1>2. go_through_inodes(s, p) = NULL /\ id # NULL
  BY DEF Grown
<1>3. \A q \in Paths : go_through_inodes(t, q) = IF q = p THEN id ELSE go_through_inodes(s, q)
  BY <1>1 DEF Grown
<1>4. Front(p) \in Paths
  BY FrontIsPath
<1>5. go_through_inodes(s, Front(p)) \in DOMAIN s
      /\ Node(s, go_through_inodes(s, Front(p))).kind = "dir"
  BY DEF Grown
<1>6. go_through_inodes(s, Front(p)) # NULL
  BY <1>1, <1>4, <1>5, WalkEnds
<1>7. ASSUME NEW q \in Paths, go_through_inodes(t, q) # NULL
      PROVE  Node(t, go_through_inodes(t, q))
               = IF q = p THEN node ELSE Node(s, go_through_inodes(s, q))
  <2>1. CASE q = p
    BY <1>3, <2>1 DEF Grown
  <2>2. CASE q # p
    <3>1. go_through_inodes(s, q) \in DOMAIN s
      BY <1>1, <1>3, <1>7, <2>2, WalkEnds
    <3>. QED BY <1>3, <2>2, <3>1 DEF Grown
  <2>. QED BY <2>1, <2>2
<1>8. TreeOf(t) = With(TreeOf(s), p, node)
  <2>1. {q \in Paths : go_through_inodes(t, q) # NULL}
          = {q \in Paths : go_through_inodes(s, q) # NULL} \cup {p}
    BY <1>2, <1>3
  <2>2. DOMAIN TreeOf(s) = {q \in Paths : go_through_inodes(s, q) # NULL}
    BY DEF TreeOf
  <2>3. \A q \in {q \in Paths : go_through_inodes(t, q) # NULL} :
          Node(t, go_through_inodes(t, q)) = IF q = p THEN node ELSE TreeOf(s)[q]
    BY <1>3, <1>7, NodesOfTree
  <2>. QED BY <2>1, <2>2, <2>3 DEF TreeOf, With
<1>. QED BY <1>2, <1>4, <1>5, <1>6, <1>8, NodesOfTree

LEMMA ShrunkTree ==
  ASSUME NEW s, Sound(s), NEW p \in Paths, NEW t, Shrunk(s, p, t)
  PROVE  TreeOf(t) = Without(TreeOf(s), p)
<1>1. \A q \in Paths : q \in Seq(Names)
  BY PathIsSeq
<1>2. \A q \in Paths :
        go_through_inodes(t, q) = IF IsPrefix(p, q) THEN NULL ELSE go_through_inodes(s, q)
  BY <1>1 DEF Shrunk
<1>3. IsPrefix(p, p)
  BY <1>1, PrefixIs
<1>4. ASSUME NEW q \in Paths, go_through_inodes(t, q) # NULL
      PROVE  Node(t, go_through_inodes(t, q)) = Node(s, go_through_inodes(s, q))
  <2>1. /\ ~ IsPrefix(p, q) /\ go_through_inodes(t, q) = go_through_inodes(s, q)
        /\ go_through_inodes(s, q) # NULL
    BY <1>2, <1>4
  <2>2. go_through_inodes(s, q) \in DOMAIN s
    BY <1>1, <2>1, WalkEnds
  <2>3. go_through_inodes(s, q) # go_through_inodes(s, p)
    BY <1>1, <1>3, <2>1, OnePath
  <2>. QED BY <2>1, <2>2, <2>3 DEF Shrunk
<1>5. {q \in Paths : go_through_inodes(t, q) # NULL}
        = {q \in DOMAIN TreeOf(s) : ~ IsPrefix(p, q)}
  <2>1. DOMAIN TreeOf(s) = {q \in Paths : go_through_inodes(s, q) # NULL}
    BY DEF TreeOf
  <2>. QED BY <1>2, <2>1
<1>6. \A q \in {q \in Paths : go_through_inodes(t, q) # NULL} :
        Node(t, go_through_inodes(t, q)) = TreeOf(s)[q]
  BY <1>4, <1>5, NodesOfTree
<1>. QED BY <1>5, <1>6 DEF TreeOf, Without

\* Nothing is below a path that leads nowhere.
LEMMA NothingBelow ==
  ASSUME NEW s, Sound(s), NEW p \in Paths, go_through_inodes(s, p) = NULL
  PROVE  TreeOf(s) = Without(TreeOf(s), p)
<1>1. \A q \in Paths : q \in Seq(Names)
  BY PathIsSeq
<1>2. ASSUME NEW q \in DOMAIN TreeOf(s)
      PROVE  ~ IsPrefix(p, q)
  <2>1. q \in Paths /\ go_through_inodes(s, q) # NULL
    BY <1>2 DEF TreeOf
  <2>. QED BY <1>1, <2>1, AboveIsDirectory, WalkEnds
<1>3. {q \in DOMAIN TreeOf(s) : ~ IsPrefix(p, q)} = DOMAIN TreeOf(s)
  BY <1>2
<1>. QED BY <1>3 DEF TreeOf, Without

----------------------------------------------------------------------------
(* Shallow is inductive beside IInv.                                       *)

LEMMA RootIsPath == << >> \in Paths
<1>1. << >> \in Seq(Names) /\ Len(<< >>) = 0 /\ 0 <= MaxDepth
  BY CkvfsAssumption
<1>. QED BY <1>1, PathsAre

LEMMA FreshTree ==
  LET s == write_root(set_up_ssd)
  IN  /\ \A p \in Seq(Names) : go_through_inodes(s, p) # NULL <=> p = << >>
      /\ TreeOf(s) = [p \in {<< >>} |-> FT!Dir]
<1>. DEFINE s == write_root(set_up_ssd)
<1>1. Stored(set_up_ssd) /\ DOMAIN set_up_ssd = {}
  BY EmptyDevice DEF set_up_ssd
<1>2. GoodBlob(root_id, EmptyDir(root_id)) /\ root_id \in Keys
  BY BlobAssumption DEF GoodBlob, EmptyDir, DirBlob, Keys
<1>3. Written(set_up_ssd, root_id, EmptyDir(root_id), s)
  BY <1>1, <1>2, WriteBlobOf DEF write_root
<1>4. DOMAIN s = {root_id} /\ BlobsOf(s)[root_id] = EmptyDir(root_id)
  BY <1>1, <1>3 DEF Written
<1>5. Sound(s)
  BY SoundRoot
<1>. HIDE DEF s
<1>6. go_through_inodes(s, << >>) = root_id /\ root_id # NULL
  BY WalkOfRoot, BlobAssumption DEF Keys
<1>7. ASSUME NEW p \in Seq(Names), p # << >>
      PROVE  go_through_inodes(s, p) = NULL
  <2>1. SUFFICES ASSUME go_through_inodes(s, p) # NULL
                 PROVE  FALSE
    OBVIOUS
  <2>2. go_through_inodes(s, Front(p)) \in DOMAIN s
        /\ has_path(BlobsOf(s)[go_through_inodes(s, Front(p))], Last(p))
    BY <1>5, <1>7, <2>1, WalkEnters
  <2>3. has_path(EmptyDir(root_id), Last(p))
    BY <1>4, <2>2
  <2>4. EmptyDir(root_id).sub_items = << >> /\ << >> \in Seq(Item) /\ 1..Len(<< >>) = {}
    BY DEF EmptyDir
  <2>5. \E j \in 1..Len(EmptyDir(root_id).sub_items) :
          EmptyDir(root_id).sub_items[j].item_path = Last(p)
    BY <2>3, <2>4, HasPath
  <2>. QED BY <2>4, <2>5
<1>8. \A p \in Seq(Names) : go_through_inodes(s, p) # NULL <=> p = << >>
  BY <1>6, <1>7
<1>9. {p \in Paths : go_through_inodes(s, p) # NULL} = {<< >>}
  <2>1. << >> \in Paths
    BY RootIsPath
  <2>2. \A p \in Paths : p \in Seq(Names)
    BY PathIsSeq
  <2>. QED BY <1>8, <2>1, <2>2
<1>10. Node(s, root_id) = FT!Dir
  BY <1>4 DEF Node, EmptyDir, FT!Dir
<1>11. TreeOf(s) = [p \in {<< >>} |-> FT!Dir]
  BY <1>6, <1>9, <1>10 DEF TreeOf
<1>. QED BY <1>8, <1>11 DEF s

LEMMA StaysShallow ==
  ASSUME IInv, Shallow, [Next]_vars
  PROVE  Shallow'
<1>. SUFFICES ASSUME mounted', NEW p \in Seq(Names), go_through_inodes(store', p) # NULL
              PROVE  p \in Paths
  BY DEF Shallow, ShallowIn
<1>1. CASE store' = store /\ mounted
  <2>1. go_through_inodes(store, p) # NULL
    BY <1>1
  <2>. QED BY <1>1, <2>1 DEF Shallow, ShallowIn
<1>2. CASE store' # store /\ mounted
  <2>1. Next
    BY <1>2 DEF vars
  <2>2. PICK r \in Paths :
           \/ \E buf : Refilled(store, r, buf, store')
           \/ \E id, node : Grown(store, r, id, node, store')
           \/ Shrunk(store, r, store')
    BY <1>2, <2>1, TreeChange
  <2>3. p = r \/ go_through_inodes(store, p) # NULL
    <3>1. ASSUME NEW buf, Refilled(store, r, buf, store')
          PROVE  p = r \/ go_through_inodes(store, p) # NULL
      BY <3>1 DEF Refilled
    <3>2. ASSUME NEW id, NEW node, Grown(store, r, id, node, store')
          PROVE  p = r \/ go_through_inodes(store, p) # NULL
      BY <3>2 DEF Grown
    <3>3. ASSUME Shrunk(store, r, store')
          PROVE  p = r \/ go_through_inodes(store, p) # NULL
      BY <3>3 DEF Shrunk
    <3>. QED BY <2>2, <3>1, <3>2, <3>3
  <2>. QED BY <1>2, <2>3 DEF Shallow, ShallowIn
<1>3. CASE ~ mounted
  <2>1. store' = write_root(set_up_ssd)
    BY <1>3 DEF vars, Next, hello_init, Exit, hello_getattr, hello_readdir, hello_open,
                hello_read, hello_create, hello_mkdir, hello_unlink, hello_rmdir, hello_write
  <2>2. p = << >>
    BY <2>1, FreshTree
  <2>. QED BY <2>2, RootIsPath
<1>. QED BY <1>1, <1>2, <1>3

----------------------------------------------------------------------------
(* What the requests that read answer.                                     *)

\* A directory's listing has every child of it, once.
LEMMA ListingIs ==
  ASSUME NEW s, Sound(s), ShallowIn(s), NEW p \in Paths, go_through_inodes(s, p) # NULL
  PROVE  LET list == get_list(get_blob_from_key(s, go_through_inodes(s, p)))
         IN  IsInjective(list) /\ Range(list) = Below(TreeOf(s), p)
<1>. DEFINE k == go_through_inodes(s, p)
            b == BlobsOf(s)[k]
            items == b.sub_items
            list == get_list(b)
<1>1. Sound(s) /\ p \in Seq(Names) /\ k \in DOMAIN s
  BY PathIsSeq, WalkEnds
<1>2. /\ get_blob_from_key(s, k) = b
      /\ b.sub_items \in Seq(Item)
  BY <1>1, StoredBlobs, GoodBlobItems DEF Sound
<1>3. \A i, j \in 1..Len(items) : items[i].item_path = items[j].item_path => i = j
  <2>1. Links(BlobsOf(s)) /\ k \in DOMAIN BlobsOf(s)
    BY <1>1, StoredBlobs DEF Sound
  <2>. HIDE DEF k
  <2>. QED BY <2>1 DEF Links, UniqueEntries
<1>4. /\ DOMAIN list = 1..Len(items)
      /\ \A i \in 1..Len(items) : list[i] = items[i].item_path
  BY DEF get_list
<1>5. IsInjective(list)
  <2>. HIDE DEF list, items
  <2>. QED BY <1>3, <1>4 DEF IsInjective
<1>6. \A name : name \in Range(list) <=> \E j \in 1..Len(items) : items[j].item_path = name
  <2>. HIDE DEF list, items
  <2>. QED BY <1>4 DEF Range
<1>7. \A name : name \in Range(list) <=> has_path(b, name)
  <2>. HIDE DEF list, k
  <2>. QED BY <1>2, <1>6, HasPath
<1>8. ASSUME NEW name, has_path(b, name)
      PROVE  name \in Below(TreeOf(s), p)
  <2>. DEFINE q == Append(p, name)
  <2>1. name \in Names
    <3>1. PICK j \in 1..Len(items) : items[j].item_path = name
      BY <1>6, <1>7, <1>8
    <3>2. items[j] \in Item
      BY <1>2, <3>1
    <3>. QED BY <3>1, <3>2 DEF Item
  <2>2. q \in Seq(Names) /\ q # << >> /\ Front(q) = p /\ Last(q) = name
    <3>1. /\ q \in Seq(Names) /\ q # << >> /\ Len(q) = Len(p) + 1 /\ q[Len(q)] = name
          /\ \A i \in 1..Len(p) : q[i] = p[i]
      BY <1>1, <2>1
    <3>2. Front(q) \in Seq(Names) /\ Len(Front(q)) = Len(p)
          /\ \A i \in 1..Len(p) : Front(q)[i] = p[i]
      <4>1. /\ Len(q) \in Nat /\ Front(q) \in Seq(Names) /\ Len(Front(q)) = Len(q) - 1
            /\ \A i \in 1..(Len(q) - 1) : Front(q)[i] = q[i]
        BY <3>1, FrontLast
      <4>2. Len(p) \in Nat /\ Len(q) - 1 = Len(p)
        BY <1>1, <3>1
      <4>. QED BY <3>1, <4>1, <4>2
    <3>3. Front(q) = p
      BY <1>1, <3>2, SeqEqual
    <3>4. Last(q) = name
      BY <3>1, FrontLast
    <3>. QED BY <3>1, <3>3, <3>4
  <2>. HIDE DEF q
  <2>3. go_through_inodes(s, q) = get_inode_from_path(b, name)
    BY <1>1, <2>2, StepOfWalk, WalkEnds
  <2>4. get_inode_from_path(b, name) \in DOMAIN s
    BY <1>1, <1>8, EntryOfDirectory
  <2>5. go_through_inodes(s, q) # NULL
    BY <1>1, <2>3, <2>4, WalkEnds
  <2>6. q \in DOMAIN TreeOf(s)
    BY <2>2, <2>5, NodesOfTree DEF ShallowIn
  <2>. QED BY <2>2, <2>6 DEF Below
<1>9. ASSUME NEW name \in Below(TreeOf(s), p)
      PROVE  has_path(b, name)
  <2>1. PICK q \in DOMAIN TreeOf(s) : q # << >> /\ Front(q) = p /\ Last(q) = name
    BY <1>9 DEF Below
  <2>2. q \in Paths /\ go_through_inodes(s, q) # NULL
    BY <2>1 DEF TreeOf
  <2>3. q \in Seq(Names)
    BY <2>2, PathIsSeq
  <2>. QED BY <1>1, <2>1, <2>2, <2>3, WalkEnters
<1>10. Range(list) = Below(TreeOf(s), p)
  <2>. HIDE DEF list, b
  <2>. QED BY <1>7, <1>8, <1>9
<1>. QED BY <1>2, <1>5, <1>10

LEMMA ListingOfChildren ==
  ASSUME IInv, Shallow, mounted, NEW p \in Paths, go_through_inodes(store, p) # NULL
  PROVE  LET b == get_blob_from_key(store, go_through_inodes(store, p))
         IN  FT!IsInjective(get_list(b)) /\ FT!Range(get_list(b)) = FT!Children(p)
<1>. DEFINE list == get_list(get_blob_from_key(store, go_through_inodes(store, p)))
<1>1. IsInjective(list) /\ Range(list) = Below(TreeOf(store), p)
  BY MountedSound, ListingIs DEF Shallow
<1>2. FT!Children(p) = Below(TreeOf(store), p)
  BY MountedTree, SameOperators DEF FT!Children, Below
<1>3. (FT!IsInjective(list) <=> IsInjective(list)) /\ FT!Range(list) = Range(list)
  BY DEF FT!IsInjective, IsInjective, FT!Range, Range
<1>. QED BY <1>1, <1>2, <1>3

----------------------------------------------------------------------------
(* One lemma per handler: it takes a step of FileTree.                     *)

LEMMA DyingEnds ==
  ASSUME mounted, ~ mounted'
  PROVE  FT!End
BY MountedTree DEF FT!End

\* What leaves the device and the process alone leaves the tree alone.
LEMMA SameTree ==
  ASSUME UNCHANGED <<store, mounted>>
  PROVE  UNCHANGED <<TreeOfStore, mounted>>
BY DEF TreeOfStore

LEMMA InitImplements ==
  ASSUME hello_init
  PROVE  FT!Mount \/ UNCHANGED FT!vars
<1>1. CASE store' = write_root(set_up_ssd) /\ mounted'
  <2>1. TreeOfStore' = TreeOf(write_root(set_up_ssd))
    BY <1>1, MountedTree
  <2>. QED BY <1>1, <2>1, FreshTree DEF hello_init, FT!Mount
<1>2. CASE UNCHANGED <<mounted, reply>>
  BY <1>2, MountedTree DEF hello_init, FT!vars
<1>. QED BY <1>1, <1>2 DEF hello_init

LEMMA ExitImplements ==
  ASSUME Exit
  PROVE  FT!End
BY MountedTree DEF Exit, FT!End

LEMMA GetattrImplements ==
  ASSUME IInv, NEW p \in Paths, hello_getattr(p)
  PROVE  FT!Getattr(p)
<1>. DEFINE a == attr(store, p)
            k == go_through_inodes(store, p)
<1>1. Sound(store) /\ p \in Seq(Names) /\ mounted
  BY MountedSound, PathIsSeq DEF hello_getattr
<1>2. /\ reply'.op = "getattr" /\ reply'.path = p /\ reply'.err = a.err
      /\ reply'.kind = a.kind /\ reply'.n = a.n
      /\ mounted' = mounted /\ store' = store
  BY Zenon DEF hello_getattr, Return, Request, NoReply
<1>3. /\ p = <<HEAD>> => k = NULL /\ a.err = "OK"
      /\ p # <<HEAD>> /\ k # NULL =>
           a.err = "OK" /\ a.kind = Node(store, k).kind /\ a.n = Len(Node(store, k).data)
      /\ p # <<HEAD>> /\ k = NULL => a.err = "ENOENT"
  BY <1>1, AttrOfPath
<1>4. /\ p \in DOMAIN TreeOfStore <=> k # NULL
      /\ p \in DOMAIN TreeOfStore => TreeOfStore[p] = Node(store, k)
  BY <1>1, MountedTree, NodesOfTree
<1>. HIDE DEF a, k
<1>. QED BY <1>1, <1>2, <1>3, <1>4, SameTree DEF FT!Getattr, FT!Asked, FT!Answers

LEMMA ReaddirImplements ==
  ASSUME IInv, Shallow, NEW p \in Paths, hello_readdir(p)
  PROVE  FT!Readdir(p) \/ FT!End
<1>. DEFINE d   == go_through_inodes(store, Front(p))
            dir == get_blob_from_key(store, d)
            id  == get_inode_from_path(dir, Last(p))
            k   == go_through_inodes(store, p)
            b   == get_blob_from_key(store, k)
<1>1. Sound(store) /\ p \in Seq(Names) /\ mounted /\ IsDir(p)
  BY MountedSound, PathIsSeq DEF hello_readdir
<1>2. ASSUME NEW c, Return(Listing(p, c)), UNCHANGED store
      PROVE  /\ FT!Asked("readdir", p) /\ FT!Answers("OK")
             /\ reply'.out = get_list(c)
             /\ UNCHANGED <<TreeOfStore, mounted>>
  <2>1. /\ reply'.op = "readdir" /\ reply'.path = p /\ reply'.err = "OK"
        /\ reply'.out = get_list(c) /\ mounted' = mounted
    BY <1>2, Zenon DEF Return, Listing, Request, NoReply
  <2>. QED BY <1>1, <1>2, <2>1, SameTree DEF FT!Asked, FT!Answers
<1>3. CASE p = <<HEAD>>
  <2>1. p # Root /\ Front(p) = << >> /\ Last(p) = HEAD
    <3>1. p # Root /\ Last(p) = HEAD
      BY <1>3 DEF Last, Root
    <3>. QED BY <1>1, <1>3, <3>1, Single DEF Root
  <2>2. d = root_id /\ d \in DOMAIN store /\ d # NULL
    BY <1>1, <2>1, WalkOfRoot, BlobAssumption, StoredBlobs DEF Sound, Rooted, Keys
  <2>3. dir = BlobsOf(store)[root_id] /\ dir.is_dir = ISDIR /\ id = NULL
    <3>1. dir = BlobsOf(store)[root_id]
      BY <1>1, <2>2, StoredBlobs DEF Sound
    <3>2. BlobsOf(store)[root_id].is_dir = ISDIR
      BY <1>1 DEF Sound, Rooted
    <3>3. ~ has_path(BlobsOf(store)[root_id], HEAD)
      BY <1>1 DEF Sound, Rooted
    <3>. QED BY <2>1, <3>1, <3>2, <3>3 DEF get_inode_from_path, has_path
  <2>4. ReadUninitialised(p)
    BY <2>1, <2>2, <2>3 DEF hello_readdir, get_fn_dir, ISDIR, NOTDIR
  <2>5. CASE Die("readdir", p)
    BY <1>1, <2>5, DyingEnds DEF Die
  <2>6. CASE ~ Die("readdir", p)
    <3>1. PICK c : Return(Listing(p, c)) /\ UNCHANGED store
      BY <2>4, <2>6 DEF ReadUninitialised
    <3>. QED BY <1>2, <1>3, <3>1 DEF FT!Readdir
  <2>. QED BY <2>5, <2>6
<1>4. CASE p # <<HEAD>>
  <2>1. k # NULL /\ k \in DOMAIN store /\ Node(store, k).kind = "dir"
    BY <1>1, <1>4, AttrOfPath DEF IsDir
  <2>2. Return(Listing(p, b)) /\ UNCHANGED store
    <3>1. CASE p = Root
      <4>1. b = get_root_inode(store)
        BY <3>1, WalkOfRoot DEF Root, get_root_inode, get_blob_from_key
      <4>. QED BY <3>1, <4>1 DEF hello_readdir
    <3>2. CASE p # Root
      <4>1. d \in DOMAIN store /\ d # NULL
        BY <1>1, <2>1, <3>2, WalkEnters, WalkEnds DEF Root
      <4>2. k = get_inode_from_path(BlobsOf(store)[d], Last(p))
            /\ BlobsOf(store)[d].is_dir = ISDIR
        BY <1>1, <2>1, <3>2, WalkEnters DEF Root
      <4>3. dir = BlobsOf(store)[d]
        BY <1>1, <4>1, StoredBlobs DEF Sound
      <4>4. id = k
        BY <4>2, <4>3
      <4>. QED BY <2>1, <3>2, <4>1, <4>2, <4>3, <4>4
               DEF hello_readdir, get_fn_dir, ISDIR, NOTDIR
    <3>. QED BY <3>1, <3>2
  <2>3. reply'.out = get_list(b) /\ FT!Asked("readdir", p) /\ FT!Answers("OK")
        /\ UNCHANGED <<TreeOfStore, mounted>>
    BY <1>2, <2>2
  <2>4. FT!IsInjective(get_list(b)) /\ FT!Range(get_list(b)) = FT!Children(p)
    BY <1>1, <2>1, ListingOfChildren
  <2>5. FT!IsDir(p)
    BY <1>1, <2>1, MountedTree, NodesOfTree DEF FT!IsDir
  <2>. QED BY <2>3, <2>4, <2>5 DEF FT!Readdir
<1>. QED BY <1>3, <1>4

LEMMA OpenImplements ==
  ASSUME NEW p \in Paths, hello_open(p)
  PROVE  FT!Open(p)
BY SameTree DEF hello_open, Return, Request, NoReply, FT!Open, FT!Asked, FT!Answers

\* A file at p is what the reads and writes of p reach.
LEMMA FileOfTree ==
  ASSUME IInv, mounted, NEW p \in Paths, IsFile(p)
  PROVE  /\ FT!IsFile(p)
         /\ TreeOfStore[p] = Node(store, go_through_inodes(store, p))
         /\ go_through_inodes(store, p) \in DOMAIN store
<1>. DEFINE k == go_through_inodes(store, p)
<1>1. Sound(store) /\ p \in Seq(Names)
  BY MountedSound, PathIsSeq
<1>2. p # <<HEAD>> /\ k # NULL
  BY <1>1, AttrOfPath DEF IsFile
<1>3. k \in DOMAIN store /\ Node(store, k).kind = "file"
  BY <1>1, <1>2, AttrOfPath DEF IsFile
<1>. QED BY <1>2, <1>3, MountedTree, NodesOfTree DEF FT!IsFile

LEMMA RootIsDirectory ==
  ASSUME NEW s, Sound(s)
  PROVE  attr(s, << >>).kind = "dir"
<1>1. get_root_inode(s).is_dir = ISDIR
  BY StoredBlobs DEF Sound, Rooted, get_root_inode, get_blob_from_key
<1>. QED BY <1>1 DEF attr, Root

LEMMA ReadImplements ==
  ASSUME IInv, NEW p \in Paths, hello_read(p)
  PROVE  FT!Read(p)
<1>. DEFINE d  == go_through_inodes(store, Front(p))
            id == get_inode_from_path(get_blob_from_key(store, d), Last(p))
            k  == go_through_inodes(store, p)
            b  == get_blob_from_key(store, id)
<1>1. Sound(store) /\ p \in Seq(Names) /\ mounted /\ IsFile(p)
  BY MountedSound, PathIsSeq DEF hello_read
<1>2. d \in DOMAIN store /\ id \in DOMAIN store
  BY <1>1, FileEntry DEF IsFile
<1>3. d # NULL /\ id # NULL
  BY <1>1, <1>2, WalkEnds
<1>4. p # << >>
  <2>1. attr(store, << >>).kind # "file"
    BY <1>1, RootIsDirectory
  <2>. QED BY <1>1, <2>1 DEF IsFile
<1>5. id = k
  <2>1. get_blob_from_key(store, d) = BlobsOf(store)[d]
    BY <1>1, <1>2, StoredBlobs DEF Sound
  <2>2. go_through_inodes(store, p)
          = IF d = NULL THEN NULL ELSE get_inode_from_path(BlobsOf(store)[d], Last(p))
    BY <1>1, <1>4, StepOfWalk
  <2>. QED BY <1>3, <2>1, <2>2
<1>6. b = BlobsOf(store)[k]
  BY <1>1, <1>2, <1>5, StoredBlobs DEF Sound
<1>7. Return([Request("read", p) EXCEPT !.n = Len(b.data), !.out = b.data]) /\ UNCHANGED store
  BY <1>3 DEF hello_read, get_fn_dir
<1>8. /\ reply'.op = "read" /\ reply'.path = p /\ reply'.err = "OK"
      /\ reply'.n = Len(b.data) /\ reply'.out = b.data
      /\ mounted' = mounted /\ store' = store
  BY <1>7, Zenon DEF Return, Request, NoReply
<1>9. FT!IsFile(p) /\ TreeOfStore[p].data = b.data
  <2>1. FT!IsFile(p) /\ TreeOfStore[p] = Node(store, k)
    BY <1>1, FileOfTree
  <2>2. Node(store, k).data = BlobsOf(store)[k].data
    BY DEF Node
  <2>. HIDE DEF b, k
  <2>. QED BY <1>6, <2>1, <2>2
<1>. HIDE DEF b
<1>. QED BY <1>1, <1>8, <1>9, SameTree DEF FT!Read, FT!Asked, FT!Answers

LEMMA WriteImplements ==
  ASSUME IInv, NEW p \in Paths, NEW buf \in Payloads, hello_write(p, buf)
  PROVE  FT!Write(p, buf)
<1>1. mounted /\ IsFile(p) /\ Sound(store)
  BY MountedSound DEF hello_write
<1>2. FT!IsFile(p)
  BY <1>1, FileOfTree
<1>3. mounted' = mounted /\ reply'.op = "write" /\ reply'.path = p /\ reply'.err = "OK"
  BY WriteRefills
<1>4. CASE UNCHANGED store /\ reply'.n = 0 /\ ~ FitsBlock(p, Text(buf) + MaxOverread)
  BY <1>1, <1>2, <1>3, <1>4, SameTree DEF FT!Write, FT!Asked, FT!Answers
<1>5. CASE /\ Refilled(store, p, Kept(buf), store')
           /\ reply'.n = Len(buf) /\ FitsBlock(p, Text(buf))
  <2>1. TreeOfStore' = [TreeOfStore EXCEPT ![p] = FT!File(Kept(buf))]
    BY <1>1, <1>3, <1>5, MountedTree, RefilledTree
  <2>. QED BY <1>1, <1>2, <1>3, <1>5, <2>1 DEF FT!Write, FT!Asked, FT!Answers
<1>. QED BY <1>4, <1>5, WriteRefills

\* AddEntry's request: the node appears, or its name was not free.
LEMMA MakeImplements ==
  ASSUME IInv, mounted, mounted', NEW op, NEW p \in Paths, p # << >>, NEW node,
         reply'.op = op, reply'.path = p,
         \/ /\ UNCHANGED store /\ reply'.err \in {"OK", "ENOTDIR"}
            /\ \/ go_through_inodes(store, Front(p)) = NULL
               \/ go_through_inodes(store, p) # NULL
         \/ /\ reply'.err = "OK"
            /\ \E id : Grown(store, p, id, node, store')
  PROVE  FT!Make(op, p, node)
<1>1. Sound(store) /\ Front(p) \in Paths /\ mounted' = mounted
  BY MountedSound, FrontIsPath, InvariantOfBlobs
<1>2. TreeOfStore = TreeOf(store)
  BY MountedTree
<1>3. CASE /\ UNCHANGED store /\ reply'.err \in {"OK", "ENOTDIR"}
           /\ \/ go_through_inodes(store, Front(p)) = NULL
              \/ go_through_inodes(store, p) # NULL
  <2>1. ~ (p \notin DOMAIN TreeOfStore /\ Front(p) \in DOMAIN TreeOfStore)
    BY <1>1, <1>2, <1>3, NodesOfTree
  <2>2. UNCHANGED TreeOfStore
    BY <1>1, <1>3, SameTree
  <2>. QED BY <1>1, <1>3, <2>1, <2>2, SameOperators
           DEF FT!Make, FT!Asked, FT!Answers, FT!IsDir
<1>4. CASE reply'.err = "OK" /\ \E id : Grown(store, p, id, node, store')
  <2>1. PICK id : Grown(store, p, id, node, store')
    BY <1>4
  <2>2. /\ p \notin DOMAIN TreeOfStore
        /\ Front(p) \in DOMAIN TreeOfStore /\ TreeOfStore[Front(p)].kind = "dir"
        /\ TreeOfStore' = With(TreeOfStore, p, node)
    BY <1>1, <1>2, <2>1, GrownTree, MountedTree
  <2>. QED BY <1>1, <1>4, <2>2, SameOperators
           DEF With, FT!Make, FT!Asked, FT!Answers, FT!IsDir
<1>. QED BY <1>3, <1>4

LEMMA CreateImplements ==
  ASSUME IInv, NEW p \in Paths, hello_create(p)
  PROVE  FT!End \/ (p # << >> /\ FT!Make("create", p, FT!File(<< >>)))
<1>1. mounted /\ p # << >>
  BY CreateGrows
<1>2. CASE Die("create", p)
  BY <1>1, <1>2, DyingEnds DEF Die
<1>3. CASE ~ Die("create", p)
  BY <1>1, <1>3, CreateGrows, MakeImplements DEF FT!File
<1>. QED BY <1>2, <1>3

LEMMA MkdirImplements ==
  ASSUME IInv, NEW p \in Paths, hello_mkdir(p)
  PROVE  FT!End \/ (p # << >> /\ FT!Make("mkdir", p, FT!Dir))
<1>1. mounted /\ p # << >>
  BY MkdirGrows
<1>2. CASE Die("mkdir", p)
  BY <1>1, <1>2, DyingEnds DEF Die
<1>3. CASE ~ Die("mkdir", p)
  BY <1>1, <1>3, MkdirGrows, MakeImplements DEF FT!Dir
<1>. QED BY <1>2, <1>3

LEMMA RemovalImplements ==
  ASSUME IInv, mounted, NEW op, NEW p \in Paths, p # Root, RemoveEntry(op, p)
  PROVE  FT!Delete(op, p)
<1>1. Sound(store) /\ TreeOfStore = TreeOf(store)
  BY MountedSound, MountedTree
<1>2. mounted' = mounted /\ reply'.op = op /\ reply'.path = p /\ reply'.err = "OK"
  BY RemovalShrinks
<1>3. TreeOfStore' = TreeOf(store')
  BY <1>2, MountedTree
<1>4. CASE UNCHANGED store /\ go_through_inodes(store, p) = NULL
  <2>1. TreeOfStore' = TreeOfStore
    BY <1>1, <1>3, <1>4
  <2>2. TreeOfStore = Without(TreeOfStore, p)
    BY <1>1, <1>4, NothingBelow
  <2>. QED BY <1>2, <2>1, <2>2, SameOperators DEF Without, FT!Delete, FT!Asked, FT!Answers
<1>5. CASE Shrunk(store, p, store')
  <2>1. TreeOfStore' = Without(TreeOfStore, p)
    BY <1>1, <1>3, <1>5, ShrunkTree
  <2>. QED BY <1>2, <2>1, SameOperators DEF Without, FT!Delete, FT!Asked, FT!Answers
<1>. QED BY <1>4, <1>5, RemovalShrinks

----------------------------------------------------------------------------
LEMMA StepImplements == IInv /\ Shallow /\ [Next]_vars => [FT!Next]_FT!vars
<1>. SUFFICES ASSUME IInv, Shallow, [Next]_vars
              PROVE  [FT!Next]_FT!vars
  OBVIOUS
<1>1. CASE UNCHANGED vars
  BY <1>1, SameTree DEF vars, FT!vars
<1>2. CASE hello_init
  BY <1>2, InitImplements DEF FT!Next
<1>3. CASE Exit
  BY <1>3, ExitImplements DEF FT!Next
<1>4. ASSUME NEW p \in Paths, hello_getattr(p)
      PROVE  FT!Next
  BY <1>4, GetattrImplements DEF FT!Next
<1>5. ASSUME NEW p \in Paths, hello_readdir(p)
      PROVE  FT!Next
  BY <1>5, ReaddirImplements DEF FT!Next
<1>6. ASSUME NEW p \in Paths, hello_open(p)
      PROVE  FT!Next
  BY <1>6, OpenImplements DEF FT!Next
<1>7. ASSUME NEW p \in Paths, hello_read(p)
      PROVE  FT!Next
  BY <1>7, ReadImplements DEF FT!Next
<1>8. ASSUME NEW p \in Paths, hello_create(p)
      PROVE  FT!Next
  BY <1>8, CreateImplements DEF FT!Next
<1>9. ASSUME NEW p \in Paths, hello_mkdir(p)
      PROVE  FT!Next
  BY <1>9, MkdirImplements DEF FT!Next
<1>10. ASSUME NEW p \in Paths, hello_unlink(p)
       PROVE  FT!Next
  <2>1. p # << >> /\ FT!Delete("unlink", p)
    BY <1>10, RemovalImplements DEF hello_unlink, Root
  <2>. QED BY <2>1 DEF FT!Next
<1>11. ASSUME NEW p \in Paths, hello_rmdir(p)
       PROVE  FT!Next
  <2>1. p # << >> /\ FT!Delete("rmdir", p)
    BY <1>11, RemovalImplements DEF hello_rmdir, Root
  <2>. QED BY <2>1 DEF FT!Next
<1>12. ASSUME NEW p \in Paths, NEW buf \in Payloads, hello_write(p, buf)
       PROVE  FT!Next
  BY <1>12, WriteImplements DEF FT!Next
<1>. QED BY <1>1, <1>2, <1>3, <1>4, <1>5, <1>6, <1>7, <1>8, <1>9, <1>10, <1>11, <1>12 DEF Next

\* What the handlers do to the paths, and answer, is what FileTree promises to
\* the programs above: whatever the keys drawn, the names and the payloads, the
\* blobs behind the paths never show (main.c).
THEOREM ImplementsTheTree == Spec => ImplementsFileTree
<1>1. Init => FT!Init /\ Shallow
  BY MountedTree DEF Init, FT!Init, Shallow
<1>2. IInv /\ Shallow /\ [Next]_vars => Shallow'
  BY StaysShallow
<1>3. IInv /\ Shallow /\ [Next]_vars => [FT!Next]_FT!vars
  BY StepImplements
<1>. QED BY <1>1, <1>2, <1>3, InductiveInvariant, PTL DEF Spec, ImplementsFileTree, FT!Spec
============================================================================
