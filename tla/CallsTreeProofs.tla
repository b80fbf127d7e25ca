-------------------------- MODULE CallsTreeProofs --------------------------
(***************************************************************************)
(* CkvfsCalls implements FileTree, for any number of threads: the locks of *)
(* the kernel and of libfuse are enough for all but the answer of a        *)
(* getattr whose name is made or removed under it.  Here are the handlers  *)
(* that change something, which keep the invariant of LocksProofs too, and *)
(* what FileTree sees of every step.                                       *)
(***************************************************************************)
EXTENDS LocksProofs

----------------------------------------------------------------------------
(* Creations.                                                              *)

\* The directory an entry operation has arrived at.
LEMMA DirectoryInHand ==
  ASSUME NamesInv, LockInv(store, th, overtaken), NEW t \in Threads, th[t].pc = "arrived",
         th[t].req.op \in EntryOps, ~ DirIsMissing(t)
  PROVE  LET s == Overlaid(store, th)
             b == th[t].blob
             k == go_through_inodes(s, Front(th[t].req.path))
         IN  /\ k \in DOMAIN store /\ k \in DOMAIN s /\ k \in Keys /\ k # NULL
             /\ b = BlobsOf(s)[k] /\ b = get_blob_from_key(store, k)
             /\ b.inodeid = k /\ b.is_dir = ISDIR /\ b.sub_items \in Seq(Item)
             /\ GoodBlob(k, b) /\ NoneComes(th, k)
<1>. DEFINE s == Overlaid(store, th)
            r == th[t].req
            b == th[t].blob
            k == go_through_inodes(s, Front(r.path))
<1>0. r.op # "getattr"
  BY DEF EntryOps, Making, Removing
<1>1. /\ Sound(s) /\ Found(r, s) /\ Unmarked(th, t, r) /\ t \notin overtaken
      /\ r \in Requests /\ r.path # << >> /\ Front(r.path) \in Seq(Names)
      /\ IsPrefix(Front(r.path), r.path)
  BY <1>0, Walker
<1>2. /\ Carries(th[t], s, Front(r.path)) /\ k \in DOMAIN s /\ k # NULL /\ GoodBlob(k, b)
      /\ b.sub_items \in Seq(Item)
  BY <1>1, ArrivedIs
<1>3. ~ Waiting(th[t])
  BY DEF Waiting
<1>4. b = BlobsOf(s)[k]
  BY <1>2 DEF Carries
<1>5. k \in DOMAIN store /\ get_blob_from_key(store, k) = BlobsOf(s)[k] /\ NoneComes(th, k)
  BY <1>1, <1>2, <1>3, ReadAgrees
<1>6. BlobsOf(s)[k].is_dir = ISDIR
  BY <1>1, <1>2, FoundKinds
<1>. HIDE DEF s, k, b
<1>7. k \in Keys
  BY <1>1, <1>2 DEF Sound, Stored
<1>8. b.inodeid = k
  BY <1>2 DEF GoodBlob
<1>. QED BY <1>2, <1>4, <1>5, <1>6, <1>7, <1>8 DEF s, k, b

\* The first call of two, when it does not fail.
LEMMA FirstIs ==
  ASSUME NamesInv, SaneInv, Serving', NEW t \in Threads, NEW s, NEW b, FirstOfTwo(t, s, b)
  PROVE  /\ store' = s /\ reply' = Reply(t)
         /\ \E new : Moves(th, t, new, th') /\ new.pc = "second" /\ new.req = th[t].req
                     /\ new.blob = b
<1>1. store' = s
  <2>1. ~ Fails(1)
    BY NoFault
  <2>. QED BY <2>1 DEF FirstOfTwo, Changes
<1>2. reply' = Reply(t)
  BY Zenon DEF FirstOfTwo
<1>3. PICK new : Becomes(t, new) /\ new.pc = "second" /\ new.req = th[t].req /\ new.blob = b
  BY FirstShape
<1>4. Moves(th, t, new, th')
  BY <1>3, BecomesMoves
<1>. QED BY <1>1, <1>2, <1>3, <1>4

\* The first of two calls marks every getattr of its name that is under way.
LEMMA FirstMarks ==
  ASSUME NamesInv, LockInv(store, th, overtaken), NEW t \in Threads, Walks(th, t),
         th[t].req.op \in EntryOps, NEW s, NEW b, FirstOfTwo(t, s, b)
  PROVE  /\ overtaken \subseteq overtaken'
         /\ \A u \in overtaken' : u \in Threads /\ Looking(th[u])
         /\ \A u \in Threads \ {t} : Walks(th, u) /\ u \notin overtaken'
              => ~ Crosses(th[t].req, th[u].req)
<1>1. overtaken' = overtaken \cup
        {u \in Threads : Walks(th, u) /\ th[u].req.op = "getattr"
                           /\ th[u].req.path = th[t].req.path}
  BY DEF FirstOfTwo, Busy, Walks, Op, Path
<1>2. Marks(th, overtaken) /\ Separate(th, t, th[t].req)
  BY LockParts
<1>3. \A u \in Threads \ {t} : Walks(th, u) => ~ Excludes(th[t].req, th[u].req)
  BY <1>2 DEF Separate
<1>4. ASSUME NEW u \in Threads \ overtaken, Walks(th, u), th[u].req.op = "getattr"
      PROVE  Looking(th[u])
  <2>1. OnTheWay(th[u], store, Overlaid(store, th)) /\ th[u].pc # "idle"
    BY <1>4, LockParts DEF Walks
  <2>2. th[u].pc # "second"
    BY <1>4, <2>1 DEF OnTheWay, Making, Removing
  <2>. QED BY <1>4, <2>1, <2>2 DEF Looking
<1>5. \A u \in overtaken' : u \in Threads /\ Looking(th[u])
  BY <1>1, <1>2, <1>4 DEF Marks
<1>. QED BY <1>1, <1>3, <1>5 DEF Crosses

\* The last call marks none, and leaves none to mark.
LEMMA SecondMarks ==
  ASSUME NamesInv, LockInv(store, th, overtaken), NEW t \in Threads,
         Waiting(th[t]) \/ (th[t].pc = "second" /\ th[t].req.op = "write"), Second(t)
  PROVE  /\ overtaken \subseteq overtaken'
         /\ \A u \in overtaken' : u \in Threads /\ Looking(th[u])
         /\ \A u \in Threads \ {t} : Walks(th, u) /\ u \notin overtaken'
              => ~ Crosses(th[t].req, th[u].req)
<1>1. overtaken' = overtaken \ {t}
  BY Zenon DEF Second, End
<1>2. Walks(th, t) /\ th[t].req.op # "getattr"
  BY DEF Walks, Waiting, EntryOps, Making, Removing
<1>3. Marks(th, overtaken) /\ Separate(th, t, th[t].req) /\ t \notin overtaken
  BY <1>2, LockParts, OthersAreNot
<1>4. overtaken' = overtaken
  BY <1>1, <1>3
<1>5. ASSUME NEW u \in Threads \ {t}, Walks(th, u), u \notin overtaken
      PROVE  ~ Crosses(th[t].req, th[u].req)
  <2>1. CASE Waiting(th[t])
    BY <1>3, <1>5, <2>1 DEF Marks
  <2>2. CASE th[t].req.op = "write"
    <3>1. th[t].req.op \notin EntryOps
      BY <2>2 DEF EntryOps, Making, Removing
    <3>. QED BY <1>3, <1>5, <3>1 DEF Separate, Crosses
  <2>. QED BY <2>1, <2>2
<1>. QED BY <1>3, <1>4, <1>5 DEF Marks

\* Nothing is known of a drawn key.
LEMMA DrawnIs ==
  ASSUME NEW id \in Fresh
  PROVE  /\ id \in Ids /\ id \in Keys /\ id # NULL /\ id \notin DOMAIN store
         /\ NoneComes(th, id) /\ id \notin DOMAIN Overlaid(store, th)
<1>1. id \in Ids /\ id \notin DOMAIN store /\ id \notin InUse
  BY Zenon DEF Fresh, get_random_num
<1>2. id \in Keys /\ id # NULL
  BY <1>1, BlobAssumption DEF Keys
<1>3. \A t \in Threads : th[t].blob.inodeid # id
  <2>. SUFFICES ASSUME NEW t \in Threads PROVE th[t].blob.inodeid # id
    OBVIOUS
  <2>1. id \notin KeysIn(t)
    BY <1>1 DEF InUse
  <2>. QED BY <2>1 DEF KeysIn, KeysOf
<1>4. NoneComes(th, id)
  BY <1>3 DEF Coming, NoneComes
<1>5. id \notin Due(th)
  BY <1>4 DEF Due, NoneComes
<1>6. DOMAIN Overlaid(store, th) = DOMAIN store \cup Due(th)
  BY OverlaidDomain
<1>. QED BY <1>1, <1>2, <1>4, <1>5, <1>6

LEMMA PlainReply ==
  ASSUME NEW t \in Threads
  PROVE  /\ Reply(t).op = th[t].req.op /\ Reply(t).path = th[t].req.path
         /\ Reply(t).err = "OK" /\ Reply(t).n = 0 /\ ~ Reply(t).late
BY DEF Reply, Op, Path, Request, NoReply

LEMMA EntryStored ==
  ASSUME NamesInv, SaneInv, Serving', LockInv(store, th, overtaken), NEW t \in Threads,
         th[t].pc = "arrived", th[t].req.op \in Making, ~ DirIsMissing(t),
         ~ has_path(th[t].blob, Name(t)), ~ (Len(th[t].blob.sub_items) >= MAX_ITEMS),
         NEW id \in Fresh, NEW isd, isd = (th[t].req.op = "mkdir"),
         NEW node, node = IF isd THEN EmptyDir(id) ELSE EmptyFile(id),
         FirstOfTwo(t, insert_item_into_blob(store, th[t].blob, Name(t), isd, id), node)
  PROVE  Happens(th[t].req)
<1>. DEFINE s == Overlaid(store, th)
            r == th[t].req
            p == r.path
            b == th[t].blob
            k == go_through_inodes(s, Front(p))
            item == [item_path |-> Last(p), inodeid |-> id, is_dir |-> isd]
            b1 == [b EXCEPT !.sub_items = Append(@, item)]
            d1 == write_to_dict(store, k, b1)
            e  == insert_item_into_blob(s, BlobsOf(s)[k], Last(p), isd, id)
            s1 == Overlaid(store', th')
<1>0. isd \in BOOLEAN /\ r.op \in EntryOps
  BY DEF EntryOps
<1>1. /\ Sound(s) /\ Found(r, s) /\ Walks(th, t) /\ p \in Paths /\ p \in Seq(Names) /\ p # << >>
      /\ Front(p) \in Seq(Names) /\ Last(p) \in Names /\ Name(t) = Last(p)
  BY Walker
<1>2. /\ k \in DOMAIN store /\ k \in DOMAIN s /\ k \in Keys /\ k # NULL
      /\ b = BlobsOf(s)[k] /\ b.inodeid = k /\ b.is_dir = ISDIR /\ b.sub_items \in Seq(Item)
      /\ NoneComes(th, k)
  BY <1>0, DirectoryInHand
<1>3. /\ id \in Ids /\ id \in Keys /\ id # NULL /\ id \notin DOMAIN store
      /\ NoneComes(th, id) /\ id \notin DOMAIN s
  BY DrawnIs
<1>4. /\ store' = insert_item_into_blob(store, b, Last(p), isd, id) /\ reply' = Reply(t)
      /\ \E new : Moves(th, t, new, th') /\ new.pc = "second" /\ new.req = r
                  /\ new.blob = node
  BY <1>1, FirstIs
<1>5. PICK new : Moves(th, t, new, th') /\ new.pc = "second" /\ new.req = r /\ new.blob = node
  BY <1>4
<1>6. store' = d1
  BY <1>1, <1>2, <1>4 DEF insert_item_into_blob
<1>7. e = write_to_dict(s, k, b1)
  <2>. HIDE DEF s
  <2>. QED BY <1>1, <1>2 DEF insert_item_into_blob
<1>8. node.inodeid = id
  BY DEF EmptyDir, EmptyFile
<1>9. ~ Waiting(th[t]) /\ Waiting(new)
  BY <1>0, <1>5 DEF Waiting
<1>. HIDE DEF s, k, b, r, p, item, e, b1
<1>10. Overlaid(d1, th) = e
  <2>1. NoneComes(th, k)
    BY <1>2
  <2>. QED BY <1>7, <2>1, NoneUnder DEF s
<1>11. Overlaid(d1, th') = write_to_dict(Overlaid(d1, th), id, node)
  <2>0. id = new.blob.inodeid /\ new.blob = node
    BY <1>5, <1>8
  <2>1. new.blob.inodeid \in Keys /\ NoneComes(th, new.blob.inodeid)
    BY <1>3, <2>0
  <2>2. Moves(th, t, new, th')
    BY <1>5
  <2>. HIDE DEF d1
  <2>3. Overlaid(d1, th') = write_to_dict(Overlaid(d1, th), new.blob.inodeid, new.blob)
    BY <1>9, <2>1, <2>2, OneComes
  <2>. QED BY <2>0, <2>3
<1>12. s1 = write_to_dict(e, id, node)
  BY <1>6, <1>10, <1>11 DEF d1
<1>13. /\ GoodBlob(id, node) /\ node.sub_items = << >> /\ node.data = << >>
       /\ node.is_dir = ISDIR <=> isd
  BY <1>0, <1>3, NewBlobs DEF EmptyDir, EmptyFile
<1>14. /\ ~ has_path(BlobsOf(s)[k], Last(p)) /\ Len(BlobsOf(s)[k].sub_items) < MAX_ITEMS
       /\ BlobsOf(s)[k].is_dir = ISDIR
  <2>1. Len(b.sub_items) \in Nat /\ MAX_ITEMS \in Nat
    BY <1>2, BlobAssumption
  <2>2. ~ (Len(b.sub_items) >= MAX_ITEMS)
    BY DEF b
  <2>3. Len(b.sub_items) < MAX_ITEMS
    BY <2>1, <2>2
  <2>. QED BY <1>1, <1>2, <2>3 DEF b
<1>15. k = root_id => Last(p) # HEAD
  <2>1. p \notin {Root, <<HEAD>>} /\ attr(s, Front(p)).kind # "file"
    BY <1>0, <1>1 DEF Found, r, p, Root
  <2>. QED BY <1>1, <1>2, <2>1, DirectoryOfNew DEF k
<1>16. Grown(s, p, id, [kind |-> IF isd THEN "dir" ELSE "file", data |-> node.data],
             write_to_dict(e, id, node))
  <2>. HIDE DEF Grown
  <2>1. k = go_through_inodes(s, Front(p))
    BY DEF k
  <2>. QED BY <1>0, <1>1, <1>2, <1>3, <1>13, <1>14, <1>15, <2>1, GrownByEntry DEF e
<1>17. Sound(s1) /\ Added(BlobsOf(s), k, item, BlobsOf(s1))
  <2>1. Sound(s) /\ k \in DOMAIN s /\ Last(p) \in Names /\ id \in Ids /\ id \notin DOMAIN s
    BY <1>1, <1>2, <1>3
  <2>2. /\ Sound(write_to_dict(e, id, node))
        /\ Added(BlobsOf(s), k, item, BlobsOf(write_to_dict(e, id, node)))
    BY <1>0, <1>13, <1>14, <1>15, <2>1, EntryAdded DEF e, item
  <2>. QED BY <1>12, <2>2
<1>18. \E new1, nd : Grown(s, p, new1, nd, s1)
  BY <1>12, <1>16
<1>19. /\ DOMAIN store' = DOMAIN store
       /\ \A x \in DOMAIN store : x # k => store'[x] = store[x]
  <2>. HIDE DEF s1
  <2>. QED BY <1>2, <1>6 DEF write_to_dict, perform_insertion
<1>. HIDE DEF d1, s1
<1>20. Does(r, store, s, store', s1)
  <2>1. \A x \in DOMAIN s : x # k => BlobsOf(s1)[x] = BlobsOf(s)[x]
    <3>1. DOMAIN BlobsOf(s) = DOMAIN s
      BY <1>1, StoredBlobs DEF Sound
    <3>. QED BY <1>17, <3>1 DEF Added
  <2>2. r.op \in Making /\ \E new1, nd : Grown(s, r.path, new1, nd, s1)
    BY <1>18 DEF p, r
  <2>3. \A x \in DOMAIN s :
          /\ x # go_through_inodes(s, r.path)
          /\ r.op \in EntryOps => x # go_through_inodes(s, Front(r.path))
          => /\ BlobsOf(s1)[x] = BlobsOf(s)[x]
             /\ x \in DOMAIN store' <=> x \in DOMAIN store
             /\ x \in DOMAIN store => store'[x] = store[x]
    BY <1>0, <1>19, <2>1 DEF k, p
  <2>. QED BY <1>0, <2>2, <2>3, Zenon DEF Does
<1>21. OnTheWay(new, store', s1)
  <2>1. go_through_inodes(s1, p) = id
    BY <1>1, <1>12, <1>16 DEF Grown
  <2>2. Made(new, store', s1)
    <3>1. new.req.path = p /\ new.blob.inodeid = id
      BY <1>5, <1>8 DEF p
    <3>2. new.blob = IF new.req.op = "mkdir" THEN EmptyDir(id) ELSE EmptyFile(id)
      BY <1>5 DEF r
    <3>3. id \notin DOMAIN store'
      BY <1>3, <1>19
    <3>. QED BY <1>3, <2>1, <3>1, <3>2, <3>3, Zenon DEF Made
  <2>3. r.op \in Making
    BY DEF r
  <2>. QED BY <1>5, <2>2, <2>3, Zenon DEF OnTheWay
<1>22. LockInv(store', th', overtaken')
  <2>1. /\ overtaken \subseteq overtaken'
        /\ \A u \in overtaken' : u \in Threads /\ Looking(th[u])
        /\ \A u \in Threads \ {t} : Walks(th, u) /\ u \notin overtaken'
             => ~ Crosses(th[t].req, th[u].req)
    BY <1>0, <1>1, FirstMarks DEF r
  <2>. QED BY <1>0, <1>1, <1>5, <1>17, <1>20, <1>21, <2>1, ChangingMove DEF s, s1, r
<1>23. reply'.op = r.op /\ reply'.path = p /\ reply'.err = "OK" /\ ~ reply'.late
  BY <1>4, PlainReply DEF r, p
<1>24. Grown(s, p, id, [kind |-> IF r.op = "mkdir" THEN "dir" ELSE "file", data |-> << >>], s1)
  BY <1>12, <1>13, <1>16 DEF r
<1>25. Fulfils(r, s, s1, reply')
  <2>1. r.op \in Making /\ r.path = p
    BY DEF r, p
  <2>. QED BY <1>23, <1>24, <2>1, Zenon DEF Fulfils
<1>. QED BY <1>22, <1>25, SettledIs DEF Happens, s, s1, r

\* A change of an entry that finds nothing to change.
LEMMA ChangesNothing ==
  ASSUME NEW q, LockInv(store', th', overtaken'), Settled' = Settled,
         reply'.op = q.op, reply'.path = q.path, ~ reply'.late,
         NEW s, s = Overlaid(store, th),
         \/ /\ q.op \in Making /\ reply'.err \in {"OK", "ENOTDIR"}
            /\ \/ go_through_inodes(s, Front(q.path)) = NULL
               \/ go_through_inodes(s, q.path) # NULL
         \/ /\ q.op \in Removing /\ reply'.err = "OK"
            /\ go_through_inodes(s, q.path) = NULL
  PROVE  Happens(q)
<1>1. Settled = s /\ Settled' = s
  BY SettledIs
<1>2. Fulfils(q, s, s, reply')
  BY Zenon DEF Fulfils
<1>. QED BY <1>1, <1>2, Zenon DEF Happens

LEMMA AddServes ==
  ASSUME NamesInv, SaneInv, Serving', LockInv(store, th, overtaken), NEW t \in Threads, AddName(t)
  PROVE  Happens(th[t].req)
<1>. DEFINE s == Overlaid(store, th)
            r == th[t].req
            p == r.path
            k == go_through_inodes(s, Front(p))
            id == go_through_inodes(s, p)
<1>0. th[t].pc = "arrived" /\ r.op \in Making /\ r.op \in EntryOps /\ Op(t) = r.op
  BY DEF AddName, Arrived, At, Op, EntryOps
<1>1. /\ th[t].pc = "arrived" /\ r.op \in Making /\ r.op \in EntryOps /\ Op(t) = r.op
      /\ t \notin overtaken
  <2>1. r.op # "getattr"
    BY <1>0 DEF Making
  <2>. QED BY <1>0, <2>1, OthersAreNot
<1>2. ASSUME NEW err \in {"OK", "ENOTDIR"}, GiveUp(t, err), k = NULL \/ id # NULL
      PROVE  Happens(r)
  <2>1. /\ LockInv(store', th', overtaken') /\ Settled' = Settled
        /\ reply'.op = r.op /\ reply'.path = p /\ reply'.err = err
        /\ ~ reply'.late
    BY <1>1, <1>2, GivesUp
  <2>. HIDE DEF s, r
  <2>. QED BY <1>1, <1>2, <2>1, ChangesNothing DEF s
<1>3. CASE DirIsMissing(t)
  <2>1. GiveUp(t, IF Op(t) = "mkdir" THEN "ENOTDIR" ELSE "OK")
    BY <1>3, Zenon DEF AddName
  <2>2. k = NULL
    BY <1>1, <1>3, ArrivedIs
  <2>. QED BY <1>2, <2>1, <2>2
<1>4. ASSUME ~ DirIsMissing(t) PROVE ~ WrongKind(t)
  <2>1. th[t].blob.is_dir = ISDIR
    BY <1>1, <1>4, DirectoryInHand
  <2>. QED BY <2>1 DEF WrongKind, ISDIR
<1>5. CASE ~ DirIsMissing(t) /\ has_path(th[t].blob, Name(t))
  <2>1. GiveUp(t, "OK")
    BY <1>5, Zenon DEF AddName
  <2>2. id # NULL
    BY <1>1, <1>5, ArrivedIs
  <2>. QED BY <1>2, <2>1, <2>2
<1>6. CASE ~ DirIsMissing(t) /\ ~ has_path(th[t].blob, Name(t))
  <2>1. ~ WrongKind(t)
    BY <1>4, <1>6
  <2>2. CASE Len(th[t].blob.sub_items) >= MAX_ITEMS
    <3>1. Gone
      BY <1>6, <2>1, <2>2 DEF AddName
    <3>2. ~ Serving'
      BY <3>1 DEF Gone, Serving
    <3>. QED BY <3>2
  <2>3. CASE ~ (Len(th[t].blob.sub_items) >= MAX_ITEMS)
    <3>. DEFINE isd == (Op(t) = "mkdir")
    <3>1. PICK x \in Fresh :
            FirstOfTwo(t, insert_item_into_blob(store, th[t].blob, Name(t), isd, x),
                       IF isd THEN EmptyDir(x) ELSE EmptyFile(x))
      BY <1>6, <2>1, <2>3, Zenon DEF AddName
    <3>. QED BY <1>1, <1>6, <2>3, <3>1, EntryStored
  <2>. QED BY <2>2, <2>3
<1>. QED BY <1>3, <1>5, <1>6

----------------------------------------------------------------------------
(* Removals.                                                               *)

\* No blob comes under a key that is being removed: who makes it or stores it
\* is at or below the path.
LEMMA NoneAtRemoved ==
  ASSUME NamesInv, LockInv(store, th, overtaken), NEW t \in Threads, th[t].pc = "arrived",
         th[t].req.op \in Removing,
         NEW id, id = go_through_inodes(Overlaid(store, th), th[t].req.path), id # NULL
  PROVE  NoneComes(th, id)
<1>. DEFINE s == Overlaid(store, th)
            p == th[t].req.path
<1>1. Sound(s) /\ Separate(th, t, th[t].req) /\ p \in Seq(Names) /\ p # << >> /\ IsPrefix(p, p)
  BY Walker
<1>2. SUFFICES ASSUME NEW u \in Threads, Waiting(th[u]), th[u].blob.inodeid = id
               PROVE  FALSE
  BY DEF Coming, NoneComes
<1>3. u # t /\ th[u].pc = "second" /\ th[u].req.op \in EntryOps
  BY <1>2 DEF Waiting
<1>4. th[u].req.op # "getattr"
  BY <1>3 DEF EntryOps, Making, Removing
<1>5. /\ OnTheWay(th[u], store, s) /\ Walks(th, u)
      /\ th[u].req.path \in Seq(Names) /\ th[u].req.path # << >>
      /\ Front(th[u].req.path) \in Seq(Names)
      /\ IsPrefix(th[u].req.path, th[u].req.path) /\ IsPrefix(Front(th[u].req.path), th[u].req.path)
  BY <1>3, <1>4, Walker
<1>6. ~ Excludes(th[t].req, th[u].req)
  BY <1>1, <1>3, <1>5 DEF Separate
<1>7. ~ IsPrefix(p, th[u].req.path)
  BY <1>4, <1>6 DEF Excludes, EntryOps
<1>. HIDE DEF s, p
<1>8. id = go_through_inodes(s, p)
  BY DEF s, p
<1>9. CASE th[u].req.op \in Making /\ Made(th[u], store, s)
  <2>1. go_through_inodes(s, th[u].req.path) = id
    BY <1>2, <1>9 DEF Made
  <2>2. th[u].req.path = p
    BY <1>1, <1>2, <1>5, <1>8, <2>1, OnePath
  <2>. QED BY <1>1, <1>7, <2>2
<1>10. CASE th[u].req.op \in Removing /\ Unlinked(th[u], store, s)
  <2>1. go_through_inodes(s, Front(th[u].req.path)) = id
    BY <1>2, <1>10 DEF Unlinked
  <2>2. Front(th[u].req.path) = p
    BY <1>1, <1>2, <1>5, <1>8, <2>1, OnePath
  <2>. QED BY <1>5, <1>7, <2>2
<1>11. "write" \notin EntryOps
  BY DEF EntryOps, Making, Removing
<1>. QED BY <1>3, <1>5, <1>9, <1>10, <1>11, Zenon DEF OnTheWay

LEMMA RemoveServes ==
  ASSUME NamesInv, SaneInv, Serving', LockInv(store, th, overtaken), NEW t \in Threads, RemoveName(t)
  PROVE  Happens(th[t].req)
<1>. DEFINE s == Overlaid(store, th)
            r == th[t].req
            p == r.path
            b == th[t].blob
            k == go_through_inodes(s, Front(p))
            id == go_through_inodes(s, p)
<1>0. th[t].pc = "arrived" /\ r.op \in Removing /\ r.op \in EntryOps /\ Op(t) = r.op
  BY DEF RemoveName, Arrived, At, Op, EntryOps
<1>1. /\ th[t].pc = "arrived" /\ r.op \in Removing /\ r.op \in EntryOps /\ Op(t) = r.op
      /\ t \notin overtaken
  <2>1. r.op # "getattr"
    BY <1>0 DEF Removing
  <2>. QED BY <1>0, <2>1, OthersAreNot
<1>2. ASSUME GiveUp(t, "OK"), id = NULL
      PROVE  Happens(r)
  <2>1. /\ LockInv(store', th', overtaken') /\ Settled' = Settled
        /\ reply'.op = r.op /\ reply'.path = p /\ reply'.err = "OK"
        /\ ~ reply'.late
    BY <1>1, <1>2, GivesUp
  <2>. HIDE DEF s, r
  <2>. QED BY <1>1, <1>2, <2>1, ChangesNothing DEF s
<1>3. CASE DirIsMissing(t)
  <2>1. GiveUp(t, "OK")
    BY <1>3, Zenon DEF RemoveName
  <2>2. id = NULL
    BY <1>1, <1>3, ArrivedIs
  <2>. QED BY <1>2, <2>1, <2>2
<1>4. CASE ~ DirIsMissing(t) /\ EntryKey(t) = NULL
  <2>1. GiveUp(t, "OK")
    BY <1>4, Zenon DEF RemoveName
  <2>2. id = NULL
    BY <1>1, <1>4, ArrivedIs
  <2>. QED BY <1>2, <2>1, <2>2
<1>5. CASE ~ DirIsMissing(t) /\ EntryKey(t) # NULL
  <2>. DEFINE b1 == remove_inode_from_path(b, Last(p))
              s1 == Overlaid(store', th')
              d1 == perform_delete(store, id)
              e  == perform_delete(s, id)
  <2>1. /\ Sound(s) /\ Found(r, s) /\ Walks(th, t) /\ p \in Paths /\ p \in Seq(Names)
        /\ p # << >> /\ Front(p) \in Seq(Names) /\ Last(p) \in Names /\ Name(t) = Last(p)
    BY <1>1, Walker
  <2>2. /\ k \in DOMAIN store /\ k \in DOMAIN s /\ k \in Keys /\ k # NULL
        /\ b = BlobsOf(s)[k] /\ b = get_blob_from_key(store, k)
        /\ b.inodeid = k /\ b.is_dir = ISDIR /\ GoodBlob(k, b) /\ NoneComes(th, k)
    BY <1>1, <1>5, DirectoryInHand
  <2>3. EntryKey(t) = id /\ id # NULL /\ has_path(b, Last(p)) /\ id \in DOMAIN s
    BY <1>1, <1>5, <2>1, ArrivedIs
  <2>4. NoneComes(th, id)
    BY <1>1, <2>3, NoneAtRemoved
  <2>5. FirstOfTwo(t, d1, b1)
    BY <1>5, <2>1, <2>3, Zenon DEF RemoveName
  <2>6. store' = d1 /\ reply' = Reply(t)
    BY <2>5, FirstIs
  <2>7. PICK new : Moves(th, t, new, th') /\ new.pc = "second" /\ new.req = r /\ new.blob = b1
    BY <2>5, FirstIs
  <2>8. ~ Waiting(th[t]) /\ Waiting(new)
    BY <1>1, <2>7 DEF Waiting
  <2>9. b1.inodeid = k
    <3>. HIDE DEF k, b
    <3>1. IsBlob(b)
      BY DEF b, NamesInv, Holds, NameBlob
    <3>. QED BY <2>2, <3>1 DEF remove_inode_from_path, IsBlob
  <2>10. id = get_inode_from_path(b, Last(p))
    BY <2>1, <2>3, Zenon DEF EntryKey
  <2>. HIDE DEF s, r, p, b, k, id
  <2>11. Overlaid(d1, th) = e
    BY <2>4, NoneUnderDeleted DEF s
  <2>. HIDE DEF b1
  <2>12. Overlaid(d1, th') = write_to_dict(Overlaid(d1, th), k, b1)
    BY <2>2, <2>7, <2>8, <2>9, OneComes
  <2>13. s1 = write_to_dict(e, k, b1)
    BY <2>6, <2>11, <2>12
  <2>14. s1 = write_to_dict(perform_delete(s, get_inode_from_path(BlobsOf(s)[k], Last(p))),
                            BlobsOf(s)[k].inodeid, remove_inode_from_path(BlobsOf(s)[k], Last(p)))
    BY <2>2, <2>10, <2>13 DEF b1
  <2>. HIDE DEF d1, s1, e
  <2>15. has_path(BlobsOf(s)[k], Last(p))
    BY <2>2, <2>3
  <2>16. Shrunk(s, p, s1)
    <3>1. k = go_through_inodes(s, Front(p))
      BY DEF k
    <3>. QED BY <2>1, <2>2, <2>14, <2>15, <3>1, ShrunkByRemoval
  <2>17. /\ Sound(s1)
         /\ Removed(BlobsOf(s), k, Position(BlobsOf(s)[k], Last(p)), BlobsOf(s1))
    BY <2>1, <2>2, <2>14, <2>15, EntryRemoved
  <2>18. /\ DOMAIN store' = DOMAIN store \ {id}
         /\ \A x \in DOMAIN store : x # id => store'[x] = store[x]
    BY <2>6 DEF perform_delete, d1
  <2>19. k # id
    <3>1. IsPrefix(p, p)
      BY <2>1, PrefixIs
    <3>2. k \in DOMAIN s1
      BY <2>13 DEF write_to_dict, perform_insertion
    <3>3. id \notin DOMAIN s1
      BY <2>16 DEF Shrunk, id
    <3>. QED BY <3>2, <3>3
  <2>20. Does(r, store, s, store', s1)
    <3>1. \A x \in DOMAIN s : x # k /\ x # id => BlobsOf(s1)[x] = BlobsOf(s)[x]
      <4>1. DOMAIN BlobsOf(s) = DOMAIN s /\ DOMAIN BlobsOf(s1) = DOMAIN s1
        BY <2>1, <2>17, StoredBlobs DEF Sound
      <4>2. DOMAIN s1 = DOMAIN s \ {id}
        BY <2>16 DEF Shrunk, id
      <4>. QED BY <2>17, <4>1, <4>2 DEF Removed
    <3>2. r.op \in Removing /\ Shrunk(s, r.path, s1)
      BY <1>1, <2>16 DEF p, r
    <3>3. \A x \in DOMAIN s :
            /\ x # go_through_inodes(s, r.path)
            /\ r.op \in EntryOps => x # go_through_inodes(s, Front(r.path))
            => /\ BlobsOf(s1)[x] = BlobsOf(s)[x]
               /\ x \in DOMAIN store' <=> x \in DOMAIN store
               /\ x \in DOMAIN store => store'[x] = store[x]
      BY <1>1, <2>18, <3>1 DEF id, k, p, r
    <3>4. r.op \in EntryOps \cup {"write"}
      BY <1>1 DEF r
    <3>. QED BY <3>2, <3>3, <3>4, Zenon DEF Does
  <2>21. OnTheWay(new, store', s1)
    <3>1. go_through_inodes(s1, p) = NULL /\ go_through_inodes(s1, Front(p)) = k
      <4>1. IsPrefix(p, p) /\ ~ IsPrefix(p, Front(p))
        <5>1. Len(Front(p)) < Len(p)
          BY <2>1, FrontLast
        <5>. QED BY <2>1, <5>1, PrefixIs
      <4>. QED BY <2>1, <2>16, <4>1 DEF Shrunk, k
    <3>2. /\ k \in DOMAIN store' /\ k \in DOMAIN s1
          /\ get_blob_from_key(store', k) = b
      BY <2>2, <2>13, <2>18, <2>19 DEF write_to_dict, perform_insertion, get_blob_from_key, perform_read
    <3>3. b1 = BlobsOf(s1)[k]
      <4>1. BlobsOf(s1)[k] = remove_inode_from_path(BlobsOf(s)[k], Last(p))
        <5>1. Sound(s) /\ k \in DOMAIN s
          BY <2>1, <2>2
        <5>. QED BY <2>14, <2>15, <5>1, EntryRemoved
      <4>. QED BY <2>2, <4>1 DEF b1
    <3>4. Unlinked(new, store', s1)
      BY <2>2, <2>3, <2>7, <2>9, <3>1, <3>2, <3>3 DEF Unlinked, p, b1
    <3>5. r.op \in Removing
      BY <1>1 DEF r
    <3>. QED BY <2>7, <3>4, <3>5, Zenon DEF OnTheWay
  <2>22. LockInv(store', th', overtaken')
    <3>1. /\ overtaken \subseteq overtaken'
          /\ \A u \in overtaken' : u \in Threads /\ Looking(th[u])
          /\ \A u \in Threads \ {t} : Walks(th, u) /\ u \notin overtaken'
               => ~ Crosses(th[t].req, th[u].req)
      BY <1>1, <2>1, <2>5, FirstMarks DEF r
    <3>. QED BY <1>1, <2>1, <2>7, <2>17, <2>20, <2>21, <3>1, ChangingMove DEF s, s1, r
  <2>23. reply'.op = r.op /\ reply'.path = p /\ reply'.err = "OK" /\ ~ reply'.late
    BY <2>6, PlainReply DEF r, p
  <2>24. Fulfils(r, s, s1, reply')
    <3>1. r.op \in Removing /\ r.path = p
      BY <1>1 DEF r, p
    <3>. QED BY <2>16, <2>23, <3>1, Zenon DEF Fulfils
  <2>. QED BY <2>22, <2>24, SettledIs DEF Happens, s, s1, r
<1>. QED BY <1>3, <1>4, <1>5

----------------------------------------------------------------------------
(* Writes.                                                                 *)

LEMMA FilesAre ==
  ASSUME NEW k, NEW b, GoodBlob(k, b), b.is_dir = NOTDIR
  PROVE  b \in FileBlob
BY DEF GoodBlob, DirBlob, ISDIR, NOTDIR

LEMMA WriteServes ==
  ASSUME NamesInv, SaneInv, Serving', LockInv(store, th, overtaken), NEW t \in Threads, Write(t)
  PROVE  Hidden
<1>. DEFINE s == Overlaid(store, th)
            r == th[t].req
            p == r.path
            id == go_through_inodes(s, p)
            c == get_blob_from_key(store, id)
<1>1. th[t].pc = "arrived" /\ r.op = "write"
  BY DEF Write, Arrived, At, Op
<1>2. /\ Sound(s) /\ Found(r, s) /\ Separate(th, t, r)
      /\ Unmarked(th, t, r) /\ t \notin overtaken
      /\ r \in Requests /\ p \in Seq(Names) /\ IsPrefix(p, p)
  BY <1>1, Walker
<1>3. id \in DOMAIN s /\ id # NULL /\ BlobsOf(s)[id].is_dir = NOTDIR
  BY <1>1, <1>2, FoundKinds
<1>4. ~ DirIsMissing(t) /\ EntryKey(t) = id
  BY <1>1, <1>2, <1>3, ArrivedIs
<1>5. PICK res \in ReadResults(t, id) :
        /\ Fails(res.failed)
        /\ th' = [th EXCEPT ![t] = [th[t] EXCEPT !.pc = "second", !.wb = res.blob,
                              !.blob = [res.blob EXCEPT !.data = Kept(th[t].req.buf)]]]
        /\ UNCHANGED <<store, reply, overtaken>>
  BY <1>4 DEF Write
<1>6. ~ Waiting(th[t])
  BY <1>1 DEF Waiting
<1>7. /\ id \in DOMAIN store /\ GoodBlob(id, c)
      /\ c.is_dir = BlobsOf(s)[id].is_dir /\ c.data = BlobsOf(s)[id].data
  BY <1>2, <1>3, <1>6, ReadAgrees
<1>8. res.blob = c
  BY <1>5, <1>7, ReadIs
<1>. DEFINE b   == [res.blob EXCEPT !.data = Kept(th[t].req.buf)]
            new == [th[t] EXCEPT !.pc = "second", !.wb = res.blob, !.blob = b]
<1>9. th' = [th EXCEPT ![t] = new]
  BY <1>5
<1>. HIDE DEF b
<1>10. new.pc = "second" /\ new.req = r /\ new.blob = b
  BY DEF NamesInv, Holds, Fields
<1>. HIDE DEF new
<1>11. Moves(th, t, new, th')
  BY <1>9 DEF NamesInv, Moves
<1>. HIDE DEF s, r, p, id, c
<1>12. c = BlobsOf(s)[id]
  <2>1. GoodBlob(id, BlobsOf(s)[id])
    BY <1>2, <1>3, StoredBlobs DEF Sound
  <2>2. c \in FileBlob /\ BlobsOf(s)[id] \in FileBlob
    BY <1>3, <1>7, <2>1, FilesAre
  <2>3. c.inodeid = BlobsOf(s)[id].inodeid
    BY <1>7, <2>1 DEF GoodBlob
  <2>. QED BY <1>7, <2>2, <2>3 DEF FileBlob
<1>13. b = [BlobsOf(s)[id] EXCEPT !.data = Kept(r.buf)] /\ b.inodeid = id
  <2>1. b = [c EXCEPT !.data = Kept(r.buf)]
    BY <1>8 DEF b, r
  <2>2. c \in FileBlob /\ c.inodeid = id
    BY <1>3, <1>7, FilesAre DEF GoodBlob
  <2>. QED BY <1>12, <2>1, <2>2 DEF FileBlob
<1>14. Filled(new, s)
  BY <1>3, <1>10, <1>13 DEF Filled, id, p, r
<1>15. OnTheWay(new, store, s)
  BY <1>1, <1>10, <1>14, Zenon DEF OnTheWay, r
<1>16. ~ Waiting(new)
  BY <1>1, <1>10 DEF Waiting, EntryOps, Making, Removing, r
<1>17. Found(new.req, s) /\ Separate(th, t, new.req) /\ Unmarked(th, t, new.req)
  BY <1>2, <1>10 DEF r
<1>18. LockInv(store, th', overtaken') /\ Overlaid(store, th') = s
  <2>1. overtaken' \ {t} = overtaken \ {t} /\ t \notin overtaken'
    BY <1>2, <1>5
  <2>. QED BY <1>6, <1>11, <1>15, <1>16, <1>17, <2>1, QuietMove DEF s
<1>. QED BY <1>5, <1>18, SettledIs DEF Hidden, s

\* No blob comes under the key of a file that is being written.
LEMMA NoneAtWritten ==
  ASSUME NamesInv, LockInv(store, th, overtaken), NEW t \in Threads, th[t].pc # "idle",
         th[t].req.op = "write",
         NEW id, id = go_through_inodes(Overlaid(store, th), th[t].req.path)
  PROVE  NoneComes(th, id)
<1>. DEFINE s == Overlaid(store, th)
            p == th[t].req.path
<1>1. /\ Sound(s) /\ Separate(th, t, th[t].req) /\ Found(th[t].req, s)
      /\ p \in Seq(Names) /\ p # << >> /\ IsPrefix(p, p)
  BY Walker
<1>2. SUFFICES ASSUME NEW u \in Threads, Waiting(th[u]), th[u].blob.inodeid = id
               PROVE  FALSE
  BY DEF Coming, NoneComes
<1>3. "write" \notin EntryOps
  BY DEF EntryOps, Making, Removing
<1>4. u # t /\ th[u].pc = "second" /\ th[u].req.op \in EntryOps
  BY <1>2, <1>3 DEF Waiting
<1>5. /\ OnTheWay(th[u], store, s) /\ Walks(th, u) /\ Found(th[u].req, s)
      /\ th[u].req.path \in Seq(Names) /\ th[u].req.path # << >>
  <2>1. th[u].req.op # "getattr"
    BY <1>4 DEF EntryOps, Making, Removing
  <2>. QED BY <1>4, <2>1, Walker
<1>6. ~ Excludes(th[u].req, th[t].req)
  BY <1>1, <1>4, <1>5 DEF Separate
<1>7. ~ IsPrefix(th[u].req.path, p)
  BY <1>4, <1>6 DEF Excludes
<1>. HIDE DEF s, p
<1>8. id = go_through_inodes(s, p) /\ id # NULL /\ BlobsOf(s)[id].is_dir = NOTDIR
  BY <1>1, FoundKinds DEF s, p
<1>9. CASE th[u].req.op \in Making /\ Made(th[u], store, s)
  <2>1. go_through_inodes(s, th[u].req.path) = id
    BY <1>2, <1>9 DEF Made
  <2>2. th[u].req.path = p
    BY <1>1, <1>5, <1>8, <2>1, OnePath
  <2>. QED BY <1>1, <1>7, <2>2
<1>10. CASE th[u].req.op \in Removing /\ Unlinked(th[u], store, s)
  <2>1. go_through_inodes(s, Front(th[u].req.path)) = id
    BY <1>2, <1>10 DEF Unlinked
  <2>2. BlobsOf(s)[id].is_dir = ISDIR
    BY <1>1, <1>4, <1>5, <1>8, <2>1, FoundKinds
  <2>. QED BY <1>8, <2>2 DEF ISDIR, NOTDIR
<1>. QED BY <1>3, <1>4, <1>5, <1>9, <1>10, Zenon DEF OnTheWay

\* The last call, when it does not fail.
LEMMA SecondIs ==
  ASSUME NamesInv, SaneInv, Serving', NEW t \in Threads, Second(t), th[t].blob.inodeid # NULL
  PROVE  /\ store' = write_to_dict(store, th[t].blob.inodeid, th[t].blob)
         /\ \E new : Moves(th, t, new, th') /\ new.pc = "idle" /\ ~ Waiting(new)
         /\ Op(t) = "write" => reply' = [Reply(t) EXCEPT !.n = Len(th[t].req.buf)]
         /\ Op(t) # "write" => reply' = reply
<1>1. store' = Stored1(th[t].blob)
  <2>1. ~ Fails(1)
    BY NoFault
  <2>. QED BY <2>1 DEF Second, Changes
<1>2. End(t, th[t].wb)
  BY Zenon DEF Second
<1>3. /\ Op(t) = "write" => reply' = [Reply(t) EXCEPT !.n = Len(th[t].req.buf)]
      /\ Op(t) # "write" => reply' = reply
  BY Zenon DEF Second
<1>. QED BY <1>1, <1>2, <1>3, EndMoves DEF Stored1

\* The data of a file are stored: the write happens.
LEMMA DataStored ==
  ASSUME NamesInv, SaneInv, Serving', LockInv(store, th, overtaken), NEW t \in Threads,
         th[t].pc = "second", th[t].req.op = "write", Second(t)
  PROVE  Happens(th[t].req)
<1>. DEFINE s  == Overlaid(store, th)
            r  == th[t].req
            p  == r.path
            id == go_through_inodes(s, p)
            b  == th[t].blob
            d1 == write_to_dict(store, id, b)
            s1 == Overlaid(store', th')
<1>0. r.op # "getattr"
  OBVIOUS
<1>1. /\ Sound(s) /\ Found(r, s) /\ OnTheWay(th[t], store, s) /\ Walks(th, t)
      /\ r \in Requests /\ p \in Paths /\ p \in Seq(Names)
  BY <1>0, Walker
<1>2. "write" \notin Making /\ "write" \notin Removing /\ "write" \notin EntryOps
  BY DEF EntryOps, Making, Removing
<1>3. Filled(th[t], s)
  BY <1>1, <1>2, Zenon DEF OnTheWay
<1>4. /\ id = b.inodeid /\ id \in DOMAIN s /\ BlobsOf(s)[id].is_dir = NOTDIR
      /\ b = [BlobsOf(s)[id] EXCEPT !.data = Kept(r.buf)]
  BY <1>3 DEF Filled
<1>5. id # NULL /\ Node(s, id).kind = "file"
  BY <1>1, FoundKinds
<1>6. /\ r.buf \in Seq(Bytes) /\ FitsBlock(p, Text(r.buf))
  BY <1>1, RequestIs DEF Found
<1>7. Kept(r.buf) \in Seq(Bytes)
  BY <1>6, KeptBytes
<1>8. NoneComes(th, id)
  BY NoneAtWritten
<1>9. /\ store' = d1
      /\ \E new : Moves(th, t, new, th') /\ new.pc = "idle" /\ ~ Waiting(new)
      /\ reply' = [Reply(t) EXCEPT !.n = Len(r.buf)]
  BY <1>4, <1>5, SecondIs DEF Op
<1>10. PICK new : Moves(th, t, new, th') /\ new.pc = "idle" /\ ~ Waiting(new)
  BY <1>9
<1>11. ~ Waiting(th[t])
  BY <1>2 DEF Waiting
<1>. HIDE DEF s, r, p, id, b
<1>12. Overlaid(d1, th) = write_to_dict(s, id, b)
  BY <1>8, NoneUnder DEF s
<1>. HIDE DEF d1
<1>13. Overlaid(d1, th') = Overlaid(d1, th)
  BY <1>10, <1>11, NothingComes
<1>14. s1 = write_to_dict(s, id, [BlobsOf(s)[id] EXCEPT !.data = Kept(r.buf)])
  BY <1>4, <1>9, <1>12, <1>13
<1>15. DOMAIN store' = DOMAIN store \cup {id} /\ \A x \in DOMAIN store : x # id => store'[x] = store[x]
  BY <1>9 DEF d1, write_to_dict, perform_insertion
<1>. HIDE DEF s1
<1>16. Refilled(s, p, Kept(r.buf), s1)
  BY <1>1, <1>4, <1>6, <1>7, <1>14, RefilledByData DEF id
<1>17. /\ Sound(s1) /\ \A x \in DOMAIN s \ {id} : BlobsOf(s1)[x] = BlobsOf(s)[x]
  <2>1. Sound(s1) /\ Written(s, id, [BlobsOf(s)[id] EXCEPT !.data = Kept(r.buf)], s1)
    BY <1>1, <1>4, <1>6, <1>7, <1>14, DataReplaced
  <2>. QED BY <2>1 DEF Written
<1>18. Does(r, store, s, store', s1)
  <2>1. r.op = "write" /\ r.path = p
    BY DEF r, p
  <2>2. \A x \in DOMAIN s : x # id => /\ BlobsOf(s1)[x] = BlobsOf(s)[x]
                                      /\ x \in DOMAIN store' <=> x \in DOMAIN store
                                      /\ x \in DOMAIN store => store'[x] = store[x]
    BY <1>15, <1>17
  <2>. QED BY <1>16, <2>1, <2>2, Zenon DEF Does, id
<1>19. LockInv(store', th', overtaken')
  <2>1. /\ overtaken \subseteq overtaken'
        /\ \A u \in overtaken' : u \in Threads /\ Looking(th[u])
        /\ \A u \in Threads \ {t} : Walks(th, u) /\ u \notin overtaken'
             => ~ Crosses(th[t].req, th[u].req)
    BY SecondMarks
  <2>. QED BY <1>1, <1>10, <1>17, <1>18, <2>1, ChangingMove DEF s, s1, r
<1>20. reply'.op = r.op /\ reply'.path = p /\ reply'.err = "OK" /\ reply'.n = Len(r.buf)
       /\ ~ reply'.late
  BY <1>9 DEF Reply, Op, Path, Request, NoReply, r, p
<1>21. Fulfils(r, s, s1, reply')
  <2>1. r.op = "write" /\ r.path = p
    BY DEF r, p
  <2>. QED BY <1>5, <1>6, <1>16, <1>20, <2>1, Zenon DEF Fulfils, id
<1>. QED BY <1>19, <1>21, SettledIs DEF Happens, s, s1, r

\* The key a thread waits to store under; no other thread stores under it.
LEMMA AloneAtKey ==
  ASSUME NamesInv, LockInv(store, th, overtaken), NEW t \in Threads, Waiting(th[t]),
         NEW k, k = th[t].blob.inodeid
  PROVE  LET s == Overlaid(store, th)
             p == th[t].req.path
         IN  /\ k \in Keys /\ k # NULL /\ ComesFrom(th, k, t)
             /\ k \in {go_through_inodes(s, p), go_through_inodes(s, Front(p))}
<1>. DEFINE s == Overlaid(store, th)
            p == th[t].req.path
            Holder(u) ==
              \/ /\ th[u].req.op \in Making /\ go_through_inodes(s, th[u].req.path) = k
                 /\ k \notin DOMAIN store
              \/ /\ th[u].req.op \in Removing /\ go_through_inodes(s, Front(th[u].req.path)) = k
                 /\ k \in DOMAIN store /\ k \in DOMAIN s
<1>1. ASSUME NEW u \in Threads, Waiting(th[u]), th[u].blob.inodeid = k
      PROVE  /\ Holder(u) /\ Walks(th, u) /\ Separate(th, u, th[u].req) /\ Sound(s)
             /\ k \in DOMAIN s
             /\ th[u].req.path \in Seq(Names) /\ Front(th[u].req.path) \in Seq(Names)
             /\ IsPrefix(th[u].req.path, th[u].req.path)
  <2>1. th[u].pc = "second" /\ th[u].req.op \in EntryOps
    BY <1>1 DEF Waiting
  <2>2. /\ OnTheWay(th[u], store, s) /\ Walks(th, u) /\ Separate(th, u, th[u].req) /\ Sound(s)
        /\ th[u].req.path \in Seq(Names) /\ Front(th[u].req.path) \in Seq(Names)
        /\ IsPrefix(th[u].req.path, th[u].req.path)
    <3>1. th[u].req.op # "getattr"
      BY <2>1 DEF EntryOps, Making, Removing
    <3>. QED BY <2>1, <3>1, Walker
  <2>3. "write" \notin EntryOps
    BY DEF EntryOps, Making, Removing
  <2>4. \/ th[u].req.op \in Making /\ Made(th[u], store, s)
        \/ th[u].req.op \in Removing /\ Unlinked(th[u], store, s)
    BY <2>1, <2>2, <2>3, Zenon DEF OnTheWay
  <2>. HIDE DEF s
  <2>5. Holder(u)
    BY <1>1, <2>4 DEF Made, Unlinked
  <2>6. k \in DOMAIN s
    <3>1. CASE th[u].req.op \in Making /\ Made(th[u], store, s)
      <4>1. go_through_inodes(s, th[u].req.path) = k /\ k \in Ids
        BY <1>1, <3>1 DEF Made
      <4>2. k # NULL
        BY <4>1, BlobAssumption DEF Keys
      <4>. QED BY <2>2, <4>1, <4>2, WalkEnds
    <3>2. CASE th[u].req.op \in Removing /\ Unlinked(th[u], store, s)
      BY <1>1, <3>2 DEF Unlinked
    <3>. QED BY <2>4, <3>1, <3>2
  <2>. QED BY <2>2, <2>5, <2>6
<1>2. /\ Holder(t) /\ Sound(s) /\ k \in DOMAIN s /\ Separate(th, t, th[t].req)
      /\ p \in Seq(Names) /\ Front(p) \in Seq(Names) /\ IsPrefix(p, p)
  BY <1>1
<1>. HIDE DEF s
<1>3. k \in Keys /\ k # NULL
  BY <1>2, BlobAssumption DEF Sound, Stored
<1>4. ASSUME NEW u \in Threads, u # t, Waiting(th[u]), th[u].blob.inodeid = k
      PROVE  FALSE
  <2>1. /\ Holder(u) /\ Walks(th, u)
        /\ th[u].req.path \in Seq(Names) /\ Front(th[u].req.path) \in Seq(Names)
    BY <1>1, <1>4
  <2>2. ~ Excludes(th[t].req, th[u].req)
    BY <1>2, <1>4, <2>1 DEF Separate
  <2>3. CASE th[t].req.op \in Making /\ th[u].req.op \in Making
    <3>1. go_through_inodes(s, p) = k /\ go_through_inodes(s, th[u].req.path) = k
      BY <1>2, <2>1, <2>3 DEF Making, Removing
    <3>2. th[u].req.path = p
      BY <1>2, <1>3, <2>1, <3>1, OnePath
    <3>. QED BY <1>2, <2>2, <2>3, <3>2 DEF Excludes, EntryOps
  <2>4. CASE th[t].req.op \in Removing /\ th[u].req.op \in Removing
    <3>1. go_through_inodes(s, Front(p)) = k /\ go_through_inodes(s, Front(th[u].req.path)) = k
      BY <1>2, <2>1, <2>4 DEF Making, Removing
    <3>2. Front(th[u].req.path) = Front(p)
      BY <1>2, <1>3, <2>1, <3>1, OnePath
    <3>. QED BY <2>2, <2>4, <3>2 DEF Excludes, EntryOps
  <2>. QED BY <1>2, <2>1, <2>3, <2>4
<1>5. ComesFrom(th, k, t)
  BY <1>4 DEF Coming, ComesFrom
<1>. QED BY <1>2, <1>3, <1>5 DEF s

\* The last call of two is made: it was to be expected.
LEMMA EntrySettled ==
  ASSUME NamesInv, SaneInv, Serving', LockInv(store, th, overtaken), NEW t \in Threads,
         Waiting(th[t]), Second(t)
  PROVE  Hidden
<1>. DEFINE s  == Overlaid(store, th)
            r  == th[t].req
            p  == r.path
            k  == th[t].blob.inodeid
            s1 == Overlaid(store', th')
<1>1. th[t].pc = "second" /\ r.op \in EntryOps /\ Op(t) # "write"
  BY DEF Waiting, Op, EntryOps, Making, Removing
<1>2. Sound(s) /\ Walks(th, t)
  BY <1>1, Walker
<1>3. /\ k \in Keys /\ k # NULL /\ ComesFrom(th, k, t)
      /\ k \in {go_through_inodes(s, p), go_through_inodes(s, Front(p))}
  BY AloneAtKey
<1>4. store' = write_to_dict(store, k, th[t].blob) /\ reply' = reply
  BY <1>1, <1>3, SecondIs
<1>5. PICK new : Moves(th, t, new, th') /\ new.pc = "idle" /\ ~ Waiting(new)
  BY <1>3, SecondIs
<1>. HIDE DEF k
<1>6. Overlaid(write_to_dict(store, k, th[t].blob), th') = s
  BY <1>3, <1>5, ComesTrue DEF k
<1>7. s1 = s
  BY <1>4, <1>6
<1>. HIDE DEF s, s1, r, p
<1>8. /\ DOMAIN store' = DOMAIN store \cup {k}
      /\ \A x \in DOMAIN store : x # k => store'[x] = store[x]
  BY <1>4 DEF write_to_dict, perform_insertion
<1>9. \A x \in DOMAIN s : x # k => /\ BlobsOf(s1)[x] = BlobsOf(s)[x]
                                   /\ x \in DOMAIN store' <=> x \in DOMAIN store
                                   /\ x \in DOMAIN store => store'[x] = store[x]
  BY <1>7, <1>8
<1>10. Does(r, store, s, store', s1)
  BY <1>1, <1>3, <1>7, <1>9, Zenon DEF Does, p
<1>11. LockInv(store', th', overtaken')
  <2>1. /\ overtaken \subseteq overtaken'
        /\ \A u \in overtaken' : u \in Threads /\ Looking(th[u])
        /\ \A u \in Threads \ {t} : Walks(th, u) /\ u \notin overtaken'
             => ~ Crosses(th[t].req, th[u].req)
    BY SecondMarks
  <2>. QED BY <1>2, <1>5, <1>7, <1>10, <2>1, ChangingMove DEF s, s1, r
<1>. QED BY <1>4, <1>7, <1>11, SettledIs DEF Hidden, s, s1

LEMMA SecondServes ==
  ASSUME NamesInv, SaneInv, Serving', LockInv(store, th, overtaken), NEW t \in Threads, Second(t)
  PROVE  Hidden \/ Happens(th[t].req)
<1>1. th[t].pc = "second"
  BY DEF Second, At
<1>2. t \notin overtaken
  BY <1>1, LockParts DEF Marks, Looking
<1>3. OnTheWay(th[t], store, Overlaid(store, th))
  BY <1>1, <1>2, Walker
<1>4. th[t].req.op \in EntryOps \/ th[t].req.op = "write"
  BY <1>1, <1>3 DEF OnTheWay, EntryOps
<1>. QED BY <1>1, <1>4, DataStored, EntrySettled DEF Waiting

----------------------------------------------------------------------------
(* What is answered at once.                                               *)

LEMMA RootReadAgrees ==
  ASSUME LockInv(store, th, overtaken), NEW t \in Threads, ~ Waiting(th[t]),
         NEW r \in Requests, Unmarked(th, t, r)
  PROVE  LET s == Overlaid(store, th)
             c == get_blob_from_key(store, root_id)
         IN  /\ root_id \in DOMAIN store /\ root_id \in DOMAIN s
             /\ c.data = BlobsOf(s)[root_id].data
             /\ r.op = "readdir" /\ r.path = << >> => c = BlobsOf(s)[root_id]
<1>. DEFINE s == Overlaid(store, th)
            c == get_blob_from_key(store, root_id)
<1>1. r.path \in Seq(Names)
  BY RequestIs
<1>2. PICK q \in Seq(Names) : q = << >> /\ IsPrefix(q, r.path)
  BY <1>1, NothingBefore, Zenon
<1>3. IsPrefix(q, r.path) /\ root_id = go_through_inodes(s, q) /\ root_id # NULL
  BY <1>2, WalkOfRoot, BlobAssumption DEF Keys
<1>4. root_id \in DOMAIN store /\ root_id \in DOMAIN s /\ c.data = BlobsOf(s)[root_id].data
  BY <1>3, ReadAgrees
<1>5. ASSUME r.op = "readdir", q = r.path
      PROVE  c = BlobsOf(s)[root_id]
  BY <1>3, <1>5, ReadAgrees
<1>. QED BY <1>2, <1>4, <1>5

\* No creation or removal is of the root, nor of /HEAD.
LEMMA RootUnmarked ==
  ASSUME NEW d, NEW T, NEW O, LockInv(d, T, O), NEW t \in Threads,
         NEW r, Separate(T, t, r), OnRoot(r)
  PROVE  Unmarked(T, t, r)
<1>. SUFFICES ASSUME NEW u \in Threads \ {t}, Waiting(T[u]) PROVE ~ Crosses(T[u].req, r)
  BY DEF Unmarked
<1>1. Walks(T, u) /\ T[u].req.op \in EntryOps
  BY DEF Walks, Waiting
<1>2. ~ Excludes(T[u].req, r)
  BY <1>1 DEF Separate
<1>3. Found(T[u].req, Overlaid(d, T))
  BY <1>1, LockParts
<1>. HIDE DEF Overlaid
<1>4. T[u].req.path # <<HEAD>> /\ T[u].req.path # Root
  BY <1>1, <1>3 DEF Found, OnRoot
<1>. QED BY <1>2, <1>4 DEF Crosses, OnRoot

\* Unlike a step of a handler, an answer at once looks up no name: the root is
\* read, or nothing.
LEMMA RootShown ==
  ASSUME NamesInv, SaneInv, Serving, Serving', LockInv(store, th, overtaken),
         NEW t \in Threads, NEW r \in Requests, Sent(t, r), OnRoot(r),
         NEW res \in ReadResults(t, root_id), Fails(res.failed),
         reply' = IF r.op = "readdir" THEN Listing(r.path, res.blob)
                  ELSE [Request("getattr", r.path) EXCEPT !.kind = "dir",
                                                          !.n = Len(res.blob.data)],
         End(t, res.blob), UNCHANGED store
  PROVE  Happens(r)
<1>. DEFINE s == Overlaid(store, th)
            c == get_blob_from_key(store, root_id)
            k == go_through_inodes(s, r.path)
<1>1. th[t].pc = "idle" /\ ~ Waiting(th[t]) /\ Unmarked(th, t, r)
  BY SentIs, RootUnmarked DEF Sent, At
<1>2. LockInv(store', th', overtaken') /\ Settled' = Settled
  BY <1>1, EndServes
<1>3. Sound(s) /\ r.path \in Seq(Names) /\ r.op \in Ops
  BY LockParts, RequestIs
<1>4. go_through_inodes(s, << >>) = root_id /\ root_id # NULL
  BY WalkOfRoot, BlobAssumption DEF Keys
<1>6. /\ root_id \in DOMAIN store /\ root_id \in DOMAIN s
      /\ c.data = BlobsOf(s)[root_id].data
      /\ r.op = "readdir" /\ r.path = << >> => c = BlobsOf(s)[root_id]
  BY <1>1, RootReadAgrees
<1>7. res.blob = c
  BY <1>6, ReadIs
<1>. HIDE DEF s
<1>8. Node(s, root_id).kind = "dir" /\ Node(s, root_id).data = c.data
  <2>1. BlobsOf(s)[root_id].is_dir = ISDIR
    BY <1>3 DEF Sound, Rooted
  <2>. QED BY <1>6, <2>1 DEF Node
<1>9. CASE r.path = Root
  <2>1. r.path = << >> /\ k = root_id
    BY <1>4, <1>9 DEF Root
  <2>2. r.op \in {"getattr", "readdir"}
    BY <1>9, CallsAssumption
  <2>3. CASE r.op = "readdir"
    <3>. HIDE DEF c
    <3>1. reply' = Listing(r.path, c)
      BY <1>7, <2>3
    <3>2. /\ reply'.op = r.op /\ reply'.path = r.path /\ reply'.err = "OK"
          /\ ~ reply'.late /\ reply'.out = get_list(c)
      BY <2>3, <3>1 DEF Listing, Request, NoReply
    <3>3. c = get_blob_from_key(s, root_id)
      BY <1>6, <2>1, <2>3 DEF BlobsOf
    <3>. QED BY <1>2, <1>4, <1>8, <2>1, <2>3, <3>2, <3>3, ShowsWhatIs DEF s
  <2>4. CASE r.op = "getattr"
    <3>. HIDE DEF c
    <3>1. reply' = [Request("getattr", r.path) EXCEPT !.kind = "dir", !.n = Len(c.data)]
      BY <1>7, <2>4
    <3>2. /\ reply'.op = r.op /\ reply'.path = r.path /\ reply'.err = "OK"
          /\ ~ reply'.late /\ reply'.kind = "dir" /\ reply'.n = Len(c.data)
      BY <2>4, <3>1 DEF Request, NoReply
    <3>. QED BY <1>2, <1>4, <1>8, <2>1, <2>4, <3>2, ShowsWhatIs DEF s
  <2>. QED BY <2>2, <2>3, <2>4
<1>10. CASE r.path # Root
  <2>1. r.op = "getattr" /\ r.path = <<HEAD>>
    BY <1>10 DEF OnRoot
  <2>2. k = NULL
    BY <1>3, <2>1, AttrOfPath
  <2>3. reply'.op = r.op /\ reply'.path = r.path /\ reply'.err = "OK" /\ ~ reply'.late
    BY <2>1 DEF Request, NoReply
  <2>. QED BY <1>2, <2>1, <2>2, <2>3, ShowsWhatIs DEF s
<1>. QED BY <1>9, <1>10

LEMMA RefusedWrite ==
  ASSUME Serving, LockInv(store, th, overtaken),
         NEW t \in Threads, NEW r \in Requests, Sent(t, r), r.op = "write",
         NEW scanned \in Scanned(r.buf), TooLong(r.path, scanned),
         reply' = Request("write", r.path), UNCHANGED <<store, th, overtaken>>
  PROVE  Happens(r)
<1>. DEFINE s == Overlaid(store, th)
            k == go_through_inodes(s, r.path)
<1>1. LockInv(store', th', overtaken') /\ Overlaid(store', th') = s
  OBVIOUS
<1>2. Sound(s) /\ r.path \in Seq(Names) /\ r.buf \in Seq(Bytes)
  BY LockParts, RequestIs
<1>3. attr(s, r.path).kind = "file"
  BY SentIs, SettledIs DEF Looked
<1>. HIDE DEF s
<1>4. k # NULL /\ Node(s, k).kind = "file"
  BY <1>2, <1>3, AttrOfPath
<1>5. ~ FitsBlock(r.path, Text(r.buf) + MaxOverread)
  <2>. DEFINE m == Text(r.buf)
              n == Len(r.path)
  <2>1. /\ m \in Nat /\ scanned \in Nat /\ scanned <= m + MaxOverread
        /\ n \in Nat /\ MAX_BLOCK \in Nat /\ MaxOverread \in Nat
    BY <1>2, ScannedBounds, BlobAssumption, CkvfsAssumption
  <2>2. scanned + 2 * n > MAX_BLOCK
    BY DEF TooLong, strlen
  <2>. HIDE DEF m, n
  <2>3. ~ (m + MaxOverread + 2 * n <= MAX_BLOCK)
    BY <2>1, <2>2
  <2>. QED BY <2>3 DEF FitsBlock, strlen, m, n
<1>6. reply'.op = r.op /\ reply'.path = r.path /\ reply'.err = "OK" /\ reply'.n = 0
      /\ ~ reply'.late
  BY DEF Request, NoReply
<1>7. Fulfils(r, s, s, reply')
  BY <1>4, <1>5, <1>6, Zenon DEF Fulfils
<1>. QED BY <1>1, <1>7, SettledIs DEF Happens, s

LEMMA AnswerServes ==
  ASSUME NamesInv, SaneInv, Serving, Serving', LockInv(store, th, overtaken),
         NEW t \in Threads, NEW r \in Requests, AnswerAtOnce(t, r)
  PROVE  Happens(r)
<1>1. Sent(t, r) /\ UNCHANGED store
  BY Zenon DEF AnswerAtOnce
<1>2. CASE /\ OnRoot(r)
           /\ \E res \in ReadResults(t, root_id) :
                /\ Fails(res.failed)
                /\ reply' = IF r.op = "readdir" THEN Listing(r.path, res.blob)
                            ELSE [Request("getattr", r.path) EXCEPT !.kind = "dir",
                                                                    !.n = Len(res.blob.data)]
                /\ End(t, res.blob)
  BY <1>1, <1>2, RootShown
<1>3. CASE /\ r.op = "write"
           /\ \E scanned \in Scanned(r.buf) : TooLong(r.path, scanned)
           /\ reply' = Request("write", r.path)
           /\ UNCHANGED <<th, faults, overtaken>>
  BY <1>1, <1>3, RefusedWrite
<1>. QED BY <1>2, <1>3, Zenon DEF AnswerAtOnce

----------------------------------------------------------------------------
(* All steps.                                                              *)

LEMMA ThreadServes ==
  ASSUME NamesInv, SaneInv, Serving, Serving', LockInv(store, th, overtaken), NEW t \in Threads,
         Step(t) \/ \E r \in Requests : AnswerAtOnce(t, r) \/ Begin(t, r)
  PROVE  Hidden \/ Missed \/ \E q \in Requests : Happens(q)
<1>1. CASE Split(t) \/ Load(t) \/ Take(t) \/ Enter1(t) \/ Write(t)
  BY <1>1, SplitServes, LoadServes, TakeServes, EnterServes, WriteServes
<1>2. ASSUME AddName(t) \/ RemoveName(t) \/ Look(t) \/ Second(t)
      PROVE  (Hidden \/ Missed \/ Happens(th[t].req)) /\ th[t].req \in Requests
  <2>1. th[t].pc # "idle"
    BY <1>2 DEF AddName, RemoveName, Look, Second, Arrived, At
  <2>2. th[t].req \in Requests
    BY <2>1, Walker
  <2>. QED BY <1>2, <2>2, AddServes, RemoveServes, LookServes, LookMisses, SecondServes
<1>3. CASE \E r \in Requests : AnswerAtOnce(t, r) \/ Begin(t, r)
  BY <1>3, AnswerServes, BeginServes
<1>. QED BY <1>1, <1>2, <1>3, Zenon DEF Step

----------------------------------------------------------------------------
(* What FileTree sees.                                                     *)

LEMMA ShownIs ==
  /\ Serving   => ShownTree = TreeOf(Settled) /\ (~ reply.late => ShownReply = reply)
  /\ Serving'  => ShownTree' = TreeOf(Settled') /\ (~ reply'.late => ShownReply' = reply')
  /\ ~Serving  => ShownTree = FTC!Nothing /\ ShownReply = NoReply
  /\ ~Serving' => ShownTree' = FTC!Nothing /\ ShownReply' = NoReply
<1>1. FTC!Nothing = [p \in {} |-> Root]
  BY DEF FTC!Nothing, FTC!Dir
<1>. QED BY <1>1, SameShape DEF ShownTree, ShownReply

\* FileTree's operators are the ones of Ckvfs.
LEMMA OperatorsShown ==
  /\ \A q : FTC!Front(q) = Front(q) /\ FTC!Last(q) = Last(q)
  /\ \A p, q : FTC!IsPrefix(p, q) <=> IsPrefix(p, q)
  /\ \A f : (FTC!IsInjective(f) <=> IsInjective(f)) /\ FTC!Range(f) = Range(f)
  /\ \A d : FTC!File(d) = FT!File(d)
  /\ FTC!Dir = FT!Dir
<1>1. \A q : FTC!Front(q) = Front(q) /\ FTC!Last(q) = Last(q)
  BY DEF FTC!Front, Front, FTC!Last, Last
<1>2. \A p, q : FTC!IsPrefix(p, q) <=> IsPrefix(p, q)
  BY DEF FTC!IsPrefix, IsPrefix
<1>3. \A f : (FTC!IsInjective(f) <=> IsInjective(f)) /\ FTC!Range(f) = Range(f)
  BY DEF FTC!IsInjective, IsInjective, FTC!Range, Range
<1>4. (\A d : FTC!File(d) = FT!File(d)) /\ FTC!Dir = FT!Dir
  BY DEF FTC!File, FT!File, FTC!Dir, FT!Dir
<1>. QED BY <1>1, <1>2, <1>3, <1>4

\* A step that leaves the process serving keeps the settled device, or not.
LEMMA AsksAndKeeps ==
  ASSUME Serving, Serving', ~ reply'.late
  PROVE  /\ UNCHANGED Serving /\ ShownReply' = reply'
         /\ \A op, p : reply'.op = op /\ reply'.path = p => FTC!Asked(op, p)
         /\ \A err : FTC!Answers(err) <=> reply'.err = err
         /\ Settled' = Settled => UNCHANGED ShownTree
<1>1. UNCHANGED Serving
  BY DEF Serving
<1>2. ShownReply' = reply'
  BY ShownIs
<1>3. \A op, p : reply'.op = op /\ reply'.path = p => FTC!Asked(op, p)
  BY <1>2 DEF FTC!Asked
<1>4. \A err : FTC!Answers(err) <=> reply'.err = err
  BY <1>2 DEF FTC!Answers
<1>5. Settled' = Settled => UNCHANGED ShownTree
  BY ShownIs
<1>. QED BY <1>1, <1>2, <1>3, <1>4, <1>5

LEMMA ShownNodes ==
  ASSUME Serving, NEW p \in Paths
  PROVE  /\ p \in DOMAIN ShownTree <=> go_through_inodes(Settled, p) # NULL
         /\ p \in DOMAIN ShownTree => ShownTree[p] = Node(Settled, go_through_inodes(Settled, p))
<1>1. ShownTree = TreeOf(Settled)
  BY ShownIs
<1>. QED BY <1>1, NodesOfTree

----------------------------------------------------------------------------
(* What is asked and happens is a step of FileTree.                        *)

LEMMA GetattrShown ==
  ASSUME Serving, Serving', NEW q, q.path \in Paths, q.op = "getattr",
         Fulfils(q, Settled, Settled', reply')
  PROVE  FTC!Getattr(q.path)
<1>. DEFINE p == q.path
            s == Settled
            k == go_through_inodes(s, p)
<1>1. /\ ~ reply'.late /\ reply'.op = "getattr" /\ reply'.path = p /\ Settled' = s
      /\ k # NULL => /\ reply'.err = "OK" /\ reply'.kind = Node(s, k).kind
                     /\ reply'.n = Len(Node(s, k).data)
      /\ k = NULL => reply'.err = IF p = <<HEAD>> THEN "OK" ELSE "ENOENT"
  <2>. HIDE DEF s
  <2>. QED BY DEF Fulfils, Making, Removing, s
<1>2. /\ p \in DOMAIN ShownTree <=> k # NULL
      /\ p \in DOMAIN ShownTree => ShownTree[p] = Node(s, k)
  BY ShownNodes
<1>3. FTC!Asked("getattr", p) /\ UNCHANGED <<ShownTree, Serving>>
  BY <1>1, AsksAndKeeps
<1>4. ShownReply' = reply'
  BY <1>1, AsksAndKeeps
<1>. HIDE DEF p, s, k
<1>5. FTC!Getattr(p)
  BY <1>1, <1>2, <1>3, <1>4 DEF FTC!Getattr, FTC!Answers
<1>. QED BY <1>5 DEF p

LEMMA ReaddirShown ==
  ASSUME Serving, Serving', Sound(Settled), ShallowIn(Settled),
         NEW q, q.path \in Paths, q.op = "readdir", Fulfils(q, Settled, Settled', reply')
  PROVE  FTC!Readdir(q.path)
<1>. DEFINE p == q.path
            s == Settled
            k == go_through_inodes(s, p)
            list == get_list(get_blob_from_key(s, k))
<1>1. /\ ~ reply'.late /\ reply'.op = "readdir" /\ reply'.path = p /\ reply'.err = "OK" /\ Settled' = s
      /\ p # <<HEAD>> => k # NULL /\ Node(s, k).kind = "dir" /\ reply'.out = list
  <2>. HIDE DEF s
  <2>. QED BY DEF Fulfils, Making, Removing, s
<1>2. /\ p \in DOMAIN ShownTree <=> k # NULL
      /\ p \in DOMAIN ShownTree => ShownTree[p] = Node(s, k)
  BY ShownNodes
<1>3. FTC!Asked("readdir", p) /\ FTC!Answers("OK") /\ UNCHANGED <<ShownTree, Serving>>
  BY <1>1, AsksAndKeeps
<1>4. ShownReply' = reply' /\ ShownTree = TreeOf(s)
  BY <1>1, AsksAndKeeps, ShownIs
<1>5. p # <<HEAD>> => IsInjective(list) /\ Range(list) = Below(TreeOf(s), p)
  BY <1>1, ListingIs
<1>6. FTC!Children(p) = Below(ShownTree, p)
  BY OperatorsShown DEF FTC!Children, Below
<1>. HIDE DEF p, s, k, list
<1>7. p # <<HEAD>> => /\ FTC!IsDir(p) /\ FTC!IsInjective(reply'.out)
                      /\ FTC!Range(reply'.out) = FTC!Children(p)
  BY <1>1, <1>2, <1>4, <1>5, <1>6, OperatorsShown DEF FTC!IsDir
<1>8. FTC!Readdir(p)
  BY <1>3, <1>4, <1>7 DEF FTC!Readdir
<1>. QED BY <1>8 DEF p

LEMMA ReadShown ==
  ASSUME Serving, Serving', NEW q, q.path \in Paths, q.op = "read",
         Fulfils(q, Settled, Settled', reply')
  PROVE  FTC!Read(q.path)
<1>. DEFINE p == q.path
            s == Settled
            k == go_through_inodes(s, p)
<1>1. /\ ~ reply'.late /\ reply'.op = "read" /\ reply'.path = p /\ reply'.err = "OK" /\ Settled' = s
      /\ k # NULL /\ Node(s, k).kind = "file"
      /\ reply'.n = Len(Node(s, k).data) /\ reply'.out = Node(s, k).data
  <2>. HIDE DEF s
  <2>. QED BY DEF Fulfils, Making, Removing, s
<1>2. p \in DOMAIN ShownTree /\ ShownTree[p] = Node(s, k)
  BY <1>1, ShownNodes
<1>3. FTC!Asked("read", p) /\ FTC!Answers("OK") /\ UNCHANGED <<ShownTree, Serving>>
  BY <1>1, AsksAndKeeps
<1>4. ShownReply' = reply'
  BY <1>1, AsksAndKeeps
<1>. HIDE DEF p, s, k
<1>5. FTC!Read(p)
  BY <1>1, <1>2, <1>3, <1>4 DEF FTC!Read, FTC!IsFile
<1>. QED BY <1>5 DEF p

LEMMA WriteShown ==
  ASSUME Serving, Serving', Sound(Settled), NEW q, q.path \in Paths, q.op = "write",
         Fulfils(q, Settled, Settled', reply')
  PROVE  FTC!Write(q.path, q.buf)
<1>. DEFINE p == q.path
            s == Settled
            s1 == Settled'
            k == go_through_inodes(s, p)
<1>1. /\ ~ reply'.late /\ reply'.op = "write" /\ reply'.path = p /\ reply'.err = "OK"
      /\ k # NULL /\ Node(s, k).kind = "file"
      /\ \/ /\ FitsBlock(p, Text(q.buf)) /\ reply'.n = Len(q.buf)
            /\ Refilled(s, p, Kept(q.buf), s1)
         \/ ~ FitsBlock(p, Text(q.buf) + MaxOverread) /\ reply'.n = 0 /\ s1 = s
  <2>. HIDE DEF s, s1
  <2>. QED BY DEF Fulfils, Making, Removing, s, s1
<1>2. p \in DOMAIN ShownTree /\ ShownTree[p] = Node(s, k)
  BY <1>1, ShownNodes
<1>3. FTC!Asked("write", p) /\ FTC!Answers("OK") /\ UNCHANGED Serving
  BY <1>1, AsksAndKeeps
<1>4. ShownReply' = reply' /\ ShownTree = TreeOf(s) /\ ShownTree' = TreeOf(s1)
  BY <1>1, AsksAndKeeps, ShownIs
<1>5. FTC!IsFile(p)
  BY <1>1, <1>2 DEF FTC!IsFile
<1>. HIDE DEF p, s, s1, k
<1>6. ASSUME Refilled(s, p, Kept(q.buf), s1)
      PROVE  ShownTree' = [ShownTree EXCEPT ![p] = FTC!File(Kept(q.buf))]
  <2>1. TreeOf(s1) = [TreeOf(s) EXCEPT ![p] = FT!File(Kept(q.buf))]
    BY <1>6, RefilledTree DEF p, s
  <2>. QED BY <1>4, <2>1, OperatorsShown
<1>7. FTC!Write(p, q.buf)
  BY <1>1, <1>3, <1>4, <1>5, <1>6 DEF FTC!Write
<1>. QED BY <1>7 DEF p

LEMMA MakeShown ==
  ASSUME Serving, Serving', Sound(Settled), NEW q, q.path \in Paths, q.path # << >>,
         q.op \in Making, Fulfils(q, Settled, Settled', reply')
  PROVE  FTC!Make(q.op, q.path, IF q.op = "mkdir" THEN FTC!Dir ELSE FTC!File(<< >>))
<1>. DEFINE p == q.path
            s == Settled
            s1 == Settled'
            k == go_through_inodes(s, p)
            d == go_through_inodes(s, Front(p))
            new == [kind |-> IF q.op = "mkdir" THEN "dir" ELSE "file", data |-> << >>]
            node == IF q.op = "mkdir" THEN FTC!Dir ELSE FTC!File(<< >>)
<1>1. /\ ~ reply'.late /\ reply'.op = q.op /\ reply'.path = p
      /\ \/ s1 = s /\ reply'.err \in {"OK", "ENOTDIR"} /\ (d = NULL \/ k # NULL)
         \/ reply'.err = "OK" /\ \E id : Grown(s, p, id, new, s1)
  <2>. HIDE DEF s, s1, new
  <2>. QED BY DEF Fulfils, Making, Removing, s, s1, new
<1>2. /\ p \in DOMAIN ShownTree <=> k # NULL
      /\ Front(p) \in DOMAIN ShownTree <=> d # NULL
  BY FrontIsPath, ShownNodes
<1>3. FTC!Asked(q.op, p) /\ UNCHANGED Serving /\ FTC!Front(p) = Front(p)
  BY <1>1, AsksAndKeeps, OperatorsShown
<1>4. ShownTree = TreeOf(s) /\ ShownTree' = TreeOf(s1) /\ ShownReply' = reply'
  BY <1>1, AsksAndKeeps, ShownIs
<1>5. node = new /\ p \in Paths /\ p # << >> /\ Sound(s)
  BY DEF FTC!Dir, FTC!File
<1>. SUFFICES FTC!Make(q.op, p, node)
  OBVIOUS
<1>. HIDE DEF p, s, s1, k, d, node, new
<1>6. CASE s1 = s /\ reply'.err \in {"OK", "ENOTDIR"} /\ (d = NULL \/ k # NULL)
  BY <1>2, <1>3, <1>4, <1>6 DEF FTC!Make, FTC!Answers, FTC!IsDir
<1>7. CASE reply'.err = "OK" /\ \E id : Grown(s, p, id, new, s1)
  <2>1. PICK id : Grown(s, p, id, new, s1)
    BY <1>7
  <2>2. /\ p \notin DOMAIN ShownTree
        /\ Front(p) \in DOMAIN ShownTree /\ ShownTree[Front(p)].kind = "dir"
        /\ ShownTree' = With(ShownTree, p, node)
    BY <1>4, <1>5, <2>1, GrownTree
  <2>. QED BY <1>3, <1>4, <1>7, <2>2 DEF With, FTC!Make, FTC!Answers, FTC!IsDir
<1>. QED BY <1>1, <1>6, <1>7

LEMMA DeleteShown ==
  ASSUME Serving, Serving', Sound(Settled), NEW q, q.path \in Paths, q.op \in Removing,
         Fulfils(q, Settled, Settled', reply')
  PROVE  FTC!Delete(q.op, q.path)
<1>. DEFINE p == q.path
            s == Settled
            s1 == Settled'
<1>1. /\ ~ reply'.late /\ reply'.op = q.op /\ reply'.path = p /\ reply'.err = "OK"
      /\ \/ s1 = s /\ go_through_inodes(s, p) = NULL
         \/ Shrunk(s, p, s1)
  <2>. HIDE DEF s, s1
  <2>. QED BY DEF Fulfils, Making, Removing, s, s1
<1>2. FTC!Asked(q.op, p) /\ FTC!Answers("OK") /\ UNCHANGED Serving
  BY <1>1, AsksAndKeeps
<1>3. ShownTree = TreeOf(s) /\ ShownTree' = TreeOf(s1)
  BY ShownIs
<1>. HIDE DEF p, s, s1
<1>4. TreeOf(s1) = Without(TreeOf(s), p)
  <2>1. CASE s1 = s /\ go_through_inodes(s, p) = NULL
    BY <2>1, NothingBelow DEF p, s
  <2>2. CASE Shrunk(s, p, s1)
    BY <2>2, ShrunkTree DEF p, s
  <2>. QED BY <1>1, <2>1, <2>2
<1>5. FTC!Delete(q.op, p)
  BY <1>2, <1>3, <1>4, OperatorsShown DEF Without, FTC!Delete
<1>. QED BY <1>5 DEF p

LEMMA FulfilsImplements ==
  ASSUME Serving, Serving', Sound(Settled), ShallowIn(Settled), NEW q \in Requests,
         Fulfils(q, Settled, Settled', reply')
  PROVE  FTC!Next
<1>1. q.path \in Paths /\ q.op \in Ops /\ (q.op = "write" => q.buf \in Payloads)
  BY RequestIs
<1>2. q.op \notin {"getattr", "readdir"} => q.path \in Paths \ {<< >>}
  BY <1>1, CallsAssumption DEF Root
<1>3. CASE q.op = "getattr"
  <2>1. FTC!Getattr(q.path)
    BY <1>1, <1>3, GetattrShown
  <2>. QED BY <1>1, <2>1, Zenon DEF FTC!Next
<1>4. CASE q.op = "readdir"
  <2>1. FTC!Readdir(q.path)
    BY <1>1, <1>4, ReaddirShown
  <2>. QED BY <1>1, <2>1, Zenon DEF FTC!Next
<1>5. CASE q.op = "read"
  <2>1. FTC!Read(q.path)
    BY <1>1, <1>5, ReadShown
  <2>. QED BY <1>1, <2>1, Zenon DEF FTC!Next
<1>6. CASE q.op = "write"
  <2>1. FTC!Write(q.path, q.buf)
    BY <1>1, <1>6, WriteShown
  <2>. QED BY <1>1, <1>6, <2>1, Zenon DEF FTC!Next
<1>7. CASE q.op \in Making
  <2>1. q.path \in Paths \ {<< >>}
    BY <1>2, <1>7 DEF Making
  <2>2. FTC!Make(q.op, q.path, IF q.op = "mkdir" THEN FTC!Dir ELSE FTC!File(<< >>))
    BY <1>7, <2>1, MakeShown
  <2>3. \/ FTC!Make("create", q.path, FTC!File(<< >>))
        \/ FTC!Make("mkdir", q.path, FTC!Dir)
    BY <1>7, <2>2 DEF Making
  <2>. QED BY <2>1, <2>3, Zenon DEF FTC!Next
<1>8. CASE q.op \in Removing
  <2>1. q.path \in Paths \ {<< >>}
    BY <1>2, <1>8 DEF Removing
  <2>2. FTC!Delete("unlink", q.path) \/ FTC!Delete("rmdir", q.path)
    BY <1>8, <2>1, DeleteShown DEF Removing
  <2>. QED BY <2>1, <2>2, Zenon DEF FTC!Next
<1>. QED BY <1>1, <1>3, <1>4, <1>5, <1>6, <1>7, <1>8 DEF Ops, Making, Removing

----------------------------------------------------------------------------
(* The process comes up, ends, and dies.                                   *)

LEMMA RestingDevice ==
  ASSUME NEW d, d = [k \in DOMAIN d |-> d[k]], NEW T, \A t \in Threads : ~ Waiting(T[t])
  PROVE  Overlaid(d, T) = d
<1>1. \A k : Coming(T, k) = {}
  BY DEF Coming
<1>2. DOMAIN Overlaid(d, T) = DOMAIN d
  <2>1. Due(T) = {}
    BY <1>1 DEF Due
  <2>. QED BY <2>1, OverlaidDomain
<1>3. \A k \in DOMAIN d : Overlaid(d, T)[k] = d[k]
  BY <1>1, <1>2, OverlaidAt
<1>4. Overlaid(d, T) = [k \in DOMAIN Overlaid(d, T) |-> Overlaid(d, T)[k]]
  BY Zenon DEF Overlaid
<1>. QED BY <1>2, <1>3, <1>4

LEMMA RootIsFunction ==
  LET s == write_root(set_up_ssd) IN s = [k \in DOMAIN s |-> s[k]]
BY DEF write_root, write_to_dict, perform_insertion

LEMMA MountServes ==
  ASSUME SaneInv, Mount, Serving'
  PROVE  FTC!Mount /\ LockInv(store', th', overtaken')
<1>1. store' = write_root(set_up_ssd)
  BY NoFault DEF Mount
<1>2. \A t \in Threads : th'[t] = IdleThread
  BY DEF Mount, SaneInv
<1>3. \A t \in Threads : ~ Waiting(th'[t]) /\ ~ Walks(th', t)
  BY <1>2, EmptySane DEF Waiting, Walks
<1>4. Overlaid(store', th') = store'
  BY <1>1, <1>3, RootIsFunction, RestingDevice
<1>5. LockInv(store', th', overtaken')
  <2>1. Sound(store')
    BY <1>1, SoundRoot
  <2>2. ShallowIn(store')
    BY <1>1, FreshTree, RootIsPath DEF ShallowIn
  <2>3. overtaken' = {}
    BY DEF Mount
  <2>4. Marks(th', overtaken')
    BY <1>3, <2>3 DEF Marks
  <2>. QED BY <1>3, <1>4, <2>1, <2>2, <2>4 DEF LockInv
<1>6. ShownTree' = [p \in {<< >>} |-> FTC!Dir]
  <2>1. ShownTree' = TreeOf(store')
    BY <1>4, SettledIs, ShownIs
  <2>. QED BY <1>1, <2>1, FreshTree, OperatorsShown
<1>7. ~ Serving
  BY DEF Serving, Mount
<1>. QED BY <1>5, <1>6, <1>7 DEF FTC!Mount

\* Failures and stray walks are not undone.
LEMMA StepGrows ==
  ASSUME SaneInv, NEW t \in Threads,
         Step(t) \/ \E r \in Requests : AnswerAtOnce(t, r) \/ Begin(t, r)
  PROVE  /\ mounted
         /\ UNCHANGED faults \/ \E n \in {0, 1} : Fails(n)
         /\ mixed => mixed'
<1>1. \A k : \A res \in ReadResults(t, k) : res.failed \in {0, 1}
  BY DEF ReadResults
<1>2. \A r : Answer(t, r) => UNCHANGED faults
  BY DEF Answer
<1>3. \A s : Follow(t, s) => UNCHANGED faults
  BY Zenon DEF Follow
<1>4. \A s : Changes(s) => \E n \in {0, 1} : Fails(n)
  BY DEF Changes
<1>5. \A err : GiveUp(t, err) => UNCHANGED <<faults, mixed>>
  BY <1>2, Zenon DEF GiveUp
<1>6. \A s, b : FirstOfTwo(t, s, b) => UNCHANGED mixed /\ \E n \in {0, 1} : Fails(n)
  BY <1>4, Zenon DEF FirstOfTwo
<1>7. CASE Split(t)
  BY <1>3, <1>7, Zenon DEF Split, At
<1>8. CASE Load(t)
  BY <1>8, Zenon DEF Load, At
<1>9. CASE Take(t)
  BY <1>3, <1>9, Zenon DEF Take, At
<1>10. CASE Enter1(t)
  BY <1>1, <1>10, Zenon DEF Enter1, At
<1>11. CASE AddName(t)
  BY <1>5, <1>6, <1>11, Zenon DEF AddName, Arrived, At, Gone
<1>12. CASE RemoveName(t)
  BY <1>5, <1>6, <1>12, Zenon DEF RemoveName, Arrived, At
<1>13. CASE Write(t)
  BY <1>1, <1>5, <1>13, Zenon DEF Write, Arrived, At
<1>14. CASE Look(t)
  BY <1>1, <1>5, <1>14, Zenon DEF Look, Arrived, At
<1>15. CASE Second(t)
  BY <1>4, <1>15, Zenon DEF Second, At
<1>16. ASSUME NEW r \in Requests, AnswerAtOnce(t, r)
       PROVE  mounted /\ (UNCHANGED faults \/ \E n \in {0, 1} : Fails(n)) /\ UNCHANGED mixed
  BY <1>1, <1>16, Zenon DEF AnswerAtOnce, Sent, At
<1>17. ASSUME NEW r \in Requests, Begin(t, r)
       PROVE  mounted /\ (\E n \in {0, 1} : Fails(n)) /\ UNCHANGED mixed
  BY <1>1, <1>17, Zenon DEF Begin, Sent, At
<1>18. CASE \E r \in Requests : AnswerAtOnce(t, r) \/ Begin(t, r)
  BY <1>16, <1>17, <1>18
<1>. QED BY <1>7, <1>8, <1>9, <1>10, <1>11, <1>12, <1>13, <1>14, <1>15, <1>18, Zenon DEF Step

LEMMA ServedBefore ==
  ASSUME SaneInv, NEW t \in Threads,
         Step(t) \/ \E r \in Requests : AnswerAtOnce(t, r) \/ Begin(t, r),
         Serving'
  PROVE  Serving
<1>1. /\ mounted
      /\ UNCHANGED faults \/ \E n \in {0, 1} : Fails(n)
      /\ mixed => mixed'
  BY StepGrows
<1>2. faults' = 0 /\ ~ mixed'
  BY DEF Serving, Clear
<1>3. faults = 0
  BY <1>1, <1>2, FaultsGrow DEF SaneInv
<1>. QED BY <1>1, <1>2, <1>3 DEF Serving, Clear

\* While nothing has gone wrong the locks keep the threads apart.
LocksServe == Serving => LockInv(store, th, overtaken)

LEMMA NothingShown ==
  ASSUME ~ Serving, ~ Serving'
  PROVE  UNCHANGED FTC!vars
<1>1. UNCHANGED ShownTree /\ UNCHANGED ShownReply
  BY ShownIs
<1>2. UNCHANGED Serving
  BY DEF Serving
<1>. QED BY <1>1, <1>2 DEF FTC!vars

LEMMA EndShown ==
  ASSUME Serving, ~ Serving'
  PROVE  FTC!Next
<1>1. ShownTree' = FTC!Nothing
  BY ShownIs
<1>2. FTC!End
  BY <1>1 DEF FTC!End
<1>. QED BY <1>2, Zenon DEF FTC!Next

LEMMA HiddenShown ==
  ASSUME Serving, Serving', Settled' = Settled, reply' = reply
  PROVE  UNCHANGED FTC!vars
<1>1. UNCHANGED ShownTree /\ UNCHANGED Serving
  BY ShownIs DEF Serving
<1>2. UNCHANGED ShownReply
  BY DEF ShownReply
<1>. QED BY <1>1, <1>2 DEF FTC!vars

LEMMA MissedShown ==
  ASSUME Serving, Serving', Settled' = Settled, reply'.late
  PROVE  FTC!Next
<1>1. UNCHANGED ShownTree /\ UNCHANGED Serving
  BY ShownIs DEF Serving
<1>2. ShownReply'.op = "none"
  BY DEF ShownReply, NoReply
<1>3. FTC!Overlooked
  BY <1>1, <1>2 DEF FTC!Overlooked
<1>. QED BY <1>3, Zenon DEF FTC!Next

LEMMA ThreadImplements ==
  ASSUME NamesInv, SaneInv, LocksServe, Serving', NEW t \in Threads,
         Step(t) \/ \E r \in Requests : AnswerAtOnce(t, r) \/ Begin(t, r)
  PROVE  (FTC!Next \/ UNCHANGED FTC!vars) /\ LocksServe'
<1>1. Serving
  BY ServedBefore
<1>2. LockInv(store, th, overtaken)
  BY <1>1 DEF LocksServe
<1>3. Hidden \/ Missed \/ \E q \in Requests : Happens(q)
  BY <1>1, <1>2, ThreadServes
<1>4. Sound(Settled) /\ ShallowIn(Settled)
  BY <1>2, LockParts, SettledIs
<1>5. CASE Hidden
  BY <1>1, <1>5, HiddenShown DEF Hidden, LocksServe
<1>6. CASE Missed
  BY <1>1, <1>6, MissedShown DEF Missed, LocksServe
<1>7. ASSUME NEW q \in Requests, Happens(q)
      PROVE  FTC!Next /\ LocksServe'
  <2>1. Fulfils(q, Settled, Settled', reply') /\ LockInv(store', th', overtaken')
    BY <1>7 DEF Happens
  <2>2. FTC!Next
    BY <1>1, <1>4, <2>1, FulfilsImplements
  <2>. QED BY <2>1, <2>2 DEF LocksServe
<1>. QED BY <1>3, <1>5, <1>6, <1>7

LEMMA CallImplements ==
  ASSUME NamesInv, SaneInv, LocksServe, [CallsNext]_callVars
  PROVE  [FTC!Next]_FTC!vars /\ LocksServe'
<1>1. CASE ~ Serving'
  <2>1. LocksServe'
    BY <1>1 DEF LocksServe
  <2>. QED BY <1>1, <2>1, NothingShown, EndShown
<1>2. CASE Serving'
  <2>1. CASE UNCHANGED callVars
    <3>1. Serving /\ LockInv(store', th', overtaken') /\ Settled' = Settled /\ reply' = reply
      BY <1>2, <2>1, SettledIs DEF callVars, Serving, Clear, LocksServe
    <3>. QED BY <1>2, <3>1, HiddenShown DEF LocksServe
  <2>2. CASE Mount
    <3>1. FTC!Mount /\ LocksServe'
      BY <1>2, <2>2, MountServes DEF LocksServe
    <3>2. FTC!Next
      BY <3>1, Zenon DEF FTC!Next
    <3>. QED BY <3>1, <3>2
  <2>3. ~ Kill
    BY <1>2 DEF Kill, Gone, Serving
  <2>4. ASSUME NEW t \in Threads,
               Step(t) \/ \E r \in Requests : AnswerAtOnce(t, r) \/ Begin(t, r)
        PROVE  [FTC!Next]_FTC!vars /\ LocksServe'
    BY <1>2, <2>4, ThreadImplements
  <2>. QED BY <2>1, <2>2, <2>3, <2>4 DEF CallsNext
<1>. QED BY <1>1, <1>2

LEMMA StartShown == CallsInit => FTC!Init /\ LocksServe
<1>1. ASSUME CallsInit
      PROVE  FTC!Init /\ LocksServe
  <2>1. ~ Serving
    BY <1>1 DEF CallsInit, Init, Serving
  <2>2. ShownTree = FTC!Nothing
    BY <2>1, ShownIs
  <2>. QED BY <2>1, <2>2 DEF FTC!Init, LocksServe
<1>. QED BY <1>1

----------------------------------------------------------------------------
\* With any number of threads, the handlers do to the paths and answer what
\* FileTree promises, each request at one moment, as if one came after the
\* other, until a call fails or strtok's shared place leads a thread astray; and
\* a kill between any two calls leaves nothing a later process shows.  Not
\* covered is what a getattr answers whose name is made or removed under it.
\* The locks are those CkvfsCalls.Excludes takes from the kernel and libfuse
\* (main.c has none), and they are enough for this: no blob that a handler read
\* and stores later is stale by then.
THEOREM LocksImplementTheTree == CallsSpec => CallsImplementFileTree
<1>1. NamesInv /\ SaneInv /\ LocksServe /\ [CallsNext]_callVars
        => [FTC!Next]_FTC!vars /\ LocksServe'
  BY CallImplements
<1>. QED BY <1>1, StartShown, NamesInvariant, SaneInvariant, PTL
         DEF CallsSpec, CallsImplementFileTree, FTC!Spec
============================================================================
