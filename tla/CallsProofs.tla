---------------------------- MODULE CallsProofs ----------------------------
(***************************************************************************)
(* UniqueNames and SingleParent of CkvfsCalls, for any number of threads,  *)
(* requests and failing device calls, and with no help from the locks of   *)
(* the kernel; and, at the end, RemovalSticks and DanglingByFault for one  *)
(* thread.                                                                 *)
(*                                                                         *)
(* A directory is judged where it is built, in a thread: every blob that   *)
(* is on the device, in a thread's hands or left on its stack has each     *)
(* name once, so whatever is stored, and whatever a failed read is         *)
(* converted from, has.  Keys are judged in all these copies together:     *)
(* the entries with one key are all in copies of one directory.            *)
(***************************************************************************)
EXTENDS CkvfsCalls, CkvfsProofs, FiniteSetTheorems

\* The entries of a blob, each name once.
Distinct(items) ==
  /\ items \in Seq(Item)
  /\ \A i, j \in 1..Len(items) : items[i].item_path = items[j].item_path => i = j

IsBlob(b) == b = [inodeid |-> b.inodeid, is_dir |-> b.is_dir,
                  sub_items |-> b.sub_items, data |-> b.data]

NameBlob(b) == IsBlob(b) /\ Distinct(b.sub_items)

Device(s) == \A k \in DOMAIN s : NameBlob(get_blob_from_key(s, k))

Fields == {"pc", "req", "left", "rest", "blob", "key", "wb", "since"}

\* What a thread holds.
Holds(r) == /\ DOMAIN r = Fields
            /\ NameBlob(r.blob) /\ NameBlob(r.wb)
            /\ r.pc # "idle" => r.req \in Requests /\ r.req.path # Root

NamesInv == /\ Device(store)
            /\ th = [t \in Threads |-> th[t]]
            /\ \A t \in Threads : Holds(th[t])

----------------------------------------------------------------------------
(* The operators of Blob keep names apart.                                 *)

\* The empty sequence names nothing twice.
LEMMA NothingDistinct == Distinct(<< >>)
BY DEF Distinct

\* What is read back of a stored blob is the entries it had, or none.
LEMMA StoredNames ==
  ASSUME NEW b, NameBlob(b)
  PROVE  NameBlob(convert_to_blob(convert_to_write_blob(b)))
<1>. DEFINE w == convert_to_write_blob(b)
<1>1. w.is_dir = b.is_dir /\ w.num_items = Len(b.sub_items)
  BY DEF convert_to_write_blob
<1>2. IsBlob(convert_to_blob(w))
  BY DEF convert_to_blob, IsBlob
<1>3. CASE b.is_dir = ISDIR
  <2>1. w.data = b.sub_items
    BY <1>3 DEF convert_to_write_blob, ISDIR, NOTDIR
  <2>. HIDE DEF w
  <2>2. convert_to_blob(w).sub_items = SubSeq(b.sub_items, 1, Len(b.sub_items))
    BY <1>1, <1>3, <2>1 DEF convert_to_blob
  <2>3. SubSeq(b.sub_items, 1, Len(b.sub_items)) = b.sub_items
    BY SubSeqFull DEF NameBlob, Distinct
  <2>. QED BY <1>2, <2>2, <2>3 DEF NameBlob, w
<1>4. CASE b.is_dir # ISDIR
  <2>. HIDE DEF w
  <2>1. convert_to_blob(w).sub_items = << >>
    BY <1>1, <1>4 DEF convert_to_blob
  <2>. QED BY <1>2, <2>1, NothingDistinct DEF NameBlob, w
<1>. QED BY <1>3, <1>4

LEMMA WriteNames ==
  ASSUME NEW s, Device(s), NEW k, NEW b, NameBlob(b)
  PROVE  Device(write_to_dict(s, k, b))
<1>. DEFINE s1 == write_to_dict(s, k, b)
<1>1. ASSUME NEW x \in DOMAIN s1
      PROVE  NameBlob(get_blob_from_key(s1, x))
  <2>1. x \in DOMAIN s \cup {k}
    BY DEF write_to_dict, perform_insertion
  <2>2. s1[x] = IF x = k THEN convert_to_write_blob(b) ELSE s[x]
    BY <2>1 DEF write_to_dict, perform_insertion
  <2>3. CASE x = k
    BY <2>2, <2>3, StoredNames DEF get_blob_from_key, perform_read
  <2>4. CASE x # k
    BY <2>1, <2>2, <2>4 DEF get_blob_from_key, perform_read, Device
  <2>. QED BY <2>3, <2>4
<1>. QED BY <1>1 DEF Device

LEMMA DeleteNames ==
  ASSUME NEW s, Device(s), NEW k
  PROVE  Device(perform_delete(s, k))
BY DEF Device, perform_delete, get_blob_from_key, perform_read

LEMMA InsertNames ==
  ASSUME NEW s, Device(s), NEW b, NameBlob(b), NEW name \in Names,
         NEW isd \in BOOLEAN, NEW id \in Ids
  PROVE  Device(insert_item_into_blob(s, b, name, isd, id))
<1>. DEFINE item == [item_path |-> name, inodeid |-> id, is_dir |-> isd]
            new  == [b EXCEPT !.sub_items = Append(@, item)]
<1>1. CASE has_path(b, name)
  BY <1>1 DEF insert_item_into_blob
<1>2. CASE ~ has_path(b, name)
  <2>1. b.sub_items \in Seq(Item) /\ item \in Item /\ item.item_path = name
    BY DEF NameBlob, Distinct, Item
  <2>2. \A j \in 1..Len(b.sub_items) : b.sub_items[j].item_path # name
    BY <1>2, <2>1, PositionFound DEF has_path
  <2>. HIDE DEF item
  <2>3. Distinct(Append(b.sub_items, item))
    BY <2>1, <2>2 DEF NameBlob, Distinct
  <2>4. IsBlob(new) /\ new.sub_items = Append(b.sub_items, item)
    BY DEF NameBlob, IsBlob
  <2>5. insert_item_into_blob(s, b, name, isd, id) = write_to_dict(s, b.inodeid, new)
    BY <1>2 DEF insert_item_into_blob, item
  <2>. HIDE DEF new
  <2>6. NameBlob(new)
    BY <2>3, <2>4 DEF NameBlob
  <2>. QED BY <2>5, <2>6, WriteNames
<1>. QED BY <1>1, <1>2

LEMMA RemoveNames ==
  ASSUME NEW b, NameBlob(b), NEW name, get_inode_from_path(b, name) # NULL
  PROVE  NameBlob(remove_inode_from_path(b, name))
<1>. DEFINE n   == Position(b, name)
            new == remove_inode_from_path(b, name)
<1>1. b.sub_items \in Seq(Item)
  BY DEF NameBlob, Distinct
<1>2. n # 0
  BY DEF get_inode_from_path
<1>3. n \in 1..Len(b.sub_items)
  BY <1>1, <1>2, PositionFound
<1>4. new = [b EXCEPT !.sub_items = RemoveAt(@, n)]
  BY <1>2 DEF remove_inode_from_path, has_path
<1>5. IsBlob(new) /\ new.sub_items = RemoveAt(b.sub_items, n)
  BY <1>4 DEF NameBlob, IsBlob
<1>. HIDE DEF n, new
<1>6. /\ RemoveAt(b.sub_items, n) \in Seq(Item)
      /\ Len(RemoveAt(b.sub_items, n)) = Len(b.sub_items) - 1
      /\ \A j \in 1..(Len(b.sub_items) - 1) :
           RemoveAt(b.sub_items, n)[j] = IF j < n THEN b.sub_items[j] ELSE b.sub_items[j+1]
  BY <1>1, <1>3, RemoveAtShifts
<1>7. Distinct(RemoveAt(b.sub_items, n))
  <2>. DEFINE items == b.sub_items
              rest  == RemoveAt(items, n)
              was(j) == IF j < n THEN j ELSE j + 1
  <2>1. \A i, j \in 1..Len(items) : items[i].item_path = items[j].item_path => i = j
    BY DEF NameBlob, Distinct
  <2>2. Len(items) \in Nat /\ n \in Nat
    BY <1>1, <1>3
  <2>3. ASSUME NEW j \in 1..Len(rest)
        PROVE  was(j) \in 1..Len(items) /\ rest[j] = items[was(j)]
    BY <1>6, <2>2
  <2>4. ASSUME NEW i \in 1..Len(rest), NEW j \in 1..Len(rest),
               rest[i].item_path = rest[j].item_path
        PROVE  i = j
    <3>1. /\ was(i) \in 1..Len(items) /\ was(j) \in 1..Len(items)
          /\ items[was(i)].item_path = items[was(j)].item_path
      BY <2>3, <2>4
    <3>2. was(i) = was(j)
      <4>. HIDE DEF was, items
      <4>. QED BY <2>1, <3>1
    <3>3. i \in Nat /\ j \in Nat
      OBVIOUS
    <3>. QED BY <2>2, <3>2, <3>3
  <2>. QED BY <1>6, <2>4 DEF Distinct
<1>. QED BY <1>5, <1>7 DEF NameBlob, new

LEMMA EmptyNames ==
  ASSUME NEW id
  PROVE  /\ NameBlob(EmptyDir(id)) /\ NameBlob(EmptyFile(id))
         /\ NameBlob(ZeroBlob) /\ NameBlob(NoBlob)
BY NothingDistinct DEF NameBlob, IsBlob, EmptyDir, EmptyFile, ZeroBlob, NoBlob

----------------------------------------------------------------------------
(* What the steps have in common.                                          *)

LEMMA ThreadChanged ==
  ASSUME NamesInv, NEW t \in Threads, NEW r, Holds(r), th' = [th EXCEPT ![t] = r],
         Device(store')
  PROVE  NamesInv'
<1>1. th' = [u \in Threads |-> th'[u]]
  BY DEF NamesInv
<1>2. ASSUME NEW u \in Threads
      PROVE  Holds(th'[u])
  BY DEF NamesInv
<1>3. \A u \in Threads : Holds(th[u])'
  BY <1>2 DEF Holds, Fields, NameBlob, IsBlob, Distinct
<1>4. Device(store)'
  BY DEF Device, NameBlob, IsBlob, Distinct, get_blob_from_key, convert_to_blob, perform_read
<1>. QED BY <1>1, <1>3, <1>4 DEF NamesInv

\* Whether a read works or fails, no name is twice in what it returns.
LEMMA ReadNames ==
  ASSUME NamesInv, NEW t \in Threads, NEW k, NEW res \in ReadResults(t, k)
  PROVE  NameBlob(res.blob)
<1>1. NameBlob(th[t].wb) /\ NameBlob(ZeroBlob)
  BY EmptyNames DEF NamesInv, Holds
<1>2. k \in DOMAIN store => NameBlob(get_blob_from_key(store, k))
  BY DEF NamesInv, Device
<1>. QED BY <1>1, <1>2 DEF ReadResults

LEMMA IdleHolds ==
  ASSUME NEW wb, NameBlob(wb)
  PROVE  Holds([IdleThread EXCEPT !.wb = wb])
BY EmptyNames DEF Holds, Fields, IdleThread

LEMMA Ended ==
  ASSUME NamesInv, NEW t \in Threads, NEW wb, NameBlob(wb), End(t, wb), Device(store')
  PROVE  NamesInv'
<1>1. PICK v \in {wb, ZeroBlob} : th' = [th EXCEPT ![t] = [IdleThread EXCEPT !.wb = v]]
  BY DEF End
<1>2. NameBlob(v)
  BY EmptyNames
<1>. QED BY <1>1, <1>2, IdleHolds, ThreadChanged

LEMMA GoneNames ==
  ASSUME NamesInv, Gone
  PROVE  NamesInv'
<1>1. Holds(IdleThread)
  BY EmptyNames DEF Holds, Fields, IdleThread
<1>. QED BY <1>1 DEF NamesInv, Gone

\* A name of a request that has one is a name.
LEMMA NameIsName ==
  ASSUME NamesInv, NEW t \in Threads, Busy(t)
  PROVE  Name(t) \in Names
<1>1. th[t].req \in Requests /\ th[t].req.path # Root
  BY DEF NamesInv, Holds, Busy
<1>2. th[t].req.path \in Paths
  BY <1>1, CallsAssumption
<1>3. th[t].req.path \in Seq(Names)
  BY <1>2 DEF Paths
<1>. QED BY <1>1, <1>3, FrontLast DEF Name, Path, get_fn_dir, Root

----------------------------------------------------------------------------
(* The steps.                                                              *)

LEMMA StepAnswer ==
  ASSUME NamesInv, NEW t \in Threads, NEW r \in Requests, AnswerAtOnce(t, r)
  PROVE  NamesInv'
<1>1. CASE th' = th
  BY <1>1 DEF AnswerAtOnce, NamesInv
<1>2. ASSUME NEW res \in ReadResults(t, root_id), End(t, res.blob)
      PROVE  NamesInv'
  <2>1. Device(store')
    BY DEF AnswerAtOnce, NamesInv
  <2>. QED BY <1>2, <2>1, ReadNames, Ended
<1>. QED BY <1>1, <1>2 DEF AnswerAtOnce

LEMMA StepBegin ==
  ASSUME NamesInv, NEW t \in Threads, NEW r \in Requests, Begin(t, r)
  PROVE  NamesInv'
<1>1. PICK res \in ReadResults(t, root_id) :
        th' = [th EXCEPT ![t] = [@ EXCEPT !.pc = "split", !.req = r,
                                          !.left = get_fn_dir(r.path).dir,
                                          !.blob = res.blob, !.wb = res.blob,
                                          !.since = faults]]
  BY DEF Begin
<1>. DEFINE new == [th[t] EXCEPT !.pc = "split", !.req = r, !.left = get_fn_dir(r.path).dir,
                                 !.blob = res.blob, !.wb = res.blob, !.since = faults]
<1>2. th' = [th EXCEPT ![t] = new]
  BY <1>1 DEF NamesInv
<1>3. NameBlob(res.blob)
  BY ReadNames
<1>4. r.path # Root
  BY DEF Begin, OnRoot
<1>5. Holds(new)
  <2>1. /\ DOMAIN new = Fields
        /\ new.pc = "split" /\ new.req = r /\ new.blob = res.blob /\ new.wb = res.blob
    BY DEF NamesInv, Holds, Fields
  <2>. HIDE DEF new
  <2>. QED BY <2>1, <1>3, <1>4 DEF Holds
<1>6. Device(store')
  BY DEF Begin, NamesInv
<1>. HIDE DEF new
<1>. QED BY <1>2, <1>5, <1>6, ThreadChanged

\* What is left of a path, and how a lookup ends, is of no concern.
LEMMA FollowNames ==
  ASSUME NamesInv, NEW t \in Threads, NEW s, Busy(t), Follow(t, s)
  PROVE  NamesInv'
<1>. DEFINE r0 == th[t]
            l  == Behind(r0.left)
<1>1. /\ DOMAIN r0 = Fields /\ NameBlob(r0.wb) /\ NameBlob(r0.blob)
      /\ r0.req \in Requests /\ r0.req.path # Root
  BY DEF NamesInv, Holds, Busy
<1>2. Device(store')
  BY DEF NamesInv, Follow
<1>. HIDE DEF r0, l
<1>3. ASSUME NEW new, DOMAIN new = Fields, new.req = r0.req, new.wb = r0.wb,
             new.blob \in {r0.blob, NoBlob}, new.pc \in {"arrived", "enter"},
             th' = [th EXCEPT ![t] = new]
      PROVE  NamesInv'
  <2>1. Holds(new)
    BY <1>1, <1>3, EmptyNames DEF Holds
  <2>. QED BY <2>1, <1>2, <1>3, ThreadChanged
<1>4. \/ th' = [th EXCEPT ![t] = [r0 EXCEPT !.pc = "arrived", !.left = Root, !.rest = Root]]
      \/ th' = [th EXCEPT ![t] =
           [r0 EXCEPT !.pc = "enter", !.key = get_inode_from_path(r0.blob, Head(s)),
                      !.left = l, !.rest = Root]]
      \/ th' = [th EXCEPT ![t] = [r0 EXCEPT !.pc = "arrived", !.blob = NoBlob,
                                            !.left = Root, !.rest = Root]]
  <2>1. CASE s = Root
    BY <2>1 DEF Follow, r0
  <2>2. CASE s # Root /\ has_path(r0.blob, Head(s))
    BY <2>2 DEF Follow, r0, l
  <2>3. CASE s # Root /\ ~ has_path(r0.blob, Head(s))
    BY <2>3 DEF Follow, r0
  <2>. QED BY <2>1, <2>2, <2>3
<1>5. CASE th' = [th EXCEPT ![t] = [r0 EXCEPT !.pc = "arrived", !.left = Root, !.rest = Root]]
  <2>. DEFINE new == [r0 EXCEPT !.pc = "arrived", !.left = Root, !.rest = Root]
  <2>1. DOMAIN new = Fields /\ new.req = r0.req /\ new.wb = r0.wb /\ new.blob = r0.blob
          /\ new.pc = "arrived"
    BY <1>1 DEF Fields
  <2>. HIDE DEF new
  <2>. QED BY <2>1, <1>3, <1>5 DEF new
<1>6. CASE th' = [th EXCEPT ![t] =
             [r0 EXCEPT !.pc = "enter", !.key = get_inode_from_path(r0.blob, Head(s)),
                        !.left = l, !.rest = Root]]
  <2>. DEFINE new == [r0 EXCEPT !.pc = "enter", !.key = get_inode_from_path(r0.blob, Head(s)),
                                !.left = l, !.rest = Root]
  <2>1. DOMAIN new = Fields /\ new.req = r0.req /\ new.wb = r0.wb /\ new.blob = r0.blob
          /\ new.pc = "enter"
    BY <1>1 DEF Fields
  <2>. HIDE DEF new
  <2>. QED BY <2>1, <1>3, <1>6 DEF new
<1>7. CASE th' = [th EXCEPT ![t] = [r0 EXCEPT !.pc = "arrived", !.blob = NoBlob,
                                              !.left = Root, !.rest = Root]]
  <2>. DEFINE new == [r0 EXCEPT !.pc = "arrived", !.blob = NoBlob, !.left = Root, !.rest = Root]
  <2>1. DOMAIN new = Fields /\ new.req = r0.req /\ new.wb = r0.wb /\ new.blob = NoBlob
          /\ new.pc = "arrived"
    BY <1>1 DEF Fields
  <2>. HIDE DEF new
  <2>. QED BY <2>1, <1>3, <1>7 DEF new
<1>. QED BY <1>4, <1>5, <1>6, <1>7

LEMMA StepLoad ==
  ASSUME NamesInv, NEW t \in Threads, Load(t)
  PROVE  NamesInv'
<1>. DEFINE r0  == th[t]
            new == [r0 EXCEPT !.pc = "take", !.rest = saved]
<1>1. th' = [th EXCEPT ![t] = new] /\ r0.pc # "idle"
  BY DEF Load, At
<1>2. Holds(r0) /\ Device(store')
  BY DEF NamesInv, Load
<1>3. DOMAIN new = Fields /\ new.pc = "take" /\ new.req = r0.req /\ new.wb = r0.wb
        /\ new.blob = r0.blob
  BY <1>2 DEF Holds, Fields
<1>. HIDE DEF r0, new
<1>4. Holds(new)
  BY <1>1, <1>2, <1>3 DEF Holds
<1>. QED BY <1>1, <1>2, <1>4, ThreadChanged

LEMMA StepEnter ==
  ASSUME NamesInv, NEW t \in Threads, Enter1(t)
  PROVE  NamesInv'
<1>1. PICK res \in ReadResults(t, th[t].key) :
        th' = [th EXCEPT ![t] = [th[t] EXCEPT !.pc = "token", !.key = NULL,
                                              !.blob = res.blob, !.wb = res.blob]]
  BY DEF Enter1
<1>. DEFINE r0  == th[t]
            new == [r0 EXCEPT !.pc = "token", !.key = NULL, !.blob = res.blob, !.wb = res.blob]
<1>2. Holds(r0) /\ r0.pc # "idle" /\ Device(store')
  BY DEF NamesInv, Enter1, At
<1>3. DOMAIN new = Fields /\ new.pc = "token" /\ new.req = r0.req /\ new.wb = res.blob
        /\ new.blob = res.blob
  BY <1>2 DEF Holds, Fields
<1>4. NameBlob(res.blob)
  BY ReadNames
<1>5. th' = [th EXCEPT ![t] = new]
  BY <1>1
<1>. HIDE DEF r0, new
<1>6. Holds(new)
  BY <1>2, <1>3, <1>4 DEF Holds
<1>. QED BY <1>2, <1>5, <1>6, ThreadChanged

\* The first of two changes: what is stored, and what will be, keeps names apart.
LEMMA FirstNames ==
  ASSUME NamesInv, NEW t \in Threads, Busy(t), NEW s, Device(s), NEW b, NameBlob(b),
         FirstOfTwo(t, s, b)
  PROVE  NamesInv'
<1>. DEFINE r0  == th[t]
            new == [r0 EXCEPT !.pc = "second", !.blob = b]
<1>1. th' = [th EXCEPT ![t] = new] /\ r0.pc # "idle"
  BY DEF FirstOfTwo, Busy
<1>2. Holds(r0) /\ Device(store')
  BY DEF NamesInv, FirstOfTwo, Changes
<1>3. DOMAIN new = Fields /\ new.pc = "second" /\ new.req = r0.req /\ new.wb = r0.wb
        /\ new.blob = b
  BY <1>2 DEF Holds, Fields
<1>. HIDE DEF r0, new
<1>4. Holds(new)
  BY <1>1, <1>2, <1>3 DEF Holds
<1>. QED BY <1>1, <1>2, <1>4, ThreadChanged

\* A handler that gives up, or only looks, stores nothing.
LEMMA GivenUp ==
  ASSUME NamesInv, NEW t \in Threads, NEW err, GiveUp(t, err)
  PROVE  NamesInv'
<1>1. End(t, th[t].wb) /\ Device(store') /\ NameBlob(th[t].wb)
  BY DEF GiveUp, Answer, NamesInv, Holds
<1>. QED BY <1>1, Ended

LEMMA StepAddName ==
  ASSUME NamesInv, NEW t \in Threads, AddName(t)
  PROVE  NamesInv'
<1>1. CASE \E err : GiveUp(t, err)
  BY <1>1, GivenUp
<1>2. CASE Gone
  BY <1>2, GoneNames
<1>3. ASSUME NEW id \in Fresh, ~ DirIsMissing(t),
             NEW isd \in BOOLEAN,
             NEW new \in {EmptyDir(id), EmptyFile(id)},
             FirstOfTwo(t, insert_item_into_blob(store, th[t].blob, Name(t), isd, id), new)
      PROVE  NamesInv'
  <2>1. id \in Ids /\ NameBlob(new)
    BY EmptyNames DEF Fresh, get_random_num
  <2>2. NameBlob(th[t].blob) /\ Device(store)
    BY <1>3 DEF NamesInv, Holds, DirIsMissing
  <2>3. Busy(t)
    BY DEF AddName, Arrived, At, Busy
  <2>4. Device(insert_item_into_blob(store, th[t].blob, Name(t), isd, id))
    BY <2>1, <2>2, <2>3, NameIsName, InsertNames
  <2>. QED BY <1>3, <2>1, <2>3, <2>4, FirstNames
<1>. QED BY <1>1, <1>2, <1>3 DEF AddName

LEMMA StepRemoveName ==
  ASSUME NamesInv, NEW t \in Threads, RemoveName(t)
  PROVE  NamesInv'
<1>1. CASE GiveUp(t, "OK")
  BY <1>1, GivenUp
<1>2. CASE /\ ~ DirIsMissing(t) /\ EntryKey(t) # NULL
           /\ FirstOfTwo(t, perform_delete(store, EntryKey(t)),
                         remove_inode_from_path(th[t].blob, Name(t)))
  <2>1. Busy(t)
    BY DEF RemoveName, Arrived, At, Busy
  <2>2. NameBlob(th[t].blob) /\ Device(store)
    BY <1>2 DEF NamesInv, Holds, DirIsMissing
  <2>3. NameBlob(remove_inode_from_path(th[t].blob, Name(t)))
    BY <1>2, <2>2, RemoveNames DEF EntryKey
  <2>4. Device(perform_delete(store, EntryKey(t)))
    BY <2>2, DeleteNames
  <2>. QED BY <1>2, <2>1, <2>3, <2>4, FirstNames
<1>. QED BY <1>1, <1>2 DEF RemoveName

LEMMA StepWriteData ==
  ASSUME NamesInv, NEW t \in Threads, Write(t)
  PROVE  NamesInv'
<1>1. CASE GiveUp(t, "ENOENT")
  BY <1>1, GivenUp
<1>2. ASSUME NEW res \in ReadResults(t, EntryKey(t)),
             th' = [th EXCEPT ![t] = [th[t] EXCEPT !.pc = "second", !.wb = res.blob,
                              !.blob = [res.blob EXCEPT !.data = Kept(th[t].req.buf)]]],
             UNCHANGED store
      PROVE  NamesInv'
  <2>. DEFINE r0  == th[t]
              b   == [res.blob EXCEPT !.data = Kept(th[t].req.buf)]
              new == [r0 EXCEPT !.pc = "second", !.wb = res.blob, !.blob = b]
  <2>1. th' = [th EXCEPT ![t] = new]
    BY <1>2
  <2>2. Holds(r0) /\ r0.pc # "idle" /\ Device(store')
    BY <1>2 DEF NamesInv, Write, Arrived, At
  <2>3. NameBlob(res.blob)
    BY ReadNames
  <2>4. b.sub_items = res.blob.sub_items /\ IsBlob(b)
    BY <2>3 DEF NameBlob, IsBlob
  <2>5. NameBlob(b)
    BY <2>3, <2>4 DEF NameBlob
  <2>. HIDE DEF b
  <2>6. DOMAIN new = Fields /\ new.pc = "second" /\ new.req = r0.req /\ new.wb = res.blob
          /\ new.blob = b
    BY <2>2 DEF Holds, Fields
  <2>. HIDE DEF r0, new
  <2>7. Holds(new)
    BY <2>2, <2>3, <2>5, <2>6 DEF Holds
  <2>. QED BY <2>1, <2>2, <2>7, ThreadChanged
<1>. QED BY <1>1, <1>2 DEF Write

LEMMA StepLook ==
  ASSUME NamesInv, NEW t \in Threads, Look(t)
  PROVE  NamesInv'
<1>1. CASE GiveUp(t, EarlyReturn(t))
  BY <1>1, GivenUp
<1>2. ASSUME NEW res \in ReadResults(t, EntryKey(t)), End(t, res.blob), UNCHANGED store
      PROVE  NamesInv'
  <2>1. Device(store')
    BY <1>2 DEF NamesInv
  <2>. QED BY <1>2, <2>1, ReadNames, Ended
<1>. QED BY <1>1, <1>2 DEF Look

LEMMA StepSecond ==
  ASSUME NamesInv, NEW t \in Threads, Second(t)
  PROVE  NamesInv'
<1>1. NameBlob(th[t].blob) /\ NameBlob(th[t].wb) /\ Device(store)
  BY DEF NamesInv, Holds, Second, At
<1>2. Device(Stored1(th[t].blob))
  BY <1>1, WriteNames DEF Stored1
<1>3. Device(store')
  BY <1>1, <1>2 DEF Second, Changes
<1>. QED BY <1>1, <1>3, Ended DEF Second

LEMMA EmptyNamed == Device(set_up_ssd)
BY DEF Device, set_up_ssd

LEMMA StepMount ==
  ASSUME NamesInv, Mount
  PROVE  NamesInv'
<1>1. Device(store')
  BY EmptyNamed, EmptyNames, WriteNames DEF Mount, write_root
<1>2. Device(store)'
  BY <1>1 DEF Device, NameBlob, IsBlob, Distinct, get_blob_from_key, convert_to_blob, perform_read
<1>. QED BY <1>2 DEF Mount, NamesInv

LEMMA StepStart == CallsInit => NamesInv
<1>1. Holds(IdleThread)
  BY EmptyNames DEF Holds, Fields, IdleThread
<1>. QED BY <1>1, EmptyNamed DEF CallsInit, Init, NamesInv

----------------------------------------------------------------------------
(* The theorem.                                                            *)

LEMMA StepThread ==
  ASSUME NamesInv, NEW t \in Threads, Step(t)
  PROVE  NamesInv'
<1>1. CASE Split(t)
  BY <1>1, FollowNames DEF Split, At, Busy
<1>2. CASE Take(t)
  BY <1>2, FollowNames DEF Take, At, Busy
<1>. QED BY <1>1, <1>2, StepLoad, StepEnter, StepAddName, StepRemoveName, StepWriteData,
            StepLook, StepSecond DEF Step

LEMMA NamesInvariant == CallsSpec => []NamesInv
<1>1. NamesInv /\ CallsNext => NamesInv'
  <2>. SUFFICES ASSUME NamesInv, CallsNext PROVE NamesInv'
    OBVIOUS
  <2>1. CASE Kill
    BY <2>1, GoneNames DEF Kill
  <2>. QED BY <2>1, StepMount, StepThread, StepAnswer, StepBegin DEF CallsNext
<1>2. NamesInv /\ UNCHANGED callVars => NamesInv'
  BY DEF callVars, NamesInv
<1>. QED BY <1>1, <1>2, StepStart, PTL DEF CallsSpec

\* Whatever calls fail, threads run between each other's calls, walks go astray
\* in strtok's place, and whenever the process is killed: no directory ever has
\* two entries of one name (hello_create, hello_mkdir, insert_item_into_blob).
THEOREM NamesStayUnique == CallsSpec => []UniqueNames
<1>1. NamesInv => UniqueNames
  BY DEF NamesInv, Device, UniqueNames, Blobs, NameBlob, Distinct
<1>. QED BY <1>1, NamesInvariant, PTL

----------------------------------------------------------------------------
(* Every key has one home: the directory in whose copies, on the device    *)
(* and in the threads' hands, the entries with that key are.               *)

Stock(s) == {get_blob_from_key(s, k) : k \in DOMAIN s}

\* Every blob that is anywhere.
Held == Stock(store) \cup {th[t].wb : t \in Threads} \cup {th[t].blob : t \in Threads}

KeysApart(b) ==
  \A i, j \in 1..Len(b.sub_items) : b.sub_items[i].inodeid = b.sub_items[j].inodeid => i = j

OneHome(H) ==
  /\ \A b \in H : KeysApart(b)
  /\ \A b, c \in H : \A i \in 1..Len(b.sub_items), j \in 1..Len(c.sub_items) :
       b.sub_items[i].inodeid = c.sub_items[j].inodeid => b.inodeid = c.inodeid

Filed(s) == \A k \in DOMAIN s : get_blob_from_key(s, k).inodeid = k

HomesInv == OneHome(Held) /\ Filed(store)

\* d has no entries, or is a directory of H of which entries may be missing.
Copies(d, H) ==
  \/ 1..Len(d.sub_items) = {}
  \/ /\ KeysApart(d)
     /\ \E b \in H :
          /\ d.inodeid = b.inodeid
          /\ \A i \in 1..Len(d.sub_items) : \E j \in 1..Len(b.sub_items) :
               d.sub_items[i].inodeid = b.sub_items[j].inodeid

LEMMA HomesKept ==
  ASSUME NEW H, OneHome(H), NEW G, \A d \in G : Copies(d, H)
  PROVE  OneHome(G)
<1>1. ASSUME NEW d \in G
      PROVE  KeysApart(d)
  BY DEF Copies, KeysApart
<1>2. ASSUME NEW d \in G, NEW e \in G,
             NEW i \in 1..Len(d.sub_items), NEW j \in 1..Len(e.sub_items),
             d.sub_items[i].inodeid = e.sub_items[j].inodeid
      PROVE  d.inodeid = e.inodeid
  <2>1. PICK b \in H : /\ d.inodeid = b.inodeid
                       /\ \E m \in 1..Len(b.sub_items) :
                            d.sub_items[i].inodeid = b.sub_items[m].inodeid
    BY DEF Copies
  <2>2. PICK c \in H : /\ e.inodeid = c.inodeid
                       /\ \E n \in 1..Len(c.sub_items) :
                            e.sub_items[j].inodeid = c.sub_items[n].inodeid
    BY DEF Copies
  <2>3. PICK m \in 1..Len(b.sub_items) : d.sub_items[i].inodeid = b.sub_items[m].inodeid
    BY <2>1
  <2>4. PICK n \in 1..Len(c.sub_items) : e.sub_items[j].inodeid = c.sub_items[n].inodeid
    BY <2>2
  <2>5. b.sub_items[m].inodeid = c.sub_items[n].inodeid
    BY <1>2, <2>3, <2>4
  <2>6. b.inodeid = c.inodeid
    BY <2>5 DEF OneHome
  <2>. QED BY <2>1, <2>2, <2>6
<1>. QED BY <1>1, <1>2 DEF OneHome

LEMMA HomeOfNew ==
  ASSUME NEW H, OneHome(H), NEW b \in H, b.sub_items \in Seq(Item), NEW item \in Item,
         \A c \in H : \A i \in 1..Len(c.sub_items) : c.sub_items[i].inodeid # item.inodeid,
         NEW d, d.inodeid = b.inodeid, d.sub_items = Append(b.sub_items, item)
  PROVE  OneHome(H \cup {d})
<1>. DEFINE n == Len(b.sub_items)
<1>1. /\ n \in Nat /\ Len(d.sub_items) = n + 1
      /\ \A i \in 1..n : d.sub_items[i] = b.sub_items[i]
      /\ d.sub_items[n + 1] = item
  OBVIOUS
<1>2. \A i \in 1..Len(d.sub_items) :
        i = n + 1 \/ (i \in 1..n /\ d.sub_items[i] = b.sub_items[i])
  BY <1>1
<1>3. \A i \in 1..n : b.sub_items[i].inodeid # item.inodeid
  OBVIOUS
<1>. HIDE DEF n
<1>4. KeysApart(d)
  <2>1. \A i, j \in 1..n : b.sub_items[i].inodeid = b.sub_items[j].inodeid => i = j
    BY DEF OneHome, KeysApart, n
  <2>2. ASSUME NEW i \in 1..Len(d.sub_items), NEW j \in 1..Len(d.sub_items),
               d.sub_items[i].inodeid = d.sub_items[j].inodeid
        PROVE  i = j
    <3>1. CASE i = n + 1
      BY <1>1, <1>2, <1>3, <2>2, <3>1
    <3>2. CASE i # n + 1
      BY <1>1, <1>2, <1>3, <2>1, <2>2, <3>2
    <3>. QED BY <3>1, <3>2
  <2>. QED BY <2>2 DEF KeysApart
<1>5. ASSUME NEW c \in H, NEW i \in 1..Len(d.sub_items), NEW j \in 1..Len(c.sub_items),
             d.sub_items[i].inodeid = c.sub_items[j].inodeid
      PROVE  d.inodeid = c.inodeid
  <2>1. i # n + 1
    BY <1>1, <1>5
  <2>2. i \in 1..Len(b.sub_items) /\ b.sub_items[i].inodeid = c.sub_items[j].inodeid
    BY <1>2, <1>5, <2>1 DEF n
  <2>. QED BY <2>2 DEF OneHome
<1>6. ASSUME NEW b1 \in H \cup {d}, NEW c1 \in H \cup {d},
             NEW i \in 1..Len(b1.sub_items), NEW j \in 1..Len(c1.sub_items),
             b1.sub_items[i].inodeid = c1.sub_items[j].inodeid
      PROVE  b1.inodeid = c1.inodeid
  <2>1. CASE b1 \in H /\ c1 \in H
    BY <1>6, <2>1 DEF OneHome
  <2>2. CASE b1 = d /\ c1 \in H
    BY <1>5, <1>6, <2>2
  <2>3. CASE b1 \in H /\ c1 = d
    BY <1>5, <1>6, <2>3
  <2>4. CASE b1 = d /\ c1 = d
    BY <2>4
  <2>. QED BY <2>1, <2>2, <2>3, <2>4
<1>7. \A b1 \in H \cup {d} : KeysApart(b1)
  BY <1>4 DEF OneHome
<1>. QED BY <1>6, <1>7 DEF OneHome

\* A blob of H copies itself, and what has the key and entries of a copy is one.
LEMMA CopyOfCopy ==
  ASSUME NEW H, OneHome(H)
  PROVE  /\ \A b \in H : Copies(b, H)
         /\ \A d, e : /\ Copies(d, H) /\ e.inodeid = d.inodeid
                      /\ e.sub_items = d.sub_items
                      => Copies(e, H)
<1>1. \A b \in H : Copies(b, H)
  BY DEF Copies, OneHome
<1>2. ASSUME NEW d, NEW e, Copies(d, H), e.inodeid = d.inodeid, e.sub_items = d.sub_items
      PROVE  Copies(e, H)
  BY <1>2 DEF Copies, KeysApart
<1>. QED BY <1>1, <1>2

LEMMA EmptyCopies ==
  ASSUME NEW id, NEW H
  PROVE  /\ Copies(EmptyDir(id), H) /\ Copies(EmptyFile(id), H)
         /\ Copies(ZeroBlob, H) /\ Copies(NoBlob, H)
<1>1. 1..Len(<< >>) = {}
  OBVIOUS
<1>. QED BY <1>1 DEF Copies, EmptyDir, EmptyFile, ZeroBlob, NoBlob

LEMMA RemovedCopies ==
  ASSUME NEW H, OneHome(H), NEW b \in H, NameBlob(b), NEW name,
         get_inode_from_path(b, name) # NULL
  PROVE  Copies(remove_inode_from_path(b, name), H)
<1>. DEFINE n   == Position(b, name)
            new == remove_inode_from_path(b, name)
            was(j) == IF j < n THEN j ELSE j + 1
<1>1. b.sub_items \in Seq(Item)
  BY DEF NameBlob, Distinct
<1>2. n # 0
  BY DEF get_inode_from_path
<1>3. n \in 1..Len(b.sub_items)
  BY <1>1, <1>2, PositionFound
<1>4. new = [b EXCEPT !.sub_items = RemoveAt(@, n)]
  BY <1>2 DEF remove_inode_from_path, has_path
<1>5. new.inodeid = b.inodeid /\ new.sub_items = RemoveAt(b.sub_items, n)
  BY <1>4 DEF NameBlob, IsBlob
<1>. HIDE DEF n, new
<1>6. /\ Len(RemoveAt(b.sub_items, n)) = Len(b.sub_items) - 1
      /\ \A j \in 1..(Len(b.sub_items) - 1) :
           RemoveAt(b.sub_items, n)[j] = IF j < n THEN b.sub_items[j] ELSE b.sub_items[j+1]
  BY <1>1, <1>3, RemoveAtShifts
<1>7. Len(b.sub_items) \in Nat /\ n \in Nat
  BY <1>1, <1>3
<1>8. ASSUME NEW j \in 1..Len(new.sub_items)
      PROVE  was(j) \in 1..Len(b.sub_items) /\ new.sub_items[j] = b.sub_items[was(j)]
  BY <1>5, <1>6, <1>7
<1>9. KeysApart(new)
  <2>1. ASSUME NEW i \in 1..Len(new.sub_items), NEW j \in 1..Len(new.sub_items),
               new.sub_items[i].inodeid = new.sub_items[j].inodeid
        PROVE  i = j
    <3>1. KeysApart(b)
      BY DEF OneHome
    <3>2. /\ was(i) \in 1..Len(b.sub_items) /\ was(j) \in 1..Len(b.sub_items)
          /\ b.sub_items[was(i)].inodeid = b.sub_items[was(j)].inodeid
      BY <1>8, <2>1
    <3>3. was(i) = was(j)
      <4>. HIDE DEF was
      <4>. QED BY <3>1, <3>2 DEF KeysApart
    <3>4. i \in Nat /\ j \in Nat
      OBVIOUS
    <3>. QED BY <1>7, <3>3, <3>4
  <2>. QED BY <2>1 DEF KeysApart
<1>10. \A i \in 1..Len(new.sub_items) : \E j \in 1..Len(b.sub_items) :
         new.sub_items[i].inodeid = b.sub_items[j].inodeid
  BY <1>8
<1>. QED BY <1>5, <1>9, <1>10 DEF Copies, new

\* Storing a copy under its own key, or deleting, leaves only copies.
LEMMA StockWritten ==
  ASSUME NEW s, Filed(s), NEW H, OneHome(H), \A d \in Stock(s) : Copies(d, H),
         NEW b, NameBlob(b), Copies(b, H)
  PROVE  LET s1 == write_to_dict(s, b.inodeid, b)
         IN  Filed(s1) /\ \A d \in Stock(s1) : Copies(d, H)
<1>. DEFINE s1 == write_to_dict(s, b.inodeid, b)
            b1 == convert_to_blob(convert_to_write_blob(b))
<1>1. b1.inodeid = b.inodeid /\ b1.sub_items \in {b.sub_items, << >>}
  <2>. DEFINE w == convert_to_write_blob(b)
  <2>1. w.inodeid = b.inodeid /\ w.is_dir = b.is_dir /\ w.num_items = Len(b.sub_items)
        /\ w.data = IF b.is_dir = NOTDIR THEN b.data ELSE b.sub_items
    BY DEF convert_to_write_blob
  <2>2. SubSeq(b.sub_items, 1, Len(b.sub_items)) = b.sub_items
    BY SubSeqFull DEF NameBlob, Distinct
  <2>. HIDE DEF w
  <2>3. convert_to_blob(w).inodeid = b.inodeid
        /\ convert_to_blob(w).sub_items \in {b.sub_items, << >>}
    BY <2>1, <2>2 DEF convert_to_blob, ISDIR, NOTDIR
  <2>. QED BY <2>3 DEF w
<1>2. Copies(b1, H)
  <2>1. 1..Len(<< >>) = {}
    OBVIOUS
  <2>. HIDE DEF b1
  <2>2. CASE b1.sub_items = << >>
    BY <2>1, <2>2 DEF Copies
  <2>3. CASE b1.sub_items = b.sub_items
    BY <1>1, <2>3, CopyOfCopy
  <2>. QED BY <1>1, <2>2, <2>3
<1>3. ASSUME NEW x \in DOMAIN s1
      PROVE  \/ x = b.inodeid /\ get_blob_from_key(s1, x) = b1
             \/ x \in DOMAIN s /\ get_blob_from_key(s1, x) = get_blob_from_key(s, x)
  <2>1. x \in DOMAIN s \cup {b.inodeid}
    BY DEF write_to_dict, perform_insertion
  <2>2. s1[x] = IF x = b.inodeid THEN convert_to_write_blob(b) ELSE s[x]
    BY <2>1 DEF write_to_dict, perform_insertion
  <2>. HIDE DEF s1
  <2>. QED BY <2>1, <2>2 DEF get_blob_from_key, perform_read
<1>. HIDE DEF s1, b1
<1>4. Filed(s1)
  BY <1>1, <1>3 DEF Filed
<1>5. \A d \in Stock(s1) : Copies(d, H)
  BY <1>2, <1>3 DEF Stock
<1>. QED BY <1>4, <1>5 DEF s1

LEMMA StockDeleted ==
  ASSUME NEW s, Filed(s), NEW k
  PROVE  Filed(perform_delete(s, k)) /\ Stock(perform_delete(s, k)) \subseteq Stock(s)
BY DEF Filed, Stock, perform_delete, get_blob_from_key, perform_read

----------------------------------------------------------------------------
(* The steps of the threads keep every key at home.                        *)

LEMMA HomesFrom ==
  ASSUME NEW H, OneHome(H), Filed(store'), \A d \in Stock(store') : Copies(d, H),
         \A u \in Threads : /\ Copies(th'[u].wb, H)
                            /\ Copies(th'[u].blob, H)
  PROVE  HomesInv'
<1>1. Filed(store)'
  BY DEF Filed, get_blob_from_key, convert_to_blob, perform_read
<1>2. Stock(store)' = Stock(store')
  BY DEF Stock, get_blob_from_key, convert_to_blob, perform_read
<1>3. \A d \in Held' : Copies(d, H)
  BY <1>2 DEF Held
<1>4. OneHome(Held')
  BY <1>3, HomesKept
<1>5. OneHome(Held)'
  BY <1>4 DEF OneHome, KeysApart
<1>. QED BY <1>1, <1>5 DEF HomesInv

LEMMA HeldCopies ==
  ASSUME HomesInv
  PROVE  /\ OneHome(Held) /\ Filed(store)
         /\ \A d \in Stock(store) : Copies(d, Held)
         /\ \A t \in Threads : /\ Copies(th[t].wb, Held)
                               /\ Copies(th[t].blob, Held)
         /\ UNCHANGED store => Filed(store') /\ \A d \in Stock(store') : Copies(d, Held)
<1>1. OneHome(Held) /\ Filed(store)
  BY DEF HomesInv
<1>2. \A d \in Held : Copies(d, Held)
  BY <1>1, CopyOfCopy
<1>3. \A d \in Stock(store) : Copies(d, Held)
  BY <1>2 DEF Held
<1>4. \A t \in Threads : /\ Copies(th[t].wb, Held)
                         /\ Copies(th[t].blob, Held)
  BY <1>2 DEF Held
<1>. QED BY <1>1, <1>3, <1>4

\* One thread changes.
LEMMA ThreadHomes ==
  ASSUME NamesInv, HomesInv, NEW t \in Threads, NEW r, th' = [th EXCEPT ![t] = r],
         Copies(r.wb, Held), Copies(r.blob, Held),
         Filed(store'), \A d \in Stock(store') : Copies(d, Held)
  PROVE  HomesInv'
<1>1. \A u \in Threads : th'[u] = IF u = t THEN r ELSE th[u]
  BY DEF NamesInv
<1>2. \A u \in Threads : /\ Copies(th'[u].wb, Held)
                         /\ Copies(th'[u].blob, Held)
  BY <1>1, HeldCopies
<1>. QED BY <1>2, HeldCopies, HomesFrom

LEMMA ReadCopies ==
  ASSUME HomesInv, NEW t \in Threads, NEW k, NEW res \in ReadResults(t, k)
  PROVE  Copies(res.blob, Held)
<1>1. Copies(th[t].wb, Held) /\ Copies(ZeroBlob, Held)
  BY HeldCopies, EmptyCopies
<1>2. k \in DOMAIN store => Copies(get_blob_from_key(store, k), Held)
  BY HeldCopies DEF Stock
<1>. QED BY <1>1, <1>2 DEF ReadResults

LEMMA EndedHomes ==
  ASSUME NamesInv, HomesInv, NEW t \in Threads, NEW wb, Copies(wb, Held), End(t, wb),
         Filed(store'), \A d \in Stock(store') : Copies(d, Held)
  PROVE  HomesInv'
<1>1. PICK v \in {wb, ZeroBlob} : th' = [th EXCEPT ![t] = [IdleThread EXCEPT !.wb = v]]
  BY DEF End
<1>. DEFINE r == [IdleThread EXCEPT !.wb = v]
<1>2. r.wb = v /\ r.blob = NoBlob
  BY DEF IdleThread
<1>3. Copies(v, Held) /\ Copies(NoBlob, Held)
  BY EmptyCopies
<1>4. th' = [th EXCEPT ![t] = r]
  BY <1>1
<1>. HIDE DEF r
<1>. QED BY <1>2, <1>3, <1>4, ThreadHomes

LEMMA GoneHomes ==
  ASSUME HomesInv, Gone
  PROVE  HomesInv'
<1>1. \A u \in Threads : th'[u].wb = ZeroBlob /\ th'[u].blob = NoBlob
  BY DEF Gone, IdleThread
<1>2. UNCHANGED store
  BY DEF Gone
<1>. QED BY <1>1, <1>2, HeldCopies, EmptyCopies, HomesFrom

LEMMA GivenUpHomes ==
  ASSUME NamesInv, HomesInv, NEW t \in Threads, NEW err, GiveUp(t, err)
  PROVE  HomesInv'
BY HeldCopies, EndedHomes DEF GiveUp, Answer

LEMMA AnswerHomes ==
  ASSUME NamesInv, HomesInv, NEW t \in Threads, NEW r \in Requests, AnswerAtOnce(t, r)
  PROVE  HomesInv'
<1>1. UNCHANGED store
  BY DEF AnswerAtOnce
<1>2. CASE th' = th
  BY <1>1, <1>2, HeldCopies, HomesFrom
<1>3. ASSUME NEW res \in ReadResults(t, root_id), End(t, res.blob)
      PROVE  HomesInv'
  BY <1>1, <1>3, ReadCopies, HeldCopies, EndedHomes
<1>. QED BY <1>2, <1>3 DEF AnswerAtOnce

\* A thread that only looks around holds what it held or what it read.
LEMMA LookingHomes ==
  ASSUME NamesInv, HomesInv, NEW t \in Threads, NEW new, th' = [th EXCEPT ![t] = new],
         UNCHANGED store,
         new.wb = th[t].wb \/ Copies(new.wb, Held),
         new.blob \in {th[t].blob, NoBlob} \/ Copies(new.blob, Held)
  PROVE  HomesInv'
BY HeldCopies, EmptyCopies, ThreadHomes

LEMMA BeginHomes ==
  ASSUME NamesInv, HomesInv, NEW t \in Threads, NEW r \in Requests, Begin(t, r)
  PROVE  HomesInv'
<1>1. PICK res \in ReadResults(t, root_id) :
        th' = [th EXCEPT ![t] = [@ EXCEPT !.pc = "split", !.req = r,
                                          !.left = get_fn_dir(r.path).dir,
                                          !.blob = res.blob, !.wb = res.blob,
                                          !.since = faults]]
  BY DEF Begin
<1>. DEFINE new == [th[t] EXCEPT !.pc = "split", !.req = r, !.left = get_fn_dir(r.path).dir,
                                 !.blob = res.blob, !.wb = res.blob, !.since = faults]
<1>2. th' = [th EXCEPT ![t] = new]
  BY <1>1 DEF NamesInv
<1>3. new.wb = res.blob /\ new.blob = res.blob
  BY DEF NamesInv, Holds, Fields
<1>4. UNCHANGED store
  BY DEF Begin
<1>. HIDE DEF new
<1>. QED BY <1>2, <1>3, <1>4, ReadCopies, LookingHomes

LEMMA FollowHomes ==
  ASSUME NamesInv, HomesInv, NEW t \in Threads, NEW s, Follow(t, s)
  PROVE  HomesInv'
<1>. DEFINE r0 == th[t]
<1>1. DOMAIN r0 = Fields /\ UNCHANGED store
  BY DEF NamesInv, Holds, Follow
<1>2. \E new : /\ th' = [th EXCEPT ![t] = new]
               /\ new.wb = r0.wb /\ new.blob \in {r0.blob, NoBlob}
  <2>1. CASE s = Root
    <3>. DEFINE new == [r0 EXCEPT !.pc = "arrived", !.left = Root, !.rest = Root]
    <3>1. th' = [th EXCEPT ![t] = new]
      BY <2>1 DEF Follow
    <3>2. new.wb = r0.wb /\ new.blob = r0.blob
      BY <1>1 DEF Fields
    <3>. QED BY <3>1, <3>2
  <2>2. CASE s # Root /\ has_path(r0.blob, Head(s))
    <3>. DEFINE new == [r0 EXCEPT !.pc = "enter", !.key = get_inode_from_path(r0.blob, Head(s)),
                                  !.left = Behind(r0.left), !.rest = Root]
    <3>1. th' = [th EXCEPT ![t] = new]
      BY <2>2 DEF Follow
    <3>2. new.wb = r0.wb /\ new.blob = r0.blob
      BY <1>1 DEF Fields
    <3>. QED BY <3>1, <3>2
  <2>3. CASE s # Root /\ ~ has_path(r0.blob, Head(s))
    <3>. DEFINE new == [r0 EXCEPT !.pc = "arrived", !.blob = NoBlob, !.left = Root, !.rest = Root]
    <3>1. th' = [th EXCEPT ![t] = new]
      BY <2>3 DEF Follow
    <3>2. new.wb = r0.wb /\ new.blob = NoBlob
      BY <1>1 DEF Fields
    <3>. QED BY <3>1, <3>2
  <2>. QED BY <2>1, <2>2, <2>3
<1>. QED BY <1>1, <1>2, LookingHomes

LEMMA LoadHomes ==
  ASSUME NamesInv, HomesInv, NEW t \in Threads, Load(t)
  PROVE  HomesInv'
<1>. DEFINE new == [th[t] EXCEPT !.pc = "take", !.rest = saved]
<1>1. th' = [th EXCEPT ![t] = new] /\ UNCHANGED store
  BY DEF Load
<1>2. new.wb = th[t].wb /\ new.blob = th[t].blob
  BY DEF NamesInv, Holds, Fields
<1>. HIDE DEF new
<1>. QED BY <1>1, <1>2, LookingHomes

LEMMA EnterHomes ==
  ASSUME NamesInv, HomesInv, NEW t \in Threads, Enter1(t)
  PROVE  HomesInv'
<1>1. PICK res \in ReadResults(t, th[t].key) :
        th' = [th EXCEPT ![t] = [th[t] EXCEPT !.pc = "token", !.key = NULL,
                                              !.blob = res.blob, !.wb = res.blob]]
  BY DEF Enter1
<1>. DEFINE new == [th[t] EXCEPT !.pc = "token", !.key = NULL,
                                 !.blob = res.blob, !.wb = res.blob]
<1>2. th' = [th EXCEPT ![t] = new] /\ UNCHANGED store
  BY <1>1 DEF Enter1
<1>3. new.wb = res.blob /\ new.blob = res.blob
  BY DEF NamesInv, Holds, Fields
<1>. HIDE DEF new
<1>. QED BY <1>2, <1>3, ReadCopies, LookingHomes

LEMMA LookHomes ==
  ASSUME NamesInv, HomesInv, NEW t \in Threads, Look(t)
  PROVE  HomesInv'
<1>1. CASE GiveUp(t, EarlyReturn(t))
  BY <1>1, GivenUpHomes
<1>2. ASSUME NEW res \in ReadResults(t, EntryKey(t)), End(t, res.blob), UNCHANGED store
      PROVE  HomesInv'
  BY <1>2, ReadCopies, HeldCopies, EndedHomes
<1>. QED BY <1>1, <1>2 DEF Look

LEMMA WriteHomes ==
  ASSUME NamesInv, HomesInv, NEW t \in Threads, Write(t)
  PROVE  HomesInv'
<1>1. CASE GiveUp(t, "ENOENT")
  BY <1>1, GivenUpHomes
<1>2. ASSUME NEW res \in ReadResults(t, EntryKey(t)),
             th' = [th EXCEPT ![t] = [th[t] EXCEPT !.pc = "second", !.wb = res.blob,
                              !.blob = [res.blob EXCEPT !.data = Kept(th[t].req.buf)]]],
             UNCHANGED store
      PROVE  HomesInv'
  <2>. DEFINE b   == [res.blob EXCEPT !.data = Kept(th[t].req.buf)]
              new == [th[t] EXCEPT !.pc = "second", !.wb = res.blob, !.blob = b]
  <2>1. NameBlob(res.blob) /\ Copies(res.blob, Held)
    BY ReadNames, ReadCopies
  <2>2. b.sub_items = res.blob.sub_items /\ b.inodeid = res.blob.inodeid
    BY <2>1 DEF NameBlob, IsBlob
  <2>. HIDE DEF b
  <2>3. Copies(b, Held)
    BY <2>1, <2>2, HeldCopies, CopyOfCopy
  <2>4. new.wb = res.blob /\ new.blob = b
    BY DEF NamesInv, Holds, Fields
  <2>5. th' = [th EXCEPT ![t] = new]
    BY <1>2 DEF b
  <2>. HIDE DEF new
  <2>. QED BY <1>2, <2>1, <2>3, <2>4, <2>5, LookingHomes
<1>. QED BY <1>1, <1>2 DEF Write

LEMMA RemoveHomes ==
  ASSUME NamesInv, HomesInv, NEW t \in Threads, RemoveName(t)
  PROVE  HomesInv'
<1>1. CASE GiveUp(t, "OK")
  BY <1>1, GivenUpHomes
<1>2. CASE /\ ~ DirIsMissing(t) /\ EntryKey(t) # NULL
           /\ FirstOfTwo(t, perform_delete(store, EntryKey(t)),
                         remove_inode_from_path(th[t].blob, Name(t)))
  <2>. DEFINE b   == remove_inode_from_path(th[t].blob, Name(t))
              new == [th[t] EXCEPT !.pc = "second", !.blob = b]
  <2>1. th[t].blob \in Held /\ NameBlob(th[t].blob)
    BY <1>2 DEF DirIsMissing, Held, NamesInv, Holds
  <2>2. Copies(b, Held)
    BY <1>2, <2>1, HeldCopies, RemovedCopies DEF EntryKey
  <2>. HIDE DEF b
  <2>3. th' = [th EXCEPT ![t] = new]
    BY <1>2 DEF FirstOfTwo, b
  <2>4. new.wb = th[t].wb /\ new.blob = b
    BY DEF NamesInv, Holds, Fields
  <2>5. store' = store \/ store' = perform_delete(store, EntryKey(t))
    BY <1>2 DEF FirstOfTwo, Changes
  <2>6. Filed(store') /\ \A d \in Stock(store') : Copies(d, Held)
    BY <2>5, HeldCopies, StockDeleted
  <2>7. Copies(new.wb, Held) /\ Copies(new.blob, Held)
    BY <2>2, <2>4, HeldCopies
  <2>. HIDE DEF new
  <2>. QED BY <2>3, <2>6, <2>7, ThreadHomes
<1>. QED BY <1>1, <1>2 DEF RemoveName

LEMMA SecondHomes ==
  ASSUME NamesInv, HomesInv, NEW t \in Threads, Second(t)
  PROVE  HomesInv'
<1>1. NameBlob(th[t].blob)
  BY DEF NamesInv, Holds
<1>2. Copies(th[t].blob, Held)
  BY HeldCopies
<1>3. End(t, th[t].wb) /\ Copies(th[t].wb, Held)
  BY HeldCopies DEF Second
<1>4. CASE UNCHANGED store
  BY <1>3, <1>4, HeldCopies, EndedHomes
<1>5. CASE store' = write_to_dict(store, th[t].blob.inodeid, th[t].blob)
  <2>1. Filed(store') /\ \A d \in Stock(store') : Copies(d, Held)
    BY <1>1, <1>2, <1>5, HeldCopies, StockWritten
  <2>. QED BY <1>3, <2>1, EndedHomes
<1>. QED BY <1>4, <1>5 DEF Second, Changes, Stored1

\* A key that is not in use is in no entry anywhere.
LEMMA FreshEverywhere ==
  ASSUME NamesInv, NEW id, id \notin InUse
  PROVE  \A c \in Held : \A i \in 1..Len(c.sub_items) : c.sub_items[i].inodeid # id
<1>1. ASSUME NEW c, id \notin KeysOf(c), c.sub_items \in Seq(Item)
      PROVE  \A i \in 1..Len(c.sub_items) : c.sub_items[i].inodeid # id
  <2>1. \A i \in 1..Len(c.sub_items) : c.sub_items[i] \in Range(c.sub_items)
    BY <1>1 DEF Range
  <2>. QED BY <1>1, <2>1 DEF KeysOf
<1>2. ASSUME NEW c \in Held
      PROVE  id \notin KeysOf(c) /\ c.sub_items \in Seq(Item)
  <2>1. CASE c \in Stock(store)
    <3>1. PICK k \in DOMAIN store : c = get_blob_from_key(store, k)
      BY <2>1 DEF Stock
    <3>2. Blobs[k] = c
      BY <3>1 DEF Blobs
    <3>3. id \notin KeysOf(Blobs[k])
      BY DEF InUse
    <3>. QED BY <3>1, <3>2, <3>3 DEF NamesInv, Device, NameBlob, Distinct
  <2>2. ASSUME NEW t \in Threads, c \in {th[t].wb, th[t].blob}
        PROVE  id \notin KeysOf(c) /\ c.sub_items \in Seq(Item)
    <3>1. id \notin KeysIn(t)
      BY DEF InUse
    <3>2. th[t].wb.sub_items \in Seq(Item) /\ th[t].blob.sub_items \in Seq(Item)
      BY DEF NamesInv, Holds, NameBlob, Distinct
    <3>. QED BY <2>2, <3>1, <3>2 DEF KeysIn
  <2>. QED BY <2>1, <2>2 DEF Held
<1>. QED BY <1>1, <1>2

LEMMA AppendedBlob ==
  ASSUME NEW b, NameBlob(b), NEW item
  PROVE  LET d == [b EXCEPT !.sub_items = Append(@, item)]
         IN  d.inodeid = b.inodeid /\ d.sub_items = Append(b.sub_items, item) /\ IsBlob(d)
<1>. DEFINE items == Append(b.sub_items, item)
            d     == [b EXCEPT !.sub_items = items]
<1>. HIDE DEF items
<1>1. d.inodeid = b.inodeid /\ d.sub_items = items /\ IsBlob(d)
  BY DEF NameBlob, IsBlob
<1>. QED BY <1>1 DEF items

\* The one step that draws a key: the entry with it has one home, the
\* directory it is appended to.
LEMMA AddHomes ==
  ASSUME NamesInv, HomesInv, NEW t \in Threads, AddName(t)
  PROVE  HomesInv'
<1>1. CASE \E err : GiveUp(t, err)
  BY <1>1, GivenUpHomes
<1>2. CASE Gone
  BY <1>2, GoneHomes
<1>3. ASSUME NEW id \in Fresh, ~ DirIsMissing(t), ~ has_path(th[t].blob, Name(t)),
             NEW isd \in BOOLEAN,
             NEW new \in {EmptyDir(id), EmptyFile(id)},
             FirstOfTwo(t, insert_item_into_blob(store, th[t].blob, Name(t), isd, id), new)
      PROVE  HomesInv'
  <2>. DEFINE b    == th[t].blob
              item == [item_path |-> Name(t), inodeid |-> id, is_dir |-> isd]
              d    == [b EXCEPT !.sub_items = Append(@, item)]
              H    == Held \cup {d}
              r    == [th[t] EXCEPT !.pc = "second", !.blob = new]
  <2>1. b \in Held /\ NameBlob(b) /\ b.sub_items \in Seq(Item)
    BY <1>3 DEF DirIsMissing, Held, NamesInv, Holds, NameBlob, Distinct
  <2>2. Name(t) \in Names
    BY NameIsName DEF AddName, Arrived, At, Busy
  <2>3. id \in Ids /\ id \notin InUse
    BY DEF Fresh, get_random_num
  <2>4. item \in Item /\ item.inodeid = id
    BY <2>2, <2>3 DEF Item
  <2>5. \A c \in Held : \A i \in 1..Len(c.sub_items) : c.sub_items[i].inodeid # id
    BY <2>3, FreshEverywhere
  <2>6. d.inodeid = b.inodeid /\ d.sub_items = Append(b.sub_items, item) /\ IsBlob(d)
    <3>. HIDE DEF b, item
    <3>. QED BY <2>1, AppendedBlob
  <2>7. OneHome(H)
    <3>. HIDE DEF b, d, item
    <3>. QED BY <2>1, <2>4, <2>5, <2>6, HeldCopies, HomeOfNew
  <2>8. \A e \in H : Copies(e, H)
    BY <2>7, CopyOfCopy
  <2>9. NameBlob(d)
    <3>1. \A j \in 1..Len(b.sub_items) : b.sub_items[j].item_path # Name(t)
      BY <1>3, <2>1, PositionFound DEF has_path
    <3>2. item.item_path = Name(t)
      OBVIOUS
    <3>3. Distinct(Append(b.sub_items, item))
      <4>. HIDE DEF b, item
      <4>. QED BY <2>1, <2>4, <3>1, <3>2 DEF NameBlob, Distinct
    <3>. QED BY <2>6, <3>3 DEF NameBlob
  <2>10. insert_item_into_blob(store, b, Name(t), isd, id) = write_to_dict(store, d.inodeid, d)
    BY <1>3, <2>6 DEF insert_item_into_blob
  <2>11. th' = [th EXCEPT ![t] = r] /\ r.wb = th[t].wb /\ r.blob = new
    BY <1>3 DEF FirstOfTwo, NamesInv, Holds, Fields
  <2>12. store' = store \/ store' = write_to_dict(store, d.inodeid, d)
    BY <1>3, <2>10 DEF FirstOfTwo, Changes
  <2>13. Filed(store) /\ \A e \in Stock(store) : e \in Held
    BY HeldCopies DEF Held
  <2>. HIDE DEF b, d, r
  <2>14. Filed(store') /\ \A e \in Stock(store') : Copies(e, H)
    <3>. HIDE DEF H
    <3>1. \A e \in Stock(store) : Copies(e, H)
      BY <2>8, <2>13 DEF H
    <3>2. Copies(d, H)
      BY <2>8 DEF H
    <3>. QED BY <2>7, <2>9, <2>12, <2>13, <3>1, <3>2, StockWritten
  <2>15. \A u \in Threads : /\ Copies(th'[u].wb, H)
                            /\ Copies(th'[u].blob, H)
    <3>1. \A u \in Threads : th[u].wb \in H /\ th[u].blob \in H
      BY DEF Held
    <3>2. Copies(new, H)
      BY EmptyCopies
    <3>3. \A u \in Threads : th'[u] = IF u = t THEN r ELSE th[u]
      BY <2>11 DEF NamesInv
    <3>. HIDE DEF H
    <3>. QED BY <2>8, <2>11, <3>1, <3>2, <3>3
  <2>. HIDE DEF H
  <2>. QED BY <2>7, <2>14, <2>15, HomesFrom
<1>. QED BY <1>1, <1>2, <1>3 DEF AddName

LEMMA MountHomes ==
  ASSUME NamesInv, HomesInv, Mount
  PROVE  HomesInv'
<1>1. Filed(set_up_ssd) /\ Stock(set_up_ssd) = {}
  BY DEF Filed, Stock, set_up_ssd
<1>2. EmptyDir(root_id).inodeid = root_id
  BY DEF EmptyDir
<1>3. Filed(store') /\ \A d \in Stock(store') : Copies(d, Held)
  BY <1>1, <1>2, EmptyNames, EmptyCopies, HeldCopies, StockWritten DEF Mount, write_root
<1>. QED BY <1>3, HeldCopies, HomesFrom DEF Mount

LEMMA StartHomes == CallsInit => HomesInv
<1>1. ASSUME CallsInit
      PROVE  HomesInv
  <2>1. Filed(store) /\ Stock(store) = {}
    BY <1>1 DEF CallsInit, Init, Filed, Stock, set_up_ssd
  <2>2. \A t \in Threads : th[t].wb = ZeroBlob /\ th[t].blob = NoBlob
    BY <1>1 DEF CallsInit, IdleThread
  <2>3. \A b \in Held : b = ZeroBlob \/ b = NoBlob
    BY <2>1, <2>2 DEF Held
  <2>4. 1..Len(ZeroBlob.sub_items) = {} /\ 1..Len(NoBlob.sub_items) = {}
    BY DEF ZeroBlob, NoBlob
  <2>. QED BY <2>1, <2>3, <2>4 DEF HomesInv, OneHome, KeysApart
<1>. QED BY <1>1

LEMMA StepHomes ==
  ASSUME NamesInv, HomesInv, NEW t \in Threads, Step(t)
  PROVE  HomesInv'
<1>1. CASE Split(t)
  BY <1>1, FollowHomes DEF Split
<1>2. CASE Take(t)
  BY <1>2, FollowHomes DEF Take
<1>. QED BY <1>1, <1>2, LoadHomes, EnterHomes, AddHomes, RemoveHomes, WriteHomes,
            LookHomes, SecondHomes DEF Step

LEMMA HomesInvariant == CallsSpec => []HomesInv
<1>1. NamesInv /\ HomesInv /\ CallsNext => HomesInv'
  <2>. SUFFICES ASSUME NamesInv, HomesInv, CallsNext PROVE HomesInv'
    OBVIOUS
  <2>1. CASE Kill
    BY <2>1, GoneHomes DEF Kill
  <2>. QED BY <2>1, MountHomes, StepHomes, AnswerHomes, BeginHomes DEF CallsNext
<1>2. HomesInv /\ UNCHANGED callVars => HomesInv'
  BY DEF callVars, HomesInv, Held
<1>. QED BY <1>1, <1>2, StartHomes, NamesInvariant, PTL DEF CallsSpec

\* However the calls of the threads interleave, whichever fail, and whatever a
\* failed read leaves in a handler's hands to be stored again: no blob ever has
\* two entries, so no path ever leads into another one's file (main.c, blob.c).
THEOREM ParentsStaySingle == CallsSpec => []SingleParent
<1>1. HomesInv => SingleParent
  <2>. SUFFICES ASSUME HomesInv, NEW k1 \in DOMAIN store, NEW k2 \in DOMAIN store,
                       NEW i \in 1..Len(Blobs[k1].sub_items),
                       NEW j \in 1..Len(Blobs[k2].sub_items),
                       Blobs[k1].sub_items[i].inodeid = Blobs[k2].sub_items[j].inodeid
                PROVE  k1 = k2 /\ i = j
    BY DEF SingleParent
  <2>1. \A k \in DOMAIN store : Blobs[k] \in Held /\ Blobs[k].inodeid = k
    BY DEF HomesInv, Filed, Blobs, Held, Stock
  <2>2. Blobs[k1].inodeid = Blobs[k2].inodeid
    BY <2>1 DEF HomesInv, OneHome
  <2>3. k1 = k2
    BY <2>1, <2>2
  <2>. QED BY <2>1, <2>3 DEF HomesInv, OneHome, KeysApart
<1>. QED BY <1>1, HomesInvariant, PTL

----------------------------------------------------------------------------
(* RemovalSticks, for one thread, any requests and any number of failing   *)
(* device calls.                                                           *)
(*                                                                         *)
(* What earlier failures left behind may lead a walk astray without a call *)
(* failing now: at an entry whose blob is gone, the handler goes on in the *)
(* blob it read before.  The invariant says what its hands hold for each   *)
(* place in the path; a removal only ever takes lookups away, so where the *)
(* path leads afterwards it led before.                                    *)

----------------------------------------------------------------------------
(* The walk of KeyAt.                                                      *)

\* One step of it.
Onward(s, k, name) ==
  IF k \in DOMAIN s THEN get_inode_from_path(get_blob_from_key(s, k), name) ELSE NULL

Ends == Keys \cup {NULL}

LEMMA OnwardEnds ==
  ASSUME NEW s, Device(s), NEW k, NEW name
  PROVE  Onward(s, k, name) \in Ends /\ Onward(s, k, name) # root_id
<1>1. CASE k \in DOMAIN s
  <2>. DEFINE b == get_blob_from_key(s, k)
  <2>1. b.sub_items \in Seq(Item)
    BY <1>1 DEF Device, NameBlob, Distinct
  <2>2. Onward(s, k, name) = get_inode_from_path(b, name)
    BY <1>1 DEF Onward
  <2>. HIDE DEF b
  <2>3. get_inode_from_path(b, name) \in Ids \cup {NULL}
    BY <2>1, InodeOfEntry
  <2>. QED BY <2>2, <2>3, BlobAssumption DEF Ends, Keys
<1>2. CASE k \notin DOMAIN s
  BY <1>2, BlobAssumption DEF Onward, Ends, Keys
<1>. QED BY <1>1, <1>2

\* The equation that defines the walk has a solution: there is no shortest
\* path without one.
LEMMA KeysExist ==
  ASSUME NEW s, Device(s), NEW path, Len(path) \in Nat
  PROVE  \E f \in [0..Len(path) -> Ends] :
            \A i \in 0..Len(path) :
               f[i] = IF i = 0 THEN root_id ELSE Onward(s, f[i-1], path[i])
<1>. DEFINE Walk(n, f) ==
              \A i \in 0..n : f[i] = IF i = 0 THEN root_id ELSE Onward(s, f[i-1], path[i])
            Has(n) == \E f \in [0..n -> Ends] : Walk(n, f)
            Lacking == {n \in Nat : ~ Has(n)}
<1>1. SUFFICES Lacking = {}
  BY Zenon
<1>2. SUFFICES ASSUME Lacking # {}
               PROVE  FALSE
  OBVIOUS
<1>3. PICK n \in Lacking : \A m \in Lacking : n <= m
  BY <1>2, LeastNumber
<1>4. Has(0)
  <2>. DEFINE f == [i \in 0..0 |-> root_id]
  <2>1. f \in [0..0 -> Ends]
    BY DEF Ends, Keys
  <2>2. Walk(0, f)
    OBVIOUS
  <2>. QED BY <2>1, <2>2
<1>5. n \in Nat /\ n # 0 /\ n - 1 \in Nat /\ Has(n - 1)
  <2>. HIDE DEF Has
  <2>1. n \in Nat /\ n # 0 /\ n - 1 \in Nat
    BY <1>3, <1>4
  <2>2. n - 1 \notin Lacking
    BY <2>1, <1>3
  <2>. QED BY <2>1, <2>2
<1>6. PICK g \in [0..(n-1) -> Ends] : Walk(n-1, g)
  BY <1>5
<1>. DEFINE f == [i \in 0..n |-> IF i = n THEN Onward(s, g[n-1], path[n]) ELSE g[i]]
<1>7. f \in [0..n -> Ends]
  <2>1. Onward(s, g[n-1], path[n]) \in Ends
    BY OnwardEnds
  <2>. QED BY <2>1, <1>5
<1>8. Walk(n, f)
  BY <1>5, <1>6
<1>9. Has(n)
  BY <1>7, <1>8
<1>. QED BY <1>3, <1>9

\* KeyAt is the end of the solution that its equation picks.
LEMMA KeyAtSolves ==
  ASSUME NEW s, Device(s), NEW path, Len(path) \in Nat
  PROVE  \E w : /\ KeyAt(s, path) = w[Len(path)]
                /\ \A i \in 0..Len(path) :
                     w[i] = IF i = 0 THEN root_id ELSE Onward(s, w[i-1], path[i])
<1>. DEFINE Solves(f) ==
       f = [i \in 0..Len(path) |->
              IF i = 0 THEN root_id
              ELSE IF f[i-1] \in DOMAIN s
                   THEN get_inode_from_path(get_blob_from_key(s, f[i-1]), path[i]) ELSE NULL]
            w == CHOOSE f : Solves(f)
<1>1. PICK g \in [0..Len(path) -> Ends] :
            \A i \in 0..Len(path) :
               g[i] = IF i = 0 THEN root_id ELSE Onward(s, g[i-1], path[i])
  BY KeysExist
<1>2. Solves(g)
  BY <1>1 DEF Onward
<1>3. Solves(w)
  BY <1>2
<1>4. KeyAt(s, path) = w[Len(path)]
  BY DEF KeyAt
<1>. HIDE DEF w
<1>5. \A i \in 0..Len(path) :
         w[i] = IF i = 0 THEN root_id ELSE Onward(s, w[i-1], path[i])
  BY <1>3 DEF Onward
<1>. QED BY <1>4, <1>5

LEMMA KeyOfRoot ==
  ASSUME NEW s, Device(s)
  PROVE  KeyAt(s, << >>) = root_id
<1>1. Len(<< >>) = 0 /\ Len(<< >>) \in Nat /\ 0 \in 0..0
  OBVIOUS
<1>2. PICK w : /\ KeyAt(s, << >>) = w[Len(<< >>)]
               /\ \A i \in 0..Len(<< >>) :
                    w[i] = IF i = 0 THEN root_id ELSE Onward(s, w[i-1], << >>[i])
  BY <1>1, KeyAtSolves
<1>. QED BY <1>1, <1>2

\* The key at a path is one step on from the key at its directory.
LEMMA KeyExtends ==
  ASSUME NEW s, Device(s), NEW Elems, NEW path \in Seq(Elems), path # << >>
  PROVE  KeyAt(s, path) = Onward(s, KeyAt(s, Front(path)), Last(path))
<1>. DEFINE n == Len(path)
<1>1. /\ n \in Nat /\ n # 0 /\ n - 1 \in Nat
      /\ Front(path) \in Seq(Elems) /\ Len(Front(path)) = n - 1
      /\ \A i \in 1..(n-1) : Front(path)[i] = path[i]
      /\ Last(path) = path[n]
  BY FrontLast
<1>. HIDE DEF n
<1>2. PICK v : /\ KeyAt(s, path) = v[n]
               /\ \A i \in 0..n : v[i] = IF i = 0 THEN root_id ELSE Onward(s, v[i-1], path[i])
  BY <1>1, KeyAtSolves DEF n
<1>3. PICK w : /\ KeyAt(s, Front(path)) = w[n-1]
               /\ \A i \in 0..(n-1) :
                    w[i] = IF i = 0 THEN root_id ELSE Onward(s, w[i-1], Front(path)[i])
  BY <1>1, KeyAtSolves
<1>. DEFINE Differ == {i \in 0..(n-1) : v[i] # w[i]}
<1>4. ASSUME Differ # {}
      PROVE  FALSE
  <2>. Differ \in SUBSET Nat
    OBVIOUS
  <2>1. PICK m \in Differ : \A i \in Differ : m <= i
    <3>. HIDE DEF Differ
    <3>. QED BY <1>4, LeastNumber
  <2>2. m # 0 /\ m - 1 \in 0..(n-1) /\ m - 1 \notin Differ
    BY <2>1, <1>1, <1>2, <1>3
  <2>. QED BY <2>1, <2>2, <1>1, <1>2, <1>3
<1>5. v[n-1] = w[n-1]
  <2>1. n - 1 \in 0..(n-1)
    BY <1>1
  <2>. QED BY <1>4, <2>1
<1>6. v[n] = Onward(s, v[n-1], path[n])
  BY <1>1, <1>2
<1>. QED BY <1>1, <1>2, <1>3, <1>5, <1>6

LEMMA Appended ==
  ASSUME NEW Elems, NEW q \in Seq(Elems), NEW x \in Elems
  PROVE  /\ Append(q, x) \in Seq(Elems) /\ Append(q, x) # << >>
         /\ Front(Append(q, x)) = q /\ Last(Append(q, x)) = x
<1>. DEFINE p == Append(q, x)
<1>1. /\ p \in Seq(Elems) /\ Len(q) \in Nat /\ Len(p) = Len(q) + 1 /\ p # << >>
      /\ p[Len(q) + 1] = x /\ \A i \in 1..Len(q) : p[i] = q[i]
  OBVIOUS
<1>. HIDE DEF p
<1>2. /\ Front(p) \in Seq(Elems) /\ Len(Front(p)) = Len(p) - 1
      /\ \A i \in 1..(Len(p) - 1) : Front(p)[i] = p[i]
      /\ Last(p) = p[Len(p)]
  BY <1>1, FrontLast
<1>3. Len(Front(p)) = Len(q) /\ \A i \in 1..Len(q) : Front(p)[i] = q[i]
  BY <1>1, <1>2
<1>4. Front(p) = q
  BY <1>2, <1>3, SeqEqual
<1>. QED BY <1>1, <1>2, <1>4 DEF p

\* A path's first component joins the part in front of it.
LEMMA Moved ==
  ASSUME NEW Elems, NEW q \in Seq(Elems), NEW l \in Seq(Elems), l # << >>
  PROVE  /\ Head(l) \in Elems /\ Tail(l) \in Seq(Elems)
         /\ Append(q, Head(l)) \o Tail(l) = q \o l
<1>1. Head(l) \in Elems /\ Tail(l) \in Seq(Elems)
  OBVIOUS
<1>2. Append(q, Head(l)) \o Tail(l) \in Seq(Elems) /\ q \o l \in Seq(Elems)
  BY <1>1
<1>3. Len(Append(q, Head(l)) \o Tail(l)) = Len(q \o l)
  BY <1>1
<1>4. \A i \in 1..Len(q \o l) : (Append(q, Head(l)) \o Tail(l))[i] = (q \o l)[i]
  BY <1>1
<1>. QED BY <1>1, <1>2, <1>3, <1>4, SeqEqual

LEMMA FrontOfJoined ==
  ASSUME NEW Elems, NEW q \in Seq(Elems), NEW l \in Seq(Elems), l # << >>
  PROVE  /\ q \o l \in Seq(Elems) /\ q \o l # << >>
         /\ Front(q \o l) = q \o Front(l) /\ Last(q \o l) = Last(l)
<1>. DEFINE p == q \o l
<1>1. /\ Len(l) \in Nat /\ Len(l) # 0 /\ Front(l) \in Seq(Elems) /\ Len(Front(l)) = Len(l) - 1
      /\ \A i \in 1..(Len(l) - 1) : Front(l)[i] = l[i]
      /\ Last(l) = l[Len(l)]
  BY FrontLast
<1>2. p \in Seq(Elems) /\ Len(q) \in Nat /\ Len(p) = Len(q) + Len(l)
      /\ \A i \in 1..Len(p) : p[i] = IF i <= Len(q) THEN q[i] ELSE l[i - Len(q)]
  BY <1>1
<1>. HIDE DEF p
<1>3. p # << >>
  BY <1>1, <1>2
<1>4. /\ Front(p) \in Seq(Elems) /\ Len(Front(p)) = Len(p) - 1
      /\ \A i \in 1..(Len(p) - 1) : Front(p)[i] = p[i]
      /\ Last(p) = p[Len(p)]
  BY <1>2, <1>3, FrontLast
<1>5. /\ q \o Front(l) \in Seq(Elems) /\ Len(q \o Front(l)) = Len(p) - 1
      /\ \A i \in 1..(Len(p) - 1) :
           (q \o Front(l))[i] = IF i <= Len(q) THEN q[i] ELSE Front(l)[i - Len(q)]
  <2>. DEFINE f == Front(l)
  <2>. HIDE DEF f
  <2>1. f \in Seq(Elems) /\ Len(f) = Len(l) - 1
    BY <1>1 DEF f
  <2>2. /\ q \o f \in Seq(Elems) /\ Len(q \o f) = Len(q) + Len(f)
        /\ \A i \in 1..(Len(q) + Len(f)) :
             (q \o f)[i] = IF i <= Len(q) THEN q[i] ELSE f[i - Len(q)]
    BY <2>1
  <2>3. Len(q) + Len(f) = Len(p) - 1
    BY <1>1, <1>2, <2>1
  <2>. QED BY <2>2, <2>3 DEF f
<1>6. \A i \in 1..(Len(p) - 1) : (q \o Front(l))[i] = Front(p)[i]
  <2>1. ASSUME NEW i \in 1..(Len(p) - 1)
        PROVE  (q \o Front(l))[i] = Front(p)[i]
    <3>1. i \in 1..Len(p) /\ Front(p)[i] = p[i]
      BY <1>1, <1>2, <1>4
    <3>2. CASE i <= Len(q)
      BY <1>2, <1>5, <3>1, <3>2
    <3>3. CASE ~ (i <= Len(q))
      <4>1. i - Len(q) \in 1..(Len(l) - 1)
        BY <1>1, <1>2, <3>3
      <4>. QED BY <1>1, <1>2, <1>5, <3>1, <3>3, <4>1
    <3>. QED BY <3>2, <3>3
  <2>. QED BY <2>1
<1>7. Front(p) = q \o Front(l)
  BY <1>4, <1>5, <1>6, SeqEqual
<1>8. Last(p) = Last(l)
  <2>1. Len(p) \in 1..Len(p) /\ ~ (Len(p) <= Len(q)) /\ Len(p) - Len(q) = Len(l)
    BY <1>1, <1>2
  <2>. QED BY <1>1, <1>2, <1>4, <2>1
<1>. QED BY <1>2, <1>3, <1>7, <1>8 DEF p

\* A walk that is lost stays lost.
LEMMA LostForGood ==
  ASSUME NEW s, Device(s), NULL \notin DOMAIN s, NEW q \in Seq(Names), KeyAt(s, q) \notin DOMAIN s
  PROVE  \A l \in Seq(Names) : KeyAt(s, q \o l) \notin DOMAIN s
<1>. DEFINE P == {l \in Seq(Names) : KeyAt(s, q \o l) \notin DOMAIN s}
<1>1. << >> \in P
  <2>1. q \o << >> = q
    OBVIOUS
  <2>. QED BY <2>1
<1>2. ASSUME NEW l \in Seq(Names), l # << >>, Front(l) \in P
      PROVE  l \in P
  <2>1. /\ q \o l \in Seq(Names) /\ q \o l # << >>
        /\ Front(q \o l) = q \o Front(l)
    BY <1>2, FrontOfJoined
  <2>2. KeyAt(s, q \o l) = Onward(s, KeyAt(s, q \o Front(l)), Last(q \o l))
    BY <2>1, KeyExtends
  <2>3. KeyAt(s, q \o l) = NULL
    BY <1>2, <2>2 DEF Onward
  <2>. QED BY <2>3
<1>. HIDE DEF P
<1>3. \A l \in Seq(Names) : l \in P
  BY <1>1, <1>2, PathInduction
<1>. QED BY <1>3 DEF P

\* Where lookups have only been taken away, what a path still leads to it led
\* to before.
LEMMA KeysOnTheWay ==
  ASSUME NEW s, Device(s), NEW u, Device(u), NULL \notin DOMAIN u,
         \A k \in DOMAIN u : /\ k \in DOMAIN s
                             /\ \A name : Onward(u, k, name) \in {Onward(s, k, name), NULL}
  PROVE  \A p \in Seq(Names) : KeyAt(u, p) \in DOMAIN u => KeyAt(u, p) = KeyAt(s, p)
<1>. DEFINE P == {p \in Seq(Names) : KeyAt(u, p) \in DOMAIN u => KeyAt(u, p) = KeyAt(s, p)}
<1>1. << >> \in P
  BY KeyOfRoot
<1>2. ASSUME NEW p \in Seq(Names), p # << >>, Front(p) \in P
      PROVE  p \in P
  <2>1. /\ KeyAt(u, p) = Onward(u, KeyAt(u, Front(p)), Last(p))
        /\ KeyAt(s, p) = Onward(s, KeyAt(s, Front(p)), Last(p))
    BY <1>2, KeyExtends
  <2>2. KeyAt(u, p) \in DOMAIN u => KeyAt(u, Front(p)) \in DOMAIN u
    BY <2>1 DEF Onward
  <2>3. KeyAt(u, Front(p)) \in DOMAIN u => KeyAt(u, Front(p)) = KeyAt(s, Front(p))
    BY <1>2
  <2>4. KeyAt(u, p) \in DOMAIN u => KeyAt(u, p) # NULL
    OBVIOUS
  <2>. QED BY <2>1, <2>2, <2>3, <2>4
<1>. HIDE DEF P
<1>3. \A p \in Seq(Names) : p \in P
  BY <1>1, <1>2, PathInduction
<1>. QED BY <1>3 DEF P

----------------------------------------------------------------------------
(* What the hands of a thread are worth.                                   *)

\* A blob that a handler stores has a key: hello_create and hello_mkdir give
\* up on the kind of one that has none.
Named(b) == b.inodeid # NULL \/ b.is_dir = 0

\* What a thread holds while the device is empty, since the root was not stored.
Bare(r) == /\ r.wb = ZeroBlob
           /\ IF r.pc = "second" THEN r.blob.inodeid = NULL ELSE r.blob \in {ZeroBlob, NoBlob}

Sane(r, s, n) ==
  /\ Named(r.wb) /\ (r.blob = NoBlob \/ Named(r.blob))
  /\ root_id \in DOMAIN s \/ Bare(r)
  /\ r.since \in Nat /\ r.since <= n

\* The device has no key "", and nothing but the root to begin with.
RootFirst(s) == NULL \notin DOMAIN s /\ (root_id \in DOMAIN s \/ DOMAIN s = {})

SaneInv == /\ RootFirst(store) /\ faults \in Nat
           /\ mounted \/ \A t \in Threads : th[t] = IdleThread
           /\ \A t \in Threads : Sane(th[t], store, faults)

\* The device keeps its root.
Onto(s, u) == RootFirst(u) /\ (root_id \in DOMAIN s => root_id \in DOMAIN u)

\* A thread goes on as new.
Becomes(t, new) == DOMAIN new = Fields /\ th' = [th EXCEPT ![t] = new]

LEMMA EmptySane ==
  ASSUME NEW s, NEW n \in Nat
  PROVE  /\ Named(ZeroBlob) /\ Bare(IdleThread) /\ Sane(IdleThread, s, n)
         /\ IdleThread.pc = "idle"
  BY DEF Sane, Named, Bare, IdleThread, ZeroBlob

LEMMA BecomesSane ==
  ASSUME NamesInv, SaneInv, NEW t \in Threads, NEW new, Becomes(t, new),
         mounted, Onto(store, store'), faults' \in Nat, faults <= faults',
         Sane(new, store', faults'), mounted'
  PROVE  SaneInv'
<1>1. \A u \in Threads : th'[u] = IF u = t THEN new ELSE th[u]
  BY DEF NamesInv, Becomes
<1>2. ASSUME NEW u \in Threads
      PROVE  Sane(th'[u], store', faults')
  BY <1>1 DEF SaneInv, Sane, Onto
<1>. QED BY <1>2 DEF SaneInv, Onto

LEMMA FaultsGrow ==
  ASSUME SaneInv, NEW n \in Nat, Fails(n)
  PROVE  faults' \in Nat /\ faults <= faults' /\ (n # 0 => faults < faults')
BY DEF SaneInv, Fails

LEMMA StaysOnto ==
  ASSUME SaneInv, UNCHANGED store
  PROVE  Onto(store, store')
BY DEF SaneInv, Onto

\* What is read has a key or is nothing, and while nothing is stored is nothing.
LEMMA ReadSane ==
  ASSUME NamesInv, HomesInv, SaneInv, NEW t \in Threads, NEW k, NEW res \in ReadResults(t, k)
  PROVE  /\ Named(res.blob) /\ (root_id \in DOMAIN store \/ res.blob = ZeroBlob)
         /\ res.failed \in {0, 1}
         /\ k \in DOMAIN store /\ res.failed = 0 => res.blob = get_blob_from_key(store, k)
         /\ res.blob \in Stock(store) \cup {th[t].wb, ZeroBlob}
<1>1. Named(th[t].wb) /\ (root_id \in DOMAIN store \/ th[t].wb = ZeroBlob)
  BY DEF SaneInv, Sane, Bare
<1>2. k \in DOMAIN store => /\ Named(get_blob_from_key(store, k)) /\ root_id \in DOMAIN store
                            /\ get_blob_from_key(store, k) \in Stock(store)
  BY DEF HomesInv, Filed, SaneInv, RootFirst, Named, Stock
<1>3. Named(ZeroBlob)
  BY DEF Named, ZeroBlob
<1>4. \/ /\ k \in DOMAIN store /\ res.failed = 0 /\ res.blob = get_blob_from_key(store, k)
      \/ res.failed = 1 /\ res.blob \in {th[t].wb, ZeroBlob}
      \/ k \notin DOMAIN store /\ res.failed = 0 /\ res.blob \in {th[t].wb, ZeroBlob}
  BY DEF ReadResults
<1>. QED BY <1>1, <1>2, <1>3, <1>4

\* The end of a request.
LEMMA EndedSane ==
  ASSUME NamesInv, SaneInv, NEW t \in Threads, NEW wb, End(t, wb), Named(wb),
         root_id \in DOMAIN store' \/ wb = ZeroBlob,
         mounted, mounted', Onto(store, store'), faults' \in Nat, faults <= faults'
  PROVE  SaneInv'
<1>1. PICK v \in {wb, ZeroBlob} : th' = [th EXCEPT ![t] = [IdleThread EXCEPT !.wb = v]]
  BY DEF End
<1>. DEFINE new == [IdleThread EXCEPT !.wb = v]
<1>2. /\ DOMAIN new = Fields
      /\ new.pc = "idle" /\ new.wb = v /\ new.blob = NoBlob /\ new.since = 0
  BY DEF IdleThread, Fields
<1>3. Becomes(t, new)
  BY <1>1, <1>2 DEF Becomes
<1>. HIDE DEF new
<1>4. Named(v) /\ (root_id \in DOMAIN store' \/ v = ZeroBlob)
  BY EmptySane
<1>5. Sane(new, store', faults')
  BY <1>2, <1>4 DEF Sane, Bare
<1>. QED BY <1>3, <1>5, BecomesSane

LEMMA GoneSane ==
  ASSUME SaneInv, Gone
  PROVE  SaneInv'
<1>1. \A u \in Threads : th'[u] = IdleThread
  BY DEF Gone
<1>2. UNCHANGED <<store, faults>> /\ faults \in Nat
  BY DEF Gone, SaneInv
<1>3. \A u \in Threads : Sane(th'[u], store', faults')
  BY <1>1, <1>2, EmptySane
<1>. QED BY <1>1, <1>2, <1>3 DEF SaneInv

LEMMA GivenUpSane ==
  ASSUME NamesInv, SaneInv, NEW t \in Threads, NEW err, GiveUp(t, err), mounted
  PROVE  SaneInv'
<1>1. End(t, th[t].wb) /\ UNCHANGED <<store, faults, mounted>>
  BY DEF GiveUp, Answer
<1>2. Named(th[t].wb) /\ (root_id \in DOMAIN store' \/ th[t].wb = ZeroBlob)
  BY <1>1 DEF SaneInv, Sane, Bare
<1>3. faults' \in Nat /\ faults <= faults'
  BY <1>1 DEF SaneInv
<1>. QED BY <1>1, <1>2, <1>3, StaysOnto, EndedSane

----------------------------------------------------------------------------
(* What a thread holds after each kind of step.                            *)

Unmoved == UNCHANGED <<store, mounted>>

LEMMA BeginShape ==
  ASSUME NamesInv, NEW t \in Threads, NEW r \in Requests, Begin(t, r)
  PROVE  /\ mounted /\ Unmoved /\ UNCHANGED mixed /\ ~ OnRoot(r)
         /\ \E new, res :
              /\ res \in ReadResults(t, root_id) /\ Fails(res.failed)
              /\ Becomes(t, new) /\ new.pc = "split" /\ new.req = r
              /\ new.left = Front(r.path)
              /\ new.blob = res.blob /\ new.wb = res.blob /\ new.since = faults
<1>1. PICK res \in ReadResults(t, root_id) :
        /\ Fails(res.failed)
        /\ th' = [th EXCEPT ![t] = [@ EXCEPT !.pc = "split", !.req = r,
                                          !.left = get_fn_dir(r.path).dir,
                                          !.blob = res.blob, !.wb = res.blob,
                                          !.since = faults]]
  BY DEF Begin
<1>. DEFINE new == [th[t] EXCEPT !.pc = "split", !.req = r, !.left = get_fn_dir(r.path).dir,
                                 !.blob = res.blob, !.wb = res.blob, !.since = faults]
<1>2. th' = [th EXCEPT ![t] = new]
  BY <1>1 DEF NamesInv
<1>3. /\ DOMAIN new = Fields /\ new.pc = "split" /\ new.req = r
      /\ new.left = get_fn_dir(r.path).dir
      /\ new.blob = res.blob /\ new.wb = res.blob /\ new.since = faults
  BY DEF NamesInv, Holds, Fields
<1>4. get_fn_dir(r.path).dir = Front(r.path)
  BY DEF get_fn_dir
<1>5. mounted /\ Unmoved /\ UNCHANGED mixed /\ ~ OnRoot(r)
  BY DEF Begin, Sent, At, Unmoved
<1>. HIDE DEF new
<1>. QED BY <1>1, <1>2, <1>3, <1>4, <1>5 DEF Becomes

LEMMA FollowShape ==
  ASSUME NamesInv, NEW t \in Threads, NEW s, Follow(t, s)
  PROVE  /\ Unmoved /\ UNCHANGED faults
         /\ \E new :
              /\ Becomes(t, new) /\ new.req = th[t].req
              /\ new.wb = th[t].wb /\ new.since = th[t].since
              /\ \/ s = Root /\ new.pc = "arrived" /\ new.blob = th[t].blob
                 \/ /\ s # Root /\ has_path(th[t].blob, Head(s))
                    /\ new.pc = "enter" /\ new.blob = th[t].blob
                    /\ new.key = get_inode_from_path(th[t].blob, Head(s))
                    /\ new.left = Behind(th[t].left)
                 \/ /\ s # Root /\ ~ has_path(th[t].blob, Head(s))
                    /\ new.pc = "arrived" /\ new.blob = NoBlob
<1>. DEFINE r0 == th[t]
<1>1. DOMAIN r0 = Fields /\ Unmoved /\ UNCHANGED faults
  BY DEF NamesInv, Holds, Follow, Unmoved
<1>2. CASE s = Root
  <2>. DEFINE new == [r0 EXCEPT !.pc = "arrived", !.left = Root, !.rest = Root]
  <2>1. th' = [th EXCEPT ![t] = new]
    BY <1>2 DEF Follow
  <2>2. /\ DOMAIN new = Fields /\ new.req = r0.req /\ new.wb = r0.wb
        /\ new.since = r0.since /\ new.pc = "arrived" /\ new.blob = r0.blob
    BY <1>1 DEF Fields
  <2>. HIDE DEF new
  <2>. QED BY <1>1, <1>2, <2>1, <2>2 DEF Becomes
<1>3. CASE s # Root /\ has_path(r0.blob, Head(s))
  <2>. DEFINE new == [r0 EXCEPT !.pc = "enter", !.key = get_inode_from_path(r0.blob, Head(s)),
                                !.left = Behind(r0.left), !.rest = Root]
  <2>1. th' = [th EXCEPT ![t] = new]
    BY <1>3 DEF Follow
  <2>2. /\ DOMAIN new = Fields /\ new.req = r0.req /\ new.wb = r0.wb
        /\ new.since = r0.since /\ new.pc = "enter" /\ new.blob = r0.blob
        /\ new.key = get_inode_from_path(r0.blob, Head(s)) /\ new.left = Behind(r0.left)
    BY <1>1 DEF Fields
  <2>. HIDE DEF new
  <2>. QED BY <1>1, <1>3, <2>1, <2>2 DEF Becomes
<1>4. CASE s # Root /\ ~ has_path(r0.blob, Head(s))
  <2>. DEFINE new == [r0 EXCEPT !.pc = "arrived", !.blob = NoBlob, !.left = Root, !.rest = Root]
  <2>1. th' = [th EXCEPT ![t] = new]
    BY <1>4 DEF Follow
  <2>2. /\ DOMAIN new = Fields /\ new.req = r0.req /\ new.wb = r0.wb
        /\ new.since = r0.since /\ new.pc = "arrived" /\ new.blob = NoBlob
    BY <1>1 DEF Fields
  <2>. HIDE DEF new
  <2>. QED BY <1>1, <1>4, <2>1, <2>2 DEF Becomes
<1>. QED BY <1>2, <1>3, <1>4

LEMMA LoadShape ==
  ASSUME NamesInv, NEW t \in Threads, Load(t)
  PROVE  /\ mounted /\ Unmoved /\ UNCHANGED <<faults, mixed>> /\ th[t].pc = "token"
         /\ \E new : /\ Becomes(t, new) /\ new.pc = "take" /\ new.req = th[t].req
                     /\ new.left = th[t].left /\ new.blob = th[t].blob
                     /\ new.wb = th[t].wb /\ new.since = th[t].since
<1>. DEFINE new == [th[t] EXCEPT !.pc = "take", !.rest = saved]
<1>1. th' = [th EXCEPT ![t] = new]
  BY DEF Load
<1>2. /\ DOMAIN new = Fields /\ new.pc = "take" /\ new.req = th[t].req
      /\ new.left = th[t].left /\ new.blob = th[t].blob
      /\ new.wb = th[t].wb /\ new.since = th[t].since
  BY DEF NamesInv, Holds, Fields
<1>3. mounted /\ Unmoved /\ UNCHANGED <<faults, mixed>> /\ th[t].pc = "token"
  BY DEF Load, At, Unmoved
<1>. HIDE DEF new
<1>. QED BY <1>1, <1>2, <1>3 DEF Becomes

LEMMA EnterShape ==
  ASSUME NamesInv, NEW t \in Threads, Enter1(t)
  PROVE  /\ mounted /\ Unmoved /\ UNCHANGED mixed /\ th[t].pc = "enter"
         /\ \E new, res :
              /\ res \in ReadResults(t, th[t].key) /\ Fails(res.failed)
              /\ Becomes(t, new) /\ new.pc = "token" /\ new.req = th[t].req
              /\ new.left = th[t].left
              /\ new.blob = res.blob /\ new.wb = res.blob /\ new.since = th[t].since
<1>1. PICK res \in ReadResults(t, th[t].key) :
        /\ Fails(res.failed)
        /\ th' = [th EXCEPT ![t] = [th[t] EXCEPT !.pc = "token", !.key = NULL,
                                              !.blob = res.blob, !.wb = res.blob]]
  BY DEF Enter1
<1>. DEFINE new == [th[t] EXCEPT !.pc = "token", !.key = NULL,
                                 !.blob = res.blob, !.wb = res.blob]
<1>2. /\ DOMAIN new = Fields /\ new.pc = "token" /\ new.req = th[t].req
      /\ new.left = th[t].left
      /\ new.blob = res.blob /\ new.wb = res.blob /\ new.since = th[t].since
  BY DEF NamesInv, Holds, Fields
<1>3. th' = [th EXCEPT ![t] = new]
  BY <1>1
<1>4. mounted /\ Unmoved /\ UNCHANGED mixed /\ th[t].pc = "enter"
  BY DEF Enter1, At, Unmoved
<1>. HIDE DEF new
<1>. QED BY <1>1, <1>2, <1>3, <1>4 DEF Becomes

LEMMA FirstShape ==
  ASSUME NamesInv, NEW t \in Threads, NEW s, NEW b, FirstOfTwo(t, s, b)
  PROVE  /\ UNCHANGED <<mounted, mixed>> /\ Changes(s)
         /\ \E new : /\ Becomes(t, new) /\ new.pc = "second" /\ new.req = th[t].req
                     /\ new.blob = b /\ new.wb = th[t].wb /\ new.since = th[t].since
<1>. DEFINE new == [th[t] EXCEPT !.pc = "second", !.blob = b]
<1>1. th' = [th EXCEPT ![t] = new]
  BY DEF FirstOfTwo
<1>2. /\ DOMAIN new = Fields /\ new.pc = "second" /\ new.req = th[t].req
      /\ new.blob = b /\ new.wb = th[t].wb /\ new.since = th[t].since
  BY DEF NamesInv, Holds, Fields
<1>3. UNCHANGED <<mounted, mixed>> /\ Changes(s)
  BY DEF FirstOfTwo
<1>. HIDE DEF new
<1>. QED BY <1>1, <1>2, <1>3 DEF Becomes

LEMMA WriteShape ==
  ASSUME NamesInv, NEW t \in Threads, Write(t)
  PROVE  \/ GiveUp(t, "ENOENT")
         \/ /\ Unmoved /\ UNCHANGED mixed
            /\ \E new, res :
                 /\ res \in ReadResults(t, EntryKey(t)) /\ Fails(res.failed)
                 /\ Becomes(t, new) /\ new.pc = "second" /\ new.req = th[t].req
                 /\ new.blob = [res.blob EXCEPT !.data = Kept(th[t].req.buf)]
                 /\ new.wb = res.blob /\ new.since = th[t].since
<1>1. CASE GiveUp(t, "ENOENT")
  BY <1>1
<1>2. ASSUME NEW res \in ReadResults(t, EntryKey(t)), Fails(res.failed),
             th' = [th EXCEPT ![t] = [th[t] EXCEPT !.pc = "second", !.wb = res.blob,
                              !.blob = [res.blob EXCEPT !.data = Kept(th[t].req.buf)]]],
             Unmoved, UNCHANGED mixed
      PROVE  \E new, rs :
                 /\ rs \in ReadResults(t, EntryKey(t)) /\ Fails(rs.failed)
                 /\ Becomes(t, new) /\ new.pc = "second" /\ new.req = th[t].req
                 /\ new.blob = [rs.blob EXCEPT !.data = Kept(th[t].req.buf)]
                 /\ new.wb = rs.blob /\ new.since = th[t].since
  <2>. DEFINE b   == [res.blob EXCEPT !.data = Kept(th[t].req.buf)]
              new == [th[t] EXCEPT !.pc = "second", !.wb = res.blob, !.blob = b]
  <2>1. th' = [th EXCEPT ![t] = new]
    BY <1>2
  <2>. HIDE DEF b
  <2>2. /\ DOMAIN new = Fields /\ new.pc = "second" /\ new.req = th[t].req
        /\ new.blob = b /\ new.wb = res.blob /\ new.since = th[t].since
    BY DEF NamesInv, Holds, Fields
  <2>. HIDE DEF new
  <2>. QED BY <1>2, <2>1, <2>2 DEF Becomes, b
<1>. QED BY <1>1, <1>2 DEF Write, Unmoved

----------------------------------------------------------------------------
(* The hands of the threads stay sane.                                     *)

LEMMA BeginSane ==
  ASSUME NamesInv, HomesInv, SaneInv, NEW t \in Threads, NEW r \in Requests, Begin(t, r)
  PROVE  SaneInv'
<1>1. PICK new, res :
        /\ res \in ReadResults(t, root_id) /\ Fails(res.failed)
        /\ Becomes(t, new) /\ new.pc = "split"
        /\ new.blob = res.blob /\ new.wb = res.blob /\ new.since = faults
  BY BeginShape
<1>2. mounted /\ Unmoved
  BY BeginShape
<1>3. /\ Named(res.blob) /\ (root_id \in DOMAIN store \/ res.blob = ZeroBlob)
      /\ res.failed \in Nat
  BY <1>1, ReadSane
<1>4. faults \in Nat /\ faults' \in Nat /\ faults <= faults'
  BY <1>1, <1>3, FaultsGrow DEF SaneInv
<1>5. Sane(new, store', faults')
  BY <1>1, <1>2, <1>3, <1>4 DEF Sane, Bare, Unmoved
<1>. QED BY <1>1, <1>2, <1>4, <1>5, StaysOnto, BecomesSane DEF Unmoved

LEMMA FollowSane ==
  ASSUME NamesInv, HomesInv, SaneInv, NEW t \in Threads, NEW s, mounted, Follow(t, s),
         th[t].pc # "second"
  PROVE  SaneInv'
<1>1. PICK new :
        /\ Becomes(t, new) /\ new.wb = th[t].wb /\ new.since = th[t].since
        /\ new.pc # "second" /\ new.blob \in {th[t].blob, NoBlob}
  BY FollowShape
<1>2. Unmoved /\ UNCHANGED faults
  BY FollowShape
<1>3. Sane(th[t], store, faults) /\ faults' \in Nat /\ faults <= faults'
  BY <1>2 DEF SaneInv
<1>4. Sane(new, store', faults')
  BY <1>1, <1>2, <1>3 DEF Sane, Bare, Unmoved
<1>. QED BY <1>1, <1>2, <1>3, <1>4, StaysOnto, BecomesSane DEF Unmoved

LEMMA LoadSane ==
  ASSUME NamesInv, HomesInv, SaneInv, NEW t \in Threads, Load(t)
  PROVE  SaneInv'
<1>1. PICK new : /\ Becomes(t, new) /\ new.pc = "take" /\ new.blob = th[t].blob
                 /\ new.wb = th[t].wb /\ new.since = th[t].since
  BY LoadShape
<1>2. mounted /\ Unmoved /\ UNCHANGED faults /\ th[t].pc = "token"
  BY LoadShape
<1>3. Sane(th[t], store, faults) /\ faults' \in Nat /\ faults <= faults'
  BY <1>2 DEF SaneInv
<1>4. Sane(new, store', faults')
  BY <1>1, <1>2, <1>3 DEF Sane, Bare, Unmoved
<1>. QED BY <1>1, <1>2, <1>3, <1>4, StaysOnto, BecomesSane DEF Unmoved

LEMMA EnterSane ==
  ASSUME NamesInv, HomesInv, SaneInv, NEW t \in Threads, Enter1(t)
  PROVE  SaneInv'
<1>1. PICK new, res :
        /\ res \in ReadResults(t, th[t].key) /\ Fails(res.failed)
        /\ Becomes(t, new) /\ new.pc = "token"
        /\ new.blob = res.blob /\ new.wb = res.blob /\ new.since = th[t].since
  BY EnterShape
<1>2. mounted /\ Unmoved
  BY EnterShape
<1>3. /\ Named(res.blob) /\ (root_id \in DOMAIN store \/ res.blob = ZeroBlob)
      /\ res.failed \in Nat
  BY <1>1, ReadSane
<1>4. faults \in Nat /\ faults' \in Nat /\ faults <= faults' /\ Sane(th[t], store, faults)
  BY <1>1, <1>3, FaultsGrow DEF SaneInv
<1>5. Sane(new, store', faults')
  BY <1>1, <1>2, <1>3, <1>4 DEF Sane, Bare, Unmoved
<1>. QED BY <1>1, <1>2, <1>4, <1>5, StaysOnto, BecomesSane DEF Unmoved

LEMMA ChangesGrow ==
  ASSUME SaneInv, NEW s, Changes(s), Onto(store, s)
  PROVE  Onto(store, store') /\ faults' \in Nat /\ faults <= faults'
<1>1. Fails(0) \/ Fails(1)
  BY DEF Changes
<1>2. store' = s \/ UNCHANGED store
  BY DEF Changes
<1>. QED BY <1>1, <1>2, StaysOnto, FaultsGrow

LEMMA FirstSane ==
  ASSUME NamesInv, SaneInv, NEW t \in Threads, NEW s, NEW b, At(t, "arrived"),
         FirstOfTwo(t, s, b), Onto(store, s), root_id \in DOMAIN store, Named(b)
  PROVE  SaneInv'
<1>1. PICK new : /\ Becomes(t, new) /\ new.pc = "second" /\ new.blob = b
                 /\ new.wb = th[t].wb /\ new.since = th[t].since
  BY FirstShape
<1>2. UNCHANGED mounted /\ Changes(s)
  BY FirstShape
<1>3. Onto(store, store') /\ faults \in Nat /\ faults' \in Nat /\ faults <= faults'
        /\ Sane(th[t], store, faults)
  BY <1>2, ChangesGrow DEF SaneInv
<1>4. Sane(new, store', faults')
  BY <1>1, <1>3 DEF Sane, Onto
<1>. QED BY <1>1, <1>2, <1>3, <1>4, BecomesSane DEF At

LEMMA Written1 ==
  ASSUME NEW s, RootFirst(s), root_id \in DOMAIN s, NEW k, k # NULL, NEW b
  PROVE  Onto(s, write_to_dict(s, k, b))
BY DEF Onto, RootFirst, write_to_dict, perform_insertion

LEMMA AddSane ==
  ASSUME NamesInv, HomesInv, SaneInv, NEW t \in Threads, AddName(t)
  PROVE  SaneInv'
<1>1. mounted /\ At(t, "arrived")
  BY DEF AddName, Arrived, At
<1>2. CASE \E err : GiveUp(t, err)
  BY <1>1, <1>2, GivenUpSane
<1>3. CASE Gone
  BY <1>3, GoneSane
<1>4. ASSUME NEW id \in Fresh, ~ DirIsMissing(t), ~ WrongKind(t), ~ has_path(th[t].blob, Name(t)),
             NEW isd \in BOOLEAN,
             NEW new \in {EmptyDir(id), EmptyFile(id)},
             FirstOfTwo(t, insert_item_into_blob(store, th[t].blob, Name(t), isd, id), new)
      PROVE  SaneInv'
  <2>. DEFINE dir == th[t].blob
  <2>1. dir # NoBlob /\ dir.is_dir # 0 /\ th[t].pc = "arrived"
    BY <1>4 DEF DirIsMissing, WrongKind, ISDIR, AddName, Arrived, At
  <2>2. Sane(th[t], store, faults) /\ RootFirst(store)
    BY DEF SaneInv
  <2>3. dir.inodeid # NULL /\ root_id \in DOMAIN store
    BY <2>1, <2>2 DEF Sane, Bare, Named, ZeroBlob
  <2>4. id # NULL
    BY BlobAssumption DEF Fresh, get_random_num, Keys
  <2>5. Named(new)
    BY <2>4 DEF Named, EmptyDir, EmptyFile
  <2>6. \E b : insert_item_into_blob(store, dir, Name(t), isd, id)
                 = write_to_dict(store, dir.inodeid, b)
    BY <1>4 DEF insert_item_into_blob
  <2>. HIDE DEF dir
  <2>7. Onto(store, insert_item_into_blob(store, dir, Name(t), isd, id))
    BY <2>2, <2>3, <2>6, Written1
  <2>. QED BY <1>1, <1>4, <2>3, <2>5, <2>7, FirstSane DEF dir
<1>. QED BY <1>2, <1>3, <1>4 DEF AddName

\* What the entry of a name leads to, if the thread has it in hand.
LEMMA EntryIsKey ==
  ASSUME NamesInv, NEW t \in Threads, EntryKey(t) # NULL
  PROVE  EntryKey(t) \in Ids /\ th[t].blob \notin {ZeroBlob, NoBlob} /\ has_path(th[t].blob, Name(t))
<1>. DEFINE b == th[t].blob
<1>1. b.sub_items \in Seq(Item)
  BY DEF NamesInv, Holds, NameBlob, Distinct
<1>2. EntryKey(t) = get_inode_from_path(b, Name(t))
  BY DEF EntryKey
<1>. HIDE DEF b
<1>3. /\ EntryKey(t) \in Ids /\ has_path(b, Name(t))
      /\ Position(b, Name(t)) \in 1..Len(b.sub_items)
  BY <1>1, <1>2, InodeOfEntry
<1>4. ZeroBlob.sub_items = << >> /\ NoBlob.sub_items = << >>
  BY DEF ZeroBlob, NoBlob
<1>5. \A i \in 1..Len(<< >>) : FALSE
  OBVIOUS
<1>6. b # ZeroBlob /\ b # NoBlob
  BY <1>3, <1>4, <1>5
<1>. QED BY <1>3, <1>6 DEF b

LEMMA RemovedKeepsKey ==
  ASSUME NEW b, NameBlob(b), NEW name
  PROVE  LET c == remove_inode_from_path(b, name)
         IN  c.inodeid = b.inodeid /\ c.is_dir = b.is_dir
BY DEF NameBlob, IsBlob, remove_inode_from_path

LEMMA RemoveSane ==
  ASSUME NamesInv, HomesInv, SaneInv, NEW t \in Threads, RemoveName(t)
  PROVE  SaneInv'
<1>1. mounted /\ th[t].pc = "arrived" /\ At(t, "arrived")
  BY DEF RemoveName, Arrived, At
<1>2. CASE GiveUp(t, "OK")
  BY <1>1, <1>2, GivenUpSane
<1>3. CASE /\ ~ DirIsMissing(t) /\ EntryKey(t) # NULL
           /\ FirstOfTwo(t, perform_delete(store, EntryKey(t)),
                         remove_inode_from_path(th[t].blob, Name(t)))
  <2>1. EntryKey(t) \in Ids /\ th[t].blob \notin {ZeroBlob, NoBlob} /\ NameBlob(th[t].blob)
    BY <1>3, EntryIsKey DEF NamesInv, Holds
  <2>2. Sane(th[t], store, faults) /\ RootFirst(store)
    BY DEF SaneInv
  <2>3. root_id \in DOMAIN store /\ Named(th[t].blob)
    BY <1>1, <2>1, <2>2 DEF Sane, Bare
  <2>4. Named(remove_inode_from_path(th[t].blob, Name(t)))
    BY <2>1, <2>3, RemovedKeepsKey DEF Named
  <2>5. Onto(store, perform_delete(store, EntryKey(t)))
    BY <2>1, <2>2, <2>3, BlobAssumption DEF Onto, RootFirst, perform_delete
  <2>. QED BY <1>1, <1>3, <2>3, <2>4, <2>5, FirstSane
<1>. QED BY <1>2, <1>3 DEF RemoveName

LEMMA WriteSane ==
  ASSUME NamesInv, HomesInv, SaneInv, NEW t \in Threads, Write(t)
  PROVE  SaneInv'
<1>1. mounted
  BY DEF Write, Arrived, At
<1>2. CASE GiveUp(t, "ENOENT")
  BY <1>1, <1>2, GivenUpSane
<1>3. ASSUME Unmoved, NEW new, NEW res, res \in ReadResults(t, EntryKey(t)), Fails(res.failed),
             Becomes(t, new), new.pc = "second",
             new.blob = [res.blob EXCEPT !.data = Kept(th[t].req.buf)],
             new.wb = res.blob, new.since = th[t].since
      PROVE  SaneInv'
  <2>1. /\ Named(res.blob) /\ (root_id \in DOMAIN store \/ res.blob = ZeroBlob)
        /\ res.failed \in Nat
    BY <1>3, ReadSane
  <2>2. faults \in Nat /\ faults' \in Nat /\ faults <= faults' /\ Sane(th[t], store, faults)
    BY <1>3, <2>1, FaultsGrow DEF SaneInv
  <2>3. new.blob.inodeid = res.blob.inodeid /\ new.blob.is_dir = res.blob.is_dir
    <3>1. IsBlob(res.blob)
      BY <1>3, ReadNames DEF NameBlob
    <3>. QED BY <1>3, <3>1 DEF IsBlob
  <2>4. Named(new.blob) /\ (res.blob = ZeroBlob => new.blob.inodeid = NULL)
    BY <2>1, <2>3 DEF Named, ZeroBlob
  <2>5. Sane(new, store', faults')
    BY <1>3, <2>1, <2>2, <2>4 DEF Sane, Bare, Unmoved
  <2>. QED BY <1>1, <1>3, <2>2, <2>5, StaysOnto, BecomesSane DEF Unmoved
<1>. QED BY <1>2, <1>3, WriteShape

LEMMA LookSane ==
  ASSUME NamesInv, HomesInv, SaneInv, NEW t \in Threads, Look(t)
  PROVE  SaneInv'
<1>1. mounted
  BY DEF Look, Arrived, At
<1>2. CASE GiveUp(t, EarlyReturn(t))
  BY <1>1, <1>2, GivenUpSane
<1>3. ASSUME NEW res \in ReadResults(t, EntryKey(t)), Fails(res.failed), End(t, res.blob),
             UNCHANGED <<store, mounted>>
      PROVE  SaneInv'
  <2>1. /\ Named(res.blob) /\ (root_id \in DOMAIN store' \/ res.blob = ZeroBlob)
        /\ res.failed \in Nat
    BY <1>3, ReadSane
  <2>2. faults' \in Nat /\ faults <= faults'
    BY <1>3, <2>1, FaultsGrow
  <2>. QED BY <1>1, <1>3, <2>1, <2>2, StaysOnto, EndedSane
<1>. QED BY <1>2, <1>3 DEF Look

LEMMA AnswerSane ==
  ASSUME NamesInv, HomesInv, SaneInv, NEW t \in Threads, NEW r \in Requests, AnswerAtOnce(t, r)
  PROVE  SaneInv'
<1>1. mounted /\ UNCHANGED <<store, mounted>>
  BY DEF AnswerAtOnce, Sent, At
<1>2. CASE UNCHANGED <<th, faults>>
  BY <1>1, <1>2 DEF SaneInv
<1>3. ASSUME NEW res \in ReadResults(t, root_id), Fails(res.failed), End(t, res.blob)
      PROVE  SaneInv'
  <2>1. /\ Named(res.blob) /\ (root_id \in DOMAIN store' \/ res.blob = ZeroBlob)
        /\ res.failed \in Nat
    BY <1>1, <1>3, ReadSane
  <2>2. faults' \in Nat /\ faults <= faults'
    BY <1>3, <2>1, FaultsGrow
  <2>. QED BY <1>1, <1>3, <2>1, <2>2, StaysOnto, EndedSane
<1>. QED BY <1>2, <1>3 DEF AnswerAtOnce

\* The device that the second call of a handler leaves, if it works.
After(s, b) == IF b.inodeid = NULL THEN s ELSE write_to_dict(s, b.inodeid, b)

LEMMA SecondSane ==
  ASSUME NamesInv, HomesInv, SaneInv, NEW t \in Threads, Second(t)
  PROVE  SaneInv'
<1>. DEFINE b == th[t].blob
<1>1. mounted /\ th[t].pc = "second" /\ Changes(After(store, b)) /\ End(t, th[t].wb)
        /\ UNCHANGED mounted
  BY DEF Second, At, Stored1, After
<1>2. Sane(th[t], store, faults) /\ RootFirst(store)
  BY DEF SaneInv
<1>3. root_id \in DOMAIN store \/ b.inodeid = NULL
  BY <1>1, <1>2 DEF Sane, Bare
<1>. HIDE DEF b
<1>4. Onto(store, After(store, b))
  BY <1>2, <1>3, Written1 DEF After, Onto
<1>5. Onto(store, store') /\ faults' \in Nat /\ faults <= faults'
  BY <1>1, <1>4, ChangesGrow
<1>6. Named(th[t].wb) /\ (root_id \in DOMAIN store' \/ th[t].wb = ZeroBlob)
  BY <1>2, <1>5 DEF Sane, Bare, Onto
<1>. QED BY <1>1, <1>5, <1>6, EndedSane

LEMMA MountSane ==
  ASSUME SaneInv, Mount
  PROVE  SaneInv'
<1>1. \A u \in Threads : th'[u] = IdleThread
  BY DEF Mount, SaneInv
<1>2. mounted' /\ faults' \in Nat
  BY DEF Mount, Fails, SaneInv
<1>3. RootFirst(store')
  BY BlobAssumption DEF Mount, write_root, set_up_ssd, RootFirst, write_to_dict, perform_insertion, Keys
<1>4. \A u \in Threads : Sane(th'[u], store', faults')
  BY <1>1, <1>2, EmptySane
<1>. QED BY <1>2, <1>3, <1>4 DEF SaneInv

LEMMA StartSane == CallsInit => SaneInv
<1>1. ASSUME CallsInit
      PROVE  SaneInv
  <2>1. RootFirst(store) /\ faults \in Nat
    BY <1>1 DEF CallsInit, Init, set_up_ssd, RootFirst
  <2>2. \A t \in Threads : th[t] = IdleThread
    BY <1>1 DEF CallsInit
  <2>3. \A t \in Threads : Sane(th[t], store, faults)
    BY <2>1, <2>2, EmptySane
  <2>. QED BY <2>1, <2>2, <2>3 DEF SaneInv
<1>. QED BY <1>1

LEMMA StepSane ==
  ASSUME NamesInv, HomesInv, SaneInv, NEW t \in Threads, Step(t)
  PROVE  SaneInv'
<1>1. CASE Split(t)
  BY <1>1, FollowSane DEF Split, At
<1>2. CASE Take(t)
  BY <1>2, FollowSane DEF Take, At
<1>. QED BY <1>1, <1>2, LoadSane, EnterSane, AddSane, RemoveSane, WriteSane,
            LookSane, SecondSane DEF Step

LEMMA SaneInvariant == CallsSpec => []SaneInv
<1>1. NamesInv /\ HomesInv /\ SaneInv /\ CallsNext => SaneInv'
  <2>. SUFFICES ASSUME NamesInv, HomesInv, SaneInv, CallsNext PROVE SaneInv'
    OBVIOUS
  <2>1. CASE Kill
    BY <2>1, GoneSane DEF Kill
  <2>. QED BY <2>1, MountSane, StepSane, AnswerSane, BeginSane DEF CallsNext
<1>2. SaneInv /\ UNCHANGED callVars => SaneInv'
  BY DEF callVars, SaneInv
<1>. QED BY <1>1, <1>2, StartSane, NamesInvariant, HomesInvariant, PTL DEF CallsSpec

----------------------------------------------------------------------------
(* Where a thread is on the way along its path.                            *)

\* It serves a request, no call has failed in that, and it was given no
\* component of another thread's path.
Clean(r, n, m) == r.pc # "idle" /\ n = r.since /\ ~ m

\* q is the part of its path that it has gone along.
Passed(q, r) == q \in Seq(Names) /\ r.left \in Seq(Names) /\ q \o r.left = Front(r.req.path)

\* b is what k leads to, if that leads anywhere.
Here(s, k, b) == k \in DOMAIN s => b = get_blob_from_key(s, k)

\* The path p does not lead to an entry.
TakenOut(u, p) ==
  LET k == KeyAt(u, Front(p)) IN k \in DOMAIN u => ~ has_path(get_blob_from_key(u, k), Last(p))

\* Its hands hold what its path leads to, or what it read last before the path
\* was lost; and the second call of a removal leaves no name.
OnWay(r, s) ==
  /\ r.pc \in {"split", "token", "take"} =>
       \E q : Passed(q, r) /\ Here(s, KeyAt(s, q), r.blob)
  /\ r.pc = "enter" =>
       \E q : Passed(q, r) /\ (KeyAt(s, q) \in DOMAIN s => r.key = KeyAt(s, q))
  /\ r.pc = "arrived" => Here(s, KeyAt(s, Front(r.req.path)), r.blob)
  /\ r.pc # "second" => {r.blob, r.wb} \subseteq Stock(s) \cup {ZeroBlob, NoBlob}
  /\ r.pc = "second" /\ r.req.op \in Removing => TakenOut(After(s, r.blob), r.req.path)

WayInv == \A t \in Threads : Clean(th[t], faults, mixed) => OnWay(th[t], store)

OneThread == \A t, u \in Threads : t = u

LEMMA BecomesWay ==
  ASSUME OneThread, NamesInv, NEW t \in Threads, NEW new, Becomes(t, new),
         Clean(new, faults', mixed') => OnWay(new, store')
  PROVE  WayInv'
<1>1. \A u \in Threads : th'[u] = new
  BY DEF NamesInv, Becomes, OneThread
<1>. QED BY <1>1 DEF WayInv

LEMMA EndedWay ==
  ASSUME OneThread, NamesInv, NEW t \in Threads, NEW wb, End(t, wb)
  PROVE  WayInv' /\ th'[t].pc = "idle"
<1>1. \A u \in Threads : th'[u].pc = "idle"
  BY DEF NamesInv, OneThread, End, IdleThread
<1>. QED BY <1>1 DEF WayInv, Clean

LEMMA GoneWay ==
  ASSUME Gone
  PROVE  WayInv'
<1>1. \A u \in Threads : th'[u].pc = "idle"
  BY DEF Gone, IdleThread
<1>. QED BY <1>1 DEF WayInv, Clean

\* The path of a request that has a walk.
LEMMA PathOfThread ==
  ASSUME NamesInv, NEW t \in Threads, Busy(t)
  PROVE  /\ Path(t) \in Seq(Names) /\ Path(t) # << >>
         /\ Front(Path(t)) \in Seq(Names) /\ Name(t) = Last(Path(t))
<1>1. th[t].req \in Requests /\ Path(t) # << >>
  BY DEF NamesInv, Holds, Busy, Path, Root
<1>2. Path(t) \in Seq(Names)
  BY <1>1, CallsAssumption DEF Path, Paths
<1>. QED BY <1>1, <1>2, FrontLast DEF Name, get_fn_dir

\* A thread that is still clean was clean, and no call has failed since.
LEMMA WasClean ==
  ASSUME SaneInv, WayInv, NEW t \in Threads, Busy(t), NEW new, new.since = th[t].since,
         mixed => mixed', faults' \in Nat, faults <= faults', Clean(new, faults', mixed')
  PROVE  faults' = faults /\ ~ mixed /\ Clean(th[t], faults, mixed) /\ OnWay(th[t], store)
<1>1. th[t].since \in Nat /\ th[t].since <= faults /\ faults \in Nat
  BY DEF SaneInv, Sane
<1>2. faults' = faults /\ faults = th[t].since /\ ~ mixed
  BY <1>1 DEF Clean
<1>. QED BY <1>2 DEF Clean, Busy, WayInv

LEMMA BeginWay ==
  ASSUME OneThread, NamesInv, HomesInv, SaneInv, NEW t \in Threads, NEW r \in Requests, Begin(t, r)
  PROVE  WayInv'
<1>1. PICK new, res :
        /\ res \in ReadResults(t, root_id) /\ Fails(res.failed)
        /\ Becomes(t, new) /\ new.pc = "split" /\ new.req = r
        /\ new.left = Front(r.path)
        /\ new.blob = res.blob /\ new.wb = res.blob /\ new.since = faults
  BY BeginShape
<1>2. Unmoved /\ ~ OnRoot(r)
  BY BeginShape
<1>3. SUFFICES ASSUME Clean(new, faults', mixed')
               PROVE  OnWay(new, store')
  BY <1>1, BecomesWay
<1>4. res.failed = 0
  <2>1. res.failed \in {0, 1}
    BY <1>1, ReadSane
  <2>2. faults' = faults /\ faults \in Nat
    BY <1>1, <1>3 DEF Clean, SaneInv
  <2>. QED BY <1>1, <2>1, <2>2 DEF Fails
<1>5. Front(r.path) \in Seq(Names)
  <2>1. r.path \in Seq(Names) /\ r.path # << >>
    BY <1>2, CallsAssumption DEF OnRoot, Root, Paths
  <2>. QED BY <2>1, FrontLast
<1>6. Device(store) /\ store' = store
  BY <1>2 DEF NamesInv, Unmoved
<1>7. Here(store, KeyAt(store, << >>), res.blob)
  BY <1>1, <1>4, <1>6, KeyOfRoot, ReadSane DEF Here
<1>8. res.blob \in Stock(store) \cup {ZeroBlob, NoBlob}
  BY <1>1, <1>4, ReadSane DEF Stock
<1>9. Passed(<< >>, new)
  BY <1>1, <1>5 DEF Passed
<1>. QED BY <1>1, <1>6, <1>7, <1>8, <1>9 DEF OnWay

\* The next component is looked up in the blob in hand.
LEMMA FollowedWay ==
  ASSUME NamesInv, SaneInv, NEW t \in Threads, OnWay(th[t], store),
         th[t].pc \in {"split", "take"},
         NEW new, new.req = th[t].req, new.wb = th[t].wb,
         \/ th[t].left = Root /\ new.pc = "arrived" /\ new.blob = th[t].blob
         \/ /\ th[t].left # Root /\ has_path(th[t].blob, Head(th[t].left))
            /\ new.pc = "enter" /\ new.blob = th[t].blob
            /\ new.key = get_inode_from_path(th[t].blob, Head(th[t].left))
            /\ new.left = Behind(th[t].left)
         \/ /\ th[t].left # Root /\ ~ has_path(th[t].blob, Head(th[t].left))
            /\ new.pc = "arrived" /\ new.blob = NoBlob
  PROVE  OnWay(new, store)
<1>. DEFINE r0 == th[t]
            b  == r0.blob
            l  == r0.left
            D  == Front(r0.req.path)
<1>1. PICK q : Passed(q, r0) /\ Here(store, KeyAt(store, q), b)
  BY DEF OnWay
<1>2. {new.blob, new.wb} \subseteq Stock(store) \cup {ZeroBlob, NoBlob}
  BY DEF OnWay
<1>3. q \in Seq(Names) /\ l \in Seq(Names) /\ q \o l = D /\ D = Front(new.req.path)
  BY <1>1 DEF Passed
<1>4. Device(store) /\ NULL \notin DOMAIN store
  BY DEF NamesInv, SaneInv, RootFirst
<1>. HIDE DEF r0, b, l, D
<1>5. CASE l = Root /\ new.pc = "arrived" /\ new.blob = b
  <2>1. q = D
    BY <1>3, <1>5 DEF Root
  <2>. QED BY <1>1, <1>2, <1>3, <1>5, <2>1 DEF OnWay
<1>. DEFINE n  == Head(l)
            q1 == Append(q, n)
            l1 == Tail(l)
<1>6. ASSUME l # Root
      PROVE  /\ q1 \in Seq(Names) /\ l1 \in Seq(Names) /\ q1 \o l1 = D
             /\ KeyAt(store, q1) = Onward(store, KeyAt(store, q), n)
  <2>1. l # << >>
    BY <1>6 DEF Root
  <2>2. n \in Names /\ l1 \in Seq(Names) /\ q1 \o l1 = D
    <3>1. /\ Head(l) \in Names /\ Tail(l) \in Seq(Names)
          /\ Append(q, Head(l)) \o Tail(l) = q \o l
      BY <1>3, <2>1, Moved, Zenon
    <3>. QED BY <1>3, <3>1, Zenon
  <2>3. q1 \in Seq(Names) /\ q1 # << >> /\ Front(q1) = q /\ Last(q1) = n
    BY <1>3, <2>2, Appended
  <2>. HIDE DEF q1, n
  <2>4. KeyAt(store, q1) = Onward(store, KeyAt(store, q), n)
    BY <1>4, <2>3, KeyExtends
  <2>. QED BY <2>2, <2>3, <2>4
<1>. HIDE DEF n, q1, l1
<1>7. CASE /\ l # Root /\ has_path(b, n)
           /\ new.pc = "enter" /\ new.key = get_inode_from_path(b, n)
           /\ new.left = Behind(l)
  <2>1. Passed(q1, new)
    BY <1>3, <1>6, <1>7 DEF Passed, Behind, l1
  <2>2. KeyAt(store, q1) \in DOMAIN store => new.key = KeyAt(store, q1)
    BY <1>1, <1>4, <1>6, <1>7 DEF Onward, Here
  <2>. QED BY <1>2, <1>7, <2>1, <2>2 DEF OnWay
<1>8. CASE /\ l # Root /\ ~ has_path(b, n)
           /\ new.pc = "arrived" /\ new.blob = NoBlob
  <2>1. get_inode_from_path(b, n) = NULL
    BY <1>8 DEF has_path, get_inode_from_path
  <2>2. KeyAt(store, q1) = NULL
    BY <1>1, <1>6, <1>8, <2>1 DEF Onward, Here
  <2>3. KeyAt(store, D) \notin DOMAIN store
    BY <1>4, <1>6, <1>8, <2>2, LostForGood
  <2>. QED BY <1>2, <1>3, <1>8, <2>3 DEF OnWay, Here
<1>. QED BY <1>5, <1>7, <1>8 DEF b, l, n, r0

\* A lookup in a directory from which an entry is gone finds what it found
\* before, but for that entry.
LEMMA RemovedLookup ==
  ASSUME NEW b, NameBlob(b), NEW name, get_inode_from_path(b, name) # NULL
  PROVE  LET c == remove_inode_from_path(b, name)
         IN  /\ get_inode_from_path(c, name) = NULL /\ ~ has_path(c, name)
             /\ \A n : get_inode_from_path(c, n) \in {get_inode_from_path(b, n), NULL}
<1>. DEFINE c == remove_inode_from_path(b, name)
            i == Position(b, name)
            was(j) == IF j < i THEN j ELSE j + 1
<1>1. /\ b.sub_items \in Seq(Item)
      /\ \A j, k \in 1..Len(b.sub_items) :
            b.sub_items[j].item_path = b.sub_items[k].item_path => j = k
  BY DEF NameBlob, Distinct
<1>2. /\ has_path(b, name) /\ i \in 1..Len(b.sub_items)
      /\ b.sub_items[i].item_path = name
  BY <1>1, InodeOfEntry
<1>3. c.sub_items = RemoveAt(b.sub_items, i)
  BY <1>2 DEF remove_inode_from_path, NameBlob, IsBlob
<1>. HIDE DEF c, i
<1>4. /\ c.sub_items \in Seq(Item) /\ Len(c.sub_items) = Len(b.sub_items) - 1
      /\ \A j \in 1..(Len(b.sub_items) - 1) :
           c.sub_items[j] = IF j < i THEN b.sub_items[j] ELSE b.sub_items[j+1]
  <2>1. /\ RemoveAt(b.sub_items, i) \in Seq(Item)
        /\ Len(RemoveAt(b.sub_items, i)) = Len(b.sub_items) - 1
        /\ \A j \in 1..(Len(b.sub_items) - 1) :
             RemoveAt(b.sub_items, i)[j] = IF j < i THEN b.sub_items[j] ELSE b.sub_items[j+1]
    BY <1>1, <1>2, RemoveAtShifts
  <2>. QED BY <1>3, <2>1
<1>5. Len(b.sub_items) \in Nat /\ i \in Nat
  BY <1>1, <1>2
<1>6. ASSUME NEW j \in 1..Len(c.sub_items)
      PROVE  /\ was(j) \in 1..Len(b.sub_items) /\ was(j) # i
             /\ c.sub_items[j] = b.sub_items[was(j)]
  BY <1>4, <1>5
<1>. HIDE DEF was
<1>7. \A j \in 1..Len(c.sub_items) : c.sub_items[j].item_path # name
  BY <1>1, <1>2, <1>6
<1>8. get_inode_from_path(c, name) = NULL /\ ~ has_path(c, name)
  BY <1>4, <1>7, InodeOfEntry
<1>9. ASSUME NEW n, get_inode_from_path(c, n) # NULL
      PROVE  get_inode_from_path(c, n) = get_inode_from_path(b, n)
  <2>. DEFINE j == Position(c, n)
              k == Position(b, n)
  <2>1. /\ j \in 1..Len(c.sub_items) /\ c.sub_items[j].item_path = n
        /\ get_inode_from_path(c, n) = c.sub_items[j].inodeid
    BY <1>4, <1>9, InodeOfEntry
  <2>. HIDE DEF j
  <2>2. was(j) \in 1..Len(b.sub_items) /\ c.sub_items[j] = b.sub_items[was(j)]
    BY <1>6, <2>1
  <2>3. ~ \A m \in 1..Len(b.sub_items) : b.sub_items[m].item_path # n
    BY <2>1, <2>2
  <2>4. /\ k \in 1..Len(b.sub_items) /\ b.sub_items[k].item_path = n
        /\ get_inode_from_path(b, n) = b.sub_items[k].inodeid
    BY <1>1, <2>3, InodeOfEntry
  <2>. HIDE DEF k
  <2>5. was(j) = k
    BY <1>1, <2>1, <2>2, <2>4
  <2>. QED BY <2>1, <2>2, <2>4, <2>5
<1>. QED BY <1>8, <1>9 DEF c

\* The entries of a blob, or none, are in what is read back of it.
LEMMA LookupReadBack ==
  ASSUME NEW b, NameBlob(b), NEW name
  PROVE  LET d == convert_to_blob(convert_to_write_blob(b))
         IN  /\ get_inode_from_path(d, name) \in {get_inode_from_path(b, name), NULL}
             /\ ~ has_path(b, name) => ~ has_path(d, name)
<1>. DEFINE w == convert_to_write_blob(b)
            d == convert_to_blob(w)
<1>1. w.is_dir = b.is_dir /\ w.num_items = Len(b.sub_items)
        /\ w.data = IF b.is_dir = NOTDIR THEN b.data ELSE b.sub_items
  BY DEF convert_to_write_blob
<1>2. SubSeq(b.sub_items, 1, Len(b.sub_items)) = b.sub_items
  BY SubSeqFull DEF NameBlob, Distinct
<1>. HIDE DEF w
<1>3. d.sub_items \in {b.sub_items, << >>}
  BY <1>1, <1>2 DEF convert_to_blob, ISDIR, NOTDIR
<1>. HIDE DEF d
<1>4. CASE d.sub_items = b.sub_items
  <2>1. Position(d, name) = Position(b, name)
    BY <1>4 DEF Position
  <2>. QED BY <1>4, <2>1 DEF has_path, get_inode_from_path, d, w
<1>5. CASE d.sub_items = << >>
  <2>1. d.sub_items \in Seq(Item) /\ \A j \in 1..Len(d.sub_items) : FALSE
    BY <1>5
  <2>2. get_inode_from_path(d, name) = NULL /\ ~ has_path(d, name)
    BY <2>1, InodeOfEntry
  <2>. QED BY <2>2 DEF d, w
<1>. QED BY <1>3, <1>4, <1>5

\* Whether the path leads to the blob in hand or was lost on the way: when the
\* blob of its entry is deleted and it is stored without that entry, the path
\* leads to no such entry.
LEMMA TakesOut ==
  ASSUME NEW s, Device(s), Filed(s), NULL \notin DOMAIN s,
         NEW b \in Stock(s), NameBlob(b),
         NEW p \in Seq(Names), p # << >>, Here(s, KeyAt(s, Front(p)), b),
         get_inode_from_path(b, Last(p)) # NULL
  PROVE  TakenOut(After(perform_delete(s, get_inode_from_path(b, Last(p))),
                        remove_inode_from_path(b, Last(p))), p)
<1>. DEFINE name == Last(p)
            s1   == perform_delete(s, get_inode_from_path(b, name))
            c    == remove_inode_from_path(b, name)
            k0   == b.inodeid
            u    == write_to_dict(s1, k0, c)
            d    == convert_to_blob(convert_to_write_blob(c))
<1>1. k0 \in DOMAIN s /\ get_blob_from_key(s, k0) = b
  BY DEF Stock, Filed
<1>2. c.inodeid = k0 /\ NameBlob(c)
  BY RemovedKeepsKey, RemoveNames
<1>3. After(s1, c) = u
  BY <1>1, <1>2 DEF After
<1>4. /\ get_inode_from_path(c, name) = NULL /\ ~ has_path(c, name)
      /\ \A n : get_inode_from_path(c, n) \in {get_inode_from_path(b, n), NULL}
  BY RemovedLookup
<1>5. Device(u)
  BY <1>2, DeleteNames, WriteNames
<1>. HIDE DEF c
<1>6. /\ DOMAIN u \subseteq DOMAIN s
      /\ k0 \in DOMAIN u /\ get_blob_from_key(u, k0) = d
      /\ \A k \in DOMAIN u \ {k0} : get_blob_from_key(u, k) = get_blob_from_key(s, k)
  BY <1>1 DEF write_to_dict, perform_insertion, perform_delete, get_blob_from_key, perform_read
<1>. HIDE DEF u
<1>7. ASSUME NEW n
      PROVE  get_inode_from_path(d, n) \in {get_inode_from_path(b, n), NULL}
  BY <1>2, <1>4, LookupReadBack
<1>8. ~ has_path(d, name)
  BY <1>2, <1>4, LookupReadBack
<1>. HIDE DEF d, k0, name
<1>9. ASSUME NEW k \in DOMAIN u
      PROVE  /\ k \in DOMAIN s
             /\ \A n : Onward(u, k, n) \in {Onward(s, k, n), NULL}
  <2>1. CASE k = k0
    BY <1>1, <1>6, <1>7, <2>1 DEF Onward
  <2>2. CASE k # k0
    BY <1>6, <2>2 DEF Onward
  <2>. QED BY <2>1, <2>2
<1>10. Front(p) \in Seq(Names)
  BY FrontLast
<1>11. KeyAt(u, Front(p)) \in DOMAIN u => KeyAt(u, Front(p)) = KeyAt(s, Front(p))
  <2>1. NULL \notin DOMAIN u
    BY <1>6
  <2>. QED BY <1>5, <1>9, <1>10, <2>1, KeysOnTheWay
<1>12. KeyAt(u, Front(p)) \in DOMAIN u => KeyAt(u, Front(p)) = k0
  <2>1. SUFFICES ASSUME KeyAt(u, Front(p)) \in DOMAIN u
                 PROVE  KeyAt(u, Front(p)) = k0
    OBVIOUS
  <2>2. KeyAt(s, Front(p)) \in DOMAIN s /\ b = get_blob_from_key(s, KeyAt(s, Front(p)))
    BY <1>6, <1>11, <2>1 DEF Here
  <2>3. KeyAt(s, Front(p)) = b.inodeid
    BY <2>2 DEF Filed
  <2>. QED BY <1>11, <2>1, <2>3 DEF k0
<1>13. TakenOut(u, p)
  BY <1>6, <1>8, <1>12 DEF TakenOut, name
<1>. QED BY <1>3, <1>13 DEF s1, c, name

LEMMA FollowWay ==
  ASSUME OneThread, NamesInv, HomesInv, SaneInv, WayInv, NEW t \in Threads, NEW s,
         th[t].pc \in {"split", "take"}, Follow(t, s),
         mixed => mixed', s # th[t].left => mixed'
  PROVE  WayInv'
<1>1. PICK new :
         /\ Becomes(t, new) /\ new.req = th[t].req
         /\ new.wb = th[t].wb /\ new.since = th[t].since
         /\ \/ s = Root /\ new.pc = "arrived" /\ new.blob = th[t].blob
            \/ /\ s # Root /\ has_path(th[t].blob, Head(s))
               /\ new.pc = "enter" /\ new.blob = th[t].blob
               /\ new.key = get_inode_from_path(th[t].blob, Head(s))
               /\ new.left = Behind(th[t].left)
            \/ /\ s # Root /\ ~ has_path(th[t].blob, Head(s))
               /\ new.pc = "arrived" /\ new.blob = NoBlob
  BY FollowShape
<1>2. Unmoved /\ UNCHANGED faults
  BY FollowShape
<1>3. SUFFICES ASSUME Clean(new, faults', mixed')
               PROVE  OnWay(new, store')
  BY <1>1, BecomesWay
<1>4. Busy(t) /\ faults' \in Nat /\ faults <= faults' /\ s = th[t].left
  BY <1>2, <1>3 DEF Busy, SaneInv, Clean
<1>5. OnWay(th[t], store)
  BY <1>1, <1>3, <1>4, WasClean
<1>6. OnWay(new, store)
  BY <1>1, <1>4, <1>5, FollowedWay
<1>. QED BY <1>2, <1>6 DEF Unmoved

LEMMA LoadWay ==
  ASSUME OneThread, NamesInv, HomesInv, SaneInv, WayInv, NEW t \in Threads, Load(t)
  PROVE  WayInv'
<1>1. PICK new : /\ Becomes(t, new) /\ new.pc = "take" /\ new.req = th[t].req
                 /\ new.left = th[t].left /\ new.blob = th[t].blob
                 /\ new.wb = th[t].wb /\ new.since = th[t].since
  BY LoadShape
<1>2. Unmoved /\ UNCHANGED <<faults, mixed>> /\ th[t].pc = "token"
  BY LoadShape
<1>3. SUFFICES ASSUME Clean(new, faults', mixed')
               PROVE  OnWay(new, store')
  BY <1>1, BecomesWay
<1>4. Busy(t) /\ faults' \in Nat /\ faults <= faults'
  BY <1>2 DEF Busy, SaneInv
<1>5. OnWay(th[t], store)
  BY <1>1, <1>2, <1>3, <1>4, WasClean
<1>. QED BY <1>1, <1>2, <1>5 DEF OnWay, Passed, Unmoved

LEMMA EnterWay ==
  ASSUME OneThread, NamesInv, HomesInv, SaneInv, WayInv, NEW t \in Threads, Enter1(t)
  PROVE  WayInv'
<1>1. PICK new, res :
        /\ res \in ReadResults(t, th[t].key) /\ Fails(res.failed)
        /\ Becomes(t, new) /\ new.pc = "token" /\ new.req = th[t].req
        /\ new.left = th[t].left
        /\ new.blob = res.blob /\ new.wb = res.blob /\ new.since = th[t].since
  BY EnterShape
<1>2. Unmoved /\ UNCHANGED mixed /\ th[t].pc = "enter"
  BY EnterShape
<1>3. SUFFICES ASSUME Clean(new, faults', mixed')
               PROVE  OnWay(new, store')
  BY <1>1, BecomesWay
<1>4. res.failed \in {0, 1} /\ faults \in Nat
  BY <1>1, ReadSane DEF SaneInv
<1>5. Busy(t) /\ faults' \in Nat /\ faults <= faults'
  BY <1>1, <1>2, <1>4, FaultsGrow DEF Busy
<1>6. faults' = faults /\ OnWay(th[t], store)
  BY <1>1, <1>2, <1>3, <1>5, WasClean
<1>7. res.failed = 0
  BY <1>1, <1>4, <1>6 DEF Fails
<1>8. PICK q : Passed(q, th[t]) /\ (KeyAt(store, q) \in DOMAIN store => th[t].key = KeyAt(store, q))
  BY <1>2, <1>6 DEF OnWay
<1>9. Passed(q, new)
  BY <1>1, <1>8 DEF Passed
<1>10. Here(store, KeyAt(store, q), res.blob)
  BY <1>1, <1>7, <1>8, ReadSane DEF Here
<1>11. res.blob \in Stock(store) \cup {ZeroBlob, NoBlob}
  <2>1. th[t].wb \in Stock(store) \cup {ZeroBlob, NoBlob}
    BY <1>2, <1>6 DEF OnWay
  <2>. QED BY <1>1, <2>1, ReadSane
<1>. QED BY <1>1, <1>2, <1>9, <1>10, <1>11 DEF OnWay, Unmoved

\* A second call that is not a removal's is of no concern.
LEMMA FirstWay ==
  ASSUME OneThread, NamesInv, NEW t \in Threads, Op(t) \notin Removing, NEW s, NEW b,
         FirstOfTwo(t, s, b)
  PROVE  WayInv'
<1>1. PICK new : /\ Becomes(t, new) /\ new.pc = "second" /\ new.req = th[t].req
  BY FirstShape
<1>2. OnWay(new, store')
  BY <1>1 DEF OnWay, Op
<1>. QED BY <1>1, <1>2, BecomesWay

LEMMA AddWay ==
  ASSUME OneThread, NamesInv, NEW t \in Threads, AddName(t)
  PROVE  WayInv'
<1>1. CASE \E err : GiveUp(t, err)
  BY <1>1, EndedWay DEF GiveUp, Answer
<1>2. CASE Gone
  BY <1>2, GoneWay
<1>3. CASE \E s, b : FirstOfTwo(t, s, b)
  <2>1. Op(t) \notin Removing
    BY DEF AddName, Arrived, Making, Removing
  <2>. QED BY <1>3, <2>1, FirstWay
<1>. QED BY <1>1, <1>2, <1>3 DEF AddName

LEMMA WriteWay ==
  ASSUME OneThread, NamesInv, NEW t \in Threads, Write(t)
  PROVE  WayInv'
<1>1. CASE GiveUp(t, "ENOENT")
  BY <1>1, EndedWay DEF GiveUp, Answer
<1>2. ASSUME NEW new, Becomes(t, new), new.pc = "second", new.req = th[t].req
      PROVE  WayInv'
  <2>1. Op(t) \notin Removing
    BY DEF Write, Arrived, Removing
  <2>2. OnWay(new, store')
    BY <1>2, <2>1 DEF OnWay, Op
  <2>. QED BY <1>2, <2>2, BecomesWay
<1>. QED BY <1>1, <1>2, WriteShape

LEMMA RemoveWay ==
  ASSUME OneThread, NamesInv, HomesInv, SaneInv, WayInv, NEW t \in Threads, RemoveName(t)
  PROVE  WayInv'
<1>1. CASE GiveUp(t, "OK")
  BY <1>1, EndedWay DEF GiveUp, Answer
<1>2. CASE /\ ~ DirIsMissing(t) /\ EntryKey(t) # NULL
           /\ FirstOfTwo(t, perform_delete(store, EntryKey(t)),
                         remove_inode_from_path(th[t].blob, Name(t)))
  <2>. DEFINE s == perform_delete(store, EntryKey(t))
              b == remove_inode_from_path(th[t].blob, Name(t))
  <2>1. FirstOfTwo(t, s, b)
    BY <1>2
  <2>. HIDE DEF s, b
  <2>2. PICK new : /\ Becomes(t, new) /\ new.pc = "second" /\ new.req = th[t].req
                   /\ new.blob = b /\ new.since = th[t].since
    BY <2>1, FirstShape
  <2>3. UNCHANGED mixed /\ Changes(s)
    BY <2>1, FirstShape
  <2>4. SUFFICES ASSUME Clean(new, faults', mixed')
                 PROVE  OnWay(new, store')
    BY <2>2, BecomesWay
  <2>5. Busy(t) /\ th[t].pc = "arrived"
    BY DEF RemoveName, Arrived, At, Busy
  <2>6. faults \in Nat /\ faults' \in Nat /\ faults <= faults'
    BY <2>3, FaultsGrow DEF Changes, SaneInv
  <2>7. faults' = faults /\ OnWay(th[t], store)
    BY <2>2, <2>3, <2>4, <2>5, <2>6, WasClean
  <2>8. store' = s
    BY <2>3, <2>6, <2>7 DEF Changes, Fails
  <2>9. /\ Path(t) \in Seq(Names) /\ Path(t) # << >> /\ Name(t) = Last(Path(t))
    BY <2>5, PathOfThread
  <2>10. /\ th[t].blob \in Stock(store) /\ Here(store, KeyAt(store, Front(Path(t))), th[t].blob)
    BY <1>2, <2>5, <2>7, EntryIsKey DEF OnWay, Path
  <2>11. /\ Device(store) /\ Filed(store) /\ NULL \notin DOMAIN store /\ NameBlob(th[t].blob)
    BY DEF NamesInv, Holds, HomesInv, SaneInv, RootFirst
  <2>12. EntryKey(t) = get_inode_from_path(th[t].blob, Last(Path(t)))
    BY <2>9 DEF EntryKey
  <2>13. TakenOut(After(s, b), Path(t))
    BY <1>2, <2>9, <2>10, <2>11, <2>12, TakesOut DEF s, b
  <2>. QED BY <2>2, <2>8, <2>13 DEF OnWay, Path
<1>. QED BY <1>1, <1>2 DEF RemoveName

LEMMA LookWay ==
  ASSUME OneThread, NamesInv, NEW t \in Threads, Look(t)
  PROVE  WayInv'
<1>1. CASE GiveUp(t, EarlyReturn(t))
  BY <1>1, EndedWay DEF GiveUp, Answer
<1>2. CASE \E res \in ReadResults(t, EntryKey(t)) : End(t, res.blob)
  BY <1>2, EndedWay
<1>. QED BY <1>1, <1>2 DEF Look

LEMMA AnswerWay ==
  ASSUME OneThread, NamesInv, WayInv, NEW t \in Threads, NEW r \in Requests, AnswerAtOnce(t, r)
  PROVE  WayInv'
<1>1. UNCHANGED <<store, mixed>>
  BY DEF AnswerAtOnce
<1>2. CASE UNCHANGED <<th, faults>>
  BY <1>1, <1>2 DEF WayInv
<1>3. CASE \E res \in ReadResults(t, root_id) : End(t, res.blob)
  BY <1>3, EndedWay
<1>. QED BY <1>2, <1>3 DEF AnswerAtOnce

LEMMA MountWay ==
  ASSUME SaneInv, Mount
  PROVE  WayInv'
<1>1. \A u \in Threads : th'[u].pc = "idle"
  BY DEF Mount, SaneInv, IdleThread
<1>. QED BY <1>1 DEF WayInv, Clean

LEMMA StepWay ==
  ASSUME OneThread, NamesInv, HomesInv, SaneInv, WayInv, NEW t \in Threads, Step(t)
  PROVE  WayInv'
<1>1. CASE Split(t)
  <2>1. th[t].pc \in {"split", "take"} /\ Follow(t, th[t].left) /\ UNCHANGED mixed
    BY <1>1 DEF Split, At
  <2>2. mixed => mixed'
    BY <2>1
  <2>. QED BY <2>1, <2>2, FollowWay
<1>2. CASE Take(t)
  <2>1. th[t].pc \in {"split", "take"}
    BY <1>2 DEF Take, At
  <2>2. PICK s : Follow(t, s) /\ mixed' = (mixed \/ s # th[t].left)
    BY <1>2 DEF Take
  <2>3. (mixed => mixed') /\ (s # th[t].left => mixed')
    BY <2>2
  <2>. QED BY <2>1, <2>2, <2>3, FollowWay
<1>3. CASE Second(t)
  BY <1>3, EndedWay DEF Second
<1>. QED BY <1>1, <1>2, <1>3, LoadWay, EnterWay, AddWay, RemoveWay, WriteWay, LookWay DEF Step

LEMMA WayInvariant ==
  ASSUME OneThread
  PROVE  CallsSpec => []WayInv
<1>1. NamesInv /\ HomesInv /\ SaneInv /\ WayInv /\ CallsNext => WayInv'
  <2>. SUFFICES ASSUME NamesInv, HomesInv, SaneInv, WayInv, CallsNext PROVE WayInv'
    OBVIOUS
  <2>1. CASE Kill
    BY <2>1, GoneWay DEF Kill
  <2>. QED BY <2>1, MountWay, StepWay, AnswerWay, BeginWay DEF CallsNext
<1>2. WayInv /\ UNCHANGED callVars => WayInv'
  BY DEF callVars, WayInv
<1>3. CallsInit => WayInv
  <2>1. CallsInit => \A t \in Threads : th[t].pc = "idle"
    BY DEF CallsInit, IdleThread
  <2>. QED BY <2>1 DEF WayInv, Clean
<1>. QED BY <1>1, <1>2, <1>3, NamesInvariant, HomesInvariant, SaneInvariant, PTL DEF CallsSpec

----------------------------------------------------------------------------
(* The theorem.                                                            *)

\* The steps with which a thread's removal ends, while the process goes on.
LEMMA RemovalEnds ==
  ASSUME OneThread, NamesInv, CallsNext, NEW t \in Threads,
         Busy(t), Op(t) \in Removing, th'[t].pc = "idle", mounted'
  PROVE  \/ Arrived(t, Removing) /\ GiveUp(t, "OK") /\ (DirIsMissing(t) \/ EntryKey(t) = NULL)
         \/ Second(t)
<1>1. ~ Mount /\ ~ Kill
  <2>1. Mount => UNCHANGED th
    BY DEF Mount
  <2>2. Kill => ~ mounted'
    BY DEF Kill, Gone
  <2>. QED BY <2>1, <2>2 DEF Busy
<1>2. PICK u \in Threads : Step(u) \/ \E r \in Requests : AnswerAtOnce(u, r) \/ Begin(u, r)
  BY <1>1 DEF CallsNext
<1>3. u = t
  BY DEF OneThread
<1>4. Step(t)
  BY <1>2, <1>3 DEF AnswerAtOnce, Begin, Sent, At, Busy
<1>5. ASSUME NEW new, Becomes(t, new), new.pc # "idle"
      PROVE  FALSE
  BY <1>5 DEF Becomes, NamesInv
<1>6. ~ Split(t)
  BY <1>5, FollowShape DEF Split
<1>7. ~ Load(t)
  BY <1>5, LoadShape
<1>8. ~ Take(t)
  BY <1>5, FollowShape DEF Take
<1>9. ~ Enter1(t)
  BY <1>5, EnterShape
<1>10. ~ AddName(t) /\ ~ Write(t) /\ ~ Look(t)
  BY DEF AddName, Write, Look, Arrived, Making, Removing
<1>11. \A s, b : ~ FirstOfTwo(t, s, b)
  BY <1>5, FirstShape
<1>. QED BY <1>4, <1>6, <1>7, <1>8, <1>9, <1>10, <1>11 DEF Step, RemoveName

LEMMA InHand ==
  ASSUME NamesInv, SaneInv, NEW t \in Threads
  PROVE  /\ th[t].blob.sub_items \in Seq(Item)
         /\ th[t].since \in Nat /\ th[t].since <= faults /\ faults \in Nat
BY DEF NamesInv, Holds, NameBlob, Distinct, SaneInv, Sane

\* With one thread, whatever earlier failures left on the device: a removal
\* during which no call fails leaves no entry of the name where its path leads
\* (hello_unlink, hello_rmdir).
THEOREM RemovalsStick ==
  ASSUME OneThread
  PROVE  CallsSpec => RemovalSticks
<1>1. NamesInv /\ HomesInv /\ SaneInv /\ WayInv /\ [CallsNext]_callVars
        => [\A t \in Threads :
              /\ Busy(t) /\ Op(t) \in Removing /\ th'[t].pc = "idle"
              /\ mounted' /\ faults' = th[t].since /\ ~ mixed
              => LET k == KeyAt(store', Front(Path(t)))
                 IN  k \in DOMAIN store' => ~ has_path(Blobs'[k], Name(t))]_callVars
  <2>1. SUFFICES ASSUME NamesInv, HomesInv, SaneInv, WayInv, CallsNext, NEW t \in Threads,
                        Busy(t), Op(t) \in Removing, th'[t].pc = "idle",
                        mounted', faults' = th[t].since, ~ mixed
                 PROVE  LET k == KeyAt(store', Front(Path(t)))
                        IN  k \in DOMAIN store' => ~ has_path(Blobs'[k], Name(t))
    OBVIOUS
  <2>2. Path(t) \in Seq(Names) /\ Path(t) # << >> /\ Name(t) = Last(Path(t))
    BY <2>1, PathOfThread
  <2>3. th[t].since \in Nat /\ th[t].since <= faults /\ faults \in Nat
    BY <2>1, InHand
  <2>4. Clean(th[t], faults, mixed) <=> faults = th[t].since
    BY <2>1 DEF Clean, Busy
  <2>5. TakenOut(store', Path(t))
    <3>1. CASE Arrived(t, Removing) /\ GiveUp(t, "OK") /\ (DirIsMissing(t) \/ EntryKey(t) = NULL)
      <4>. DEFINE b == th[t].blob
      <4>1. store' = store /\ faults' = faults
        BY <3>1 DEF GiveUp, Answer
      <4>2. OnWay(th[t], store) /\ th[t].pc = "arrived"
        BY <2>1, <2>4, <3>1, <4>1 DEF WayInv, Arrived, At
      <4>3. Here(store, KeyAt(store, Front(Path(t))), b)
        BY <4>2 DEF OnWay, Path
      <4>4. b.sub_items \in Seq(Item)
        BY <2>1, InHand
      <4>5. get_inode_from_path(b, Last(Path(t))) = NULL
        <5>1. get_inode_from_path(NoBlob, Last(Path(t))) = NULL
          <6>1. NoBlob.sub_items = << >> /\ << >> \in Seq(Item) /\ \A j \in 1..Len(<< >>) : FALSE
            BY DEF NoBlob, ZeroBlob
          <6>. QED BY <6>1, InodeOfEntry
        <5>. QED BY <2>2, <3>1, <5>1 DEF DirIsMissing, EntryKey
      <4>. HIDE DEF b
      <4>6. ~ has_path(b, Last(Path(t)))
        BY <4>4, <4>5, InodeOfEntry, BlobAssumption DEF Keys
      <4>. QED BY <4>1, <4>3, <4>6 DEF TakenOut, Here
    <3>2. CASE Second(t)
      <4>1. Changes(After(store, th[t].blob)) /\ th[t].pc = "second"
        BY <3>2 DEF Second, At, Stored1, After
      <4>2. store' = After(store, th[t].blob) /\ faults' = faults
        BY <2>1, <2>3, <4>1 DEF Changes, Fails
      <4>3. OnWay(th[t], store)
        BY <2>1, <2>4, <4>2 DEF WayInv
      <4>. QED BY <2>1, <4>1, <4>2, <4>3 DEF OnWay, Op, Path
    <3>. QED BY <2>1, <3>1, <3>2, RemovalEnds
  <2>6. \A k \in DOMAIN store' : Blobs'[k] = get_blob_from_key(store', k)
    BY DEF Blobs
  <2>. QED BY <2>2, <2>5, <2>6 DEF TakenOut
<1>. QED BY <1>1, NamesInvariant, HomesInvariant, SaneInvariant, WayInvariant, PTL
            DEF CallsSpec, RemovalSticks

----------------------------------------------------------------------------
(* The keys whose entries lead nowhere.                                    *)

\* The keys in the entries of a blob, and in what is read back of it once it is
\* stored: what is no directory is read without entries.
Inside(b) == {b.sub_items[i].inodeid : i \in 1..Len(b.sub_items)}
Keeps(b)  == IF b.is_dir = ISDIR THEN Inside(b) ELSE {}

Within(s, k) == Inside(get_blob_from_key(s, k))
Linked(s)    == UNION {Within(s, k) : k \in DOMAIN s}
Nowhere(s)   == Linked(s) \ DOMAIN s

AtMost(X, n) == IsFiniteSet(X) /\ Cardinality(X) <= n

LEMMA FewerThan ==
  ASSUME NEW X, NEW n \in Nat, AtMost(X, n), NEW Y, Y \subseteq X, NEW m \in Nat, n <= m
  PROVE  AtMost(Y, m)
<1>1. IsFiniteSet(Y) /\ Cardinality(Y) <= Cardinality(X)
  BY FS_Subset DEF AtMost
<1>2. Cardinality(X) \in Nat /\ Cardinality(Y) \in Nat
  BY <1>1, FS_CardinalityType DEF AtMost
<1>. QED BY <1>1, <1>2 DEF AtMost

LEMMA OneMore ==
  ASSUME NEW X, NEW n \in Nat, AtMost(X, n), NEW x, NEW Y, Y \subseteq X \cup {x}
  PROVE  AtMost(Y, n + 1)
<1>1. IsFiniteSet(X \cup {x}) /\ Cardinality(X \cup {x}) <= Cardinality(X) + 1
        /\ Cardinality(X) \in Nat
  <2>1. IsFiniteSet(X) /\ Cardinality(X) <= n
    BY DEF AtMost
  <2>2. IsFiniteSet(X \cup {x})
          /\ Cardinality(X \cup {x}) = IF x \in X THEN Cardinality(X) ELSE Cardinality(X) + 1
    BY <2>1, FS_AddElement
  <2>3. Cardinality(X) \in Nat
    BY <2>1, FS_CardinalityType
  <2>. QED BY <2>2, <2>3
<1>2. Cardinality(X \cup {x}) \in Nat
  BY <1>1, FS_CardinalityType
<1>3. AtMost(X \cup {x}, n + 1) /\ n + 1 \in Nat
  BY <1>1, <1>2 DEF AtMost
<1>. QED BY <1>3, FewerThan

LEMMA InNowhere ==
  ASSUME NEW s, NEW e
  PROVE  e \in Nowhere(s) <=> e \notin DOMAIN s /\ \E x \in DOMAIN s : e \in Within(s, x)
<1>1. e \in Linked(s) <=> \E x \in DOMAIN s : e \in Within(s, x)
  BY DEF Linked
<1>. QED BY <1>1 DEF Nowhere

LEMMA KeptReadBack ==
  ASSUME NEW b, NameBlob(b)
  PROVE  Inside(convert_to_blob(convert_to_write_blob(b))) = Keeps(b)
<1>. DEFINE w == convert_to_write_blob(b)
            c == convert_to_blob(w)
<1>1. w.is_dir = b.is_dir /\ w.num_items = Len(b.sub_items)
        /\ w.data = IF b.is_dir = NOTDIR THEN b.data ELSE b.sub_items
  BY DEF convert_to_write_blob
<1>2. SubSeq(b.sub_items, 1, Len(b.sub_items)) = b.sub_items
  BY SubSeqFull DEF NameBlob, Distinct
<1>. HIDE DEF w
<1>3. c.sub_items = IF b.is_dir = ISDIR THEN b.sub_items ELSE << >>
  <2>1. CASE b.is_dir = ISDIR
    <3>1. w.data = b.sub_items
      BY <1>1, <2>1 DEF ISDIR, NOTDIR
    <3>. QED BY <1>1, <1>2, <2>1, <3>1 DEF convert_to_blob
  <2>2. CASE b.is_dir # ISDIR
    BY <1>1, <2>2 DEF convert_to_blob
  <2>. QED BY <2>1, <2>2
<1>. HIDE DEF c
<1>4. 1..Len(<< >>) = {}
  OBVIOUS
<1>5. Inside(c) = Keeps(b)
  BY <1>3, <1>4 DEF Inside, Keeps
<1>. QED BY <1>5 DEF c, w

LEMMA KeptOfRead ==
  ASSUME NEW s, NEW k
  PROVE  Keeps(get_blob_from_key(s, k)) = Within(s, k)
<1>. DEFINE b == get_blob_from_key(s, k)
<1>1. b.is_dir = ISDIR \/ b.sub_items = << >>
  BY DEF get_blob_from_key, convert_to_blob
<1>2. 1..Len(<< >>) = {}
  OBVIOUS
<1>. HIDE DEF b
<1>3. Keeps(b) = Inside(b)
  BY <1>1, <1>2 DEF Keeps, Inside
<1>. QED BY <1>3 DEF b, Within

LEMMA AfterHolds ==
  ASSUME NEW s, NULL \notin DOMAIN s, NEW b, NameBlob(b)
  PROVE  /\ NULL \notin DOMAIN After(s, b)
         /\ \A x : x \in DOMAIN After(s, b) <=> x \in DOMAIN s \/ (x = b.inodeid /\ x # NULL)
         /\ \A x \in DOMAIN After(s, b) :
              Within(After(s, b), x) = IF x = b.inodeid THEN Keeps(b) ELSE Within(s, x)
<1>1. CASE b.inodeid = NULL
  BY <1>1 DEF After
<1>2. CASE b.inodeid # NULL
  <2>. DEFINE u == write_to_dict(s, b.inodeid, b)
  <2>1. After(s, b) = u
    BY <1>2 DEF After
  <2>2. /\ DOMAIN u = DOMAIN s \cup {b.inodeid}
        /\ \A x \in DOMAIN u : u[x] = IF x = b.inodeid THEN convert_to_write_blob(b) ELSE s[x]
    BY DEF write_to_dict, perform_insertion
  <2>. HIDE DEF u
  <2>3. \A x \in DOMAIN u : get_blob_from_key(u, x)
          = IF x = b.inodeid THEN convert_to_blob(convert_to_write_blob(b))
                             ELSE get_blob_from_key(s, x)
    BY <2>2 DEF get_blob_from_key, perform_read
  <2>4. \A x \in DOMAIN u : Within(u, x) = IF x = b.inodeid THEN Keeps(b) ELSE Within(s, x)
    BY <2>3, KeptReadBack DEF Within
  <2>. QED BY <1>2, <2>1, <2>2, <2>4
<1>. QED BY <1>1, <1>2

\* Storing a blob under the key of another, with at most the keys X more.
LEMMA Narrower ==
  ASSUME NEW s, NULL \notin DOMAIN s, NEW b, NameBlob(b), NEW c, NameBlob(c),
         c.inodeid = b.inodeid, NEW X, Keeps(c) \subseteq Keeps(b) \cup X
  PROVE  /\ Nowhere(After(s, c)) \subseteq Nowhere(After(s, b)) \cup X
         /\ Nowhere(After(After(s, c), b)) \subseteq Nowhere(After(s, b))
<1>. DEFINE u == After(s, b)
            v == After(s, c)
            w == After(v, b)
<1>1. /\ NULL \notin DOMAIN u
      /\ \A x : x \in DOMAIN u <=> x \in DOMAIN s \/ (x = b.inodeid /\ x # NULL)
      /\ \A x \in DOMAIN u : Within(u, x) = IF x = b.inodeid THEN Keeps(b) ELSE Within(s, x)
  BY AfterHolds
<1>2. /\ NULL \notin DOMAIN v
      /\ \A x : x \in DOMAIN v <=> x \in DOMAIN s \/ (x = c.inodeid /\ x # NULL)
      /\ \A x \in DOMAIN v : Within(v, x) = IF x = c.inodeid THEN Keeps(c) ELSE Within(s, x)
  BY AfterHolds
<1>. HIDE DEF u, v
<1>3. /\ \A x : x \in DOMAIN w <=> x \in DOMAIN v \/ (x = b.inodeid /\ x # NULL)
      /\ \A x \in DOMAIN w : Within(w, x) = IF x = b.inodeid THEN Keeps(b) ELSE Within(v, x)
  BY <1>2, AfterHolds
<1>. HIDE DEF w
<1>4. ASSUME NEW e \in Nowhere(v)
      PROVE  e \in Nowhere(u) \cup X
  <2>1. e \notin DOMAIN v /\ \E x \in DOMAIN v : e \in Within(v, x)
    BY <1>4, InNowhere
  <2>2. PICK x \in DOMAIN v : e \in Within(v, x)
    BY <2>1
  <2>3. x \in DOMAIN u /\ e \notin DOMAIN u
    BY <1>1, <1>2, <2>1
  <2>4. e \in Within(u, x) \/ e \in X
    BY <1>1, <1>2, <2>2, <2>3
  <2>. QED BY <2>3, <2>4, InNowhere
<1>5. ASSUME NEW e \in Nowhere(w)
      PROVE  e \in Nowhere(u)
  <2>1. e \notin DOMAIN w /\ \E x \in DOMAIN w : e \in Within(w, x)
    BY <1>5, InNowhere
  <2>2. PICK x \in DOMAIN w : e \in Within(w, x)
    BY <2>1
  <2>3. x \in DOMAIN u /\ e \notin DOMAIN u
    BY <1>1, <1>2, <1>3, <2>1
  <2>4. e \in Within(u, x)
    BY <1>1, <1>2, <1>3, <2>2, <2>3
  <2>. QED BY <2>3, <2>4, InNowhere
<1>. QED BY <1>4, <1>5 DEF u, v, w

\* What is read leads where it leads on the device.
LEMMA Reread ==
  ASSUME NEW s, NULL \notin DOMAIN s, Filed(s), Device(s), NEW k \in DOMAIN s
  PROVE  Nowhere(After(s, get_blob_from_key(s, k))) \subseteq Nowhere(s)
<1>. DEFINE b == get_blob_from_key(s, k)
            u == After(s, b)
<1>1. NameBlob(b) /\ b.inodeid = k /\ Keeps(b) = Within(s, k)
  BY KeptOfRead DEF Filed, Device
<1>. HIDE DEF b
<1>2. /\ \A x : x \in DOMAIN u <=> x \in DOMAIN s \/ (x = b.inodeid /\ x # NULL)
      /\ \A x \in DOMAIN u : Within(u, x) = IF x = b.inodeid THEN Keeps(b) ELSE Within(s, x)
  BY <1>1, AfterHolds
<1>. HIDE DEF u
<1>3. \A x : x \in DOMAIN u <=> x \in DOMAIN s
  BY <1>1, <1>2
<1>4. \A x \in DOMAIN u : Within(u, x) = Within(s, x)
  BY <1>1, <1>2
<1>5. ASSUME NEW e \in Nowhere(u)
      PROVE  e \in Nowhere(s)
  BY <1>3, <1>4, <1>5, InNowhere
<1>. QED BY <1>5 DEF u, b

\* A blob without entries costs nothing, and makes its own key one that leads
\* somewhere.
LEMMA Supplied ==
  ASSUME NEW s, NULL \notin DOMAIN s, NEW c, NameBlob(c), Keeps(c) = {}, c.inodeid # NULL
  PROVE  /\ Nowhere(After(s, c)) \subseteq Nowhere(s) \ {c.inodeid}
         /\ NULL \notin DOMAIN After(s, c)
<1>. DEFINE u == After(s, c)
<1>1. /\ NULL \notin DOMAIN u
      /\ \A x : x \in DOMAIN u <=> x \in DOMAIN s \/ (x = c.inodeid /\ x # NULL)
      /\ \A x \in DOMAIN u : Within(u, x) = IF x = c.inodeid THEN Keeps(c) ELSE Within(s, x)
  BY AfterHolds
<1>. HIDE DEF u
<1>2. ASSUME NEW e \in Nowhere(u)
      PROVE  e \in Nowhere(s) \ {c.inodeid}
  <2>1. PICK x \in DOMAIN u : e \in Within(u, x)
    BY <1>2, InNowhere
  <2>2. e \notin DOMAIN s /\ e # c.inodeid
    BY <1>1, <1>2, InNowhere
  <2>3. x \in DOMAIN s /\ e \in Within(s, x)
    BY <1>1, <2>1
  <2>. QED BY <2>2, <2>3, InNowhere
<1>. QED BY <1>1, <1>2 DEF u

\* The same with another blob, which is stored over it.
LEMMA SuppliedUnder ==
  ASSUME NEW s, NULL \notin DOMAIN s, NEW b, NameBlob(b),
         NEW c, NameBlob(c), Keeps(c) = {}, c.inodeid # NULL
  PROVE  Nowhere(After(After(s, c), b)) \subseteq Nowhere(After(s, b)) \ {c.inodeid}
<1>. DEFINE u == After(s, b)
            v == After(s, c)
            w == After(v, b)
<1>1. /\ \A x : x \in DOMAIN u <=> x \in DOMAIN s \/ (x = b.inodeid /\ x # NULL)
      /\ \A x \in DOMAIN u : Within(u, x) = IF x = b.inodeid THEN Keeps(b) ELSE Within(s, x)
  BY AfterHolds
<1>2. /\ NULL \notin DOMAIN v
      /\ \A x : x \in DOMAIN v <=> x \in DOMAIN s \/ (x = c.inodeid /\ x # NULL)
      /\ \A x \in DOMAIN v : Within(v, x) = IF x = c.inodeid THEN Keeps(c) ELSE Within(s, x)
  BY AfterHolds
<1>. HIDE DEF u, v
<1>3. /\ \A x : x \in DOMAIN w <=> x \in DOMAIN v \/ (x = b.inodeid /\ x # NULL)
      /\ \A x \in DOMAIN w : Within(w, x) = IF x = b.inodeid THEN Keeps(b) ELSE Within(v, x)
  BY <1>2, AfterHolds
<1>. HIDE DEF w
<1>4. ASSUME NEW e \in Nowhere(w)
      PROVE  e \in Nowhere(u) \ {c.inodeid}
  <2>1. PICK x \in DOMAIN w : e \in Within(w, x)
    BY <1>4, InNowhere
  <2>2. e \notin DOMAIN w
    BY <1>4, InNowhere
  <2>3. e \notin DOMAIN u /\ e # c.inodeid
    BY <1>1, <1>2, <1>3, <2>2
  <2>4. x \in DOMAIN u /\ e \in Within(u, x)
    <3>1. CASE x = b.inodeid
      BY <1>1, <1>3, <2>1, <3>1, <1>2
    <3>2. CASE x # b.inodeid
      BY <1>1, <1>2, <1>3, <2>1, <3>2
    <3>. QED BY <3>1, <3>2
  <2>. QED BY <2>3, <2>4, InNowhere
<1>. QED BY <1>4 DEF u, v, w

\* A blob that is deleted leaves its entry behind, until the directory is stored
\* without it.
LEMMA Emptied ==
  ASSUME NEW s, NULL \notin DOMAIN s, NEW b, NameBlob(b), NEW c, NameBlob(c),
         c.inodeid = b.inodeid, NEW k, Keeps(c) \subseteq Keeps(b) \ {k},
         \A x \in DOMAIN s : k \in Within(s, x) => x = b.inodeid
  PROVE  LET u == perform_delete(s, k)
         IN  /\ NULL \notin DOMAIN u
             /\ Nowhere(u) \subseteq Nowhere(s) \cup {k}
             /\ Nowhere(After(u, c)) \subseteq Nowhere(After(s, b))
             /\ Nowhere(After(u, b)) \subseteq Nowhere(After(s, b)) \cup {k}
<1>. DEFINE u == perform_delete(s, k)
            v == After(s, b)
            w == After(u, c)
            z == After(u, b)
<1>1. /\ DOMAIN u = DOMAIN s \ {k} /\ NULL \notin DOMAIN u
      /\ \A x \in DOMAIN u : Within(u, x) = Within(s, x)
  BY DEF perform_delete, Within, get_blob_from_key, perform_read
<1>. HIDE DEF u
<1>2. /\ \A x : x \in DOMAIN v <=> x \in DOMAIN s \/ (x = b.inodeid /\ x # NULL)
      /\ \A x \in DOMAIN v : Within(v, x) = IF x = b.inodeid THEN Keeps(b) ELSE Within(s, x)
  BY AfterHolds
<1>3. /\ \A x : x \in DOMAIN w <=> x \in DOMAIN u \/ (x = c.inodeid /\ x # NULL)
      /\ \A x \in DOMAIN w : Within(w, x) = IF x = c.inodeid THEN Keeps(c) ELSE Within(u, x)
  BY <1>1, AfterHolds
<1>4. /\ \A x : x \in DOMAIN z <=> x \in DOMAIN u \/ (x = b.inodeid /\ x # NULL)
      /\ \A x \in DOMAIN z : Within(z, x) = IF x = b.inodeid THEN Keeps(b) ELSE Within(u, x)
  BY <1>1, AfterHolds
<1>. HIDE DEF v, w, z
<1>5. ASSUME NEW e \in Nowhere(u)
      PROVE  e \in Nowhere(s) \cup {k}
  <2>1. PICK x \in DOMAIN u : e \in Within(u, x)
    BY <1>5, InNowhere
  <2>2. e \notin DOMAIN u
    BY <1>5, InNowhere
  <2>. QED BY <1>1, <2>1, <2>2, InNowhere
<1>6. ASSUME NEW e \in Nowhere(w)
      PROVE  e \in Nowhere(v)
  <2>1. PICK x \in DOMAIN w : e \in Within(w, x)
    BY <1>6, InNowhere
  <2>2. e \notin DOMAIN w
    BY <1>6, InNowhere
  <2>3. x \in DOMAIN v
    BY <1>1, <1>2, <1>3, <2>1
  <2>4. e # k /\ e \in Within(v, x)
    <3>1. CASE x = b.inodeid
      BY <1>2, <1>3, <2>1, <2>3, <3>1
    <3>2. CASE x # b.inodeid
      BY <1>1, <1>2, <1>3, <2>1, <2>3, <3>2
    <3>. QED BY <3>1, <3>2
  <2>5. e \notin DOMAIN v
    BY <1>1, <1>2, <1>3, <2>2, <2>4
  <2>. QED BY <2>3, <2>4, <2>5, InNowhere
<1>7. ASSUME NEW e \in Nowhere(z)
      PROVE  e \in Nowhere(v) \cup {k}
  <2>1. PICK x \in DOMAIN z : e \in Within(z, x)
    BY <1>7, InNowhere
  <2>2. e \notin DOMAIN z
    BY <1>7, InNowhere
  <2>3. x \in DOMAIN v /\ e \in Within(v, x)
    BY <1>1, <1>2, <1>4, <2>1
  <2>4. e = k \/ e \notin DOMAIN v
    BY <1>1, <1>2, <1>4, <2>2
  <2>. QED BY <2>3, <2>4, InNowhere
<1>. QED BY <1>1, <1>5, <1>6, <1>7 DEF u, v, w, z

LEMMA EntryTakenOut ==
  ASSUME NEW b, NameBlob(b), KeysApart(b), NEW name, get_inode_from_path(b, name) # NULL
  PROVE  LET k == get_inode_from_path(b, name)
         IN  /\ k \in Inside(b)
             /\ Keeps(remove_inode_from_path(b, name)) \subseteq Keeps(b) \ {k}
<1>. DEFINE n == Position(b, name)
            c == remove_inode_from_path(b, name)
            k == get_inode_from_path(b, name)
            was(j) == IF j < n THEN j ELSE j + 1
<1>1. b.sub_items \in Seq(Item)
  BY DEF NameBlob, Distinct
<1>2. n # 0 /\ k = b.sub_items[n].inodeid
  BY DEF get_inode_from_path
<1>3. n \in 1..Len(b.sub_items)
  BY <1>1, <1>2, PositionFound
<1>4. c = [b EXCEPT !.sub_items = RemoveAt(@, n)]
  BY <1>2 DEF remove_inode_from_path, has_path
<1>5. c.is_dir = b.is_dir /\ c.sub_items = RemoveAt(b.sub_items, n)
  BY <1>4 DEF NameBlob, IsBlob
<1>. HIDE DEF n, c, k
<1>6. /\ Len(RemoveAt(b.sub_items, n)) = Len(b.sub_items) - 1
      /\ \A j \in 1..(Len(b.sub_items) - 1) :
           RemoveAt(b.sub_items, n)[j] = IF j < n THEN b.sub_items[j] ELSE b.sub_items[j+1]
  BY <1>1, <1>3, RemoveAtShifts
<1>7. Len(b.sub_items) \in Nat /\ n \in Nat
  BY <1>1, <1>3
<1>8. ASSUME NEW j \in 1..Len(c.sub_items)
      PROVE  was(j) \in 1..Len(b.sub_items) /\ c.sub_items[j] = b.sub_items[was(j)]
               /\ was(j) # n
  BY <1>5, <1>6, <1>7
<1>. HIDE DEF was
<1>9. ASSUME NEW e \in Inside(c)
      PROVE  e \in Inside(b) /\ e # k
  <2>1. PICK j \in 1..Len(c.sub_items) : e = c.sub_items[j].inodeid
    BY <1>9 DEF Inside
  <2>2. was(j) \in 1..Len(b.sub_items) /\ e = b.sub_items[was(j)].inodeid /\ was(j) # n
    BY <1>8, <2>1
  <2>. QED BY <1>2, <1>3, <2>2 DEF Inside, KeysApart
<1>10. k \in Inside(b)
  BY <1>2, <1>3 DEF Inside
<1>11. Keeps(c) \subseteq Keeps(b) \ {k}
  BY <1>5, <1>9 DEF Keeps
<1>. QED BY <1>10, <1>11 DEF c, k

LEMMA EntryPutIn ==
  ASSUME NEW b, NameBlob(b), NEW item
  PROVE  LET d == [b EXCEPT !.sub_items = Append(@, item)]
         IN  Keeps(d) \subseteq Keeps(b) \cup {item.inodeid}
<1>. DEFINE items == Append(b.sub_items, item)
            d     == [b EXCEPT !.sub_items = items]
<1>1. \A i \in 1..Len(items) :
        items[i] = item \/ (i \in 1..Len(b.sub_items) /\ items[i] = b.sub_items[i])
  BY DEF NameBlob, Distinct
<1>. HIDE DEF items
<1>2. d.is_dir = b.is_dir /\ d.sub_items = items
  BY DEF NameBlob, IsBlob
<1>. HIDE DEF d
<1>3. \A e \in Inside(d) : e \in Inside(b) \cup {item.inodeid}
  BY <1>1, <1>2 DEF Inside
<1>4. Keeps(d) \subseteq Keeps(b) \cup {item.inodeid}
  BY <1>2, <1>3 DEF Keeps
<1>. QED BY <1>4 DEF d, items

----------------------------------------------------------------------------
(* What the device may become, whatever a thread goes on to do.            *)

\* A blob without a key has no entries.
Bodied(b) == b.inodeid = NULL => b.sub_items = << >>

\* What the blob in hand and the one on the stack would leave, if they were
\* stored: a read that fails costs what the stack's blob does.
Traced(r, s, n) ==
  /\ Bodied(r.wb) /\ AtMost(Nowhere(After(s, r.wb)), n + 1)
  /\ r.pc \notin {"idle", "second"} =>
       r.blob \in {r.wb, NoBlob} /\ AtMost(Nowhere(After(s, r.wb)), n)
  /\ r.pc = "second" => /\ AtMost(Nowhere(s), n + 1)
                        /\ AtMost(Nowhere(After(s, r.blob)), n)
                        /\ AtMost(Nowhere(After(After(s, r.blob), r.wb)), n + 1)

FaultInv ==
  mounted => /\ (\A t \in Threads : th[t].pc # "second") => AtMost(Nowhere(store), faults)
             /\ \A t \in Threads : Traced(th[t], store, faults)

\* What a thread finds.
Between(t) == mounted /\ th[t].pc # "second"

LEMMA BetweenCalls ==
  ASSUME OneThread, SaneInv, FaultInv, NEW t \in Threads, Between(t)
  PROVE  /\ faults \in Nat /\ AtMost(Nowhere(store), faults) /\ Bodied(th[t].wb)
         /\ AtMost(Nowhere(After(store, th[t].wb)), faults + 1)
         /\ Busy(t) => /\ th[t].blob \in {th[t].wb, NoBlob}
                       /\ AtMost(Nowhere(After(store, th[t].wb)), faults)
<1>1. mounted /\ \A u \in Threads : th[u].pc # "second"
  BY DEF OneThread, Between
<1>. QED BY <1>1 DEF FaultInv, Traced, Busy, SaneInv

LEMMA BecomesFault ==
  ASSUME OneThread, NamesInv, NEW t \in Threads, NEW new, Becomes(t, new),
         Traced(new, store', faults'),
         new.pc = "second" \/ AtMost(Nowhere(store'), faults')
  PROVE  FaultInv'
<1>1. \A u \in Threads : th'[u] = new
  BY DEF NamesInv, Becomes, OneThread
<1>. QED BY <1>1 DEF FaultInv

LEMMA NothingLeads ==
  ASSUME NEW s
  PROVE  After(s, ZeroBlob) = s /\ Bodied(ZeroBlob)
BY DEF After, ZeroBlob, Bodied

\* The next blob on the stack.
LEMMA ReadFault ==
  ASSUME OneThread, NamesInv, HomesInv, SaneInv, FaultInv, NEW t \in Threads, Between(t),
         NEW k, Busy(t) \/ k = root_id, NEW res \in ReadResults(t, k), Fails(res.failed)
  PROVE  /\ Bodied(res.blob) /\ NameBlob(res.blob) /\ faults' \in Nat /\ faults <= faults'
         /\ AtMost(Nowhere(store), faults')
         /\ AtMost(Nowhere(After(store, res.blob)), faults')
<1>1. /\ faults \in Nat /\ AtMost(Nowhere(store), faults) /\ Bodied(th[t].wb)
      /\ AtMost(Nowhere(After(store, th[t].wb)), faults + 1)
      /\ Busy(t) => AtMost(Nowhere(After(store, th[t].wb)), faults)
  BY BetweenCalls
<1>2. /\ root_id \in DOMAIN store \/ res.blob = ZeroBlob
      /\ res.failed \in {0, 1}
  BY ReadSane
<1>3. /\ faults' \in Nat /\ faults <= faults' /\ faults' = faults + res.failed
  BY <1>1, <1>2 DEF Fails
<1>4. \/ /\ k \in DOMAIN store /\ res.blob = get_blob_from_key(store, k)
      \/ res.failed = 1 /\ res.blob \in {th[t].wb, ZeroBlob}
      \/ k \notin DOMAIN store /\ res.failed = 0 /\ res.blob \in {th[t].wb, ZeroBlob}
  BY DEF ReadResults
<1>5. AtMost(Nowhere(store), faults')
  BY <1>1, <1>3, FewerThan
<1>6. CASE res.blob = ZeroBlob
  BY <1>3, <1>5, <1>6, NothingLeads, EmptyNames
<1>7. CASE k \in DOMAIN store /\ res.blob = get_blob_from_key(store, k)
  <2>1. NULL \notin DOMAIN store /\ Filed(store) /\ Device(store)
    BY DEF SaneInv, RootFirst, HomesInv, NamesInv
  <2>2. Nowhere(After(store, res.blob)) \subseteq Nowhere(store)
    BY <1>7, <2>1, Reread
  <2>3. Bodied(res.blob) /\ NameBlob(res.blob)
    BY <1>7, <2>1 DEF Bodied, Filed, Device
  <2>. QED BY <1>1, <1>3, <1>5, <2>2, <2>3, FewerThan
<1>8. CASE /\ res.blob # ZeroBlob
           /\ ~ (k \in DOMAIN store /\ res.blob = get_blob_from_key(store, k))
  <2>1. res.blob = th[t].wb /\ (Busy(t) \/ res.failed = 1)
    BY <1>2, <1>4, <1>8
  <2>2. AtMost(Nowhere(After(store, res.blob)), faults')
    <3>1. CASE res.failed = 1
      BY <1>1, <1>3, <2>1, <3>1
    <3>2. CASE Busy(t)
      BY <1>1, <1>3, <2>1, <3>2, FewerThan
    <3>. QED BY <2>1, <3>1, <3>2
  <2>3. NameBlob(th[t].wb)
    BY DEF NamesInv, Holds
  <2>. QED BY <1>1, <1>3, <1>5, <2>1, <2>2, <2>3
<1>. QED BY <1>6, <1>7, <1>8

----------------------------------------------------------------------------
(* The steps.                                                              *)

LEMMA EndedFault ==
  ASSUME OneThread, NamesInv, NEW t \in Threads, NEW wb, End(t, wb), Bodied(wb),
         faults' \in Nat, AtMost(Nowhere(store'), faults'),
         AtMost(Nowhere(After(store', wb)), faults' + 1)
  PROVE  FaultInv'
<1>1. PICK v \in {wb, ZeroBlob} : th' = [th EXCEPT ![t] = [IdleThread EXCEPT !.wb = v]]
  BY DEF End
<1>. DEFINE new == [IdleThread EXCEPT !.wb = v]
<1>2. DOMAIN new = Fields /\ new.pc = "idle" /\ new.wb = v
  BY DEF IdleThread, Fields
<1>3. Becomes(t, new)
  BY <1>1, <1>2 DEF Becomes
<1>. HIDE DEF new
<1>4. AtMost(Nowhere(store'), faults' + 1)
  BY FewerThan
<1>5. Bodied(v) /\ AtMost(Nowhere(After(store', v)), faults' + 1)
  <2>1. CASE v = wb
    BY <2>1
  <2>2. CASE v = ZeroBlob
    BY <1>4, <2>2, NothingLeads
  <2>. QED BY <2>1, <2>2
<1>6. Traced(new, store', faults')
  BY <1>2, <1>5 DEF Traced
<1>. QED BY <1>3, <1>6, BecomesFault

\* A handler that gives up leaves everything as it is.
LEMMA GivenUpFault ==
  ASSUME OneThread, NamesInv, SaneInv, FaultInv, NEW t \in Threads, Between(t),
         NEW err, GiveUp(t, err)
  PROVE  FaultInv'
<1>1. End(t, th[t].wb) /\ UNCHANGED <<store, faults>>
  BY DEF GiveUp, Answer
<1>. QED BY <1>1, BetweenCalls, EndedFault

LEMMA ShownFault ==
  ASSUME OneThread, NamesInv, HomesInv, SaneInv, FaultInv, NEW t \in Threads, Between(t),
         NEW k, Busy(t) \/ k = root_id, NEW res \in ReadResults(t, k), Fails(res.failed),
         End(t, res.blob), UNCHANGED store
  PROVE  FaultInv'
<1>1. /\ Bodied(res.blob) /\ faults' \in Nat /\ AtMost(Nowhere(store), faults')
      /\ AtMost(Nowhere(After(store, res.blob)), faults')
  BY ReadFault
<1>2. AtMost(Nowhere(After(store, res.blob)), faults' + 1)
  BY <1>1, FewerThan
<1>. QED BY <1>1, <1>2, EndedFault

\* A thread that goes on looking, with what it has read or had.
LEMMA LookingFault ==
  ASSUME OneThread, NamesInv, NEW t \in Threads, UNCHANGED store,
         NEW new, Becomes(t, new), new.pc \notin {"idle", "second"},
         new.blob \in {new.wb, NoBlob}, Bodied(new.wb), faults' \in Nat,
         AtMost(Nowhere(store), faults'), AtMost(Nowhere(After(store, new.wb)), faults')
  PROVE  FaultInv'
<1>1. AtMost(Nowhere(After(store, new.wb)), faults' + 1)
  BY FewerThan
<1>2. Traced(new, store', faults')
  BY <1>1 DEF Traced
<1>. QED BY <1>2, BecomesFault

LEMMA BeginFault ==
  ASSUME OneThread, NamesInv, HomesInv, SaneInv, FaultInv, NEW t \in Threads,
         NEW r \in Requests, Begin(t, r)
  PROVE  FaultInv'
<1>1. PICK new, res :
        /\ res \in ReadResults(t, root_id) /\ Fails(res.failed)
        /\ Becomes(t, new) /\ new.pc = "split"
        /\ new.blob = res.blob /\ new.wb = res.blob
  BY BeginShape
<1>2. Between(t) /\ UNCHANGED store
  BY DEF Begin, Sent, At, Between
<1>3. /\ Bodied(res.blob) /\ faults' \in Nat /\ AtMost(Nowhere(store), faults')
      /\ AtMost(Nowhere(After(store, res.blob)), faults')
  BY <1>1, <1>2, ReadFault
<1>. QED BY <1>1, <1>2, <1>3, LookingFault

LEMMA FollowFault ==
  ASSUME OneThread, NamesInv, SaneInv, FaultInv, NEW t \in Threads, Between(t), Busy(t),
         NEW s, Follow(t, s)
  PROVE  FaultInv'
<1>1. PICK new : /\ Becomes(t, new) /\ new.wb = th[t].wb
                 /\ new.pc \in {"arrived", "enter"} /\ new.blob \in {th[t].blob, NoBlob}
  BY FollowShape
<1>2. UNCHANGED <<store, faults>>
  BY FollowShape DEF Unmoved
<1>3. /\ faults \in Nat /\ AtMost(Nowhere(store), faults) /\ Bodied(th[t].wb)
      /\ th[t].blob \in {th[t].wb, NoBlob}
      /\ AtMost(Nowhere(After(store, th[t].wb)), faults)
  BY BetweenCalls
<1>. QED BY <1>1, <1>2, <1>3, LookingFault

LEMMA LoadFault ==
  ASSUME OneThread, NamesInv, SaneInv, FaultInv, NEW t \in Threads, Load(t)
  PROVE  FaultInv'
<1>1. PICK new : /\ Becomes(t, new) /\ new.wb = th[t].wb
                 /\ new.pc = "take" /\ new.blob = th[t].blob
  BY LoadShape
<1>2. UNCHANGED <<store, faults>> /\ Between(t) /\ Busy(t)
  BY DEF Load, At, Between, Busy
<1>3. /\ faults \in Nat /\ AtMost(Nowhere(store), faults) /\ Bodied(th[t].wb)
      /\ th[t].blob \in {th[t].wb, NoBlob}
      /\ AtMost(Nowhere(After(store, th[t].wb)), faults)
  BY <1>2, BetweenCalls
<1>. QED BY <1>1, <1>2, <1>3, LookingFault

LEMMA EnterFault ==
  ASSUME OneThread, NamesInv, HomesInv, SaneInv, FaultInv, NEW t \in Threads, Enter1(t)
  PROVE  FaultInv'
<1>1. PICK new, res :
        /\ res \in ReadResults(t, th[t].key) /\ Fails(res.failed)
        /\ Becomes(t, new) /\ new.pc = "token"
        /\ new.blob = res.blob /\ new.wb = res.blob
  BY EnterShape
<1>2. Between(t) /\ Busy(t) /\ UNCHANGED store
  BY DEF Enter1, At, Between, Busy
<1>3. /\ Bodied(res.blob) /\ faults' \in Nat /\ AtMost(Nowhere(store), faults')
      /\ AtMost(Nowhere(After(store, res.blob)), faults')
  BY <1>1, <1>2, ReadFault
<1>. QED BY <1>1, <1>2, <1>3, LookingFault

\* A thread before the last call of its handler.
LEMMA LastCallFault ==
  ASSUME OneThread, NamesInv, NEW t \in Threads, NEW new, Becomes(t, new), new.pc = "second",
         Bodied(new.wb), faults' \in Nat,
         AtMost(Nowhere(store'), faults' + 1),
         AtMost(Nowhere(After(store', new.wb)), faults' + 1),
         AtMost(Nowhere(After(store', new.blob)), faults'),
         AtMost(Nowhere(After(After(store', new.blob), new.wb)), faults' + 1)
  PROVE  FaultInv'
<1>1. Traced(new, store', faults')
  BY DEF Traced
<1>. QED BY <1>1, BecomesFault

\* The directory that a name is put into or taken out of.
LEMMA InDirectory ==
  ASSUME OneThread, NamesInv, SaneInv, FaultInv, NEW t \in Threads, At(t, "arrived"),
         ~ DirIsMissing(t)
  PROVE  /\ Between(t) /\ Busy(t) /\ th[t].blob = th[t].wb
         /\ NameBlob(th[t].blob) /\ th[t].blob \in Held /\ Bodied(th[t].blob)
         /\ NULL \notin DOMAIN store /\ faults \in Nat
         /\ AtMost(Nowhere(store), faults)
         /\ AtMost(Nowhere(After(store, th[t].blob)), faults)
<1>1. Between(t) /\ Busy(t) /\ th[t].blob # NoBlob
  BY DEF At, Between, Busy, DirIsMissing
<1>2. th[t].blob = th[t].wb
  BY <1>1, BetweenCalls
<1>3. NameBlob(th[t].blob) /\ th[t].blob \in Held /\ NULL \notin DOMAIN store
  BY DEF NamesInv, Holds, Held, SaneInv, RootFirst
<1>. QED BY <1>1, <1>2, <1>3, BetweenCalls

\* Whether the directory is stored with the new entry or not, one entry at most
\* leads nowhere until the blob behind it is stored.
LEMMA AddFault ==
  ASSUME OneThread, NamesInv, HomesInv, SaneInv, FaultInv, NEW t \in Threads, AddName(t)
  PROVE  FaultInv'
<1>1. At(t, "arrived") /\ Between(t)
  BY DEF AddName, Arrived, At, Between
<1>2. CASE \E err : GiveUp(t, err)
  BY <1>1, <1>2, GivenUpFault
<1>3. CASE Gone
  BY <1>3 DEF Gone, FaultInv
<1>4. ASSUME NEW id \in Fresh, ~ DirIsMissing(t), ~ WrongKind(t), ~ has_path(th[t].blob, Name(t)),
             NEW isd \in BOOLEAN,
             NEW c \in {EmptyDir(id), EmptyFile(id)},
             FirstOfTwo(t, insert_item_into_blob(store, th[t].blob, Name(t), isd, id), c)
      PROVE  FaultInv'
  <2>. DEFINE b    == th[t].blob
              item == [item_path |-> Name(t), inodeid |-> id, is_dir |-> isd]
              d    == [b EXCEPT !.sub_items = Append(@, item)]
  <2>1. /\ b = th[t].wb /\ NameBlob(b) /\ Bodied(b)
        /\ NULL \notin DOMAIN store /\ faults \in Nat /\ AtMost(Nowhere(store), faults)
        /\ AtMost(Nowhere(After(store, b)), faults)
    BY <1>1, <1>4, InDirectory
  <2>2. b.inodeid # NULL
    <3>1. b # NoBlob /\ b.is_dir # 0 /\ Sane(th[t], store, faults)
      BY <1>4 DEF DirIsMissing, WrongKind, ISDIR, SaneInv
    <3>. QED BY <3>1 DEF Sane, Named
  <2>3. id \in Ids /\ id # NULL /\ item.inodeid = id
    BY BlobAssumption DEF Fresh, get_random_num, Keys
  <2>4. NameBlob(c) /\ c.inodeid = id /\ Keeps(c) = {}
    <3>1. c.inodeid = id /\ c.sub_items = << >>
      BY DEF EmptyDir, EmptyFile
    <3>2. 1..Len(<< >>) = {}
      OBVIOUS
    <3>3. Keeps(c) = {}
      BY <3>1, <3>2 DEF Keeps, Inside
    <3>. QED BY <3>1, <3>3, EmptyNames
  <2>5. d.inodeid = b.inodeid /\ d.sub_items = Append(b.sub_items, item) /\ IsBlob(d)
          /\ Keeps(d) \subseteq Keeps(b) \cup {id}
    <3>. HIDE DEF b, item
    <3>. QED BY <2>1, <2>3, AppendedBlob, EntryPutIn
  <2>6. NameBlob(d)
    <3>1. b.sub_items \in Seq(Item) /\ item \in Item /\ item.item_path = Name(t)
      <4>1. Name(t) \in Names
        BY NameIsName DEF AddName, Arrived, At, Busy
      <4>. QED BY <2>1, <2>3, <4>1 DEF NameBlob, Distinct, Item
    <3>2. \A j \in 1..Len(b.sub_items) : b.sub_items[j].item_path # Name(t)
      BY <1>4, <3>1, PositionFound DEF has_path
    <3>3. NameBlob(b)
      BY <2>1
    <3>4. Distinct(Append(b.sub_items, item))
      <4>. HIDE DEF b, item
      <4>. QED BY <3>1, <3>2, <3>3 DEF NameBlob, Distinct
    <3>. QED BY <2>5, <3>4 DEF NameBlob
  <2>7. insert_item_into_blob(store, b, Name(t), isd, id) = After(store, d)
    BY <1>4, <2>2, <2>5 DEF insert_item_into_blob, After
  <2>. HIDE DEF b, d, item
  <2>8. PICK new : /\ Becomes(t, new) /\ new.pc = "second"
                   /\ new.blob = c /\ new.wb = b
    BY <1>4, <2>1, FirstShape
  <2>9. Changes(After(store, d))
    BY <1>4, <2>7, FirstShape DEF b
  <2>. DEFINE u == After(store, d)
  <2>10. /\ Nowhere(u) \subseteq Nowhere(After(store, b)) \cup {id}
         /\ Nowhere(After(u, b)) \subseteq Nowhere(After(store, b))
         /\ NULL \notin DOMAIN u
    BY <2>1, <2>5, <2>6, Narrower, AfterHolds
  <2>11. CASE store' = u /\ faults' = faults
    <3>. HIDE DEF u
    <3>1. /\ Nowhere(After(u, c)) \subseteq Nowhere(u) \ {id}
          /\ Nowhere(After(After(u, c), b)) \subseteq Nowhere(After(u, b))
      BY <2>1, <2>3, <2>4, <2>10, Supplied, SuppliedUnder
    <3>2. /\ Nowhere(After(u, c)) \subseteq Nowhere(After(store, b))
          /\ Nowhere(After(After(u, c), b)) \subseteq Nowhere(After(store, b))
      BY <2>10, <3>1
    <3>3. AtMost(Nowhere(u), faults + 1)
      BY <2>1, <2>10, OneMore
    <3>4. /\ AtMost(Nowhere(After(u, b)), faults + 1)
          /\ AtMost(Nowhere(After(u, c)), faults)
          /\ AtMost(Nowhere(After(After(u, c), b)), faults + 1)
      BY <2>1, <2>10, <3>2, FewerThan
    <3>. QED BY <2>1, <2>8, <2>11, <3>3, <3>4, LastCallFault
  <2>12. CASE store' = store /\ faults' = faults + 1
    <3>. HIDE DEF u
    <3>1. /\ Nowhere(After(store, c)) \subseteq Nowhere(store)
          /\ Nowhere(After(After(store, c), b)) \subseteq Nowhere(After(store, b))
      BY <2>1, <2>3, <2>4, Supplied, SuppliedUnder
    <3>2. faults + 1 \in Nat /\ faults + 1 + 1 \in Nat
            /\ faults <= faults + 1 /\ faults <= faults + 1 + 1
      BY <2>1
    <3>3. /\ AtMost(Nowhere(store), faults + 1 + 1)
          /\ AtMost(Nowhere(After(store, b)), faults + 1 + 1)
          /\ AtMost(Nowhere(After(store, c)), faults + 1)
          /\ AtMost(Nowhere(After(After(store, c), b)), faults + 1 + 1)
      BY <2>1, <3>1, <3>2, FewerThan
    <3>. QED BY <2>1, <2>8, <2>12, <3>2, <3>3, LastCallFault
  <2>13. (store' = u /\ faults' = faults) \/ (store' = store /\ faults' = faults + 1)
    BY <2>1, <2>9 DEF Changes, Fails
  <2>. QED BY <2>11, <2>12, <2>13
<1>. QED BY <1>2, <1>3, <1>4 DEF AddName

\* The entry of a name is in no other directory.
LEMMA OnlyHere ==
  ASSUME HomesInv, NEW b \in Held, NEW k \in Inside(b), NEW x \in DOMAIN store,
         k \in Within(store, x)
  PROVE  x = b.inodeid
<1>. DEFINE c == get_blob_from_key(store, x)
<1>1. c \in Held /\ c.inodeid = x
  BY DEF HomesInv, Filed, Held, Stock
<1>2. PICK i \in 1..Len(b.sub_items) : k = b.sub_items[i].inodeid
  BY DEF Inside
<1>3. PICK j \in 1..Len(c.sub_items) : k = c.sub_items[j].inodeid
  BY DEF Within, Inside
<1>. HIDE DEF c
<1>4. b.sub_items[i].inodeid = c.sub_items[j].inodeid
  BY <1>2, <1>3
<1>5. b.inodeid = c.inodeid
  BY <1>1, <1>4 DEF HomesInv, OneHome
<1>. QED BY <1>1, <1>5

\* Whether the blob is deleted or not, one entry at most leads nowhere until the
\* directory is stored without it.
LEMMA RemoveFault ==
  ASSUME OneThread, NamesInv, HomesInv, SaneInv, FaultInv, NEW t \in Threads, RemoveName(t)
  PROVE  FaultInv'
<1>1. At(t, "arrived") /\ Between(t)
  BY DEF RemoveName, Arrived, At, Between
<1>2. CASE GiveUp(t, "OK")
  BY <1>1, <1>2, GivenUpFault
<1>3. CASE /\ ~ DirIsMissing(t) /\ EntryKey(t) # NULL
           /\ FirstOfTwo(t, perform_delete(store, EntryKey(t)),
                         remove_inode_from_path(th[t].blob, Name(t)))
  <2>. DEFINE b == th[t].blob
              c == remove_inode_from_path(b, Name(t))
              k == EntryKey(t)
              u == perform_delete(store, k)
  <2>1. /\ b = th[t].wb /\ NameBlob(b) /\ Bodied(b) /\ b \in Held
        /\ NULL \notin DOMAIN store /\ faults \in Nat /\ AtMost(Nowhere(store), faults)
        /\ AtMost(Nowhere(After(store, b)), faults)
    BY <1>1, <1>3, InDirectory
  <2>2. k = get_inode_from_path(b, Name(t)) /\ get_inode_from_path(b, Name(t)) # NULL
    BY <1>3 DEF EntryKey
  <2>3. NameBlob(b) /\ KeysApart(b)
    BY <2>1 DEF HomesInv, OneHome
  <2>. HIDE DEF b
  <2>4. k \in Inside(b) /\ Keeps(c) \subseteq Keeps(b) \ {k}
    <3>. HIDE DEF k
    <3>1. /\ get_inode_from_path(b, Name(t)) \in Inside(b)
          /\ Keeps(c) \subseteq Keeps(b) \ {get_inode_from_path(b, Name(t))}
      BY <2>2, <2>3, EntryTakenOut
    <3>. QED BY <2>2, <3>1
  <2>5. NameBlob(c) /\ c.inodeid = b.inodeid
    BY <2>2, <2>3, RemoveNames, RemovedKeepsKey
  <2>6. PICK new : /\ Becomes(t, new) /\ new.pc = "second"
                   /\ new.blob = c /\ new.wb = b
    BY <1>3, <2>1, FirstShape DEF b
  <2>7. Changes(u)
    BY <1>3, FirstShape DEF b
  <2>. HIDE DEF c, k
  <2>8. \A x \in DOMAIN store : k \in Within(store, x) => x = b.inodeid
    BY <2>1, <2>4, OnlyHere
  <2>9. /\ NULL \notin DOMAIN u
        /\ Nowhere(u) \subseteq Nowhere(store) \cup {k}
        /\ Nowhere(After(u, c)) \subseteq Nowhere(After(store, b))
        /\ Nowhere(After(u, b)) \subseteq Nowhere(After(store, b)) \cup {k}
    BY <2>1, <2>3, <2>4, <2>5, <2>8, Emptied
  <2>. HIDE DEF u
  <2>10. CASE store' = u /\ faults' = faults
    <3>1. Keeps(c) \subseteq Keeps(b) \cup {}
      BY <2>4
    <3>2. Nowhere(After(After(u, c), b)) \subseteq Nowhere(After(u, b))
      BY <2>3, <2>5, <2>9, <3>1, Narrower
    <3>3. Nowhere(After(After(u, c), b)) \subseteq Nowhere(After(store, b)) \cup {k}
      BY <2>9, <3>2
    <3>4. /\ AtMost(Nowhere(u), faults + 1)
          /\ AtMost(Nowhere(After(u, b)), faults + 1)
          /\ AtMost(Nowhere(After(After(u, c), b)), faults + 1)
      BY <2>1, <2>9, <3>3, OneMore
    <3>5. AtMost(Nowhere(After(u, c)), faults)
      BY <2>1, <2>9, FewerThan
    <3>. QED BY <2>1, <2>6, <2>10, <3>4, <3>5, LastCallFault
  <2>11. CASE store' = store /\ faults' = faults + 1
    <3>1. Keeps(c) \subseteq Keeps(b) \cup {}
      BY <2>4
    <3>2. /\ Nowhere(After(store, c)) \subseteq Nowhere(After(store, b)) \cup {}
          /\ Nowhere(After(After(store, c), b)) \subseteq Nowhere(After(store, b))
      BY <2>1, <2>3, <2>5, <3>1, Narrower
    <3>3. Nowhere(After(store, c)) \subseteq Nowhere(After(store, b))
      BY <3>2
    <3>4. faults + 1 \in Nat /\ faults + 1 + 1 \in Nat
            /\ faults <= faults + 1 /\ faults <= faults + 1 + 1
      BY <2>1
    <3>5. /\ AtMost(Nowhere(store), faults + 1 + 1)
          /\ AtMost(Nowhere(After(store, b)), faults + 1 + 1)
          /\ AtMost(Nowhere(After(store, c)), faults + 1)
          /\ AtMost(Nowhere(After(After(store, c), b)), faults + 1 + 1)
      BY <2>1, <3>2, <3>3, <3>4, FewerThan
    <3>. QED BY <2>1, <2>6, <2>11, <3>4, <3>5, LastCallFault
  <2>12. (store' = u /\ faults' = faults) \/ (store' = store /\ faults' = faults + 1)
    BY <2>1, <2>7 DEF Changes, Fails
  <2>. QED BY <2>10, <2>11, <2>12
<1>. QED BY <1>2, <1>3 DEF RemoveName

\* What hello_write is to store has the entries of what it read.
LEMMA WriteFault ==
  ASSUME OneThread, NamesInv, HomesInv, SaneInv, FaultInv, NEW t \in Threads, Write(t)
  PROVE  FaultInv'
<1>1. Between(t) /\ Busy(t)
  BY DEF Write, Arrived, At, Between, Busy
<1>2. CASE GiveUp(t, "ENOENT")
  BY <1>1, <1>2, GivenUpFault
<1>3. ASSUME Unmoved, NEW new, NEW res, res \in ReadResults(t, EntryKey(t)), Fails(res.failed),
             Becomes(t, new), new.pc = "second",
             new.blob = [res.blob EXCEPT !.data = Kept(th[t].req.buf)],
             new.wb = res.blob
      PROVE  FaultInv'
  <2>. DEFINE v == res.blob
              b == new.blob
  <2>1. /\ Bodied(v) /\ NameBlob(v) /\ faults' \in Nat
        /\ AtMost(Nowhere(store), faults') /\ AtMost(Nowhere(After(store, v)), faults')
    BY <1>1, <1>3, ReadFault
  <2>2. NULL \notin DOMAIN store /\ store' = store
    BY <1>3 DEF SaneInv, RootFirst, Unmoved
  <2>3. b.inodeid = v.inodeid /\ b.is_dir = v.is_dir /\ b.sub_items = v.sub_items /\ IsBlob(b)
    <3>1. IsBlob(v)
      BY <2>1 DEF NameBlob
    <3>. HIDE DEF v
    <3>. QED BY <1>3, <3>1 DEF IsBlob, v
  <2>. HIDE DEF v, b
  <2>4. NameBlob(b) /\ Keeps(b) \subseteq Keeps(v) \cup {}
    BY <2>1, <2>3 DEF NameBlob, Keeps, Inside
  <2>5. /\ Nowhere(After(store, b)) \subseteq Nowhere(After(store, v)) \cup {}
        /\ Nowhere(After(After(store, b), v)) \subseteq Nowhere(After(store, v))
    BY <2>1, <2>2, <2>3, <2>4, Narrower
  <2>6. Nowhere(After(store, b)) \subseteq Nowhere(After(store, v))
    BY <2>5
  <2>7. /\ AtMost(Nowhere(store), faults' + 1)
        /\ AtMost(Nowhere(After(store, v)), faults' + 1)
        /\ AtMost(Nowhere(After(store, b)), faults')
        /\ AtMost(Nowhere(After(After(store, b), v)), faults' + 1)
    BY <2>1, <2>5, <2>6, FewerThan
  <2>. QED BY <1>3, <2>1, <2>2, <2>7, LastCallFault DEF v, b
<1>. QED BY <1>2, <1>3, WriteShape

LEMMA LookFault ==
  ASSUME OneThread, NamesInv, HomesInv, SaneInv, FaultInv, NEW t \in Threads, Look(t)
  PROVE  FaultInv'
<1>1. Between(t) /\ Busy(t)
  BY DEF Look, Arrived, At, Between, Busy
<1>2. CASE GiveUp(t, EarlyReturn(t))
  BY <1>1, <1>2, GivenUpFault
<1>3. ASSUME NEW res \in ReadResults(t, EntryKey(t)), Fails(res.failed), End(t, res.blob),
             UNCHANGED store
      PROVE  FaultInv'
  BY <1>1, <1>3, ShownFault
<1>. QED BY <1>2, <1>3 DEF Look

LEMMA AnswerFault ==
  ASSUME OneThread, NamesInv, HomesInv, SaneInv, FaultInv, NEW t \in Threads,
         NEW r \in Requests, AnswerAtOnce(t, r)
  PROVE  FaultInv'
<1>1. Between(t) /\ UNCHANGED <<store, mounted>>
  BY DEF AnswerAtOnce, Sent, At, Between
<1>2. CASE UNCHANGED <<th, faults>>
  BY <1>1, <1>2 DEF FaultInv
<1>3. ASSUME NEW res \in ReadResults(t, root_id), Fails(res.failed), End(t, res.blob)
      PROVE  FaultInv'
  BY <1>1, <1>3, ShownFault
<1>. QED BY <1>2, <1>3 DEF AnswerAtOnce

\* The last call is what was provided for.
LEMMA SecondFault ==
  ASSUME OneThread, NamesInv, SaneInv, FaultInv, NEW t \in Threads, Second(t)
  PROVE  FaultInv'
<1>. DEFINE b == th[t].blob
            v == th[t].wb
            u == After(store, b)
<1>1. Changes(u) /\ End(t, v) /\ mounted /\ th[t].pc = "second"
  BY DEF Second, At, Stored1, After
<1>2. Traced(th[t], store, faults) /\ faults \in Nat
  BY <1>1 DEF FaultInv, SaneInv
<1>3. /\ Bodied(v) /\ AtMost(Nowhere(After(store, v)), faults + 1)
      /\ AtMost(Nowhere(store), faults + 1) /\ AtMost(Nowhere(u), faults)
      /\ AtMost(Nowhere(After(u, v)), faults + 1)
  BY <1>1, <1>2 DEF Traced
<1>. HIDE DEF b, v, u
<1>4. CASE store' = u /\ faults' = faults
  BY <1>1, <1>2, <1>3, <1>4, EndedFault
<1>5. CASE store' = store /\ faults' = faults + 1
  <2>1. AtMost(Nowhere(After(store, v)), faults + 1 + 1) /\ faults + 1 \in Nat
    BY <1>2, <1>3, FewerThan
  <2>. QED BY <1>1, <1>3, <1>5, <2>1, EndedFault
<1>. QED BY <1>1, <1>2, <1>4, <1>5 DEF Changes, Fails

LEMMA MountFault ==
  ASSUME SaneInv, Mount
  PROVE  FaultInv'
<1>1. \A u \in Threads : th'[u] = IdleThread
  BY DEF Mount, SaneInv
<1>2. faults' \in Nat
  BY DEF Mount, Fails, SaneInv
<1>3. Nowhere(set_up_ssd) = {} /\ NULL \notin DOMAIN set_up_ssd
  BY DEF Nowhere, Linked, set_up_ssd
<1>4. write_root(set_up_ssd) = After(set_up_ssd, EmptyDir(root_id))
  BY BlobAssumption DEF write_root, After, EmptyDir, Keys
<1>5. Keeps(EmptyDir(root_id)) = {} /\ EmptyDir(root_id).inodeid # NULL
  <2>1. EmptyDir(root_id).inodeid = root_id /\ EmptyDir(root_id).sub_items = << >>
    BY DEF EmptyDir
  <2>2. 1..Len(<< >>) = {}
    OBVIOUS
  <2>. QED BY <2>1, <2>2, BlobAssumption DEF Keeps, Inside, Keys
<1>6. Nowhere(write_root(set_up_ssd)) = {}
  BY <1>3, <1>4, <1>5, EmptyNames, Supplied
<1>7. Nowhere(store') = {}
  BY <1>3, <1>6 DEF Mount
<1>8. IsFiniteSet({}) /\ Cardinality({}) = 0
  BY FS_EmptySet
<1>9. AtMost(Nowhere(store'), faults') /\ AtMost(Nowhere(store'), faults' + 1)
  BY <1>2, <1>7, <1>8 DEF AtMost
<1>10. IdleThread.wb = ZeroBlob /\ IdleThread.pc = "idle"
  BY DEF IdleThread
<1>11. Traced(IdleThread, store', faults')
  BY <1>9, <1>10, NothingLeads DEF Traced
<1>. QED BY <1>1, <1>9, <1>11 DEF FaultInv

LEMMA StepFault ==
  ASSUME OneThread, NamesInv, HomesInv, SaneInv, FaultInv, NEW t \in Threads, Step(t)
  PROVE  FaultInv'
<1>1. CASE Split(t)
  BY <1>1, FollowFault DEF Split, At, Between, Busy
<1>2. CASE Take(t)
  BY <1>2, FollowFault DEF Take, At, Between, Busy
<1>. QED BY <1>1, <1>2, LoadFault, EnterFault, AddFault, RemoveFault, WriteFault,
            LookFault, SecondFault DEF Step

LEMMA FaultInvariant ==
  ASSUME OneThread
  PROVE  CallsSpec => []FaultInv
<1>1. NamesInv /\ HomesInv /\ SaneInv /\ FaultInv /\ CallsNext => FaultInv'
  <2>. SUFFICES ASSUME NamesInv, HomesInv, SaneInv, FaultInv, CallsNext PROVE FaultInv'
    OBVIOUS
  <2>1. CASE Kill
    BY <2>1 DEF Kill, Gone, FaultInv
  <2>. QED BY <2>1, MountFault, StepFault, AnswerFault, BeginFault DEF CallsNext
<1>2. FaultInv /\ UNCHANGED callVars => FaultInv'
  BY DEF callVars, FaultInv
<1>3. CallsInit => FaultInv
  BY DEF CallsInit, Init, FaultInv
<1>. QED BY <1>1, <1>2, <1>3, NamesInvariant, HomesInvariant, SaneInvariant, PTL DEF CallsSpec

\* Every entry that leads nowhere has a key of its own.
LEMMA DanglingFew ==
  ASSUME NamesInv, SingleParent, IsFiniteSet(Nowhere(store))
  PROVE  IsFiniteSet(Dangling) /\ Cardinality(Dangling) <= Cardinality(Nowhere(store))
<1>. DEFINE key(k, i) == Blobs[k].sub_items[i].inodeid
            f == [e \in Dangling |-> key(e[1], e[2])]
<1>1. ASSUME NEW e \in Dangling
      PROVE  /\ e = <<e[1], e[2]>> /\ e[1] \in DOMAIN store
             /\ e[2] \in 1..Len(Blobs[e[1]].sub_items)
             /\ key(e[1], e[2]) \in Nowhere(store)
  <2>1. e \in (DOMAIN store) \X (1..MAX_ITEMS)
    BY DEF Dangling
  <2>2. e[2] <= Len(Blobs[e[1]].sub_items) /\ key(e[1], e[2]) \notin DOMAIN store
    BY DEF Dangling
  <2>3. Blobs[e[1]] = get_blob_from_key(store, e[1])
    BY <2>1 DEF Blobs
  <2>4. Len(Blobs[e[1]].sub_items) \in Nat
    BY <2>1, <2>3 DEF NamesInv, Device, NameBlob, Distinct
  <2>5. e[2] \in 1..Len(Blobs[e[1]].sub_items)
    BY <2>1, <2>2, <2>4, BlobAssumption
  <2>6. key(e[1], e[2]) \in Within(store, e[1])
    BY <2>3, <2>5 DEF Within, Inside
  <2>. QED BY <2>1, <2>2, <2>5, <2>6, InNowhere
<1>2. ASSUME NEW d \in Dangling, NEW e \in Dangling, f[d] = f[e]
      PROVE  d = e
  <2>1. key(d[1], d[2]) = key(e[1], e[2])
    BY <1>2
  <2>2. d[1] = e[1] /\ d[2] = e[2]
    BY <1>1, <2>1 DEF SingleParent
  <2>. QED BY <1>1, <2>2
<1>3. f \in Injection(Dangling, Nowhere(store))
  <2>1. f \in [Dangling -> Nowhere(store)]
    BY <1>1
  <2>. HIDE DEF f
  <2>. QED BY <1>2, <2>1 DEF Injection, IsInjective
<1>. HIDE DEF f
<1>. QED BY <1>3, FS_Injection

\* With one thread, whatever calls fail, whatever a handler makes of what is on
\* its stack then, and whenever the process is killed: at rest, no more entries
\* lead nowhere than calls have failed (main.c, dict.c; no handler looks at the
\* result of a call).
THEOREM DanglingIsPaidFor ==
  ASSUME OneThread
  PROVE  CallsSpec => []DanglingByFault
<1>1. NamesInv /\ SaneInv /\ SingleParent /\ FaultInv => DanglingByFault
  <2>. SUFFICES ASSUME NamesInv, SaneInv, SingleParent, FaultInv, mounted, AllIdle
                PROVE  Cardinality(Dangling) <= faults
    BY DEF DanglingByFault
  <2>1. AtMost(Nowhere(store), faults)
    BY DEF FaultInv, AllIdle, Busy
  <2>2. IsFiniteSet(Nowhere(store)) /\ Cardinality(Nowhere(store)) <= faults
    BY <2>1 DEF AtMost
  <2>3. IsFiniteSet(Dangling) /\ Cardinality(Dangling) <= Cardinality(Nowhere(store))
    BY <2>2, DanglingFew
  <2>4. /\ Cardinality(Dangling) \in Nat /\ Cardinality(Nowhere(store)) \in Nat
        /\ faults \in Nat
    BY <2>2, <2>3, FS_CardinalityType DEF SaneInv
  <2>. QED BY <2>2, <2>3, <2>4
<1>. QED BY <1>1, NamesInvariant, SaneInvariant, ParentsStaySingle, FaultInvariant, PTL
============================================================================
