---------------------------- MODULE LocksProofs ----------------------------
(***************************************************************************)
(* The invariant behind the proof that CkvfsCalls implements FileTree, for *)
(* any number of threads, and the steps that keep it and change nothing:   *)
(* the handlers on their way and those that look.  CallsTreeProofs has the *)
(* others and the theorem.                                                 *)
(*                                                                         *)
(* What FileTree sees is the tree of the device as it is settled, with the *)
(* second calls made that are still to come.  A thread on its way holds    *)
(* blobs it read from the device as it was; the invariant LockInv says     *)
(* what they have in common with the settled device, and the locks keep    *)
(* the steps of the others away from it.  It says nothing of a getattr     *)
(* whose name is made or removed under it: no lock keeps these apart, and  *)
(* what such a getattr answers is not claimed.                             *)
(***************************************************************************)
EXTENDS TreeProofs, CallsProofs

----------------------------------------------------------------------------
(* The settled device, as a function of the device d and the threads T.    *)

Waiting(r) == r.pc = "second" /\ r.req.op \in EntryOps

Coming(T, k) == {t \in Threads : Waiting(T[t]) /\ T[t].blob.inodeid = k}

Awaited(T, k) == convert_to_write_blob(T[CHOOSE t \in Coming(T, k) : TRUE].blob)

NoneComes(T, k)    == Coming(T, k) = {}
ComesFrom(T, k, t) == Coming(T, k) = {t}

\* The keys of the blobs that come.
Due(T) == {k \in Keys : Coming(T, k) # {}}

Overlaid(d, T) ==
  [k \in DOMAIN d \cup Due(T) |->
     IF Coming(T, k) = {} THEN d[k] ELSE Awaited(T, k)]

\* T1 is T but for what thread t is at.
Moves(T, t, new, T1) == T1[t] = new /\ \A u \in Threads \ {t} : T1[u] = T[u]

LEMMA SettledIs ==
  Settled = Overlaid(store, th) /\ Settled' = Overlaid(store', th')
<1>1. Settled = Overlaid(store, th)
  <2>. DEFINE pending == {t \in Threads : th[t].pc = "second" /\ Op(t) \in EntryOps}
              last(k) == {t \in pending : th[t].blob.inodeid = k}
              keys    == {th[t].blob.inodeid : t \in pending} \cap Keys
  <2>1. \A k : last(k) = Coming(th, k)
    BY Zenon DEF Coming, Waiting, Op
  <2>2. keys = Due(th)
    BY <2>1 DEF Due
  <2>3. Settled = [k \in DOMAIN store \cup keys |->
                     IF last(k) = {} THEN store[k]
                     ELSE convert_to_write_blob(th[CHOOSE t \in last(k) : TRUE].blob)]
    BY Zenon DEF Settled
  <2>. DEFINE body(k, S) == IF S = {} THEN store[k]
                            ELSE convert_to_write_blob(th[CHOOSE t \in S : TRUE].blob)
              seen(k) == body(k, last(k))
              laid(k) == body(k, Coming(th, k))
  <2>4. \A k : seen(k) = laid(k)
    <3>. HIDE DEF body, last
    <3>. QED BY <2>1
  <2>5. Settled = [k \in DOMAIN store \cup keys |-> seen(k)]
    BY <2>3
  <2>6. Overlaid(store, th) = [k \in DOMAIN store \cup Due(th) |-> laid(k)]
    BY DEF Overlaid, Awaited
  <2>. HIDE DEF seen, laid, keys
  <2>. QED BY <2>2, <2>4, <2>5, <2>6
<1>2. Settled' = Overlaid(store', th')
  <2>. DEFINE pending == {t \in Threads : th'[t].pc = "second" /\ th'[t].req.op \in EntryOps}
              last(k) == {t \in pending : th'[t].blob.inodeid = k}
              keys    == {th'[t].blob.inodeid : t \in pending} \cap Keys
  <2>1. \A k : last(k) = Coming(th', k)
    BY Zenon DEF Coming, Waiting
  <2>2. keys = Due(th')
    BY <2>1 DEF Due
  <2>3. Settled' = [k \in DOMAIN store' \cup keys |->
                     IF last(k) = {} THEN store'[k]
                     ELSE convert_to_write_blob(th'[CHOOSE t \in last(k) : TRUE].blob)]
    BY Zenon DEF Settled, Op
  <2>. DEFINE body(k, S) == IF S = {} THEN store'[k]
                            ELSE convert_to_write_blob(th'[CHOOSE t \in S : TRUE].blob)
              seen(k) == body(k, last(k))
              laid(k) == body(k, Coming(th', k))
  <2>4. \A k : seen(k) = laid(k)
    <3>. HIDE DEF body, last
    <3>. QED BY <2>1
  <2>5. Settled' = [k \in DOMAIN store' \cup keys |-> seen(k)]
    BY <2>3
  <2>6. Overlaid(store', th') = [k \in DOMAIN store' \cup Due(th') |-> laid(k)]
    BY DEF Overlaid, Awaited
  <2>. HIDE DEF seen, laid, keys
  <2>. QED BY <2>2, <2>4, <2>5, <2>6
<1>. QED BY <1>1, <1>2

LEMMA OverlaidDomain ==
  ASSUME NEW d, NEW T
  PROVE  DOMAIN Overlaid(d, T) = DOMAIN d \cup Due(T)
BY Zenon DEF Overlaid

LEMMA OverlaidAt ==
  ASSUME NEW d, NEW T, NEW k \in DOMAIN Overlaid(d, T)
  PROVE  Overlaid(d, T)[k] = IF Coming(T, k) = {} THEN d[k] ELSE Awaited(T, k)
BY Zenon DEF Overlaid

LEMMA SameOverlay ==
  ASSUME NEW d, NEW T, NEW e, NEW U, DOMAIN Overlaid(d, T) = DOMAIN Overlaid(e, U),
         \A k \in DOMAIN Overlaid(d, T) : Overlaid(d, T)[k] = Overlaid(e, U)[k]
  PROVE  Overlaid(d, T) = Overlaid(e, U)
<1>. DEFINE f == Overlaid(d, T)
            g == Overlaid(e, U)
<1>1. f = [k \in DOMAIN f |-> f[k]] /\ g = [k \in DOMAIN g |-> g[k]]
  BY Zenon DEF Overlaid
<1>. HIDE DEF f, g
<1>2. f = g
  BY <1>1 DEF f, g
<1>. QED BY <1>2 DEF f, g

LEMMA AwaitedIs ==
  ASSUME NEW T, NEW t, NEW k, Coming(T, k) = {t}
  PROVE  Awaited(T, k) = convert_to_write_blob(T[t].blob)
<1>1. (CHOOSE u \in Coming(T, k) : TRUE) \in Coming(T, k)
  OBVIOUS
<1>. QED BY <1>1 DEF Awaited

LEMMA AwaitedKept ==
  ASSUME NEW T, NEW t, NEW new, NEW T1, Moves(T, t, new, T1),
         NEW k, Coming(T, k) # {}, Coming(T1, k) = Coming(T, k), t \notin Coming(T, k)
  PROVE  Awaited(T1, k) = Awaited(T, k)
<1>. DEFINE u == CHOOSE v \in Coming(T, k) : TRUE
<1>1. u \in Coming(T, k)
  OBVIOUS
<1>2. u \in Threads \ {t}
  BY <1>1 DEF Coming
<1>3. T1[u] = T[u]
  BY <1>2 DEF Moves
<1>. QED BY <1>3 DEF Awaited

\* A step of a thread that waits neither before nor after settles nothing.
LEMMA NothingComes ==
  ASSUME NEW d, NEW T, NEW t \in Threads, NEW new, NEW T1, Moves(T, t, new, T1),
         ~ Waiting(T[t]), ~ Waiting(new)
  PROVE  /\ \A k : Coming(T1, k) = Coming(T, k)
         /\ Overlaid(d, T1) = Overlaid(d, T)
<1>1. \A k : Coming(T1, k) = Coming(T, k) /\ t \notin Coming(T, k)
  BY Zenon DEF Coming, Moves
<1>2. \A k : Coming(T, k) # {} => Awaited(T1, k) = Awaited(T, k)
  BY <1>1, AwaitedKept
<1>3. DOMAIN Overlaid(d, T1) = DOMAIN Overlaid(d, T)
  <2>1. Due(T1) = Due(T)
    BY <1>1 DEF Due
  <2>. QED BY <2>1, OverlaidDomain
<1>4. \A k \in DOMAIN Overlaid(d, T1) : Overlaid(d, T1)[k] = Overlaid(d, T)[k]
  <2>. SUFFICES ASSUME NEW k \in DOMAIN Overlaid(d, T1)
                PROVE  Overlaid(d, T1)[k] = Overlaid(d, T)[k]
    OBVIOUS
  <2>1. Overlaid(d, T1)[k] = IF Coming(T1, k) = {} THEN d[k] ELSE Awaited(T1, k)
    BY OverlaidAt
  <2>2. Overlaid(d, T)[k] = IF Coming(T, k) = {} THEN d[k] ELSE Awaited(T, k)
    BY OverlaidAt, <1>3
  <2>. QED BY <2>1, <2>2, <1>1, <1>2
<1>. QED BY <1>1, <1>3, <1>4, SameOverlay

\* A step to the last call of two leaves its blob coming.
LEMMA OneComes ==
  ASSUME NEW d, NEW T, NEW t \in Threads, NEW new, NEW T1, Moves(T, t, new, T1),
         ~ Waiting(T[t]), Waiting(new),
         new.blob.inodeid \in Keys, NoneComes(T, new.blob.inodeid)
  PROVE  Overlaid(d, T1) = write_to_dict(Overlaid(d, T), new.blob.inodeid, new.blob)
<1>. DEFINE k == new.blob.inodeid
<1>1. Coming(T1, k) = {t}
  <2>1. t \in Coming(T1, k)
    BY DEF Coming, Moves, NoneComes
  <2>2. \A u \in Coming(T1, k) : u = t
    BY DEF Coming, Moves, NoneComes
  <2>. QED BY <2>1, <2>2
<1>2. \A x : x # k => Coming(T1, x) = Coming(T, x) /\ t \notin Coming(T, x)
  BY Zenon DEF Coming, Moves
<1>3. \A x : x # k /\ Coming(T, x) # {} => Awaited(T1, x) = Awaited(T, x)
  BY <1>2, AwaitedKept
<1>4. Awaited(T1, k) = convert_to_write_blob(new.blob)
  BY <1>1, AwaitedIs DEF Moves
<1>. DEFINE f == Overlaid(d, T1)
            e == Overlaid(d, T)
<1>5. DOMAIN f = DOMAIN e \cup {k}
  <2>1. DOMAIN f = DOMAIN d \cup Due(T1)
    BY OverlaidDomain
  <2>2. DOMAIN e = DOMAIN d \cup Due(T)
    BY OverlaidDomain
  <2>3. Due(T1) = Due(T) \cup {k}
    BY <1>1, <1>2 DEF Due, NoneComes
  <2>. QED BY <2>1, <2>2, <2>3
<1>6. \A x \in DOMAIN f : f[x] = IF x = k THEN convert_to_write_blob(new.blob) ELSE e[x]
  <2>. SUFFICES ASSUME NEW x \in DOMAIN f
                PROVE  f[x] = IF x = k THEN convert_to_write_blob(new.blob) ELSE e[x]
    OBVIOUS
  <2>1. f[x] = IF Coming(T1, x) = {} THEN d[x] ELSE Awaited(T1, x)
    BY OverlaidAt
  <2>2. x # k => e[x] = IF Coming(T, x) = {} THEN d[x] ELSE Awaited(T, x)
    BY OverlaidAt, <1>5
  <2>. QED BY <2>1, <2>2, <1>1, <1>2, <1>3, <1>4 DEF NoneComes
<1>7. f = [x \in DOMAIN f |-> f[x]]
  BY Zenon DEF Overlaid
<1>. HIDE DEF f, e
<1>8. f = write_to_dict(e, k, new.blob)
  BY <1>5, <1>6, <1>7 DEF write_to_dict, perform_insertion
<1>. QED BY <1>8 DEF f, e

\* The device changes under no blob that comes.
LEMMA NoneUnder ==
  ASSUME NEW d, NEW T, NEW k, NEW b, NoneComes(T, k)
  PROVE  Overlaid(write_to_dict(d, k, b), T) = write_to_dict(Overlaid(d, T), k, b)
<1>. DEFINE e == Overlaid(d, T)
<1>. DEFINE d1 == write_to_dict(d, k, b)
            f  == Overlaid(d1, T)
            g  == write_to_dict(e, k, b)
<1>1. /\ DOMAIN d1 = DOMAIN d \cup {k} /\ d1[k] = convert_to_write_blob(b)
      /\ \A x \in DOMAIN d : x # k => d1[x] = d[x]
  BY DEF write_to_dict, perform_insertion
<1>2. /\ DOMAIN g = DOMAIN e \cup {k} /\ g[k] = convert_to_write_blob(b)
      /\ \A x \in DOMAIN e : x # k => g[x] = e[x]
      /\ g = [x \in DOMAIN g |-> g[x]]
  <2>. HIDE DEF e
  <2>. QED BY DEF write_to_dict, perform_insertion
<1>. HIDE DEF d1, g
<1>3. DOMAIN f = DOMAIN d1 \cup Due(T) /\ DOMAIN e = DOMAIN d \cup Due(T)
  BY OverlaidDomain
<1>4. \A x \in DOMAIN f : f[x] = g[x]
  <2>. SUFFICES ASSUME NEW x \in DOMAIN f PROVE f[x] = g[x]
    OBVIOUS
  <2>1. f[x] = IF Coming(T, x) = {} THEN d1[x] ELSE Awaited(T, x)
    BY OverlaidAt
  <2>2. x # k => x \in DOMAIN e
    BY <1>1, <1>3
  <2>3. x # k => e[x] = IF Coming(T, x) = {} THEN d[x] ELSE Awaited(T, x)
    BY <2>2, OverlaidAt
  <2>4. x # k /\ Coming(T, x) = {} => x \in DOMAIN d
    BY <1>1, <1>3 DEF Due
  <2>. HIDE DEF e, f
  <2>. QED BY <2>1, <2>2, <2>3, <2>4, <1>1, <1>2 DEF NoneComes
<1>5. f = [x \in DOMAIN f |-> f[x]]
  BY Zenon DEF Overlaid
<1>6. DOMAIN f = DOMAIN g
  BY <1>1, <1>2, <1>3
<1>. HIDE DEF e, f
<1>7. f = g
  BY <1>2, <1>4, <1>5, <1>6
<1>. QED BY <1>7 DEF f, g, d1, e

LEMMA NoneUnderDeleted ==
  ASSUME NEW d, NEW T, NEW k, NoneComes(T, k)
  PROVE  Overlaid(perform_delete(d, k), T) = perform_delete(Overlaid(d, T), k)
<1>. DEFINE e == Overlaid(d, T)
<1>0. k \notin Due(T)
  BY DEF Due, NoneComes
<1>. DEFINE d1 == perform_delete(d, k)
            f  == Overlaid(d1, T)
            g  == perform_delete(e, k)
<1>1. DOMAIN d1 = DOMAIN d \ {k} /\ \A x \in DOMAIN d1 : d1[x] = d[x]
  BY DEF perform_delete
<1>2. /\ DOMAIN g = DOMAIN e \ {k} /\ \A x \in DOMAIN g : g[x] = e[x]
      /\ g = [x \in DOMAIN g |-> g[x]]
  <2>. HIDE DEF e
  <2>. QED BY DEF perform_delete
<1>. HIDE DEF d1, g
<1>3. DOMAIN f = DOMAIN d1 \cup Due(T) /\ DOMAIN e = DOMAIN d \cup Due(T)
  BY OverlaidDomain
<1>4. DOMAIN f = DOMAIN g
  BY <1>0, <1>1, <1>2, <1>3
<1>5. \A x \in DOMAIN f : f[x] = g[x]
  <2>. SUFFICES ASSUME NEW x \in DOMAIN f PROVE f[x] = g[x]
    OBVIOUS
  <2>1. f[x] = IF Coming(T, x) = {} THEN d1[x] ELSE Awaited(T, x)
    BY OverlaidAt
  <2>2. x \in DOMAIN e
    BY <1>2, <1>4
  <2>3. e[x] = IF Coming(T, x) = {} THEN d[x] ELSE Awaited(T, x)
    BY <2>2, OverlaidAt
  <2>4. Coming(T, x) = {} => x \in DOMAIN d1
    BY <1>3 DEF Due
  <2>. HIDE DEF e, f
  <2>. QED BY <2>1, <2>3, <2>4, <1>1, <1>2, <1>4
<1>6. f = [x \in DOMAIN f |-> f[x]]
  BY Zenon DEF Overlaid
<1>. HIDE DEF e, f
<1>7. f = g
  BY <1>2, <1>4, <1>5, <1>6
<1>. QED BY <1>7 DEF f, g, d1, e

\* The call that comes, when it is made, changes nothing on the settled device.
LEMMA ComesTrue ==
  ASSUME NEW d, NEW T, NEW t \in Threads, NEW new, NEW T1, Moves(T, t, new, T1),
         ~ Waiting(new),
         T[t].blob.inodeid \in Keys, ComesFrom(T, T[t].blob.inodeid, t)
  PROVE  Overlaid(write_to_dict(d, T[t].blob.inodeid, T[t].blob), T1) = Overlaid(d, T)
<1>. DEFINE k  == T[t].blob.inodeid
            d1 == write_to_dict(d, k, T[t].blob)
            f  == Overlaid(d1, T1)
            e  == Overlaid(d, T)
<1>1. Coming(T1, k) = {}
  BY Zenon DEF Coming, Moves, ComesFrom
<1>2. \A x : x # k => Coming(T1, x) = Coming(T, x) /\ t \notin Coming(T, x)
  BY Zenon DEF Coming, Moves, ComesFrom
<1>3. \A x : x # k /\ Coming(T, x) # {} => Awaited(T1, x) = Awaited(T, x)
  BY <1>2, AwaitedKept
<1>4. Awaited(T, k) = convert_to_write_blob(T[t].blob)
  BY AwaitedIs DEF ComesFrom
<1>5. DOMAIN d1 = DOMAIN d \cup {k} /\ d1[k] = convert_to_write_blob(T[t].blob)
  BY DEF write_to_dict, perform_insertion
<1>6. \A x \in DOMAIN d : x # k => d1[x] = d[x]
  BY DEF write_to_dict, perform_insertion
<1>. HIDE DEF d1
<1>7. DOMAIN f = DOMAIN e
  <2>1. DOMAIN f = DOMAIN d1 \cup Due(T1)
    BY OverlaidDomain
  <2>2. DOMAIN e = DOMAIN d \cup Due(T)
    BY OverlaidDomain
  <2>3. Due(T) = Due(T1) \cup {k}
    BY <1>1, <1>2 DEF Due, ComesFrom
  <2>. QED BY <2>1, <2>2, <2>3, <1>5
<1>8. \A x \in DOMAIN f : f[x] = e[x]
  <2>. SUFFICES ASSUME NEW x \in DOMAIN f PROVE f[x] = e[x]
    OBVIOUS
  <2>1. f[x] = IF Coming(T1, x) = {} THEN d1[x] ELSE Awaited(T1, x)
    BY OverlaidAt
  <2>2. e[x] = IF Coming(T, x) = {} THEN d[x] ELSE Awaited(T, x)
    BY OverlaidAt, <1>7
  <2>3. Coming(T, x) = {} => x \in DOMAIN d
    <3>1. x \in DOMAIN d \cup Due(T)
      BY OverlaidDomain, <1>7
    <3>. QED BY <3>1 DEF Due, ComesFrom
  <2>. QED BY <2>1, <2>2, <2>3, <1>1, <1>2, <1>3, <1>4, <1>5, <1>6 DEF ComesFrom
<1>9. f = e
  BY <1>7, <1>8, SameOverlay
<1>. QED BY <1>9 DEF f, e, d1

----------------------------------------------------------------------------
(* The invariant.                                                          *)

\* What the kernel looked up for request q is still so.
Found(q, s) ==
  /\ q \in Requests /\ ~ OnRoot(q)
  /\ q.op = "readdir" => attr(s, q.path).kind = "dir"
  /\ q.op \in {"read", "write"} => attr(s, q.path).kind = "file"
  /\ q.op = "write" => FitsBlock(q.path, Text(q.buf))
  /\ q.op \in EntryOps => q.path # <<HEAD>> /\ attr(s, Front(q.path)).kind = "dir"

\* The blob a thread holds tells it about its own path what the settled blob at
\* the end of q tells, and is that blob when the thread is to change it.
Carries(r, s, q) ==
  LET k == go_through_inodes(s, q)
      p == r.req.path
  IN  /\ k \in DOMAIN s /\ GoodBlob(k, r.blob) /\ r.blob.is_dir = BlobsOf(s)[k].is_dir
      /\ \A n \in Names : IsPrefix(Append(q, n), p) =>
           get_inode_from_path(r.blob, n) = go_through_inodes(s, Append(q, n))
      /\ r.req.op \in EntryOps /\ q = Front(p) => r.blob = BlobsOf(s)[k]

\* Between the two calls of a creation, of a removal, and before the call of a
\* write.
Made(r, d, s) ==
  LET id == r.blob.inodeid
  IN  /\ id \in Ids /\ id \notin DOMAIN d /\ go_through_inodes(s, r.req.path) = id
      /\ r.blob = IF r.req.op = "mkdir" THEN EmptyDir(id) ELSE EmptyFile(id)

Unlinked(r, d, s) ==
  LET k == r.blob.inodeid
      b == get_blob_from_key(d, k)
  IN  /\ go_through_inodes(s, Front(r.req.path)) = k /\ k \in DOMAIN d /\ k \in DOMAIN s
      /\ GoodBlob(k, b) /\ b.is_dir = ISDIR /\ has_path(b, Last(r.req.path))
      /\ r.blob = remove_inode_from_path(b, Last(r.req.path)) /\ r.blob = BlobsOf(s)[k]
      /\ go_through_inodes(s, r.req.path) = NULL

Filled(r, s) ==
  LET id == r.blob.inodeid
  IN  /\ go_through_inodes(s, r.req.path) = id /\ id \in DOMAIN s
      /\ BlobsOf(s)[id].is_dir = NOTDIR
      /\ r.blob = [BlobsOf(s)[id] EXCEPT !.data = Kept(r.req.buf)]

OnTheWay(r, d, s) ==
  /\ r.pc \in {"split", "token", "take"} => \E q : Passed(q, r) /\ Carries(r, s, q)
  /\ r.pc = "enter" =>
       \E q : Passed(q, r) /\ r.key = go_through_inodes(s, q) /\ r.key \in DOMAIN s
  /\ r.pc = "arrived" =>
       \/ r.blob = NoBlob /\ go_through_inodes(s, Front(r.req.path)) = NULL
       \/ Carries(r, s, Front(r.req.path))
  /\ r.pc = "second" => \/ r.req.op \in Making /\ Made(r, d, s)
                        \/ r.req.op \in Removing /\ Unlinked(r, d, s)
                        \/ r.req.op = "write" /\ Filled(r, s)

Walks(T, t) == T[t].pc # "idle"

\* Request r may not be under way where q changes entries or a file: what the
\* locks keep apart, and a look at the very name.
Crosses(q, r) ==
  Excludes(q, r) \/ (q.op \in EntryOps /\ r.op = "getattr" /\ r.path = q.path)

\* A getattr on its way.
Looking(r) == r.pc \notin {"idle", "second"} /\ r.req.op = "getattr"

\* Of all that is under way only a getattr is overtaken, and a getattr is, unless
\* nothing that waits crosses it.
Marks(T, O) ==
  /\ \A t \in O : t \in Threads /\ Looking(T[t])
  /\ \A t, u \in Threads : t # u /\ Waiting(T[t]) /\ Walks(T, u) /\ u \notin O
                            => ~ Crosses(T[t].req, T[u].req)

\* The invariant, of the device d, the threads T, and those that are overtaken, O.
LockInv(d, T, O) ==
  LET s == Overlaid(d, T)
  IN  /\ Sound(s) /\ ShallowIn(s) /\ Marks(T, O)
      /\ \A t \in Threads : Walks(T, t) =>
           Found(T[t].req, s) /\ (t \in O \/ OnTheWay(T[t], d, s))
      /\ \A t, u \in Threads : t # u /\ Walks(T, t) /\ Walks(T, u)
                                => ~ Excludes(T[t].req, T[u].req)

----------------------------------------------------------------------------
(* What a thread does leaves alone what the others are about.              *)

\* All along the path p, keys and kinds stay.
Steady(s, s1, p) ==
  \A q \in Seq(Names) : IsPrefix(q, p) =>
    /\ go_through_inodes(s1, q) = go_through_inodes(s, q)
    /\ go_through_inodes(s, q) # NULL =>
         BlobsOf(s1)[go_through_inodes(s, q)].is_dir = BlobsOf(s)[go_through_inodes(s, q)].is_dir

\* A change that does not touch what request q is about.
Apart(q, d, s, d1, s1) ==
  LET k  == go_through_inodes(s, Front(q.path))
      id == go_through_inodes(s, q.path)
  IN  /\ Steady(s, s1, q.path)
      /\ q.op \in EntryOps /\ k # NULL =>
           /\ BlobsOf(s1)[k] = BlobsOf(s)[k]
           /\ k \in DOMAIN d => k \in DOMAIN d1 /\ d1[k] = d[k]
      /\ q.op \in Making /\ id # NULL /\ id \notin DOMAIN d => id \notin DOMAIN d1

\* What a step for request r may do.
Does(r, d, s, d1, s1) ==
  /\ \/ s1 = s
     \/ r.op = "write" /\ Refilled(s, r.path, Kept(r.buf), s1)
     \/ r.op \in Making /\ \E id, node : Grown(s, r.path, id, node, s1)
     \/ r.op \in Removing /\ Shrunk(s, r.path, s1)
  /\ r.op \in EntryOps \cup {"write"}
  /\ \A k \in DOMAIN s :
       /\ k # go_through_inodes(s, r.path)
       /\ r.op \in EntryOps => k # go_through_inodes(s, Front(r.path))
       => /\ BlobsOf(s1)[k] = BlobsOf(s)[k]
          /\ k \in DOMAIN d1 <=> k \in DOMAIN d
          /\ k \in DOMAIN d => d1[k] = d[k]

LEMMA RequestIs ==
  ASSUME NEW q \in Requests
  PROVE  /\ q.path \in Paths /\ q.path \in Seq(Names) /\ q.op \in Ops
         /\ q.path # << >> => Front(q.path) \in Seq(Names) /\ Last(q.path) \in Names
         /\ q.op = "write" => q.buf \in Payloads /\ q.buf \in Seq(Bytes)
         /\ ~ OnRoot(q) => q.path # << >>
<1>1. q.path \in Paths /\ q.op \in Ops
  BY CallsAssumption
<1>2. q.op = "write" => q.buf \in Payloads /\ q.buf \in Seq(Bytes)
  BY CallsAssumption, CkvfsAssumption
<1>. QED BY <1>1, <1>2, PathIsSeq DEF OnRoot, Root

LEMMA OwnPrefixes ==
  ASSUME NEW p \in Seq(Names), p # << >>
  PROVE  IsPrefix(p, p) /\ IsPrefix(Front(p), p)
<1>1. Front(p) \in Seq(Names)
  BY FrontLast
<1>2. IsPrefix(p, p) /\ IsPrefix(Front(p), Front(p))
  BY <1>1, PrefixIs
<1>3. IsPrefix(Front(p), p)
  BY <1>1, <1>2, PrefixOfFront
<1>. QED BY <1>2, <1>3, Zenon

LEMMA NothingBefore ==
  ASSUME NEW p \in Seq(Names)
  PROVE  << >> \in Seq(Names) /\ IsPrefix(<< >>, p)
<1>1. PICK e \in Seq(Names) : e = << >>
  <2>1. << >> \in Seq(Names)
    OBVIOUS
  <2>. QED BY <2>1, Zenon
<1>2. Len(e) = 0 /\ Len(p) \in Nat
  BY <1>1
<1>3. Len(e) <= Len(p) /\ \A i \in 1..Len(e) : e[i] = p[i]
  BY <1>2
<1>4. IsPrefix(e, p)
  BY <1>3, PrefixIs
<1>. QED BY <1>1, <1>4

LEMMA PrefixOfPrefix ==
  ASSUME NEW q \in Seq(Names), NEW r \in Seq(Names), NEW p \in Seq(Names),
         IsPrefix(q, r), IsPrefix(r, p)
  PROVE  IsPrefix(q, p)
<1>1. Len(q) <= Len(r) /\ \A i \in 1..Len(q) : q[i] = r[i]
  BY PrefixIs
<1>2. Len(r) <= Len(p) /\ \A i \in 1..Len(r) : r[i] = p[i]
  BY PrefixIs
<1>3. Len(q) <= Len(p) /\ \A i \in 1..Len(q) : q[i] = p[i]
  BY <1>1, <1>2
<1>. QED BY <1>3, PrefixIs

LEMMA KindSteady ==
  ASSUME NEW s, Sound(s), NEW s1, Sound(s1), NEW p, Steady(s, s1, p),
         NEW q \in Seq(Names), IsPrefix(q, p)
  PROVE  attr(s1, q).kind = attr(s, q).kind
<1>. DEFINE k == go_through_inodes(s, q)
<1>1. go_through_inodes(s1, q) = k
  BY DEF Steady
<1>2. CASE q = <<HEAD>>
  BY <1>2, AttrOfPath
<1>3. CASE q # <<HEAD>> /\ k = NULL
  BY <1>3, <1>1, AttrOfPath
<1>4. CASE q # <<HEAD>> /\ k # NULL
  <2>1. k \in DOMAIN s /\ k \in DOMAIN s1
    BY <1>1, <1>4, WalkEnds
  <2>2. BlobsOf(s1)[k].is_dir = BlobsOf(s)[k].is_dir
    BY <1>4 DEF Steady
  <2>3. Node(s1, k).kind = Node(s, k).kind
    BY <2>2 DEF Node
  <2>. QED BY <2>3, <1>1, <1>4, AttrOfPath
<1>. QED BY <1>2, <1>3, <1>4

LEMMA FoundStays ==
  ASSUME NEW s, Sound(s), NEW s1, Sound(s1), NEW q, Found(q, s), Steady(s, s1, q.path)
  PROVE  Found(q, s1)
<1>1. q \in Requests /\ ~ OnRoot(q)
  BY DEF Found
<1>2. q.path \in Seq(Names) /\ q.path # << >> /\ Front(q.path) \in Seq(Names)
  BY <1>1, RequestIs
<1>3. IsPrefix(q.path, q.path) /\ IsPrefix(Front(q.path), q.path)
  BY <1>2, OwnPrefixes, Zenon
<1>4. attr(s1, q.path).kind = attr(s, q.path).kind
  BY <1>2, <1>3, KindSteady
<1>5. attr(s1, Front(q.path)).kind = attr(s, Front(q.path)).kind
  BY <1>2, <1>3, KindSteady
<1>. QED BY <1>4, <1>5, Zenon DEF Found

LEMMA LookFound ==
  ASSUME NEW s, NEW s1, NEW q, q.op = "getattr", Found(q, s)
  PROVE  Found(q, s1)
BY DEF Found, EntryOps, Making, Removing

\* The directory an entry operation is about, and what a file operation is about.
LEMMA FoundKinds ==
  ASSUME NEW s, Sound(s), NEW q, Found(q, s)
  PROVE  LET k  == go_through_inodes(s, Front(q.path))
             id == go_through_inodes(s, q.path)
         IN  /\ q.op \in EntryOps /\ k # NULL => k \in DOMAIN s /\ BlobsOf(s)[k].is_dir = ISDIR
             /\ q.op \in {"read", "write"} =>
                  /\ id \in DOMAIN s /\ id # NULL /\ BlobsOf(s)[id].is_dir = NOTDIR
                  /\ Node(s, id).kind = "file"
             /\ q.op = "readdir" /\ q.path # <<HEAD>> =>
                  id \in DOMAIN s /\ id # NULL /\ Node(s, id).kind = "dir"
<1>. DEFINE k  == go_through_inodes(s, Front(q.path))
            id == go_through_inodes(s, q.path)
<1>1. q.path \in Seq(Names) /\ q.path # << >> /\ Front(q.path) \in Seq(Names)
  BY RequestIs DEF Found
<1>2. ASSUME q.op \in EntryOps, k # NULL
      PROVE  k \in DOMAIN s /\ BlobsOf(s)[k].is_dir = ISDIR
  <2>1. attr(s, Front(q.path)).kind = "dir"
    BY <1>2 DEF Found
  <2>2. Front(q.path) # <<HEAD>> /\ k \in DOMAIN s
    BY <1>1, <1>2, AttrOfPath
  <2>3. Node(s, k).kind = "dir"
    BY <1>1, <1>2, <2>1, <2>2, AttrOfPath
  <2>. QED BY <2>2, <2>3, KindsOfNodes
<1>3. ASSUME q.op \in {"read", "write"}
      PROVE  /\ id \in DOMAIN s /\ id # NULL /\ BlobsOf(s)[id].is_dir = NOTDIR
             /\ Node(s, id).kind = "file"
  <2>1. attr(s, q.path).kind = "file"
    BY <1>3 DEF Found
  <2>2. q.path # <<HEAD>> /\ id # NULL
    BY <1>1, <2>1, AttrOfPath
  <2>3. id \in DOMAIN s /\ Node(s, id).kind = "file"
    BY <1>1, <2>1, <2>2, AttrOfPath
  <2>. QED BY <2>2, <2>3, KindsOfNodes
<1>4. ASSUME q.op = "readdir", q.path # <<HEAD>>
      PROVE  id \in DOMAIN s /\ id # NULL /\ Node(s, id).kind = "dir"
  <2>1. attr(s, q.path).kind = "dir"
    BY <1>4 DEF Found
  <2>2. id # NULL
    BY <1>1, <1>4, <2>1, AttrOfPath
  <2>. QED BY <1>1, <1>4, <2>1, <2>2, AttrOfPath
<1>. QED BY <1>2, <1>3, <1>4

LEMMA DoesSteady ==
  ASSUME NEW s, Sound(s), NEW s1, Sound(s1), NEW r, Found(r, s), NEW d, NEW d1,
         Does(r, d, s, d1, s1),
         NEW p \in Seq(Names), r.op \in EntryOps => ~ IsPrefix(r.path, p)
  PROVE  Steady(s, s1, p)
<1>. SUFFICES ASSUME NEW q \in Seq(Names), IsPrefix(q, p)
              PROVE  /\ go_through_inodes(s1, q) = go_through_inodes(s, q)
                     /\ go_through_inodes(s, q) # NULL =>
                          BlobsOf(s1)[go_through_inodes(s, q)].is_dir
                            = BlobsOf(s)[go_through_inodes(s, q)].is_dir
  BY DEF Steady
<1>. DEFINE k == go_through_inodes(s, q)
<1>1. r.path \in Seq(Names)
  BY RequestIs DEF Found
<1>2. r.op \in EntryOps => ~ IsPrefix(r.path, q) /\ q # r.path
  BY <1>1, PrefixOfPrefix, Zenon
<1>3. SUFFICES /\ go_through_inodes(s1, q) = k
               /\ k # NULL => Node(s1, k).kind = Node(s, k).kind
  <2>1. ASSUME k # NULL PROVE BlobsOf(s1)[k].is_dir = BlobsOf(s)[k].is_dir
    <3>1. k \in DOMAIN s /\ k \in DOMAIN s1
      BY <1>3, <2>1, WalkEnds
    <3>. QED BY <1>3, <2>1, <3>1, KindsOfNodes
  <2>. QED BY <1>3, <2>1
<1>4. k \in DOMAIN s \cup {NULL}
  BY WalkEnds
<1>5. CASE s1 = s
  BY <1>5
<1>6. CASE r.op = "write" /\ Refilled(s, r.path, Kept(r.buf), s1)
  <2>1. Node(s, go_through_inodes(s, r.path)).kind = "file"
    BY <1>6, FoundKinds
  <2>. QED BY <1>4, <1>6, <2>1 DEF Refilled
<1>7. CASE r.op \in Making /\ \E id, node : Grown(s, r.path, id, node, s1)
  BY <1>2, <1>4, <1>7 DEF Grown, EntryOps
<1>8. CASE r.op \in Removing /\ Shrunk(s, r.path, s1)
  <2>1. go_through_inodes(s1, q) = k
    BY <1>2, <1>8 DEF Shrunk, EntryOps
  <2>2. k # NULL => k \in DOMAIN s1
    BY <2>1, WalkEnds
  <2>. QED BY <2>1, <2>2, <1>8 DEF Shrunk
<1>. QED BY <1>5, <1>6, <1>7, <1>8 DEF Does

LEMMA KeepsApart ==
  ASSUME NEW s, Sound(s), NEW s1, Sound(s1), NEW q, Found(q, s), NEW r, Found(r, s),
         ~ Excludes(q, r), ~ Crosses(r, q), NEW d, NEW d1, Does(r, d, s, d1, s1)
  PROVE  Apart(q, d, s, d1, s1)
<1>. DEFINE k  == go_through_inodes(s, Front(q.path))
            id == go_through_inodes(s, q.path)
<1>1. /\ q.path \in Seq(Names) /\ q.path # << >> /\ Front(q.path) \in Seq(Names)
      /\ r.path \in Seq(Names) /\ r.path # << >> /\ Front(r.path) \in Seq(Names)
  BY RequestIs DEF Found
<1>2. /\ IsPrefix(q.path, q.path) /\ IsPrefix(Front(q.path), q.path)
      /\ IsPrefix(r.path, r.path) /\ IsPrefix(Front(r.path), r.path)
  BY <1>1, OwnPrefixes, Zenon
<1>3. /\ r.op \in EntryOps => ~ IsPrefix(r.path, q.path)
      /\ q.op \in EntryOps => ~ IsPrefix(q.path, r.path)
      /\ r.op \in EntryOps /\ q.op \in EntryOps => Front(q.path) # Front(r.path)
  <2>1. r.op # "getattr"
    BY DEF Does, EntryOps, Making, Removing
  <2>. QED BY <2>1, Zenon DEF Excludes, Crosses
<1>4. Steady(s, s1, q.path)
  BY <1>1, <1>3, DoesSteady
<1>5. ASSUME q.op \in EntryOps, k # NULL
      PROVE  /\ BlobsOf(s1)[k] = BlobsOf(s)[k]
             /\ k \in DOMAIN d => k \in DOMAIN d1 /\ d1[k] = d[k]
  <2>1. k \in DOMAIN s /\ BlobsOf(s)[k].is_dir = ISDIR
    BY <1>5, FoundKinds
  <2>2. k # go_through_inodes(s, r.path)
    <3>1. SUFFICES ASSUME k = go_through_inodes(s, r.path) PROVE FALSE
      OBVIOUS
    <3>2. Front(q.path) = r.path
      BY <3>1, <1>1, <1>5, OnePath
    <3>3. r.op = "write"
      BY <3>2, <1>2, <1>3, Zenon DEF Does
    <3>4. BlobsOf(s)[k].is_dir = NOTDIR
      BY <3>1, <3>3, FoundKinds
    <3>. QED BY <2>1, <3>4 DEF ISDIR, NOTDIR
  <2>3. r.op \in EntryOps => k # go_through_inodes(s, Front(r.path))
    BY <1>1, <1>3, <1>5, OnePath
  <2>. QED BY <2>1, <2>2, <2>3 DEF Does
<1>6. ASSUME q.op \in Making, id # NULL, id \notin DOMAIN d
      PROVE  id \notin DOMAIN d1
  <2>1. id \in DOMAIN s
    BY <1>1, <1>6, WalkEnds
  <2>2. id # go_through_inodes(s, r.path)
    BY <1>1, <1>2, <1>3, <1>6, OnePath DEF EntryOps
  <2>3. r.op \in EntryOps => id # go_through_inodes(s, Front(r.path))
    BY <1>1, <1>2, <1>3, <1>6, OnePath DEF EntryOps
  <2>. QED BY <1>6, <2>1, <2>2, <2>3 DEF Does
<1>. QED BY <1>4, <1>5, <1>6 DEF Apart

LEMMA PassedIsPrefix ==
  ASSUME NEW r, r.req \in Requests, r.req.path # << >>, NEW q, Passed(q, r)
  PROVE  /\ q \in Seq(Names) /\ IsPrefix(q, Front(r.req.path)) /\ IsPrefix(q, r.req.path)
         /\ r.left # Root =>
              /\ Head(r.left) \in Names /\ Tail(r.left) \in Seq(Names)
              /\ Append(q, Head(r.left)) \in Seq(Names)
              /\ Append(q, Head(r.left)) \o Tail(r.left) = Front(r.req.path)
              /\ IsPrefix(Append(q, Head(r.left)), Front(r.req.path))
              /\ IsPrefix(Append(q, Head(r.left)), r.req.path)
<1>. DEFINE p == r.req.path
<1>1. /\ p \in Seq(Names) /\ Front(p) \in Seq(Names)
      /\ q \in Seq(Names) /\ r.left \in Seq(Names) /\ q \o r.left = Front(p)
  BY RequestIs DEF Passed
<1>2. ASSUME NEW a \in Seq(Names), NEW b \in Seq(Names), a \o b = Front(p)
      PROVE  IsPrefix(a, Front(p)) /\ IsPrefix(a, p)
  <2>1. Len(a) <= Len(a \o b) /\ \A i \in 1..Len(a) : a[i] = (a \o b)[i]
    OBVIOUS
  <2>2. IsPrefix(a, Front(p))
    BY <2>1, <1>1, <1>2, PrefixIs
  <2>3. IsPrefix(a, p)
    BY <2>2, <1>1, PrefixOfFront
  <2>. QED BY <2>2, <2>3
<1>3. ASSUME r.left # Root
      PROVE  /\ Head(r.left) \in Names /\ Tail(r.left) \in Seq(Names)
             /\ Append(q, Head(r.left)) \in Seq(Names)
             /\ Append(q, Head(r.left)) \o Tail(r.left) = Front(p)
  <2>1. /\ Head(r.left) \in Names /\ Tail(r.left) \in Seq(Names)
        /\ Append(q, Head(r.left)) \o Tail(r.left) = q \o r.left
    BY <1>1, <1>3, Moved, Zenon DEF Root
  <2>2. Append(q, Head(r.left)) \in Seq(Names)
    BY <1>1, <2>1, Appended
  <2>. QED BY <1>1, <2>1, <2>2
<1>. HIDE DEF p
<1>4. IsPrefix(q, Front(p)) /\ IsPrefix(q, p)
  BY <1>1, <1>2
<1>5. r.left # Root => /\ IsPrefix(Append(q, Head(r.left)), Front(p))
                       /\ IsPrefix(Append(q, Head(r.left)), p)
  BY <1>2, <1>3
<1>. QED BY <1>1, <1>3, <1>4, <1>5 DEF p

LEMMA CarriesStays ==
  ASSUME NEW s, Sound(s), NEW s1, Sound(s1), NEW r, r.req \in Requests, r.req.path # << >>,
         NEW d, NEW d1, Apart(r.req, d, s, d1, s1),
         NEW q \in Seq(Names), IsPrefix(q, r.req.path), Carries(r, s, q)
  PROVE  Carries(r, s1, q)
<1>. DEFINE k == go_through_inodes(s, q)
            p == r.req.path
<1>1. p \in Seq(Names) /\ Front(p) \in Seq(Names)
  BY RequestIs
<1>2. /\ k \in DOMAIN s /\ GoodBlob(k, r.blob) /\ r.blob.is_dir = BlobsOf(s)[k].is_dir
      /\ \A n \in Names : IsPrefix(Append(q, n), p) =>
           get_inode_from_path(r.blob, n) = go_through_inodes(s, Append(q, n))
      /\ r.req.op \in EntryOps /\ q = Front(p) => r.blob = BlobsOf(s)[k]
  BY DEF Carries
<1>3. k # NULL
  BY <1>2, WalkEnds
<1>4. /\ go_through_inodes(s1, q) = k
      /\ BlobsOf(s1)[k].is_dir = BlobsOf(s)[k].is_dir
  BY <1>3 DEF Apart, Steady
<1>5. k \in DOMAIN s1
  BY <1>3, <1>4, WalkEnds
<1>6. \A n \in Names : IsPrefix(Append(q, n), p) =>
        get_inode_from_path(r.blob, n) = go_through_inodes(s1, Append(q, n))
  <2>. SUFFICES ASSUME NEW n \in Names, IsPrefix(Append(q, n), p)
                PROVE  get_inode_from_path(r.blob, n) = go_through_inodes(s1, Append(q, n))
    OBVIOUS
  <2>1. Append(q, n) \in Seq(Names)
    BY Appended
  <2>2. go_through_inodes(s1, Append(q, n)) = go_through_inodes(s, Append(q, n))
    BY <2>1 DEF Apart, Steady
  <2>. QED BY <1>2, <2>2
<1>7. r.req.op \in EntryOps /\ q = Front(p) => BlobsOf(s1)[k] = BlobsOf(s)[k]
  BY <1>3 DEF Apart
<1>. QED BY <1>2, <1>4, <1>5, <1>6, <1>7 DEF Carries

LEMMA WayStays ==
  ASSUME NEW s, Sound(s), NEW s1, Sound(s1), NEW r, Found(r.req, s),
         NEW d, NEW d1, Apart(r.req, d, s, d1, s1), OnTheWay(r, d, s)
  PROVE  OnTheWay(r, d1, s1)
<1>. DEFINE p == r.req.path
            D == Front(p)
<1>1. r.req \in Requests /\ p \in Seq(Names) /\ p # << >> /\ D \in Seq(Names)
  BY RequestIs DEF Found
<1>2. IsPrefix(p, p) /\ IsPrefix(D, p)
  BY <1>1, OwnPrefixes, Zenon
<1>3. /\ go_through_inodes(s1, p) = go_through_inodes(s, p)
      /\ go_through_inodes(s1, D) = go_through_inodes(s, D)
      /\ go_through_inodes(s, p) # NULL =>
           BlobsOf(s1)[go_through_inodes(s, p)].is_dir = BlobsOf(s)[go_through_inodes(s, p)].is_dir
  BY <1>1, <1>2 DEF Apart, Steady
<1>4. ASSUME r.pc \in {"split", "token", "take"}
      PROVE  \E q : Passed(q, r) /\ Carries(r, s1, q)
  <2>1. PICK q : Passed(q, r) /\ Carries(r, s, q)
    BY <1>4 DEF OnTheWay
  <2>2. q \in Seq(Names) /\ IsPrefix(q, p)
    BY <1>1, <2>1, PassedIsPrefix
  <2>3. Carries(r, s1, q)
    BY <1>1, <2>1, <2>2, CarriesStays
  <2>. QED BY <2>1, <2>3
<1>5. ASSUME r.pc = "enter"
      PROVE  \E q : Passed(q, r) /\ r.key = go_through_inodes(s1, q) /\ r.key \in DOMAIN s1
  <2>1. PICK q : Passed(q, r) /\ r.key = go_through_inodes(s, q) /\ r.key \in DOMAIN s
    BY <1>5 DEF OnTheWay
  <2>2. q \in Seq(Names) /\ IsPrefix(q, p)
    BY <1>1, <2>1, PassedIsPrefix
  <2>3. r.key # NULL
    BY <2>1, <2>2, WalkEnds
  <2>4. go_through_inodes(s1, q) = r.key
    BY <2>1, <2>2 DEF Apart, Steady
  <2>5. r.key \in DOMAIN s1
    BY <2>2, <2>3, <2>4, WalkEnds
  <2>. QED BY <2>1, <2>4, <2>5
<1>6. ASSUME r.pc = "arrived"
      PROVE  \/ r.blob = NoBlob /\ go_through_inodes(s1, D) = NULL
             \/ Carries(r, s1, D)
  <2>1. CASE r.blob = NoBlob /\ go_through_inodes(s, D) = NULL
    BY <1>3, <2>1
  <2>2. CASE Carries(r, s, D)
    BY <1>1, <1>2, <2>2, CarriesStays
  <2>. QED BY <1>6, <2>1, <2>2 DEF OnTheWay
<1>7. ASSUME r.req.op \in Making, Made(r, d, s)
      PROVE  Made(r, d1, s1)
  <2>1. r.blob.inodeid # NULL
    BY <1>7, BlobAssumption DEF Made, Keys
  <2>. QED BY <1>3, <1>7, <2>1 DEF Made, Apart
<1>8. ASSUME r.req.op \in Removing, Unlinked(r, d, s)
      PROVE  Unlinked(r, d1, s1)
  <2>. DEFINE k == r.blob.inodeid
  <2>1. /\ go_through_inodes(s, D) = k /\ k \in DOMAIN d /\ k \in DOMAIN s
        /\ r.blob = BlobsOf(s)[k] /\ go_through_inodes(s, p) = NULL
    BY <1>8 DEF Unlinked
  <2>2. k # NULL
    BY <1>1, <2>1, WalkEnds
  <2>3. BlobsOf(s1)[k] = BlobsOf(s)[k] /\ k \in DOMAIN d1 /\ d1[k] = d[k]
    BY <1>8, <2>1, <2>2, Zenon DEF Apart, EntryOps
  <2>4. k \in DOMAIN s1
    BY <1>1, <1>3, <2>1, <2>2, WalkEnds
  <2>5. get_blob_from_key(d1, k) = get_blob_from_key(d, k)
    BY <2>3 DEF get_blob_from_key, perform_read
  <2>. QED BY <1>3, <1>8, <2>1, <2>3, <2>4, <2>5, Zenon DEF Unlinked
<1>9. ASSUME r.req.op = "write", Filled(r, s)
      PROVE  Filled(r, s1)
  <2>. DEFINE id == r.blob.inodeid
  <2>1. /\ go_through_inodes(s, p) = id /\ id \in DOMAIN s /\ BlobsOf(s)[id].is_dir = NOTDIR
        /\ r.blob = [BlobsOf(s)[id] EXCEPT !.data = Kept(r.req.buf)]
    BY <1>9 DEF Filled
  <2>2. id # NULL /\ id \in DOMAIN s1
    BY <1>1, <1>3, <2>1, WalkEnds
  <2>3. BlobsOf(s1)[id].is_dir = NOTDIR
    BY <1>3, <2>1, <2>2
  <2>4. [BlobsOf(s1)[id] EXCEPT !.data = Kept(r.req.buf)] = [BlobsOf(s)[id] EXCEPT !.data = Kept(r.req.buf)]
    <3>1. GoodBlob(id, BlobsOf(s)[id]) /\ GoodBlob(id, BlobsOf(s1)[id])
      BY <2>1, <2>2, StoredBlobs DEF Sound
    <3>2. BlobsOf(s)[id] \in FileBlob /\ BlobsOf(s1)[id] \in FileBlob
      BY <3>1, <2>1, <2>3, GoodBlobItems
    <3>3. BlobsOf(s)[id].inodeid = id /\ BlobsOf(s1)[id].inodeid = id
      BY <3>1 DEF GoodBlob
    <3>. QED BY <3>2, <3>3 DEF FileBlob
  <2>. QED BY <1>3, <2>1, <2>2, <2>3, <2>4 DEF Filled
<1>. QED
  BY <1>4, <1>5, <1>6, <1>7, <1>8, <1>9, Zenon DEF OnTheWay

LEMMA FoundAfter ==
  ASSUME NEW s, Sound(s), NEW s1, Sound(s1), NEW r, Found(r, s), r.op \in EntryOps,
         NEW d, NEW d1, Does(r, d, s, d1, s1)
  PROVE  Found(r, s1)
<1>1. r.path \in Seq(Names) /\ r.path # << >> /\ Front(r.path) \in Seq(Names)
  BY RequestIs DEF Found
<1>2. ~ IsPrefix(r.path, Front(r.path))
  <2>1. Len(Front(r.path)) < Len(r.path)
    BY <1>1, FrontLast
  <2>. QED BY <1>1, <2>1, PrefixIs
<1>3. Steady(s, s1, Front(r.path))
  BY <1>1, <1>2, DoesSteady
<1>4. IsPrefix(Front(r.path), Front(r.path))
  BY <1>1, PrefixIs
<1>5. attr(s1, Front(r.path)).kind = attr(s, Front(r.path)).kind
  BY <1>1, <1>3, <1>4, KindSteady
<1>6. r.op \notin {"readdir", "read", "write"}
  BY DEF EntryOps, Making, Removing
<1>. QED BY <1>5, <1>6, Zenon DEF Found

LEMMA DoesShallow ==
  ASSUME NEW s, ShallowIn(s), NEW s1, NEW r, Found(r, s), NEW d, NEW d1, Does(r, d, s, d1, s1)
  PROVE  ShallowIn(s1)
<1>1. r.path \in Paths
  BY RequestIs DEF Found
<1>2. CASE r.op = "write" /\ Refilled(s, r.path, Kept(r.buf), s1)
  BY <1>2 DEF ShallowIn, Refilled
<1>3. CASE r.op \in Making /\ \E id, node : Grown(s, r.path, id, node, s1)
  BY <1>1, <1>3 DEF ShallowIn, Grown
<1>4. CASE r.op \in Removing /\ Shrunk(s, r.path, s1)
  BY <1>4 DEF ShallowIn, Shrunk
<1>. QED BY <1>2, <1>3, <1>4 DEF Does

----------------------------------------------------------------------------
(* Steps of a thread.                                                      *)

\* Thread t is not kept out by what the others are about.
Separate(T, t, q) ==
  \A u \in Threads \ {t} : Walks(T, u) => ~ Excludes(q, T[u].req) /\ ~ Excludes(T[u].req, q)

\* Nothing that waits crosses request q of thread t.
Unmarked(T, t, q) ==
  \A u \in Threads \ {t} : Waiting(T[u]) => ~ Crosses(T[u].req, q)

LEMMA LockParts ==
  ASSUME NEW d, NEW T, NEW O, LockInv(d, T, O)
  PROVE  /\ Sound(Overlaid(d, T)) /\ ShallowIn(Overlaid(d, T)) /\ Marks(T, O)
         /\ \A t \in Threads : Walks(T, t) =>
              /\ Found(T[t].req, Overlaid(d, T))
              /\ t \notin O => OnTheWay(T[t], d, Overlaid(d, T)) /\ Unmarked(T, t, T[t].req)
              /\ Separate(T, t, T[t].req)
<1>. DEFINE s == Overlaid(d, T)
<1>1. Sound(s) /\ ShallowIn(s) /\ Marks(T, O)
  BY DEF LockInv
<1>2. ASSUME NEW t \in Threads, Walks(T, t)
      PROVE  /\ Found(T[t].req, s) /\ Separate(T, t, T[t].req)
             /\ t \notin O => OnTheWay(T[t], d, s)
  BY <1>2, Zenon DEF LockInv, Separate
<1>3. ASSUME NEW t \in Threads, Walks(T, t), t \notin O
      PROVE  Unmarked(T, t, T[t].req)
  BY <1>1, <1>3, Zenon DEF Marks, Unmarked
<1>. QED BY <1>1, <1>2, <1>3

\* Only a getattr is overtaken.
LEMMA OthersAreNot ==
  ASSUME NEW d, NEW T, NEW O, LockInv(d, T, O), NEW t, T[t].req.op # "getattr"
  PROVE  t \notin O
BY LockParts DEF Marks, Looking

LEMMA ThreadMoves ==
  ASSUME NEW d, NEW T, NEW O, LockInv(d, T, O),
         NEW t \in Threads, NEW new, NEW T1, Moves(T, t, new, T1),
         NEW d1, Sound(Overlaid(d1, T1)), ShallowIn(Overlaid(d1, T1)),
         NEW O1, O \ {t} \subseteq O1, Marks(T1, O1),
         \A u \in Threads \ {t} : Walks(T, u) /\ u \notin O1
            => Apart(T[u].req, d, Overlaid(d, T), d1, Overlaid(d1, T1)),
         new.pc # "idle" => /\ Found(new.req, Overlaid(d1, T1))
                            /\ t \in O1 \/ OnTheWay(new, d1, Overlaid(d1, T1))
                            /\ Separate(T, t, new.req)
  PROVE  LockInv(d1, T1, O1)
<1>. DEFINE s  == Overlaid(d, T)
            s1 == Overlaid(d1, T1)
<1>1. T1[t] = new /\ \A u \in Threads \ {t} : T1[u] = T[u]
  BY DEF Moves
<1>2. \A u \in Threads : Walks(T1, u) =>
        Found(T1[u].req, s1) /\ (u \in O1 \/ OnTheWay(T1[u], d1, s1))
  <2>. SUFFICES ASSUME NEW u \in Threads, Walks(T1, u)
                PROVE  Found(T1[u].req, s1) /\ (u \in O1 \/ OnTheWay(T1[u], d1, s1))
    OBVIOUS
  <2>1. CASE u = t
    BY <1>1, <2>1 DEF Walks
  <2>2. CASE u # t /\ u \in O1
    <3>1. T1[u] = T[u] /\ Walks(T, u)
      BY <1>1, <2>2 DEF Walks
    <3>2. Found(T[u].req, s)
      BY <3>1, LockParts
    <3>3. T[u].req.op = "getattr"
      BY <2>2, <3>1 DEF Marks, Looking
    <3>4. Found(T[u].req, s1)
      BY <3>2, <3>3, LookFound
    <3>. QED BY <2>2, <3>1, <3>4
  <2>3. CASE u # t /\ u \notin O1
    <3>1. T1[u] = T[u] /\ Walks(T, u) /\ u \notin O
      BY <1>1, <2>3 DEF Walks
    <3>2. Sound(s) /\ Found(T[u].req, s) /\ OnTheWay(T[u], d, s)
      BY <3>1, LockParts
    <3>3. Apart(T[u].req, d, s, d1, s1)
      BY <2>3, <3>1
    <3>. HIDE DEF s, s1
    <3>4. Sound(s1)
      BY DEF s1
    <3>5. Steady(s, s1, T[u].req.path)
      BY <3>3 DEF Apart
    <3>6. Found(T[u].req, s1)
      BY <3>2, <3>4, <3>5, FoundStays
    <3>7. OnTheWay(T[u], d1, s1)
      BY <3>2, <3>3, <3>4, WayStays
    <3>. QED BY <3>1, <3>6, <3>7
  <2>. QED BY <2>1, <2>2, <2>3
<1>3. \A v, u \in Threads : v # u /\ Walks(T1, v) /\ Walks(T1, u)
                              => ~ Excludes(T1[v].req, T1[u].req)
  <2>. SUFFICES ASSUME NEW v \in Threads, NEW u \in Threads, v # u, Walks(T1, v), Walks(T1, u)
                PROVE  ~ Excludes(T1[v].req, T1[u].req)
    OBVIOUS
  <2>1. CASE v # t /\ u # t
    <3>1. T1[v] = T[v] /\ T1[u] = T[u] /\ Walks(T, v) /\ Walks(T, u)
      BY <1>1, <2>1 DEF Walks
    <3>2. Separate(T, v, T[v].req) /\ u \in Threads \ {v}
      BY <3>1, LockParts
    <3>. QED BY <3>1, <3>2 DEF Separate
  <2>2. CASE v = t
    <3>1. T1[v] = new /\ T1[u] = T[u] /\ Walks(T, u) /\ u \in Threads \ {t} /\ new.pc # "idle"
      BY <1>1, <2>2 DEF Walks
    <3>. QED BY <3>1 DEF Separate
  <2>3. CASE u = t
    <3>1. T1[u] = new /\ T1[v] = T[v] /\ Walks(T, v) /\ v \in Threads \ {t} /\ new.pc # "idle"
      BY <1>1, <2>3 DEF Walks
    <3>. QED BY <3>1 DEF Separate
  <2>. QED BY <2>1, <2>2, <2>3
<1>. QED BY <1>2, <1>3, Zenon DEF LockInv

LEMMA NothingApart ==
  ASSUME NEW q, NEW d, NEW s
  PROVE  Apart(q, d, s, d, s)
BY DEF Apart, Steady

\* A thread that goes on without touching the device.
LEMMA QuietMove ==
  ASSUME NEW d, NEW T, NEW O, LockInv(d, T, O),
         NEW t \in Threads, NEW new, NEW T1, Moves(T, t, new, T1),
         ~ Waiting(T[t]), ~ Waiting(new),
         NEW O1, O1 \ {t} = O \ {t},
         t \in O1 => new.pc \notin {"idle", "second"} /\ new.req.op = "getattr",
         new.pc # "idle" =>
           /\ Found(new.req, Overlaid(d, T)) /\ Separate(T, t, new.req)
           /\ t \in O1 \/ (OnTheWay(new, d, Overlaid(d, T)) /\ Unmarked(T, t, new.req))
  PROVE  LockInv(d, T1, O1) /\ Overlaid(d, T1) = Overlaid(d, T)
<1>1. Overlaid(d, T1) = Overlaid(d, T)
  BY NothingComes
<1>2. Sound(Overlaid(d, T)) /\ ShallowIn(Overlaid(d, T)) /\ Marks(T, O)
  BY LockParts
<1>3. Marks(T1, O1)
  <2>. HIDE DEF Overlaid
  <2>1. T1[t] = new /\ \A u \in Threads \ {t} : T1[u] = T[u]
    BY DEF Moves
  <2>2. \A u \in O1 : u # t => u \in O
    OBVIOUS
  <2>3. \A u \in O : u # t => u \in O1
    OBVIOUS
  <2>4. ASSUME NEW u \in O1
        PROVE  u \in Threads /\ Looking(T1[u])
    BY <1>2, <2>1, <2>2, <2>4 DEF Marks, Looking
  <2>5. ASSUME NEW v \in Threads, NEW u \in Threads, v # u, Waiting(T1[v]), Walks(T1, u),
               u \notin O1
        PROVE  ~ Crosses(T1[v].req, T1[u].req)
    <3>1. v # t
      BY <2>1, <2>5
    <3>2. T1[v] = T[v] /\ Waiting(T[v])
      BY <2>1, <2>5, <3>1
    <3>3. CASE u = t
      <4>1. T1[u] = new /\ new.pc # "idle" /\ t \notin O1
        BY <2>1, <2>5, <3>3 DEF Walks
      <4>2. Unmarked(T, t, new.req)
        BY <4>1
      <4>. QED BY <3>1, <3>2, <4>1, <4>2 DEF Unmarked
    <3>4. CASE u # t
      <4>1. T1[u] = T[u] /\ Walks(T, u) /\ u \notin O
        BY <2>1, <2>3, <2>5, <3>4 DEF Walks
      <4>. QED BY <1>2, <2>5, <3>2, <4>1 DEF Marks
    <3>. QED BY <3>3, <3>4
  <2>. QED BY <2>4, <2>5, Zenon DEF Marks
<1>. HIDE DEF Overlaid
<1>4. LockInv(d, T1, O1)
  BY <1>1, <1>2, <1>3, NothingApart, ThreadMoves
<1>. QED BY <1>1, <1>4

\* A thread that changes the device, as its request has it.
LEMMA ChangingMove ==
  ASSUME NEW d, NEW T, NEW O, LockInv(d, T, O),
         NEW t \in Threads, NEW new, NEW T1, Moves(T, t, new, T1),
         Walks(T, t), NEW d1, Sound(Overlaid(d1, T1)),
         Does(T[t].req, d, Overlaid(d, T), d1, Overlaid(d1, T1)),
         new.pc # "idle" => /\ new.req = T[t].req /\ new.req.op \in EntryOps
                            /\ OnTheWay(new, d1, Overlaid(d1, T1)),
         NEW O1, O \subseteq O1,
         \A u \in O1 : u \in Threads /\ Looking(T[u]),
         \A u \in Threads \ {t} : Walks(T, u) /\ u \notin O1
            => ~ Crosses(T[t].req, T[u].req)
  PROVE  LockInv(d1, T1, O1)
<1>. DEFINE s  == Overlaid(d, T)
            s1 == Overlaid(d1, T1)
<1>1. Sound(s) /\ ShallowIn(s) /\ Found(T[t].req, s) /\ Separate(T, t, T[t].req) /\ Marks(T, O)
  BY LockParts
<1>2. \A u \in Threads \ {t} : Walks(T, u) /\ u \notin O1 => Apart(T[u].req, d, s, d1, s1)
  <2>. SUFFICES ASSUME NEW u \in Threads \ {t}, Walks(T, u), u \notin O1
                PROVE  Apart(T[u].req, d, s, d1, s1)
    OBVIOUS
  <2>1. Found(T[u].req, s)
    BY LockParts
  <2>2. ~ Excludes(T[u].req, T[t].req) /\ ~ Crosses(T[t].req, T[u].req)
    BY <1>1 DEF Separate
  <2>. QED BY <1>1, <2>1, <2>2, KeepsApart
<1>3. ShallowIn(s1)
  BY <1>1, DoesShallow
<1>4. new.pc # "idle" => Found(new.req, s1)
  BY <1>1, FoundAfter
<1>5. T[t].req.op # "getattr"
  BY DEF Does, EntryOps, Making, Removing
<1>. HIDE DEF s, s1
<1>6. new.pc # "idle" => /\ Found(new.req, s1) /\ OnTheWay(new, d1, s1)
                         /\ Separate(T, t, new.req)
  BY <1>1, <1>4 DEF s1
<1>7. Marks(T1, O1)
  <2>1. T1[t] = new /\ \A u \in Threads \ {t} : T1[u] = T[u]
    BY DEF Moves
  <2>2. t \notin O1
    BY <1>5 DEF Looking
  <2>3. ASSUME NEW u \in O1
        PROVE  u \in Threads /\ Looking(T1[u])
    BY <2>1, <2>2, <2>3
  <2>4. ASSUME NEW v \in Threads, NEW u \in Threads, v # u, Waiting(T1[v]), Walks(T1, u),
               u \notin O1
        PROVE  ~ Crosses(T1[v].req, T1[u].req)
    <3>1. CASE v = t
      <4>1. T1[v].req = T[t].req
        BY <2>1, <2>4, <3>1 DEF Waiting
      <4>2. T1[u] = T[u] /\ Walks(T, u) /\ u \in Threads \ {t}
        BY <2>1, <2>4, <3>1 DEF Walks
      <4>. QED BY <2>4, <4>1, <4>2
    <3>2. CASE u = t
      <4>1. T1[v] = T[v] /\ Waiting(T[v]) /\ t \notin O /\ v \in Threads \ {t}
        BY <2>1, <2>2, <2>4, <3>2
      <4>2. T1[u].req = T[t].req
        BY <1>6, <2>1, <2>4, <3>2 DEF Walks
      <4>3. ~ Crosses(T[v].req, T[t].req)
        BY <1>1, <4>1 DEF Marks
      <4>. QED BY <4>1, <4>2, <4>3
    <3>3. CASE v # t /\ u # t
      <4>1. T1[v] = T[v] /\ Waiting(T[v]) /\ T1[u] = T[u] /\ Walks(T, u) /\ u \notin O
        BY <2>1, <2>4, <3>3 DEF Walks
      <4>2. ~ Crosses(T[v].req, T[u].req)
        BY <1>1, <2>4, <4>1 DEF Marks
      <4>. QED BY <4>1, <4>2
    <3>. QED BY <3>1, <3>2, <3>3
  <2>. QED BY <2>3, <2>4, Zenon DEF Marks
<1>8. O \ {t} \subseteq O1
  OBVIOUS
<1>. QED BY <1>2, <1>3, <1>6, <1>7, <1>8, ThreadMoves DEF s, s1

----------------------------------------------------------------------------
(* What a read finds on the device agrees with the settled device.         *)

LEMMA LookupElsewhere ==
  ASSUME NEW s, Sound(s), NEW k \in DOMAIN s, NEW b, b.sub_items \in Seq(Item),
         NEW name, has_path(b, name), BlobsOf(s)[k] = remove_inode_from_path(b, name),
         NEW n, n # name,
         b = [inodeid |-> b.inodeid, is_dir |-> b.is_dir,
              sub_items |-> b.sub_items, data |-> b.data]
  PROVE  get_inode_from_path(b, n) = get_inode_from_path(BlobsOf(s)[k], n)
<1>. DEFINE c == BlobsOf(s)[k]
            i == Position(b, name)
            A == b.sub_items
            R == c.sub_items
<1>1. i \in 1..Len(A) /\ A[i].item_path = name
  BY InodeOfEntry, PositionFound DEF has_path
<1>2. R = RemoveAt(A, i)
  BY DEF remove_inode_from_path
<1>. HIDE DEF c, i, A, R
<1>3. /\ R \in Seq(Item) /\ Len(R) = Len(A) - 1
      /\ \A j \in 1..(Len(A) - 1) : R[j] = IF j < i THEN A[j] ELSE A[j+1]
  BY <1>1, <1>2, RemoveAtShifts DEF A
<1>4. CASE get_inode_from_path(b, n) = NULL
  <2>1. \A j \in 1..Len(A) : A[j].item_path # n
    BY <1>4, InodeOfEntry, BlobAssumption DEF A, Keys
  <2>2. \A j \in 1..Len(R) : R[j].item_path # n
    <3>. SUFFICES ASSUME NEW j \in 1..Len(R) PROVE R[j].item_path # n
      OBVIOUS
    <3>1. Len(A) \in Nat /\ i \in Nat /\ j \in 1..(Len(A) - 1)
      BY <1>1, <1>3 DEF A
    <3>2. R[j] = A[j] \/ R[j] = A[j+1]
      BY <1>3, <3>1
    <3>3. j \in 1..Len(A) /\ j + 1 \in 1..Len(A)
      BY <3>1
    <3>. QED BY <2>1, <3>2, <3>3
  <2>3. get_inode_from_path(c, n) = NULL
    BY <1>3, <2>2, InodeOfEntry DEF R
  <2>. QED BY <1>4, <2>3 DEF c
<1>5. CASE get_inode_from_path(b, n) # NULL
  <2>. DEFINE j == Position(b, n)
              m == IF j < i THEN j ELSE j - 1
  <2>1. /\ j \in 1..Len(A) /\ A[j].item_path = n
        /\ get_inode_from_path(b, n) = A[j].inodeid
    BY <1>5, InodeOfEntry DEF A
  <2>. HIDE DEF j
  <2>2. j # i
    BY <1>1, <2>1
  <2>3. Len(A) \in Nat
    BY DEF A
  <2>4. m \in 1..(Len(A) - 1) /\ R[m] = A[j]
    BY <1>1, <1>3, <2>1, <2>2, <2>3
  <2>. HIDE DEF m
  <2>5. m \in 1..Len(R) /\ R[m].item_path = n
    BY <1>3, <2>1, <2>4
  <2>6. get_inode_from_path(c, n) = R[m].inodeid
    BY <2>5, Lookup DEF c, R
  <2>. QED BY <2>1, <2>4, <2>6 DEF c
<1>. QED BY <1>4, <1>5

LEMMA ReadAgrees ==
  ASSUME NEW d, NEW T, NEW O, LockInv(d, T, O), NEW t \in Threads, ~ Waiting(T[t]),
         NEW r \in Requests, Unmarked(T, t, r),
         NEW q \in Seq(Names), IsPrefix(q, r.path),
         NEW k, k = go_through_inodes(Overlaid(d, T), q), k # NULL
  PROVE  LET s == Overlaid(d, T)
             b == get_blob_from_key(d, k)
             c == BlobsOf(s)[k]
         IN  /\ k \in DOMAIN d /\ k \in DOMAIN s
             /\ GoodBlob(k, b) /\ b.is_dir = c.is_dir /\ b.data = c.data
             /\ \A n \in Names : IsPrefix(Append(q, n), r.path) =>
                  get_inode_from_path(b, n) = go_through_inodes(s, Append(q, n))
             /\ \/ r.op \in EntryOps /\ r.path # << >> /\ q = Front(r.path)
                \/ r.op = "readdir" /\ q = r.path
                => b = c /\ NoneComes(T, k)
<1>. DEFINE s == Overlaid(d, T)
            b == get_blob_from_key(d, k)
            c == BlobsOf(s)[k]
<1>1. Sound(s)
  BY LockParts
<1>2. k \in DOMAIN s /\ k \in Keys
  <2>. HIDE DEF s
  <2>1. k \in DOMAIN s
    BY <1>1, WalkEnds DEF s
  <2>. QED BY <1>1, <2>1 DEF Sound, Stored
<1>3. GoodBlob(k, c)
  <2>. HIDE DEF s
  <2>. QED BY <1>1, <1>2, StoredBlobs DEF Sound
<1>4. \A n \in Names : /\ Append(q, n) \in Seq(Names)
                       /\ go_through_inodes(s, Append(q, n)) = get_inode_from_path(c, n)
  <2>. SUFFICES ASSUME NEW n \in Names
                PROVE  /\ Append(q, n) \in Seq(Names)
                       /\ go_through_inodes(s, Append(q, n)) = get_inode_from_path(c, n)
    OBVIOUS
  <2>1. /\ Append(q, n) \in Seq(Names) /\ Append(q, n) # << >>
        /\ Front(Append(q, n)) = q /\ Last(Append(q, n)) = n
    BY Appended
  <2>. HIDE DEF s
  <2>. QED BY <1>1, <2>1, StepOfWalk DEF s
<1>5. CASE NoneComes(T, k)
  <2>1. k \in DOMAIN d /\ s[k] = d[k]
    BY <1>2, <1>5, OverlaidDomain, OverlaidAt DEF Due, NoneComes
  <2>2. b = c
    <3>. HIDE DEF s
    <3>. QED BY <1>2, <2>1 DEF BlobsOf, get_blob_from_key, perform_read
  <2>. HIDE DEF s, b, c
  <2>. QED BY <1>2, <1>3, <1>4, <1>5, <2>1, <2>2 DEF s, b, c
<1>6. CASE ~ NoneComes(T, k)
  <2>1. PICK u \in Threads : Waiting(T[u]) /\ T[u].blob.inodeid = k
    BY <1>6 DEF Coming, NoneComes
  <2>2. u # t /\ Walks(T, u) /\ T[u].pc = "second" /\ T[u].req.op \in EntryOps
    BY <2>1 DEF Waiting, Walks
  <2>3. Found(T[u].req, s) /\ OnTheWay(T[u], d, s)
    <3>1. T[u].req.op # "getattr"
      BY <2>2 DEF EntryOps, Making, Removing
    <3>2. u \notin O
      BY <3>1, OthersAreNot
    <3>. QED BY <2>2, <3>2, LockParts
  <2>4. ~ Crosses(T[u].req, r)
    BY <2>1, <2>2 DEF Unmarked
  <2>. DEFINE p == T[u].req.path
  <2>5. p \in Seq(Names) /\ p # << >> /\ Front(p) \in Seq(Names)
    BY <2>3, RequestIs DEF Found
  <2>6. ~ IsPrefix(p, r.path)
    BY <2>2, <2>4, Zenon DEF Excludes, Crosses
  <2>7. ~ Made(T[u], d, s)
    <3>1. SUFFICES ASSUME Made(T[u], d, s) PROVE FALSE
      OBVIOUS
    <3>2. go_through_inodes(s, p) = k
      BY <2>1, <3>1 DEF Made
    <3>. HIDE DEF s
    <3>3. p = q
      BY <1>1, <2>5, <3>2, OnePath DEF s
    <3>. QED BY <2>6, <3>3
  <2>8. Unlinked(T[u], d, s)
    <3>1. T[u].req.op # "write"
      BY <2>2 DEF EntryOps, Making, Removing
    <3>. QED BY <2>2, <2>3, <2>7, <3>1, Zenon DEF OnTheWay
  <2>9. /\ go_through_inodes(s, Front(p)) = k /\ k \in DOMAIN d
        /\ GoodBlob(k, b) /\ b.is_dir = ISDIR /\ has_path(b, Last(p))
        /\ c = remove_inode_from_path(b, Last(p))
    BY <2>1, <2>8, Zenon DEF Unlinked
  <2>. HIDE DEF s, b, c
  <2>10. Front(p) = q
    BY <1>1, <2>5, <2>9, OnePath DEF s
  <2>11. b \in DirBlob
    BY <2>9, GoodBlobItems
  <2>12. c.is_dir = b.is_dir /\ c.data = b.data
    BY <2>9, <2>11 DEF DirBlob, remove_inode_from_path
  <2>13. ASSUME NEW n \in Names, IsPrefix(Append(q, n), r.path)
         PROVE  get_inode_from_path(b, n) = get_inode_from_path(c, n)
    <3>1. n # Last(p)
      <4>1. SUFFICES ASSUME n = Last(p) PROVE FALSE
        OBVIOUS
      <4>2. /\ Append(q, n) \in Seq(Names) /\ Append(q, n) # << >>
            /\ Front(Append(q, n)) = q /\ Last(Append(q, n)) = n
        BY Appended
      <4>3. Append(q, n) = p
        BY <2>5, <2>10, <4>1, <4>2, SameEnds
      <4>. QED BY <2>6, <2>13, <4>3
    <3>2. /\ b.sub_items \in Seq(Item)
          /\ b = [inodeid |-> b.inodeid, is_dir |-> b.is_dir,
                  sub_items |-> b.sub_items, data |-> b.data]
      BY <2>11 DEF DirBlob
    <3>. QED BY <1>1, <1>2, <2>9, <3>1, <3>2, LookupElsewhere DEF c, s
  <2>14. ~ (r.op \in EntryOps /\ r.path # << >> /\ q = Front(r.path))
    BY <2>2, <2>4, <2>10, Zenon DEF Excludes, Crosses
  <2>15. ~ (r.op = "readdir" /\ q = r.path)
    BY <2>2, <2>4, <2>10, Zenon DEF Excludes, Crosses
  <2>. QED BY <1>2, <1>4, <2>9, <2>12, <2>13, <2>14, <2>15 DEF s, b, c
<1>. QED BY <1>5, <1>6

LEMMA ReadCarries ==
  ASSUME NEW d, NEW T, NEW O, LockInv(d, T, O), NEW t \in Threads, ~ Waiting(T[t]),
         NEW r \in Requests, Unmarked(T, t, r), r.path # << >>,
         NEW q \in Seq(Names), IsPrefix(q, r.path),
         NEW k, k = go_through_inodes(Overlaid(d, T), q), k # NULL,
         NEW new, new.req = r, new.blob = get_blob_from_key(d, k)
  PROVE  Carries(new, Overlaid(d, T), q)
<1>. DEFINE s == Overlaid(d, T)
            b == get_blob_from_key(d, k)
<1>1. /\ k \in DOMAIN s /\ GoodBlob(k, b) /\ b.is_dir = BlobsOf(s)[k].is_dir
      /\ \A n \in Names : IsPrefix(Append(q, n), r.path) =>
           get_inode_from_path(b, n) = go_through_inodes(s, Append(q, n))
      /\ r.op \in EntryOps /\ q = Front(r.path) => b = BlobsOf(s)[k]
  BY ReadAgrees
<1>. HIDE DEF s, b
<1>. QED BY <1>1, Zenon DEF Carries, s, b

----------------------------------------------------------------------------
(* Every step of CkvfsCalls, while nothing has gone wrong.                 *)

\* Request q is answered by r, as the settled device goes from s to s1.
Fulfils(q, s, s1, r) ==
  LET p    == q.path
      k    == go_through_inodes(s, p)
      node == Node(s, k)
  IN  /\ r.op = q.op /\ r.path = p /\ ~ r.late
      /\ \/ /\ q.op = "getattr" /\ s1 = s
            /\ k # NULL => r.err = "OK" /\ r.kind = node.kind /\ r.n = Len(node.data)
            /\ k = NULL => r.err = IF p = <<HEAD>> THEN "OK" ELSE "ENOENT"
         \/ /\ q.op = "readdir" /\ s1 = s /\ r.err = "OK"
            /\ p # <<HEAD>> => /\ k # NULL /\ node.kind = "dir"
                               /\ r.out = get_list(get_blob_from_key(s, k))
         \/ /\ q.op = "read" /\ s1 = s /\ r.err = "OK"
            /\ k # NULL /\ node.kind = "file"
            /\ r.n = Len(node.data) /\ r.out = node.data
         \/ /\ q.op = "write" /\ r.err = "OK"
            /\ k # NULL /\ node.kind = "file"
            /\ \/ FitsBlock(p, Text(q.buf)) /\ r.n = Len(q.buf) /\ Refilled(s, p, Kept(q.buf), s1)
               \/ ~ FitsBlock(p, Text(q.buf) + MaxOverread) /\ r.n = 0 /\ s1 = s
         \/ /\ q.op \in Making
            /\ \/ /\ s1 = s /\ r.err \in {"OK", "ENOTDIR"}
                  /\ go_through_inodes(s, Front(p)) = NULL \/ k # NULL
               \/ /\ r.err = "OK"
                  /\ \E id : Grown(s, p, id, [kind |-> IF q.op = "mkdir" THEN "dir" ELSE "file",
                                              data |-> << >>], s1)
         \/ /\ q.op \in Removing /\ r.err = "OK"
            /\ \/ s1 = s /\ k = NULL
               \/ Shrunk(s, p, s1)

\* The step of a thread that FileTree does not see.
Hidden == LockInv(store', th', overtaken') /\ Settled' = Settled /\ reply' = reply

\* The step in which what was asked happens.
Happens(q) == LockInv(store', th', overtaken') /\ Fulfils(q, Settled, Settled', reply')

\* The step in which one that was overtaken answers.
Missed == LockInv(store', th', overtaken') /\ Settled' = Settled /\ reply'.late

LEMMA BecomesMoves ==
  ASSUME NamesInv, NEW t \in Threads, NEW new, Becomes(t, new)
  PROVE  Moves(th, t, new, th')
BY DEF NamesInv, Becomes, Moves

LEMMA EndMoves ==
  ASSUME NamesInv, NEW t \in Threads, NEW wb, End(t, wb)
  PROVE  /\ \E new : Moves(th, t, new, th') /\ new.pc = "idle" /\ ~ Waiting(new)
         /\ overtaken' = overtaken \ {t}
<1>. DEFINE w   == IF faults' < MaxFaults THEN wb ELSE ZeroBlob
            new == [IdleThread EXCEPT !.wb = w]
<1>1. new.pc = "idle"
  BY DEF IdleThread
<1>2. th' = [th EXCEPT ![t] = new]
  BY DEF End
<1>. HIDE DEF new
<1>3. Moves(th, t, new, th')
  BY <1>2 DEF NamesInv, Moves
<1>4. overtaken' = overtaken \ {t}
  BY DEF End
<1>. QED BY <1>1, <1>3, <1>4 DEF Waiting

LEMMA NoFault ==
  ASSUME SaneInv, NEW n \in {0, 1}, Fails(n), Serving'
  PROVE  n = 0
<1>1. faults \in Nat /\ faults' = faults + n /\ faults' = 0
  BY DEF SaneInv, Fails, Serving, Clear
<1>. QED BY <1>1

LEMMA ReadIs ==
  ASSUME SaneInv, NEW t \in Threads, NEW k, k \in DOMAIN store, NEW res \in ReadResults(t, k),
         Fails(res.failed), Serving'
  PROVE  res.blob = get_blob_from_key(store, k)
<1>1. \/ res.blob = get_blob_from_key(store, k) /\ res.failed = 0
      \/ res.failed = 1
  BY DEF ReadResults
<1>. QED BY <1>1, NoFault

LEMMA SentIs ==
  ASSUME Serving, NEW t \in Threads, NEW r \in Requests, Sent(t, r)
  PROVE  /\ ~ Walks(th, t) /\ ~ Waiting(th[t]) /\ Separate(th, t, r) /\ Looked(r)
<1>1. th[t].pc = "idle" /\ Looked(r)
  BY Zenon DEF Sent, At, Serving
<1>2. Separate(th, t, r)
  BY Zenon DEF Sent, Separate, Walks, Busy
<1>. QED BY <1>1, <1>2 DEF Walks, Waiting

LEMMA FoundWhenSent ==
  ASSUME Serving, NEW t \in Threads, NEW r \in Requests, Sent(t, r),
         ~ OnRoot(r), r.op = "write" => \E n \in Scanned(r.buf) : ~ TooLong(r.path, n)
  PROVE  Found(r, Overlaid(store, th))
<1>1. Looked(r)
  BY SentIs
<1>2. r.op = "write" => FitsBlock(r.path, Text(r.buf))
  <2>. SUFFICES ASSUME r.op = "write" PROVE FitsBlock(r.path, Text(r.buf))
    OBVIOUS
  <2>1. PICK n \in Scanned(r.buf) : ~ TooLong(r.path, n)
    OBVIOUS
  <2>2. /\ r.buf \in Seq(Bytes) /\ r.path \in Seq(Names)
    BY RequestIs
  <2>3. Text(r.buf) \in Nat /\ n \in Nat /\ Text(r.buf) <= n
    BY <2>2, ScannedBounds
  <2>4. Len(r.path) \in Nat /\ MAX_BLOCK \in Nat
    BY <2>2, BlobAssumption
  <2>5. ~ (n + 2 * Len(r.path) > MAX_BLOCK)
    BY <2>1 DEF TooLong, strlen
  <2>6. \A a, c, b, m \in Nat : ~ (a + 2 * b > m) /\ c <= a => c + 2 * b <= m
    OBVIOUS
  <2>. QED BY <2>3, <2>4, <2>5, <2>6 DEF FitsBlock, strlen
<1>3. /\ r.op = "readdir" => attr(Settled, r.path).kind = "dir"
      /\ r.op \in {"read", "write"} => attr(Settled, r.path).kind = "file"
  BY <1>1 DEF Looked
<1>4. r.op \in EntryOps => r.path # <<HEAD>> /\ attr(Settled, Front(r.path)).kind = "dir"
  BY <1>1 DEF Looked, EntryOps, Making, Removing
<1>. QED BY <1>2, <1>3, <1>4, SettledIs, Zenon DEF Found

LEMMA BeginServes ==
  ASSUME NamesInv, SaneInv, Serving, Serving', LockInv(store, th, overtaken),
         NEW t \in Threads, NEW r \in Requests, Begin(t, r)
  PROVE  Hidden
<1>1. Sent(t, r) /\ ~ OnRoot(r)
      /\ (r.op = "write" => \E n \in Scanned(r.buf) : ~ TooLong(r.path, n))
      /\ UNCHANGED <<store, reply>>
  BY Zenon DEF Begin
<1>2. PICK new, res :
        /\ res \in ReadResults(t, root_id) /\ Fails(res.failed)
        /\ Becomes(t, new) /\ new.pc = "split" /\ new.req = r
        /\ new.left = Front(r.path) /\ new.blob = res.blob
  BY BeginShape
<1>3. /\ ~ Walks(th, t) /\ ~ Waiting(th[t]) /\ Separate(th, t, r)
      /\ Found(r, Overlaid(store, th))
  BY <1>1, SentIs, FoundWhenSent
<1>. DEFINE s == Overlaid(store, th)
<1>4. r.path \in Seq(Names) /\ r.path # << >> /\ Front(r.path) \in Seq(Names)
  BY <1>1, RequestIs
<1>5. go_through_inodes(s, << >>) = root_id /\ root_id # NULL
  BY WalkOfRoot, BlobAssumption DEF Keys
<1>6. << >> \in Seq(Names) /\ IsPrefix(<< >>, r.path)
  BY <1>4, NothingBefore
<1>7. overtaken' = IF r.op = "getattr" /\ BeingChanged(r.path) THEN overtaken \cup {t}
                                                               ELSE overtaken
  BY Zenon DEF Begin
<1>8. overtaken' \ {t} = overtaken \ {t} /\ (t \in overtaken' => r.op = "getattr")
  <2>1. t \notin overtaken
    BY <1>3, LockParts DEF Marks, Looking, Walks
  <2>. QED BY <1>7, <2>1
<1>9. Moves(th, t, new, th') /\ ~ Waiting(new)
  BY <1>2, BecomesMoves DEF Waiting
<1>10. SUFFICES ASSUME t \notin overtaken'
                PROVE  OnTheWay(new, store, s) /\ Unmarked(th, t, r)
  <2>1. LockInv(store, th', overtaken') /\ Overlaid(store, th') = s
    BY <1>2, <1>3, <1>8, <1>9, <1>10, QuietMove
  <2>. QED BY <1>1, <2>1, SettledIs DEF Hidden
<1>11. Unmarked(th, t, r)
  <2>. SUFFICES ASSUME NEW u \in Threads \ {t}, Waiting(th[u]), Crosses(th[u].req, r)
                PROVE  FALSE
    BY DEF Unmarked
  <2>1. ~ Excludes(th[u].req, r)
    BY <1>3 DEF Separate, Walks, Waiting
  <2>2. r.op = "getattr" /\ r.path = th[u].req.path
    BY <2>1 DEF Crosses
  <2>3. BeingChanged(r.path)
    BY <2>2 DEF BeingChanged, Waiting, Op, Path
  <2>. QED BY <1>7, <1>10, <2>2, <2>3
<1>12. root_id \in DOMAIN store
  BY <1>3, <1>5, <1>6, <1>11, ReadAgrees
<1>13. new.blob = get_blob_from_key(store, root_id)
  BY <1>2, <1>12, ReadIs
<1>14. Carries(new, s, << >>)
  BY <1>2, <1>3, <1>4, <1>5, <1>6, <1>11, <1>13, ReadCarries
<1>15. Passed(<< >>, new)
  BY <1>2, <1>4 DEF Passed
<1>16. OnTheWay(new, store, s)
  BY <1>2, <1>14, <1>15, Zenon DEF OnTheWay
<1>. QED BY <1>11, <1>16

\* A busy thread, and what the invariant says of it.
LEMMA Walker ==
  ASSUME NamesInv, LockInv(store, th, overtaken), NEW t \in Threads, th[t].pc # "idle"
  PROVE  LET r == th[t].req
             s == Overlaid(store, th)
         IN  /\ Sound(s) /\ ShallowIn(s) /\ Found(r, s) /\ Separate(th, t, r) /\ Walks(th, t)
             /\ t \notin overtaken => OnTheWay(th[t], store, s) /\ Unmarked(th, t, r)
             /\ r.op # "getattr" => t \notin overtaken
             /\ t \in overtaken => Looking(th[t]) /\ r.op = "getattr"
             /\ r \in Requests /\ r.path \in Paths /\ r.path \in Seq(Names) /\ r.path # << >>
             /\ Front(r.path) \in Seq(Names) /\ Last(r.path) \in Names
             /\ IsPrefix(r.path, r.path) /\ IsPrefix(Front(r.path), r.path)
             /\ Path(t) = r.path /\ Name(t) = Last(r.path) /\ Op(t) = r.op
<1>. DEFINE r == th[t].req
            s == Overlaid(store, th)
<1>1. /\ Sound(s) /\ ShallowIn(s) /\ Found(r, s) /\ Separate(th, t, r) /\ Walks(th, t)
      /\ t \notin overtaken => OnTheWay(th[t], store, s) /\ Unmarked(th, t, r)
      /\ r.op # "getattr" => t \notin overtaken
      /\ t \in overtaken => Looking(th[t])
  BY LockParts, OthersAreNot DEF Walks, Marks
<1>2. r \in Requests /\ ~ OnRoot(r)
  BY <1>1 DEF Found
<1>3. /\ r.path \in Paths /\ r.path \in Seq(Names) /\ r.path # << >>
      /\ Front(r.path) \in Seq(Names) /\ Last(r.path) \in Names
  BY <1>2, RequestIs
<1>4. IsPrefix(r.path, r.path) /\ IsPrefix(Front(r.path), r.path)
  BY <1>3, OwnPrefixes, Zenon
<1>5. Path(t) = r.path /\ Name(t) = Last(r.path) /\ Op(t) = r.op
  BY DEF Path, Name, Op, get_fn_dir
<1>6. t \in overtaken => Looking(th[t]) /\ r.op = "getattr"
  BY <1>1 DEF Looking
<1>. QED BY <1>1, <1>2, <1>3, <1>4, <1>5, <1>6, Zenon

LEMMA WayAt ==
  ASSUME NEW r, NEW d, NEW s
  PROVE  /\ \A q : r.pc \in {"split", "token", "take"} /\ Passed(q, r) /\ Carries(r, s, q)
                     => OnTheWay(r, d, s)
         /\ \A q : r.pc = "enter" /\ Passed(q, r) /\ r.key = go_through_inodes(s, q)
                     /\ r.key \in DOMAIN s => OnTheWay(r, d, s)
         /\ r.pc = "arrived" /\ r.blob = NoBlob /\ go_through_inodes(s, Front(r.req.path)) = NULL
              => OnTheWay(r, d, s)
         /\ r.pc = "arrived" /\ Carries(r, s, Front(r.req.path)) => OnTheWay(r, d, s)
<1>1. \A q : r.pc \in {"split", "token", "take"} /\ Passed(q, r) /\ Carries(r, s, q)
                     => OnTheWay(r, d, s)
  BY DEF OnTheWay
<1>2. \A q : r.pc = "enter" /\ Passed(q, r) /\ r.key = go_through_inodes(s, q)
                     /\ r.key \in DOMAIN s => OnTheWay(r, d, s)
  BY DEF OnTheWay
<1>3. r.pc = "arrived" /\ r.blob = NoBlob /\ go_through_inodes(s, Front(r.req.path)) = NULL
        => OnTheWay(r, d, s)
  BY DEF OnTheWay
<1>4. r.pc = "arrived" /\ Carries(r, s, Front(r.req.path)) => OnTheWay(r, d, s)
  BY DEF OnTheWay
<1>. QED BY <1>1, <1>2, <1>3, <1>4, Zenon

LEMMA CarriesSame ==
  ASSUME NEW r, NEW s, NEW q, Carries(r, s, q), NEW new, new.req = r.req, new.blob = r.blob
  PROVE  Carries(new, s, q)
BY Zenon DEF Carries

\* Hidden steps that leave the device alone.
LEMMA HiddenMove ==
  ASSUME NamesInv, LockInv(store, th, overtaken), NEW t \in Threads, NEW new, Becomes(t, new),
         th[t].pc # "second", new.pc # "second", new.pc # "idle", new.req = th[t].req,
         th[t].pc # "idle", UNCHANGED <<store, reply, overtaken>>,
         t \in overtaken \/ OnTheWay(new, store, Overlaid(store, th))
  PROVE  Hidden
<1>1. Moves(th, t, new, th') /\ ~ Waiting(th[t]) /\ ~ Waiting(new)
  BY BecomesMoves DEF Waiting
<1>2. /\ Found(new.req, Overlaid(store, th)) /\ Separate(th, t, new.req)
      /\ t \notin overtaken => Unmarked(th, t, new.req)
      /\ t \in overtaken => new.req.op = "getattr"
  BY Walker
<1>3. overtaken' \ {t} = overtaken \ {t} /\ (t \in overtaken' <=> t \in overtaken)
  OBVIOUS
<1>4. LockInv(store, th', overtaken') /\ Overlaid(store, th') = Overlaid(store, th)
  BY <1>1, <1>2, <1>3, QuietMove
<1>. QED BY <1>4, SettledIs DEF Hidden

LEMMA OvertakenFollows ==
  ASSUME NamesInv, LockInv(store, th, overtaken), NEW t \in Threads, t \in overtaken,
         th[t].pc \in {"split", "take"}, NEW s, Follow(t, s)
  PROVE  Hidden
<1>1. PICK new : Becomes(t, new) /\ new.req = th[t].req /\ new.pc \in {"arrived", "enter"}
  <2>1. PICK new :
          /\ Becomes(t, new) /\ new.req = th[t].req
          /\ new.wb = th[t].wb /\ new.since = th[t].since
          /\ \/ s = Root /\ new.pc = "arrived" /\ new.blob = th[t].blob
             \/ /\ s # Root /\ has_path(th[t].blob, Head(s))
                /\ new.pc = "enter" /\ new.blob = th[t].blob
                /\ new.key = get_inode_from_path(th[t].blob, Head(s))
                /\ new.left = Behind(th[t].left)
             \/ /\ s # Root /\ ~ has_path(th[t].blob, Head(s))
                /\ new.pc = "arrived" /\ new.blob = NoBlob
    BY FollowShape
  <2>2. new.pc \in {"arrived", "enter"}
    BY <2>1
  <2>. QED BY <2>1, <2>2
<1>2. UNCHANGED <<store, reply, overtaken>>
  BY Zenon DEF Follow
<1>. QED BY <1>1, <1>2, HiddenMove

LEMMA FollowServes ==
  ASSUME NamesInv, LockInv(store, th, overtaken), NEW t \in Threads, t \notin overtaken,
         th[t].pc \in {"split", "take"}, Follow(t, th[t].left)
  PROVE  Hidden
<1>. DEFINE s == Overlaid(store, th)
            r == th[t]
            p == r.req.path
<1>1. /\ Sound(s) /\ OnTheWay(r, store, s)
      /\ r.req \in Requests /\ p \in Seq(Names) /\ p # << >> /\ Front(p) \in Seq(Names)
  BY Walker
<1>2. PICK q : Passed(q, r) /\ Carries(r, s, q)
  BY <1>1 DEF OnTheWay
<1>3. /\ q \in Seq(Names)
      /\ r.left # Root =>
           /\ Head(r.left) \in Names /\ Tail(r.left) \in Seq(Names)
           /\ Append(q, Head(r.left)) \in Seq(Names)
           /\ Append(q, Head(r.left)) \o Tail(r.left) = Front(p)
           /\ IsPrefix(Append(q, Head(r.left)), Front(p))
           /\ IsPrefix(Append(q, Head(r.left)), p)
  BY <1>1, <1>2, PassedIsPrefix
<1>4. PICK new :
        /\ Becomes(t, new) /\ new.req = r.req
        /\ \/ r.left = Root /\ new.pc = "arrived" /\ new.blob = r.blob
           \/ /\ r.left # Root /\ has_path(r.blob, Head(r.left))
              /\ new.pc = "enter" /\ new.blob = r.blob
              /\ new.key = get_inode_from_path(r.blob, Head(r.left))
              /\ new.left = Behind(r.left)
           \/ /\ r.left # Root /\ ~ has_path(r.blob, Head(r.left))
              /\ new.pc = "arrived" /\ new.blob = NoBlob
  <2>1. \E new :
          /\ Becomes(t, new) /\ new.req = th[t].req
          /\ new.wb = th[t].wb /\ new.since = th[t].since
          /\ \/ th[t].left = Root /\ new.pc = "arrived" /\ new.blob = th[t].blob
             \/ /\ th[t].left # Root /\ has_path(th[t].blob, Head(th[t].left))
                /\ new.pc = "enter" /\ new.blob = th[t].blob
                /\ new.key = get_inode_from_path(th[t].blob, Head(th[t].left))
                /\ new.left = Behind(th[t].left)
             \/ /\ th[t].left # Root /\ ~ has_path(th[t].blob, Head(th[t].left))
                /\ new.pc = "arrived" /\ new.blob = NoBlob
    BY FollowShape
  <2>. QED BY <2>1, Zenon
<1>5. UNCHANGED <<store, reply, overtaken>>
  BY Zenon DEF Follow
<1>. HIDE DEF s, r, p
<1>6. ASSUME r.left = Root /\ new.pc = "arrived" /\ new.blob = r.blob
      PROVE  OnTheWay(new, store, s)
  <2>1. q = Front(p)
    BY <1>1, <1>2, <1>3, <1>6 DEF Passed, Root, p
  <2>2. Carries(new, s, Front(p))
    BY <1>2, <1>4, <1>6, <2>1, CarriesSame
  <2>. QED BY <1>4, <1>6, <2>2, WayAt DEF p
<1>7. ASSUME r.left # Root
      PROVE  /\ get_inode_from_path(r.blob, Head(r.left))
                  = go_through_inodes(s, Append(q, Head(r.left)))
             /\ has_path(r.blob, Head(r.left))
                  => get_inode_from_path(r.blob, Head(r.left)) # NULL
             /\ ~ has_path(r.blob, Head(r.left))
                  => get_inode_from_path(r.blob, Head(r.left)) = NULL
  <2>1. GoodBlob(go_through_inodes(s, q), r.blob)
    BY <1>2 DEF Carries
  <2>2. r.blob.sub_items \in Seq(Item)
    BY <2>1, GoodBlobItems
  <2>3. get_inode_from_path(r.blob, Head(r.left)) = go_through_inodes(s, Append(q, Head(r.left)))
    BY <1>2, <1>3, <1>7 DEF Carries, p
  <2>. QED BY <2>2, <2>3, InodeOfEntry, BlobAssumption DEF Keys
<1>8. ASSUME /\ r.left # Root /\ has_path(r.blob, Head(r.left))
             /\ new.pc = "enter" /\ new.blob = r.blob
             /\ new.key = get_inode_from_path(r.blob, Head(r.left))
             /\ new.left = Behind(r.left)
      PROVE  OnTheWay(new, store, s)
  <2>. DEFINE q1 == Append(q, Head(r.left))
  <2>1. new.key = go_through_inodes(s, q1) /\ new.key # NULL
    BY <1>7, <1>8
  <2>2. new.key \in DOMAIN s
    BY <1>1, <1>3, <1>8, <2>1, WalkEnds
  <2>3. Passed(q1, new)
    BY <1>3, <1>4, <1>8 DEF Passed, Behind, p
  <2>. HIDE DEF q1
  <2>. QED BY <1>8, <2>1, <2>2, <2>3, WayAt
<1>9. ASSUME /\ r.left # Root /\ ~ has_path(r.blob, Head(r.left))
             /\ new.pc = "arrived" /\ new.blob = NoBlob
      PROVE  OnTheWay(new, store, s)
  <2>. DEFINE q1 == Append(q, Head(r.left))
  <2>1. go_through_inodes(s, q1) = NULL
    BY <1>7, <1>9
  <2>2. q1 \in Seq(Names) /\ IsPrefix(q1, Front(p))
    BY <1>3, <1>9
  <2>. HIDE DEF q1
  <2>3. NULL \notin DOMAIN s
    BY <1>1, WalkEnds
  <2>4. go_through_inodes(s, Front(p)) = NULL
    BY <1>1, <2>1, <2>2, <2>3, AboveIsDirectory
  <2>. QED BY <1>4, <1>9, <2>4, WayAt DEF p
<1>10. OnTheWay(new, store, s)
  BY <1>4, <1>6, <1>8, <1>9, Zenon
<1>11. new.pc # "second" /\ new.pc # "idle" /\ new.req = th[t].req
  BY <1>4 DEF r
<1>. QED BY <1>4, <1>5, <1>10, <1>11, HiddenMove DEF s

LEMMA SplitServes ==
  ASSUME NamesInv, LockInv(store, th, overtaken), NEW t \in Threads, Split(t)
  PROVE  Hidden
<1>1. th[t].pc = "split" /\ Follow(t, th[t].left)
  BY Zenon DEF Split, At
<1>. QED BY <1>1, FollowServes, OvertakenFollows

LEMMA TakeServes ==
  ASSUME NamesInv, Serving', LockInv(store, th, overtaken), NEW t \in Threads, Take(t)
  PROVE  Hidden
<1>1. PICK s : Follow(t, s) /\ mixed' = (mixed \/ s # th[t].left)
  BY Zenon DEF Take
<1>2. s = th[t].left
  BY <1>1 DEF Serving, Clear
<1>3. th[t].pc = "take"
  BY DEF Take, At
<1>. QED BY <1>1, <1>2, <1>3, FollowServes, OvertakenFollows

LEMMA LoadServes ==
  ASSUME NamesInv, LockInv(store, th, overtaken), NEW t \in Threads, Load(t)
  PROVE  Hidden
<1>1. UNCHANGED <<store, reply, overtaken>>
  BY Zenon DEF Load
<1>2. th[t].pc = "token"
  BY LoadShape
<1>3. PICK new : /\ Becomes(t, new) /\ new.pc = "take" /\ new.req = th[t].req
                 /\ new.left = th[t].left /\ new.blob = th[t].blob
  BY LoadShape
<1>4. SUFFICES ASSUME t \notin overtaken
               PROVE  OnTheWay(new, store, Overlaid(store, th))
  BY <1>1, <1>2, <1>3, HiddenMove
<1>5. PICK q : Passed(q, th[t]) /\ Carries(th[t], Overlaid(store, th), q)
  <2>1. OnTheWay(th[t], store, Overlaid(store, th))
    BY <1>2, <1>4, Walker
  <2>. QED BY <1>2, <2>1 DEF OnTheWay
<1>6. Passed(q, new) /\ Carries(new, Overlaid(store, th), q)
  BY <1>3, <1>5, CarriesSame DEF Passed
<1>. QED BY <1>3, <1>6, Zenon DEF OnTheWay

LEMMA EnterServes ==
  ASSUME NamesInv, SaneInv, Serving', LockInv(store, th, overtaken), NEW t \in Threads, Enter1(t)
  PROVE  Hidden
<1>. DEFINE s == Overlaid(store, th)
<1>1. UNCHANGED <<store, reply, overtaken>>
  BY Zenon DEF Enter1
<1>2. th[t].pc = "enter"
  BY EnterShape
<1>3. PICK new, res :
        /\ res \in ReadResults(t, th[t].key) /\ Fails(res.failed)
        /\ Becomes(t, new) /\ new.pc = "token" /\ new.req = th[t].req
        /\ new.left = th[t].left /\ new.blob = res.blob
  BY EnterShape
<1>4. SUFFICES ASSUME t \notin overtaken PROVE OnTheWay(new, store, s)
  BY <1>1, <1>2, <1>3, HiddenMove
<1>5. /\ Sound(s) /\ OnTheWay(th[t], store, s) /\ Unmarked(th, t, th[t].req)
      /\ th[t].req \in Requests /\ th[t].req.path # << >>
  BY <1>2, <1>4, Walker
<1>6. PICK q : Passed(q, th[t]) /\ th[t].key = go_through_inodes(s, q) /\ th[t].key \in DOMAIN s
  BY <1>2, <1>5 DEF OnTheWay
<1>7. q \in Seq(Names) /\ IsPrefix(q, th[t].req.path)
  BY <1>5, <1>6, PassedIsPrefix
<1>8. th[t].key # NULL /\ ~ Waiting(th[t])
  BY <1>2, <1>5, <1>6, <1>7, WalkEnds DEF Waiting
<1>9. th[t].key \in DOMAIN store
  BY <1>5, <1>6, <1>7, <1>8, ReadAgrees
<1>10. new.blob = get_blob_from_key(store, th[t].key)
  BY <1>3, <1>9, ReadIs
<1>11. Carries(new, s, q)
  BY <1>3, <1>5, <1>6, <1>7, <1>8, <1>10, ReadCarries
<1>12. Passed(q, new)
  BY <1>3, <1>6 DEF Passed
<1>. QED BY <1>3, <1>11, <1>12, Zenon DEF OnTheWay

LEMMA ArrivedIs ==
  ASSUME NamesInv, LockInv(store, th, overtaken), NEW t \in Threads, t \notin overtaken,
         th[t].pc = "arrived"
  PROVE  LET s  == Overlaid(store, th)
             p  == th[t].req.path
             b  == th[t].blob
             k  == go_through_inodes(s, Front(p))
             id == go_through_inodes(s, p)
         IN  \/ DirIsMissing(t) /\ k = NULL /\ id = NULL
             \/ /\ ~ DirIsMissing(t) /\ Carries(th[t], s, Front(p))
                /\ k \in DOMAIN s /\ k # NULL /\ GoodBlob(k, b) /\ b.sub_items \in Seq(Item)
                /\ b.is_dir = BlobsOf(s)[k].is_dir
                /\ EntryKey(t) = id /\ (has_path(b, Name(t)) <=> id # NULL)
                /\ id # NULL => b.is_dir = ISDIR /\ id \in DOMAIN s
<1>. DEFINE s  == Overlaid(store, th)
            p  == th[t].req.path
            b  == th[t].blob
            k  == go_through_inodes(s, Front(p))
            id == go_through_inodes(s, p)
<1>1. /\ Sound(s) /\ OnTheWay(th[t], store, s)
      /\ p \in Seq(Names) /\ p # << >> /\ Front(p) \in Seq(Names) /\ Last(p) \in Names
      /\ IsPrefix(p, p) /\ Name(t) = Last(p)
  BY Walker
<1>2. CASE b = NoBlob /\ k = NULL
  <2>. HIDE DEF s, p
  <2>1. id = NULL
    BY <1>1, <1>2, StepOfWalk
  <2>. QED BY <1>2, <2>1, Zenon DEF DirIsMissing, s, p
<1>3. CASE Carries(th[t], s, Front(p))
  <2>1. /\ k \in DOMAIN s /\ GoodBlob(k, b) /\ b.is_dir = BlobsOf(s)[k].is_dir
        /\ \A n \in Names : IsPrefix(Append(Front(p), n), p) =>
             get_inode_from_path(b, n) = go_through_inodes(s, Append(Front(p), n))
    BY <1>3, Zenon DEF Carries
  <2>. HIDE DEF s, p, b
  <2>2. k # NULL /\ id \in DOMAIN s \cup {NULL}
    BY <1>1, <2>1, WalkEnds
  <2>3. b # NoBlob
    BY <2>1, <2>2 DEF GoodBlob, NoBlob, ZeroBlob
  <2>4. Append(Front(p), Last(p)) = p
    <3>1. /\ Append(Front(p), Last(p)) \in Seq(Names) /\ Append(Front(p), Last(p)) # << >>
          /\ Front(Append(Front(p), Last(p))) = Front(p)
          /\ Last(Append(Front(p), Last(p))) = Last(p)
      BY <1>1, Appended
    <3>. QED BY <1>1, <3>1, SameEnds
  <2>5. get_inode_from_path(b, Last(p)) = id
    BY <1>1, <2>1, <2>4
  <2>6. b.sub_items \in Seq(Item)
    BY <2>1, GoodBlobItems
  <2>7. has_path(b, Last(p)) <=> id # NULL
    BY <2>5, <2>6, InodeOfEntry, BlobAssumption DEF Keys
  <2>8. id # NULL => BlobsOf(s)[k].is_dir = ISDIR
    BY <1>1, WalkEnters
  <2>9. EntryKey(t) = id
    BY <1>1, <2>5, Zenon DEF EntryKey, b
  <2>10. /\ ~ DirIsMissing(t) /\ (has_path(th[t].blob, Name(t)) <=> id # NULL)
         /\ id # NULL => b.is_dir = ISDIR /\ id \in DOMAIN s
    BY <1>1, <2>1, <2>2, <2>3, <2>7, <2>8 DEF DirIsMissing, b
  <2>. QED BY <1>3, <2>1, <2>2, <2>6, <2>9, <2>10, Zenon DEF s, p, b
<1>4. (b = NoBlob /\ k = NULL) \/ Carries(th[t], s, Front(p))
  BY <1>1, Zenon DEF OnTheWay
<1>. QED BY <1>2, <1>3, <1>4

\* The end of a handler that has nothing to store.
LEMMA EndServes ==
  ASSUME NamesInv, LockInv(store, th, overtaken), NEW t \in Threads, NEW wb, End(t, wb), UNCHANGED store,
         th[t].pc # "second"
  PROVE  LockInv(store', th', overtaken') /\ Settled' = Settled
<1>1. /\ \E new : Moves(th, t, new, th') /\ new.pc = "idle" /\ ~ Waiting(new)
      /\ overtaken' = overtaken \ {t}
  BY EndMoves
<1>2. PICK new : Moves(th, t, new, th') /\ new.pc = "idle" /\ ~ Waiting(new)
  BY <1>1
<1>3. ~ Waiting(th[t])
  BY DEF Waiting
<1>4. overtaken' \ {t} = overtaken \ {t} /\ t \notin overtaken'
  BY <1>1
<1>5. LockInv(store, th', overtaken') /\ Overlaid(store, th') = Overlaid(store, th)
  BY <1>2, <1>3, <1>4, QuietMove
<1>. QED BY <1>5, SettledIs

LEMMA ReplyFields ==
  ASSUME NEW op, NEW p, NEW r,
         \/ \E e : r = [Request(op, p) EXCEPT !.err = e]
         \/ r = Request(op, p)
         \/ \E kd, n : r = [Request(op, p) EXCEPT !.kind = kd, !.n = n]
         \/ \E n : r = [Request(op, p) EXCEPT !.n = n]
         \/ \E n, o : r = [Request(op, p) EXCEPT !.n = n, !.out = o]
  PROVE  r.op = op /\ r.path = p
BY DEF Request, NoReply

LEMMA GivesUp ==
  ASSUME NamesInv, LockInv(store, th, overtaken), NEW t \in Threads, th[t].pc = "arrived",
         NEW err, GiveUp(t, err)
  PROVE  /\ LockInv(store', th', overtaken') /\ Settled' = Settled
         /\ reply'.op = th[t].req.op /\ reply'.path = th[t].req.path /\ reply'.err = err
         /\ reply'.late = (t \in overtaken)
<1>1. /\ UNCHANGED store /\ End(t, th[t].wb)
      /\ reply' = [Reply(t) EXCEPT !.err = err, !.late = (t \in overtaken)]
  BY Zenon DEF GiveUp, Answer
<1>2. LockInv(store', th', overtaken') /\ Settled' = Settled
  BY <1>1, EndServes
<1>3. reply' = [Request(th[t].req.op, th[t].req.path) EXCEPT !.err = err,
                                                             !.late = (t \in overtaken)]
  BY <1>1, Zenon DEF Reply, Op, Path
<1>4. /\ reply'.op = th[t].req.op /\ reply'.path = th[t].req.path /\ reply'.err = err
      /\ reply'.late = (t \in overtaken)
  BY <1>3 DEF Request, NoReply
<1>. QED BY <1>2, <1>4

\* An answer that changes nothing.
LEMMA ShowsWhatIs ==
  ASSUME NEW q, LockInv(store', th', overtaken'), Settled' = Settled,
         reply'.op = q.op, reply'.path = q.path, ~ reply'.late, NEW s, s = Overlaid(store, th),
         NEW k, k = go_through_inodes(s, q.path),
         \/ /\ q.op = "getattr"
            /\ k # NULL => /\ reply'.err = "OK" /\ reply'.kind = Node(s, k).kind
                           /\ reply'.n = Len(Node(s, k).data)
            /\ k = NULL => reply'.err = IF q.path = <<HEAD>> THEN "OK" ELSE "ENOENT"
         \/ /\ q.op = "readdir" /\ reply'.err = "OK"
            /\ q.path # <<HEAD>> => /\ k # NULL /\ Node(s, k).kind = "dir"
                                    /\ reply'.out = get_list(get_blob_from_key(s, k))
         \/ /\ q.op = "read" /\ reply'.err = "OK"
            /\ k # NULL /\ Node(s, k).kind = "file"
            /\ reply'.n = Len(Node(s, k).data) /\ reply'.out = Node(s, k).data
  PROVE  Happens(q)
<1>1. Settled = s /\ Settled' = s
  BY SettledIs
<1>2. CASE /\ q.op = "getattr"
           /\ k # NULL => /\ reply'.err = "OK" /\ reply'.kind = Node(s, k).kind
                          /\ reply'.n = Len(Node(s, k).data)
           /\ k = NULL => reply'.err = IF q.path = <<HEAD>> THEN "OK" ELSE "ENOENT"
  <2>1. Fulfils(q, s, s, reply')
    BY <1>2, Zenon DEF Fulfils
  <2>. QED BY <1>1, <2>1, Zenon DEF Happens
<1>3. CASE /\ q.op = "readdir" /\ reply'.err = "OK"
           /\ q.path # <<HEAD>> => /\ k # NULL /\ Node(s, k).kind = "dir"
                                   /\ reply'.out = get_list(get_blob_from_key(s, k))
  <2>1. Fulfils(q, s, s, reply')
    BY <1>3, Zenon DEF Fulfils
  <2>. QED BY <1>1, <2>1, Zenon DEF Happens
<1>4. CASE /\ q.op = "read" /\ reply'.err = "OK"
           /\ k # NULL /\ Node(s, k).kind = "file"
           /\ reply'.n = Len(Node(s, k).data) /\ reply'.out = Node(s, k).data
  <2>1. Fulfils(q, s, s, reply')
    BY <1>4, Zenon DEF Fulfils
  <2>. QED BY <1>1, <2>1, Zenon DEF Happens
<1>. QED BY <1>2, <1>3, <1>4

\* An answer of one that was overtaken.
LEMMA LookMisses ==
  ASSUME NamesInv, LockInv(store, th, overtaken), NEW t \in Threads, t \in overtaken, Look(t)
  PROVE  Missed
<1>1. th[t].pc = "arrived" /\ th[t].req.op = "getattr"
  BY Walker DEF Look, Arrived, At
<1>2. CASE EarlyReturn(t) # "none"
  <2>1. GiveUp(t, EarlyReturn(t))
    BY <1>2, Zenon DEF Look
  <2>. QED BY <1>1, <2>1, GivesUp DEF Missed
<1>3. CASE EarlyReturn(t) = "none"
  <2>1. PICK res \in ReadResults(t, EntryKey(t)) :
          /\ reply' = [Shown(t, res.blob) EXCEPT !.late = (t \in overtaken)]
          /\ End(t, res.blob) /\ UNCHANGED store
    BY <1>3, Zenon DEF Look
  <2>2. LockInv(store', th', overtaken') /\ Settled' = Settled
    BY <1>1, <2>1, EndServes
  <2>3. reply'.late
    <3>1. Op(t) = "getattr"
      BY <1>1 DEF Op
    <3>2. Shown(t, res.blob) =
            [Request(Op(t), Path(t)) EXCEPT
               !.kind = IF res.blob.is_dir = ISDIR THEN "dir" ELSE "file",
               !.n = Len(res.blob.data)]
      BY <3>1 DEF Shown, Reply
    <3>3. reply'.late = (t \in overtaken)
      BY <2>1, <3>2 DEF Request, NoReply
    <3>. QED BY <3>3
  <2>. QED BY <2>2, <2>3 DEF Missed
<1>. QED BY <1>2, <1>3

LEMMA LookServes ==
  ASSUME NamesInv, SaneInv, Serving', LockInv(store, th, overtaken), NEW t \in Threads,
         t \notin overtaken, Look(t)
  PROVE  Happens(th[t].req)
<1>. DEFINE s  == Overlaid(store, th)
            q  == th[t].req
            p  == q.path
            b  == th[t].blob
            k  == go_through_inodes(s, Front(p))
            id == go_through_inodes(s, p)
            c  == get_blob_from_key(store, id)
<1>1. th[t].pc = "arrived" /\ q.op \in {"getattr", "readdir", "read"}
  BY DEF Look, Arrived, At, Op
<1>2. /\ Sound(s) /\ Found(q, s) /\ Unmarked(th, t, q)
      /\ q \in Requests /\ p \in Seq(Names) /\ p # << >> /\ Front(p) \in Seq(Names)
      /\ IsPrefix(p, p) /\ Name(t) = Last(p) /\ Op(t) = q.op /\ Path(t) = p
  BY <1>1, Walker
<1>3. \/ DirIsMissing(t) /\ k = NULL /\ id = NULL
      \/ /\ ~ DirIsMissing(t) /\ k \in DOMAIN s /\ k # NULL
         /\ b.is_dir = BlobsOf(s)[k].is_dir
         /\ EntryKey(t) = id /\ (has_path(b, Name(t)) <=> id # NULL)
         /\ id # NULL => b.is_dir = ISDIR /\ id \in DOMAIN s
  BY <1>1, ArrivedIs, Zenon
<1>4. /\ q.op = "read" => id # NULL /\ Node(s, id).kind = "file"
      /\ q.op = "readdir" /\ p # <<HEAD>> => id # NULL /\ Node(s, id).kind = "dir"
  BY <1>2, FoundKinds
<1>5. q.op = "readdir" /\ p = <<HEAD>> => ~ DirIsMissing(t) /\ b.is_dir = ISDIR
  <2>. SUFFICES ASSUME q.op = "readdir", p = <<HEAD>>
                PROVE  ~ DirIsMissing(t) /\ b.is_dir = ISDIR
    OBVIOUS
  <2>1. Front(p) = << >>
    <3>1. p \in Seq(Names) /\ p # << >> /\ p = <<HEAD>>
      BY <1>2
    <3>. HIDE DEF p
    <3>2. Last(p) = HEAD
      <4>1. Last(p) = p[Len(p)]
        BY <3>1, FrontLast
      <4>2. Len(p) = 1 /\ p[1] = HEAD
        BY <3>1
      <4>. QED BY <4>1, <4>2
    <3>3. p = <<Last(p)>>
      BY <3>1, <3>2, Zenon
    <3>. QED BY <3>1, <3>3, Single
  <2>2. k = root_id
    BY <2>1, WalkOfRoot
  <2>. HIDE DEF s
  <2>3. BlobsOf(s)[root_id].is_dir = ISDIR
    BY <1>2 DEF Sound, Rooted
  <2>. QED BY <1>3, <2>2, <2>3, BlobAssumption DEF Keys
<1>6. CASE EarlyReturn(t) # "none"
  <2>1. GiveUp(t, EarlyReturn(t))
    BY <1>6, Zenon DEF Look
  <2>2. /\ LockInv(store', th', overtaken') /\ Settled' = Settled
        /\ reply'.op = q.op /\ reply'.path = p /\ reply'.err = EarlyReturn(t)
        /\ ~ reply'.late
    BY <1>1, <2>1, GivesUp
  <2>3. q.op = "getattr" /\ EarlyReturn(t) = "ENOENT" /\ id = NULL
    <3>. HIDE DEF s, q, p, b, k, id
    <3>1. CASE q.op = "getattr"
      BY <1>2, <1>3, <1>6, <3>1 DEF EarlyReturn, b
    <3>2. CASE q.op = "readdir"
      <4>1. ~ DirIsMissing(t) /\ b.is_dir = ISDIR
        BY <1>3, <1>4, <1>5, <3>2
      <4>. QED BY <1>2, <1>6, <3>2, <4>1 DEF EarlyReturn, b, ISDIR, NOTDIR
    <3>3. CASE q.op = "read"
      <4>1. ~ DirIsMissing(t) /\ EntryKey(t) # NULL
        BY <1>3, <1>4, <3>3
      <4>. QED BY <1>2, <1>6, <3>3, <4>1 DEF EarlyReturn
    <3>. QED BY <1>1, <3>1, <3>2, <3>3
  <2>4. p # <<HEAD>>
    BY <1>2, <2>3, Zenon DEF Found, OnRoot
  <2>. QED BY <2>2, <2>3, <2>4, SettledIs, Zenon DEF Happens, Fulfils
<1>7. CASE EarlyReturn(t) = "none"
  <2>1. PICK res \in ReadResults(t, EntryKey(t)) :
          /\ Fails(res.failed) /\ End(t, res.blob) /\ UNCHANGED store
          /\ reply' = [Shown(t, res.blob) EXCEPT !.late = (t \in overtaken)]
    BY <1>7, Zenon DEF Look
  <2>2. LockInv(store', th', overtaken') /\ Settled' = Settled
    BY <1>1, <2>1, EndServes
  <2>3. reply' = [Shown(t, res.blob) EXCEPT !.late = FALSE]
    <3>1. (t \in overtaken) = FALSE
      OBVIOUS
    <3>. QED BY <2>1, <3>1, Zenon
  <2>4. ~ DirIsMissing(t) /\ EntryKey(t) = id
    <3>. HIDE DEF s, q, p, b, k, id
    <3>. QED BY <1>3, <1>7, <1>1, <1>2 DEF EarlyReturn
  <2>5. ASSUME id # NULL
        PROVE  /\ res.blob = c /\ c.is_dir = BlobsOf(s)[id].is_dir
               /\ c.data = BlobsOf(s)[id].data
               /\ q.op = "readdir" => c = BlobsOf(s)[id]
               /\ id \in DOMAIN s
    <3>1. ~ Waiting(th[t])
      BY <1>1 DEF Waiting
    <3>2. /\ id \in DOMAIN store /\ id \in DOMAIN s
          /\ c.is_dir = BlobsOf(s)[id].is_dir /\ c.data = BlobsOf(s)[id].data
          /\ q.op = "readdir" => c = BlobsOf(s)[id]
      BY <1>2, <2>5, <3>1, ReadAgrees
    <3>3. res.blob = c
      BY <2>1, <2>4, <3>2, ReadIs
    <3>. QED BY <3>2, <3>3
  <2>6. ASSUME id # NULL
        PROVE  Node(s, id) = [kind |-> IF c.is_dir = ISDIR THEN "dir" ELSE "file",
                              data |-> c.data]
    BY <2>5, <2>6, Zenon DEF Node
  <2>7. CASE q.op = "getattr"
    <3>1. id # NULL
      <4>. HIDE DEF s, q, p, b, k, id
      <4>. QED BY <1>2, <1>3, <1>7, <2>4, <2>7 DEF EarlyReturn, b
    <3>2. reply' = [[Request(q.op, p) EXCEPT
                       !.kind = IF c.is_dir = ISDIR THEN "dir" ELSE "file", !.n = Len(c.data)]
                    EXCEPT !.late = FALSE]
      BY <1>2, <2>3, <2>5, <2>7, <3>1 DEF Shown, Reply
    <3>. HIDE DEF s, q, p, b, k, id, c
    <3>3. /\ reply'.op = q.op /\ reply'.path = p /\ reply'.err = "OK"
          /\ ~ reply'.late /\ reply'.kind = (IF c.is_dir = ISDIR THEN "dir" ELSE "file")
          /\ reply'.n = Len(c.data)
      BY <3>2 DEF Request, NoReply
    <3>4. /\ reply'.kind = Node(s, id).kind
          /\ reply'.n = Len(Node(s, id).data)
      BY <2>6, <3>1, <3>3
    <3>. QED BY <2>2, <2>7, <3>1, <3>3, <3>4, ShowsWhatIs DEF s, q, p, id, c
  <2>8. CASE q.op = "readdir"
    <3>1. reply' = [Listing(p, res.blob) EXCEPT !.late = FALSE]
      BY <1>2, <2>3, <2>8 DEF Shown
    <3>2. /\ reply'.op = q.op /\ reply'.path = p /\ reply'.err = "OK" /\ ~ reply'.late
          /\ reply'.out = get_list(res.blob)
      <4>. HIDE DEF p
      <4>. QED BY <2>8, <3>1 DEF Listing, Request, NoReply
    <3>3. ASSUME p # <<HEAD>>
          PROVE  /\ id # NULL /\ Node(s, id).kind = "dir"
                 /\ reply'.out = get_list(get_blob_from_key(s, id))
      <4>1. id # NULL /\ Node(s, id).kind = "dir"
        BY <1>4, <2>8, <3>3
      <4>2. res.blob = BlobsOf(s)[id] /\ id \in DOMAIN s
        BY <2>5, <2>8, <4>1
      <4>. HIDE DEF s, p, id
      <4>3. res.blob = get_blob_from_key(s, id)
        BY <4>2 DEF BlobsOf
      <4>. QED BY <3>2, <4>1, <4>3
    <3>. HIDE DEF s, q, p, b, k, id, c
    <3>. QED BY <2>2, <2>8, <3>2, <3>3, ShowsWhatIs DEF s, q, p, id, c
  <2>9. CASE q.op = "read"
    <3>1. id # NULL /\ Node(s, id).kind = "file"
      BY <1>4, <2>9
    <3>2. reply' = [[Request(q.op, p) EXCEPT !.n = Len(c.data), !.out = c.data]
                    EXCEPT !.late = FALSE]
      BY <1>2, <2>3, <2>5, <2>9, <3>1 DEF Shown, Reply
    <3>. HIDE DEF s, q, p, b, k, id, c
    <3>3. /\ reply'.op = q.op /\ reply'.path = p /\ reply'.err = "OK"
          /\ ~ reply'.late /\ reply'.n = Len(c.data) /\ reply'.out = c.data
      BY <3>2 DEF Request, NoReply
    <3>4. reply'.n = Len(Node(s, id).data) /\ reply'.out = Node(s, id).data
      BY <2>6, <3>1, <3>3
    <3>. QED BY <2>2, <2>9, <3>1, <3>3, <3>4, ShowsWhatIs DEF s, q, p, id, c
  <2>. QED BY <1>1, <2>7, <2>8, <2>9
<1>. QED BY <1>6, <1>7
============================================================================
