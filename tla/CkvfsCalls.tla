----------------------------- MODULE CkvfsCalls ----------------------------
(***************************************************************************)
(* The handlers of ckvfs call by call: a handler is cut at every call of   *)
(* the device and at strtok's reads and writes of its place in the path,   *)
(* which is one static variable of the process.  Between two calls the     *)
(* process may be killed, another thread may run (a process started        *)
(* without -s), and a call may fail: no handler looks at its result.       *)
(*                                                                         *)
(* hello_init is one step here; hello_open makes no call and is left out.  *)
(***************************************************************************)
EXTENDS Ckvfs, FiniteSets

CONSTANTS Threads,      \* the threads that serve requests: one with -s
          Requests,     \* bound: the requests that are sent
          MaxFaults     \* bound: device calls that fail

Ops == {"getattr", "readdir", "read", "write", "create", "mkdir", "unlink", "rmdir"}

ASSUME CallsAssumption ==
  /\ Requests \subseteq [op : Ops, path : Paths, buf : Payloads \cup {<< >>}]
  /\ \A r \in Requests : /\ r.path = Root => r.op \in {"getattr", "readdir"}
                         /\ r.op = "write" => r.buf \in Payloads
  /\ MaxFaults \in Nat

VARIABLES th,           \* the threads
          saved,        \* the path strtok(NULL) goes on in
          faults,       \* device calls that failed
          mixed,        \* a thread was given a component of another one's path
          overtaken     \* threads whose getattr's name is made or removed meanwhile

callVars == <<store, mounted, reply, th, saved, faults, mixed, overtaken>>

----------------------------------------------------------------------------
(* A thread: the call it makes next, its request, what is left of its own  *)
(* path and what strtok found left, cur_blob or the blob it is about to    *)
(* store, the key it is about to read, the WriteBlob its stack holds,      *)
(* which is the last one it read, and the calls that had failed when it    *)
(* began.                                                                  *)

\* A WriteBlob of a stack that has not been used yet.
ZeroBlob == [inodeid |-> NULL, is_dir |-> 0, sub_items |-> << >>, data |-> << >>]

\* The null pointer: no such directory.
NoBlob == [ZeroBlob EXCEPT !.is_dir = NULL]

NoRequest  == [op |-> "none", path |-> Root, buf |-> << >>]
IdleThread == [pc |-> "idle", req |-> NoRequest, left |-> Root, rest |-> Root,
               blob |-> NoBlob, key |-> NULL, wb |-> ZeroBlob, since |-> 0]

Busy(t)  == th[t].pc # "idle"
AllIdle  == \A t \in Threads : ~ Busy(t)
At(t, pc) == mounted /\ th[t].pc = pc
Op(t)    == th[t].req.op
Path(t)  == th[t].req.path

\* The keys that are anywhere: on the device, in an entry, in a thread.
KeysOf(b) == {b.inodeid} \cup {item.inodeid : item \in Range(b.sub_items)}
KeysIn(t) == KeysOf(th[t].blob) \cup KeysOf(th[t].wb) \cup {th[t].key}
InUse == DOMAIN store \cup (UNION {KeysOf(Blobs[k]) : k \in DOMAIN store})
                      \cup (UNION {KeysIn(t) : t \in Threads})

\* MUTANT: a draw that looks at the device only.
StoredDraw == get_random_num(store)

\* The draws of get_random_num: no key that is anywhere.
Fresh == get_random_num(store) \ InUse

----------------------------------------------------------------------------
(* Device calls.                                                           *)

Fails(n) == faults + n <= MaxFaults /\ faults' = faults + n

\* What get_blob_from_key may return.  When the read fails, for a fault or
\* because the key is not there, the blob is converted from the WriteBlob on the
\* stack: the last one this thread read, or nothing (or it kills the process: Kill).
\* Bound: what the frames of other calls leave of that blob when they write over
\* a part of it is not modelled.
ReadResults(t, k) ==
  LET garbage == {th[t].wb, ZeroBlob}
  IN  IF k \in DOMAIN store
      THEN {[blob |-> get_blob_from_key(store, k), failed |-> 0]}
             \cup {[blob |-> b, failed |-> 1] : b \in garbage}
      ELSE {[blob |-> b, failed |-> 0] : b \in garbage}

\* A call that changes the device to s, or fails.  The blob of key "" is stored
\* under a key of which all bytes but the first are uninitialised: none finds it.
Changes(s) == (store' = s /\ Fails(0)) \/ (UNCHANGED store /\ Fails(1))

Stored1(b) == IF b.inodeid = NULL THEN store ELSE write_to_dict(store, b.inodeid, b)

----------------------------------------------------------------------------
(* How a request ends.                                                     *)

\* What is on the stack matters to the next request's first read, if that fails.
End(t, wb) == /\ th' = [th EXCEPT ![t] =
                   [IdleThread EXCEPT !.wb = IF faults' < MaxFaults THEN wb ELSE ZeroBlob]]
              /\ overtaken' = overtaken \ {t}

Answer(t, r) == UNCHANGED <<store, faults>> /\ reply' = r /\ End(t, th[t].wb)

\* The process is gone, and with it what its threads were about to do.
Gone == /\ mounted' = FALSE
        /\ th' = [t \in Threads |-> IdleThread]
        /\ saved' = Root
        /\ overtaken' = {}
        /\ UNCHANGED <<store, faults, mixed>>

----------------------------------------------------------------------------
(* The kernel and libfuse.                                                 *)

Making   == {"create", "mkdir"}
Removing == {"unlink", "rmdir"}
EntryOps == Making \cup Removing

\* MUTANT: the kernel's locks without libfuse's.
NoPathLocks(q, r) ==
  \/ /\ q.op \in EntryOps
     /\ \/ r.op \in EntryOps /\ Front(r.path) = Front(q.path)
        \/ r.op = "readdir" /\ r.path = Front(q.path)
  \/ q.op = "write" /\ r.op = "write" /\ q.path = r.path

\* The lock of a directory keeps changes of its entries apart from each other
\* and from listings, that of a file keeps writes apart.  A name that is being
\* made leads nowhere yet, and libfuse's lock of a path keeps a removal from all
\* that is done at or below it: but for the look at the very name, which the
\* kernel renews without a lock, and for which libfuse locks the directory's
\* path only.
Excludes(q, r) ==
  \/ /\ q.op \in EntryOps
     /\ \/ r.op \in EntryOps /\ Front(r.path) = Front(q.path)
        \/ r.op = "readdir" /\ r.path = Front(q.path)
        \/ IsPrefix(q.path, r.path) /\ ~ (r.op = "getattr" /\ r.path = q.path)
  \/ q.op = "write" /\ r.op = "write" /\ q.path = r.path

\* The device as it is when the second calls of the threads that change entries
\* are made.
Settled ==
  LET pending == {t \in Threads : th[t].pc = "second" /\ Op(t) \in EntryOps}
      last(k) == {t \in pending : th[t].blob.inodeid = k}
      keys    == {th[t].blob.inodeid : t \in pending} \cap Keys
  IN  [k \in DOMAIN store \cup keys |->
         IF last(k) = {} THEN store[k]
         ELSE convert_to_write_blob(th[CHOOSE t \in last(k) : TRUE].blob)]

\* Nothing has gone wrong: no call has failed, no thread has walked astray.
Clear == faults = 0 /\ ~ mixed

\* What the kernel sends after looking the path up.  Once something has gone
\* wrong it may take the tree for anything.
Looked(r) ==
  LET kind(p) == attr(Settled, p).kind
  IN  CASE r.op = "readdir"           -> kind(r.path) = "dir"
        [] r.op \in {"read", "write"} -> kind(r.path) = "file"
        [] r.op = "getattr"           -> TRUE
        [] OTHER -> /\ r.path \notin {Root, <<HEAD>>}
                    /\ kind(Front(r.path)) = "dir"
                    /\ r.op = "unlink" => kind(r.path) # "dir"
                    /\ r.op = "rmdir"  => kind(r.path) # "file"

\* Bound: a key is left for every thread that may draw one.
Sent(t, r) ==
  /\ At(t, "idle")
  /\ r.op \in Making => Cardinality(Fresh) > Cardinality({u \in Threads : Op(u) \in Making})
  /\ \A u \in Threads : Busy(u) => ~ Excludes(th[u].req, r) /\ ~ Excludes(r, th[u].req)
  /\ Clear => Looked(r)

----------------------------------------------------------------------------
(* The steps of a handler.                                                 *)

OnRoot(r) == r.path = Root \/ (r.op = "getattr" /\ r.path = <<HEAD>>)

\* hello_getattr and hello_readdir of the root: one read.  hello_write of more
\* than fits: none.
AnswerAtOnce(t, r) ==
  /\ Sent(t, r)
  /\ \/ /\ OnRoot(r)
        /\ \E res \in ReadResults(t, root_id) :
             /\ Fails(res.failed)
             /\ reply' = IF r.op = "readdir" THEN Listing(r.path, res.blob)
                         ELSE [Request("getattr", r.path) EXCEPT !.kind = "dir",
                                                                 !.n = Len(res.blob.data)]
             /\ End(t, res.blob)
     \/ /\ r.op = "write"
        /\ \E scanned \in Scanned(r.buf) : TooLong(r.path, scanned)
        /\ reply' = Request("write", r.path)
        /\ UNCHANGED <<th, faults, overtaken>>
  /\ UNCHANGED <<store, mounted, saved, mixed>>

\* The entry of p is made or removed: its first call is made, its second is not.
BeingChanged(p) ==
  \E u \in Threads : th[u].pc = "second" /\ Op(u) \in EntryOps /\ Path(u) = p

\* go_through_inodes reads the root,
Begin(t, r) ==
  /\ Sent(t, r)
  /\ ~ OnRoot(r)
  /\ r.op = "write" => \E scanned \in Scanned(r.buf) : ~ TooLong(r.path, scanned)
  /\ \E res \in ReadResults(t, root_id) :
       /\ Fails(res.failed)
       /\ th' = [th EXCEPT ![t] = [@ EXCEPT !.pc = "split", !.req = r,
                                            !.left = get_fn_dir(r.path).dir,
                                            !.blob = res.blob, !.wb = res.blob,
                                            !.since = faults]]
  /\ overtaken' = IF r.op = "getattr" /\ BeingChanged(r.path) THEN overtaken \cup {t}
                                                             ELSE overtaken
  /\ UNCHANGED <<store, mounted, reply, saved, mixed>>

\* A path without its first component.
Behind(s) == IF s = Root THEN Root ELSE Tail(s)

\* MUTANT: the handler of a name that is not found looks on where it is.
FollowAnyway(t, s) ==
  LET cur == th[t].blob
  IN  /\ saved' = Behind(s)
      /\ th' = [th EXCEPT ![t] =
           IF s # Root /\ has_path(cur, Head(s))
           THEN [@ EXCEPT !.pc = "enter", !.key = get_inode_from_path(cur, Head(s)),
                          !.left = Behind(th[t].left), !.rest = Root]
           ELSE [@ EXCEPT !.pc = "arrived", !.left = Root, !.rest = Root]]
      /\ UNCHANGED <<store, mounted, reply, faults, overtaken>>

\* takes the next component off s, the place in the path, and looks it up:
Follow(t, s) ==
  LET cur == th[t].blob
  IN  /\ saved' = Behind(s)
      /\ th' = [th EXCEPT ![t] =
           IF s = Root THEN [@ EXCEPT !.pc = "arrived", !.left = Root, !.rest = Root]
           ELSE IF has_path(cur, Head(s))
           THEN [@ EXCEPT !.pc = "enter", !.key = get_inode_from_path(cur, Head(s)),
                          !.left = Behind(th[t].left), !.rest = Root]
           ELSE [@ EXCEPT !.pc = "arrived", !.blob = NoBlob, !.left = Root, !.rest = Root]]
      /\ UNCHANGED <<store, mounted, reply, faults, overtaken>>

\* strtok(rest_ptr, sep) begins with the thread's own path,
Split(t) == At(t, "split") /\ Follow(t, th[t].left) /\ UNCHANGED mixed

\* strtok(NULL, sep) with what any thread saved last,
Load(t) ==
  /\ At(t, "token")
  /\ th' = [th EXCEPT ![t] = [@ EXCEPT !.pc = "take", !.rest = saved]]
  /\ UNCHANGED <<store, mounted, reply, saved, faults, mixed, overtaken>>

\* which ends where another thread has put the NUL behind its component;
Take(t) ==
  /\ At(t, "take")
  /\ \E s \in {th[t].rest} \cup {<<Head(r)>> : r \in {th[t].rest} \ {Root}} :
       /\ s # th[t].rest => \E u \in Threads \ {t} : Busy(u)
       /\ Follow(t, s)
       /\ mixed' = (mixed \/ s # th[t].left)

\* and reads the blob of the entry it found.
Enter1(t) ==
  /\ At(t, "enter")
  /\ \E res \in ReadResults(t, th[t].key) :
       /\ Fails(res.failed)
       /\ th' = [th EXCEPT ![t] = [@ EXCEPT !.pc = "token", !.key = NULL,
                                            !.blob = res.blob, !.wb = res.blob]]
  /\ UNCHANGED <<store, mounted, reply, saved, mixed, overtaken>>

----------------------------------------------------------------------------
(* What a handler does with the directory it has arrived at.               *)

Arrived(t, ops) == At(t, "arrived") /\ Op(t) \in ops

Name(t)      == get_fn_dir(Path(t)).fn
Reply(t)     == Request(Op(t), Path(t))
DirIsMissing(t) == th[t].blob = NoBlob
EntryKey(t)  == get_inode_from_path(th[t].blob, Name(t))

\* The first of the two calls that change the device; the second stores b.
FirstOfTwo(t, s, b) ==
  /\ Changes(s)
  /\ th' = [th EXCEPT ![t] = [@ EXCEPT !.pc = "second", !.blob = b]]
  /\ overtaken' = overtaken \cup
       {u \in Threads : Busy(u) /\ Op(u) = "getattr" /\ Path(u) = Path(t)}
  /\ reply' = Reply(t)
  /\ UNCHANGED <<mounted, saved, mixed>>

\* Nothing to do: the answer, with the given error.
GiveUp(t, err) == /\ Answer(t, [Reply(t) EXCEPT !.err = err, !.late = (t \in overtaken)])
                  /\ UNCHANGED <<mounted, saved, mixed>>

\* The directory's own kind is tested for 0 by hello_create, which only a blob
\* of zeroes has, and for ISDIR by hello_mkdir.
WrongKind(t) == IF Op(t) = "create" THEN th[t].blob.is_dir = 0
                                    ELSE th[t].blob.is_dir # ISDIR

\* MUTANT: the test for the name is left to the kernel.
AddBlindly(t) ==
  LET dir == th[t].blob
      isd == Op(t) = "mkdir"
  IN  /\ Arrived(t, Making)
      /\ ~ DirIsMissing(t) /\ ~ WrongKind(t) /\ Len(dir.sub_items) < MAX_ITEMS
      /\ \E id \in Fresh :
           FirstOfTwo(t, write_to_dict(store, dir.inodeid,
                           [dir EXCEPT !.sub_items = Append(@, [item_path |-> Name(t),
                                                  inodeid |-> id, is_dir |-> isd])]),
                      IF isd THEN EmptyDir(id) ELSE EmptyFile(id))

\* hello_create and hello_mkdir: the directory is stored with the new entry,
\* then the blob behind it.
AddName(t) ==
  LET dir == th[t].blob
      isd == Op(t) = "mkdir"
  IN  /\ Arrived(t, Making)
      /\ IF DirIsMissing(t) THEN GiveUp(t, IF isd THEN "ENOTDIR" ELSE "OK")
         ELSE IF has_path(dir, Name(t)) \/ WrongKind(t) THEN GiveUp(t, "OK")
         ELSE IF Len(dir.sub_items) >= MAX_ITEMS
         THEN Gone /\ reply' = [Reply(t) EXCEPT !.err = "SIGSEGV"]
         ELSE \E id \in Fresh :
                FirstOfTwo(t, insert_item_into_blob(store, dir, Name(t), isd, id),
                           IF isd THEN EmptyDir(id) ELSE EmptyFile(id))

\* MUTANT: a blob that is not there is taken for a name that is not there.
RemoveStored(t) ==
  /\ Arrived(t, Removing)
  /\ IF DirIsMissing(t) \/ EntryKey(t) \notin DOMAIN store THEN GiveUp(t, "OK")
     ELSE FirstOfTwo(t, perform_delete(store, EntryKey(t)),
                     remove_inode_from_path(th[t].blob, Name(t)))

\* hello_unlink and hello_rmdir: the blob is deleted, then the directory is
\* stored without the entry.
RemoveName(t) ==
  /\ Arrived(t, Removing)
  /\ IF DirIsMissing(t) THEN GiveUp(t, "OK")
     ELSE IF EntryKey(t) = NULL THEN GiveUp(t, "OK")
     ELSE FirstOfTwo(t, perform_delete(store, EntryKey(t)),
                     remove_inode_from_path(th[t].blob, Name(t)))

\* hello_write up to its write_to_dict.  The data pointer of a blob that turns
\* out to be a directory is uninitialised: the copy kills (Kill) or goes on.
Write(t) ==
  /\ Arrived(t, {"write"})
  /\ IF DirIsMissing(t) THEN GiveUp(t, "ENOENT")
     ELSE \E res \in ReadResults(t, EntryKey(t)) :
            /\ Fails(res.failed)
            /\ th' = [th EXCEPT ![t] = [@ EXCEPT !.pc = "second", !.wb = res.blob,
                                  !.blob = [res.blob EXCEPT !.data = Kept(th[t].req.buf)]]]
            /\ UNCHANGED <<store, mounted, reply, saved, mixed, overtaken>>

\* The early returns of the handlers that only look.
EarlyReturn(t) ==
  LET dir == th[t].blob
  IN  CASE Op(t) = "getattr" ->
             IF DirIsMissing(t) THEN "ENOENT"
             ELSE IF ~ has_path(dir, Name(t)) \/ dir.is_dir # ISDIR THEN "ENOENT" ELSE "none"
        [] Op(t) = "readdir" ->
             IF DirIsMissing(t) THEN "ENOENT"
             ELSE IF dir.is_dir = NOTDIR THEN "ENOTDIR" ELSE "none"
        [] OTHER ->
             IF DirIsMissing(t) THEN "OK" ELSE IF EntryKey(t) = NULL THEN "ENOENT" ELSE "none"

Shown(t, b) ==
  CASE Op(t) = "getattr" -> [Reply(t) EXCEPT !.kind = IF b.is_dir = ISDIR THEN "dir" ELSE "file",
                                             !.n = Len(b.data)]
    [] Op(t) = "readdir" -> Listing(Path(t), b)
    [] OTHER             -> [Reply(t) EXCEPT !.n = Len(b.data), !.out = b.data]

\* hello_getattr, hello_readdir and hello_read: the entry's blob is read and
\* shown.
Look(t) ==
  /\ Arrived(t, {"getattr", "readdir", "read"})
  /\ IF EarlyReturn(t) # "none" THEN GiveUp(t, EarlyReturn(t))
     ELSE \E res \in ReadResults(t, EntryKey(t)) :
            /\ Fails(res.failed)
            /\ reply' = [Shown(t, res.blob) EXCEPT !.late = (t \in overtaken)]
            /\ End(t, res.blob)
            /\ UNCHANGED <<store, mounted, saved, mixed>>

\* The last call of a handler that changes the device.
Second(t) ==
  /\ At(t, "second")
  /\ Changes(Stored1(th[t].blob))
  /\ reply' = IF Op(t) = "write" THEN [Reply(t) EXCEPT !.n = Len(th[t].req.buf)] ELSE reply
  /\ End(t, th[t].wb)
  /\ UNCHANGED <<mounted, saved, mixed>>

Step(t) == \/ Split(t) \/ Load(t) \/ Take(t) \/ Enter1(t)
           \/ AddName(t) \/ RemoveName(t) \/ Write(t) \/ Look(t) \/ Second(t)

----------------------------------------------------------------------------
(* The process and its threads.                                            *)

CallsInit == Init /\ th = [t \in Threads |-> IdleThread] /\ saved = Root
                  /\ faults = 0 /\ mixed = FALSE /\ overtaken = {}

\* hello_init; its last call stores the root, or fails.
Mount == /\ ~ mounted
         /\ mounted' = TRUE
         /\ \/ store' = write_root(set_up_ssd) /\ Fails(0)
            \/ store' = set_up_ssd /\ Fails(1)
         /\ reply' = NoReply
         /\ overtaken' = {}
         /\ UNCHANGED <<th, saved, mixed>>

\* A kill, at any moment, or an unmount.
Kill == mounted /\ Gone /\ reply' = NoReply

CallsNext ==
  \/ Mount
  \/ Kill
  \/ \E t \in Threads : \/ Step(t)
                        \/ \E r \in Requests : AnswerAtOnce(t, r) \/ Begin(t, r)

CallsSpec == CallsInit /\ [][CallsNext]_callVars

----------------------------------------------------------------------------
(* Properties.                                                             *)

\* The entries that lead nowhere, by directory and place.
Dangling == {e \in (DOMAIN store) \X (1..MAX_ITEMS) :
               LET items == Blobs[e[1]].sub_items
               IN  e[2] <= Len(items) /\ items[e[2]].inodeid \notin DOMAIN store}

\* At rest, no more entries lead nowhere than calls have failed: no request whose
\* calls succeed adds one, whatever the failed ones left, though the handlers take
\* a failed read for a blob (dict.c, main.c).  What the request of a failed call
\* does to entries and blobs it was not about is not counted.
DanglingByFault ==
  mounted /\ AllIdle /\ ~ mixed => Cardinality(Dangling) <= faults

\* The key of the blob at the end of a path, which may not be there.
KeyAt(s, p) ==
  LET walk[i \in 0..Len(p)] ==
        IF i = 0 THEN root_id
        ELSE IF walk[i-1] \in DOMAIN s
             THEN get_inode_from_path(get_blob_from_key(s, walk[i-1]), p[i]) ELSE NULL
  IN  walk[Len(p)]

\* Every directory on the way to the name is there.
OnSolidGround(t) ==
  /\ \A q \in Paths : IsStrictPrefix(q, Path(t)) => KeyAt(store, q) \in DOMAIN store
  /\ Blobs[KeyAt(store, Front(Path(t)))].is_dir = ISDIR
  /\ Op(t) = "write" => KeyAt(store, Path(t)) \in DOMAIN store

\* A request during which no call fails, and whose directories are there, changes
\* its own entry, the directory that has it and the blob behind it, and nothing
\* else on the device, whatever failed reads and half-done requests have left
\* elsewhere (hello_write, hello_create and hello_unlink store under the key that
\* the blob they read carries).
StaysOnItsName ==
  [][\A t \in Threads :
       /\ store' # store /\ th'[t] # th[t] /\ Busy(t) /\ ~ mixed
       /\ faults' = th[t].since /\ OnSolidGround(t)
       => LET k == KeyAt(store, Front(Path(t)))
              others(items) == SelectSeq(items, LAMBDA item : item.item_path # Name(t))
          IN  /\ \A j \in DOMAIN store \cup DOMAIN store' :
                   \/ j \in {k, KeyAt(store, Path(t)), KeyAt(store', Path(t))}
                   \/ j \in DOMAIN store /\ j \in DOMAIN store' /\ store'[j] = store[j]
              /\ k \in DOMAIN store'
              /\ others(Blobs'[k].sub_items) = others(Blobs[k].sub_items)]_callVars

\* A removal during which no call fails takes the name out of its directory,
\* whatever earlier requests left half done: a retry ends what was begun
\* (hello_unlink deletes a blob that may be gone, and stores the directory).
RemovalSticks ==
  [][\A t \in Threads :
       /\ Busy(t) /\ Op(t) \in Removing /\ th'[t].pc = "idle"
       /\ mounted' /\ faults' = th[t].since /\ ~ mixed
       => LET k == KeyAt(store', Front(Path(t)))
          IN  k \in DOMAIN store' => ~ has_path(Blobs'[k], Name(t))]_callVars

\* What there is to see while nothing has gone wrong.
Serving    == mounted /\ Clear
ShownTree  == IF Serving THEN PathTree(Settled) ELSE [p \in {} |-> Root]
ShownReply == IF Serving /\ ~ reply.late THEN reply ELSE NoReply

FTC == INSTANCE FileTree WITH tree <- ShownTree, mounted <- Serving, reply <- ShownReply,
                              Length <- Text, Fits <- FitsBlock, Slack <- MaxOverread

\* As long as no call fails and no thread walks astray, the handlers of all the
\* threads do what FileTree says, one after the other, and a kill at any moment
\* leaves nothing a later process shows: main.c has no locks, and the ones of the
\* kernel and of libfuse are enough for all but the answer of a getattr whose
\* name is made or removed under it (it may read a blob that is not there).
CallsImplementFileTree == FTC!Spec
============================================================================
