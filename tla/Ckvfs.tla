------------------------------- MODULE Ckvfs -------------------------------
(***************************************************************************)
(* The FUSE handlers of ckvfs (main.c) over the key-value device.          *)
(*                                                                         *)
(* One action is one handler from its call to its return: the README runs  *)
(* the program with -s, one request at a time.  Device calls fail only     *)
(* while the file system is brought up.                                    *)
(* The guards on the requests are the kernel's and libfuse's, which look a *)
(* path up (hello_getattr) before they send an operation on it.            *)
(***************************************************************************)
EXTENDS Blob

CONSTANTS HEAD,         \* the component of the path "/HEAD"
          Payloads,     \* what a write request may carry
          NUL,          \* the byte strlen stops at
          Junk,         \* bound: the one byte uninitialised memory holds
          MaxDepth,     \* bound: components of a request's path
          MaxOverread   \* bound: bytes strlen(buf) counts behind a payload

ASSUME CkvfsAssumption ==
  /\ HEAD \in Names
  /\ Payloads \subseteq Seq(Bytes)
  /\ Junk \in Bytes
  /\ MaxDepth \in Nat \ {0}
  /\ MaxOverread \in Nat

VARIABLES store,        \* the device's container
          mounted,      \* a process serves requests
          reply         \* the last request and its answer

vars == <<store, mounted, reply>>

Paths == UNION {[1..n -> Names] : n \in 0..MaxDepth}
Root  == << >>

\* One-character components: a slash and a character for each.
strlen(p) == 2 * Len(p)

----------------------------------------------------------------------------
(* Replies.                                                                *)

\* late is no part of an answer: see overtaken in CkvfsCalls.
NoReply == [op |-> "none", path |-> Root, off |-> 0, err |-> "OK",
            kind |-> "none", n |-> 0, out |-> << >>, late |-> FALSE]

Request(op, p) == [NoReply EXCEPT !.op = op, !.path = p]

Return(r) == reply' = r /\ UNCHANGED mounted

Fail(op, p, err) == Return([Request(op, p) EXCEPT !.err = err])

\* The process dies in the handler.  What it stored before stays stored.
Die(op, p) == /\ reply' = [Request(op, p) EXCEPT !.err = "SIGSEGV"]
              /\ mounted' = FALSE
              /\ UNCHANGED store

----------------------------------------------------------------------------
(* hello_getattr, as an operator: the other requests' guards use it.       *)

attr(s, p) ==
  LET found(b) == [err  |-> "OK", n |-> Len(b.data),
                   kind |-> IF b.is_dir = ISDIR THEN "dir" ELSE "file"]
      absent   == [err |-> "ENOENT", n |-> 0, kind |-> "none"]
      f        == get_fn_dir(p)
      cur      == go_through_inodes(s, f.dir)
      dir      == get_blob_from_key(s, cur)
  IN  IF p \in {Root, <<HEAD>>} THEN found(get_root_inode(s))
      ELSE IF cur = NULL THEN absent
      ELSE IF has_path(dir, f.fn) /\ dir.is_dir = ISDIR
           THEN found(get_blob_from_key(s, get_inode_from_path(dir, f.fn)))
           ELSE absent

IsDir(p)  == attr(store, p).kind = "dir"
IsFile(p) == attr(store, p).kind = "file"

\* The names get_list passes to the filler.
get_list(b) == [i \in 1..Len(b.sub_items) |-> b.sub_items[i].item_path]

----------------------------------------------------------------------------
(* The life of the process.                                                *)

write_root(s) == write_to_dict(s, root_id, EmptyDir(root_id))

\* The containers found on the device are deleted and a new one is created.
set_up_ssd == [k \in {} |-> NULL]

Init == /\ store = set_up_ssd
        /\ mounted = FALSE
        /\ reply = NoReply

\* The process exits when a device call of _env_init fails: before or after the
\* old container is gone.
hello_init ==
  /\ ~ mounted
  /\ \/ /\ store' = write_root(set_up_ssd)
        /\ mounted' = TRUE
        /\ reply' = NoReply
     \/ /\ store' \in {store, set_up_ssd}
        /\ UNCHANGED <<mounted, reply>>

\* An unmount or a kill: no handler runs, the container stays as it is.
Exit == /\ mounted
        /\ mounted' = FALSE
        /\ reply' = NoReply
        /\ UNCHANGED store

----------------------------------------------------------------------------
(* Requests that read.                                                     *)

hello_getattr(p) ==
  LET a == attr(store, p)
  IN  /\ mounted
      /\ Return([Request("getattr", p) EXCEPT !.err = a.err, !.kind = a.kind, !.n = a.n])
      /\ UNCHANGED store

Listing(p, b) == [Request("readdir", p) EXCEPT !.out = get_list(b)]

\* "/HEAD" passes for a directory but is no entry: its inode id is "", the
\* read of key "" fails, and the blob is converted from uninitialised memory,
\* which holds nothing, an earlier record, or what kills the process.
ReadUninitialised(p) ==
  \/ \E k \in DOMAIN store \cup {NULL} :
       /\ Return(Listing(p, IF k = NULL THEN EmptyDir(root_id)
                                        ELSE get_blob_from_key(store, k)))
       /\ UNCHANGED store
  \/ Die("readdir", p)

hello_readdir(p) ==
  LET f   == get_fn_dir(p)
      cur == go_through_inodes(store, f.dir)
      dir == get_blob_from_key(store, cur)
      id  == get_inode_from_path(dir, f.fn)
  IN  /\ mounted /\ IsDir(p)
      /\ IF p = Root THEN /\ Return(Listing(p, get_root_inode(store)))
                          /\ UNCHANGED store
         ELSE IF cur = NULL THEN Fail("readdir", p, "ENOENT") /\ UNCHANGED store
         ELSE IF dir.is_dir = NOTDIR THEN Fail("readdir", p, "ENOTDIR") /\ UNCHANGED store
         ELSE IF id = NULL THEN ReadUninitialised(p)
         ELSE Return(Listing(p, get_blob_from_key(store, id))) /\ UNCHANGED store

hello_open(p) == mounted /\ Return(Request("open", p)) /\ UNCHANGED store

\* The whole file, whatever offset and size are asked for.
hello_read(p) ==
  LET f   == get_fn_dir(p)
      cur == go_through_inodes(store, f.dir)
      id  == get_inode_from_path(get_blob_from_key(store, cur), f.fn)
      b   == get_blob_from_key(store, id)
  IN  /\ mounted /\ IsFile(p)
      /\ IF cur = NULL THEN Fail("read", p, "OK")
         ELSE IF id = NULL THEN Fail("read", p, "ENOENT")
         ELSE Return([Request("read", p) EXCEPT !.n = Len(b.data), !.out = b.data])
      /\ UNCHANGED store

----------------------------------------------------------------------------
(* Requests that change the tree.                                          *)

\* The bytes of a buffer before its first NUL.
Text(buf) == LET i == SelectInSeq(buf, LAMBDA c : c = NUL)
             IN  IF i = 0 THEN Len(buf) ELSE i - 1

\* What strlen(buf) may return: the buffer has no terminator of its own, so
\* without a NUL in it strlen counts on to the next one in memory.
Scanned(buf) == IF NUL \in Range(buf) THEN {Text(buf)}
                                      ELSE Text(buf) .. Text(buf) + MaxOverread

\* memcpy takes size bytes whatever strlen said.  The device holds MAX_BLOCK of
\* them; those behind come back as what is in memory there, unless copying them
\* kills the process (Exit).
Kept(buf) == [i \in 1..Len(buf) |-> IF i <= MAX_BLOCK THEN buf[i] ELSE Junk]

\* MUTANT: the check without the path.
TooLongAlone(p, scanned) == scanned > MAX_BLOCK

\* strlen(buf) and strlen(path) against the block.
TooLong(p, scanned) == scanned + strlen(p) > MAX_BLOCK

\* The offset of the request, here the start or the end of the file, is not
\* looked at.
hello_write(p, buf) ==
  LET f   == get_fn_dir(p)
      cur == go_through_inodes(store, f.dir)
      id  == get_inode_from_path(get_blob_from_key(store, cur), f.fn)
      b   == get_blob_from_key(store, id)
      req(off) == [Request("write", p) EXCEPT !.off = off]
  IN  /\ mounted /\ IsFile(p)
      /\ \E off \in {0, attr(store, p).n}, scanned \in Scanned(buf) :
           IF TooLong(p, scanned) THEN Return(req(off)) /\ UNCHANGED store
           ELSE IF cur = NULL
           THEN Return([req(off) EXCEPT !.err = "ENOENT"]) /\ UNCHANGED store
           ELSE /\ Return([req(off) EXCEPT !.n = Len(buf)])
                /\ store' = write_to_dict(store, b.inodeid, [b EXCEPT !.data = Kept(buf)])

\* A new entry in directory dir and the blob it leads to.  The entry behind
\* the last one of a full directory is written over the blob's own num_items,
\* which then indexes far outside the blob.
AddEntry(op, p, dir, is_dir) ==
  LET fn == get_fn_dir(p).fn
  IN  IF Len(dir.sub_items) >= MAX_ITEMS
      THEN Die(op, p)
      ELSE \E id \in get_random_num(store) :
             /\ store' = write_to_dict(insert_item_into_blob(store, dir, fn, is_dir, id),
                                       id, IF is_dir THEN EmptyDir(id) ELSE EmptyFile(id))
             /\ Return(Request(op, p))

\* A name may be asked for that is there: the kernel's last look at it may be
\* out of date.  is_dir is never 0, so the code's test of it always passes.
hello_create(p) ==
  LET f   == get_fn_dir(p)
      cur == go_through_inodes(store, f.dir)
      dir == get_blob_from_key(store, cur)
  IN  /\ mounted /\ p \notin {Root, <<HEAD>>} /\ ~ IsFile(f.dir)
      /\ IF cur = NULL \/ has_path(dir, f.fn)
         THEN Return(Request("create", p)) /\ UNCHANGED store
         ELSE AddEntry("create", p, dir, FALSE)

hello_mkdir(p) ==
  LET f   == get_fn_dir(p)
      cur == go_through_inodes(store, f.dir)
      dir == get_blob_from_key(store, cur)
  IN  /\ mounted /\ p \notin {Root, <<HEAD>>} /\ ~ IsFile(f.dir)
      /\ IF cur = NULL
         THEN Fail("mkdir", p, "ENOTDIR") /\ UNCHANGED store
         ELSE IF has_path(dir, f.fn) \/ dir.is_dir # ISDIR
         THEN Return(Request("mkdir", p)) /\ UNCHANGED store
         ELSE AddEntry("mkdir", p, dir, TRUE)

\* MUTANT: the directory is stored under the key of the blob that went.
RemoveUnderId(op, p) ==
  LET f   == get_fn_dir(p)
      dir == get_blob_from_key(store, go_through_inodes(store, f.dir))
      id  == get_inode_from_path(dir, f.fn)
  IN  /\ Return(Request(op, p))
      /\ IF go_through_inodes(store, f.dir) = NULL THEN UNCHANGED store
         ELSE IF id = NULL THEN UNCHANGED store
         ELSE store' = write_to_dict(perform_delete(store, id), id,
                                     remove_inode_from_path(dir, f.fn))

\* The blob is deleted first, then its entry.  What was below it stays.
RemoveEntry(op, p) ==
  LET f   == get_fn_dir(p)
      cur == go_through_inodes(store, f.dir)
      dir == get_blob_from_key(store, cur)
      id  == get_inode_from_path(dir, f.fn)
  IN  /\ Return(Request(op, p))
      /\ IF cur = NULL THEN UNCHANGED store
         ELSE IF id = NULL THEN UNCHANGED store
         ELSE store' = write_to_dict(perform_delete(store, id), dir.inodeid,
                                     remove_inode_from_path(dir, f.fn))

hello_unlink(p) == mounted /\ p # Root /\ ~ IsDir(p) /\ RemoveEntry("unlink", p)

hello_rmdir(p) == mounted /\ p # Root /\ ~ IsFile(p) /\ RemoveEntry("rmdir", p)

----------------------------------------------------------------------------
Next ==
  \/ hello_init
  \/ Exit
  \/ \E p \in Paths :
       \/ hello_getattr(p) \/ hello_readdir(p) \/ hello_open(p) \/ hello_read(p)
       \/ hello_create(p)  \/ hello_mkdir(p)
       \/ hello_unlink(p)  \/ hello_rmdir(p)
       \/ \E buf \in Payloads : hello_write(p, buf)

Spec == Init /\ [][Next]_vars

----------------------------------------------------------------------------
(* The type invariant.                                                     *)

Blobs == [k \in DOMAIN store |-> get_blob_from_key(store, k)]

\* The record stored under k is a whole blob that carries k.
WellStored(k, w) ==
  /\ w.inodeid = k
  /\ \/ /\ w.is_dir = ISDIR
        /\ w.data \in Seq(Item)
        /\ w.num_items = Len(w.data) /\ w.size = 0
        /\ Len(w.data) <= MAX_ITEMS
     \/ /\ w.is_dir = NOTDIR
        /\ w.data \in Seq(Bytes)
        /\ w.num_items = 0 /\ w.size = Len(w.data)

\* Every record on the device is a file, or a directory whose entries fit its
\* block, and carries the key it is stored under, since insert_item_into_blob,
\* hello_write and hello_unlink store a blob back under the key it carries; and
\* every answer is one a handler can give (main.c, blob.c, dict.c).
TypeOK ==
  /\ DOMAIN store \subseteq Keys
  /\ \A k \in DOMAIN store : WellStored(k, store[k])
  /\ mounted \in BOOLEAN
  /\ reply.path \in Paths
  /\ reply.err \in {"OK", "ENOENT", "ENOTDIR", "SIGSEGV"}
  /\ reply.n \in Nat

----------------------------------------------------------------------------
(* What the stored blobs are at every moment between two requests.         *)

\* No two entries of a directory have one name, however creations and
\* removals alternate: has_path guards every insertion (blob.c).
UniqueNames ==
  \A k \in DOMAIN store : LET items == Blobs[k].sub_items IN
    \A i, j \in 1..Len(items) : items[i].item_path = items[j].item_path => i = j

\* What is referred to is there: the root directory while mounted, and behind
\* every entry a blob of the kind the entry says.  Creating stores an entry and
\* a blob, removing drops both, in separate device calls (main.c).
NoDangling ==
  /\ mounted => root_id \in DOMAIN store /\ Blobs[root_id].is_dir = ISDIR
  /\ \A k \in DOMAIN store : LET items == Blobs[k].sub_items IN
       \A i \in 1..Len(items) :
          /\ items[i].inodeid \in DOMAIN store
          /\ items[i].is_dir <=> Blobs[items[i].inodeid].is_dir = ISDIR

\* No blob has two entries anywhere on the device, entries of unreachable
\* directories included: a key is drawn fresh for each entry (blob.c).
SingleParent ==
  \A k1, k2 \in DOMAIN store :
    \A i \in 1..Len(Blobs[k1].sub_items), j \in 1..Len(Blobs[k2].sub_items) :
       Blobs[k1].sub_items[i].inodeid = Blobs[k2].sub_items[j].inodeid
         => k1 = k2 /\ i = j

----------------------------------------------------------------------------
(* What a step may never do.                                               *)

Orphans == DOMAIN store \ {go_through_inodes(store, p) : p \in Paths}

\* A blob that no path leads to stays so, with its content, until the next
\* mount: no request reaches it, and no draw brings it back into the tree.
OrphansFrozen ==
  [][mounted /\ mounted' /\ store' # store =>
       \A k \in Orphans : k \in Orphans' /\ store'[k] = store[k]]_vars

\* Blobs are only ever lost by hello_rmdir, and only those strictly below the
\* directory it removes: it does not look whether the directory is empty.
LeakOnlyByRmdir ==
  [][mounted /\ mounted' /\ store' # store =>
       \A k \in Orphans' \ Orphans :
          /\ reply'.op = "rmdir"
          /\ \E q \in Paths : /\ IsStrictPrefix(reply'.path, q)
                              /\ go_through_inodes(store, q) = k]_vars

----------------------------------------------------------------------------
(* What the program that uses the file system sees.                        *)

FitsBlock(p, n) == n + strlen(p) <= MAX_BLOCK

\* The tree of the paths that lead somewhere on the device s.
PathTree(s) ==
  LET key     == [p \in Paths |-> go_through_inodes(s, p)]
      blob    == [k \in DOMAIN s |-> get_blob_from_key(s, k)]
      node(k) == [kind |-> IF blob[k].is_dir = ISDIR THEN "dir" ELSE "file",
                  data |-> blob[k].data]
  IN  [p \in {p \in Paths : key[p] # NULL} |-> node(key[p])]

TreeOfStore == IF mounted THEN PathTree(store) ELSE [p \in {} |-> Root]

FT == INSTANCE FileTree WITH tree <- TreeOfStore, Fits <- FitsBlock,
                             Length <- Text, Slack <- MaxOverread

\* Every handler does to the tree of paths, and answers, what FileTree says:
\* the blobs behind the paths never show.
ImplementsFileTree == FT!Spec

----------------------------------------------------------------------------
(* What the repository's documents say and the code does not do.           *)

Content(p) == Blobs[go_through_inodes(store, p)].data

\* "Data - is the real data that was loaded into the file" (notes.md): bytes
\* written behind a file's end leave what it holds in place.
AppendKeepsData ==
  [][\A p \in Paths :
       reply'.op = "write" /\ reply'.path = p /\ reply'.off > 0 /\ reply'.n > 0
         => IsPrefix(Content(p), Content(p)')]_vars

\* "ENOENT No such directory." (main.c, the comment in hello_readdir): a path
\* that leads nowhere is not listed.
ReaddirFindsMissing ==
  [][reply'.op = "readdir" /\ go_through_inodes(store, reply'.path) = NULL =>
       reply'.err = "ENOENT"]_vars

\* "Open - check if the path exists in the system - returns -ENOENT if path
\* does not exist" (notes.md).
OpenFindsMissing ==
  [][reply'.op = "open" /\ go_through_inodes(store, reply'.path) = NULL =>
       reply'.err = "ENOENT"]_vars

\* "todo - find a way to split the data and put it back together" (main.c, the
\* early return of hello_write): no write of more than a block is answered as
\* done.
WritesFitBlock == reply.op = "write" => reply.n <= MAX_BLOCK

\* A directory whose items do not fit its block is stopped with a message
\* (convert_to_write_blob in dict.c), not by a memory fault.
FullDirectoryIsStopped ==
  reply.op \in {"create", "mkdir"} => reply.err # "SIGSEGV"
============================================================================
