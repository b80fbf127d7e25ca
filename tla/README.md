# ckvfs: models, checks and proofs

ckvfs is a FUSE file system that keeps its files and directories as key-value
pairs on a Samsung KV SSD (or its emulator). This directory holds TLA+ modules
that model it, the TLC runs that check them, and the theorems that TLAPS proves
about them. Names of definitions are those of the C source wherever TLA+ allows.

## 1. Inventory

| Part | Source | State it keeps | Operations |
|---|---|---|---|
| Request handlers | `src/src/main.c` | none between requests (`options`, `shand` are set once) | `hello_init`, `hello_getattr`, `hello_readdir`, `hello_open`, `hello_read`, `hello_write`, `hello_create`, `hello_mkdir`, `hello_unlink`, `hello_rmdir` |
| Directories and paths | `src/src/blob.c`, `blob.h` | none (`strtok`'s hidden pointer during a walk) | `go_through_inodes`, `get_fn_dir`, `has_path`, `get_inode_from_path`, `insert_item_into_blob`, `remove_inode_from_path` |
| Key-value layer | `src/src/dict.c` | the container: key to `WriteBlob` | `perform_insertion`, `perform_read`, `perform_delete`, `write_to_dict`, `get_blob_from_key`, `get_root_inode`, `write_root`, the two conversions |
| Container life | `src/src/dict.c` | the containers on the device, the open handles in `shand` | `set_up_ssd`, `_env_init`, `_env_exit` |
| Random keys | `src/src/rand.c` | `rand`'s seed | `get_random_num`, `itoa`, `reverse`, `set_time_srand_seed` |
| Iterator | `src/src/dict.c` | an iterator handle | `perform_iterator`, `print_iterator_keyvals` (no handler calls them) |
| Diagnostics | `src/src/blob.c`, `dict.c` | none | `print_*`, `printTBL`, `reset_tbl` |
| Start | `src/src/main.c` | options | `main` |
| Not part of the file system | `use_emulator.c`, `older_dict.c`, `test_sync.cpp` | | trial program, an earlier fragment, the vendor's sample |
| External | `libkvapi.so`, libfuse, the kernel | | `kvs_*` calls, requests |

How they interact: the kernel looks a path up (`hello_getattr`), then libfuse
calls one handler with the path. A handler splits the path (`get_fn_dir`), walks
from the root blob to the blob of the directory (`go_through_inodes`, one device
read per component), searches the directory for the name, and for a change
stores whole blobs back. All calls are synchronous; nothing is cached between
requests, nothing is locked, and no result of a device call is looked at outside
`_env_init`. The repository's README starts the program with `-s`: one request
at a time; without it libfuse runs handlers in several threads.

What makes each part correct:

- *Directories*: one entry per name; every entry leads to a stored blob of the
  kind it says; no blob has two entries; the walk ends at a stored blob or nowhere.
- *Key-value layer*: a blob is read back as it was stored; it is stored under the
  key it carries; the entries of a directory fit its block (a file's bytes need not: run `overrun`).
- *Handlers*: each does to the tree of paths, and answers, what a file system
  of this kind should, whatever blobs are behind the paths.
- *Container life*: after a mount nothing of an earlier mount shows, whatever
  failed or was killed before; a failed start closes the device and the container it opened
  (the environment only in `_env_exit`); trying again gets there.
- *Random keys*: a key in use is never drawn again, and the root's never at all.
- *Iterator*: every matching key once, with its own value, and an end.
- *Failures*: no more entries lead nowhere than calls have failed, a request whose own calls
  succeed changes nothing but its own name, whatever failed ones have left, and a removal can be
  retried. (What the request of a failed call does is not bounded: a handler that takes a
  failed read for another blob goes on with that one.)

What is hard here: creations and removals take two device calls each; a removal
of a directory does not look at what is below it; lookups take the first match
and removals shift the entries; a full directory is written past its end; the
size check of a write depends on an unterminated buffer, on its first NUL and on the path; `/HEAD` is a
directory to one handler and nothing to the others; failed calls go unnoticed,
and a failed read is taken for the blob read before it; `strtok` keeps its place in
the path in memory that all threads share; `_env_init` leaves containers behind
that stop the next start. `PROJECT.json` lists these
hazards at their lines with the properties that cover them.

## 2. Modules

| Module | What it is |
|---|---|
| `Blob` | Operators for `blob.c`, `dict.c` and the draw of `rand.c`: blobs, their stored form, the device as a partial function from keys to stored blobs, lookup, insertion, removal, the walk along a path. |
| `Ckvfs` | The state machine: `store` (the container), `mounted`, `reply` (the last answer); one action per handler, with every call it makes. The invariants and action properties, and the refinement mapping. |
| `CkvfsCalls` | The handlers of `Ckvfs` cut at every device call and at every call of `strtok`: failing calls, kills at any moment, several threads. |
| `Container` | `set_up_ssd`, `_env_init`, `_env_exit` and `write_root` call by call, on a device with other containers; once up it takes the steps of `Ckvfs`. |
| `Iterator` | `perform_iterator` and `print_iterator_keyvals`. |
| `Rand` | The digits of a key: `get_random_num`, `itoa`, `reverse`. |
| `PathStrings` | The characters of a path: `get_fn_dir`, the `strtok` loop, `get_first_name`. |
| `FileTree` | What ckvfs promises to programs: a tree of named nodes, with no keys, blobs or entries. |
| `MCCkvfs`, `MCCalls`, `MCContainer`, `MCIterator`, `MCText` | Instances for TLC: requests, payloads, containers, keys, paths; symmetry and views. `MCText` runs `Rand` and `PathStrings` beside each other. |
| `CkvfsProofs` | Facts about the operators of `Blob`; the inductive invariant of `Ckvfs` and its consequences. |
| `TreeProofs` | What becomes of the walks along all paths in each step, and of the blobs that no path leads to; `Ckvfs` implements `FileTree`. |
| `CallsProofs` | `UniqueNames` and `SingleParent` of `CkvfsCalls`, and for one thread `RemovalSticks` and `DanglingByFault`. |
| `LocksProofs`, `CallsTreeProofs` | What the locks keep true of threads on their way; `CkvfsCalls` implements `FileTree`. |
| `ContainerProofs`, `IteratorProofs` | The theorems about these modules. |
| `TextProofs` | The theorems about `Rand` and `PathStrings`. |

How they fit together: `Ckvfs` extends `Blob` and implements `FileTree`.
`CkvfsCalls` and `Container` extend `Ckvfs`, reuse its operators and are each shown
to implement an abstraction of it: `Container` implements `Ckvfs`, where
coming up is one step; `CkvfsCalls` implements `FileTree` as long as nothing fails.
`Rand` and `PathStrings` justify two things `Blob` takes for granted: that
a draw is not the root's key, and that a path is the sequence of its names.
`Iterator` stands alone, as `perform_iterator` does in the code.

Correspondence and abstractions of `Blob` and `Ckvfs`:

- `reply` stands for what the handler returns or fills in: the error (`"OK"` for
  0 or more), a count or size `n`, the kind `getattr` reports, the bytes or
  names handed out (`out`). `"SIGSEGV"` is no answer: the process died in the handler.
- A path is the sequence of its components, so `get_fn_dir` is front and last.
  Components are shorter than the `MAX_NAME` buffers and, for `strlen`, one
  character long.
- A key is atomic; the draw returns any key not in use (96 hexadecimal digits).
- `attr` is `hello_getattr`, written as an operator because the kernel's lookup
  also guards other requests: `readdir` and `rmdir` are sent for what looks like a
  directory, `read`, `write` and `unlink` for what looks like a file, and nothing
  is created below a file. `create`, `mkdir`, `unlink` and `rmdir` may also be sent for a
  name whose state has changed since the lookup (`kernel_cache` is set), and
  `open` for any path.
- `strlen(buf)` stops at the payload's first NUL (`Text`) or, without one, counts on behind it
  to the next NUL in memory: `hello_write` chooses how many bytes (`Scanned`, `0..MaxOverread`).
  `memcpy` takes all of the payload whatever `strlen` said. Of one that is longer than the
  block, the device holds the first `MAX_BLOCK` bytes, and a read finds behind them what is in memory
  there (`Kept`, one byte value `Junk`), unless the copies kill the process, which is an `Exit`.
- The offset of a write is in the request, at the start or the end of the file, and
  nothing reads it. Offset and size of a read are left out: the whole file is answered.
- `"/HEAD"` reads an uninitialised `WriteBlob`: `ReadUninitialised` lets it be empty,
  any record there has been on the stack, or fatal.
- `hello_init` deletes the old container and stores an empty root, or `_env_init`
  fails and the process exits with the old container there or gone.
- `Exit` is an unmount or a kill between two requests. A kill in the middle of a
  handler leaves a container that nobody reads: the next mount deletes it.
- In the handlers every device call succeeds; `CkvfsCalls` drops this.

`CkvfsCalls`:

- A thread is a record: the call it makes next, its request, what is left of its path, the
  blob it holds and the `WriteBlob` on its stack. A handler is a chain of steps: `Begin`
  (the root is read), `Split` or `Load` and `Take` (`strtok`) and `Enter1` (the next blob is
  read) along the path, then `AddName`, `RemoveName`, `Write` or `Look`, then `Second`, the
  last change. Requests that make one call or none are one step (`AnswerAtOnce`), and
  `hello_open`, which makes none and changes nothing, is left out.
- A call fails at most `MaxFaults` times. A failed change leaves the device as it was. After a
  failed read, or one of a key that is not there, the blob is converted from the stack:
  what this thread read last, or nothing. Memory that kills the process is a `Kill`. This is a bound:
  the frames of the handlers and of `go_through_inodes` do not lie at one depth, and calls in between
  write over parts of them, so a record with some fields of one blob and some of another
  (or of neither) is possible too. It is left out because such a record may name any key and
  hold any entry, and no property about the device could hold after it.
- `strtok(NULL)` reads the shared place (`Load`) and goes on in it (`Take`); another
  busy thread may have ended the string behind the first component. `mixed` is set
  once a thread has been given anything but the rest of its own path.
- `Excludes` is the kernel's and libfuse's part: the lock of a directory keeps two changes
  of its entries, and a change and a listing, apart; the lock of a file keeps writes apart;
  libfuse's path lock keeps a removal, and the making of a name, from whatever is at or below it.
  One request is not kept apart: a `getattr` of the very name, which the kernel sends to
  renew what it knows without taking the directory's lock, and for which libfuse locks the path of
  the directory only. So a `getattr` may run between the two calls of a removal of its name
  (`main.c:368-370`) and read a blob that is gone, or between those of a create and read one that is not there
  yet; `overtaken` has the threads this happens to, and their answers carry `late`.
  `Looked` is the kernel's lookup. Once a call has failed, or a walk has gone astray,
  the kernel may take the tree for anything and `Looked` is not asked for.
- A draw returns no key that is anywhere, on the device, in an entry or in a thread.
- The items of a blob that turns out to be a file, and the data of one that turns
  out to be a directory, are taken to be empty.
- `hello_init` is one step whose last call, `write_root`, may fail.

`Container`: `kvs_list_containers` fills in any two of the names, `kvs_create_container` refuses
a name that is there, a kill or an exit leaves the device as it is. `store` is the
content of the container `test`. `handles` has the environment (`InitEnv`, `ExitEnv`), the device and the
container; no device opens without an environment. The calls that close something are taken to work.

`Iterator`: the container does not change during the iteration. The device hands out any full
batch of the keys that are left, or the rest; it may announce the end with the last keys or with an
empty batch. `Kind` is all that `"%s"` prints of a value, its first byte.

`Rand`: a character is its digit and `rand()` any number to `RAND_MAX`. `PathStrings`: behind the end
of a buffer nothing more is said (`pc = "overrun"`).

## 3. Runs

The runs of `Ckvfs` use `MAX_ITEMS = 2` and `MAX_BLOCK = 5` with payloads of 3, 6
and 6 bytes: directories fill up and overflow; the first payload fits a file of the root but not
one deeper (and is refused in the root when `strlen` runs on), the second never
fits, and the third, whose second byte is a NUL, is taken for one byte, passes in the first two levels and goes
past the block. `MaxOverread = 1`. Keys are symmetric: no
action distinguishes two of them.

| Run | Instance | Shows |
|---|---|---|
| `tree` | names `a`, `b`, `HEAD`, depth 2, 4 keys, 5 429 states | `TypeOK`, `UniqueNames`, `NoDangling`, `SingleParent` hold over all histories; `ImplementsFileTree`: every step is a step of `FileTree` or a stutter |
| `deep` | the same names, depth 3, 4 keys, 8 909 states | `OrphansFrozen`: a blob with no path to it is never touched or found again before the next mount; `LeakOnlyByRmdir`: blobs are lost only by `hello_rmdir`, and only those below the directory removed |
| `calls` | one thread, depth 2, 3 keys, 2 failing calls, 367 008 states | `UniqueNames` and `SingleParent` survive failures and kills; `DanglingByFault`: at rest no more entries lead nowhere than calls have failed; `StaysOnItsName`: a request whose calls succeed, on directories that are there, changes only its own entry, its directory and its blob; `RemovalSticks`: a removal in which no call fails takes the name out, whatever earlier ones left half done; `CallsImplementFileTree` |
| `threads` | two threads, depth 3, 4 keys, no failing calls, 190 744 states | `UniqueNames` and `SingleParent` survive every interleaving; `CallsImplementFileTree`: with the locks of the kernel and libfuse the handlers act one after the other as long as no walk goes astray, and answer so, but for a `getattr` whose name is made or removed under it |
| `container` | 3 other containers, 2 failures or kills, 1 name, 4 323 states | `ImplementsCkvfs`, `ExitsClean`, and `ComesUp`: however many containers there are, starting again ends with the file system up |
| `iterator` | 6 keys of which 4 match, batches of 2, 3 calls, 2 failures, 8 555 states | `EachKeyOnce`, `TotalIsRight`, `WrongByFault`, `Terminates` |
| `text` | draws of 3 numbers to 31 in base 4, keys of 6 digits; paths of up to 7 of 2 characters, buffers of 4, 68 866 states | `NeverRootId`, `FullDrawsReadBack`, `FitsBuffer2`; `WalksTheNames`, `FirstsAreTheNames`, `OverrunIffLong` |
| `overrun` | depth 1, 2 keys | violated: `WritesFitBlock` (`main.c:267`) |
| `append` | depth 1, 2 keys | violated: `AppendKeepsData` (`notes.md:6`) |
| `readdir_missing` | depth 1, 2 keys | violated: `ReaddirFindsMissing` (`main.c:179-186`) |
| `open_missing` | depth 1, 2 keys | violated: `OpenFindsMissing` (`notes.md:30-31`) |
| `full_directory` | one entry per directory, 3 keys | violated: `FullDirectoryIsStopped` (`dict.c:377`) |

`tree` and `deep` use the view `<<store, mounted>>`: no action reads `reply`, and TLC
takes every step, and checks every action property on it, before it drops a
state whose view it has seen. What `TypeOK` says of the answers is so checked only on the
first answer that leads to each store; the proof has all of them. Why the bounds are enough: every operation touches
one directory and at most one blob below it, so two names that share a directory
with a third that is always refused, two entries per directory and a depth of 2
give every relation of two entries; a depth of 3 gives subtrees below a removed
directory that are more than one blob. With four keys, orphans and live blobs
exist side by side and every key gets used again after a removal.

The bounds of the other runs: in `calls`, two failures are enough for one to undo what another
has left (a create whose second call failed, then its removal or its retry), and
the requests are all operations at both levels, with a write that is refused and one that goes past
the block. In `threads` the paths have up to three components,
since only a walk along two has something left in `strtok`'s place that another
thread can take up, and the requests are those that meet: changes of the same
directory, of one above and one below, a write, a listing, a removal of a directory with something in it,
and a `getattr` of a name while that is made or removed (`hello_rmdir` only calls `hello_unlink`, which is sent in `calls`). More than
two threads add more of the same pairs. In `container` there are up to twice as many
containers as one start deletes, `test` among them or not. `Rand` is scaled: 31 in base 4 has three digits, of which the
first may be 1 only, as 2^31 - 1 in base 16 has eight, of which the first is at most 7; three draws
give 3 to 9 digits for a key of 6, as thirteen give 13 to 104 for a key of 96; and `buffer2`
holds exactly the longest number in both. In `PathStrings` names of one to five characters and
directories of up to five meet a buffer of four from both sides.

`DanglingByFault` and `StaysOnItsName` divide what failing calls do between them. The first bounds what they
leave in all, in entries that lead nowhere. It says nothing of which entry or blob that is: an `unlink` whose read
of a directory fails may take the blob read before for it and delete a file of the same name there. That is
what the code does, at the cost of the call that failed. The second says that it ends there: no later
request, as long as its own calls succeed and the directories on its way are there, touches anything but what it was asked for,
although it stores blobs under the keys they carry. `OnSolidGround` is there since a walk
through an entry that leads nowhere reads as a failed call does.

Views and symmetry: `CallsView` drops `reply`, which nothing reads, and `strtok`'s place while no
thread is on its way.

Fairness and liveness. `Container` assumes that a process that comes up goes on to its
next call (`WF(ComingUp)`: the code is sequential and no call waits) and that ckvfs is started
again when it is not running (`WF(Start)`: the user, who tries again). With
finitely many failures, `ComesUp` follows. `Iterator` assumes `WF(Iterating)` for the same
reason as the first. The handlers of `Ckvfs` and `CkvfsCalls` have no liveness property: a
handler is a bounded chain of calls, nothing waits for anything in the process and no
work is left for later.

Deadlock is checked in every run but two: the process of `iterator` ends in `exit(1)`, and
`text` ends when the key or the path is done.

What `FileTree` does not promise, because the code does not do it: offsets
(a write replaces the content), refusing to remove a directory that is not empty,
errors for most requests that do nothing (`Make` and `Delete` may answer OK), that a write longer than a block
is refused (`Length` is what `strlen` counts, `Kept` what comes back), and an answer to a
`getattr` that is overtaken (`Overlooked`).

## 4. Proofs

`CkvfsProofs` proves `Spec => []IInv` (`InductiveInvariant`) and from it, as
theorems of their own, `TypeOK`, `UniqueNames`, `NoDangling` and `SingleParent`.
They hold for any sets of names, keys, bytes and payloads, any `MAX_ITEMS`,
`MAX_BLOCK`, `MaxDepth`, `MaxOverread` and `NUL`, from two assumptions: `BlobAssumption` (the
root's key is not drawn, `NULL` is no key, the capacities are positive) and
`CkvfsAssumption` (`HEAD` is a name, payloads are sequences of bytes, `Junk` is a byte, the bounds
are numbers). `IInv` is defined with the proofs and is the conjunction of what the run `tree` checks and of one
fact more about the root. `TypeOK` says of a file that it is stored whole under its key, not that it fits a block, which
is false (run `overrun`).

None of the invariants is inductive alone. `NoDangling` needs `SingleParent`
(deleting a blob leaves no other entry behind that leads to it), needs `UniqueNames`
and `TypeOK` (the entry removed is the one that was looked up), and needs that
entries are only added to directories. The last point rests on the lookup of the parent:
`hello_getattr` says that `"/HEAD"` is a directory without looking, so `IInv` adds
that the root has no entry named `HEAD`: a file of that name would pass for
a directory and get entries.

The argument has two layers. `BlobsOf(s)` turns a device into a function from keys to
blobs; three lemmas (`LinksReplace`, `LinksAdd`, `LinksRemove`) say that replacing a
file's data, adding an entry with its blob and removing an entry with its blob
keep the links sound. `DataReplaced`, `EntryAdded` and `EntryRemoved` lift them to the
device calls the handlers make, and one lemma per handler shows that its step is one of the
three or leaves the device alone.

`TreeProofs` asks what a step does to the walk along every path (`WalksReplaced`, `WalksAdded`,
`WalksRemoved`), and puts each of the three changes in terms of it: `Refilled` (all walks stay), `Grown` (one
path more, at a fresh key) and `Shrunk` (the paths at and below the removed one end nowhere, the others end
where they did). `SingleParent` makes two walks that end at one blob the same path (`OnePath`). So a handler
touches a blob on a path and at most a blob in its entries, and a blob without a path keeps its record and stays
without one (`OrphansAreFrozen`); a blob that loses its path was at or below the path
removed, and the one at it is deleted, which leaves those below a directory
(`OnlyRmdirLeaks`).

`TreeProofs` also proves `Spec => ImplementsFileTree`: the tree of paths (`TreeOf`) changes as `FileTree`
says (`RefilledTree`, `GrownTree`, `ShrunkTree`), and every handler's answer is the
one `FileTree` allows. The invariant it adds to `IInv` is `Shallow`: no walk is longer than the paths
requests have, so a listing, which comes from the entries, is the set of children that
the tree of those paths has.

The first sections of `CkvfsProofs` have the facts below that: the stored form is read back as it was
(`RoundTrip`), where a search stops (`PositionFound`), that a removal takes its name out and leaves what the other names lead to
(`RemovalSparesTheOthers`), that the walk is defined and stays among the stored blobs
(`WalkExists`, `WalkStays`) and that it is the walk to the directory and one step more
(`WalkExtends`). The library's induction theorems take an operator as a parameter,
which the provers cannot instantiate; the induction over the length of a path is
done by a least counterexample (`LeastNumber`).

`CallsProofs` proves `UniqueNames` and `SingleParent` of `CkvfsCalls` for any number of threads and failing
calls, from `BlobAssumption`, `CkvfsAssumption` and `CallsAssumption` (requests are of the known
operations, on paths, of the root only to look at it, and carry a payload to write). No other invariant of `Ckvfs` is
needed, and few would hold: entries may lead nowhere and blobs may be garbage. `NamesInv` says that
every blob has its names once, wherever it is: on the device, in a thread's hands, and on
its stack, from which a failed read takes it. Each step then either moves such a blob,
appends a name that `has_path` has not found in the very blob it is appended to, or takes an entry
out. That the kernel keeps requests apart is not used: two threads that add
to one directory lose an entry, but store no name twice.

`SingleParent` is about two blobs on the device, and a thread may be about to store a third: an old copy of a directory,
or one with an entry that is not on the device yet. `HomesInv` therefore speaks of all copies
anywhere: every key has one home, the directory in whose copies (which share their
`inodeid`) all entries with that key are, and no copy has it twice; and a blob lies under the key it carries. A step that
moves copies about, or takes an entry out of one, keeps that (`HomesKept`); one that adds an entry draws its key,
which is in no copy.

`CallsProofs` goes on to prove `RemovalSticks` for one thread (`OneThread`), any requests and any number of failures. An
earlier failure may have left an entry whose blob is gone, and such an entry leads a walk astray without a call
failing now: the handler goes on in the blob it read before. So the names walked are not always those of
the blob in hand. `WayInv` says what they are: for each place in the program (`OnWay`), as long as no
call of this request has failed, the hands hold the blob at the path walked so far, or the path was lost and leads
nowhere, for good (`LostForGood`); and once the entry is out of the stored directory (`TakenOut`), no
path leads to the name. A removal only ever takes lookups away, so where a path leads after it, it led before
(`KeysOnTheWay`). Below that lies `SaneInv`, of any number of threads: no key is `NULL`, the root
stays once it is there, a thread is idle when nothing is mounted. It rests on `NamesInv` and `HomesInv`: the entry
taken out was the only one of its name in that directory, and the directory is stored where it was read. `WayInv` was
checked by TLC in the run `calls` before it was proved.

Its last sections prove `DanglingByFault` for one thread (`DanglingIsPaidFor`), any requests and any number of failures. Counting the entries that lead
nowhere is not enough for an invariant: a failed read makes a handler take the blob on its stack for what it
read, and that may be a directory as it was before a request took an entry out of it, or before one put an entry in;
stored again, it brings a removed entry back or leaves a made file without one. So the invariant counts what each device *that
the thread could still leave* would have: `Traced` bounds `Nowhere`, the keys that entries have and the device has not, for the device as
it is, for the one with the blob in hand stored (`After`), with the blob on the stack stored, and with one after the other. What costs
nothing now may be had at once; what it takes one more failure to store may have one more. The steps are judged by a few
lemmas about `Nowhere`: storing what was read changes nothing (`Reread`), storing a directory with one entry more adds one key at most (`Narrower`),
storing a new blob makes its own key lead somewhere (`Supplied`), deleting a blob adds its key, which the
second call takes out again (`Emptied`, since by `HomesInv` no other directory has the key). At the end `SingleParent` turns keys into entries:
each entry that leads nowhere has a key of its own (`DanglingFew`). TLC checked `FaultInv` in the run `calls` before it was proved. With
several threads `FaultInv` does not hold: what one has on its stack may be a directory that another has taken an entry out of since.

`LocksProofs` and `CallsTreeProofs` prove `CallsSpec => CallsImplementFileTree` (`LocksImplementTheTree`), for any number
of threads, any requests and all values of the constants. What `FileTree` sees is the tree of the *settled* device:
the one with the second calls made that threads are still to make. The theorem holds for what `Excludes` takes from the
kernel and libfuse, which is nothing for a `getattr` of the name that is removed; the answer of such a `getattr` is the one thing it says
nothing about. So a request happens when it makes the first of its two
calls, or its only one, and is invisible before and after. The argument:

- *The settled device.* `Overlaid(d, T)` is `Settled` as a function of the device and the threads. A thread that comes to
  its second call changes it by one store (`OneComes`), a store or a deletion under a key that nobody is about to
  store passes through it (`NoneUnder`, `NoneUnderDeleted`), and a second call, when it is made, changes nothing (`ComesTrue`).
- *The invariant* `LockInv`: the settled device is `Sound`, which is `IInv`'s part about the device, and shallow; what the kernel
  looked up for each request is still so (`Found`); no two requests are under way that exclude each other; a `getattr` is
  in `overtaken` when its name is between the two calls that make or remove it (`Marks`); and each
  thread that is not overtaken holds what its place in the program calls for (`OnTheWay`). That is not the blob at the path walked so far, which another
  thread may change between the read and the next lookup, but one that agrees with it about the thread's *own* next
  name (`Carries`), and is equal to it when the thread is going to change and store it. Between two calls,
  the blob that is made is not on the device yet (`Made`), or the directory on the device still has the one
  entry more (`Unlinked`); and a write is about to store the file at its path (`Filled`).
- *The locks.* What a step does to the settled device (`Does`) is a change at and right above the path of its request. `Apart` says what a change
  has to leave alone for another request not to notice, and `KeepsApart` that `~ Excludes` gives it. This is where
  the paths meet: the directory lock keeps two stores of one directory from being based on one reading, libfuse's path lock keeps
  a removal from a walk that is below it, and the lock of the file two writes. A `getattr` of the name itself walks only to
  the directory, which nothing above removes; what it finds there may change, and from then on it is marked and nothing more is claimed of it.
- *Reads.* A device that is not settled yet differs from the settled one in directories of which a thread is about to store a copy,
  in one name, which no other thread is on its way to (`ReadAgrees`).
- *The refinement.* Each step of a thread keeps `LockInv`, and is `Hidden` or one in which what was asked `Happens`
  (`ThreadServes`), or the answer of a marked `getattr` (`Missed`); the second is the step of `FileTree` for that request,
  with its answer (`FulfilsImplements`), the
  third is `Overlooked`.

The mapping shows the tree while the process runs, no call has failed and no walk has gone astray (`Serving`), and nothing
otherwise, as after an unmount: a failure or a stray walk ends what is promised, and nothing in the code restores it
(`ServedBefore`). A kill empties the threads' hands, so what they had not stored is gone with them, and the next mount shows an empty root (`MountServes`).

`ContainerProofs` proves that `Container` implements `Ckvfs` (`ContainerImplements`): the invariant says
that `store` is empty from the deletion of `test` to `write_root`, since a container is only created
when there is none; so each step is `hello_init`, a request, or a stutter. `IInv` follows for
`Container` by the refinement (`ContainerKeepsInvariant`). `StartsExitClean` proves `ExitsClean`
from which handles are open before which call: a start that ends by itself has closed the device and the container, and
the environment if it ends in `_env_exit`; the four error returns before the container is open (`dict.c:31`, `47`, `60`, `69`)
leave the environment to the end of the process. They use `ContainerAssumption` beside those of `Ckvfs`.

`IteratorProofs` proves the three invariants of `Iterator` for every container, batch size and
number of calls and failures: the matching keys are ahead, in the batch or printed, one of the three
(`Shared`, `Visits`), and the total counts those that are not ahead (`Counted`).

`TextProofs` proves the invariants of `Rand` and `PathStrings`, for all values of their constants
and paths of any length. The library's induction theorems are of no use here either, so what the
recursive definitions `backwards`, `Value` and `Join` compute is proved by least counterexamples:
first that the recursion has a solution, then that two solutions agree, so that the definition
satisfies its equation (`BackwardsTurns`, `ValueOfNumeral`, `JoinOfFront`).

- *Keys.* `NoKeyIsTheRoots` needs `0 < Draws < KeyLength` (13 and 96 in the code; with as many draws as digits
  a run of zeroes would be the root's prefix). `DrawsInv` strengthens it: as long as all digits are zero, there is one
  to a draw. `NumbersFit` says that `buffer2` is large enough for all numbers when it is for
  `RAND_MAX`, and `NineBytesAreEnough` that the code's 9 is, for base 16 and `2^31 - 1`. `DrawsReadBack` has no
  hypothesis; `PlacesInv` says where in the digits each draw of full length lies.
- *Paths.* `PathInv` says that what `strtok` has returned are the first names of the directory's path, that what it has
  still to read is the path of the others, and the same of `get_first_name`;
  `NamesAreWalked` and `FirstNamesAreRight` follow. `LongPathsOverrun` rests on where the scan from the end stops (`SplitOfPath`).

TLC found `DrawsInv`, `PlacesInv` and `PathInv` to hold in the instance of the run `text` before they were proved.

Only model-checked:

- `ComesUp` and `Terminates`: liveness under fairness is out of the prover's reach.
- `StaysOnItsName`.

`RemovalSticks` and `DanglingByFault` are checked and proved for one thread only: with several, another request may
change the directories on the way, and a failure in one may leave entries to a directory that another is about to
delete.

## 5. Not modelled, and the plan

Left to do, the most important first:

1. The size and offset of a read against the caller's buffer.
2. The tail of the 100-byte key as a state of its own: a store that misses the record it
   should replace leaves it under a key that a later read may hit.
3. Failing calls with two threads in one instance: with two failures `threads` grows too
   large to search; the proofs of `UniqueNames` and `SingleParent` cover it.
4. A proof of `StaysOnItsName` for one thread, on the ground of `WayInv`.
5. What a `getattr` may answer that is overtaken: the state before, the one after, or what the stack holds.

Left out for good:

- Printing and diagnostics, option parsing and the copy of the configuration file's path:
  they change no state that anything else reads, except by memory overruns.
- `use_emulator.c`, the manual driver: it does not compile, since it calls `set_up_ssd()`
  without the argument that `dict.c`, included above, asks for.
- `older_dict.c`, built by nothing, and `test_sync.cpp`, the vendor's sample.
- In `dict.c`, the key-value branch of `print_iterator_keyvals` (the iterator's type is a
  constant) and what follows `exit(1)` in `perform_iterator`, which never run.
