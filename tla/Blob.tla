------------------------------- MODULE Blob --------------------------------
(***************************************************************************)
(* The data layer of ckvfs: directory and file blobs, their stored form,   *)
(* and the operations of blob.c and dict.c on them.                        *)
(*                                                                         *)
(* The device is a partial function s from keys to WriteBlobs; an          *)
(* operation of dict.c that changes it returns the new function.  A path   *)
(* is the sequence of the names between its slashes, "/" being << >>.      *)
(***************************************************************************)
EXTENDS Naturals, SequencesExt

CONSTANTS Names,        \* path components (at most MAX_NAME characters)
          Ids,          \* the keys get_random_num can draw
          root_id,      \* the fixed key of the root directory
          NULL,         \* "no blob" / the empty inode id ""
          Bytes,        \* what a file holds
          MAX_ITEMS,    \* entries that fit in a directory's block
          MAX_BLOCK     \* bytes that fit in a file's block

Keys == Ids \cup {root_id}

ASSUME BlobAssumption ==
  /\ root_id \notin Ids
  /\ NULL \notin Keys
  /\ MAX_ITEMS \in Nat \ {0}
  /\ MAX_BLOCK \in Nat \ {0}

ISDIR  == 100
NOTDIR == 50

----------------------------------------------------------------------------
(* Blobs and their stored form.                                            *)

Item == [item_path : Names, inodeid : Ids, is_dir : BOOLEAN]

\* A Blob in memory is [inodeid, is_dir, sub_items, data]: a directory has no
\* data and a file no items; num_items is Len(sub_items), size is Len(data).
EmptyDir(id)  == [inodeid |-> id, is_dir |-> ISDIR,
                  sub_items |-> << >>, data |-> << >>]
EmptyFile(id) == [inodeid |-> id, is_dir |-> NOTDIR,
                  sub_items |-> << >>, data |-> << >>]

\* A WriteBlob on the device: its data are the raw bytes of either.
convert_to_write_blob(b) ==
  [is_dir    |-> b.is_dir,
   num_items |-> Len(b.sub_items),
   size      |-> Len(b.data),
   inodeid   |-> b.inodeid,
   data      |-> IF b.is_dir = NOTDIR THEN b.data ELSE b.sub_items]

convert_to_blob(w) ==
  [inodeid   |-> w.inodeid,
   is_dir    |-> w.is_dir,
   sub_items |-> IF w.is_dir = ISDIR THEN SubSeq(w.data, 1, w.num_items)
                                     ELSE << >>,
   data      |-> IF w.is_dir = ISDIR THEN << >>
                                     ELSE SubSeq(w.data, 1, w.size)]

----------------------------------------------------------------------------
(* The device: one container of key-value pairs.                           *)

\* KVS_STORE_POST overwrites a value that is there.
perform_insertion(s, k, v) ==
  [x \in DOMAIN s \cup {k} |-> IF x = k THEN v ELSE s[x]]

perform_delete(s, k) == [x \in DOMAIN s \ {k} |-> s[x]]

perform_read(s, k) == s[k]

get_blob_from_key(s, k) == convert_to_blob(perform_read(s, k))

get_root_inode(s) == convert_to_blob(perform_read(s, root_id))

write_to_dict(s, k, b) == perform_insertion(s, k, convert_to_write_blob(b))

\* MUTANT: a draw that may repeat a key in use.
RepeatingDraw(s) == Ids
\* MUTANT: a draw that looks at the entries on the device, not at its keys.
UnlistedDraw(s) == Ids \ {item.inodeid : item \in UNION {Range(s[k].data) : k \in
                                                     {k \in DOMAIN s : s[k].is_dir = ISDIR}}}

\* The keys a draw may return: 96 random hexadecimal digits, taken never to
\* be a key that is in use.
get_random_num(s) == Ids \ DOMAIN s

----------------------------------------------------------------------------
(* Directories.  Every lookup is a linear search for the first entry of    *)
(* the given name: Position is where it stops, 0 when it finds none.       *)

\* MUTANT: the search loop that stops one entry early.
ShortSearch(b, name) ==
  SelectInSeq(SubSeq(b.sub_items, 1, Len(b.sub_items) - 1),
              LAMBDA item : item.item_path = name)

Position(b, name) ==
  SelectInSeq(b.sub_items, LAMBDA item : item.item_path = name)

has_path(b, name) == Position(b, name) # 0

get_inode_from_path(b, name) ==
  LET i == Position(b, name)
  IN  IF i = 0 THEN NULL ELSE b.sub_items[i].inodeid

\* MUTANT: the last entry is dropped and none is moved.
DropLast(b, name) == [b EXCEPT !.sub_items = Front(@)]

\* The entries behind the one found move up by one.  The code drops the last
\* entry when there is no such name; no caller removes an absent name.
remove_inode_from_path(b, name) ==
  [b EXCEPT !.sub_items =
     RemoveAt(@, IF has_path(b, name) THEN Position(b, name) ELSE Len(@))]

\* MUTANT: the directory is changed in memory only.
InsertUnsaved(s, b, name, is_dir, id) == s

\* Appends an entry whose inode id is the draw id, and stores the directory.
insert_item_into_blob(s, b, name, is_dir, id) ==
  LET item == [item_path |-> name, inodeid |-> id, is_dir |-> is_dir]
  IN  IF has_path(b, name)
      THEN s
      ELSE write_to_dict(s, b.inodeid, [b EXCEPT !.sub_items = Append(@, item)])

----------------------------------------------------------------------------
(* Paths.                                                                  *)

\* The directory and the last component of a path other than "/".
get_fn_dir(path) == [dir |-> Front(path), fn |-> Last(path)]

\* From the blob with key cur to the one its entry of that name leads to.
Enter(s, name) ==
  [cur \in DOMAIN s \cup {NULL} |->
     IF cur = NULL THEN NULL ELSE get_inode_from_path(get_blob_from_key(s, cur), name)]

\* The key of the blob the path leads to, walking from the root one component
\* at a time; NULL from the first component on that has no entry.  Every entry
\* leads to a stored blob: see NoDangling in Ckvfs.
go_through_inodes(s, path) ==
  LET walk[i \in 0..Len(path)] ==
        IF i = 0 THEN root_id ELSE Enter(s, path[i])[walk[i-1]]
  IN  walk[Len(path)]
============================================================================
