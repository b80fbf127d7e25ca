------------------------------ MODULE FileTree -----------------------------
(***************************************************************************)
(* What ckvfs promises to the programs that use it: a tree of directories  *)
(* and files named by path.  Nothing here knows about keys, blobs or       *)
(* directory entries.  The last reply is part of the state, so that what   *)
(* the operations answer is promised as well as what they change.          *)
(*                                                                         *)
(* The promises are the ones of a single-block file system without         *)
(* offsets: a write replaces a file's whole content or changes nothing,    *)
(* and a removal takes a whole subtree with it.  A look that is overtaken  *)
(* by the making or the removal of its very name is promised no answer.    *)
(***************************************************************************)
EXTENDS Naturals, SequencesExt

CONSTANTS Paths,        \* the paths operations are called with
          HEAD,         \* the name whose path "/HEAD" is promised nothing
          Payloads,     \* what a write may carry
          Length(_),    \* Length(d): how long d is taken to be
          Kept(_),      \* Kept(d): what a write of d leaves in the file
          Fits(_, _),   \* Fits(p, n): n bytes and the path p fit in a block
          Slack         \* a write this close to the limit may be refused

VARIABLES tree,         \* partial function from paths to nodes
          mounted,      \* the file system answers requests
          reply         \* the last operation and its answer

vars == <<tree, mounted, reply>>

Dir     == [kind |-> "dir",  data |-> << >>]
File(d) == [kind |-> "file", data |-> d]
Nothing == [p \in {} |-> Dir]

IsDir(p)  == p \in DOMAIN tree /\ tree[p].kind = "dir"
IsFile(p) == p \in DOMAIN tree /\ tree[p].kind = "file"
Children(p) == {Last(q) : q \in {q \in DOMAIN tree : q # << >> /\ Front(q) = p}}

Asked(op, p) == mounted /\ reply'.op = op /\ reply'.path = p
Answers(err) == reply'.err = err

----------------------------------------------------------------------------
Init == tree = Nothing /\ ~mounted

\* A mount presents an empty root whatever was there before.
Mount == /\ ~mounted /\ mounted'
         /\ tree' = [p \in {<< >>} |-> Dir]

\* The process ends, by an unmount or by dying in an operation.
End == /\ mounted /\ ~mounted'
       /\ tree' = Nothing

Getattr(p) ==
  /\ Asked("getattr", p)
  /\ IF p \in DOMAIN tree
     THEN /\ Answers("OK")
          /\ reply'.kind = tree[p].kind
          /\ reply'.n = Len(tree[p].data)
     ELSE Answers(IF p = <<HEAD>> THEN "OK" ELSE "ENOENT")
  /\ UNCHANGED <<tree, mounted>>

\* A listing has every child, once.
Readdir(p) ==
  /\ Asked("readdir", p)
  /\ Answers("OK")
  /\ p # <<HEAD>> => /\ IsDir(p)
                     /\ IsInjective(reply'.out)
                     /\ Range(reply'.out) = Children(p)
  /\ UNCHANGED <<tree, mounted>>

\* An answer that nothing is promised of.
Overlooked == mounted /\ reply'.op = "none" /\ UNCHANGED <<tree, mounted>>

Open(p) == Asked("open", p) /\ Answers("OK") /\ UNCHANGED <<tree, mounted>>

Read(p) ==
  /\ Asked("read", p)
  /\ Answers("OK")
  /\ IsFile(p)
  /\ reply'.n = Len(tree[p].data)
  /\ reply'.out = tree[p].data
  /\ UNCHANGED <<tree, mounted>>

\* All of d that is kept or nothing, as the returned count says.
Write(p, d) ==
  /\ Asked("write", p)
  /\ Answers("OK")
  /\ IsFile(p)
  /\ \/ /\ Fits(p, Length(d))
        /\ reply'.n = Len(d)
        /\ tree' = [tree EXCEPT ![p] = File(Kept(d))]
     \/ /\ ~ Fits(p, Length(d) + Slack)
        /\ reply'.n = 0
        /\ UNCHANGED tree
  /\ UNCHANGED mounted

\* A new node appears exactly when its directory exists and the name is free.
Make(op, p, node) ==
  /\ Asked(op, p)
  /\ IF p \notin DOMAIN tree /\ IsDir(Front(p))
     THEN /\ Answers("OK")
          /\ tree' = [q \in DOMAIN tree \cup {p} |-> IF q = p THEN node ELSE tree[q]]
     ELSE /\ Answers("OK") \/ Answers("ENOTDIR")
          /\ UNCHANGED tree
  /\ UNCHANGED mounted

\* Everything at or below p goes, and nothing else.
Delete(op, p) ==
  /\ Asked(op, p)
  /\ Answers("OK")
  /\ tree' = [q \in {q \in DOMAIN tree : ~ IsPrefix(p, q)} |-> tree[q]]
  /\ UNCHANGED mounted

Next ==
  \/ Mount
  \/ End
  \/ Overlooked
  \/ \E p \in Paths :
       \/ Getattr(p) \/ Readdir(p) \/ Open(p) \/ Read(p)
       \/ \E d \in Payloads : Write(p, d)
  \/ \E p \in Paths \ {<< >>} :
       \/ Make("create", p, File(<< >>)) \/ Make("mkdir", p, Dir)
       \/ Delete("unlink", p) \/ Delete("rmdir", p)

Spec == Init /\ [][Next]_vars
============================================================================
