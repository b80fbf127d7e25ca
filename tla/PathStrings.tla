---------------------------- MODULE PathStrings ----------------------------
(***************************************************************************)
(* What the handlers do with the characters of a path before it is the     *)
(* sequence of names that Blob takes it for: get_fn_dir, the strtok loop   *)
(* of go_through_inodes, and get_first_name, which does the same work for  *)
(* nobody yet (blob.c).                                                    *)
(***************************************************************************)
EXTENDS Integers, SequencesExt

CONSTANTS Letters,      \* characters other than the slash
          MAX_NAME,     \* bytes of the handlers' buffers dir_name and file_name
          NameLists     \* bound: the paths, each as the list of its names

ASSUME PathStringsAssumption ==
  /\ "/" \notin Letters /\ MAX_NAME \in Nat
  /\ NameLists \subseteq Seq(Seq(Letters) \ {<< >>}) \ {<< >>}

Slash == <<"/">>

\* The kernel's paths: a slash before each name.
Join(l) ==
  LET join[i \in 0..Len(l)] == IF i = 0 THEN << >> ELSE join[i-1] \o Slash \o l[i]
  IN  join[Len(l)]

VARIABLES names,        \* the names of the path
          dir, fn,      \* what get_fn_dir makes of it
          rest, tokens, \* where strtok is, and what it has returned
          path, firsts, \* what get_first_name has left, and what it has returned
          pc

pathVars == <<names, dir, fn, rest, tokens, path, firsts, pc>>

PathInit ==
  /\ names \in NameLists
  /\ path = Join(names)
  /\ dir = << >> /\ fn = << >> /\ rest = << >> /\ tokens = << >> /\ firsts = << >>
  /\ pc = "split"

----------------------------------------------------------------------------
\* The characters up to the first slash, and those from it on.
Upto(s)   == LET i == SelectInSeq(s, LAMBDA c : c = "/")
             IN  IF i = 0 THEN s ELSE SubSeq(s, 1, i - 1)
Behind(s) == SubSeq(s, Len(Upto(s)) + 1, Len(s))

LastSlash(s) == SelectLastInSeq(s, LAMBDA c : c = "/")

\* MUTANT: the directory keeps its last slash, which the buffer must hold.
SplitBehind(s) ==
  LET i == LastSlash(s)
  IN  [dir |-> SubSeq(s, 1, i), fn |-> SubSeq(s, i + 1, Len(s)), used |-> i + 1]
\* MUTANT: the first slash instead of the last.
SplitAtFirst(s) ==
  LET i == SelectInSeq(Tail(s) \o Slash, LAMBDA c : c = "/")
  IN  [dir |-> SubSeq(s, 1, i), fn |-> SubSeq(s, i + 2, Len(s)), used |-> i + 1]

\* get_fn_dir: the scan from the end for the last slash.  used is what it needs
\* of the buffer dir_name, which at first holds "/" and its NUL.
Split(s) ==
  LET i == LastSlash(s)
  IN  [dir |-> SubSeq(s, 1, i - 1), fn |-> SubSeq(s, i + 1, Len(s)),
       used |-> IF i = 1 THEN 2 ELSE i]

\* A handler calls get_fn_dir, whose copies have no bound: behind the end of a
\* buffer nothing is known any more.
get_fn_dir ==
  /\ pc = "split"
  /\ dir' = Split(path).dir /\ fn' = Split(path).fn
  /\ rest' = dir'
  /\ pc' = IF Split(path).used > MAX_NAME \/ Len(fn') + 1 > MAX_NAME
           THEN "overrun" ELSE "walk"
  /\ UNCHANGED <<names, tokens, path, firsts>>

\* strtok skips the slashes in front of a token,
SkipSlashes(s) ==
  LET i == SelectInSeq(s, LAMBDA c : c # "/")
  IN  IF i = 0 THEN << >> ELSE SubSeq(s, i, Len(s))

\* puts a NUL over the one behind it and goes on behind that.
strtok ==
  /\ pc = "walk"
  /\ LET s == SkipSlashes(rest)
     IN  IF s = << >> THEN pc' = "names" /\ UNCHANGED <<rest, tokens>>
         ELSE /\ tokens' = Append(tokens, Upto(s))
              /\ rest' = IF Behind(s) = << >> THEN << >> ELSE Tail(Behind(s))
              /\ UNCHANGED pc
  /\ UNCHANGED <<names, dir, fn, path, firsts>>

\* MUTANT: the slash behind a name is left for the next call.
KeepSlash(s) ==
  IF s[1] = "/" THEN [first |-> Slash, left |-> Tail(s)]
  ELSE [first |-> Upto(s), left |-> Behind(s)]

\* get_first_name: a slash at the beginning is a name of its own, that behind
\* a name goes with it.
First(s) ==
  IF s[1] = "/" THEN [first |-> Slash, left |-> Tail(s)]
  ELSE [first |-> Upto(s), left |-> IF Behind(s) = << >> THEN << >> ELSE Tail(Behind(s))]

get_first_name ==
  /\ pc = "names" /\ path # << >>
  /\ path' = First(path).left
  /\ firsts' = Append(firsts, First(path).first)
  /\ UNCHANGED <<names, dir, fn, rest, tokens, pc>>

PathNext == get_fn_dir \/ strtok \/ get_first_name

PathSpec == PathInit /\ [][PathNext]_pathVars

----------------------------------------------------------------------------
(* Properties.                                                             *)

\* The handlers walk the names of the path but the last, which is the one they
\* look up: Blob's get_fn_dir and go_through_inodes take names for granted.
WalksTheNames ==
  pc = "names" => tokens = Front(names) /\ fn = Last(names)

\* get_first_name, called until nothing is left, takes the path apart into a
\* slash and its names.
FirstsAreTheNames ==
  pc = "names" /\ path = << >> => firsts = <<Slash>> \o names

\* The buffers are overrun exactly when the last name, or the path of its
\* directory, has MAX_NAME characters or more, be each name on the way ever so
\* short: nothing refuses such a path (blob.c).
OverrunIffLong ==
  pc # "split" =>
    (pc = "overrun" <=> \/ Len(Join(Front(names))) >= MAX_NAME
                        \/ Len(Last(names)) >= MAX_NAME)
============================================================================
