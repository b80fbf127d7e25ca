------------------------------ MODULE MCCalls ------------------------------
(* CkvfsCalls for TLC: what is sent, and the symmetry of the instances.    *)
EXTENDS CkvfsCalls, TLC

CONSTANTS n1, n2,   \* two names
          x         \* a byte

\* One that is longer than the block of the small instance but is taken for
\* empty, and one that is refused.
MCPayloads == {<<NUL, x, x, x, x, x>>, <<x, x, x, x, x, x>>}

Req(op, p) == [op |-> op, path |-> p, buf |-> << >>]

\* One thread: everything, in the root and one directory below it.
MCRequests ==
  {Req(op, p) : op \in {"create", "mkdir", "unlink", "rmdir", "getattr", "read"},
                p \in {<<n1>>, <<n2>>, <<n1, n2>>}}
    \cup {Req("readdir", p) : p \in {Root, <<HEAD>>, <<n1>>}}
    \cup {Req("getattr", Root)}
    \cup {[op |-> "write", path |-> <<n1, n2>>, buf |-> d] : d \in MCPayloads}

\* Two threads: changes at three depths, since only a path whose directory has
\* two components leaves something behind that strtok can hand to another.
MCThreadRequests ==
  {Req("mkdir", <<n1>>), Req("mkdir", <<n1, n2>>), Req("create", <<n1, n2, n1>>),
   Req("create", <<n1, n1>>), Req("readdir", <<n1>>), Req("getattr", <<n1, n2>>),
   Req("rmdir", <<n1, n2>>)}
    \cup {[op |-> "write", path |-> <<n1, n2, n1>>, buf |-> <<NUL, x, x, x, x, x>>]}

\* The last reply is an output, and what strtok saved is only read by a thread
\* whose path it has begun.
CallsView ==
  <<store, mounted, th, faults, mixed, overtaken,
    IF \E t \in Threads : th[t].pc \in {"enter", "token"} THEN saved ELSE Root>>

CallsSymmetry == Permutations(Ids) \cup Permutations(Threads)
============================================================================
