----------------------------- MODULE Container -----------------------------
(***************************************************************************)
(* How ckvfs comes up on a device (set_up_ssd, _env_init, _env_exit and    *)
(* write_root of dict.c), one call of the device after the other, each of  *)
(* which may fail (but for those that close something) or be the last one  *)
(* before the process is killed.  Once up it serves requests as Ckvfs says.*)
(*                                                                         *)
(* A device holds containers; ckvfs works in the one named "test", whose   *)
(* content is the variable store (empty when there is none).               *)
(***************************************************************************)
EXTENDS Ckvfs, FiniteSets

CONSTANTS Strangers,    \* other containers that may be on the device
          MaxFaults     \* bound: failing calls and kills

ASSUME ContainerAssumption == IsFiniteSet(Strangers) /\ MaxFaults \in Nat

cont_name    == "test"
retrieve_cnt == 2

VARIABLES containers,   \* the containers on the device
          start,        \* the call a process that comes up makes next
          listed,       \* names it still has to delete
          handles,      \* what the last process has opened and not closed
          faults        \* calls that failed, and kills

devVars == <<containers, start, listed, handles, faults>>
containerVars == <<store, mounted, reply, devVars>>

ContainerInit ==
  /\ Init
  /\ \E s \in SUBSET Strangers : containers \in {s, s \cup {cont_name}}
  /\ start = "down"
  /\ listed = {}
  /\ handles = {}
  /\ faults = 0

----------------------------------------------------------------------------
(* One call of the device.                                                 *)

Works == UNCHANGED faults
Fails == faults < MaxFaults /\ faults' = faults + 1

\* The process goes from one call to the next.
Then(here, there) == start = here /\ start' = there /\ UNCHANGED <<mounted, reply>>

\* kvs_delete_container, whose result nothing looks at.
Delete(name) ==
  \/ /\ Works
     /\ containers' = containers \ {name}
     /\ store' = IF name = cont_name THEN set_up_ssd ELSE store
  \/ Fails /\ UNCHANGED <<containers, store>>

----------------------------------------------------------------------------
(* _env_init.                                                              *)

\* Somebody starts ckvfs.
Start == /\ ~ mounted
         /\ Then("down", "init env")
         /\ handles' = {}
         /\ UNCHANGED <<store, containers, listed, faults>>

\* kvs_init_env, whose result nothing looks at.
InitEnv ==
  /\ Then("init env", "open")
  /\ \/ Works /\ handles' = {"env"}
     \/ Fails /\ UNCHANGED handles
  /\ UNCHANGED <<store, containers, listed>>

\* A failure ends the process at once.  No device opens without an environment.
OpenDevice ==
  /\ \/ /\ "env" \in handles
        /\ Works /\ Then("open", "list") /\ handles' = handles \cup {"device"}
     \/ /\ "env" \notin handles
        /\ Works /\ Then("open", "down") /\ UNCHANGED handles
     \/ Fails /\ Then("open", "down") /\ UNCHANGED handles
  /\ UNCHANGED <<store, containers, listed>>

\* As many names as there is room for, of all that are there.
ListContainers ==
  /\ \/ /\ Works /\ Then("list", "delete")
        /\ listed' \in {l \in SUBSET containers :
                          \/ Cardinality(l) = retrieve_cnt
                          \/ l = containers /\ Cardinality(l) < retrieve_cnt}
     \/ Fails /\ Then("list", "close device") /\ UNCHANGED listed
  /\ UNCHANGED <<store, containers, handles>>

\* MUTANT: the loop over the names stops one early.
DeleteButOne ==
  \/ /\ Cardinality(listed) > 1 /\ Then("delete", "delete")
     /\ \E name \in listed : Delete(name) /\ listed' = listed \ {name}
     /\ UNCHANGED handles
  \/ /\ Cardinality(listed) <= 1 /\ Then("delete", "create")
     /\ listed' = {}
     /\ UNCHANGED <<store, containers, handles, faults>>

DeleteContainers ==
  /\ \/ /\ Then("delete", "delete")
        /\ \E name \in listed : Delete(name) /\ listed' = listed \ {name}
     \/ /\ listed = {} /\ Then("delete", "create")
        /\ UNCHANGED <<store, containers, listed, faults>>
  /\ UNCHANGED handles

\* MUTANT: a container that is there will do.
TakeContainer ==
  /\ Works /\ Then("create", "open container")
  /\ containers' = containers \cup {cont_name}
  /\ UNCHANGED <<store, listed, handles>>

\* The device refuses a name it has.
CreateContainer ==
  /\ \/ /\ cont_name \notin containers
        /\ Works /\ Then("create", "open container")
        /\ containers' = containers \cup {cont_name}
     \/ /\ cont_name \in containers
        /\ Works /\ Then("create", "close device") /\ UNCHANGED containers
     \/ Fails /\ Then("create", "close device") /\ UNCHANGED containers
  /\ UNCHANGED <<store, listed, handles>>

OpenContainer ==
  /\ \/ Works /\ Then("open container", "get info") /\ handles' = handles \cup {cont_name}
     \/ Fails /\ Then("open container", "delete container") /\ UNCHANGED handles
  /\ UNCHANGED <<store, containers, listed>>

\* MUTANT: the error path of the call before.
ForgetContainer ==
  /\ \/ Works /\ Then("get info", "write root")
     \/ Fails /\ Then("get info", "delete container")
  /\ UNCHANGED <<store, containers, listed, handles>>

\* kvs_get_container_info and the allocation of dev_info; the results of the
\* other questions to the device are only printed.
GetInfo ==
  /\ \/ Works /\ Then("get info", "write root")
     \/ Fails /\ Then("get info", "exit: close container")
  /\ UNCHANGED <<store, containers, listed, handles>>

\* That this store fails is looked at in CkvfsCalls.
WriteRoot ==
  /\ start = "write root" /\ start' = "down"
  /\ store' = write_root(store)
  /\ mounted' = TRUE
  /\ reply' = NoReply
  /\ UNCHANGED <<containers, listed, handles, faults>>

----------------------------------------------------------------------------
(* The error returns of _env_init, and _env_exit; exit(1) ends both.       *)

CloseContainer ==
  /\ Then("exit: close container", "exit: delete container")
  /\ handles' = handles \ {cont_name}
  /\ UNCHANGED <<store, containers, listed, faults>>

DeleteContainer ==
  /\ \/ Then("delete container", "close device")
     \/ Then("exit: delete container", "exit: close device")
  /\ Delete(cont_name)
  /\ UNCHANGED <<listed, handles>>

\* The error returns leave the environment as it is.
CloseDevice ==
  /\ \/ Then("close device", "down")
     \/ Then("exit: close device", "exit: exit env")
  /\ handles' = handles \ {"device"}
  /\ UNCHANGED <<store, containers, listed, faults>>

ExitEnv ==
  /\ Then("exit: exit env", "down")
  /\ handles' = handles \ {"env"}
  /\ UNCHANGED <<store, containers, listed, faults>>

----------------------------------------------------------------------------
ComingUp ==
  \/ InitEnv \/ OpenDevice \/ ListContainers \/ DeleteContainers \/ CreateContainer
  \/ OpenContainer \/ GetInfo \/ WriteRoot
  \/ CloseContainer \/ DeleteContainer \/ CloseDevice \/ ExitEnv

\* Killed on the way up: the device stays as it is.
KilledStarting ==
  /\ start # "down" /\ start' = "down"
  /\ Fails
  /\ listed' = {}
  /\ handles' = {}
  /\ UNCHANGED <<store, mounted, reply, containers>>

\* Requests, and the end of a process that serves them: no handler runs then
\* and nothing is closed but by the end itself.
Serve == /\ mounted
         /\ Next
         /\ handles' = IF mounted' THEN handles ELSE {}
         /\ UNCHANGED <<containers, start, listed, faults>>

ContainerNext == Start \/ ComingUp \/ KilledStarting \/ Serve

\* A process goes on to its next call; and ckvfs is started again whenever it
\* is not there.
ContainerSpec ==
  /\ ContainerInit /\ [][ContainerNext]_containerVars
  /\ WF_containerVars(ComingUp) /\ WF_containerVars(Start)

----------------------------------------------------------------------------
(* Properties.                                                             *)

\* Whatever is on the device, whichever calls fail and wherever the process is
\* killed on its way up: requests are only ever served from a container that
\* began empty, as hello_init of Ckvfs says in one step.
ImplementsCkvfs == Spec

\* Although a start makes room for two containers only and ends when "test" is
\* still there, trying again always ends in a file system that is up.
ComesUp == []<>mounted

\* A start that ends by itself has closed the device and the container it had
\* opened, at whichever call it ends; and the environment as well when it ends in
\* _env_exit, but not by the error returns of _env_init before the container is
\* open, none of which calls kvs_exit_env.
ExitsClean ==
  [][start # "down" /\ start' = "down" /\ ~ mounted' =>
       /\ handles' \subseteq {"env"}
       /\ start = "exit: exit env" => handles' = {}]_containerVars
============================================================================
