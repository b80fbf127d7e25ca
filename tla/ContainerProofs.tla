-------------------------- MODULE ContainerProofs --------------------------
(***************************************************************************)
(* Proofs about Container, for every set of other containers on the        *)
(* device, every number of failing calls and kills, and every instance of  *)
(* Ckvfs: what serves requests is always Ckvfs, so that its invariants     *)
(* hold however the process came up; and a start that fails closes the     *)
(* device and the container it opened.                                     *)
(***************************************************************************)
EXTENDS Container, CkvfsProofs

----------------------------------------------------------------------------
(* The inductive invariant: what is on the device and what is open at each *)
(* call, and that a container that is not there has no content.            *)

\* From the creation of the container to the first request nothing is stored.
Untouched == {"create", "open container", "get info", "write root",
              "exit: close container", "exit: delete container", "delete container"}

DeviceOpen == {"list", "delete", "create", "open container", "delete container",
               "close device", "exit: delete container", "exit: close device"}
BothOpen   == {"get info", "write root", "exit: close container"}

Calls == {"down", "init env", "open", "exit: exit env"} \cup DeviceOpen \cup BothOpen

Made == {"open container", "get info", "write root"}

CInv ==
  /\ start \in Calls
  /\ cont_name \notin containers => store = set_up_ssd
  /\ start \in Untouched \ {"create"} => store = set_up_ssd
  /\ start \in Made \/ mounted => cont_name \in containers
  /\ mounted => start = "down"
  /\ mounted \in BOOLEAN

HInv ==
  /\ start = "init env" => handles = {}
  /\ start = "open" \/ (start = "down" /\ ~ mounted) => handles \subseteq {"env"}
  /\ start \in DeviceOpen => handles = {"env", "device"}
  /\ start \in BothOpen => handles = {"env", "device", cont_name}
  /\ start = "exit: exit env" => handles = {"env"}

USE DEF Untouched, DeviceOpen, BothOpen, Calls, Made, cont_name

LEMMA InvInit == ContainerInit => CInv /\ HInv
BY DEF ContainerInit, Init, CInv, HInv

\* A deletion, whether it works or not.
LEMMA Deletion ==
  ASSUME CInv, NEW name, Delete(name)
  PROVE  /\ cont_name \notin containers' => store' = set_up_ssd
         /\ store = set_up_ssd => store' = set_up_ssd
         /\ store' \in {store, set_up_ssd}
<1>1. CASE /\ containers' = containers \ {name}
           /\ store' = IF name = cont_name THEN set_up_ssd ELSE store
  BY <1>1 DEF CInv
<1>2. CASE UNCHANGED <<containers, store>>
  BY <1>2 DEF CInv
<1>. QED BY <1>1, <1>2 DEF Delete

----------------------------------------------------------------------------
(* Each call preserves the invariant, and is a step of Ckvfs or none.      *)

Advances == CInv' /\ HInv' /\ [Next]_vars

LEMMA StepStart == CInv /\ HInv /\ Start => Advances
<1>. SUFFICES ASSUME CInv, HInv, Start PROVE Advances
  OBVIOUS
<1>0. /\ start = "down" /\ start' = "init env" /\ ~ mounted /\ handles' = {}
      /\ UNCHANGED <<store, mounted, reply, containers>>
  BY DEF Start, Then
<1>1. CInv'
  BY <1>0 DEF CInv
<1>2. HInv'
  BY <1>0 DEF CInv, HInv
<1>3. UNCHANGED vars
  BY <1>0 DEF vars
<1>. QED BY <1>1, <1>2, <1>3 DEF Advances

LEMMA StepInitEnv == CInv /\ HInv /\ InitEnv => Advances
<1>. SUFFICES ASSUME CInv, HInv, InitEnv PROVE Advances
  OBVIOUS
<1>0. /\ start = "init env" /\ start' = "open"
      /\ UNCHANGED <<store, mounted, reply, containers>>
      /\ handles' = {"env"} \/ handles' = handles
  BY DEF InitEnv, Then
<1>1. CInv'
  BY <1>0 DEF CInv
<1>2. HInv'
  BY <1>0 DEF CInv, HInv
<1>3. UNCHANGED vars
  BY <1>0 DEF vars
<1>. QED BY <1>1, <1>2, <1>3 DEF Advances

LEMMA StepOpenDevice == CInv /\ HInv /\ OpenDevice => Advances
<1>. SUFFICES ASSUME CInv, HInv, OpenDevice PROVE Advances
  OBVIOUS
<1>0. /\ start = "open" /\ start' \in {"list", "down"}
      /\ UNCHANGED <<store, mounted, reply, containers>>
  BY DEF OpenDevice, Then
<1>1. CInv'
  BY <1>0 DEF CInv
<1>2. HInv'
  BY DEF OpenDevice, Then, CInv, HInv
<1>3. UNCHANGED vars
  BY DEF OpenDevice, Then, vars
<1>. QED BY <1>1, <1>2, <1>3 DEF Advances

LEMMA StepList == CInv /\ HInv /\ ListContainers => Advances
<1>. SUFFICES ASSUME CInv, HInv, ListContainers PROVE Advances
  OBVIOUS
<1>0. /\ start = "list" /\ start' \in {"delete", "close device"}
      /\ UNCHANGED <<store, mounted, reply, containers>>
  BY DEF ListContainers, Then
<1>1. CInv'
  BY <1>0 DEF CInv
<1>2. HInv'
  BY DEF ListContainers, Then, CInv, HInv
<1>3. UNCHANGED vars
  BY DEF ListContainers, Then, vars
<1>. QED BY <1>1, <1>2, <1>3 DEF Advances

\* While the file system is down, the old content may be lost at any time.
LEMMA Emptied ==
  ASSUME ~ mounted, UNCHANGED <<mounted, reply>>, store' \in {store, set_up_ssd}
  PROVE  Next
BY DEF Next, hello_init

LEMMA StepDelete == CInv /\ HInv /\ DeleteContainers => Advances
<1>. SUFFICES ASSUME CInv, HInv, DeleteContainers PROVE Advances
  OBVIOUS
<1>1. ASSUME NEW name \in listed, Delete(name), Then("delete", "delete"), UNCHANGED handles
      PROVE  Advances
  <2>1. Next
    BY <1>1, Deletion, Emptied DEF Then, CInv
  <2>. QED BY <1>1, <2>1, Deletion DEF Then, CInv, HInv, Advances
<1>2. CASE Then("delete", "create") /\ UNCHANGED <<store, containers, handles>>
  BY <1>2 DEF Then, CInv, HInv, Advances, vars
<1>. QED BY <1>1, <1>2 DEF DeleteContainers

LEMMA StepCreateContainer == CInv /\ HInv /\ CreateContainer => Advances
<1>. SUFFICES ASSUME CInv, HInv, CreateContainer PROVE Advances
  OBVIOUS
<1>0. /\ start = "create" /\ start' \in {"open container", "close device"}
      /\ UNCHANGED <<store, mounted, reply, handles>>
      /\ containers' = containers \/ containers' = containers \cup {cont_name}
      /\ start' = "open container" =>
           cont_name \notin containers /\ containers' = containers \cup {cont_name}
  BY DEF CreateContainer, Then
<1>1. CInv'
  BY <1>0 DEF CInv
<1>2. HInv'
  BY <1>0 DEF CInv, HInv
<1>3. UNCHANGED vars
  BY <1>0 DEF vars
<1>. QED BY <1>1, <1>2, <1>3 DEF Advances

LEMMA StepOpenContainer == CInv /\ HInv /\ OpenContainer => Advances
<1>. SUFFICES ASSUME CInv, HInv, OpenContainer PROVE Advances
  OBVIOUS
<1>0. /\ start = "open container" /\ start' \in {"get info", "delete container"}
      /\ UNCHANGED <<store, mounted, reply, containers>>
  BY DEF OpenContainer, Then
<1>1. CInv'
  BY <1>0 DEF CInv
<1>2. HInv'
  BY DEF OpenContainer, Then, CInv, HInv
<1>3. UNCHANGED vars
  BY DEF OpenContainer, Then, vars
<1>. QED BY <1>1, <1>2, <1>3 DEF Advances

LEMMA StepGetInfo == CInv /\ HInv /\ GetInfo => Advances
<1>. SUFFICES ASSUME CInv, HInv, GetInfo PROVE Advances
  OBVIOUS
<1>0. /\ start = "get info" /\ start' \in {"write root", "exit: close container"}
      /\ UNCHANGED <<store, mounted, reply, containers>>
  BY DEF GetInfo, Then
<1>1. CInv'
  BY <1>0 DEF CInv
<1>2. HInv'
  BY DEF GetInfo, Then, CInv, HInv
<1>3. UNCHANGED vars
  BY DEF GetInfo, Then, vars
<1>. QED BY <1>1, <1>2, <1>3 DEF Advances

\* The root is stored in a container that has just been made.
LEMMA StepWriteRoot == CInv /\ HInv /\ WriteRoot => Advances
<1>. SUFFICES ASSUME CInv, HInv, WriteRoot PROVE Advances
  OBVIOUS
<1>1. hello_init
  BY DEF WriteRoot, CInv, hello_init
<1>. QED BY <1>1 DEF WriteRoot, CInv, HInv, Advances, Next

LEMMA StepCloseContainer == CInv /\ HInv /\ CloseContainer => Advances
<1>. SUFFICES ASSUME CInv, HInv, CloseContainer PROVE Advances
  OBVIOUS
<1>1. CInv'
  BY DEF CloseContainer, Then, CInv
<1>2. HInv'
  BY DEF CloseContainer, Then, CInv, HInv
<1>3. UNCHANGED vars
  BY DEF CloseContainer, Then, vars
<1>. QED BY <1>1, <1>2, <1>3 DEF Advances

LEMMA StepDeleteContainer == CInv /\ HInv /\ DeleteContainer => Advances
<1>. SUFFICES ASSUME CInv, HInv, DeleteContainer PROVE Advances
  OBVIOUS
<1>0. /\ \/ start = "delete container" /\ start' = "close device"
         \/ start = "exit: delete container" /\ start' = "exit: close device"
      /\ UNCHANGED <<mounted, reply, handles>> /\ ~ mounted
  BY DEF DeleteContainer, Then, CInv
<1>1. /\ cont_name \notin containers' => store' = set_up_ssd
      /\ store = set_up_ssd => store' = set_up_ssd
      /\ store' \in {store, set_up_ssd}
  BY Deletion DEF DeleteContainer
<1>2. Next
  BY <1>0, <1>1, Emptied
<1>3. CInv'
  BY <1>0, <1>1 DEF CInv
<1>4. HInv'
  BY <1>0 DEF HInv
<1>. QED BY <1>2, <1>3, <1>4 DEF Advances

LEMMA StepCloseDevice == CInv /\ HInv /\ CloseDevice => Advances
<1>. SUFFICES ASSUME CInv, HInv, CloseDevice PROVE Advances
  OBVIOUS
<1>0. /\ \/ start = "close device" /\ start' = "down"
         \/ start = "exit: close device" /\ start' = "exit: exit env"
      /\ UNCHANGED <<store, mounted, reply, containers>> /\ handles' = handles \ {"device"}
  BY DEF CloseDevice, Then
<1>1. CInv'
  BY <1>0 DEF CInv
<1>2. HInv'
  BY <1>0 DEF CInv, HInv
<1>3. UNCHANGED vars
  BY DEF CloseDevice, Then, vars
<1>. QED BY <1>1, <1>2, <1>3 DEF Advances

LEMMA StepExitEnv == CInv /\ HInv /\ ExitEnv => Advances
<1>. SUFFICES ASSUME CInv, HInv, ExitEnv PROVE Advances
  OBVIOUS
<1>1. CInv'
  BY DEF ExitEnv, Then, CInv
<1>2. HInv'
  BY DEF ExitEnv, Then, CInv, HInv
<1>3. UNCHANGED vars
  BY DEF ExitEnv, Then, vars
<1>. QED BY <1>1, <1>2, <1>3 DEF Advances

LEMMA StepKilled == CInv /\ HInv /\ KilledStarting => Advances
<1>. SUFFICES ASSUME CInv, HInv, KilledStarting PROVE Advances
  OBVIOUS
<1>1. CInv'
  BY DEF KilledStarting, CInv
<1>2. HInv'
  BY DEF KilledStarting, CInv, HInv
<1>3. UNCHANGED vars
  BY DEF KilledStarting, vars
<1>. QED BY <1>1, <1>2, <1>3 DEF Advances

\* A handler answers, or the process dies in it.
LEMMA NextMounted ==
  ASSUME Next, mounted \in BOOLEAN
  PROVE  mounted' \in BOOLEAN
<1>. USE DEF Return, Fail, Die
<1>1. hello_init \/ Exit => mounted' \in BOOLEAN
  BY DEF hello_init, Exit
<1>2. ASSUME NEW p \in Paths PROVE hello_getattr(p) => mounted' \in BOOLEAN
  BY DEF hello_getattr
<1>3. ASSUME NEW p \in Paths PROVE hello_readdir(p) => mounted' \in BOOLEAN
  BY DEF hello_readdir, ReadUninitialised
<1>4. ASSUME NEW p \in Paths PROVE hello_open(p) => mounted' \in BOOLEAN
  BY DEF hello_open
<1>5. ASSUME NEW p \in Paths PROVE hello_read(p) => mounted' \in BOOLEAN
  BY DEF hello_read
<1>6. ASSUME NEW p \in Paths, NEW buf \in Payloads
      PROVE  hello_write(p, buf) => mounted' \in BOOLEAN
  BY DEF hello_write
<1>7. ASSUME NEW p \in Paths PROVE hello_create(p) => mounted' \in BOOLEAN
  BY DEF hello_create, AddEntry
<1>8. ASSUME NEW p \in Paths PROVE hello_mkdir(p) => mounted' \in BOOLEAN
  BY DEF hello_mkdir, AddEntry
<1>9. ASSUME NEW p \in Paths
      PROVE  hello_unlink(p) \/ hello_rmdir(p) => mounted' \in BOOLEAN
  BY DEF hello_unlink, hello_rmdir, RemoveEntry
<1>. QED BY <1>1, <1>2, <1>3, <1>4, <1>5, <1>6, <1>7, <1>8, <1>9 DEF Next

\* A request is one of Ckvfs; it knows nothing of containers.
LEMMA StepServe == CInv /\ HInv /\ Serve => Advances
BY NextMounted DEF Serve, CInv, HInv, Advances

LEMMA Stutter == CInv /\ HInv /\ UNCHANGED containerVars => Advances
<1>. SUFFICES ASSUME CInv, HInv, UNCHANGED containerVars PROVE Advances
  OBVIOUS
<1>1. CInv'
  BY DEF containerVars, devVars, CInv
<1>2. HInv'
  BY DEF containerVars, devVars, CInv, HInv
<1>3. UNCHANGED vars
  BY DEF containerVars, devVars, vars
<1>. QED BY <1>1, <1>2, <1>3 DEF Advances

LEMMA StepContainer == CInv /\ HInv /\ [ContainerNext]_containerVars => Advances
BY StepStart, StepInitEnv, StepOpenDevice, StepList, StepDelete, StepCreateContainer, StepOpenContainer,
   StepGetInfo, StepWriteRoot, StepCloseContainer, StepDeleteContainer, StepCloseDevice,
   StepExitEnv, StepKilled, StepServe, Stutter
   DEF ContainerNext, ComingUp

LEMMA InvHolds == ContainerSpec => [](CInv /\ HInv)
<1>1. CInv /\ HInv /\ [ContainerNext]_containerVars => (CInv /\ HInv)'
  BY StepContainer DEF Advances
<1>. QED BY InvInit, <1>1, PTL DEF ContainerSpec

----------------------------------------------------------------------------
(* The theorems.                                                           *)

\* However many containers the device holds, whichever calls fail and wherever
\* the process is killed on its way up, requests are served from a container
\* that began empty: bringing it up in many calls is hello_init of Ckvfs.
THEOREM ContainerImplements == ContainerSpec => ImplementsCkvfs
<1>1. ContainerInit => Init
  BY DEF ContainerInit
<1>2. CInv /\ HInv /\ [ContainerNext]_containerVars => [Next]_vars
  BY StepContainer DEF Advances
<1>. QED BY <1>1, <1>2, InvHolds, PTL DEF ContainerSpec, ImplementsCkvfs, Spec

\* So what Ckvfs promises of the stored blobs holds on a device that is brought
\* up call by call.
THEOREM ContainerKeepsInvariant == ContainerSpec => []IInv
BY ContainerImplements, InductiveInvariant, PTL DEF ImplementsCkvfs

\* A start that ends by itself, at whichever call, has closed the device and the
\* container, and the environment as well when it ends in _env_exit.
THEOREM StartsExitClean == ContainerSpec => ExitsClean
<1>. DEFINE ends == start # "down" /\ start' = "down" /\ ~ mounted'
<1>1. HInv' /\ ends => handles' \subseteq {"env"}
  BY DEF HInv
<1>2. ASSUME HInv, [ContainerNext]_containerVars, ends, start = "exit: exit env"
      PROVE  handles' = {}
  <2>1. ExitEnv \/ KilledStarting
    BY <1>2 DEF ContainerNext, ComingUp, Start, InitEnv, OpenDevice, ListContainers,
         DeleteContainers, CreateContainer, OpenContainer, GetInfo, WriteRoot,
         CloseContainer, DeleteContainer, CloseDevice, Serve, Then, containerVars, devVars
  <2>. QED BY <1>2, <2>1 DEF ExitEnv, KilledStarting, HInv
<1>3. CInv /\ HInv /\ [ContainerNext]_containerVars =>
        [ends => /\ handles' \subseteq {"env"}
                 /\ start = "exit: exit env" => handles' = {}]_containerVars
  BY <1>1, <1>2, StepContainer DEF Advances
<1>. QED BY <1>3, InvHolds, PTL DEF ContainerSpec, ExitsClean
============================================================================
