---------------------------- MODULE RuntimeProofs ----------------------------
(***************************************************************************)
(* Proofs about Runtime, for any number of sandboxes, of requests in       *)
(* progress and of containers, and for every choice of failing calls and   *)
(* crashes.                                                                *)
(***************************************************************************)
EXTENDS Runtime, FiniteSetTheorems, TLAPS

-----------------------------------------------------------------------------
(* The inductive invariant: what Docker holds, and that a name is in use   *)
(* once at most.                                                           *)

DockerType ==
  /\ cname = [c \in CID |-> cname[c]]
  /\ cstate = [c \in CID |-> cstate[c]]

NamesUnique ==
  \A c, d \in CID : present(c) /\ present(d) /\ cname[c] = cname[d] => c = d

DockerInv == DockerType /\ NamesUnique

\* No container becomes present, and none changes its name.
OnlyRemoves ==
  /\ cname' = cname
  /\ DockerType'
  /\ \A c \in CID : present(c)' => present(c)

\* A step of that kind keeps the invariant.
LEMMA OnlyRemovesKeepsInv == DockerInv /\ OnlyRemoves => DockerInv'
  BY DEF DockerInv, DockerType, NamesUnique, OnlyRemoves

\* So does one that does not touch the containers.
LEMMA SameContainers ==
  DockerInv /\ cname' = cname /\ cstate' = cstate => DockerInv'
  BY DEF DockerInv, DockerType, NamesUnique, present

\* CreateContainer (container.go:74-194) creates one under a name not in use.
LEMMA CreateContainerKeepsInv ==
  ASSUME DockerInv, NEW t \in Thread, CreateContainer(t) PROVE DockerInv'
<1>1. CASE cname' = cname /\ cstate' = cstate
  BY <1>1, SameContainers
<1>2. ASSUME NEW c \in CID,
             ~nameInUse(name[t]), cstate[c] = "unused",
             cname' = [cname EXCEPT ![c] = name[t]],
             cstate' = [cstate EXCEPT ![c] = "created"]
      PROVE  DockerInv'
  <2>1. \A d \in CID : d # c => cname'[d] = cname[d] /\ cstate'[d] = cstate[d]
    BY <1>2 DEF DockerInv, DockerType
  <2>2. cname'[c] = name[t] /\ ~present(c)
    BY <1>2 DEF DockerInv, DockerType, present
  <2>3. \A d \in CID : present(d) => cname[d] # name[t]
    BY <1>2 DEF nameInUse, containersOf
  <2>4. \A d \in CID : d # c => (present(d)' <=> present(d))
    BY <2>1 DEF present
  <2>5. NamesUnique'
    BY <2>1, <2>2, <2>3, <2>4 DEF NamesUnique, DockerInv
  <2>6. DockerType'
    BY <1>2 DEF DockerInv, DockerType
  <2> QED BY <2>5, <2>6 DEF DockerInv
<1> QED BY <1>1, <1>2 DEF CreateContainer

\* Deleting, starting and stopping a container (container.go:197-274) bring none
\* into being.
LEMMA RemoveStartStop ==
  ASSUME DockerInv, NEW t \in Thread,
         DeleteRemove(t) \/ DeleteSidecar(t) \/ StartContainer(t) \/ StopContainer(t)
  PROVE  OnlyRemoves
<1>1. CASE DeleteRemove(t)
  BY <1>1 DEF DeleteRemove, OnlyRemoves, DockerInv, DockerType, present
<1>2. CASE StartContainer(t)
  BY <1>2 DEF StartContainer, OnlyRemoves, DockerInv, DockerType, present
<1>3. CASE StopContainer(t)
  BY <1>3 DEF StopContainer, OnlyRemoves, DockerInv, DockerType, present
<1>4. CASE DeleteSidecar(t)
  BY <1>4 DEF DeleteSidecar, OnlyRemoves, DockerInv, DockerType, present
<1> QED BY <1>1, <1>2, <1>3, <1>4

\* The other steps of the handlers (daemon.go:280-545) leave Docker's containers
\* alone.
LEMMA OtherSteps ==
  ASSUME NEW t \in Thread,
         \/ CreateInsert(t) \/ DeleteInspect(t) \/ StartCheck(t)
         \/ EnsureNetwork(t) \/ CreateNetwork(t) \/ PullImage(t)
         \/ StartRecord(t) \/ StartMark(t) \/ Reinsert(t) \/ StopMark(t) \/ ListApply(t)
         \/ Marshal(t) \/ Truncate(t) \/ Write(t) \/ SaveFails(t) \/ StopSaved(t) \/ Exit(t)
         \/ Request(t)
  PROVE  cname' = cname /\ cstate' = cstate
<1>1. CASE Request(t)
  BY <1>1 DEF Request, CreateRuntime, DeleteRuntime, StartRuntime, StopRuntime,
              ListRuntimes, Stop, docker
<1>2. CASE CreateInsert(t) \/ DeleteInspect(t) \/ StartCheck(t)
  BY <1>2 DEF CreateInsert, DeleteInspect, StartCheck, docker
<1>3. CASE StartRecord(t) \/ StartMark(t) \/ Reinsert(t) \/ StopMark(t) \/ ListApply(t)
  BY <1>3 DEF StartRecord, StartMark, Reinsert, StopMark, ListApply, docker
<1>4. CASE EnsureNetwork(t) \/ CreateNetwork(t) \/ PullImage(t)
  BY <1>4 DEF EnsureNetwork, CreateNetwork, PullImage, docker
<1>5. CASE Marshal(t) \/ Truncate(t) \/ Write(t) \/ SaveFails(t) \/ StopSaved(t) \/ Exit(t)
  BY <1>5 DEF Marshal, Truncate, Write, SaveFails, StopSaved, Exit, docker
<1> QED BY <1>1, <1>2, <1>3, <1>4, <1>5

\* Crashes, restarts and what happens in Docker without the daemon keep the
\* invariant.
LEMMA EnvironmentKeepsInv == DockerInv /\ Environment => DockerInv'
<1> SUFFICES ASSUME DockerInv, Environment PROVE DockerInv'
  OBVIOUS
<1>1. CASE Crash \/ ConcurrentMapAccess \/ Restart \/ \E n \in Name : SidecarStarts(n)
  <2>1. cname' = cname /\ cstate' = cstate
    BY <1>1 DEF Crash, ConcurrentMapAccess, Restart, SidecarStarts, docker
  <2> QED BY <2>1, SameContainers
<1>2. CASE \E c \in CID : ContainerExits(c)
  <2>1. OnlyRemoves
    BY <1>2 DEF ContainerExits, OnlyRemoves, DockerInv, DockerType, present
  <2> QED BY <2>1, OnlyRemovesKeepsInv
<1> QED BY <1>1, <1>2 DEF Environment

\* Every step keeps the invariant.
LEMMA NextKeepsInv == DockerInv /\ [Next]_vars => DockerInv'
<1> SUFFICES ASSUME DockerInv, [Next]_vars PROVE DockerInv'
  OBVIOUS
<1>1. CASE Environment
  BY <1>1, EnvironmentKeepsInv
<1>2. ASSUME NEW t \in Thread, Request(t) \/ Step(t) PROVE DockerInv'
  <2>1. CASE CreateContainer(t)
    BY <2>1, CreateContainerKeepsInv
  <2>2. CASE DeleteRemove(t) \/ DeleteSidecar(t) \/ StartContainer(t) \/ StopContainer(t)
    BY <2>2, RemoveStartStop, OnlyRemovesKeepsInv
  <2>3. CASE ~(CreateContainer(t) \/ DeleteRemove(t) \/ DeleteSidecar(t) \/ StartContainer(t)
               \/ StopContainer(t))
    <3>1. cname' = cname /\ cstate' = cstate
      BY <1>2, <2>3, OtherSteps DEF Step
    <3> QED BY <3>1, SameContainers
  <2> QED BY <2>1, <2>2, <2>3
<1>3. CASE UNCHANGED vars
  BY <1>3, SameContainers DEF vars, docker
<1> QED BY <1>1, <1>2, <1>3 DEF Next

\* Whatever requests, failures, crashes and restarts happen, Docker holds at most
\* one container under a sandbox's name (daemon.go:830-892, container.go:74-274).
THEOREM ContainerNamesUnique == Spec => []DockerInv
<1>1. Init => DockerInv
  BY DEF Init, DockerInv, DockerType, NamesUnique, present
<1> QED BY <1>1, NextKeepsInv, PTL DEF Spec

OneContainerPerSandbox == \A n \in Name : Cardinality(containersOf(n)) <= 1

\* A sandbox has at most one container, however its start requests race with each
\* other and with deletes, and whatever fails or crashes meanwhile: the Running check
\* (daemon.go:443) does not ensure it, the name given to Docker does
\* (container.go:83, 158).
THEOREM OneContainer == Spec => []OneContainerPerSandbox
<1>1. ASSUME DockerInv, NEW n \in Name PROVE Cardinality(containersOf(n)) <= 1
  <2>1. CASE containersOf(n) = {}
    BY <2>1, FS_EmptySet
  <2>2. CASE containersOf(n) # {}
    <3>1. PICK c : c \in containersOf(n)
      BY <2>2
    <3>2. containersOf(n) = {c}
      BY <1>1, <3>1 DEF containersOf, DockerInv, NamesUnique
    <3> QED BY <3>2, FS_Singleton
  <2> QED BY <2>1, <2>2
<1>2. DockerInv => OneContainerPerSandbox
  BY <1>1 DEF OneContainerPerSandbox
<1> QED BY <1>2, ContainerNamesUnique, PTL

-----------------------------------------------------------------------------
(* Types.                                                                  *)

Starting == {"check", "network", "mknetwork", "pull", "create", "start", "record", "mark"}
Saving == {"save", "truncate", "write"}

\* What the place where a request is says about its variables.
PlaceOK(t) ==
  /\ pc[t] = "idle" => op[t] = Nil
  /\ pc[t] = "insert" => op[t] = "create"
  /\ pc[t] \in {"inspect", "remove", "sidecar"} => op[t] = "delete"
  /\ pc[t] \in Starting => op[t] = "start"
  /\ pc[t] \in {"stop", "unmark"} => op[t] = "stop"
  /\ pc[t] = "reinsert" => op[t] \in {"start", "stop"}
  /\ pc[t] = "apply" => op[t] = "list" /\ mutex = t
  /\ pc[t] \in Saving => op[t] \in {"create", "delete", "start", "stop", "exit"}
  /\ pc[t] = "shutdown" => op[t] = "exit"
  /\ op[t] \in {"create", "delete", "start", "stop"} => name[t] \in Name
  /\ op[t] \in {"delete", "start", "stop"} => ptr[t] \in Gen
  /\ pc[t] \in {"remove", "start", "record"} => cid[t] \in CID

PlacesOK == \A t \in Thread : PlaceOK(t)

TypeInv == TypeOK /\ PlacesOK

\* The object that loadState makes is an object.
LEMMA FirstGen == firstGen \in Gen /\ firstGen # Nil /\ Nil \notin Gen
  BY GenAssumption DEF firstGen

\* A list without entries is a list.
LEMMA AbsentFacts ==
  /\ Absent \in Entry /\ Absent.ContainerID = Nil /\ Absent.present = FALSE
  /\ NoSandboxes \in Snapshot
  BY DEF Absent, Entry, Ref, NoSandboxes, Snapshot

\* What is marshalled is a list of entries, one for each sandbox of the map.
LEMMA Marshalled ==
  ASSUME TypeOK
  PROVE  /\ marshalled \in Snapshot
         /\ \A n \in Name : /\ marshalled[n].present <=> sandboxes[n] # Nil
                            /\ marshalled[n].ContainerID =
                                 IF sandboxes[n] = Nil THEN Nil ELSE ContainerID[n][sandboxes[n]]
<1>1. ASSUME NEW n \in Name
      PROVE  /\ marshalled[n] \in Entry
             /\ marshalled[n].present <=> sandboxes[n] # Nil
             /\ marshalled[n].ContainerID =
                  IF sandboxes[n] = Nil THEN Nil ELSE ContainerID[n][sandboxes[n]]
  <2>1. CASE sandboxes[n] = Nil
    BY <2>1, AbsentFacts DEF marshalled
  <2>2. CASE sandboxes[n] # Nil
    <3>1. ContainerID[n][sandboxes[n]] \in Ref /\ Running[n][sandboxes[n]] \in BOOLEAN
      BY <2>2 DEF TypeOK, Pointer
    <3>2. marshalled[n] = [ContainerID |-> ContainerID[n][sandboxes[n]],
                           Running |-> Running[n][sandboxes[n]], present |-> TRUE]
      BY <2>2 DEF marshalled
    <3> QED BY <2>2, <3>1, <3>2 DEF Entry
  <2> QED BY <2>1, <2>2
<1>2. marshalled = [n \in Name |-> marshalled[n]]
  BY DEF marshalled
<1> QED BY <1>1, <1>2 DEF Snapshot

\* A request that ends leaves nothing behind in its variables.
LEMMA FinishTypes ==
  ASSUME TypeInv, NEW t \in Thread, finish(t), mutex' \in {mutex, Nil}, mutex = mutex' \/ mutex = t
  PROVE  /\ pc' \in [Thread -> Label]
         /\ op' \in [Thread -> {Nil, "create", "delete", "start", "stop", "list", "exit"}]
         /\ name' \in [Thread -> Name \cup {Nil}]
         /\ ptr' \in [Thread -> Pointer]
         /\ cid' \in [Thread -> Ref]
         /\ snap' \in [Thread -> Snapshot]
         /\ PlacesOK'
<1> USE AbsentFacts DEF TypeInv, TypeOK, finish, goto
<1>1. /\ pc' \in [Thread -> Label]
      /\ op' \in [Thread -> {Nil, "create", "delete", "start", "stop", "list", "exit"}]
      /\ name' \in [Thread -> Name \cup {Nil}]
      /\ ptr' \in [Thread -> Pointer]
      /\ cid' \in [Thread -> Ref]
  BY DEF Label, Pointer, Ref
<1>2. snap' \in [Thread -> Snapshot]
  OBVIOUS
<1>3. PlaceOK(t)'
  BY DEF PlaceOK, Nil, Starting, Saving
<1>4. ASSUME NEW u \in Thread, u # t PROVE PlaceOK(u)'
  BY <1>4 DEF PlacesOK, PlaceOK
<1> QED BY <1>1, <1>2, <1>3, <1>4 DEF PlacesOK

\* So does one that goes on to another step, if that fits.
LEMMA GotoTypes ==
  ASSUME TypeInv, NEW t \in Thread, NEW l \in Label, goto(t, l), mutex' = mutex,
         UNCHANGED <<op, name, ptr>>, \A u \in Thread \ {t} : cid'[u] = cid[u], PlaceOK(t)'
  PROVE  pc' \in [Thread -> Label] /\ PlacesOK'
<1>1. ASSUME NEW u \in Thread, u # t PROVE PlaceOK(u)'
  BY <1>1 DEF TypeInv, TypeOK, PlacesOK, PlaceOK, goto
<1> QED BY <1>1 DEF TypeInv, TypeOK, PlacesOK, goto

\* And one that begins.
LEMMA BeginTypes ==
  ASSUME TypeInv, NEW t \in Thread, NEW o, NEW n, NEW p, NEW l, begin(t, o, n, p, l),
         \/ mutex' = mutex \/ mutex = Nil,
         \/ o = "create" /\ n \in Name /\ p = Nil /\ l = "insert"
         \/ o = "delete" /\ n \in Name /\ p \in Gen /\ l = "inspect"
         \/ o = "start" /\ n \in Name /\ p \in Gen /\ l = "check"
         \/ o = "stop" /\ n \in Name /\ p \in Gen /\ l = "stop"
         \/ o = "list" /\ n = Nil /\ p = Nil /\ l = "apply" /\ mutex' = t
         \/ o = "exit" /\ n = Nil /\ p = Nil /\ l = "save"
  PROVE  /\ pc' \in [Thread -> Label]
         /\ op' \in [Thread -> {Nil, "create", "delete", "start", "stop", "list", "exit"}]
         /\ name' \in [Thread -> Name \cup {Nil}]
         /\ ptr' \in [Thread -> Pointer]
         /\ PlacesOK'
<1> USE DEF TypeInv, TypeOK, begin, goto
<1>1. /\ pc' \in [Thread -> Label]
      /\ op' \in [Thread -> {Nil, "create", "delete", "start", "stop", "list", "exit"}]
      /\ name' \in [Thread -> Name \cup {Nil}]
      /\ ptr' \in [Thread -> Pointer]
  BY DEF Label, Pointer
<1>2. PlaceOK(t)'
  BY DEF PlaceOK, Starting, Saving
<1>3. ASSUME NEW u \in Thread, u # t PROVE PlaceOK(u)'
  BY <1>3, ThreadAssumption DEF PlacesOK, PlaceOK
<1> QED BY <1>1, <1>2, <1>3 DEF PlacesOK

\* The process dies: only the history is left, and no request.
LEMMA DieTypes ==
  ASSUME TypeInv, die, UNCHANGED docker, UNCHANGED answered,
         file' \in {"absent", "empty", "garbled", "complete"}, disk' \in Snapshot
  PROVE  TypeInv'
<1> USE AbsentFacts DEF TypeInv, TypeOK, die, docker
<1>1. doubt' \subseteq Name
  BY DEF PlacesOK, PlaceOK
<1>2. pc' \in [Thread -> Label] /\ PlacesOK'
  BY DEF PlacesOK, PlaceOK, Label, Nil, Starting, Saving
<1>3. /\ sandboxes' \in [Name -> Pointer]
      /\ ContainerID' \in [Name -> [Gen -> Ref]]
      /\ Running' \in [Name -> [Gen -> BOOLEAN]]
      /\ op' \in [Thread -> {Nil, "create", "delete", "start", "stop", "list", "exit"}]
      /\ name' \in [Thread -> Name \cup {Nil}]
      /\ ptr' \in [Thread -> Pointer]
      /\ cid' \in [Thread -> Ref]
      /\ snap' \in [Thread -> Snapshot]
      /\ seen' \in [Name -> {"skip", "error", "running", "stopped"}]
  BY DEF Pointer, Ref
<1> QED BY <1>1, <1>2, <1>3

\* What a write leaves in the file is a list.
LEMMA WriteTypes ==
  ASSUME TypeInv, NEW t \in Thread, writeFile(t)
  PROVE  file' \in {"absent", "empty", "garbled", "complete"} /\ disk' \in Snapshot
  BY AbsentFacts DEF TypeInv, TypeOK, writeFile

\* An answer is recorded for a sandbox.
LEMMA AcknowledgedTypes ==
  ASSUME TypeInv, NEW t \in Thread
  PROVE  acknowledged(t) \in [Name -> {Nil, "created", "deleted"}]
<1>1. answered \in [Name -> {Nil, "created", "deleted"}]
  BY DEF TypeInv, TypeOK
<1>2. CASE op[t] = "create"
  BY <1>1, <1>2 DEF acknowledged
<1>3. CASE op[t] = "delete"
  BY <1>1, <1>3 DEF acknowledged
<1>4. CASE op[t] \notin {"create", "delete"}
  BY <1>1, <1>4 DEF acknowledged
<1> QED BY <1>2, <1>3, <1>4

\* A request that arrives keeps the types.
LEMMA RequestTypes == ASSUME TypeInv, NEW t \in Thread, Request(t) PROVE TypeInv'
<1> USE DEF memory, storage, docker, locals, history
<1>1. ASSUME NEW n \in Name, CreateRuntime(t, n) PROVE TypeInv'
  BY <1>1, BeginTypes DEF CreateRuntime, TypeInv, TypeOK, begin
<1>2. ASSUME NEW n \in Name, sandboxes[n] # Nil PROVE sandboxes[n] \in Gen
  BY <1>2 DEF TypeInv, TypeOK, Pointer
<1>3. ASSUME NEW n \in Name, DeleteRuntime(t, n) PROVE TypeInv'
  <2>1. sandboxes' \in [Name -> Pointer] /\ answered' \in [Name -> {Nil, "created", "deleted"}]
    BY <1>3 DEF DeleteRuntime, TypeInv, TypeOK, Pointer
  <2> QED BY <1>2, <1>3, <2>1, BeginTypes DEF DeleteRuntime, TypeInv, TypeOK, begin
<1>4. ASSUME NEW n \in Name, StartRuntime(t, n) \/ StopRuntime(t, n) PROVE TypeInv'
  BY <1>2, <1>4, BeginTypes DEF StartRuntime, StopRuntime, TypeInv, TypeOK, begin
<1>5. CASE ListRuntimes(t)
  <2>1. seen' \in [Name -> {"skip", "error", "running", "stopped"}]
    <3>1. \A F : inspected(F) \in [Name -> {"skip", "error", "running", "stopped"}]
      BY DEF inspected
    <3> QED BY <1>5, <3>1 DEF ListRuntimes
  <2> QED BY <1>5, <2>1, BeginTypes DEF ListRuntimes, unlocked, TypeInv, TypeOK, begin
<1>6. CASE Stop(t)
  BY <1>6, BeginTypes DEF Stop, TypeInv, TypeOK, begin
<1> QED BY <1>1, <1>3, <1>4, <1>5, <1>6 DEF Request

\* So do crashes, restarts and what happens in Docker.
LEMMA EnvironmentTypes == TypeInv /\ Environment => TypeInv'
<1> SUFFICES ASSUME TypeInv, Environment PROVE TypeInv'
  OBVIOUS
<1> USE DEF memory, storage, locals, history
<1>1. CASE Crash \/ ConcurrentMapAccess
  BY <1>1, DieTypes DEF Crash, ConcurrentMapAccess, TypeInv, TypeOK
<1>2. CASE Restart
  <2>1. \A n \in Name : disk[n].ContainerID \in Ref /\ disk[n].Running \in BOOLEAN
    BY DEF TypeInv, TypeOK, Snapshot, Entry
  <2>2. /\ sandboxes' \in [Name -> Pointer]
        /\ ContainerID' \in [Name -> [Gen -> Ref]]
        /\ Running' \in [Name -> [Gen -> BOOLEAN]]
    BY <1>2, <2>1, FirstGen DEF Restart, TypeInv, TypeOK, Pointer
  <2>3. PlacesOK'
    BY <1>2 DEF Restart, TypeInv, PlacesOK, PlaceOK
  <2> QED BY <1>2, <2>2, <2>3 DEF Restart, docker, TypeInv, TypeOK
<1>3. ASSUME NEW c \in CID, ContainerExits(c) PROVE TypeInv'
  BY <1>3 DEF ContainerExits, TypeInv, TypeOK, PlacesOK, PlaceOK
<1>4. ASSUME NEW n \in Name, SidecarStarts(n) PROVE TypeInv'
  BY <1>4 DEF SidecarStarts, TypeInv, TypeOK, PlacesOK, PlaceOK
<1> QED BY <1>1, <1>2, <1>3, <1>4 DEF Environment

\* So do the steps of handleCreateRuntime and handleDeleteRuntime,
LEMMA CreateDeleteTypes ==
  ASSUME TypeInv, NEW t \in Thread,
         CreateInsert(t) \/ DeleteInspect(t) \/ DeleteRemove(t) \/ DeleteSidecar(t)
  PROVE  TypeInv'
<1> USE DEF memory, storage, docker, locals, history
<1>1. PlaceOK(t)
  BY DEF TypeInv, PlacesOK
<1>2. CASE CreateInsert(t)
  <2> DEFINE g == CHOOSE g \in unreferenced(name[t]) : TRUE
  <2>1. g \in Gen
    BY <1>2 DEF CreateInsert, unreferenced
  <2>2. /\ sandboxes' = [sandboxes EXCEPT ![name[t]] = g]
        /\ ContainerID' = [ContainerID EXCEPT ![name[t]][g] = Nil]
        /\ Running' = [Running EXCEPT ![name[t]][g] = FALSE]
        /\ answered' = [answered EXCEPT ![name[t]] = Nil]
    BY <1>2 DEF CreateInsert
  <2> HIDE DEF g
  <2>3. /\ sandboxes' \in [Name -> Pointer] /\ answered' \in [Name -> {Nil, "created", "deleted"}]
    BY <2>1, <2>2 DEF TypeInv, TypeOK, Pointer
  <2>4. ContainerID' \in [Name -> [Gen -> Ref]]
    BY <2>1, <2>2 DEF TypeInv, TypeOK, Ref
  <2>5. Running' \in [Name -> [Gen -> BOOLEAN]]
    BY <2>1, <2>2 DEF TypeInv, TypeOK
  <2>6. PlaceOK(t)'
    BY <1>1, <1>2 DEF CreateInsert, at, goto, PlaceOK, Starting, Saving, TypeInv, TypeOK
  <2>7. pc' \in [Thread -> Label] /\ PlacesOK'
    BY <1>2, <2>6, GotoTypes DEF CreateInsert, Label
  <2> QED BY <1>2, <2>3, <2>4, <2>5, <2>7 DEF CreateInsert, TypeInv, TypeOK
<1>3. CASE DeleteInspect(t)
  <2>1. /\ cid' \in [Thread -> Ref] /\ \A u \in Thread \ {t} : cid'[u] = cid[u]
        /\ \/ goto(t, "remove") /\ cid'[t] \in CID
           \/ goto(t, "sidecar")
    <3>1. ContainerID[name[t]][ptr[t]] \in Ref
      BY <1>1, <1>3 DEF DeleteInspect, at, PlaceOK, TypeInv, TypeOK
    <3>2. \/ goto(t, "sidecar") /\ cid' = cid
          \/ \E c \in CID : goto(t, "remove") /\ cid' = [cid EXCEPT ![t] = c]
      BY <1>3, <3>1 DEF DeleteInspect, containersOf, Ref
    <3> QED BY <3>2 DEF TypeInv, TypeOK, Ref
  <2>2. sidecars' \subseteq Name /\ doubt' \subseteq Name
    BY <1>1, <1>3 DEF DeleteInspect, inDoubt, TypeInv, TypeOK, PlaceOK, at
  <2>3. PlaceOK(t)'
    BY <1>1, <1>3, <2>1 DEF DeleteInspect, at, goto, PlaceOK, Starting, Saving, TypeInv, TypeOK
  <2>4. pc' \in [Thread -> Label] /\ PlacesOK'
    BY <1>3, <2>1, <2>3, GotoTypes DEF DeleteInspect, Label
  <2> QED BY <1>3, <2>1, <2>2, <2>4 DEF DeleteInspect, TypeInv, TypeOK
<1>4. CASE DeleteRemove(t)
  <2>1. cstate' \in [CID -> {"unused", "created", "running", "exited", "removed"}]
        /\ doubt' \subseteq Name
    BY <1>1, <1>4 DEF DeleteRemove, inDoubt, TypeInv, TypeOK, PlaceOK, at
  <2>2. PlaceOK(t)'
    BY <1>1, <1>4 DEF DeleteRemove, at, goto, PlaceOK, Starting, Saving, TypeInv, TypeOK
  <2>3. pc' \in [Thread -> Label] /\ PlacesOK'
    BY <1>4, <2>2, GotoTypes DEF DeleteRemove, Label
  <2> QED BY <1>4, <2>1, <2>3 DEF DeleteRemove, TypeInv, TypeOK
<1>5. CASE DeleteSidecar(t)
  <2>1. sidecars' \subseteq Name /\ doubt' \subseteq Name
    BY <1>1, <1>5 DEF DeleteSidecar, namesakes, inDoubt, TypeInv, TypeOK, PlaceOK, at
  <2>2. cstate' \in [CID -> {"unused", "created", "running", "exited", "removed"}]
    BY <1>5 DEF DeleteSidecar, TypeInv, TypeOK
  <2>3. PlaceOK(t)'
    BY <1>1, <1>5 DEF DeleteSidecar, at, goto, PlaceOK, Starting, Saving, TypeInv, TypeOK
  <2>4. pc' \in [Thread -> Label] /\ PlacesOK'
    BY <1>5, <2>3, GotoTypes DEF DeleteSidecar, Label
  <2> QED BY <1>5, <2>1, <2>4, <2>2 DEF DeleteSidecar, TypeInv, TypeOK
<1> QED BY <1>2, <1>3, <1>4, <1>5

\* those of handleStartRuntime,
LEMMA StartTypes ==
  ASSUME TypeInv, NEW t \in Thread,
         \/ StartCheck(t) \/ EnsureNetwork(t) \/ CreateNetwork(t) \/ PullImage(t)
         \/ CreateContainer(t) \/ StartContainer(t) \/ StartRecord(t) \/ StartMark(t) \/ Reinsert(t)
  PROVE  TypeInv'
<1> USE DEF memory, storage, docker, locals, history
<1>1. PlaceOK(t)
  BY DEF TypeInv, PlacesOK
<1>2. CASE StartCheck(t) \/ EnsureNetwork(t) \/ CreateNetwork(t) \/ PullImage(t)
  <2>1. /\ UNCHANGED <<up, mutex, memory, storage, cname, cstate, sidecars, seen, history>>
        /\ network' \in BOOLEAN
    BY <1>2 DEF StartCheck, EnsureNetwork, CreateNetwork, PullImage, TypeInv, TypeOK
  <2>2. CASE finish(t)
    BY <2>1, <2>2, FinishTypes DEF TypeInv, TypeOK
  <2>3. CASE ~finish(t)
    <3>1. PICK l \in {"network", "pull", "mknetwork", "create"} : goto(t, l) /\ UNCHANGED locals
      BY <1>2, <2>3 DEF StartCheck, EnsureNetwork, CreateNetwork, PullImage
    <3>2. pc[t] \in Starting
      BY <1>2 DEF StartCheck, EnsureNetwork, CreateNetwork, PullImage, at, Starting
    <3>3. PlaceOK(t)'
      BY <1>1, <2>1, <3>1, <3>2 DEF goto, PlaceOK, Starting, Saving, TypeInv, TypeOK
    <3>4. pc' \in [Thread -> Label] /\ PlacesOK'
      BY <2>1, <3>1, <3>3, GotoTypes DEF Label
    <3> QED BY <2>1, <3>1, <3>4 DEF TypeInv, TypeOK
  <2> QED BY <2>2, <2>3
<1>3. CASE CreateContainer(t)
  <2>1. /\ cname' \in [CID -> Name \cup {Nil}]
        /\ cstate' \in [CID -> {"unused", "created", "running", "exited", "removed"}]
    BY <1>1, <1>3 DEF CreateContainer, at, PlaceOK, Starting, TypeInv, TypeOK
  <2>2. CASE finish(t)
    BY <1>3, <2>1, <2>2, FinishTypes DEF CreateContainer, TypeInv, TypeOK
  <2>3. CASE ~finish(t)
    <3>1. PICK c \in CID : /\ cid' = [cid EXCEPT ![t] = c] /\ goto(t, "start")
                           /\ UNCHANGED <<op, name, ptr, snap>>
      BY <1>3, <2>3 DEF CreateContainer
    <3>2. cid' \in [Thread -> Ref] /\ cid'[t] \in CID /\ \A u \in Thread \ {t} : cid'[u] = cid[u]
      BY <3>1 DEF TypeInv, TypeOK, Ref
    <3>3. PlaceOK(t)'
      BY <1>1, <1>3, <3>1, <3>2
      DEF CreateContainer, at, goto, PlaceOK, Starting, Saving, TypeInv, TypeOK
    <3>4. pc' \in [Thread -> Label] /\ PlacesOK'
      BY <1>3, <3>1, <3>2, <3>3, GotoTypes DEF CreateContainer, Label
    <3> QED BY <1>3, <2>1, <3>1, <3>2, <3>4 DEF CreateContainer, TypeInv, TypeOK
  <2> QED BY <2>2, <2>3
<1>4. CASE StartContainer(t)
  <2>1. cstate' \in [CID -> {"unused", "created", "running", "exited", "removed"}]
    BY <1>1, <1>4 DEF StartContainer, at, PlaceOK, TypeInv, TypeOK
  <2>2. CASE finish(t)
    BY <1>4, <2>1, <2>2, FinishTypes DEF StartContainer, TypeInv, TypeOK
  <2>3. CASE ~finish(t)
    <3>1. goto(t, "record") /\ UNCHANGED locals
      BY <1>4, <2>3 DEF StartContainer
    <3>2. PlaceOK(t)'
      BY <1>1, <1>4, <3>1 DEF StartContainer, at, goto, PlaceOK, Starting, Saving, TypeInv, TypeOK
    <3>3. pc' \in [Thread -> Label] /\ PlacesOK'
      BY <1>4, <3>1, <3>2, GotoTypes DEF StartContainer, Label
    <3> QED BY <1>4, <2>1, <3>1, <3>3 DEF StartContainer, TypeInv, TypeOK
  <2> QED BY <2>2, <2>3
<1>5. CASE StartRecord(t)
  <2>1. ContainerID' \in [Name -> [Gen -> Ref]]
    BY <1>1, <1>5 DEF StartRecord, at, PlaceOK, Starting, TypeInv, TypeOK
  <2>2. PlaceOK(t)'
    BY <1>1, <1>5 DEF StartRecord, at, goto, PlaceOK, Starting, Saving, TypeInv, TypeOK
  <2>3. pc' \in [Thread -> Label] /\ PlacesOK'
    BY <1>5, <2>2, GotoTypes DEF StartRecord, Label
  <2> QED BY <1>5, <2>1, <2>3 DEF StartRecord, TypeInv, TypeOK
<1>6. CASE StartMark(t)
  <2>1. Running' \in [Name -> [Gen -> BOOLEAN]]
    BY <1>1, <1>6 DEF StartMark, at, PlaceOK, Starting, TypeInv, TypeOK
  <2>2. PlaceOK(t)'
    BY <1>1, <1>6 DEF StartMark, at, goto, PlaceOK, Starting, Saving, TypeInv, TypeOK
  <2>3. pc' \in [Thread -> Label] /\ PlacesOK'
    BY <1>6, <2>2, GotoTypes DEF StartMark, Label
  <2> QED BY <1>6, <2>1, <2>3 DEF StartMark, TypeInv, TypeOK
<1>7. CASE Reinsert(t)
  <2>1. sandboxes' \in [Name -> Pointer]
    BY <1>7 DEF Reinsert, TypeInv, TypeOK
  <2>2. PlaceOK(t)'
    BY <1>1, <1>7 DEF Reinsert, at, goto, PlaceOK, Starting, Saving, TypeInv, TypeOK
  <2>3. pc' \in [Thread -> Label] /\ PlacesOK'
    BY <1>7, <2>2, GotoTypes DEF Reinsert, Label
  <2> QED BY <1>7, <2>1, <2>3 DEF Reinsert, TypeInv, TypeOK
<1> QED BY <1>2, <1>3, <1>4, <1>5, <1>6, <1>7

\* and those of stop, list and saveState.
LEMMA StopListSaveTypes ==
  ASSUME TypeInv, NEW t \in Thread,
         \/ StopContainer(t) \/ StopMark(t) \/ ListApply(t)
         \/ Marshal(t) \/ Truncate(t) \/ Write(t) \/ SaveFails(t) \/ StopSaved(t) \/ Exit(t)
  PROVE  TypeInv'
<1> USE DEF memory, storage, docker, locals, history
<1>1. PlaceOK(t)
  BY DEF TypeInv, PlacesOK
<1>2. CASE StopContainer(t)
  <2>1. cstate' \in [CID -> {"unused", "created", "running", "exited", "removed"}]
    BY <1>2 DEF StopContainer, TypeInv, TypeOK
  <2>2. PlaceOK(t)'
    BY <1>1, <1>2 DEF StopContainer, at, goto, PlaceOK, Starting, Saving, TypeInv, TypeOK
  <2>3. pc' \in [Thread -> Label] /\ PlacesOK'
    BY <1>2, <2>2, GotoTypes DEF StopContainer, Label
  <2> QED BY <1>2, <2>1, <2>3 DEF StopContainer, TypeInv, TypeOK
<1>3. CASE StopMark(t)
  <2>1. Running' \in [Name -> [Gen -> BOOLEAN]]
    BY <1>1, <1>3 DEF StopMark, at, PlaceOK, TypeInv, TypeOK
  <2>2. PlaceOK(t)'
    BY <1>1, <1>3 DEF StopMark, at, goto, PlaceOK, Starting, Saving, TypeInv, TypeOK
  <2>3. pc' \in [Thread -> Label] /\ PlacesOK'
    BY <1>3, <2>2, GotoTypes DEF StopMark, Label
  <2> QED BY <1>3, <2>1, <2>3 DEF StopMark, TypeInv, TypeOK
<1>4. CASE ListApply(t)
  <2>1. ContainerID' \in [Name -> [Gen -> Ref]]
    BY <1>4 DEF ListApply, learnt, update, TypeInv, TypeOK, Ref
  <2>2. Running' \in [Name -> [Gen -> BOOLEAN]]
    BY <1>4 DEF ListApply, learnt, update, TypeInv, TypeOK
  <2>3. mutex = t
    BY <1>1, <1>4 DEF ListApply, at, PlaceOK
  <2>4. finish(t) /\ mutex' \in {mutex, Nil} /\ mutex' \in Thread \cup {Nil}
        /\ seen' \in [Name -> {"skip", "error", "running", "stopped"}]
    BY <1>4 DEF ListApply
  <2> QED BY <1>4, <2>1, <2>2, <2>3, <2>4, FinishTypes DEF ListApply, TypeInv, TypeOK
<1>5. CASE Marshal(t)
  <2>1. snap' \in [Thread -> Snapshot]
    BY <1>5, Marshalled DEF Marshal, TypeInv, TypeOK
  <2>2. PlaceOK(t)'
    BY <1>1, <1>5 DEF Marshal, at, goto, PlaceOK, Starting, Saving, TypeInv, TypeOK
  <2>3. pc' \in [Thread -> Label] /\ PlacesOK'
    BY <1>5, <2>2, GotoTypes DEF Marshal, Label
  <2> QED BY <1>5, <2>1, <2>3 DEF Marshal, TypeInv, TypeOK
<1>6. CASE Truncate(t)
  <2>1. PlaceOK(t)'
    BY <1>1, <1>6 DEF Truncate, at, goto, PlaceOK, Starting, Saving, TypeInv, TypeOK
  <2>2. pc' \in [Thread -> Label] /\ PlacesOK'
    BY <1>6, <2>1, GotoTypes DEF Truncate, Label
  <2> QED BY <1>6, <2>2, AbsentFacts DEF Truncate, TypeInv, TypeOK
<1>7. CASE Write(t)
  BY <1>7, WriteTypes, AcknowledgedTypes, FinishTypes DEF Write, TypeInv, TypeOK
<1>8. CASE SaveFails(t)
  BY <1>8, AcknowledgedTypes, FinishTypes DEF SaveFails, saveFails, TypeInv, TypeOK
<1>9. CASE StopSaved(t)
  <2>1. file' \in {"absent", "empty", "garbled", "complete"} /\ disk' \in Snapshot
    BY <1>9, WriteTypes DEF StopSaved, saveFails, TypeInv, TypeOK
  <2>2. PlaceOK(t)'
    BY <1>1, <1>9 DEF StopSaved, goto, PlaceOK, Starting, Saving, TypeInv, TypeOK
  <2>3. pc' \in [Thread -> Label] /\ PlacesOK'
    BY <1>9, <2>2, GotoTypes DEF StopSaved, Label
  <2> QED BY <1>9, <2>1, <2>3 DEF StopSaved, TypeInv, TypeOK
<1>10. CASE Exit(t)
  BY <1>10, DieTypes DEF Exit, TypeInv, TypeOK
<1> QED BY <1>2, <1>3, <1>4, <1>5, <1>6, <1>7, <1>8, <1>10, <1>9

\* Every step keeps the types.
LEMMA TypeStep == TypeInv /\ [Next]_vars => TypeInv'
<1> SUFFICES ASSUME TypeInv, [Next]_vars PROVE TypeInv'
  OBVIOUS
<1>1. CASE UNCHANGED vars
  BY <1>1 DEF vars, memory, storage, docker, locals, history, TypeInv, TypeOK, PlacesOK, PlaceOK
<1>2. CASE Environment
  BY <1>2, EnvironmentTypes
<1>3. ASSUME NEW t \in Thread, Request(t) \/ Step(t) PROVE TypeInv'
  BY <1>3, RequestTypes, CreateDeleteTypes, StartTypes, StopListSaveTypes DEF Step
<1> QED BY <1>1, <1>2, <1>3 DEF Next

\* They hold at the start.
LEMMA TypeInit == Init => TypeInv
<1> SUFFICES ASSUME Init PROVE TypeInv
  OBVIOUS
<1> USE DEF Init
<1>1. /\ sandboxes \in [Name -> Pointer]
      /\ ContainerID \in [Name -> [Gen -> Ref]]
      /\ Running \in [Name -> [Gen -> BOOLEAN]]
  BY DEF Pointer, Ref
<1>2. /\ cname \in [CID -> Name \cup {Nil}]
      /\ cstate \in [CID -> {"unused", "created", "running", "exited", "removed"}]
      /\ seen \in [Name -> {"skip", "error", "running", "stopped"}]
      /\ answered \in [Name -> {Nil, "created", "deleted"}]
  OBVIOUS
<1>3. /\ pc \in [Thread -> Label]
      /\ op \in [Thread -> {Nil, "create", "delete", "start", "stop", "list", "exit"}]
      /\ name \in [Thread -> Name \cup {Nil}]
      /\ ptr \in [Thread -> Pointer]
      /\ cid \in [Thread -> Ref]
      /\ snap \in [Thread -> Snapshot]
  BY AbsentFacts DEF Label, Pointer, Ref
<1>4. PlacesOK
  BY DEF PlacesOK, PlaceOK, Nil, Starting, Saving
<1> QED BY <1>1, <1>2, <1>3, <1>4, AbsentFacts DEF TypeInv, TypeOK

\* Every variable keeps its type however many requests run at once and whatever
\* fails; a request that goes on has the sandbox, object and container it needs, and
\* only list holds the lock across steps (daemon.go:280-545).
THEOREM RuntimeTypeCorrect == Spec => []TypeOK
<1>1. TypeInv => TypeOK
  BY DEF TypeInv
<1> QED BY <1>1, TypeInit, TypeStep, PTL DEF Spec

-----------------------------------------------------------------------------
(* One request at a time, and a state file that is written whole.          *)

Sequential == /\ \A t, u \in Thread : t = u
              /\ Faults \cap {"torn", "save"} = {}

\* The map is as in the file.
Clean == \A t \in Thread : pc[t] \notin {"inspect", "remove", "sidecar"} \cup Saving

\* The file is not being written.
Unhurt == \A t \in Thread : pc[t] # "write"

\* Where the file and what is about to be written to it come from.
FileInv ==
  /\ up /\ Clean => \A n \in Name : disk[n].present <=> sandboxes[n] # Nil
  /\ ~up => \A t \in Thread : pc[t] = "idle"
  /\ \A t \in Thread : pc[t] = "write" => file = "empty"
  /\ \A t \in Thread : pc[t] \in {"truncate", "write"} =>
       \A n \in Name : snap[t][n].present <=> sandboxes[n] # Nil
  /\ \A t \in Thread : pc[t] \in Starting \cup {"stop", "unmark", "reinsert"} =>
       sandboxes[name[t]] = ptr[t]

\* What FileInv is about.
fileVars == <<up, sandboxes, file, disk, pc, snap, name, ptr>>

\* A step that changes none of these variables.
LEMMA FileSame == FileInv /\ UNCHANGED fileVars => FileInv'
  BY DEF FileInv, fileVars, Clean

\* The file survives the process.
LEMMA FileDie == die => FileInv'
  BY DEF die, FileInv, Starting

\* The file and the map agree again after a crash and restart.
LEMMA FileEnvironment == Sequential /\ TypeInv /\ FileInv /\ Environment => FileInv'
<1> SUFFICES ASSUME Sequential, TypeInv, FileInv, Environment PROVE FileInv'
  OBVIOUS
<1>1. CASE Crash \/ ConcurrentMapAccess
  BY <1>1, FileDie DEF Crash, ConcurrentMapAccess
<1>2. CASE Restart
  BY <1>2, FirstGen DEF Restart, FileInv, TypeInv, TypeOK, Starting, storage, locals
<1>3. CASE (\E c \in CID : ContainerExits(c)) \/ (\E n \in Name : SidecarStarts(n))
  BY <1>3, FileSame DEF ContainerExits, SidecarStarts, fileVars, memory, storage, locals
<1> QED BY <1>1, <1>2, <1>3 DEF Environment

\* A request that leaves the map and the file alone while they agree.
Agreeing == Label \ ({"inspect", "remove", "sidecar"} \cup Saving)
Holding == Starting \cup {"stop", "unmark", "reinsert"}

\* The agreement is kept.
LEMMA FileClean ==
  ASSUME Sequential, TypeInv, FileInv, NEW t \in Thread, pc[t] \in Agreeing, up,
         UNCHANGED <<up, sandboxes, file, disk>>, pc'[t] \notin {"truncate", "write"},
         pc'[t] \in Holding => sandboxes[name'[t]] = ptr'[t]
  PROVE  FileInv'
<1>1. \A u \in Thread : u = t
  BY DEF Sequential
<1>2. \A n \in Name : disk[n].present <=> sandboxes[n] # Nil
  BY <1>1 DEF FileInv, Clean, Agreeing
<1> QED BY <1>1, <1>2 DEF FileInv, Holding

\* A request that arrives finds them in agreement.
LEMMA FileRequest ==
  ASSUME Sequential, TypeInv, FileInv, NEW t \in Thread, Request(t) PROVE FileInv'
<1> USE DEF memory, storage, locals, begin, goto, at
<1>1. pc[t] \in Agreeing /\ up /\ pc \in [Thread -> Label]
      /\ name \in [Thread -> Name \cup {Nil}] /\ ptr \in [Thread -> Pointer]
  BY DEF Request, CreateRuntime, DeleteRuntime, StartRuntime, StopRuntime, ListRuntimes, Stop,
         TypeInv, TypeOK, Agreeing, Saving, Label
<1>2. ASSUME NEW n \in Name, DeleteRuntime(t, n) PROVE FileInv'
  <2>1. \A u \in Thread : u = t
    BY DEF Sequential
  <2>2. up' /\ pc'[t] = "inspect"
    BY <1>1, <1>2 DEF DeleteRuntime
  <2> QED BY <2>1, <2>2 DEF FileInv, Clean, Starting
<1>3. ASSUME NEW n \in Name, StartRuntime(t, n) \/ StopRuntime(t, n) PROVE FileInv'
  <2>1. /\ UNCHANGED <<up, sandboxes, file, disk>> /\ pc'[t] \notin {"truncate", "write"}
        /\ sandboxes[name'[t]] = ptr'[t]
    BY <1>1, <1>3 DEF StartRuntime, StopRuntime
  <2> QED BY <1>1, <2>1, FileClean
<1>4. CASE ListRuntimes(t) \/ Stop(t) \/ \E n \in Name : CreateRuntime(t, n)
  <2>1. /\ UNCHANGED <<up, sandboxes, file, disk>> /\ pc'[t] \notin {"truncate", "write"}
        /\ pc'[t] \notin Holding
    BY <1>1, <1>4 DEF ListRuntimes, Stop, CreateRuntime, Holding, Starting
  <2> QED BY <1>1, <2>1, FileClean
<1> QED BY <1>2, <1>3, <1>4 DEF Request

\* A step of a lone request keeps FileInv.
LEMMA FileStep ==
  ASSUME Sequential, TypeInv, FileInv, NEW t \in Thread, Step(t) PROVE FileInv'
<1> USE DEF memory, storage, docker, locals, goto, at
<1>1. /\ pc \in [Thread -> Label]
      /\ pc[t] \in Holding => /\ pc[t] \in Agreeing /\ sandboxes[name[t]] = ptr[t]
  BY DEF TypeInv, TypeOK, FileInv, Holding, Agreeing, Starting, Saving, Label
<1>2. \A u \in Thread : u = t
  BY DEF Sequential
<1>3. ~may("save") /\ ~may("torn")
  BY DEF Sequential, may
<1>4. PlaceOK(t)
  BY DEF TypeInv, PlacesOK
<1>5. CASE CreateInsert(t) \/ DeleteInspect(t) \/ DeleteRemove(t) \/ DeleteSidecar(t) \/ Reinsert(t)
  <2>1. up' /\ pc'[t] \in {"save", "remove", "sidecar"}
    BY <1>1, <1>5 DEF CreateInsert, DeleteInspect, DeleteRemove, DeleteSidecar, Reinsert
  <2> QED BY <1>2, <2>1 DEF FileInv, Clean, Starting, Saving
<1>6. CASE StartCheck(t) \/ EnsureNetwork(t) \/ CreateNetwork(t) \/ PullImage(t)
  <2>1. pc[t] \in Holding /\ up /\ UNCHANGED <<up, sandboxes, file, disk>>
    BY <1>6 DEF StartCheck, EnsureNetwork, CreateNetwork, PullImage, Holding, Starting
  <2>2. pc'[t] = "idle" \/ (pc'[t] \in Starting /\ UNCHANGED locals)
    BY <1>1, <1>6
    DEF StartCheck, EnsureNetwork, CreateNetwork, PullImage, finish, Starting
  <2>3. pc'[t] \notin {"truncate", "write"} /\ (pc'[t] \in Holding => sandboxes[name'[t]] = ptr'[t])
    BY <1>1, <2>1, <2>2 DEF Holding, Starting
  <2> QED BY <1>1, <2>1, <2>3, FileClean
<1>7. CASE CreateContainer(t) \/ StartContainer(t) \/ StartRecord(t) \/ StartMark(t)
           \/ StopContainer(t) \/ StopMark(t)
  <2>1. pc[t] \in Holding /\ up /\ UNCHANGED <<up, sandboxes, file, disk>>
    BY <1>7 DEF CreateContainer, StartContainer, StartRecord, StartMark, StopContainer, StopMark,
                Holding, Starting
  <2>2. pc'[t] = "idle" \/ (pc'[t] \in Holding /\ UNCHANGED <<name, ptr>>)
    BY <1>1, <1>7
    DEF CreateContainer, StartContainer, StartRecord, StartMark, StopContainer, StopMark,
        finish, Holding, Starting
  <2>3. pc'[t] \notin {"truncate", "write"} /\ (pc'[t] \in Holding => sandboxes[name'[t]] = ptr'[t])
    BY <1>1, <2>1, <2>2 DEF Holding, Starting
  <2> QED BY <1>1, <2>1, <2>3, FileClean
<1>8. CASE ListApply(t)
  <2>1. /\ pc[t] \in Agreeing /\ up /\ UNCHANGED <<up, sandboxes, file, disk>>
        /\ pc'[t] \notin {"truncate", "write"} /\ pc'[t] \notin Holding
    BY <1>1, <1>8 DEF ListApply, finish, Agreeing, Saving, Label, Holding, Starting
  <2> QED BY <2>1, FileClean
<1>9. CASE Marshal(t)
  <2>1. /\ up' /\ pc'[t] = "truncate" /\ sandboxes' = sandboxes
        /\ snap'[t] = marshalled
    BY <1>9 DEF Marshal, TypeInv, TypeOK
  <2>2. \A n \in Name : snap'[t][n].present <=> sandboxes'[n] # Nil
    BY <2>1, Marshalled DEF TypeInv
  <2> QED BY <1>2, <2>1, <2>2 DEF FileInv, Clean, Starting, Saving
<1>10. CASE Truncate(t)
  <2>1. /\ up' /\ pc'[t] = "write" /\ pc[t] = "truncate" /\ file' = "empty"
        /\ UNCHANGED <<sandboxes, snap>>
    BY <1>10 DEF Truncate, TypeInv, TypeOK
  <2> QED BY <1>2, <2>1 DEF FileInv, Clean, Starting, Saving
<1>11. CASE Write(t)
  <2>1. up /\ pc[t] = "write" /\ file = "empty" /\ UNCHANGED <<up, sandboxes>> /\ pc'[t] = "idle"
    BY <1>11 DEF Write, finish, FileInv, TypeInv, TypeOK
  <2>2. disk' = snap[t]
    BY <1>11, <2>1 DEF Write, writeFile
  <2> QED BY <1>2, <2>1, <2>2 DEF FileInv, Clean, Starting, Saving
<1>12. CASE SaveFails(t)
  BY <1>3, <1>12 DEF SaveFails, saveFails
<1>13. CASE StopSaved(t)
  <2>1. up /\ pc[t] = "write" /\ file = "empty" /\ UNCHANGED <<up, sandboxes>>
        /\ pc'[t] = "shutdown" /\ writeFile(t)
    BY <1>1, <1>3, <1>13 DEF StopSaved, saveFails, FileInv
  <2>2. disk' = snap[t]
    BY <2>1 DEF writeFile
  <2> QED BY <1>2, <2>1, <2>2 DEF FileInv, Clean, Starting, Saving
<1>14. CASE Exit(t)
  BY <1>14, FileDie DEF Exit
<1> QED BY <1>5, <1>6, <1>7, <1>8, <1>9, <1>10, <1>11, <1>12, <1>14, <1>13 DEF Step

\* With one request at a time, FileInv holds throughout.
LEMMA FileNext == Sequential /\ TypeInv /\ FileInv /\ [Next]_vars => FileInv'
<1>1. FileInv /\ UNCHANGED vars => FileInv'
  BY FileSame DEF vars, fileVars, memory, storage, locals
<1> QED BY <1>1, FileEnvironment, FileRequest, FileStep DEF Next

\* There is no file and no sandbox at the start.
LEMMA FileInit == Init => FileInv
  BY AbsentFacts DEF Init, FileInv, Clean, NoSandboxes, Starting, Saving

\* So it holds throughout.
LEMMA FileInvariant == Sequential => (Spec => [](TypeInv /\ FileInv))
<1> SUFFICES ASSUME Sequential PROVE Spec => [](TypeInv /\ FileInv)
  OBVIOUS
<1> QED BY TypeInit, FileInit, TypeStep, FileNext, PTL DEF Spec

\* With one request at a time, crashes between two steps of the daemon, and a file
\* that can be written, the state file lists the sandboxes of the map whenever no
\* request is in progress (daemon.go:771-805).
THEOREM RuntimeSavedNames == Sequential => (Spec => []SavedNames)
<1>1. FileInv => SavedNames
  BY DEF FileInv, Clean, SavedNames, quiet, Saving
<1> QED BY <1>1, FileInvariant, PTL

AnswersFit(n, exists) ==
  /\ answered[n] = "created" => exists
  /\ answered[n] = "deleted" => ~exists

\* What the client was told is so of the map and of the file.
AnswersInv ==
  /\ up => \A n \in Name : AnswersFit(n, sandboxes[n] # Nil)
  /\ Unhurt => \A n \in Name : AnswersFit(n, disk[n].present)
  /\ \A t \in Thread : pc[t] \in Saving /\ op[t] = "create" => sandboxes[name[t]] # Nil
  /\ \A t \in Thread : op[t] = "delete" => sandboxes[name[t]] = Nil

\* A step that leaves the map, the file and the answers alone.
LEMMA AnswersSame ==
  ASSUME Sequential, AnswersInv, NEW t \in Thread, UNCHANGED <<up, sandboxes, disk, answered>>,
         pc[t] # "write" \/ pc' = pc,
         pc'[t] \in Saving /\ op'[t] = "create" =>
           pc[t] \in Saving /\ op[t] = "create" /\ name'[t] = name[t],
         op'[t] = "delete" => op[t] = "delete" /\ name'[t] = name[t]
  PROVE  AnswersInv'
<1>1. \A u \in Thread : u = t
  BY DEF Sequential
<1>2. Unhurt' => Unhurt
  BY <1>1 DEF Unhurt
<1> QED BY <1>1, <1>2 DEF AnswersInv, AnswersFit

\* The process dies, and the file is as it was or whole.
LEMMA AnswersDie ==
  ASSUME die, UNCHANGED answered, \A n \in Name : AnswersFit(n, disk'[n].present)
  PROVE  AnswersInv'
  BY DEF die, AnswersInv, AnswersFit, Saving, Nil

\* A crash, a restart and what happens in Docker falsify no answer.
LEMMA AnswersEnvironment ==
  Sequential /\ TypeInv /\ FileInv /\ AnswersInv /\ Environment => AnswersInv'
<1> SUFFICES ASSUME Sequential, TypeInv, FileInv, AnswersInv, Environment PROVE AnswersInv'
  OBVIOUS
<1> USE DEF memory, storage, locals, history
<1>1. CASE Crash
  <2>1. Unhurt /\ disk' = disk
    BY <1>1 DEF Crash, Sequential, may, Unhurt
  <2> QED BY <1>1, <2>1, AnswersDie DEF Crash, AnswersInv
<1>2. ~ConcurrentMapAccess
  BY DEF ConcurrentMapAccess, Sequential
<1>3. CASE Restart
  <2>1. /\ ~up /\ \A t \in Thread : pc[t] = "idle" /\ pc'[t] = "idle" /\ op'[t] = Nil
        /\ disk' = disk /\ answered' = answered
    BY <1>3 DEF Restart, FileInv, TypeInv, PlacesOK, PlaceOK
  <2>2. Unhurt /\ Unhurt'
    BY <2>1 DEF Unhurt
  <2>3. \A n \in Name : sandboxes'[n] # Nil <=> disk[n].present
    BY <1>3, FirstGen DEF Restart
  <2> QED BY <2>1, <2>2, <2>3 DEF AnswersInv, AnswersFit, Saving, Nil
<1>4. CASE (\E c \in CID : ContainerExits(c)) \/ (\E n \in Name : SidecarStarts(n))
  BY <1>4 DEF ContainerExits, SidecarStarts, AnswersInv, AnswersFit, Unhurt
<1> QED BY <1>1, <1>2, <1>3, <1>4 DEF Environment

\* A delete that begins withdraws the answer about its sandbox.
LEMMA AnswersRequest ==
  ASSUME Sequential, TypeInv, AnswersInv, NEW t \in Thread, Request(t) PROVE AnswersInv'
<1> USE DEF memory, storage, locals, history, begin, goto, at
<1>1. /\ pc[t] = "idle" /\ up /\ pc \in [Thread -> Label]
      /\ op \in [Thread -> {Nil, "create", "delete", "start", "stop", "list", "exit"}]
      /\ name \in [Thread -> Name \cup {Nil}] /\ sandboxes \in [Name -> Pointer]
      /\ answered \in [Name -> {Nil, "created", "deleted"}]
  BY DEF Request, CreateRuntime, DeleteRuntime, StartRuntime, StopRuntime, ListRuntimes, Stop,
         TypeInv, TypeOK
<1>2. ASSUME NEW n \in Name, DeleteRuntime(t, n) PROVE AnswersInv'
  <2>1. \A u \in Thread : u = t
    BY DEF Sequential
  <2>2. /\ up' = up /\ disk' = disk /\ pc'[t] = "inspect" /\ name'[t] = n
        /\ sandboxes' = [sandboxes EXCEPT ![n] = Nil]
        /\ answered' = [answered EXCEPT ![n] = Nil]
    BY <1>1, <1>2 DEF DeleteRuntime
  <2>3. Unhurt
    BY <1>1, <2>1 DEF Unhurt
  <2> QED BY <1>1, <2>1, <2>2, <2>3 DEF AnswersInv, AnswersFit, Saving, Nil
<1>3. CASE ListRuntimes(t) \/ Stop(t)
           \/ \E n \in Name : CreateRuntime(t, n) \/ StartRuntime(t, n) \/ StopRuntime(t, n)
  <2>1. /\ UNCHANGED <<up, sandboxes, disk, answered>> /\ op'[t] # "delete"
        /\ ~(pc'[t] \in Saving /\ op'[t] = "create")
    BY <1>1, <1>3 DEF ListRuntimes, Stop, CreateRuntime, StartRuntime, StopRuntime, Saving
  <2> QED BY <1>1, <2>1, AnswersSame
<1> QED BY <1>2, <1>3 DEF Request

\* A step of a lone request falsifies no answer.
LEMMA AnswersStep ==
  ASSUME Sequential, TypeInv, FileInv, AnswersInv, NEW t \in Thread, Step(t) PROVE AnswersInv'
<1> USE DEF memory, storage, docker, locals, history, goto, at
<1>1. \A u \in Thread : u = t
  BY DEF Sequential
<1>2. /\ pc \in [Thread -> Label]
      /\ op \in [Thread -> {Nil, "create", "delete", "start", "stop", "list", "exit"}]
      /\ name \in [Thread -> Name \cup {Nil}] /\ sandboxes \in [Name -> Pointer]
      /\ answered \in [Name -> {Nil, "created", "deleted"}] /\ PlaceOK(t)
  BY DEF TypeInv, TypeOK, PlacesOK
<1>3. CASE CreateInsert(t)
  <2> DEFINE g == CHOOSE g \in unreferenced(name[t]) : TRUE
  <2>1. g # Nil
    BY <1>3, FirstGen DEF CreateInsert, unreferenced
  <2>2. /\ up' = up /\ disk' = disk /\ pc[t] = "insert" /\ pc'[t] = "save" /\ op' = op /\ name' = name
        /\ sandboxes' = [sandboxes EXCEPT ![name[t]] = g]
        /\ answered' = [answered EXCEPT ![name[t]] = Nil]
    BY <1>2, <1>3 DEF CreateInsert
  <2>3. Unhurt /\ name[t] \in Name /\ op[t] = "create"
    BY <1>1, <1>2, <2>2 DEF Unhurt, PlaceOK
  <2> HIDE DEF g
  <2> QED BY <1>1, <1>2, <2>1, <2>2, <2>3 DEF AnswersInv, AnswersFit, Nil
<1>4. CASE DeleteInspect(t) \/ DeleteRemove(t) \/ DeleteSidecar(t)
  <2>1. /\ UNCHANGED <<up, sandboxes, disk, answered, op, name>> /\ op[t] = "delete"
        /\ pc[t] # "write"
    BY <1>2, <1>4 DEF DeleteInspect, DeleteRemove, DeleteSidecar, PlaceOK
  <2> QED BY <2>1, AnswersSame
<1>5. CASE \/ StartCheck(t) \/ EnsureNetwork(t) \/ CreateNetwork(t) \/ PullImage(t)
           \/ CreateContainer(t) \/ StartContainer(t)
  <2>1. UNCHANGED <<up, sandboxes, disk, answered>> /\ pc[t] \in Starting /\ op[t] = "start"
    BY <1>2, <1>5 DEF StartCheck, EnsureNetwork, CreateNetwork, PullImage, CreateContainer,
                      StartContainer, PlaceOK, Starting
  <2>2. op'[t] \in {"start", Nil}
    <3>1. finish(t) \/ op' = op
      BY <1>5 DEF StartCheck, EnsureNetwork, CreateNetwork, PullImage, CreateContainer, StartContainer
    <3> QED BY <1>2, <2>1, <3>1 DEF finish
  <2>3. pc[t] # "write" /\ op'[t] # "create" /\ op'[t] # "delete"
    BY <2>1, <2>2 DEF Starting, Nil
  <2> QED BY <2>1, <2>3, AnswersSame
<1>6. CASE StartRecord(t) \/ StartMark(t) \/ StopContainer(t) \/ StopMark(t)
  <2>1. /\ UNCHANGED <<up, sandboxes, disk, answered, op, name>>
        /\ op[t] \in {"start", "stop"} /\ pc[t] # "write"
    BY <1>2, <1>6 DEF StartRecord, StartMark, StopContainer, StopMark, PlaceOK, Starting
  <2>2. op'[t] # "create" /\ op'[t] # "delete"
    BY <2>1
  <2> QED BY <2>1, <2>2, AnswersSame
<1>7. CASE Reinsert(t)
  <2>1. /\ UNCHANGED <<up, disk, answered, op, name>> /\ pc[t] = "reinsert"
        /\ sandboxes' = [sandboxes EXCEPT ![name[t]] = ptr[t]]
    BY <1>7 DEF Reinsert
  <2>2. op[t] \in {"start", "stop"} /\ sandboxes[name[t]] = ptr[t]
    BY <1>2, <2>1 DEF PlaceOK, FileInv
  <2>3. sandboxes' = sandboxes
    BY <1>2, <2>1, <2>2
  <2>4. op'[t] # "create" /\ op'[t] # "delete"
    BY <2>1, <2>2
  <2> QED BY <2>1, <2>3, <2>4, AnswersSame
<1>8. CASE ListApply(t)
  <2>1. UNCHANGED <<up, sandboxes, disk, answered>> /\ pc[t] # "write" /\ op'[t] = Nil
    BY <1>2, <1>8 DEF ListApply, finish
  <2>2. op'[t] # "create" /\ op'[t] # "delete"
    BY <2>1 DEF Nil
  <2> QED BY <2>1, <2>2, AnswersSame
<1>9. CASE Marshal(t)
  <2>1. UNCHANGED <<up, sandboxes, disk, answered, op, name>> /\ pc[t] = "save"
    BY <1>9 DEF Marshal
  <2> QED BY <2>1, AnswersSame DEF Saving
<1>10. CASE Truncate(t)
  <2>1. /\ UNCHANGED <<up, sandboxes, answered, op, name>>
        /\ pc[t] = "truncate" /\ pc'[t] = "write"
    BY <1>2, <1>10 DEF Truncate
  <2>2. ~Unhurt'
    BY <2>1 DEF Unhurt
  <2> QED BY <1>1, <2>1, <2>2 DEF AnswersInv, AnswersFit, Saving
<1>11. CASE Write(t)
  <2>1. /\ UNCHANGED <<up, sandboxes>> /\ pc[t] = "write" /\ pc'[t] = "idle" /\ op'[t] = Nil
        /\ up /\ op[t] # "exit" /\ answered' = acknowledged(t)
    BY <1>2, <1>11 DEF Write, finish
  <2>2. disk' = snap[t]
    BY <1>11, <2>1 DEF Write, writeFile, FileInv
  <2>3. \A n \in Name : disk'[n].present <=> sandboxes[n] # Nil
    BY <2>1, <2>2 DEF FileInv
  <2>4. \A n \in Name : AnswersFit(n, sandboxes[n] # Nil)'
    <3>1. CASE op[t] = "create"
      <4>1. answered' = [answered EXCEPT ![name[t]] = "created"] /\ sandboxes[name[t]] # Nil
        BY <2>1, <3>1 DEF acknowledged, AnswersInv, Saving
      <4> QED BY <1>2, <2>1, <4>1 DEF AnswersInv, AnswersFit
    <3>2. CASE op[t] = "delete"
      <4>1. /\ answered' = [answered EXCEPT ![name[t]] = IF @ = Nil THEN "deleted" ELSE @]
            /\ sandboxes[name[t]] = Nil
        BY <2>1, <3>2 DEF acknowledged, AnswersInv
      <4> QED BY <1>2, <2>1, <4>1 DEF AnswersInv, AnswersFit
    <3>3. CASE op[t] \notin {"create", "delete"}
      <4>1. answered' = answered
        BY <2>1, <3>3 DEF acknowledged
      <4> QED BY <2>1, <4>1 DEF AnswersInv, AnswersFit
    <3> QED BY <3>1, <3>2, <3>3
  <2> QED BY <1>1, <2>1, <2>3, <2>4 DEF AnswersInv, AnswersFit, Nil
<1>12. CASE SaveFails(t)
  BY <1>12 DEF SaveFails, saveFails, Sequential, may
<1>13. CASE StopSaved(t)
  <2>1. /\ pc[t] = "write" /\ writeFile(t) /\ up /\ op[t] = "exit" /\ pc'[t] = "shutdown"
        /\ UNCHANGED <<up, sandboxes, answered, op, name>>
    BY <1>2, <1>13 DEF StopSaved, saveFails, Sequential, may
  <2>2. disk' = snap[t]
    BY <2>1 DEF writeFile, FileInv
  <2>3. \A n \in Name : AnswersFit(n, disk'[n].present)
    BY <2>1, <2>2 DEF FileInv, AnswersInv, AnswersFit
  <2> QED BY <1>1, <2>1, <2>3 DEF AnswersInv, AnswersFit
<1>14. CASE Exit(t)
  <2>1. die /\ UNCHANGED <<disk, answered>> /\ Unhurt
    BY <1>1, <1>14 DEF Exit, Unhurt
  <2> QED BY <2>1, AnswersDie DEF AnswersInv
<1> QED BY <1>3, <1>4, <1>5, <1>6, <1>7, <1>8, <1>9, <1>10, <1>11, <1>12, <1>14, <1>13 DEF Step

\* Nor does any step.
LEMMA AnswersNext ==
  Sequential /\ TypeInv /\ FileInv /\ AnswersInv /\ [Next]_vars => AnswersInv'
<1>1. AnswersInv /\ UNCHANGED vars => AnswersInv'
  BY DEF vars, memory, storage, locals, history, AnswersInv, AnswersFit, Unhurt
<1> QED BY <1>1, AnswersEnvironment, AnswersRequest, AnswersStep DEF Next

\* So the answers hold throughout.
LEMMA AnswersInvariant == Sequential => (Spec => [](TypeInv /\ FileInv /\ AnswersInv))
<1> SUFFICES ASSUME Sequential PROVE Spec => [](TypeInv /\ FileInv /\ AnswersInv)
  OBVIOUS
<1>1. Init => AnswersInv
  BY DEF Init, AnswersInv, AnswersFit, Saving, Nil
<1> QED BY <1>1, TypeInit, FileInit, TypeStep, FileNext, AnswersNext, PTL DEF Spec

\* With one request at a time, crashes between two steps of the daemon, and a file
\* that can be written, a create or delete that was answered is not lost, whichever
\* requests, crashes and restarts follow (daemon.go:323, 422).
THEOREM RuntimeAnswersHold == Sequential => (Spec => []AnswersHold)
<1>1. AnswersInv => AnswersHold
  BY DEF AnswersInv, AnswersFit, AnswersHold, quiet
<1> QED BY <1>1, AnswersInvariant, PTL

-----------------------------------------------------------------------------
(* A sandbox is never taken for another.                                   *)

Of(c, n) == c # Nil => cname[c] = n

\* Docker's names.
NamesInv ==
  \A c \in CID : IF cstate[c] = "unused" THEN cname[c] = Nil ELSE cname[c] \in Name

\* What the daemon keeps for a sandbox, in memory and in the file.
KeptInv ==
  /\ \A n \in Name, g \in Gen : Of(ContainerID[n][g], n)
  /\ \A n \in Name : Of(disk[n].ContainerID, n)
  /\ \A t \in Thread, n \in Name : Of(snap[t][n].ContainerID, n)

\* What a request removes or starts.
MeantInv ==
  \A t \in Thread : pc[t] \in {"remove", "start", "record"} => cname[cid[t]] = name[t]

NamedInv == NamesInv /\ KeptInv /\ MeantInv

\* A list without entries names no container.
LEMMA NoSandboxesOf == \A n \in Name : NoSandboxes[n].ContainerID = Nil
  BY AbsentFacts DEF NoSandboxes

\* Steps that name no container.
LEMMA NamesSame ==
  ASSUME NamesInv, cname' = cname, \A c \in CID : cstate'[c] = "unused" <=> cstate[c] = "unused"
  PROVE  NamesInv'
  BY DEF NamesInv

\* Steps that record, write or marshal no container ID.
LEMMA KeptSame ==
  ASSUME KeptInv, cname' = cname, UNCHANGED <<ContainerID, disk>>,
         \A t \in Thread : snap'[t] \in {snap[t], NoSandboxes}
  PROVE  KeptInv'
  BY NoSandboxesOf DEF KeptInv, Of

\* A daemon that has died keeps nothing in memory.
LEMMA KeptDie ==
  ASSUME KeptInv, cname' = cname, die,
         \A n \in Name : disk'[n].ContainerID = Nil \/ Of(disk'[n].ContainerID, n)
  PROVE  KeptInv' /\ MeantInv'
  BY NoSandboxesOf DEF KeptInv, MeantInv, Of, die

\* What is written names the containers the snapshot named.
LEMMA WrittenOf ==
  ASSUME TypeInv, KeptInv, NEW t \in Thread, writeFile(t)
  PROVE  \A n \in Name : disk'[n].ContainerID = Nil \/ Of(disk'[n].ContainerID, n)
  BY NoSandboxesOf DEF writeFile, KeptInv

\* A request that goes on to a step that needs no container, or ends.
LEMMA MeantMoves ==
  ASSUME TypeInv, MeantInv, cname' = cname, NEW t \in Thread, NEW l, goto(t, l),
         l \in {"remove", "start", "record"} => cname[cid'[t]] = name'[t],
         \A u \in Thread \ {t} : cid'[u] = cid[u] /\ name'[u] = name[u]
  PROVE  MeantInv'
<1>1. pc \in [Thread -> Label]
  BY DEF TypeInv, TypeOK
<1> QED BY <1>1 DEF MeantInv, goto

\* A request that ends means no container.
LEMMA FinishNames ==
  ASSUME TypeInv, MeantInv, cname' = cname, NEW t \in Thread, finish(t)
  PROVE  MeantInv' /\ \A u \in Thread : snap'[u] \in {snap[u], NoSandboxes}
<1>1. \A u \in Thread \ {t} : cid'[u] = cid[u] /\ name'[u] = name[u]
  BY DEF finish, TypeInv, TypeOK
<1>2. \A u \in Thread : snap'[u] \in {snap[u], NoSandboxes}
  BY DEF finish, TypeInv, TypeOK
<1> QED BY <1>1, <1>2, MeantMoves DEF finish

\* Crashes, restarts and Docker mix up no names.
LEMMA NamedEnvironment == TypeInv /\ NamedInv /\ Environment => NamedInv'
<1> SUFFICES ASSUME TypeInv, NamedInv, Environment PROVE NamedInv'
  OBVIOUS
<1> USE DEF NamedInv, memory, storage, docker, locals
<1>1. CASE Crash \/ ConcurrentMapAccess
  <2>1. die /\ UNCHANGED <<disk, cname, cstate>>
    BY <1>1 DEF Crash, ConcurrentMapAccess
  <2>2. NamesInv'
    BY <2>1, NamesSame
  <2> QED BY <2>1, <2>2, KeptDie DEF KeptInv
<1>2. CASE Restart
  <2>1. /\ UNCHANGED <<disk, cname, cstate, pc, snap, cid, name>>
        /\ ContainerID' = [n \in Name |-> [ContainerID[n] EXCEPT ![firstGen] = disk[n].ContainerID]]
    BY <1>2 DEF Restart
  <2>2. KeptInv'
    BY <2>1 DEF KeptInv, Of, TypeInv, TypeOK
  <2>3. NamesInv' /\ MeantInv'
    BY <2>1, NamesSame DEF MeantInv
  <2> QED BY <2>2, <2>3
<1>3. ASSUME NEW c \in CID, ContainerExits(c) PROVE NamedInv'
  <2>1. /\ UNCHANGED <<ContainerID, disk, cname, pc, snap, cid, name>>
        /\ \A d \in CID : cstate'[d] = "unused" <=> cstate[d] = "unused"
    BY <1>3 DEF ContainerExits, TypeInv, TypeOK
  <2> QED BY <2>1, NamesSame, KeptSame DEF MeantInv
<1>4. ASSUME NEW n \in Name, SidecarStarts(n) PROVE NamedInv'
  <2>1. UNCHANGED <<ContainerID, disk, cname, cstate, pc, snap, cid, name>>
    BY <1>4 DEF SidecarStarts
  <2> QED BY <2>1, NamesSame, KeptSame DEF MeantInv
<1> QED BY <1>1, <1>2, <1>3, <1>4 DEF Environment

\* Nor does a request that arrives,
LEMMA NamedRequest == ASSUME TypeInv, NamedInv, NEW t \in Thread, Request(t) PROVE NamedInv'
<1> USE DEF NamedInv, memory, storage, docker, locals, begin
<1>1. /\ UNCHANGED <<ContainerID, disk, cname, cstate, snap, cid>>
      /\ \E l \in {"insert", "inspect", "check", "stop", "apply", "save"} : goto(t, l)
      /\ \A u \in Thread \ {t} : name'[u] = name[u]
  BY DEF Request, CreateRuntime, DeleteRuntime, StartRuntime, StopRuntime, ListRuntimes, Stop,
         TypeInv, TypeOK
<1>2. MeantInv'
  BY <1>1, MeantMoves
<1> QED BY <1>1, <1>2, NamesSame, KeptSame

\* a step of a request,
LEMMA NamedStep == ASSUME TypeInv, NamedInv, NEW t \in Thread, Step(t) PROVE NamedInv'
<1> USE DEF NamedInv, memory, storage, docker, locals
<1>1. /\ PlaceOK(t) /\ pc \in [Thread -> Label] /\ ContainerID \in [Name -> [Gen -> Ref]]
      /\ cid \in [Thread -> Ref] /\ cname \in [CID -> Name \cup {Nil}]
      /\ cstate \in [CID -> {"unused", "created", "running", "exited", "removed"}]
  BY DEF TypeInv, TypeOK, PlacesOK
<1>2. ASSUME UNCHANGED <<ContainerID, disk, cname, snap, name>>,
             \A c \in CID : cstate'[c] = "unused" <=> cstate[c] = "unused",
             \A u \in Thread \ {t} : cid'[u] = cid[u],
             NEW l, goto(t, l), l \in {"remove", "start", "record"} => cname[cid'[t]] = name[t]
      PROVE  NamedInv'
  BY <1>2, NamesSame, KeptSame, MeantMoves
<1>3. CASE \/ DeleteSidecar(t) \/ Reinsert(t) \/ StartMark(t) \/ StopMark(t)
  <2>1. UNCHANGED <<ContainerID, disk, cname, snap, name, cid>>
    BY <1>3 DEF DeleteSidecar, Reinsert, StartMark, StopMark
  <2>2. goto(t, "save") \/ goto(t, "reinsert")
    BY <1>3 DEF DeleteSidecar, Reinsert, StartMark, StopMark
  <2>3. \A c \in CID : cstate'[c] = "unused" <=> cstate[c] = "unused"
    BY <1>3 DEF DeleteSidecar, Reinsert, StartMark, StopMark, present
  <2> QED BY <1>2, <2>1, <2>2, <2>3
<1>4. CASE CreateInsert(t)
  <2>1. /\ UNCHANGED <<disk, cname, cstate, snap, name, cid>> /\ goto(t, "save")
        /\ \E g : ContainerID' = [ContainerID EXCEPT ![name[t]][g] = Nil]
    BY <1>4 DEF CreateInsert
  <2>2. KeptInv'
    BY <1>1, <2>1 DEF KeptInv, Of
  <2> QED BY <2>1, <2>2, NamesSame, MeantMoves
<1>5. CASE DeleteInspect(t)
  <2>1. UNCHANGED <<ContainerID, disk, cname, cstate, snap, name>>
    BY <1>5 DEF DeleteInspect
  <2>2. name[t] \in Name /\ ptr[t] \in Gen
    BY <1>1, <1>5 DEF DeleteInspect, PlaceOK, at
  <2>3. \/ goto(t, "sidecar") /\ cid' = cid
        \/ \E c \in CID : cid' = [cid EXCEPT ![t] = c] /\ goto(t, "remove") /\ cname[c] = name[t]
    <3>1. ContainerID[name[t]][ptr[t]] \in Ref /\ Of(ContainerID[name[t]][ptr[t]], name[t])
      BY <1>1, <2>2 DEF KeptInv
    <3> QED BY <1>5, <3>1 DEF DeleteInspect, containersOf, Of, Ref
  <2> QED BY <1>1, <1>2, <2>1, <2>3
<1>6. CASE DeleteRemove(t)
  <2>1. /\ UNCHANGED <<ContainerID, disk, cname, snap, name, cid>> /\ goto(t, "sidecar")
        /\ cstate' = cstate \/ cstate' = [cstate EXCEPT ![cid[t]] = "removed"]
    BY <1>6 DEF DeleteRemove
  <2>2. cid[t] \in CID /\ cname[cid[t]] = name[t] /\ name[t] \in Name
    BY <1>1, <1>6 DEF DeleteRemove, at, PlaceOK, MeantInv
  <2>3. \A c \in CID : cstate'[c] = "unused" <=> cstate[c] = "unused"
    BY <1>1, <2>1, <2>2, NameAssumption DEF NamesInv
  <2> QED BY <1>2, <2>1, <2>3
<1>7. CASE StartCheck(t) \/ EnsureNetwork(t) \/ CreateNetwork(t) \/ PullImage(t)
  <2>1. UNCHANGED <<ContainerID, disk, cname, cstate>>
    BY <1>7 DEF StartCheck, EnsureNetwork, CreateNetwork, PullImage
  <2>2. \/ finish(t)
        \/ \E l \in {"network", "mknetwork", "pull", "create"} : goto(t, l) /\ UNCHANGED locals
    BY <1>7 DEF StartCheck, EnsureNetwork, CreateNetwork, PullImage
  <2>3. CASE finish(t)
    BY <2>1, <2>3, FinishNames, NamesSame, KeptSame
  <2> QED BY <1>2, <2>1, <2>2, <2>3
<1>8. CASE CreateContainer(t)
  <2>1. UNCHANGED <<ContainerID, disk>>
    BY <1>8 DEF CreateContainer
  <2>2. CASE cname' = cname /\ cstate' = cstate /\ finish(t)
    BY <2>1, <2>2, FinishNames, NamesSame, KeptSame
  <2>3. CASE ~(cname' = cname /\ cstate' = cstate /\ finish(t))
    <3>1. PICK c \in CID :
            /\ cstate[c] = "unused"
            /\ cname' = [cname EXCEPT ![c] = name[t]]
            /\ cstate' = [cstate EXCEPT ![c] = "created"]
            /\ \/ cid' = [cid EXCEPT ![t] = c] /\ goto(t, "start") /\ UNCHANGED <<op, name, ptr, snap>>
               \/ finish(t)
      BY <1>8, <2>3 DEF CreateContainer
    <3>2. name[t] \in Name /\ cname[c] = Nil
      BY <1>1, <1>8, <3>1 DEF CreateContainer, at, PlaceOK, Starting, NamesInv
    <3>3. \A d \in CID : cname[d] \in Name => cname'[d] = cname[d]
      BY <1>1, <3>1, <3>2, NameAssumption
    <3>4. NamesInv'
      BY <1>1, <3>1, <3>2 DEF NamesInv
    <3>5. \A u \in Thread : snap'[u] \in {snap[u], NoSandboxes}
      BY <3>1 DEF finish, TypeInv, TypeOK
    <3>6. \A n \in Name : \A d \in Ref : Of(d, n) => (d # Nil => cname'[d] = n)
      BY <3>3 DEF Of, Ref
    <3>7. KeptInv'
      <4>1. \A n \in Name : disk[n].ContainerID \in Ref
        BY DEF TypeInv, TypeOK, Snapshot, Entry
      <4>2. \A u \in Thread, n \in Name : snap[u][n].ContainerID \in Ref
        BY DEF TypeInv, TypeOK, Snapshot, Entry
      <4>3. (\A u \in Thread, n \in Name : Of(snap[u][n].ContainerID, n))'
        BY <3>5, <3>6, <4>2, NoSandboxesOf DEF KeptInv, Of
      <4>4. (\A n \in Name : Of(disk[n].ContainerID, n))'
        BY <2>1, <3>6, <4>1 DEF KeptInv, Of
      <4>5. (\A n \in Name, g \in Gen : Of(ContainerID[n][g], n))'
        BY <1>1, <2>1, <3>6 DEF KeptInv, Of
      <4> QED BY <4>3, <4>4, <4>5 DEF KeptInv
    <3>8. MeantInv'
      <4>1. \A u \in Thread \ {t} : pc'[u] = pc[u] /\ cid'[u] = cid[u] /\ name'[u] = name[u]
        BY <1>1, <3>1 DEF finish, goto, TypeInv, TypeOK
      <4>2. ASSUME NEW u \in Thread \ {t}, pc[u] \in {"remove", "start", "record"}
            PROVE  cname'[cid[u]] = name[u]
        <5>1. PlaceOK(u) /\ cname[cid[u]] = name[u]
          BY <4>2 DEF TypeInv, PlacesOK, MeantInv
        <5>2. cid[u] \in CID /\ name[u] \in Name
          BY <4>2, <5>1 DEF PlaceOK, Starting
        <5> QED BY <3>3, <5>1, <5>2
      <4>3. pc'[t] \in {"remove", "start", "record"} => cname'[cid'[t]] = name'[t]
        <5>1. CASE finish(t)
          BY <1>1, <5>1 DEF finish, goto
        <5>2. CASE ~finish(t)
          BY <1>1, <3>1, <5>2
        <5> QED BY <5>1, <5>2
      <4> QED BY <4>1, <4>2, <4>3 DEF MeantInv
    <3> QED BY <3>4, <3>7, <3>8
  <2> QED BY <2>2, <2>3
<1>9. CASE StartContainer(t)
  <2>1. UNCHANGED <<ContainerID, disk, cname>>
    BY <1>9 DEF StartContainer
  <2>2. \A c \in CID : cstate'[c] = "unused" <=> cstate[c] = "unused"
    BY <1>1, <1>9 DEF StartContainer, present
  <2>3. CASE finish(t)
    BY <2>1, <2>2, <2>3, FinishNames, NamesSame, KeptSame
  <2>4. CASE ~finish(t)
    <3>1. goto(t, "record") /\ UNCHANGED locals /\ cname[cid[t]] = name[t]
      BY <1>9, <2>4 DEF StartContainer, at, MeantInv
    <3> QED BY <1>2, <2>1, <2>2, <3>1
  <2> QED BY <2>3, <2>4
<1>10. CASE StartRecord(t)
  <2>1. /\ UNCHANGED <<disk, cname, cstate, snap, name, cid>> /\ goto(t, "mark")
        /\ ContainerID' = [ContainerID EXCEPT ![name[t]][ptr[t]] = cid[t]]
        /\ cname[cid[t]] = name[t]
    BY <1>10 DEF StartRecord, at, MeantInv
  <2>2. KeptInv'
    BY <1>1, <2>1 DEF KeptInv, Of
  <2> QED BY <2>1, <2>2, NamesSame, MeantMoves
<1>11. CASE StopContainer(t)
  <2>1. UNCHANGED <<ContainerID, disk, cname, snap, name, cid>> /\ goto(t, "unmark")
    BY <1>11 DEF StopContainer
  <2>2. \A c \in CID : cstate'[c] = "unused" <=> cstate[c] = "unused"
    BY <1>1, <1>11 DEF StopContainer
  <2> QED BY <1>2, <2>1, <2>2
<1>12. CASE ListApply(t)
  <2>1. UNCHANGED <<disk, cname, cstate>> /\ finish(t)
    BY <1>12 DEF ListApply
  <2>2. \A n \in Name, g \in Gen : ContainerID'[n][g] \in {Nil, ContainerID[n][g]}
    BY <1>1, <1>12 DEF ListApply, learnt, update
  <2>3. KeptInv'
    BY <2>1, <2>2, FinishNames, NoSandboxesOf DEF KeptInv, Of
  <2> QED BY <2>1, <2>3, FinishNames, NamesSame
<1>13. CASE Marshal(t)
  <2>1. /\ UNCHANGED <<ContainerID, disk, cname, cstate, name, cid>> /\ goto(t, "truncate")
        /\ snap' = [snap EXCEPT ![t] = marshalled]
    BY <1>13 DEF Marshal
  <2>2. \A n \in Name : Of(marshalled[n].ContainerID, n)
    BY Marshalled DEF TypeInv, TypeOK, Pointer, KeptInv, Of
  <2>3. KeptInv'
    BY <2>1, <2>2 DEF KeptInv, Of, TypeInv, TypeOK
  <2> QED BY <2>1, <2>3, NamesSame, MeantMoves
<1>14. CASE Truncate(t)
  <2>1. UNCHANGED <<ContainerID, cname, cstate, snap, name, cid>> /\ goto(t, "write")
        /\ disk' = NoSandboxes
    BY <1>14 DEF Truncate
  <2>2. KeptInv'
    BY <2>1, NoSandboxesOf DEF KeptInv, Of
  <2> QED BY <2>1, <2>2, NamesSame, MeantMoves
<1>15. CASE Write(t)
  <2>1. UNCHANGED <<ContainerID, cname, cstate>> /\ finish(t) /\ writeFile(t)
    BY <1>15 DEF Write
  <2>2. KeptInv'
    BY <2>1, WrittenOf, FinishNames, NoSandboxesOf DEF KeptInv, Of
  <2> QED BY <2>1, <2>2, FinishNames, NamesSame
<1>16. CASE SaveFails(t)
  <2>1. UNCHANGED <<ContainerID, disk, cname, cstate>> /\ finish(t)
    BY <1>16 DEF SaveFails, saveFails
  <2> QED BY <2>1, FinishNames, NamesSame, KeptSame
<1>17. CASE StopSaved(t)
  <2>1. UNCHANGED <<ContainerID, cname, cstate, snap, name, cid>> /\ goto(t, "shutdown")
        /\ (writeFile(t) \/ disk' = disk)
    BY <1>17 DEF StopSaved, saveFails
  <2>2. \A n \in Name : disk'[n].ContainerID = Nil \/ Of(disk'[n].ContainerID, n)
    BY <2>1, WrittenOf DEF KeptInv
  <2>3. KeptInv'
    BY <2>1, <2>2 DEF KeptInv, Of
  <2> QED BY <2>1, <2>3, NamesSame, MeantMoves
<1>18. CASE Exit(t)
  <2>1. die /\ UNCHANGED <<disk, cname, cstate>>
    BY <1>18 DEF Exit
  <2> QED BY <2>1, KeptDie, NamesSame DEF KeptInv
<1> QED BY <1>3, <1>4, <1>5, <1>6, <1>7, <1>8, <1>9, <1>10, <1>11, <1>12, <1>13, <1>14, <1>15, <1>16,
           <1>18, <1>17 DEF Step

\* or any step.
LEMMA NamedNext == TypeInv /\ NamedInv /\ [Next]_vars => NamedInv'
<1>1. NamedInv /\ UNCHANGED vars => NamedInv'
  BY DEF vars, memory, storage, docker, locals, NamedInv, NamesInv, KeptInv, MeantInv, Of
<1> QED BY <1>1, NamedEnvironment, NamedRequest, NamedStep DEF Next

\* There is no container at the start.
LEMMA NamedInit == Init => NamedInv
  BY NoSandboxesOf DEF Init, NamedInv, NamesInv, KeptInv, MeantInv, Of

\* However requests race, and whatever crashes or fails, a container ID the daemon
\* keeps for a sandbox, has in the file, or is about to start or remove for it is
\* that of a container created for this sandbox (daemon.go:387-513, 771-805).
THEOREM ContainersNotMixedUp == Spec => [](TypeInv /\ NamedInv)
  BY TypeInit, NamedInit, TypeStep, NamedNext, PTL DEF Spec

\* A step that removes no container.
NoneRemoved == \A c \in CID : present(c) => present(c)'

\* Every step of a handler but two, of Docker and of the process.
LEMMA OthersRemoveNone ==
  ASSUME TypeInv, [Next]_vars,
         ~\E t \in Thread : DeleteRemove(t) \/ DeleteSidecar(t)
  PROVE  NoneRemoved
<1> USE DEF NoneRemoved, present
<1>1. cstate \in [CID -> {"unused", "created", "running", "exited", "removed"}]
  BY DEF TypeInv, TypeOK
<1>2. CASE UNCHANGED vars
  BY <1>2 DEF vars, docker
<1>3. CASE Environment
  BY <1>1, <1>3 DEF Environment, Crash, ConcurrentMapAccess, Restart, SidecarStarts, ContainerExits, docker
<1>4. ASSUME NEW t \in Thread, CreateContainer(t) \/ StartContainer(t) \/ StopContainer(t)
      PROVE  NoneRemoved
  <2>1. CASE CreateContainer(t)
    BY <1>1, <2>1 DEF CreateContainer
  <2>2. CASE StartContainer(t)
    BY <1>1, <2>2 DEF StartContainer
  <2>3. CASE StopContainer(t)
    BY <1>1, <2>3 DEF StopContainer
  <2> QED BY <1>4, <2>1, <2>2, <2>3
<1>5. ASSUME NEW t \in Thread, Request(t) \/ Step(t),
             ~(CreateContainer(t) \/ StartContainer(t) \/ StopContainer(t))
      PROVE  NoneRemoved
  <2>1. cstate' = cstate
    BY <1>5, OtherSteps DEF Step
  <2> QED BY <2>1
<1> QED BY <1>2, <1>3, <1>4, <1>5 DEF Next

\* However requests race, and whatever crashes or fails, a container is removed only
\* by a delete of the sandbox it was created for, or of the sandbox whose sidecar
\* would have its name (daemon.go:387-420).
THEOREM RuntimeRemovedByName == Spec => RemovedByName
<1> DEFINE A == \A c \in CID :
                  present(c) /\ ~present(c)' =>
                    \E t \in Thread : op[t] = "delete" /\ cname[c] \in {name[t], proxyName[name[t]]}
<1>1. TypeInv /\ NamedInv /\ [Next]_vars => [A]_vars
  <2> SUFFICES ASSUME TypeInv, NamedInv, [Next]_vars PROVE A
    OBVIOUS
  <2>1. cstate \in [CID -> {"unused", "created", "running", "exited", "removed"}]
    BY DEF TypeInv, TypeOK
  <2>2. ASSUME NEW t \in Thread, DeleteRemove(t) PROVE A
    <3>1. /\ op[t] = "delete" /\ cname[cid[t]] = name[t]
          /\ cstate' = cstate \/ cstate' = [cstate EXCEPT ![cid[t]] = "removed"]
      BY <2>2 DEF DeleteRemove, at, TypeInv, PlacesOK, PlaceOK, NamedInv, MeantInv
    <3>2. \A c \in CID : present(c) /\ ~present(c)' => c = cid[t]
      BY <2>1, <3>1 DEF present
    <3> QED BY <3>1, <3>2
  <2>3. ASSUME NEW t \in Thread, DeleteSidecar(t) PROVE A
    <3>1. op[t] = "delete"
      BY <2>3 DEF DeleteSidecar, at, TypeInv, PlacesOK, PlaceOK
    <3>2. \A c \in CID : present(c) /\ ~present(c)' => cname[c] = proxyName[name[t]]
      BY <2>1, <2>3 DEF DeleteSidecar, namesakes, present
    <3> QED BY <3>1, <3>2
  <2>4. CASE ~\E t \in Thread : DeleteRemove(t) \/ DeleteSidecar(t)
    BY <2>4, OthersRemoveNone DEF NoneRemoved
  <2> QED BY <2>2, <2>3, <2>4
<1> HIDE DEF A
<1>2. Spec => [][A]_vars
  BY <1>1, ContainersNotMixedUp, PTL DEF Spec
<1> QED BY <1>2 DEF RemovedByName, A

-----------------------------------------------------------------------------
(* With one request at a time, Docker holds nothing that has no entry.     *)

deleting(n) == \E t \in Thread : op[t] = "delete" /\ name[t] = n
held(n) == n \in sidecars \/ containersOf(n) # {}
good(c) == c = Nil \/ (c \in CID /\ present(c))

\* What Docker holds for a sandbox has an entry in the map and in the file, or the
\* sandbox is being deleted, or in doubt.
OwnedInv ==
  \A n \in Name \ doubt : held(n) /\ ~deleting(n) =>
    /\ up => sandboxes[n] # Nil
    /\ Unhurt => disk[n].present

\* A container that the daemon knows of is there.
KnownInv ==
  \A n \in Name \ doubt : ~deleting(n) =>
    /\ sandboxes[n] # Nil => good(ContainerID[n][sandboxes[n]])
    /\ good(disk[n].ContainerID)
    /\ \A t \in Thread : good(snap[t][n].ContainerID)

\* What a delete leaves at each step.
DeleteInv ==
  \A t \in Thread : op[t] = "delete" /\ name[t] \notin doubt =>
    /\ pc[t] = "inspect" => good(ContainerID[name[t]][ptr[t]])
    /\ pc[t] = "remove" => containersOf(name[t]) = {cid[t]}
    /\ pc[t] = "sidecar" => containersOf(name[t]) = {}
    /\ pc[t] \in Saving => ~held(name[t])
    /\ pc[t] \in {"truncate", "write"} => snap[t][name[t]].ContainerID = Nil

\* A container that a start has created is there.
CreatedInv == \A t \in Thread : pc[t] \in {"start", "record"} => present(cid[t])

OrphanInv == OwnedInv /\ KnownInv /\ DeleteInv /\ CreatedInv

\* Docker's containers and sidecars are as they were.
DockerSame ==
  /\ cname' = cname /\ sidecars' = sidecars
  /\ \A c \in CID : present(c)' <=> present(c)

\* Then Docker holds the same for every sandbox.
LEMMA SameHeld ==
  ASSUME DockerSame
  PROVE  /\ \A n \in Name : /\ containersOf(n)' = containersOf(n)
                            /\ held(n)' <=> held(n)
         /\ \A c : good(c) => good(c)'
<1>1. \A n \in Name : containersOf(n)' = containersOf(n)
  BY DEF DockerSame, containersOf
<1> QED BY <1>1 DEF DockerSame, held, good

\* A step of a request that deletes nothing.
LEMMA OwnedKeeps ==
  ASSUME Sequential, OwnedInv, DockerSame, doubt' = doubt, NEW t \in Thread,
         op[t] # "delete", op'[t] # "delete", up' = up,
         up => \A n \in Name : sandboxes[n] # Nil => sandboxes'[n] # Nil,
         Unhurt' => \/ Unhurt /\ disk' = disk
                    \/ up /\ \A n \in Name : sandboxes[n] # Nil => disk'[n].present
  PROVE  OwnedInv' /\ DeleteInv'
<1>1. \A u \in Thread : u = t
  BY DEF Sequential
<1>2. DeleteInv'
  BY <1>1 DEF DeleteInv
<1>3. \A n \in Name : ~deleting(n)
  BY <1>1 DEF deleting
<1> QED BY <1>2, <1>3, SameHeld DEF OwnedInv

\* What the daemon knows after the step it knew before, or it is good.
StillGood(n) ==
  n \notin doubt =>
    /\ sandboxes'[n] # Nil => good(ContainerID'[n][sandboxes'[n]])
    /\ good(disk'[n].ContainerID)
    /\ \A t \in Thread : good(snap'[t][n].ContainerID)

\* Such a step keeps KnownInv.
LEMMA KnownKeeps ==
  ASSUME DockerSame, doubt' = doubt, \A n \in Name : StillGood(n) PROVE KnownInv'
<1> SUFFICES ASSUME NEW n \in Name, n \notin doubt
             PROVE  (/\ sandboxes[n] # Nil => good(ContainerID[n][sandboxes[n]])
                     /\ good(disk[n].ContainerID)
                     /\ \A t \in Thread : good(snap[t][n].ContainerID))'
  BY DEF KnownInv
<1>1. \A c : good(c) => (c = Nil \/ (c \in CID /\ present(c)'))
  BY SameHeld DEF good
<1> QED BY <1>1 DEF StillGood, good, present

\* While nothing is being deleted, KnownInv is about every sandbox.
LEMMA KnownNow ==
  ASSUME Sequential, KnownInv, NEW t \in Thread, op[t] # "delete", NEW n \in Name, n \notin doubt
  PROVE  /\ sandboxes[n] # Nil => good(ContainerID[n][sandboxes[n]])
         /\ good(disk[n].ContainerID)
         /\ \A u \in Thread : good(snap[u][n].ContainerID)
<1>1. ~deleting(n)
  BY DEF Sequential, deleting
<1> QED BY <1>1 DEF KnownInv

\* Nothing known is not wrong.
LEMMA GoodNil == good(Nil) /\ \A n \in Name : good(NoSandboxes[n].ContainerID)
  BY NoSandboxesOf DEF good

\* A request that deletes nothing and leaves the map, the objects' container IDs and
\* the file alone.
LEMMA OrphanQuiet ==
  ASSUME Sequential, OrphanInv, DockerSame, NEW t \in Thread, op[t] # "delete", op'[t] # "delete",
         UNCHANGED <<up, sandboxes, ContainerID, disk, doubt>>, pc[t] # "write",
         \A u \in Thread : snap'[u] \in {snap[u], NoSandboxes},
         (pc[t] \in {"start", "record"} => present(cid[t]))'
  PROVE  OrphanInv'
<1>1. \A u \in Thread : u = t
  BY DEF Sequential
<1>2. Unhurt
  BY <1>1 DEF Unhurt
<1>3. OwnedInv' /\ DeleteInv'
  BY <1>2, OwnedKeeps DEF OrphanInv
<1>4. \A n \in Name : StillGood(n)
  BY KnownNow, GoodNil DEF StillGood, OrphanInv
<1>5. KnownInv'
  BY <1>4, KnownKeeps
<1>6. CreatedInv'
  BY <1>1 DEF CreatedInv, present
<1> QED BY <1>3, <1>5, <1>6 DEF OrphanInv

\* The process dies.
LEMMA OrphanDie ==
  ASSUME die, UNCHANGED docker,
         \A n \in Name \ doubt : ~deleting(n) => /\ held(n) => disk'[n].present
                                                 /\ good(disk'[n].ContainerID)
  PROVE  OrphanInv'
<1> USE DEF die, docker
<1>1. \A n \in Name \ doubt' : n \notin doubt /\ ~deleting(n)
  BY DEF deleting
<1>2. DockerSame
  BY DEF DockerSame, present
<1>3. OwnedInv'
  BY <1>1, <1>2, SameHeld DEF OwnedInv
<1>4. KnownInv'
  <2>1. \A c : good(c) => (c = Nil \/ (c \in CID /\ present(c)'))
    BY <1>2, SameHeld DEF good
  <2>2. \A n \in Name : sandboxes'[n] = Nil /\ \A t \in Thread : snap'[t][n].ContainerID = Nil
    BY NoSandboxesOf
  <2> QED BY <1>1, <2>1, <2>2 DEF KnownInv, good, present
<1>5. DeleteInv' /\ CreatedInv'
  BY DEF DeleteInv, CreatedInv, Nil
<1> QED BY <1>3, <1>4, <1>5 DEF OrphanInv

\* Crashes, restarts and what happens in Docker leave no orphan.
LEMMA OrphanEnvironment ==
  Sequential /\ TypeInv /\ FileInv /\ AnswersInv /\ OrphanInv /\ Environment => OrphanInv'
<1> SUFFICES ASSUME Sequential, TypeInv, FileInv, AnswersInv, OrphanInv, Environment PROVE OrphanInv'
  OBVIOUS
<1> USE DEF memory, storage, locals, history
<1>1. CASE Crash
  <2>1. die /\ UNCHANGED docker /\ disk' = disk /\ Unhurt
    BY <1>1 DEF Crash, Sequential, may, Unhurt
  <2> QED BY <2>1, OrphanDie DEF OrphanInv, OwnedInv, KnownInv
<1>2. ~ConcurrentMapAccess
  BY DEF ConcurrentMapAccess, Sequential
<1>3. CASE Restart
  <2>1. /\ UNCHANGED <<disk, doubt, op, name, pc, cid, snap, docker>> /\ ~up
        /\ \A t \in Thread : pc[t] = "idle" /\ op[t] = Nil
    BY <1>3 DEF Restart, FileInv, TypeInv, PlacesOK, PlaceOK
  <2>2. DockerSame /\ Unhurt /\ \A n \in Name : ~deleting(n) /\ ~deleting(n)'
    BY <2>1 DEF DockerSame, present, docker, Unhurt, deleting, Nil
  <2>3. \A n \in Name : /\ sandboxes'[n] # Nil <=> disk[n].present
                        /\ sandboxes'[n] # Nil => ContainerID'[n][sandboxes'[n]] = disk[n].ContainerID
    BY <1>3, FirstGen DEF Restart, TypeInv, TypeOK
  <2>4. OwnedInv'
    BY <2>1, <2>2, <2>3, SameHeld DEF OrphanInv, OwnedInv
  <2>5. KnownInv'
    <3>1. \A n \in Name : StillGood(n)
      BY <2>1, <2>2, <2>3 DEF StillGood, OrphanInv, KnownInv
    <3> QED BY <2>1, <2>2, <3>1, KnownKeeps
  <2>6. DeleteInv' /\ CreatedInv'
    BY <2>1 DEF DeleteInv, CreatedInv, Nil
  <2> QED BY <2>4, <2>5, <2>6 DEF OrphanInv
<1>4. ASSUME NEW c \in CID, ContainerExits(c) PROVE OrphanInv'
  <2>1. UNCHANGED <<up, sandboxes, ContainerID, disk, doubt, op, name, ptr, pc, cid, snap>>
    BY <1>4 DEF ContainerExits
  <2>2. DockerSame
    BY <1>4 DEF ContainerExits, DockerSame, present, TypeInv, TypeOK
  <2>3. (Unhurt' <=> Unhurt) /\ \A n : deleting(n)' <=> deleting(n)
    BY <2>1 DEF Unhurt, deleting
  <2>4. OwnedInv'
    BY <2>1, <2>2, <2>3, SameHeld DEF OrphanInv, OwnedInv
  <2>5. KnownInv'
    BY <2>1, <2>2, <2>3, SameHeld DEF OrphanInv, KnownInv
  <2>6. DeleteInv'
    BY <2>1, <2>2, SameHeld DEF OrphanInv, DeleteInv, TypeInv, PlacesOK, PlaceOK
  <2>7. CreatedInv'
    BY <2>1, <2>2 DEF OrphanInv, CreatedInv, DockerSame, TypeInv, PlacesOK, PlaceOK
  <2> QED BY <2>4, <2>5, <2>6, <2>7 DEF OrphanInv
<1>5. ASSUME NEW n \in Name, SidecarStarts(n) PROVE OrphanInv'
  <2>1. /\ UNCHANGED <<up, sandboxes, ContainerID, disk, doubt, op, name, ptr, pc, cid, snap, cname, cstate>>
        /\ sidecars' = sidecars \cup {n} /\ sandboxes[n] # Nil /\ answered[n] = "created"
    BY <1>5 DEF SidecarStarts
  <2>2. (Unhurt' <=> Unhurt) /\ \A m : deleting(m)' <=> deleting(m)
    BY <2>1 DEF Unhurt, deleting
  <2>3. \A m \in Name : containersOf(m)' = containersOf(m)
    BY <2>1 DEF containersOf, present
  <2>4. \A m \in Name \ {n} : held(m)' <=> held(m)
    BY <2>1, <2>3 DEF held
  <2>5. OwnedInv'
    BY <2>1, <2>2, <2>4 DEF OrphanInv, OwnedInv, AnswersInv, AnswersFit
  <2>6. KnownInv' /\ CreatedInv'
    BY <2>1, <2>2 DEF OrphanInv, KnownInv, CreatedInv, good, present
  <2>7. DeleteInv'
    <3>1. \A t \in Thread : op[t] = "delete" => name[t] \in Name \ {n}
      BY <2>1 DEF AnswersInv, TypeInv, PlacesOK, PlaceOK
    <3>2. \A t \in Thread : op[t] = "delete" =>
            /\ containersOf(name[t])' = containersOf(name[t])
            /\ held(name[t])' <=> held(name[t])
      BY <2>1, <2>3, <2>4, <3>1 DEF containersOf, present, held
    <3> QED BY <2>1, <3>2 DEF OrphanInv, DeleteInv, good, present
  <2> QED BY <2>5, <2>6, <2>7 DEF OrphanInv
<1> QED BY <1>1, <1>2, <1>3, <1>4, <1>5 DEF Environment

\* Nor does a request that arrives.
LEMMA OrphanRequest ==
  ASSUME Sequential, TypeInv, OrphanInv, NEW t \in Thread, Request(t) PROVE OrphanInv'
<1> USE DEF memory, storage, docker, locals, history, begin, goto, at
<1>1. /\ pc[t] = "idle" /\ op[t] # "delete" /\ pc \in [Thread -> Label]
      /\ op \in [Thread -> {Nil, "create", "delete", "start", "stop", "list", "exit"}]
      /\ name \in [Thread -> Name \cup {Nil}] /\ ptr \in [Thread -> Pointer]
      /\ sandboxes \in [Name -> Pointer]
  BY DEF Request, CreateRuntime, DeleteRuntime, StartRuntime, StopRuntime, ListRuntimes, Stop,
         TypeInv, TypeOK, PlacesOK, PlaceOK, Nil
<1>2. \A u \in Thread : u = t
  BY DEF Sequential
<1>3. DockerSame
  BY DEF Request, CreateRuntime, DeleteRuntime, StartRuntime, StopRuntime, ListRuntimes, Stop,
         DockerSame, present
<1>4. CASE ListRuntimes(t) \/ Stop(t)
           \/ \E n \in Name : CreateRuntime(t, n) \/ StartRuntime(t, n) \/ StopRuntime(t, n)
  <2>1. /\ UNCHANGED <<up, sandboxes, ContainerID, disk, doubt, snap>> /\ op'[t] # "delete"
        /\ pc'[t] \notin {"start", "record"}
    BY <1>1, <1>4 DEF ListRuntimes, Stop, CreateRuntime, StartRuntime, StopRuntime
  <2> QED BY <1>1, <1>3, <2>1, OrphanQuiet
<1>5. ASSUME NEW n \in Name, DeleteRuntime(t, n) PROVE OrphanInv'
  <2>1. /\ UNCHANGED <<up, ContainerID, disk, doubt, snap>> /\ pc'[t] = "inspect" /\ op'[t] = "delete"
        /\ name'[t] = n /\ ptr'[t] = sandboxes[n] /\ sandboxes[n] # Nil
        /\ sandboxes' = [sandboxes EXCEPT ![n] = Nil]
    BY <1>1, <1>5 DEF DeleteRuntime
  <2>2. Unhurt /\ Unhurt' /\ \A m \in Name : ~deleting(m) /\ (deleting(m)' <=> m = n)
    BY <1>1, <1>2, <2>1 DEF Unhurt, deleting
  <2>3. \A m \in Name \ {n} : sandboxes'[m] = sandboxes[m]
    BY <1>1, <2>1
  <2>4. OwnedInv'
    BY <1>3, <2>1, <2>2, <2>3, SameHeld DEF OrphanInv, OwnedInv
  <2>5. KnownInv'
    BY <1>3, <2>1, <2>2, <2>3, SameHeld DEF OrphanInv, KnownInv
  <2>6. n \notin doubt => good(ContainerID[n][sandboxes[n]])
    BY <2>1, <2>2 DEF OrphanInv, KnownInv
  <2>7. DeleteInv'
    BY <1>2, <1>3, <2>1, <2>6, SameHeld DEF DeleteInv, Saving
  <2>8. CreatedInv'
    BY <1>2, <2>1 DEF CreatedInv
  <2> QED BY <2>4, <2>5, <2>7, <2>8 DEF OrphanInv
<1> QED BY <1>4, <1>5 DEF Request

\* The steps of a delete that talk to Docker: what they leave of other sandboxes.
LEMMA DeleteFrame ==
  ASSUME Sequential, TypeInv, NamedInv, OrphanInv,
         NEW t \in Thread, op[t] = "delete", pc[t] # "write",
         UNCHANGED <<up, sandboxes, ContainerID, disk, snap, op, name>>, doubt \subseteq doubt',
         \A n \in Name \ {name[t]} : held(n)' => held(n),
         \A n \in Name \ {name[t]} : n \notin doubt' => \A c : Of(c, n) /\ good(c) => good(c)'
  PROVE  OwnedInv' /\ KnownInv'
<1>1. \A u \in Thread : u = t
  BY DEF Sequential
<1>2. Unhurt /\ \A n : (deleting(n) <=> n = name[t]) /\ (deleting(n)' <=> n = name[t])
  BY <1>1 DEF Unhurt, deleting
<1>3. OwnedInv'
  BY <1>2 DEF OrphanInv, OwnedInv
<1>4. \A n \in Name : /\ sandboxes[n] # Nil => Of(ContainerID[n][sandboxes[n]], n)
                      /\ Of(disk[n].ContainerID, n) /\ Of(snap[t][n].ContainerID, n)
  BY DEF NamedInv, KeptInv, TypeInv, TypeOK, Pointer
<1>5. KnownInv'
  BY <1>1, <1>2, <1>4 DEF OrphanInv, KnownInv
<1> QED BY <1>3, <1>5

\* The three steps in which a delete talks to Docker.
LEMMA OrphanDelete ==
  ASSUME Sequential, TypeInv, DockerInv, NamedInv, OrphanInv, NEW t \in Thread,
         DeleteInspect(t) \/ DeleteRemove(t) \/ DeleteSidecar(t)
  PROVE  OrphanInv'
<1> USE DEF memory, storage, docker, locals, history, goto, at
<1>1. \A u \in Thread : u = t
  BY DEF Sequential
<1>2. /\ op[t] = "delete" /\ name[t] \in Name /\ ptr[t] \in Gen /\ pc[t] # "write"
      /\ pc[t] = "remove" => cid[t] \in CID
      /\ pc \in [Thread -> Label] /\ cid \in [Thread -> Ref]
      /\ UNCHANGED <<up, sandboxes, ContainerID, disk, snap, op, name, ptr, cname>>
      /\ cstate \in [CID -> {"unused", "created", "running", "exited", "removed"}]
  BY DEF DeleteInspect, DeleteRemove, DeleteSidecar, TypeInv, TypeOK, PlacesOK, PlaceOK
<1>3. CASE DeleteInspect(t)
  <2> DEFINE known == ContainerID[name[t]][ptr[t]]
             found == IF known # Nil THEN {c \in {known} : present(c)} ELSE containersOf(name[t])
  <2>1. cstate' = cstate /\ sidecars' \subseteq sidecars /\ doubt \subseteq doubt'
    BY <1>3 DEF DeleteInspect, inDoubt
  <2>2. (\A n : containersOf(n)' = containersOf(n)) /\ \A c : good(c) => good(c)'
    BY <1>2, <2>1 DEF containersOf, good, present
  <2>3. \A n : held(n)' => held(n)
    BY <2>1, <2>2 DEF held
  <2>4. OwnedInv' /\ KnownInv'
    BY <1>2, <2>1, <2>2, <2>3, DeleteFrame
  <2>5. \/ \E c \in found : cid'[t] = c /\ pc'[t] = "remove"
        \/ pc'[t] = "sidecar" /\ (found = {} \/ name[t] \in doubt')
    BY <1>2, <1>3 DEF DeleteInspect, inDoubt
  <2>6. ASSUME name[t] \notin doubt
        PROVE  (\A c \in found : containersOf(name[t]) = {c}) /\ (found = {} => containersOf(name[t]) = {})
    <3>1. good(known) /\ Of(known, name[t])
      BY <1>2, <1>3, <2>6 DEF OrphanInv, DeleteInv, DeleteInspect, NamedInv, KeptInv
    <3>2. found \subseteq containersOf(name[t])
      BY <3>1 DEF good, Of, containersOf
    <3>3. known # Nil => found = {known}
      BY <3>1 DEF good
    <3>4. \A c, d \in containersOf(name[t]) : c = d
      BY DEF DockerInv, NamesUnique, containersOf
    <3> QED BY <3>2, <3>3, <3>4
  <2> HIDE DEF found
  <2>7. DeleteInv'
    <3>1. containersOf(name[t])' = containersOf(name[t])
      BY <1>2, <2>1 DEF containersOf, present
    <3>2. name[t] \notin doubt' => name[t] \notin doubt
      BY <2>1
    <3> QED BY <1>1, <1>2, <2>5, <2>6, <3>1, <3>2 DEF DeleteInv, Saving
  <2>8. CreatedInv'
    BY <1>1, <2>5 DEF CreatedInv
  <2> QED BY <2>4, <2>7, <2>8 DEF OrphanInv
<1>4. CASE DeleteRemove(t)
  <2>1. /\ pc[t] = "remove" /\ cid[t] \in CID /\ cname[cid[t]] = name[t]
        /\ sidecars' = sidecars /\ doubt \subseteq doubt' /\ pc'[t] = "sidecar"
        /\ cstate' = [cstate EXCEPT ![cid[t]] = "removed"] \/ (cstate' = cstate /\ name[t] \in doubt')
    BY <1>2, <1>4 DEF DeleteRemove, inDoubt, NamedInv, MeantInv
  <2>2. \A c \in CID : (present(c)' => present(c)) /\ (c # cid[t] /\ present(c) => present(c)')
    BY <1>2, <2>1 DEF present
  <2>3. \A n \in Name : held(n)' => held(n)
    BY <1>2, <2>1, <2>2 DEF held, containersOf
  <2>4. \A n \in Name \ {name[t]} : \A c : Of(c, n) /\ good(c) => good(c)'
    BY <2>1, <2>2 DEF Of, good
  <2>5. OwnedInv' /\ KnownInv'
    BY <1>2, <2>1, <2>3, <2>4, DeleteFrame
  <2>6. DeleteInv'
    <3>1. name[t] \notin doubt' => containersOf(name[t])' = {}
      <4> SUFFICES ASSUME name[t] \notin doubt' PROVE containersOf(name[t])' = {}
        OBVIOUS
      <4>1. containersOf(name[t]) = {cid[t]} /\ cstate'[cid[t]] = "removed"
        BY <1>2, <2>1 DEF OrphanInv, DeleteInv
      <4>2. containersOf(name[t])' \subseteq containersOf(name[t])
        BY <1>2, <2>2 DEF containersOf
      <4>3. cid[t] \notin containersOf(name[t])'
        BY <4>1 DEF containersOf, present
      <4> QED BY <4>1, <4>2, <4>3
    <3> QED BY <1>1, <1>2, <2>1, <3>1 DEF DeleteInv, Saving
  <2>7. CreatedInv'
    BY <1>1, <2>1 DEF CreatedInv
  <2> QED BY <2>5, <2>6, <2>7 DEF OrphanInv
<1>5. CASE DeleteSidecar(t)
  <2>1. /\ pc[t] = "sidecar" /\ doubt \subseteq doubt' /\ pc'[t] = "save"
        /\ sidecars' \subseteq sidecars
        /\ name[t] \notin sidecars' \/ name[t] \in doubt'
    BY <1>2, <1>5 DEF DeleteSidecar, inDoubt
  <2>2. \A c \in CID : /\ present(c)' => present(c)
                       /\ present(c) /\ cname[c] \notin doubt' => present(c)'
    BY <1>2, <1>5 DEF DeleteSidecar, present
  <2>3. \A n : containersOf(n)' \subseteq containersOf(n)
    BY <1>2, <2>2 DEF containersOf
  <2>4. \A n : held(n)' => held(n)
    BY <2>1, <2>3 DEF held
  <2>5. \A n \in Name : n \notin doubt' => \A c : Of(c, n) /\ good(c) => good(c)'
    BY <2>2 DEF Of, good
  <2>6. OwnedInv' /\ KnownInv'
    BY <1>2, <2>1, <2>4, <2>5, DeleteFrame
  <2>7. name[t] \notin doubt' => ~held(name[t])'
    BY <1>2, <2>1, <2>3 DEF OrphanInv, DeleteInv, held
  <2>8. DeleteInv'
    BY <1>1, <1>2, <2>1, <2>7 DEF DeleteInv
  <2>9. CreatedInv'
    BY <1>1, <2>1 DEF CreatedInv
  <2> QED BY <2>6, <2>8, <2>9 DEF OrphanInv
<1> QED BY <1>3, <1>4, <1>5

\* saveState, for a delete as for the others.
LEMMA OrphanSave ==
  ASSUME Sequential, TypeInv, FileInv, AnswersInv, OrphanInv, NEW t \in Thread,
         Marshal(t) \/ Truncate(t) \/ Write(t)
  PROVE  OrphanInv'
<1> USE DEF memory, storage, docker, locals, history, goto, at
<1>1. \A u \in Thread : u = t
  BY DEF Sequential
<1>2. /\ up /\ UNCHANGED <<up, sandboxes, ContainerID, doubt, cname, cstate, sidecars>>
      /\ pc[t] \in Saving /\ pc \in [Thread -> Label] /\ snap \in [Thread -> Snapshot]
      /\ op \in [Thread -> {Nil, "create", "delete", "start", "stop", "list", "exit"}]
      /\ op[t] = "delete" => name[t] \in Name /\ sandboxes[name[t]] = Nil
  BY DEF Marshal, Truncate, Write, Saving, TypeInv, TypeOK, PlacesOK, PlaceOK, AnswersInv
<1>3. DockerSame
  BY <1>2 DEF DockerSame, present
<1>4. \A n \in Name \ doubt : ~deleting(n) =>
        /\ sandboxes[n] # Nil => good(ContainerID[n][sandboxes[n]])
        /\ good(disk[n].ContainerID)
        /\ good(snap[t][n].ContainerID)
  BY DEF OrphanInv, KnownInv
<1>5. \A c : good(c) => good(c)'
  BY <1>3, SameHeld
<1>6. \A n \in Name : held(n)' <=> held(n)
  BY <1>3, SameHeld
<1>7. CASE Marshal(t)
  <2>1. /\ UNCHANGED <<op, name, disk>> /\ pc[t] = "save" /\ pc'[t] = "truncate"
        /\ snap'[t] = marshalled
    BY <1>2, <1>7 DEF Marshal
  <2>2. Unhurt /\ \A n : deleting(n)' <=> deleting(n)
    BY <1>1, <2>1 DEF Unhurt, deleting
  <2>3. OwnedInv'
    BY <1>2, <1>6, <2>1, <2>2 DEF OrphanInv, OwnedInv
  <2>4. \A n \in Name : snap'[t][n].ContainerID =
                          IF sandboxes[n] = Nil THEN Nil ELSE ContainerID[n][sandboxes[n]]
    BY <2>1, Marshalled DEF TypeInv
  <2>5. \A n \in Name \ doubt : ~deleting(n) => good(snap'[t][n].ContainerID)
    BY <1>4, <2>4, GoodNil
  <2>6. KnownInv'
    BY <1>1, <1>2, <1>4, <1>5, <2>1, <2>2, <2>5 DEF KnownInv, good, present
  <2>7. DeleteInv'
    BY <1>1, <1>2, <1>6, <2>1, <2>4 DEF OrphanInv, DeleteInv, Saving
  <2>8. CreatedInv'
    BY <1>1, <2>1 DEF CreatedInv
  <2> QED BY <2>3, <2>6, <2>7, <2>8 DEF OrphanInv
<1>8. CASE Truncate(t)
  <2>1. /\ UNCHANGED <<op, name, snap>> /\ pc[t] = "truncate" /\ pc'[t] = "write"
        /\ disk' = NoSandboxes
    BY <1>2, <1>8 DEF Truncate
  <2>2. ~Unhurt' /\ \A n : deleting(n)' <=> deleting(n)
    BY <1>1, <2>1 DEF Unhurt, deleting
  <2>3. OwnedInv'
    BY <1>2, <1>6, <2>1, <2>2 DEF OrphanInv, OwnedInv
  <2>4. \A n \in Name : good(disk'[n].ContainerID)
    BY <2>1, GoodNil
  <2>5. KnownInv'
    BY <1>1, <1>2, <1>4, <1>5, <2>1, <2>2, <2>4 DEF KnownInv, good, present
  <2>6. DeleteInv'
    BY <1>1, <1>2, <1>6, <2>1 DEF OrphanInv, DeleteInv, Saving
  <2>7. CreatedInv'
    BY <1>1, <2>1 DEF CreatedInv
  <2> QED BY <2>3, <2>5, <2>6, <2>7 DEF OrphanInv
<1>9. CASE Write(t)
  <2>1. /\ pc[t] = "write" /\ pc'[t] = "idle" /\ op'[t] = Nil /\ snap'[t] = NoSandboxes
    BY <1>2, <1>9 DEF Write, finish
  <2>2. disk' = snap[t] /\ \A n \in Name : disk'[n].present <=> sandboxes[n] # Nil
    BY <1>9, <2>1 DEF Write, writeFile, FileInv
  <2>3. \A n : deleting(n) => op[t] = "delete" /\ name[t] = n
    BY <1>1 DEF deleting
  <2>4. \A n \in Name \ doubt : deleting(n) =>
          ~held(n) /\ sandboxes[n] = Nil /\ good(snap[t][n].ContainerID)
    BY <1>2, <2>1, <2>3, GoodNil DEF OrphanInv, DeleteInv, Saving
  <2>5. OwnedInv'
    BY <1>2, <1>6, <2>2, <2>4 DEF OrphanInv, OwnedInv
  <2>6. \A n \in Name : StillGood(n)
    BY <1>1, <1>2, <1>4, <2>1, <2>2, <2>4, GoodNil DEF StillGood
  <2>7. KnownInv'
    BY <1>2, <1>3, <2>6, KnownKeeps
  <2>8. DeleteInv' /\ CreatedInv'
    BY <1>1, <2>1 DEF DeleteInv, CreatedInv, Nil
  <2> QED BY <2>5, <2>7, <2>8 DEF OrphanInv
<1> QED BY <1>7, <1>8, <1>9

\* The create request to Docker, for a sandbox whose entry is in the map and in the
\* file.
LEMMA OrphanCreate ==
  ASSUME Sequential, TypeInv, FileInv, NamedInv, OrphanInv, NEW t \in Thread, CreateContainer(t)
  PROVE  OrphanInv'
<1> USE DEF memory, storage, docker, locals, history, goto, at
<1>1. \A u \in Thread : u = t
  BY DEF Sequential
<1>2. /\ up /\ UNCHANGED <<up, sandboxes, ContainerID, disk, doubt, sidecars>> /\ pc[t] = "create"
      /\ op[t] = "start" /\ name[t] \in Name /\ ptr[t] \in Gen
      /\ pc \in [Thread -> Label] /\ snap \in [Thread -> Snapshot] /\ cid \in [Thread -> Ref]
      /\ op \in [Thread -> {Nil, "create", "delete", "start", "stop", "list", "exit"}]
      /\ cname \in [CID -> Name \cup {Nil}]
      /\ cstate \in [CID -> {"unused", "created", "running", "exited", "removed"}]
  BY DEF CreateContainer, TypeInv, TypeOK, PlacesOK, PlaceOK, Starting
<1>3. sandboxes[name[t]] # Nil /\ disk[name[t]].present
  BY <1>1, <1>2, FirstGen DEF FileInv, Clean, Starting, Saving
<1>4. /\ op'[t] \in {"start", Nil} /\ pc'[t] \in {"start", "idle"}
      /\ snap'[t] \in {snap[t], NoSandboxes}
  BY <1>2 DEF CreateContainer, finish
<1>5. op'[t] # "delete" /\ op[t] # "delete"
  BY <1>2, <1>4 DEF Nil
<1>6. Unhurt /\ \A n : ~deleting(n) /\ ~deleting(n)'
  BY <1>1, <1>2, <1>5 DEF Unhurt, deleting
<1>7. CASE UNCHANGED <<cname, cstate>> /\ finish(t)
  <2>1. DockerSame /\ pc'[t] = "idle"
    BY <1>2, <1>7 DEF DockerSame, present, finish
  <2> QED BY <1>1, <1>2, <1>4, <1>5, <2>1, OrphanQuiet
<1>8. ASSUME NEW c \in CID, cstate[c] = "unused", cname' = [cname EXCEPT ![c] = name[t]],
             cstate' = [cstate EXCEPT ![c] = "created"],
             cid' = [cid EXCEPT ![t] = c] \/ finish(t)
      PROVE  OrphanInv'
  <2>1. /\ present(c)' /\ ~present(c)
        /\ \A d \in CID \ {c} : (present(d)' <=> present(d)) /\ cname'[d] = cname[d]
    BY <1>2, <1>8 DEF present
  <2>2. \A n \in Name \ {name[t]} : containersOf(n)' = containersOf(n)
    BY <1>2, <1>8, <2>1 DEF containersOf
  <2>3. \A n \in Name \ {name[t]} : held(n)' <=> held(n)
    BY <1>2, <2>2 DEF held
  <2>4. OwnedInv'
    BY <1>2, <1>3, <1>6, <2>3 DEF OrphanInv, OwnedInv
  <2>5. \A d : good(d) => (d = Nil \/ (d \in CID /\ present(d)'))
    BY <2>1 DEF good
  <2>6. \A n \in Name \ doubt : /\ sandboxes[n] # Nil => good(ContainerID[n][sandboxes[n]])
                                /\ good(disk[n].ContainerID) /\ good(snap'[t][n].ContainerID)
    BY <1>4, <1>6, GoodNil DEF OrphanInv, KnownInv
  <2>7. KnownInv'
    <3> SUFFICES ASSUME NEW n \in Name \ doubt
                 PROVE  (/\ sandboxes[n] # Nil => good(ContainerID[n][sandboxes[n]])
                         /\ good(disk[n].ContainerID)
                         /\ \A u \in Thread : good(snap[u][n].ContainerID))'
      BY <1>2 DEF KnownInv
    <3> QED BY <1>1, <1>2, <2>5, <2>6 DEF good, present
  <2>8. DeleteInv'
    BY <1>1, <1>5 DEF DeleteInv
  <2>9. pc'[t] = "start" => cid'[t] = c
    BY <1>2, <1>8 DEF finish
  <2>10. CreatedInv'
    BY <1>1, <1>4, <2>1, <2>9 DEF CreatedInv, present
  <2> QED BY <2>4, <2>7, <2>8, <2>10 DEF OrphanInv
<1> QED BY <1>7, <1>8 DEF CreateContainer

\* A step of a lone request leaves no orphan.
LEMMA OrphanStep ==
  ASSUME Sequential, TypeInv, FileInv, AnswersInv, DockerInv, NamedInv, OrphanInv,
         NEW t \in Thread, Step(t)
  PROVE  OrphanInv'
<1> USE DEF memory, storage, docker, locals, history, goto, at
<1>1. \A u \in Thread : u = t
  BY DEF Sequential
<1>2. /\ pc \in [Thread -> Label] /\ snap \in [Thread -> Snapshot]
      /\ op \in [Thread -> {Nil, "create", "delete", "start", "stop", "list", "exit"}]
      /\ sandboxes \in [Name -> Pointer] /\ ContainerID \in [Name -> [Gen -> Ref]]
      /\ cstate \in [CID -> {"unused", "created", "running", "exited", "removed"}]
      /\ PlaceOK(t)
  BY DEF TypeInv, TypeOK, PlacesOK
<1>3. CASE CreateInsert(t)
  <2> DEFINE g == CHOOSE g \in unreferenced(name[t]) : TRUE
  <2>1. g \in Gen /\ g # Nil
    BY <1>3, FirstGen DEF CreateInsert, unreferenced
  <2>2. /\ UNCHANGED <<up, disk, op, name, snap, doubt, cname, cstate, sidecars>>
        /\ pc[t] = "insert" /\ pc'[t] = "save"
        /\ sandboxes' = [sandboxes EXCEPT ![name[t]] = g]
        /\ ContainerID' = [ContainerID EXCEPT ![name[t]][g] = Nil]
    BY <1>2, <1>3 DEF CreateInsert
  <2>3. op[t] # "delete" /\ op'[t] # "delete" /\ name[t] \in Name
    BY <1>2, <2>2 DEF PlaceOK
  <2> HIDE DEF g
  <2>4. DockerSame /\ Unhurt
    BY <1>1, <2>2 DEF DockerSame, present, Unhurt
  <2>5. \A n \in Name : sandboxes[n] # Nil => sandboxes'[n] # Nil
    BY <1>2, <2>1, <2>2, <2>3
  <2>6. OwnedInv' /\ DeleteInv'
    BY <2>2, <2>3, <2>4, <2>5, OwnedKeeps DEF OrphanInv
  <2>7. \A n \in Name : \/ sandboxes'[n] = sandboxes[n] /\ ContainerID'[n] = ContainerID[n]
                        \/ ContainerID'[n][sandboxes'[n]] = Nil
    BY <1>2, <2>1, <2>2, <2>3
  <2>8. \A n \in Name : StillGood(n)
    BY <2>2, <2>3, <2>7, KnownNow, GoodNil DEF OrphanInv, StillGood
  <2>9. KnownInv'
    BY <2>2, <2>4, <2>8, KnownKeeps
  <2>10. CreatedInv'
    BY <1>1, <2>2 DEF CreatedInv
  <2> QED BY <2>6, <2>9, <2>10 DEF OrphanInv
<1>4. CASE DeleteInspect(t) \/ DeleteRemove(t) \/ DeleteSidecar(t)
  BY <1>4, OrphanDelete
<1>5. CASE StartCheck(t) \/ EnsureNetwork(t) \/ CreateNetwork(t) \/ PullImage(t)
  <2>1. /\ UNCHANGED <<up, sandboxes, ContainerID, disk, doubt, cname, cstate, sidecars>>
        /\ pc[t] \in Starting
        /\ finish(t) \/ UNCHANGED locals
        /\ pc'[t] \notin {"start", "record"}
    BY <1>2, <1>5 DEF StartCheck, EnsureNetwork, CreateNetwork, PullImage, finish, Starting
  <2>2. op[t] = "start" /\ op'[t] \in {"start", Nil} /\ snap'[t] \in {snap[t], NoSandboxes}
    BY <1>2, <2>1 DEF PlaceOK, finish
  <2>3. op[t] # "delete" /\ op'[t] # "delete" /\ pc[t] # "write"
    BY <2>1, <2>2 DEF Nil, Starting
  <2>4. DockerSame /\ \A u \in Thread : snap'[u] \in {snap[u], NoSandboxes}
    BY <1>1, <2>1, <2>2 DEF DockerSame, present
  <2> QED BY <2>1, <2>3, <2>4, OrphanQuiet
<1>6. CASE CreateContainer(t)
  BY <1>6, OrphanCreate
<1>7. CASE StartContainer(t)
  <2>1. /\ UNCHANGED <<up, sandboxes, ContainerID, disk, doubt, cname, sidecars>>
        /\ pc[t] = "start"
        /\ finish(t) \/ (UNCHANGED locals /\ pc'[t] = "record")
        /\ cstate' = cstate \/ cstate' = [cstate EXCEPT ![cid[t]] = "running"]
    BY <1>2, <1>7 DEF StartContainer
  <2>2. cid[t] \in CID /\ present(cid[t])
    BY <1>2, <2>1 DEF PlaceOK, OrphanInv, CreatedInv
  <2>3. op[t] = "start" /\ op'[t] \in {"start", Nil} /\ snap'[t] \in {snap[t], NoSandboxes}
    BY <1>2, <2>1 DEF PlaceOK, finish, Starting
  <2>4. op[t] # "delete" /\ op'[t] # "delete" /\ pc[t] # "write"
    BY <2>1, <2>3 DEF Nil
  <2>5. DockerSame
    BY <1>2, <2>1, <2>2 DEF DockerSame, present
  <2>6. \A u \in Thread : snap'[u] \in {snap[u], NoSandboxes}
    BY <1>1, <2>3
  <2>7. (pc[t] \in {"start", "record"} => present(cid[t]))'
    <3>1. pc'[t] = "idle" \/ cid'[t] = cid[t]
      BY <1>2, <2>1 DEF finish
    <3>2. present(cid[t])' \/ pc'[t] = "idle"
      BY <2>2, <2>5, <3>1 DEF DockerSame, present
    <3> QED BY <3>2
  <2> QED BY <2>1, <2>4, <2>5, <2>6, <2>7, OrphanQuiet
<1>8. CASE StartRecord(t)
  <2>1. /\ UNCHANGED <<up, disk, op, name, snap, doubt, cname, cstate, sidecars, sandboxes>>
        /\ pc[t] = "record" /\ pc'[t] = "mark"
        /\ ContainerID' = [ContainerID EXCEPT ![name[t]][ptr[t]] = cid[t]]
    BY <1>2, <1>8 DEF StartRecord
  <2>2. op[t] # "delete" /\ op'[t] # "delete" /\ name[t] \in Name /\ ptr[t] \in Gen
    BY <1>2, <2>1 DEF PlaceOK, Starting
  <2>3. good(cid[t])
    BY <1>2, <2>1 DEF PlaceOK, OrphanInv, CreatedInv, good
  <2>4. DockerSame /\ Unhurt
    BY <1>1, <2>1 DEF DockerSame, present, Unhurt
  <2>5. OwnedInv' /\ DeleteInv'
    BY <2>1, <2>2, <2>4, OwnedKeeps DEF OrphanInv
  <2>6. \A n \in Name : sandboxes[n] # Nil =>
          \/ ContainerID'[n][sandboxes[n]] = ContainerID[n][sandboxes[n]]
          \/ ContainerID'[n][sandboxes[n]] = cid[t]
    BY <1>2, <2>1, <2>2 DEF Pointer
  <2>7. \A n \in Name : StillGood(n)
    BY <2>1, <2>2, <2>3, <2>6, KnownNow DEF OrphanInv, StillGood
  <2>8. KnownInv'
    BY <2>1, <2>4, <2>7, KnownKeeps
  <2>9. CreatedInv'
    BY <1>1, <2>1 DEF CreatedInv
  <2> QED BY <2>5, <2>8, <2>9 DEF OrphanInv
<1>9. CASE StartMark(t) \/ StopContainer(t) \/ StopMark(t) \/ Reinsert(t)
  <2>1. /\ UNCHANGED <<up, ContainerID, disk, doubt, op, snap, cname, sidecars>>
        /\ pc[t] \in {"mark", "stop", "unmark", "reinsert"} /\ pc'[t] \in {"reinsert", "unmark", "save"}
    BY <1>2, <1>9 DEF StartMark, StopContainer, StopMark, Reinsert
  <2>2. op[t] \in {"start", "stop"} /\ sandboxes[name[t]] = ptr[t]
    BY <1>2, <2>1 DEF PlaceOK, FileInv, Starting
  <2>3. sandboxes' = sandboxes
    BY <1>2, <1>9, <2>2 DEF StartMark, StopContainer, StopMark, Reinsert
  <2>4. DockerSame
    BY <1>2, <1>9, <2>1 DEF StartMark, StopContainer, StopMark, Reinsert, DockerSame, present
  <2>5. op[t] # "delete" /\ op'[t] # "delete" /\ pc[t] # "write" /\ pc'[t] \notin {"start", "record"}
    BY <2>1, <2>2
  <2> QED BY <2>1, <2>3, <2>4, <2>5, OrphanQuiet
<1>10. CASE ListApply(t)
  <2>1. /\ UNCHANGED <<up, disk, doubt, cname, cstate, sidecars, sandboxes>>
        /\ pc[t] = "apply" /\ pc'[t] = "idle" /\ op'[t] = Nil /\ snap'[t] = NoSandboxes
    BY <1>2, <1>10 DEF ListApply, finish
  <2>2. op[t] # "delete" /\ op'[t] # "delete"
    BY <1>2, <2>1 DEF PlaceOK, Nil
  <2>3. DockerSame /\ Unhurt
    BY <1>1, <2>1 DEF DockerSame, present, Unhurt
  <2>4. OwnedInv' /\ DeleteInv'
    BY <2>1, <2>2, <2>3, OwnedKeeps DEF OrphanInv
  <2>5. \A n \in Name : sandboxes[n] # Nil =>
          ContainerID'[n][sandboxes[n]] \in {ContainerID[n][sandboxes[n]], Nil}
    BY <1>2, <1>10 DEF ListApply, learnt, update, Pointer
  <2>6. \A n \in Name : StillGood(n)
    BY <1>1, <2>1, <2>2, <2>5, KnownNow, GoodNil DEF OrphanInv, StillGood
  <2>7. KnownInv'
    BY <2>1, <2>3, <2>6, KnownKeeps
  <2>8. CreatedInv'
    BY <1>1, <2>1 DEF CreatedInv
  <2> QED BY <2>4, <2>7, <2>8 DEF OrphanInv
<1>11. CASE Marshal(t) \/ Truncate(t) \/ Write(t)
  BY <1>11, OrphanSave
<1>12. CASE SaveFails(t)
  BY <1>12 DEF SaveFails, saveFails, Sequential, may
<1>13. CASE StopSaved(t)
  <2>1. /\ pc[t] = "write" /\ writeFile(t) /\ up /\ op[t] = "exit" /\ pc'[t] = "shutdown"
        /\ UNCHANGED <<up, sandboxes, ContainerID, doubt, op, name, snap, cname, cstate, sidecars>>
    BY <1>2, <1>13 DEF StopSaved, saveFails, Sequential, may
  <2>2. disk' = snap[t] /\ \A n \in Name : snap[t][n].present <=> sandboxes[n] # Nil
    BY <2>1 DEF writeFile, FileInv
  <2>3. DockerSame /\ op[t] # "delete" /\ op'[t] # "delete"
    BY <2>1 DEF DockerSame, present
  <2>4. OwnedInv' /\ DeleteInv'
    BY <2>1, <2>2, <2>3, OwnedKeeps DEF OrphanInv
  <2>5. \A n \in Name : StillGood(n)
    BY <2>1, <2>2, <2>3, KnownNow DEF OrphanInv, StillGood
  <2>6. KnownInv'
    BY <2>1, <2>3, <2>5, KnownKeeps
  <2>7. CreatedInv'
    BY <1>1, <2>1 DEF CreatedInv
  <2> QED BY <2>4, <2>6, <2>7 DEF OrphanInv
<1>14. CASE Exit(t)
  <2>1. die /\ UNCHANGED <<docker, disk>> /\ Unhurt
    BY <1>1, <1>14 DEF Exit, Unhurt
  <2> QED BY <2>1, OrphanDie DEF OrphanInv, OwnedInv, KnownInv
<1> QED BY <1>3, <1>4, <1>5, <1>6, <1>7, <1>8, <1>9, <1>10, <1>11, <1>12, <1>14, <1>13 DEF Step

\* With one request at a time, OrphanInv holds throughout.
LEMMA OrphanNext ==
  ASSUME Sequential, TypeInv, FileInv, AnswersInv, DockerInv, NamedInv, OrphanInv, [Next]_vars
  PROVE  OrphanInv'
<1>1. CASE UNCHANGED vars
  <2>1. /\ UNCHANGED <<up, sandboxes, ContainerID, disk, doubt, op, name, ptr, pc, cid, snap>>
        /\ UNCHANGED <<cname, cstate, sidecars>>
    BY <1>1 DEF vars, memory, storage, docker, locals, history
  <2>2. (Unhurt' <=> Unhurt) /\ \A n : /\ deleting(n)' <=> deleting(n)
                                       /\ containersOf(n)' = containersOf(n)
    BY <2>1 DEF Unhurt, deleting, containersOf, present
  <2>3. (\A n : held(n)' <=> held(n)) /\ \A c : good(c)' <=> good(c)
    BY <2>1, <2>2 DEF held, good, present
  <2>4. OwnedInv'
    BY <2>1, <2>2, <2>3 DEF OrphanInv, OwnedInv
  <2>5. KnownInv'
    BY <2>1, <2>2 DEF OrphanInv, KnownInv, good, present
  <2>6. DeleteInv' /\ CreatedInv'
    BY <2>1, <2>2, <2>3 DEF OrphanInv, DeleteInv, CreatedInv, good, present, held, containersOf
  <2> QED BY <2>4, <2>5, <2>6 DEF OrphanInv
<1> QED BY <1>1, OrphanEnvironment, OrphanRequest, OrphanStep DEF Next

\* Docker holds nothing at the start.
LEMMA OrphanInit == Init => OrphanInv
<1> SUFFICES ASSUME Init PROVE OrphanInv
  OBVIOUS
<1>1. \A n : ~held(n)
  BY DEF Init, held, containersOf, present
<1>2. OwnedInv
  BY <1>1 DEF OwnedInv
<1>3. KnownInv
  BY GoodNil DEF Init, KnownInv
<1>4. DeleteInv /\ CreatedInv
  BY DEF Init, DeleteInv, CreatedInv, Nil
<1> QED BY <1>2, <1>3, <1>4 DEF OrphanInv

\* With one request at a time, and a file that is written whole, Docker holds no
\* container and no sidecar without an entry to delete it by, whatever other calls
\* fail and wherever between two steps the daemon crashes, unless a delete of that
\* sandbox failed or was cut off, or a delete of the one whose sidecar would have its
\* name removed its container (daemon.go:387-422, 771-805).
THEOREM RuntimeNoOrphans == Sequential => (Spec => []NoOrphans)
<1> SUFFICES ASSUME Sequential PROVE Spec => []NoOrphans
  OBVIOUS
<1> DEFINE Inv == TypeInv /\ FileInv /\ AnswersInv /\ DockerInv /\ NamedInv /\ OrphanInv
<1>1. Init => Inv
  <2>1. Init => AnswersInv
    BY DEF Init, AnswersInv, AnswersFit, Saving, Nil
  <2>2. Init => DockerInv
    BY DEF Init, DockerInv, DockerType, NamesUnique, present
  <2> QED BY <2>1, <2>2, TypeInit, FileInit, NamedInit, OrphanInit
<1>2. Inv /\ [Next]_vars => Inv'
  BY TypeStep, FileNext, AnswersNext, NextKeepsInv, NamedNext, OrphanNext
<1>3. Inv => NoOrphans
  <2> SUFFICES ASSUME Inv, quiet PROVE NoOrphans
    BY DEF NoOrphans
  <2>1. \A n : ~deleting(n)
    BY DEF quiet, TypeInv, PlacesOK, PlaceOK, deleting, Nil
  <2>2. \A n \in Name : held(n) => sandboxes[n] # Nil \/ n \in doubt
    BY <2>1 DEF quiet, OrphanInv, OwnedInv
  <2>3. \A c \in CID : present(c) => cname[c] \in Name /\ held(cname[c])
    BY DEF NamedInv, NamesInv, held, containersOf, present
  <2>4. \A n \in sidecars : n \in Name /\ held(n)
    BY DEF TypeInv, TypeOK, held
  <2> QED BY <2>2, <2>3, <2>4 DEF NoOrphans
<1> QED BY <1>1, <1>2, <1>3, PTL DEF Spec
=============================================================================
