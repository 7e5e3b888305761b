------------------------------- MODULE Runtime -------------------------------
(***************************************************************************)
(* internal/daemon: the life of a sandbox.  The /runtime handlers run      *)
(* concurrently, one goroutine per request; d.mu protects the map of       *)
(* sandboxes but not the objects in it, and is not held across the Docker  *)
(* calls (list excepted) nor while the state file is written.              *)
(*                                                                         *)
(* A handler is a pc.  A locked section, a Docker call and an access to an *)
(* object outside the lock are one step each.  The secrets that start also *)
(* installs and pushes, and the policy handlers, touch none of this state. *)
(***************************************************************************)
EXTENDS Integers, FiniteSets

CONSTANTS
  Name,     \* sandbox names
  Thread,   \* bound: requests in progress at once
  Gen,      \* the objects (*SandboxState) a name's entry can point to
  CID,      \* bound: the containers Docker ever creates
  proxyName, \* proxyName[n]: the sandbox called n with "-proxy" appended, Nil if none
  Faults    \* which calls may fail and which crashes may happen

Nil == "nil"

ASSUME GenAssumption == IsFiniteSet(Thread) /\ Gen # {} /\ Nil \notin Gen
ASSUME CIDAssumption == IsFiniteSet(CID) /\ Nil \notin CID
ASSUME NameAssumption == Nil \notin Name
ASSUME ThreadAssumption == Nil \notin Thread

\* Names are not validated: one sandbox may have the name of another's sidecar.
ASSUME ProxyAssumption ==
  /\ proxyName \in [Name -> Name \cup {Nil}]
  /\ \A m, n \in Name : proxyName[n] # n /\ (m # n /\ proxyName[m] = proxyName[n] => proxyName[n] = Nil)

\* "create", "start", "stop", "inspect" (from list): that Docker call may fail.
\* "delete": any Docker call of the delete handler may fail.  "crash": the
\* process may die between two steps; "torn": also while it writes the file.
\* "save": os.WriteFile may fail.
ASSUME FaultsAssumption ==
  Faults \subseteq {"create", "start", "stop", "inspect", "delete", "crash", "torn", "save"}

may(f) == f \in Faults

VARIABLES
  up,           \* the daemon process is alive
  mutex,        \* the thread that holds d.mu across steps (only list does)
  sandboxes,    \* d.sandboxes: the object each name's entry points to
  ContainerID,  \* the fields of the objects that matter here
  Running,
  file,         \* sandboxes.json: "absent", "empty", "garbled" or "complete"
  disk,         \* what loadState would make of it
  cname,        \* Docker: the sandbox a container was named after
  cstate,       \* Docker: its state
  sidecars,     \* Docker: the sandboxes whose "-proxy" container exists
  network,      \* Docker: the sandbox network exists
  pc, op, name, \* per request: where it is, what it does, to which sandbox
  ptr,          \* ... its local variable state
  cid,          \* ... the container it created or found
  snap,         \* ... what saveState marshalled
  seen,         \* what list has learnt from Docker while it holds the lock
  answered,     \* history: the last create or delete the client has seen end
  doubt         \* history: the sandboxes a delete of which failed or was cut off, or
                \* whose container the delete of another has removed

memory == <<sandboxes, ContainerID, Running>>
storage == <<file, disk>>
docker == <<cname, cstate, sidecars, network>>
history == <<answered, doubt>>
locals == <<op, name, ptr, cid, snap>>
vars == <<up, mutex, memory, storage, docker, pc, locals, seen, history>>

Pointer == Gen \cup {Nil}
Ref == CID \cup {Nil}
Absent == [ContainerID |-> Nil, Running |-> FALSE, present |-> FALSE]
Entry == [ContainerID : Ref, Running : BOOLEAN, present : BOOLEAN]
Snapshot == [Name -> Entry]
NoSandboxes == [n \in Name |-> Absent]

Label == {"idle", "insert", "inspect", "remove", "sidecar", "check", "network",
          "mknetwork", "pull", "create", "start", "record", "mark", "stop", "unmark", "reinsert", "apply",
          "save", "truncate", "write", "shutdown"}

TypeOK ==
  /\ up \in BOOLEAN
  /\ mutex \in Thread \cup {Nil}
  /\ sandboxes \in [Name -> Pointer]
  /\ ContainerID \in [Name -> [Gen -> Ref]]
  /\ Running \in [Name -> [Gen -> BOOLEAN]]
  /\ file \in {"absent", "empty", "garbled", "complete"}
  /\ disk \in Snapshot
  /\ cname \in [CID -> Name \cup {Nil}]
  /\ cstate \in [CID -> {"unused", "created", "running", "exited", "removed"}]
  /\ sidecars \subseteq Name
  /\ network \in BOOLEAN
  /\ pc \in [Thread -> Label]
  /\ op \in [Thread -> {Nil, "create", "delete", "start", "stop", "list", "exit"}]
  /\ name \in [Thread -> Name \cup {Nil}]
  /\ ptr \in [Thread -> Pointer]
  /\ cid \in [Thread -> Ref]
  /\ snap \in [Thread -> Snapshot]
  /\ seen \in [Name -> {"skip", "error", "running", "stopped"}]
  /\ answered \in [Name -> {Nil, "created", "deleted"}]
  /\ doubt \subseteq Name

Init ==
  /\ up = TRUE /\ mutex = Nil
  /\ sandboxes = [n \in Name |-> Nil]
  /\ ContainerID = [n \in Name |-> [g \in Gen |-> Nil]]
  /\ Running = [n \in Name |-> [g \in Gen |-> FALSE]]
  /\ file = "absent" /\ disk = NoSandboxes
  /\ cname = [c \in CID |-> Nil]
  /\ cstate = [c \in CID |-> "unused"]
  /\ sidecars = {}
  /\ network = FALSE
  /\ pc = [t \in Thread |-> "idle"]
  /\ op = [t \in Thread |-> Nil]
  /\ name = [t \in Thread |-> Nil]
  /\ ptr = [t \in Thread |-> Nil]
  /\ cid = [t \in Thread |-> Nil]
  /\ snap = [t \in Thread |-> NoSandboxes]
  /\ seen = [n \in Name |-> "skip"]
  /\ answered = [n \in Name |-> Nil]
  /\ doubt = {}

-----------------------------------------------------------------------------
(* Docker, and the steps all handlers share.                               *)

present(c) == cstate[c] \in {"created", "running", "exited"}
containersOf(n) == {c \in CID : cname[c] = n /\ present(c)}

\* Sidecars and the sandboxes' own containers share Docker's name space: the
\* sandboxes with a sidecar that is named like n's container, and the sandbox with
\* a container that is named like n's sidecar.
proxiesNamed(n) == {m \in sidecars : proxyName[m] = n}
namesakes(n) == {m \in Name : m = proxyName[n] /\ containersOf(m) # {}}

nameInUse(n) == containersOf(n) # {} \/ proxiesNamed(n) # {}

at(t, l) == up /\ pc[t] = l
goto(t, l) == pc' = [pc EXCEPT ![t] = l]
unlocked == mutex = Nil

\* A request arrives and is routed to a handler.
begin(t, o, n, p, l) ==
  /\ at(t, "idle")
  /\ goto(t, l)
  /\ op' = [op EXCEPT ![t] = o]
  /\ name' = [name EXCEPT ![t] = n]
  /\ ptr' = [ptr EXCEPT ![t] = p]
  /\ UNCHANGED <<cid, snap>>

\* The handler answers and its goroutine ends.
finish(t) ==
  /\ goto(t, "idle")
  /\ op' = [op EXCEPT ![t] = Nil]
  /\ name' = [name EXCEPT ![t] = Nil]
  /\ ptr' = [ptr EXCEPT ![t] = Nil]
  /\ cid' = [cid EXCEPT ![t] = Nil]
  /\ snap' = [snap EXCEPT ![t] = NoSandboxes]

\* The process is gone, and with it everything that is not on disk.
die ==
  /\ up' = FALSE /\ mutex' = Nil
  /\ sandboxes' = [n \in Name |-> Nil]
  /\ ContainerID' = [n \in Name |-> [g \in Gen |-> Nil]]
  /\ Running' = [n \in Name |-> [g \in Gen |-> FALSE]]
  /\ pc' = [t \in Thread |-> "idle"]
  /\ op' = [t \in Thread |-> Nil]
  /\ name' = [t \in Thread |-> Nil]
  /\ ptr' = [t \in Thread |-> Nil]
  /\ cid' = [t \in Thread |-> Nil]
  /\ snap' = [t \in Thread |-> NoSandboxes]
  /\ seen' = [n \in Name |-> "skip"]
  /\ doubt' = doubt \cup {name[t] : t \in {t \in Thread : op[t] = "delete"}}

-----------------------------------------------------------------------------
(* saveState, the last thing a handler that changes the map does.          *)

\* Marshals the map and the objects without the lock.
marshalled ==
  [n \in Name |->
     IF sandboxes[n] = Nil THEN Absent
     ELSE [ContainerID |-> ContainerID[n][sandboxes[n]],
           Running |-> Running[n][sandboxes[n]], present |-> TRUE]]

Marshal(t) ==
  /\ at(t, "save")
  /\ snap' = [snap EXCEPT ![t] = marshalled]
  /\ goto(t, "truncate")
  /\ UNCHANGED <<up, mutex, memory, storage, docker, op, name, ptr, cid, seen, history>>

\* os.WriteFile opens the file with O_TRUNC ...
Truncate(t) ==
  /\ at(t, "truncate")
  /\ file' = "empty" /\ disk' = NoSandboxes
  /\ goto(t, "write")
  /\ UNCHANGED <<up, mutex, memory, docker, locals, seen, history>>

\* ... and writes from offset 0.  Over what another handler has written since
\* the truncation, a shorter text leaves a tail that is not JSON.
writeFile(t) ==
  \/ file' = "complete" /\ disk' = snap[t]
  \/ /\ file = "garbled" \/ (file = "complete" /\ disk # snap[t])
     /\ file' = "garbled" /\ disk' = NoSandboxes

\* History: a delete during which the name was created again is not recorded.
acknowledged(t) ==
  CASE op[t] = "create" -> [answered EXCEPT ![name[t]] = "created"]
    [] op[t] = "delete" -> [answered EXCEPT ![name[t]] = IF @ = Nil THEN "deleted" ELSE @]
    [] OTHER -> answered

Write(t) ==
  /\ at(t, "write")
  /\ op[t] # "exit"
  /\ writeFile(t)
  /\ answered' = acknowledged(t)
  /\ finish(t)
  /\ UNCHANGED <<up, mutex, memory, docker, seen, doubt>>

\* os.WriteFile cannot open the file, or has truncated it and cannot write: the
\* error is logged and the request answered as if it had been saved.
saveFails(t) ==
  /\ may("save")
  /\ at(t, "truncate") \/ at(t, "write")
  /\ UNCHANGED storage

SaveFails(t) ==
  /\ saveFails(t)
  /\ op[t] # "exit"
  /\ answered' = acknowledged(t)
  /\ finish(t)
  /\ UNCHANGED <<up, mutex, memory, docker, seen, doubt>>

\* Daemon.Stop saves ...
Stop(t) ==
  /\ begin(t, "exit", Nil, Nil, "save")
  /\ UNCHANGED <<up, mutex, memory, storage, docker, seen, history>>

StopSaved(t) ==
  /\ op[t] = "exit"
  /\ (at(t, "write") /\ writeFile(t)) \/ saveFails(t)
  /\ goto(t, "shutdown")
  /\ UNCHANGED <<up, mutex, memory, docker, locals, seen, history>>

\* ... and then shuts the server down.  Requests in progress go on, and are cut
\* off with the process when they do not end within five seconds.
Exit(t) ==
  /\ at(t, "shutdown")
  /\ die
  /\ UNCHANGED <<storage, docker, answered>>

Crash ==
  /\ up /\ may("crash")
  /\ may("torn") \/ \A t \in Thread : pc[t] # "write"
  /\ die
  /\ UNCHANGED <<storage, docker, answered>>

\* The map is written, under the lock, while saveState iterates over it without:
\* the Go runtime ends the process.
ConcurrentMapAccess ==
  /\ up
  /\ \E t, u \in Thread :
       /\ t # u /\ pc[t] = "save"
       /\ \/ pc[u] \in {"insert", "reinsert"}
          \/ pc[u] = "idle" /\ \E n \in Name : sandboxes[n] # Nil
  /\ unlocked
  /\ die
  /\ UNCHANGED <<storage, docker, answered>>

firstGen == CHOOSE g \in Gen : TRUE

\* NewDaemon and loadState.  Without a file, or with one that does not parse,
\* the daemon starts with no sandboxes.
Restart ==
  /\ ~up
  /\ up' = TRUE
  /\ sandboxes' = [n \in Name |-> IF disk[n].present THEN firstGen ELSE Nil]
  /\ ContainerID' = [n \in Name |-> [ContainerID[n] EXCEPT ![firstGen] = disk[n].ContainerID]]
  /\ Running' = [n \in Name |-> [Running[n] EXCEPT ![firstGen] = disk[n].Running]]
  /\ UNCHANGED <<mutex, storage, docker, pc, locals, seen, history>>

-----------------------------------------------------------------------------
(* handleCreateRuntime.                                                    *)

\* The name is looked up under the lock, which is then released.  A name in use
\* is refused with 409 and nothing changes.
CreateRuntime(t, n) ==
  /\ unlocked
  /\ sandboxes[n] = Nil
  /\ begin(t, "create", n, Nil, "insert")
  /\ UNCHANGED <<up, mutex, memory, storage, docker, seen, history>>

\* Objects of name n that neither the map nor a request points to.
unreferenced(n) ==
  {g \in Gen : g # sandboxes[n] /\ \A t \in Thread : ~(name[t] = n /\ ptr[t] = g)}

\* Mutant: the request is answered without a saveState.
CreateInsert_NoSave(t) ==
  LET n == name[t]
      g == CHOOSE g \in unreferenced(n) : TRUE
  IN /\ at(t, "insert") /\ unlocked
     /\ unreferenced(n) # {}
     /\ sandboxes' = [sandboxes EXCEPT ![n] = g]
     /\ ContainerID' = [ContainerID EXCEPT ![n][g] = Nil]
     /\ Running' = [Running EXCEPT ![n][g] = FALSE]
     /\ answered' = acknowledged(t)
     /\ finish(t)
     /\ UNCHANGED <<up, mutex, storage, docker, seen, doubt>>

\* A new object is put into the map, whatever is there by now.
CreateInsert(t) ==
  LET n == name[t]
      g == CHOOSE g \in unreferenced(n) : TRUE
  IN /\ at(t, "insert") /\ unlocked
     /\ unreferenced(n) # {}
     /\ sandboxes' = [sandboxes EXCEPT ![n] = g]
     /\ ContainerID' = [ContainerID EXCEPT ![n][g] = Nil]
     /\ Running' = [Running EXCEPT ![n][g] = FALSE]
     /\ answered' = [answered EXCEPT ![n] = Nil]
     /\ goto(t, "save")
     /\ UNCHANGED <<up, mutex, storage, docker, locals, seen, doubt>>

-----------------------------------------------------------------------------
(* handleDeleteRuntime.                                                    *)

\* A Docker call of the delete fails, which is only logged.
inDoubt(t) == may("delete") /\ doubt' = doubt \cup {name[t]}

DeleteRuntime(t, n) ==
  /\ unlocked
  /\ sandboxes[n] # Nil
  /\ begin(t, "delete", n, sandboxes[n], "inspect")
  /\ sandboxes' = [sandboxes EXCEPT ![n] = Nil]
  /\ answered' = [answered EXCEPT ![n] = Nil]
  /\ UNCHANGED <<up, mutex, ContainerID, Running, storage, docker, seen, doubt>>

\* Mutant: without a container ID there is nothing to look for.
DeleteInspect_OnlyByID(t) ==
  LET c == ContainerID[name[t]][ptr[t]]
  IN /\ at(t, "inspect")
     /\ IF c # Nil /\ present(c)
        THEN cid' = [cid EXCEPT ![t] = c] /\ goto(t, "remove")
        ELSE cid' = cid /\ goto(t, "sidecar")
     /\ UNCHANGED <<up, mutex, memory, storage, docker, op, name, ptr, snap, seen, history>>

\* Mutant: whatever container the list has is taken for the sandbox's.
DeleteInspect_AnyName(t) ==
  LET c == ContainerID[name[t]][ptr[t]]
      found == IF c # Nil THEN {d \in {c} : present(d)} ELSE {d \in CID : present(d)}
  IN /\ at(t, "inspect")
     /\ \/ \E d \in found : cid' = [cid EXCEPT ![t] = d] /\ goto(t, "remove")
        \/ found = {} /\ cid' = cid /\ goto(t, "sidecar")
     /\ UNCHANGED <<up, mutex, memory, storage, docker, op, name, ptr, snap, seen, history>>

\* With a container ID: that container, if inspect finds it, and no other.
\* Without: the container of the sandbox's name, which may also be the sidecar of
\* another sandbox.
DeleteInspect(t) ==
  LET n == name[t]
      known == ContainerID[n][ptr[t]]
      found == IF known # Nil THEN {c \in {known} : present(c)} ELSE containersOf(n)
      proxies == IF known # Nil THEN {} ELSE proxiesNamed(n)
  IN /\ at(t, "inspect")
     /\ \/ /\ \E c \in found : cid' = [cid EXCEPT ![t] = c]
           /\ goto(t, "remove")
           /\ UNCHANGED <<sidecars, doubt>>
        \/ /\ found = {}
           /\ sidecars' = sidecars \ proxies
           /\ goto(t, "sidecar")
           /\ UNCHANGED <<cid, doubt>>
        \/ /\ inDoubt(t)
           /\ goto(t, "sidecar")
           /\ UNCHANGED <<cid, sidecars>>
     /\ UNCHANGED <<up, mutex, memory, storage, cname, cstate, network, op, name, ptr, snap,
                    seen, answered>>

\* RemoveContainer forces; a container that is gone already is fine, and a
\* failure is only logged.
DeleteRemove(t) ==
  /\ at(t, "remove")
  /\ \/ cstate' = [cstate EXCEPT ![cid[t]] = "removed"] /\ doubt' = doubt
     \/ inDoubt(t) /\ cstate' = cstate
  /\ goto(t, "sidecar")
  /\ UNCHANGED <<up, mutex, memory, storage, cname, sidecars, network, locals, seen, answered>>

\* Mutant: nothing is saved after a delete.
DeleteSidecar_NoSave(t) ==
  /\ at(t, "sidecar")
  /\ sidecars' = sidecars \ {name[t]}
  /\ finish(t)
  /\ UNCHANGED <<up, mutex, memory, storage, cname, cstate, network, seen, history>>

\* Whatever is called like the sandbox's sidecar is removed: the sidecar, or the
\* container of another sandbox.
DeleteSidecar(t) ==
  LET others == namesakes(name[t])
  IN /\ at(t, "sidecar")
     /\ \/ /\ sidecars' = sidecars \ {name[t]}
           /\ cstate' = [c \in CID |->
                IF present(c) /\ cname[c] \in others THEN "removed" ELSE cstate[c]]
           /\ doubt' = doubt \cup others
        \/ inDoubt(t) /\ UNCHANGED <<sidecars, cstate>>
     /\ goto(t, "save")
     /\ UNCHANGED <<up, mutex, memory, storage, cname, network, locals, seen, answered>>

-----------------------------------------------------------------------------
(* handleStartRuntime.                                                     *)

StartRuntime(t, n) ==
  /\ unlocked
  /\ sandboxes[n] # Nil
  /\ begin(t, "start", n, sandboxes[n], "check")
  /\ UNCHANGED <<up, mutex, memory, storage, docker, seen, history>>

\* state.Running is read without the lock; TRUE is answered with 409.
StartCheck(t) ==
  /\ at(t, "check")
  /\ \/ ~Running[name[t]][ptr[t]] /\ goto(t, "network") /\ UNCHANGED locals
     \/ Running[name[t]][ptr[t]] /\ finish(t)
  /\ UNCHANGED <<up, mutex, memory, storage, docker, seen, history>>

\* ensureNetwork asks for the network.  An answer other than 200 counts as "not
\* there", a request that fails ends the start with 500.
EnsureNetwork(t) ==
  /\ at(t, "network")
  /\ \/ network /\ goto(t, "pull") /\ UNCHANGED locals
     \/ (~network \/ may("create")) /\ goto(t, "mknetwork") /\ UNCHANGED locals
     \/ may("create") /\ finish(t)
  /\ UNCHANGED <<up, mutex, memory, storage, docker, seen, history>>

\* Docker refuses a second network with the same subnet, and the start that lost
\* the race is answered 500.
CreateNetwork(t) ==
  /\ at(t, "mknetwork")
  /\ \/ ~network /\ network' = TRUE /\ goto(t, "pull") /\ UNCHANGED locals
     \/ may("create") /\ network' = TRUE /\ finish(t)
     \/ (network \/ may("create")) /\ network' = network /\ finish(t)
  /\ UNCHANGED <<up, mutex, memory, storage, cname, cstate, sidecars, seen, history>>

\* pullImage: the image is there already, or is fetched, or the start is answered
\* 500.  When Docker cannot say whether it is there, it is fetched.
PullImage(t) ==
  /\ at(t, "pull")
  /\ \/ goto(t, "create") /\ UNCHANGED locals
     \/ may("create") /\ finish(t)
  /\ UNCHANGED <<up, mutex, memory, storage, docker, seen, history>>

\* The create request.  Docker refuses a name that is in use.  On that or another
\* error the handler answers 500, also when the container was created and only
\* the answer was lost.
CreateContainer(t) ==
  /\ at(t, "create")
  /\ \/ /\ ~nameInUse(name[t])
        /\ \E c \in CID :
             /\ cstate[c] = "unused"
             /\ cname' = [cname EXCEPT ![c] = name[t]]
             /\ cstate' = [cstate EXCEPT ![c] = "created"]
             /\ \/ /\ cid' = [cid EXCEPT ![t] = c]
                   /\ goto(t, "start")
                   /\ UNCHANGED <<op, name, ptr, snap>>
                \/ may("create") /\ finish(t)
     \/ /\ nameInUse(name[t]) \/ may("create")
        /\ finish(t)
        /\ UNCHANGED <<cname, cstate>>
  /\ UNCHANGED <<up, mutex, memory, storage, sidecars, network, seen, history>>

\* The start request.  It fails on a container that was removed meanwhile.  When
\* its answer is lost the container may have started all the same; either way
\* the handler answers 500 and leaves the container behind.
StartContainer(t) ==
  /\ at(t, "start")
  /\ \/ /\ present(cid[t])
        /\ cstate' = [cstate EXCEPT ![cid[t]] = "running"]
        /\ \/ goto(t, "record") /\ UNCHANGED locals
           \/ may("start") /\ finish(t)
     \/ /\ ~present(cid[t]) \/ may("start")
        /\ cstate' = cstate
        /\ finish(t)
  /\ UNCHANGED <<up, mutex, memory, storage, cname, sidecars, network, seen, history>>

\* Mutant: the container's name is recorded in place of its ID.
StartRecord_Name(t) ==
  /\ at(t, "record")
  /\ ContainerID' = [ContainerID EXCEPT ![name[t]][ptr[t]] = cname[cid[t]]]
  /\ goto(t, "mark")
  /\ UNCHANGED <<up, mutex, sandboxes, Running, storage, docker, locals, seen, history>>

StartRecord(t) ==
  /\ at(t, "record")
  /\ ContainerID' = [ContainerID EXCEPT ![name[t]][ptr[t]] = cid[t]]
  /\ goto(t, "mark")
  /\ UNCHANGED <<up, mutex, sandboxes, Running, storage, docker, locals, seen, history>>

StartMark(t) ==
  /\ at(t, "mark")
  /\ Running' = [Running EXCEPT ![name[t]][ptr[t]] = TRUE]
  /\ goto(t, "reinsert")
  /\ UNCHANGED <<up, mutex, sandboxes, ContainerID, storage, docker, locals, seen, history>>

\* The map entry is set to the object looked up at the start of the request
\* (in handleStartRuntime and in handleStopRuntime).
Reinsert(t) ==
  /\ at(t, "reinsert") /\ unlocked
  /\ sandboxes' = [sandboxes EXCEPT ![name[t]] = ptr[t]]
  /\ goto(t, "save")
  /\ UNCHANGED <<up, mutex, ContainerID, Running, storage, docker, locals, seen, history>>

-----------------------------------------------------------------------------
(* handleStopRuntime and handleListRuntimes.                               *)

StopRuntime(t, n) ==
  /\ unlocked
  /\ sandboxes[n] # Nil
  /\ begin(t, "stop", n, sandboxes[n], "stop")
  /\ UNCHANGED <<up, mutex, memory, storage, docker, seen, history>>

\* A failure of StopContainer is only logged.
StopContainer(t) ==
  LET c == ContainerID[name[t]][ptr[t]]
  IN /\ at(t, "stop")
     /\ \/ c # Nil /\ cstate' = [cstate EXCEPT ![c] = IF @ = "running" THEN "exited" ELSE @]
        \/ (c = Nil \/ may("stop")) /\ cstate' = cstate
     /\ goto(t, "unmark")
     /\ UNCHANGED <<up, mutex, memory, storage, cname, sidecars, network, locals, seen, history>>

StopMark(t) ==
  /\ at(t, "unmark")
  /\ Running' = [Running EXCEPT ![name[t]][ptr[t]] = FALSE]
  /\ goto(t, "reinsert")
  /\ UNCHANGED <<up, mutex, sandboxes, ContainerID, storage, docker, locals, seen, history>>

\* With the lock held, every sandbox that has a container ID is inspected.  The
\* inspections of one list are one step and the updates of the objects another.
inspected(failing) ==
  [n \in Name |->
     IF sandboxes[n] = Nil THEN "skip"
     ELSE LET c == ContainerID[n][sandboxes[n]]
          IN CASE c = Nil -> "skip"
               [] c # Nil /\ (n \in failing \/ ~present(c)) -> "error"
               [] OTHER -> IF cstate[c] = "running" THEN "running" ELSE "stopped"]

ListRuntimes(t) ==
  /\ unlocked
  /\ begin(t, "list", Nil, Nil, "apply")
  /\ mutex' = t
  /\ \E failing \in SUBSET (IF may("inspect") THEN Name ELSE {}) : seen' = inspected(failing)
  /\ UNCHANGED <<up, memory, storage, docker, history>>

\* What was learnt is written to the objects: an error makes the daemon forget
\* the container.  Nothing is saved.
update(n, field, value) ==
  IF sandboxes[n] = Nil THEN field[n] ELSE [field[n] EXCEPT ![sandboxes[n]] = value]

learnt ==
  /\ ContainerID' = [n \in Name |->
       IF seen[n] = "error" THEN update(n, ContainerID, Nil) ELSE ContainerID[n]]
  /\ Running' = [n \in Name |->
       IF seen[n] = "skip" THEN Running[n] ELSE update(n, Running, seen[n] = "running")]

\* Mutant: the lock is not released.
ListApply_KeepsLock(t) ==
  /\ at(t, "apply")
  /\ learnt
  /\ seen' = [n \in Name |-> "skip"]
  /\ finish(t)
  /\ UNCHANGED <<up, mutex, sandboxes, storage, docker, history>>

ListApply(t) ==
  /\ at(t, "apply")
  /\ learnt
  /\ seen' = [n \in Name |-> "skip"]
  /\ mutex' = Nil
  /\ finish(t)
  /\ UNCHANGED <<up, sandboxes, storage, docker, history>>

-----------------------------------------------------------------------------
(* What happens in Docker without the daemon.                              *)

ContainerExits(c) ==
  /\ cstate[c] = "running"
  /\ cstate' = [cstate EXCEPT ![c] = "exited"]
  /\ UNCHANGED <<up, mutex, memory, storage, cname, sidecars, network, pc, locals, seen, history>>

\* The daemon never starts a sidecar: whoever runs the sidecar image for a
\* sandbox does so after the create was answered, while the sandbox exists.
SidecarStarts(n) ==
  /\ up /\ sandboxes[n] # Nil /\ answered[n] = "created"
  /\ namesakes(n) = {}
  /\ sidecars' = sidecars \cup {n}
  /\ UNCHANGED <<up, mutex, memory, storage, cname, cstate, network, pc, locals, seen, history>>

-----------------------------------------------------------------------------

Request(t) ==
  \/ \E n \in Name : \/ CreateRuntime(t, n) \/ DeleteRuntime(t, n)
                     \/ StartRuntime(t, n) \/ StopRuntime(t, n)
  \/ ListRuntimes(t) \/ Stop(t)

Step(t) ==
  \/ CreateInsert(t)
  \/ DeleteInspect(t) \/ DeleteRemove(t) \/ DeleteSidecar(t)
  \/ StartCheck(t) \/ EnsureNetwork(t) \/ CreateNetwork(t) \/ PullImage(t)
  \/ CreateContainer(t) \/ StartContainer(t)
  \/ StartRecord(t) \/ StartMark(t) \/ Reinsert(t)
  \/ StopContainer(t) \/ StopMark(t) \/ ListApply(t)
  \/ Marshal(t) \/ Truncate(t) \/ Write(t) \/ SaveFails(t)
  \/ StopSaved(t) \/ Exit(t)

Environment ==
  \/ Crash \/ ConcurrentMapAccess \/ Restart
  \/ \E c \in CID : ContainerExits(c)
  \/ \E n \in Name : SidecarStarts(n)

Next == Environment \/ \E t \in Thread : Request(t) \/ Step(t)

Spec == Init /\ [][Next]_vars

\* Docker calls end within the HTTP client's 120 seconds, and sync.Mutex lets no
\* waiter starve: a request whose step is enabled again and again takes it.
Fairness == \A t \in Thread : SF_vars(Step(t))

FairSpec == Spec /\ Fairness

-----------------------------------------------------------------------------
(* Properties.                                                             *)

\* The daemon is up and no request is in progress.
quiet == up /\ \A t \in Thread : pc[t] = "idle"

\* A container is only ever removed by a delete of the sandbox it was created for,
\* however often IDs were recorded, saved, loaded, forgotten and objects reused in
\* between, or by a delete of the sandbox whose sidecar would have its name
\* (daemon.go:387-420).
RemovedByName ==
  [][\A c \in CID :
       present(c) /\ ~present(c)' =>
         \E t \in Thread : op[t] = "delete" /\ cname[c] \in {name[t], proxyName[name[t]]}]_vars

\* A container or sidecar outlives its sandbox's entry only while a request is in
\* progress: what failed starts, crashes and lost IDs leave behind still has an
\* entry to be deleted by, unless a delete of that sandbox failed or was cut off, or
\* a delete of another removed its container and left a stale ID (daemon.go:387-420).
NoOrphans ==
  quiet => /\ \A c \in CID : present(c) => sandboxes[cname[c]] # Nil \/ cname[c] \in doubt
           /\ \A n \in sidecars : sandboxes[n] # Nil \/ n \in doubt

\* What the client was told about a create or a delete is so, also after a crash
\* and restart: handlers answer only after saveState (daemon.go:323, 422).
AnswersHold ==
  quiet => \A n \in Name : /\ answered[n] = "created" => sandboxes[n] # Nil
                           /\ answered[n] = "deleted" => sandboxes[n] = Nil

\* When nothing is in progress, the state file lists the sandboxes of the map
\* (daemon.go:795-805).
SavedNames ==
  quiet => \A n \in Name : disk[n].present <=> sandboxes[n] # Nil

\* Every request is answered, unless the process dies: d.mu is released on every
\* way out of the handlers (daemon.go:296-345).
RequestsAnswered == \A t \in Thread : pc[t] # "idle" ~> pc[t] = "idle"

-----------------------------------------------------------------------------
(* Statements the code meets only for one request at a time.               *)

\* daemon_test.go:190-209: a second create of a name is refused with 409.  A
\* request past its check is answered 201, so it must be alone.
DuplicateRefused == \A t \in Thread : pc[t] = "insert" => sandboxes[name[t]] = Nil

\* daemon.go:423: "Deleted sandbox %q (container + proxy sidecar + network cleaned
\* up)".  A sandbox whose last request to be answered was its delete has left
\* nothing in Docker.
DeleteCleansUp ==
  quiet => \A n \in Name :
             answered[n] = "deleted" => containersOf(n) = {} /\ n \notin sidecars
=============================================================================
