----------------------------- MODULE Propagation -----------------------------
(***************************************************************************)
(* internal/daemon and cmd/proxy-sidecar: how policy rules and secrets get *)
(* from the daemon to the sidecars.  A handler changes the daemon's list,  *)
(* takes a snapshot of it, collects the running sandboxes and posts the    *)
(* snapshot to their sidecars one after the other, by docker exec; the     *)
(* engine's lock, the secret manager's and d.mu cover one of these steps   *)
(* each.                                                                   *)
(*                                                                         *)
(* A rule is a number that is never used twice.  A docker exec that was    *)
(* cut off is taken to leave nothing running in the sidecar's container.   *)
(***************************************************************************)
EXTENDS Integers, FiniteSets, FiniteSetsExt, Secrets

CONSTANTS
  Name,         \* sandbox names, and their sidecars
  Thread,       \* bound: requests in progress at once
  SecretLists,  \* the secret lists clients post, the empty one among them
  OwnLists,     \* those that sandboxes are created with
  MaxRule,      \* bound: the rules ever added, the defaults among them
  MaxLists,     \* bound: the lists of rules and of secrets the daemon ever has
  Texts,        \* headers and bodies
  Faults        \* which calls may fail, and whether the daemon may restart

Nil == "nil"
Defaults == {1, 2}
Rule == 1 .. MaxRule
Kind == {"policy", "secrets"}

ASSUME BoundsAssumption == MaxRule \in Nat /\ MaxRule >= 2 /\ MaxLists \in Nat
ASSUME ListsAssumption == << >> \in SecretLists /\ OwnLists \subseteq SecretLists
ASSUME TextsAssumption == SecretLists \subseteq Seq(CustomSecret) /\ Texts \subseteq Text
ASSUME FaultsAssumption == Faults \subseteq {"create", "list", "exec", "restart"}
ASSUME NamesAssumption == Nil \notin Name
ASSUME ThreadsAssumption == IsFiniteSet(Thread)

may(f) == f \in Faults

\* What a sidecar starts with: the default rules, and no secrets.
Boot == [policy |-> Defaults, secrets |-> << >>]
Value == [policy |-> SUBSET Rule, secrets |-> SecretLists]

VARIABLES
  past,      \* the daemon's rules and secrets: all the lists it has had
  running,   \* the sandboxes d.sandboxes has as Running
  alive,     \* the sidecars that run
  copy,      \* the rules and secrets each sidecar has in memory
  pc,        \* per request: where it is
  kind,      \* ... what it propagates
  victims,   \* ... the rules it has yet to remove
  payload,   \* ... its snapshot: which of the lists in past it is
  targets,   \* ... the sandboxes it has yet to serve
  sandbox,   \* ... the sandbox it starts, or is about to post to
  pos,       \* history: which list a sidecar has; 0 is what it started with
  reached    \* history: what became of the last change, per sidecar

daemon == <<past, running>>
sidecar == <<alive, copy, pos>>
vars == <<daemon, sidecar, pc, kind, victims, payload, targets, sandbox, reached>>

TypeOK ==
  /\ \A k \in Kind : past[k] \in Seq(Value[k]) /\ past[k] # << >>
  /\ running \subseteq Name /\ alive \subseteq Name
  /\ \A k \in Kind : copy[k] \in [Name -> Value[k]]
  /\ pc \in [Thread -> {"idle", "actions", "removing", "all", "balanced", "container",
                        "started", "snapshot", "targets", "deliver", "exec"}]
  /\ kind \in [Thread -> Kind \cup {Nil}]
  /\ victims \in [Thread -> SUBSET Rule]
  /\ payload \in [Thread -> Nat]
  /\ \A t \in Thread : payload[t] > 0 => kind[t] # Nil /\ payload[t] <= Len(past[kind[t]])
  /\ targets \in [Thread -> SUBSET Name]
  /\ sandbox \in [Thread -> Name \cup {Nil}]
  /\ \A k \in Kind : pos[k] \in [Name -> 0 .. Len(past[k])]
  /\ \A k \in Kind : reached[k] \in [Name -> {"pending", "acked", "missed"}]

Init ==
  /\ past = [k \in Kind |-> <<Boot[k]>>]
  /\ running = {} /\ alive = {}
  /\ copy = [k \in Kind |-> [n \in Name |-> Boot[k]]]
  /\ pc = [t \in Thread |-> "idle"]
  /\ kind = [t \in Thread |-> Nil]
  /\ victims = [t \in Thread |-> {}]
  /\ payload = [t \in Thread |-> 0]
  /\ targets = [t \in Thread |-> {}]
  /\ sandbox = [t \in Thread |-> Nil]
  /\ pos = [k \in Kind |-> [n \in Name |-> 0]]
  /\ reached = [k \in Kind |-> [n \in Name |-> "missed"]]

-----------------------------------------------------------------------------
(* The daemon's engine and secret manager.                                 *)

current(k) == Last(past[k])
rules == current("policy")

at(t, l) == pc[t] = l
goto(t, l) == pc' = [pc EXCEPT ![t] = l]

room(i) == Len(past["policy"]) + Len(past["secrets"]) + i <= MaxLists
set(k, v) == room(1) /\ past' = [past EXCEPT ![k] = Append(@, v)]
mark(k, N, m) == [reached EXCEPT ![k] = [n \in Name |-> IF n \in N THEN m ELSE @[n]]]

\* The list is replaced; the sidecars have yet to hear of it.
change(k, v) == set(k, v) /\ reached' = mark(k, Name, "pending")

newRule == 1 + Max(UNION Range(past["policy"]) \cup Defaults)
AddRule == newRule \in Rule /\ change("policy", rules \cup {newRule})

\* RemoveRule: an identifier that is not in the list changes nothing.
RemoveRule(r) ==
  IF r \in rules THEN change("policy", rules \ {r}) ELSE UNCHANGED <<past, reached>>

\* A handler begins; its first step is part of the action that calls this.
begin(t, k, l) ==
  /\ at(t, "idle")
  /\ goto(t, l)
  /\ kind' = [kind EXCEPT ![t] = k]

\* Mutant: the snapshot is not dropped with the request.
finish_KeepsSnapshot(t) ==
  /\ goto(t, "idle")
  /\ kind' = [kind EXCEPT ![t] = Nil]
  /\ victims' = [victims EXCEPT ![t] = {}]
  /\ targets' = [targets EXCEPT ![t] = {}]
  /\ sandbox' = [sandbox EXCEPT ![t] = Nil]
  /\ UNCHANGED payload

\* The request is answered.
finish(t) ==
  /\ goto(t, "idle")
  /\ kind' = [kind EXCEPT ![t] = Nil]
  /\ victims' = [victims EXCEPT ![t] = {}]
  /\ payload' = [payload EXCEPT ![t] = 0]
  /\ targets' = [targets EXCEPT ![t] = {}]
  /\ sandbox' = [sandbox EXCEPT ![t] = Nil]

-----------------------------------------------------------------------------
(* The policy handlers.                                                    *)

\* handleApplyPolicyActions takes any number of actions, one after the other.
ApplyPolicyActions(t) ==
  /\ begin(t, "policy", "actions")
  /\ UNCHANGED <<daemon, sidecar, victims, payload, targets, sandbox, reached>>

\* "allow" and "deny".
ActionAdd(t) ==
  /\ at(t, "actions")
  /\ AddRule
  /\ UNCHANGED <<running, sidecar, pc, kind, victims, payload, targets, sandbox>>

\* "remove-id".
ActionRemoveID(t, r) ==
  /\ at(t, "actions")
  /\ RemoveRule(r)
  /\ UNCHANGED <<running, sidecar, pc, kind, victims, payload, targets, sandbox>>

\* "remove-resource": the rules with one of the given resources, as listed now.
ActionRemoveResource(t, R) ==
  /\ at(t, "actions")
  /\ R \subseteq rules /\ R # {}
  /\ victims' = [victims EXCEPT ![t] = R]
  /\ goto(t, "removing")
  /\ UNCHANGED <<daemon, sidecar, kind, payload, targets, sandbox, reached>>

ActionsDone(t) ==
  /\ at(t, "actions")
  /\ goto(t, "snapshot")
  /\ UNCHANGED <<daemon, sidecar, kind, victims, payload, targets, sandbox, reached>>

\* handleDeletePolicyRules removes what it has listed, one by one.
DeletePolicyRules(t) ==
  /\ begin(t, "policy", IF rules = {} THEN "snapshot" ELSE "all")
  /\ victims' = [victims EXCEPT ![t] = rules]
  /\ UNCHANGED <<daemon, sidecar, payload, targets, sandbox, reached>>

\* The loops of both, in the order of the list.
RemoveNext(t) ==
  LET r == Min(victims[t])
  IN /\ at(t, "removing") \/ at(t, "all")
     /\ RemoveRule(r)
     /\ victims' = [victims EXCEPT ![t] = @ \ {r}]
     /\ goto(t, IF victims[t] # {r} THEN pc[t]
                ELSE IF at(t, "all") THEN "snapshot" ELSE "actions")
     /\ UNCHANGED <<running, sidecar, kind, payload, targets, sandbox>>

\* handleDeletePolicyRuleByID; an unknown rule is answered 404.
DeletePolicyRuleByID(t, r) ==
  /\ r \in rules
  /\ begin(t, "policy", "snapshot")
  /\ RemoveRule(r)
  /\ UNCHANGED <<running, sidecar, victims, payload, targets, sandbox>>

\* handleSetPolicyProfile: one rule, or two for "balanced".  No sidecar is told.
addProfileRule ==
  /\ newRule \in Rule
  /\ set("policy", rules \cup {newRule})
  /\ reached' = mark("policy", Name, "missed")

SetPolicyProfile(t) ==
  /\ at(t, "idle")
  /\ addProfileRule
  /\ pc' = pc \/ (newRule + 1 \in Rule /\ goto(t, "balanced"))
  /\ UNCHANGED <<running, sidecar, kind, victims, payload, targets, sandbox>>

BalancedSecondRule(t) ==
  /\ at(t, "balanced")
  /\ addProfileRule
  /\ finish(t)
  /\ UNCHANGED <<running, sidecar>>

-----------------------------------------------------------------------------
(* The secrets handler, and what starting a sandbox does to the secrets.   *)

SetSecrets(t, list) ==
  /\ begin(t, "secrets", "snapshot")
  /\ change("secrets", list)
  /\ UNCHANGED <<running, sidecar, victims, payload, targets, sandbox>>

\* handleStartRuntime: the sandbox's own secrets, if it has any, replace the
\* daemon's, and do so before the container is created.
StartRuntime(t, n, own) ==
  /\ n \notin running
  /\ begin(t, "secrets", "container")
  /\ sandbox' = [sandbox EXCEPT ![t] = n]
  /\ IF own = << >> THEN UNCHANGED <<past, reached>> ELSE change("secrets", own)
  /\ UNCHANGED <<running, sidecar, victims, payload, targets>>

\* The handler answers 500; the secrets stay replaced and no sidecar is told.
ContainerFails(t) ==
  /\ at(t, "container") /\ may("create")
  /\ reached' = mark("secrets", {n \in Name : reached["secrets"][n] = "pending"}, "missed")
  /\ finish(t)
  /\ UNCHANGED <<daemon, sidecar>>

\* state.Running: from here on other requests serve the sandbox's sidecar.
ContainerStarted(t) ==
  /\ at(t, "container")
  /\ running' = running \cup {sandbox[t]}
  /\ goto(t, "started")
  /\ sandbox' = [sandbox EXCEPT ![t] = Nil]
  /\ UNCHANGED <<past, sidecar, kind, victims, payload, targets, reached>>

\* Once the state is saved: secrets are pushed to all sidecars when there are any by
\* now; rules are not.
PushSecrets(t) ==
  /\ at(t, "started")
  /\ \/ /\ current("secrets") # << >>
        /\ goto(t, "snapshot")
        /\ UNCHANGED <<kind, victims, payload, targets, sandbox>>
     \/ current("secrets") = << >> /\ finish(t)
  /\ UNCHANGED <<daemon, sidecar, reached>>

\* stop and delete, and list when it finds the container gone.
RuntimeStops(n) ==
  /\ n \in running
  /\ running' = running \ {n}
  /\ UNCHANGED <<past, sidecar, pc, kind, victims, payload, targets, sandbox, reached>>

-----------------------------------------------------------------------------
(* propagatePolicyToSidecars and propagateSecretsToSidecars.               *)

\* Mutant: the list is read before the request changes it.
Snapshot_BeforeChange(t) ==
  /\ at(t, "snapshot")
  /\ payload' = [payload EXCEPT ![t] = Max({1, Len(past[kind[t]]) - 1})]
  /\ goto(t, "targets")
  /\ UNCHANGED <<daemon, sidecar, kind, victims, targets, sandbox, reached>>

\* ListRules, or GetSecrets.
Snapshot(t) ==
  /\ at(t, "snapshot")
  /\ payload' = [payload EXCEPT ![t] = Len(past[kind[t]])]
  /\ goto(t, "targets")
  /\ UNCHANGED <<daemon, sidecar, kind, victims, targets, sandbox, reached>>

\* The names of the running sandboxes, collected under d.mu.
Targets(t) ==
  /\ at(t, "targets")
  /\ reached' = mark(kind[t], Name \ running, "missed")
  /\ \/ /\ running # {}
        /\ targets' = [targets EXCEPT ![t] = running]
        /\ goto(t, "deliver")
        /\ UNCHANGED <<kind, victims, payload, sandbox>>
     \/ running = {} /\ finish(t)
  /\ UNCHANGED <<daemon, sidecar>>

\* The loop turns to the next name, or is over.
advance(t, n) ==
  \/ /\ targets[t] # {n}
     /\ targets' = [targets EXCEPT ![t] = @ \ {n}]
     /\ sandbox' = [sandbox EXCEPT ![t] = Nil]
     /\ goto(t, "deliver")
     /\ UNCHANGED <<kind, victims, payload>>
  \/ targets[t] = {n} /\ finish(t)

\* Mutant: the loop is left where it should go on to the next sidecar.
Skip_Returns(t, n) ==
  /\ at(t, "deliver") /\ n \in targets[t]
  /\ n \notin alive \/ may("list")
  /\ reached' = mark(kind[t], {n}, "missed")
  /\ finish(t)
  /\ UNCHANGED <<daemon, sidecar>>

\* The containers cannot be listed, or the sidecar is not among those that run.
Skip(t, n) ==
  /\ at(t, "deliver") /\ n \in targets[t]
  /\ n \notin alive \/ may("list")
  /\ reached' = mark(kind[t], {n}, "missed")
  /\ advance(t, n)
  /\ UNCHANGED <<daemon, sidecar>>

FindSidecar(t, n) ==
  /\ at(t, "deliver") /\ n \in targets[t]
  /\ n \in alive
  /\ sandbox' = [sandbox EXCEPT ![t] = n]
  /\ goto(t, "exec")
  /\ UNCHANGED <<daemon, sidecar, kind, victims, payload, targets, reached>>

-----------------------------------------------------------------------------
(* The sidecar.                                                            *)

\* Mutant: the new rules are added to those the sidecar has.
applied_Merges(k, new, old) == IF k = "policy" THEN new \cup old ELSE new

\* Mutant: an empty list of secrets is ignored too.
applied_IgnoresEmpty(k, new, old) ==
  IF new = (IF k = "policy" THEN {} ELSE << >>) THEN old ELSE new

\* POST /policy/reload leaves the rules alone when the list it is sent is empty;
\* POST /secrets/reload takes any list.
ignored(k, new) == k = "policy" /\ new = {}
applied(k, new, old) == IF ignored(k, new) THEN old ELSE new

reload(t, n) ==
  LET k == kind[t]
      new == past[k][payload[t]]
  IN /\ copy' = [copy EXCEPT ![k][n] = applied(k, new, @)]
     /\ pos' = [pos EXCEPT ![k][n] = IF ignored(k, new) THEN @ ELSE payload[t]]
     /\ UNCHANGED alive

\* docker exec succeeds: the handler has run and answered.  (History: the answer
\* to an older list does not undo that a later change has passed the sidecar by.)
ExecSucceeds(t) ==
  LET n == sandbox[t]
      k == kind[t]
  IN
  /\ at(t, "exec") /\ n \in alive
  /\ reload(t, n)
  /\ reached' = IF reached[k][n] = "missed" /\ payload[t] < Len(past[k]) THEN reached
                ELSE mark(k, {n}, "acked")
  /\ advance(t, n)
  /\ UNCHANGED daemon

\* It fails, and is only logged.  The sidecar may have got the list all the same.
ExecFails(t) ==
  LET n == sandbox[t] IN
  /\ at(t, "exec")
  /\ \/ /\ n \notin alive \/ may("exec")
        /\ UNCHANGED sidecar
     \/ /\ n \in alive /\ may("exec")
        /\ reload(t, n)
  /\ reached' = mark(kind[t], {n}, "missed")
  /\ advance(t, n)
  /\ UNCHANGED daemon

\* main: NewEngine's default rules, an empty secret manager.  Whoever starts the
\* sidecar passes neither rules in PROXY_RULES_JSON nor a secrets file.
SidecarStarts(n) ==
  /\ n \notin alive
  /\ alive' = alive \cup {n}
  /\ UNCHANGED <<daemon, copy, pos, pc, kind, victims, payload, targets, sandbox, reached>>

\* SIGINT, SIGTERM, or its container is removed: what it had in memory is gone,
\* and copy is what it will start with again.  (On SIGHUP the sidecar builds a new
\* engine and drops it, which changes nothing here.)
SidecarStops(n) ==
  /\ n \in alive
  /\ alive' = alive \ {n}
  /\ copy' = [k \in Kind |-> [copy[k] EXCEPT ![n] = Boot[k]]]
  /\ pos' = [k \in Kind |-> [pos[k] EXCEPT ![n] = 0]]
  /\ reached' = [k \in Kind |-> [reached[k] EXCEPT ![n] = "missed"]]
  /\ UNCHANGED <<daemon, pc, kind, victims, payload, targets, sandbox>>

-----------------------------------------------------------------------------

\* The daemon dies and comes up again: the rules are the defaults, whatever
\* rules.json says, there are no secrets, and which sandboxes are running is what
\* the state file says.
DaemonRestarts ==
  /\ may("restart")
  /\ room(2)
  /\ past' = [k \in Kind |-> Append(past[k], Boot[k])]
  /\ running' \in SUBSET Name
  /\ reached' = [k \in Kind |-> [n \in Name |-> "missed"]]
  /\ pc' = [t \in Thread |-> "idle"]
  /\ kind' = [t \in Thread |-> Nil]
  /\ victims' = [t \in Thread |-> {}]
  /\ payload' = [t \in Thread |-> 0]
  /\ targets' = [t \in Thread |-> {}]
  /\ sandbox' = [t \in Thread |-> Nil]
  /\ UNCHANGED sidecar

Request(t) ==
  \/ ApplyPolicyActions(t) \/ DeletePolicyRules(t) \/ SetPolicyProfile(t)
  \/ \E r \in Rule : DeletePolicyRuleByID(t, r)
  \/ \E list \in SecretLists : SetSecrets(t, list)
  \/ \E n \in Name, own \in OwnLists : StartRuntime(t, n, own)

Action(t) ==
  \/ ActionAdd(t)
  \/ \E r \in Rule : ActionRemoveID(t, r)
  \/ \E R \in SUBSET Rule : ActionRemoveResource(t, R)

Step(t) ==
  \/ ActionsDone(t) \/ RemoveNext(t) \/ BalancedSecondRule(t)
  \/ ContainerFails(t) \/ ContainerStarted(t) \/ PushSecrets(t)
  \/ Snapshot(t) \/ Targets(t)
  \/ \E n \in Name : Skip(t, n) \/ FindSidecar(t, n)
  \/ ExecSucceeds(t) \/ ExecFails(t)

Environment ==
  \/ DaemonRestarts
  \/ \E n \in Name : RuntimeStops(n) \/ SidecarStarts(n) \/ SidecarStops(n)

Next == Environment \/ \E t \in Thread : Request(t) \/ Action(t) \/ Step(t)

Spec == Init /\ [][Next]_vars

-----------------------------------------------------------------------------
(* Properties.                                                             *)

quiet == \A t \in Thread : pc[t] = "idle"

Ordered == Cardinality(Thread) = 1

Rules == INSTANCE Replica WITH
           Node <- Name, Value <- SUBSET Rule, Boot <- Defaults,
           log <- past["policy"], copy <- copy["policy"], pos <- pos["policy"]

Secs == INSTANCE Replica WITH
          Node <- Name, Value <- SecretLists, Boot <- << >>,
          log <- past["secrets"], copy <- copy["secrets"], pos <- pos["secrets"]

\* A sidecar's rules are, whole, a list the daemon had, and with one request at a
\* time it never falls back to an older one, whatever posts fail and whenever the
\* daemon or the sidecar restart (daemon.go:896-962, main.go:197-221).
RulesReplicated == Rules!Spec

\* The same of its secrets (daemon.go:964-989, main.go:223-246).
SecretsReplicated == Secs!Spec

\* With no request in progress, a sidecar that has answered the reload that follows
\* a change has the daemon's list (daemon.go:952-989) - except that it keeps its
\* rules when the daemon has none left (main.go:211).
AckedIsCurrent ==
  quiet => \A k \in Kind, n \in Name :
             reached[k][n] = "acked" =>
               copy[k][n] = current(k) \/ (k = "policy" /\ rules = {})

\* A change that ends without the sidecar having answered has, for that sidecar, a
\* reason of its own: another sidecar that fails or is gone is none
\* (daemon.go:914-949).
NoSidecarForgotten ==
  quiet => \A k \in Kind, n \in Name : reached[k][n] # "pending"

\* A sidecar that has answered puts the daemon's secret in place of every sentinel
\* in what the sandbox sends (daemon.go:755-758, secrets.go:49-86).
SentinelsBecomeDaemonsValues ==
  LET lists == {copy["secrets"][n] : n \in {m \in alive : reached["secrets"][m] = "acked"}}
  IN quiet => \A list \in lists : Unambiguous(list) =>
       \A text \in Texts : ReplaceSentinels(list, text) = Substituted(current("secrets"), text)

\* Whichever secrets a sidecar has, a header it has redacted contains none of them,
\* in whichever order they are redacted and whatever the others leave behind, except
\* one that "[REDACTED]" contains or can complete (proxy.go:565, secrets.go:89-99).
RedactionComplete ==
  \A list \in {copy["secrets"][n] : n \in alive}, text \in Texts :
    \A i \in DOMAIN list :
      \/ list[i].Value \in {<< >>, list[i].Sentinel}
      \/ ~apart(list[i].Value, Redacted)
      \/ ~occursIn(list[i].Value, RedactSecretsInHeader(list, text))
=============================================================================
