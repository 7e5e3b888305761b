-------------------------- MODULE PropagationProofs --------------------------
(***************************************************************************)
(* Proofs about Propagation, for any number of sandboxes, rules and lists, *)
(* whatever calls fail and whichever process restarts; for any number of   *)
(* requests in progress unless a theorem says otherwise.                   *)
(***************************************************************************)
EXTENDS Propagation, SecretsProofs, FiniteSetTheorems, TLAPS

Delivering == {"targets", "deliver", "exec"}

-----------------------------------------------------------------------------
(* Types.                                                                  *)

PastOK ==
  /\ past = [k \in Kind |-> past[k]]
  /\ \A k \in Kind : past[k] \in Seq(Value[k]) /\ past[k] # << >>

CopyOK ==
  /\ copy = [k \in Kind |-> copy[k]]
  /\ \A k \in Kind : copy[k] \in [Name -> Value[k]]

PosOK ==
  /\ pos = [k \in Kind |-> pos[k]]
  /\ \A k \in Kind : pos[k] \in [Name -> 0 .. Len(past[k])]

ReachedOK ==
  /\ reached = [k \in Kind |-> reached[k]]
  /\ \A k \in Kind : reached[k] \in [Name -> {"pending", "acked", "missed"}]

RequestsOK ==
  /\ running \subseteq Name /\ alive \subseteq Name
  /\ pc \in [Thread -> {"idle", "actions", "removing", "all", "balanced", "container",
                        "started", "snapshot", "targets", "deliver", "exec"}]
  /\ kind \in [Thread -> Kind \cup {Nil}]
  /\ victims \in [Thread -> SUBSET Rule]
  /\ payload \in [Thread -> Nat]
  /\ targets \in [Thread -> SUBSET Name]
  /\ sandbox \in [Thread -> Name \cup {Nil}]

\* What the place where a request is says about its variables.
PlaceOK(t) ==
  /\ pc[t] \in Delivering => kind[t] \in Kind /\ payload[t] \in 1 .. Len(past[kind[t]])
  /\ pc[t] \notin Delivering => payload[t] = 0
  /\ pc[t] = "snapshot" => kind[t] \in Kind
  /\ pc[t] \in {"actions", "removing", "all"} => kind[t] = "policy"
  /\ pc[t] = "container" => kind[t] = "secrets" /\ sandbox[t] \in Name
  /\ pc[t] = "started" => kind[t] = "secrets"
  /\ pc[t] = "exec" => sandbox[t] \in targets[t]

PlacesOK == \A t \in Thread : PlaceOK(t)

TypeInv == PastOK /\ CopyOK /\ PosOK /\ ReachedOK /\ RequestsOK /\ PlacesOK

\* The two kinds of data that are pushed.
LEMMA Kinds == /\ "policy" \in Kind /\ "secrets" \in Kind
               /\ \A k \in Kind : k = "policy" \/ k = "secrets"
               /\ Nil \notin Kind
  BY DEF Kind, Nil

\* What a list of each kind can be.
LEMMA Values == /\ Value["policy"] = SUBSET Rule /\ Value["secrets"] = SecretLists
                /\ \A k \in Kind : Boot[k] \in Value[k]
                /\ Boot["policy"] = Defaults /\ Boot["secrets"] = << >>
  BY BoundsAssumption, ListsAssumption DEF Value, Kind, Boot, Defaults, Rule

-----------------------------------------------------------------------------
(* What a step does to the daemon's lists and to the sidecars' copies.     *)

SidecarsSame == copy' = copy /\ pos' = pos

Same == past' = past /\ SidecarsSame

\* The daemon's list of one kind is replaced.
Changed(k) ==
  /\ \E v \in Value[k] : past' = [past EXCEPT ![k] = Append(@, v)]
  /\ SidecarsSame

Restarted == past' = [k \in Kind |-> Append(past[k], Boot[k])] /\ SidecarsSame

\* A list is posted to sidecar n by request t.
Posted(t, n) == pc[t] = "exec" /\ n = sandbox[t] /\ reload(t, n) /\ past' = past

Stopped(n) ==
  /\ copy' = [k \in Kind |-> [copy[k] EXCEPT ![n] = Boot[k]]]
  /\ pos' = [k \in Kind |-> [pos[k] EXCEPT ![n] = 0]]
  /\ past' = past

DataStep ==
  \/ Same \/ Restarted
  \/ \E k \in Kind : Changed(k)
  \/ \E t \in Thread, n \in Name : Posted(t, n)
  \/ \E n \in Name : Stopped(n)

\* The rules as a value of their kind.
LEMMA RulesValue == PastOK => rules \subseteq Rule /\ \A k \in Kind : current(k) \in Value[k]
<1> SUFFICES ASSUME PastOK PROVE rules \subseteq Rule /\ \A k \in Kind : current(k) \in Value[k]
  OBVIOUS
<1>1. ASSUME NEW k \in Kind PROVE current(k) \in Value[k]
  <2>1. past[k] \in Seq(Value[k]) /\ past[k] # << >>
    BY DEF PastOK
  <2>2. Len(past[k]) \in 1 .. Len(past[k])
    BY <2>1
  <2> QED BY <2>1, <2>2 DEF current, Last
<1> QED BY <1>1, Kinds, Values DEF rules

\* Adding a rule, alone or with a profile, changes the daemon's list of rules.
LEMMA AddRuleChanges ==
  ASSUME PastOK, SidecarsSame, AddRule \/ addProfileRule PROVE Changed("policy")
  BY RulesValue, Values DEF AddRule, addProfileRule, change, set, Changed

\* A rule is taken out of the daemon's list.
LEMMA RemoveRuleChanges ==
  ASSUME PastOK, SidecarsSame, NEW r, RemoveRule(r) PROVE Same \/ Changed("policy")
  BY RulesValue, Values DEF RemoveRule, change, set, Changed, Same

\* Every step does to the lists and the copies what DataStep allows.
LEMMA StepIsDataStep == TypeInv /\ [Next]_vars => DataStep
<1> SUFFICES ASSUME TypeInv, [Next]_vars PROVE DataStep
  OBVIOUS
<1> USE Kinds DEF daemon, sidecar
<1>1. CASE UNCHANGED vars
  BY <1>1 DEF vars, DataStep, Same, SidecarsSame
<1>2. CASE Environment
  <2>1. CASE DaemonRestarts
    BY <2>1 DEF DaemonRestarts, DataStep, Restarted, SidecarsSame
  <2>2. ASSUME NEW n \in Name, SidecarStops(n) PROVE DataStep
    BY <2>2 DEF SidecarStops, DataStep, Stopped
  <2>3. ASSUME NEW n \in Name, RuntimeStops(n) \/ SidecarStarts(n) PROVE DataStep
    BY <2>3 DEF RuntimeStops, SidecarStarts, DataStep, Same, SidecarsSame
  <2> QED BY <1>2, <2>1, <2>2, <2>3 DEF Environment
<1>3. ASSUME NEW t \in Thread, Request(t) PROVE DataStep
  <2>1. CASE ApplyPolicyActions(t) \/ DeletePolicyRules(t)
    BY <2>1 DEF ApplyPolicyActions, DeletePolicyRules, DataStep, Same, SidecarsSame
  <2>2. CASE SetPolicyProfile(t)
    BY <2>2, AddRuleChanges DEF SetPolicyProfile, DataStep, SidecarsSame, TypeInv
  <2>3. ASSUME NEW r \in Rule, DeletePolicyRuleByID(t, r) PROVE DataStep
    BY <2>3, RemoveRuleChanges DEF DeletePolicyRuleByID, DataStep, SidecarsSame, TypeInv
  <2>4. ASSUME NEW list \in SecretLists, SetSecrets(t, list) PROVE DataStep
    BY <2>4, Values DEF SetSecrets, change, set, DataStep, Changed, SidecarsSame
  <2>5. ASSUME NEW n \in Name, NEW own \in OwnLists, StartRuntime(t, n, own) PROVE DataStep
    BY <2>5, Values, ListsAssumption
    DEF StartRuntime, change, set, DataStep, Changed, Same, SidecarsSame
  <2> QED BY <1>3, <2>1, <2>2, <2>3, <2>4, <2>5 DEF Request
<1>4. ASSUME NEW t \in Thread, Action(t) PROVE DataStep
  <2>1. CASE ActionAdd(t)
    BY <2>1, AddRuleChanges DEF ActionAdd, DataStep, SidecarsSame, TypeInv
  <2>2. ASSUME NEW r \in Rule, ActionRemoveID(t, r) PROVE DataStep
    BY <2>2, RemoveRuleChanges DEF ActionRemoveID, DataStep, SidecarsSame, TypeInv
  <2>3. ASSUME NEW R \in SUBSET Rule, ActionRemoveResource(t, R) PROVE DataStep
    BY <2>3 DEF ActionRemoveResource, DataStep, Same, SidecarsSame
  <2> QED BY <1>4, <2>1, <2>2, <2>3 DEF Action
<1>5. ASSUME NEW t \in Thread, Step(t) PROVE DataStep
  <2>1. CASE ActionsDone(t) \/ ContainerFails(t) \/ Snapshot(t) \/ Targets(t)
    BY <2>1 DEF ActionsDone, ContainerFails, Snapshot, Targets, DataStep, Same, SidecarsSame
  <2>2. CASE RemoveNext(t)
    BY <2>2, RemoveRuleChanges DEF RemoveNext, DataStep, SidecarsSame, TypeInv
  <2>3. CASE BalancedSecondRule(t)
    BY <2>3, AddRuleChanges DEF BalancedSecondRule, DataStep, SidecarsSame, TypeInv
  <2>4. CASE ContainerStarted(t) \/ PushSecrets(t)
    BY <2>4 DEF ContainerStarted, PushSecrets, DataStep, Same, SidecarsSame
  <2>5. ASSUME NEW n \in Name, Skip(t, n) \/ FindSidecar(t, n) PROVE DataStep
    BY <2>5 DEF Skip, FindSidecar, DataStep, Same, SidecarsSame
  <2>6. CASE ExecSucceeds(t) \/ ExecFails(t)
    <3>1. at(t, "exec") /\ sandbox[t] \in Name /\ past' = past
      BY <2>6 DEF ExecSucceeds, ExecFails, TypeInv, PlacesOK, PlaceOK, RequestsOK, at
    <3>2. reload(t, sandbox[t]) \/ SidecarsSame
      BY <2>6 DEF ExecSucceeds, ExecFails, SidecarsSame
    <3> QED BY <3>1, <3>2 DEF DataStep, Same, Posted, at
  <2> QED BY <1>5, <2>1, <2>2, <2>3, <2>4, <2>5, <2>6 DEF Step
<1> QED BY <1>1, <1>2, <1>3, <1>4, <1>5 DEF Next

-----------------------------------------------------------------------------
(* Types, continued.                                                       *)

\* Appending to a history keeps its entries.
LEMMA AppendFacts ==
  ASSUME NEW V, NEW v \in V
  PROVE  \A s \in Seq(V) : \A u :
           u = Append(s, v) =>
             /\ u \in Seq(V) /\ u # << >>
             /\ Len(u) = Len(s) + 1 /\ Len(s) \in Nat /\ Len(s) <= Len(u)
             /\ \A i \in 1 .. Len(s) : u[i] = s[i]
             /\ u[Len(s) + 1] = v
<1> SUFFICES ASSUME NEW s \in Seq(V), NEW u, u = Append(s, v)
             PROVE  /\ u \in Seq(V) /\ u # << >>
                    /\ Len(u) = Len(s) + 1 /\ Len(s) \in Nat /\ Len(s) <= Len(u)
                    /\ \A i \in 1 .. Len(s) : u[i] = s[i]
                    /\ u[Len(s) + 1] = v
  OBVIOUS
<1>1. u \in Seq(V) /\ Len(u) = Len(s) + 1 /\ Len(s) \in Nat
  OBVIOUS
<1> QED BY <1>1

\* The daemon's lists are only ever added to.
PastGrows ==
  \A k \in Kind : /\ Len(past[k]) <= Len(past[k])'
                 /\ \A i \in 1 .. Len(past[k]) : past'[k][i] = past[k][i]

\* A history of lists only grows.
LEMMA PastStep == PastOK /\ DataStep => PastOK' /\ PastGrows
<1> SUFFICES ASSUME PastOK, DataStep PROVE PastOK' /\ PastGrows
  OBVIOUS
<1>1. CASE past' = past
  BY <1>1 DEF PastOK, PastGrows
<1>2. ASSUME NEW k \in Kind, NEW v \in Value[k], past' = [past EXCEPT ![k] = Append(@, v)]
      PROVE  PastOK' /\ PastGrows
  <2>1. past'[k] = Append(past[k], v) /\ past[k] \in Seq(Value[k])
    BY <1>2 DEF PastOK
  <2>2. \A j \in Kind \ {k} : past'[j] = past[j]
    BY <1>2 DEF PastOK
  <2>3. /\ past'[k] \in Seq(Value[k]) /\ past'[k] # << >>
        /\ Len(past[k]) <= Len(past'[k])
        /\ \A i \in 1 .. Len(past[k]) : past'[k][i] = past[k][i]
    <3>1. \A s \in Seq(Value[k]) : \A u :
            u = Append(s, v) => /\ u \in Seq(Value[k]) /\ u # << >> /\ Len(s) <= Len(u)
                                /\ \A i \in 1 .. Len(s) : u[i] = s[i]
      BY <1>2, AppendFacts
    <3> QED BY <2>1, <3>1
  <2>4. \A j \in Kind : Len(past[j]) \in Nat
    BY DEF PastOK
  <2>5. PastOK'
    BY <1>2, <2>2, <2>3 DEF PastOK
  <2>6. PastGrows
    BY <2>2, <2>3, <2>4 DEF PastGrows
  <2> QED BY <2>5, <2>6
<1>3. CASE Restarted
  <2>1. ASSUME NEW k \in Kind
        PROVE  /\ past'[k] \in Seq(Value[k]) /\ past'[k] # << >>
               /\ Len(past[k]) <= Len(past'[k])
               /\ \A i \in 1 .. Len(past[k]) : past'[k][i] = past[k][i]
    <3>1. past'[k] = Append(past[k], Boot[k]) /\ Boot[k] \in Value[k] /\ past[k] \in Seq(Value[k])
      BY <1>3, Values DEF Restarted, PastOK
    <3>2. \A v \in Value[k] : \A s \in Seq(Value[k]) : \A u :
            u = Append(s, v) => /\ u \in Seq(Value[k]) /\ u # << >> /\ Len(s) <= Len(u)
                                /\ \A i \in 1 .. Len(s) : u[i] = s[i]
      BY AppendFacts
    <3> QED BY <3>1, <3>2
  <2> QED BY <1>3, <2>1 DEF Restarted, PastOK, PastGrows
<1> QED BY <1>1, <1>2, <1>3 DEF DataStep, Same, Changed, Posted, Stopped

\* A post gives the sidecar, whole, the list that the request has taken, or, if that
\* is an empty list of rules, leaves it alone (main.go:197-246).
LEMMA PostedValue ==
  ASSUME TypeInv, NEW t \in Thread, NEW n \in Name, Posted(t, n)
  PROVE  /\ kind[t] \in Kind /\ payload[t] \in 1 .. Len(past[kind[t]])
         /\ past[kind[t]][payload[t]] \in Value[kind[t]]
         /\ \/ copy' = copy /\ pos' = pos /\ kind[t] = "policy" /\ past[kind[t]][payload[t]] = {}
            \/ /\ copy' = [copy EXCEPT ![kind[t]][n] = past[kind[t]][payload[t]]]
               /\ pos' = [pos EXCEPT ![kind[t]][n] = payload[t]]
<1> DEFINE k == kind[t]
           new == past[k][payload[t]]
<1>1. k \in Kind /\ payload[t] \in 1 .. Len(past[k])
  BY DEF Posted, TypeInv, PlacesOK, PlaceOK, Delivering
<1>2. past[k] \in Seq(Value[k])
  BY <1>1 DEF TypeInv, PastOK
<1>3. new \in Value[k]
  BY <1>1, <1>2
<1>4. copy[k] \in [Name -> Value[k]] /\ pos[k] \in [Name -> 0 .. Len(past[k])]
  BY <1>1 DEF TypeInv, CopyOK, PosOK
<1>5. copy' = [copy EXCEPT ![k][n] = applied(k, new, copy[k][n])]
  BY DEF Posted, reload
<1>6. pos' = [pos EXCEPT ![k][n] = IF ignored(k, new) THEN pos[k][n] ELSE payload[t]]
  BY DEF Posted, reload
<1>7. CASE ignored(k, new)
  <2>1. copy' = [copy EXCEPT ![k][n] = copy[k][n]] /\ pos' = [pos EXCEPT ![k][n] = pos[k][n]]
    BY <1>5, <1>6, <1>7 DEF applied
  <2>2. copy' = copy
    BY <2>1, <1>1, <1>4 DEF TypeInv, CopyOK
  <2>3. pos' = pos
    BY <2>1, <1>1, <1>4 DEF TypeInv, PosOK
  <2> QED BY <1>1, <1>3, <1>7, <2>2, <2>3 DEF ignored
<1>8. CASE ~ignored(k, new)
  BY <1>1, <1>3, <1>5, <1>6, <1>8 DEF applied
<1> QED BY <1>7, <1>8

\* A copy is always one of the lists the daemon has had.
LEMMA CopyStep == TypeInv /\ DataStep => CopyOK' /\ PosOK'
<1> SUFFICES ASSUME TypeInv, DataStep PROVE CopyOK' /\ PosOK'
  OBVIOUS
<1>1. \A k \in Kind : Len(past[k]) \in Nat /\ Len(past'[k]) \in Nat /\ Len(past[k]) <= Len(past'[k])
  BY PastStep DEF TypeInv, PastOK, PastGrows
<1>2. CASE SidecarsSame
  <2>1. PosOK'
    BY <1>1, <1>2 DEF SidecarsSame, TypeInv, PosOK
  <2> QED BY <1>2, <2>1 DEF SidecarsSame, TypeInv, CopyOK
<1>3. ASSUME NEW t \in Thread, NEW n \in Name, Posted(t, n) PROVE CopyOK' /\ PosOK'
  <2>1. past' = past
    BY <1>3 DEF Posted
  <2>2. CASE SidecarsSame
    BY <1>2, <2>2
  <2>3. CASE ~SidecarsSame
    <3>1. /\ kind[t] \in Kind /\ payload[t] \in 0 .. Len(past[kind[t]])
          /\ past[kind[t]][payload[t]] \in Value[kind[t]]
          /\ copy' = [copy EXCEPT ![kind[t]][n] = past[kind[t]][payload[t]]]
          /\ pos' = [pos EXCEPT ![kind[t]][n] = payload[t]]
      BY <1>3, <2>3, PostedValue DEF SidecarsSame
    <3>2. CopyOK'
      BY <3>1 DEF TypeInv, CopyOK
    <3>3. PosOK'
      BY <2>1, <3>1 DEF TypeInv, PosOK
    <3> QED BY <3>2, <3>3
  <2> QED BY <2>2, <2>3
<1>4. ASSUME NEW n \in Name, Stopped(n) PROVE CopyOK' /\ PosOK'
  <2>1. CopyOK'
    BY <1>4, Values DEF Stopped, TypeInv, CopyOK
  <2>2. PosOK'
    BY <1>4, <1>1 DEF Stopped, TypeInv, PosOK
  <2> QED BY <2>1, <2>2
<1> QED BY <1>2, <1>3, <1>4 DEF DataStep, Same, Restarted, Changed

\* What mark(k, N, m) is.
LEMMA MarkFacts ==
  ASSUME ReachedOK, NEW k \in Kind, NEW N, NEW m \in {"pending", "acked", "missed"},
         reached' = mark(k, N, m)
  PROVE  /\ ReachedOK'
         /\ \A n \in Name : reached'[k][n] = IF n \in N THEN m ELSE reached[k][n]
         /\ \A j \in Kind \ {k} : reached'[j] = reached[j]
<1>1. reached' = [reached EXCEPT ![k] = [n \in Name |-> IF n \in N THEN m ELSE reached[k][n]]]
  BY DEF mark
<1> QED BY <1>1 DEF ReachedOK

\* What becomes of the history when the daemon's list of kind k is replaced.
LEMMA RuleChangeMarks ==
  ASSUME NEW r, AddRule \/ RemoveRule(r) \/ addProfileRule
  PROVE  \/ past' = past /\ reached' = reached
         \/ reached' = mark("policy", Name, "pending")
         \/ reached' = mark("policy", Name, "missed")
  BY DEF AddRule, RemoveRule, addProfileRule, change

\* Every step marks sidecars of one kind, or keeps the history, or the daemon or a
\* sidecar restarts.
LEMMA ReachedStep == TypeInv /\ [Next]_vars => ReachedOK'
<1> SUFFICES ASSUME TypeInv, [Next]_vars PROVE ReachedOK'
  OBVIOUS
<1> DEFINE Marked == \E k \in Kind, m \in {"pending", "acked", "missed"} : \E N :
                       reached' = mark(k, N, m)
<1>1. Marked => ReachedOK'
  BY MarkFacts DEF TypeInv
<1>2. reached' = reached => ReachedOK'
  BY DEF TypeInv, ReachedOK
<1> HIDE DEF Marked
<1>3. CASE UNCHANGED vars
  BY <1>2, <1>3 DEF vars
<1>4. CASE Environment
  <2>1. CASE DaemonRestarts
    BY <2>1 DEF DaemonRestarts, ReachedOK
  <2>2. ASSUME NEW n \in Name, SidecarStops(n) PROVE ReachedOK'
    BY <2>2 DEF SidecarStops, TypeInv, ReachedOK
  <2>3. ASSUME NEW n \in Name, RuntimeStops(n) \/ SidecarStarts(n) PROVE ReachedOK'
    BY <1>2, <2>3 DEF RuntimeStops, SidecarStarts
  <2> QED BY <1>4, <2>1, <2>2, <2>3 DEF Environment
<1>5. ASSUME NEW t \in Thread, Request(t) \/ Action(t) \/ Step(t) PROVE ReachedOK'
  <2>1. ASSUME NEW r, AddRule \/ RemoveRule(r) \/ addProfileRule PROVE ReachedOK'
    BY <1>1, <1>2, <2>1, RuleChangeMarks, Kinds DEF Marked
  <2>2. CASE Request(t)
    <3>1. ASSUME NEW list, change("secrets", list) PROVE ReachedOK'
      BY <1>1, <3>1, Kinds DEF Marked, change
    <3> QED
      BY <1>2, <2>1, <2>2, <3>1
      DEF Request, ApplyPolicyActions, DeletePolicyRules, SetPolicyProfile, DeletePolicyRuleByID,
          SetSecrets, StartRuntime
  <2>3. CASE Action(t)
    BY <1>2, <2>1, <2>3 DEF Action, ActionAdd, ActionRemoveID, ActionRemoveResource
  <2>4. CASE Step(t)
    <3>1. kind[t] \in Kind \/ ~(Targets(t) \/ ExecSucceeds(t) \/ ExecFails(t)
                               \/ \E n \in Name : Skip(t, n))
      BY DEF TypeInv, PlacesOK, PlaceOK, Delivering, at, Targets, ExecSucceeds, ExecFails, Skip
    <3>2. CASE Targets(t)
      BY <1>1, <3>1, <3>2 DEF Targets, Marked
    <3>3. CASE ExecSucceeds(t) \/ ExecFails(t)
      BY <1>1, <1>2, <3>1, <3>3 DEF ExecSucceeds, ExecFails, Marked
    <3>4. ASSUME NEW n \in Name, Skip(t, n) PROVE ReachedOK'
      BY <1>1, <3>1, <3>4 DEF Skip, Marked
    <3>5. CASE ContainerFails(t)
      BY <1>1, <3>5, Kinds DEF ContainerFails, Marked
    <3>6. CASE RemoveNext(t) \/ BalancedSecondRule(t)
      BY <2>1, <3>6 DEF RemoveNext, BalancedSecondRule
    <3>7. ASSUME NEW n \in Name, FindSidecar(t, n) PROVE ReachedOK'
      BY <1>2, <3>7 DEF FindSidecar
    <3>8. CASE ActionsDone(t) \/ ContainerStarted(t) \/ PushSecrets(t) \/ Snapshot(t)
      BY <1>2, <3>8 DEF ActionsDone, ContainerStarted, PushSecrets, Snapshot
    <3> QED BY <2>4, <3>2, <3>3, <3>4, <3>5, <3>6, <3>7, <3>8 DEF Step
  <2> QED BY <1>5, <2>2, <2>3, <2>4
<1> QED BY <1>3, <1>4, <1>5 DEF Next

\* The lists there are stay where they are.
Longer ==
  \A k \in Kind : /\ Len(past[k]) \in Nat /\ Len(past[k]) > 0
                 /\ Len(past[k])' \in Nat /\ Len(past[k]) <= Len(past[k])'

\* A request that is answered, or turns to the next sidecar, is in a place that
\* fits its variables.
LEMMA FinishKeeps ==
  ASSUME RequestsOK, PlacesOK, Longer, NEW t \in Thread, finish(t),
         running' \subseteq Name, alive' \subseteq Name
  PROVE  RequestsOK' /\ PlacesOK'
<1>1. RequestsOK'
  BY DEF RequestsOK, finish, goto
<1>2. PlaceOK(t)'
  BY DEF RequestsOK, PlaceOK, finish, goto, Delivering
<1>3. ASSUME NEW u \in Thread, u # t PROVE PlaceOK(u)'
  BY <1>3 DEF RequestsOK, PlacesOK, PlaceOK, finish, goto, Delivering, Longer
<1> QED BY <1>1, <1>2, <1>3 DEF PlacesOK

\* A request that goes on to the next sidecar keeps its variables in order.
LEMMA AdvanceKeeps ==
  ASSUME RequestsOK, PlacesOK, past' = past, NEW t \in Thread, NEW n, advance(t, n),
         pc[t] \in {"deliver", "exec"}, running' \subseteq Name, alive' \subseteq Name, Longer
  PROVE  RequestsOK' /\ PlacesOK'
<1>1. CASE finish(t)
  BY <1>1, FinishKeeps
<1>2. CASE ~finish(t)
  <2>1. /\ targets' = [targets EXCEPT ![t] = @ \ {n}]
        /\ sandbox' = [sandbox EXCEPT ![t] = Nil]
        /\ pc' = [pc EXCEPT ![t] = "deliver"]
        /\ UNCHANGED <<kind, victims, payload>>
    BY <1>2 DEF advance, goto
  <2>2. RequestsOK'
    BY <2>1 DEF RequestsOK
  <2>3. PlaceOK(t)'
    BY <2>1 DEF RequestsOK, PlacesOK, PlaceOK, Delivering
  <2>4. ASSUME NEW u \in Thread, u # t PROVE PlaceOK(u)'
    BY <2>1, <2>4 DEF RequestsOK, PlacesOK, PlaceOK, Delivering
  <2> QED BY <2>2, <2>3, <2>4 DEF PlacesOK
<1> QED BY <1>1, <1>2

\* So does every step of every request.
LEMMA RequestsStep == TypeInv /\ [Next]_vars => RequestsOK' /\ PlacesOK'
<1> SUFFICES ASSUME TypeInv, [Next]_vars PROVE RequestsOK' /\ PlacesOK'
  OBVIOUS
<1>1. Longer
  BY StepIsDataStep, PastStep DEF TypeInv, PastOK, PastGrows, Longer
<1>2. rules \subseteq Rule
  BY RulesValue DEF TypeInv
<1> USE <1>1, Kinds
    DEF TypeInv, RequestsOK, PlacesOK, PlaceOK, Delivering, daemon, sidecar, at, goto, begin, Longer
<1>3. CASE UNCHANGED vars
  BY <1>3 DEF vars
<1>4. CASE Environment
  <2>1. CASE DaemonRestarts
    BY <2>1 DEF DaemonRestarts
  <2>2. ASSUME NEW n \in Name, SidecarStops(n) PROVE RequestsOK' /\ PlacesOK'
    BY <2>2 DEF SidecarStops
  <2>3. ASSUME NEW n \in Name, RuntimeStops(n) PROVE RequestsOK' /\ PlacesOK'
    BY <2>3 DEF RuntimeStops
  <2>4. ASSUME NEW n \in Name, SidecarStarts(n) PROVE RequestsOK' /\ PlacesOK'
    BY <2>4 DEF SidecarStarts
  <2> QED BY <1>4, <2>1, <2>2, <2>3, <2>4 DEF Environment
<1>5. ASSUME NEW t \in Thread, Request(t) PROVE RequestsOK' /\ PlacesOK'
  <2>1. CASE ApplyPolicyActions(t)
    BY <2>1 DEF ApplyPolicyActions
  <2>2. CASE DeletePolicyRules(t)
    BY <1>2, <2>2 DEF DeletePolicyRules
  <2>3. CASE SetPolicyProfile(t)
    <3>1. /\ pc[t] = "idle" /\ pc' \in {pc, [pc EXCEPT ![t] = "balanced"]}
          /\ UNCHANGED <<running, alive, kind, victims, payload, targets, sandbox>>
      BY <2>3 DEF SetPolicyProfile
    <3>2. CASE pc' = pc
      <4>1. RequestsOK'
        BY <3>1, <3>2
      <4>2. ASSUME NEW u \in Thread PROVE PlaceOK(u)'
        BY <3>1, <3>2
      <4> QED BY <4>1, <4>2
    <3>3. CASE pc' = [pc EXCEPT ![t] = "balanced"]
      <4>1. RequestsOK'
        BY <3>1, <3>3
      <4>2. PlaceOK(t)'
        BY <3>1, <3>3
      <4>3. ASSUME NEW u \in Thread, u # t PROVE PlaceOK(u)'
        BY <3>1, <3>3, <4>3
      <4> QED BY <4>1, <4>2, <4>3
    <3> QED BY <3>1, <3>2, <3>3
  <2>4. ASSUME NEW r \in Rule, DeletePolicyRuleByID(t, r) PROVE RequestsOK' /\ PlacesOK'
    <3>1. /\ pc[t] = "idle" /\ pc' = [pc EXCEPT ![t] = "snapshot"]
          /\ kind' = [kind EXCEPT ![t] = "policy"]
          /\ UNCHANGED <<running, alive, victims, payload, targets, sandbox>>
      BY <2>4 DEF DeletePolicyRuleByID
    <3>2. RequestsOK'
      BY <3>1
    <3>3. PlaceOK(t)'
      BY <3>1
    <3>4. ASSUME NEW u \in Thread, u # t PROVE PlaceOK(u)'
      BY <3>1, <3>4
    <3> QED BY <3>2, <3>3, <3>4
  <2>5. ASSUME NEW list \in SecretLists, SetSecrets(t, list) PROVE RequestsOK' /\ PlacesOK'
    <3>1. /\ pc[t] = "idle" /\ pc' = [pc EXCEPT ![t] = "snapshot"]
          /\ kind' = [kind EXCEPT ![t] = "secrets"]
          /\ UNCHANGED <<running, alive, victims, payload, targets, sandbox>>
      BY <2>5 DEF SetSecrets
    <3>2. RequestsOK'
      BY <3>1
    <3>3. PlaceOK(t)'
      BY <3>1
    <3>4. ASSUME NEW u \in Thread, u # t PROVE PlaceOK(u)'
      BY <3>1, <3>4
    <3> QED BY <3>2, <3>3, <3>4
  <2>6. ASSUME NEW n \in Name, NEW own \in OwnLists, StartRuntime(t, n, own)
        PROVE  RequestsOK' /\ PlacesOK'
    BY <2>6 DEF StartRuntime
  <2> QED BY <1>5, <2>1, <2>2, <2>3, <2>4, <2>5, <2>6 DEF Request
<1>6. ASSUME NEW t \in Thread, Action(t) PROVE RequestsOK' /\ PlacesOK'
  <2>1. CASE ActionAdd(t)
    BY <2>1 DEF ActionAdd
  <2>2. ASSUME NEW r \in Rule, ActionRemoveID(t, r) PROVE RequestsOK' /\ PlacesOK'
    BY <2>2 DEF ActionRemoveID
  <2>3. ASSUME NEW R \in SUBSET Rule, ActionRemoveResource(t, R) PROVE RequestsOK' /\ PlacesOK'
    BY <2>3 DEF ActionRemoveResource
  <2> QED BY <1>6, <2>1, <2>2, <2>3 DEF Action
<1>7. ASSUME NEW t \in Thread, Step(t) PROVE RequestsOK' /\ PlacesOK'
  <2>1. CASE ActionsDone(t)
    BY <2>1 DEF ActionsDone
  <2>2. CASE RemoveNext(t)
    BY <2>2 DEF RemoveNext
  <2>3. CASE BalancedSecondRule(t)
    BY <2>3, FinishKeeps DEF BalancedSecondRule
  <2>4. CASE ContainerFails(t)
    BY <2>4, FinishKeeps DEF ContainerFails
  <2>5. CASE ContainerStarted(t)
    BY <2>5 DEF ContainerStarted
  <2>6. CASE PushSecrets(t)
    <3>1. running' \subseteq Name /\ alive' \subseteq Name
      BY <2>6 DEF PushSecrets
    <3>2. CASE finish(t)
      BY <3>1, <3>2, FinishKeeps
    <3>3. CASE ~finish(t)
      BY <2>6, <3>1, <3>3 DEF PushSecrets
    <3> QED BY <3>2, <3>3
  <2>7. CASE Snapshot(t)
    BY <2>7 DEF Snapshot
  <2>8. CASE Targets(t)
    <3>1. running' \subseteq Name /\ alive' \subseteq Name
      BY <2>8 DEF Targets
    <3>2. CASE finish(t)
      BY <3>1, <3>2, FinishKeeps
    <3>3. CASE ~finish(t)
      BY <2>8, <3>1, <3>3 DEF Targets
    <3> QED BY <3>2, <3>3
  <2>9. ASSUME NEW n \in Name, Skip(t, n) PROVE RequestsOK' /\ PlacesOK'
    BY <2>9, AdvanceKeeps DEF Skip
  <2>10. ASSUME NEW n \in Name, FindSidecar(t, n) PROVE RequestsOK' /\ PlacesOK'
    BY <2>10 DEF FindSidecar
  <2>11. CASE ExecSucceeds(t)
    <3>1. past' = past /\ running' = running /\ alive' = alive /\ advance(t, sandbox[t])
      BY <2>11 DEF ExecSucceeds, reload
    <3>2. pc[t] = "exec"
      BY <2>11 DEF ExecSucceeds
    <3> QED BY <3>1, <3>2, AdvanceKeeps
  <2>12. CASE ExecFails(t)
    <3>1. past' = past /\ running' = running /\ alive' = alive /\ advance(t, sandbox[t])
      BY <2>12 DEF ExecFails, reload
    <3>2. pc[t] = "exec"
      BY <2>12 DEF ExecFails
    <3> QED BY <3>1, <3>2, AdvanceKeeps
  <2> QED BY <1>7, <2>1, <2>2, <2>3, <2>4, <2>5, <2>6, <2>7, <2>8, <2>9, <2>10, <2>11, <2>12 DEF Step
<1> QED BY <1>3, <1>4, <1>5, <1>6, <1>7 DEF Next

\* Every step keeps the types.
LEMMA TypeStep == TypeInv /\ [Next]_vars => TypeInv'
  BY StepIsDataStep, PastStep, CopyStep, ReachedStep, RequestsStep DEF TypeInv

\* They hold at the start.
LEMMA TypeInit == Init => TypeInv
<1> SUFFICES ASSUME Init PROVE TypeInv
  OBVIOUS
<1> USE Kinds, Values DEF Init
<1>1. \A k \in Kind : past[k] = <<Boot[k]>> /\ Boot[k] \in Value[k]
  OBVIOUS
<1>2. ASSUME NEW k \in Kind
      PROVE  past[k] \in Seq(Value[k]) /\ past[k] # << >> /\ Len(past[k]) = 1
  <2>1. \A V : \A v \in V : <<v>> \in Seq(V) /\ <<v>> # << >> /\ Len(<<v>>) = 1
    OBVIOUS
  <2> QED BY <1>1, <2>1
<1>3. PastOK /\ CopyOK /\ ReachedOK
  BY <1>2 DEF PastOK, CopyOK, ReachedOK
<1>4. PosOK
  BY <1>2 DEF PosOK
<1>5. RequestsOK /\ PlacesOK
  BY DEF RequestsOK, PlacesOK, PlaceOK, Delivering
<1> QED BY <1>3, <1>4, <1>5 DEF TypeInv

\* And so throughout.
LEMMA TypeInvariant == Spec => []TypeInv
  BY TypeInit, TypeStep, PTL DEF Spec

\* Every variable keeps its type whatever happens; in particular a request's snapshot
\* is one of the lists the daemon has had, of the kind it propagates (daemon.go:896-989).
THEOREM PropagationTypeCorrect == Spec => []TypeOK
<1>1. TypeInv => TypeOK
  <2> SUFFICES ASSUME TypeInv PROVE TypeOK
    OBVIOUS
  <2>1. RequestsOK
    BY DEF TypeInv
  <2>2. ASSUME NEW t \in Thread, payload[t] > 0
        PROVE  kind[t] # Nil /\ payload[t] <= Len(past[kind[t]])
    <3>1. PlaceOK(t)
      BY DEF TypeInv, PlacesOK
    <3>2. pc[t] \in Delivering
      BY <2>2, <3>1 DEF PlaceOK
    <3>3. kind[t] \in Kind /\ payload[t] \in 1 .. Len(past[kind[t]])
      BY <3>1, <3>2 DEF PlaceOK
    <3> QED BY <3>3, Kinds
  <2> QED BY <2>1, <2>2 DEF TypeInv, PastOK, CopyOK, PosOK, ReachedOK, RequestsOK, TypeOK
<1> QED BY <1>1, TypeInvariant, PTL

-----------------------------------------------------------------------------
(* With one request at a time a snapshot is not overtaken.                 *)

\* With one request at a time there is one thread.
LEMMA OneRequest == Ordered => \A t, u \in Thread : t = u
<1> SUFFICES ASSUME Ordered PROVE \A t, u \in Thread : t = u
  OBVIOUS
<1>1. PICK x : Thread = {x}
  BY ThreadsAssumption, FS_Singleton DEF Ordered
<1> QED BY <1>1

\* What is posted is the list the daemon has.
SnapshotFresh ==
  Ordered => \A t \in Thread : pc[t] \in Delivering => payload[t] = Len(past[kind[t]])

\* No step makes a snapshot stale, when there is one request at a time.
LEMMA FreshStep == TypeInv /\ SnapshotFresh /\ [Next]_vars => SnapshotFresh'
<1> SUFFICES ASSUME TypeInv, SnapshotFresh, [Next]_vars, Ordered,
                    NEW t \in Thread, pc'[t] \in Delivering
             PROVE  payload'[t] = Len(past[kind[t]])'
  BY DEF SnapshotFresh, Ordered
<1> DEFINE Kept == pc[t] \in Delivering /\ UNCHANGED <<payload, kind, past>>
<1>1. Kept => payload'[t] = Len(past[kind[t]])'
  BY DEF SnapshotFresh
<1>2. pc \in [Thread -> {"idle", "actions", "removing", "all", "balanced", "container",
                         "started", "snapshot", "targets", "deliver", "exec"}]
      /\ payload \in [Thread -> Nat]
  BY DEF TypeInv, RequestsOK
<1>3. CASE UNCHANGED vars
  BY <1>1, <1>3 DEF vars, daemon
<1>4. CASE Environment
  BY <1>1, <1>4 DEF Environment, DaemonRestarts, RuntimeStops, SidecarStarts, SidecarStops, daemon,
                    Delivering
<1>5. CASE Request(t) \/ Action(t)
  BY <1>2, <1>5
  DEF Request, ApplyPolicyActions, DeletePolicyRules, SetPolicyProfile, DeletePolicyRuleByID,
      SetSecrets, StartRuntime, Action, ActionAdd, ActionRemoveID, ActionRemoveResource,
      begin, goto, at, Delivering
<1>6. CASE Step(t)
  <2>1. ~finish(t)
    BY <1>2 DEF finish, goto, Delivering
  <2>2. ASSUME NEW n, advance(t, n), pc[t] \in Delivering, UNCHANGED past PROVE Kept
    BY <2>1, <2>2 DEF advance
  <2>3. CASE Snapshot(t)
    BY <1>2, <2>3 DEF Snapshot, daemon
  <2>4. CASE Targets(t) \/ ExecSucceeds(t) \/ ExecFails(t) \/ \E n \in Name : Skip(t, n)
    BY <1>1, <2>1, <2>2, <2>4 DEF Targets, ExecSucceeds, ExecFails, Skip, daemon, at, Delivering
  <2>5. ASSUME NEW n \in Name, FindSidecar(t, n) PROVE Kept
    BY <2>5 DEF FindSidecar, daemon, at, Delivering
  <2>6. ~(ActionsDone(t) \/ RemoveNext(t) \/ BalancedSecondRule(t) \/ ContainerFails(t)
          \/ ContainerStarted(t) \/ PushSecrets(t))
    BY <1>2, <2>1 DEF ActionsDone, RemoveNext, BalancedSecondRule, ContainerFails, ContainerStarted,
                      PushSecrets, goto, at, Delivering
  <2> QED BY <1>1, <1>6, <2>3, <2>4, <2>5, <2>6 DEF Step
<1> QED BY <1>3, <1>4, <1>5, <1>6, OneRequest DEF Next

\* The snapshot of a lone request is the newest list throughout.
LEMMA FreshInvariant == Spec => [](TypeInv /\ SnapshotFresh)
<1>1. Init => SnapshotFresh
  BY DEF Init, SnapshotFresh, Delivering
<1> QED BY <1>1, TypeInit, TypeStep, FreshStep, PTL DEF Spec

-----------------------------------------------------------------------------
(* The refinement.                                                         *)

\* For each kind of data, a step is a step of Replica, or none.
LEMMA ReplicaStep ==
  ASSUME TypeInv, SnapshotFresh, [Next]_vars, NEW k \in Kind
  PROVE  \/ UNCHANGED <<past[k], copy[k], pos[k]>>
         \/ /\ \E v \in Value[k] : past'[k] = Append(past[k], v)
            /\ UNCHANGED <<copy[k], pos[k]>>
         \/ \E n \in Name : \E i \in 1 .. Len(past[k]) :
              /\ Ordered => i >= pos[k][n]
              /\ copy'[k] = [copy[k] EXCEPT ![n] = past[k][i]]
              /\ pos'[k] = [pos[k] EXCEPT ![n] = i]
              /\ UNCHANGED past[k]
         \/ \E n \in Name : /\ copy'[k] = [copy[k] EXCEPT ![n] = Boot[k]]
                            /\ pos'[k] = [pos[k] EXCEPT ![n] = 0]
                            /\ UNCHANGED past[k]
<1> USE DEF TypeInv
<1>1. CASE Same
  BY <1>1 DEF Same, SidecarsSame
<1>2. CASE Restarted
  BY <1>2, Values DEF Restarted, SidecarsSame
<1>3. ASSUME NEW j \in Kind, Changed(j)
      PROVE  \/ UNCHANGED <<past[k], copy[k], pos[k]>>
             \/ /\ \E v \in Value[k] : past'[k] = Append(past[k], v)
                /\ UNCHANGED <<copy[k], pos[k]>>
  BY <1>3 DEF Changed, SidecarsSame, PastOK
<1>4. ASSUME NEW t \in Thread, NEW n \in Name, Posted(t, n)
      PROVE  \/ UNCHANGED <<past[k], copy[k], pos[k]>>
             \/ \E i \in 1 .. Len(past[k]) :
                  /\ Ordered => i >= pos[k][n]
                  /\ copy'[k] = [copy[k] EXCEPT ![n] = past[k][i]]
                  /\ pos'[k] = [pos[k] EXCEPT ![n] = i]
                  /\ UNCHANGED past[k]
  <2>1. past' = past /\ pc[t] \in Delivering
    BY <1>4 DEF Posted, Delivering
  <2>2. CASE copy' = copy /\ pos' = pos
    BY <2>1, <2>2
  <2>3. CASE ~(copy' = copy /\ pos' = pos)
    <3>1. /\ kind[t] \in Kind /\ payload[t] \in 1 .. Len(past[kind[t]])
          /\ copy' = [copy EXCEPT ![kind[t]][n] = past[kind[t]][payload[t]]]
          /\ pos' = [pos EXCEPT ![kind[t]][n] = payload[t]]
      BY <1>4, <2>3, PostedValue
    <3>2. CASE kind[t] # k
      BY <2>1, <3>1, <3>2 DEF CopyOK, PosOK
    <3>3. CASE kind[t] = k
      <4>1. Ordered => payload[t] >= pos[k][n]
        <5>1. pos[k][n] \in 0 .. Len(past[k])
          BY DEF PosOK
        <5>2. Len(past[k]) \in Nat
          BY DEF PastOK
        <5> QED BY <2>1, <3>3, <5>1, <5>2 DEF SnapshotFresh
      <4>2. copy'[k] = [copy[k] EXCEPT ![n] = past[k][payload[t]]]
        BY <3>1, <3>3 DEF CopyOK
      <4>3. pos'[k] = [pos[k] EXCEPT ![n] = payload[t]]
        BY <3>1, <3>3 DEF PosOK
      <4> QED BY <2>1, <3>1, <3>3, <4>1, <4>2, <4>3
    <3> QED BY <3>2, <3>3
  <2> QED BY <2>2, <2>3
<1>5. ASSUME NEW n \in Name, Stopped(n)
      PROVE  /\ copy'[k] = [copy[k] EXCEPT ![n] = Boot[k]]
             /\ pos'[k] = [pos[k] EXCEPT ![n] = 0]
             /\ UNCHANGED past[k]
  BY <1>5 DEF Stopped
<1> QED BY <1>1, <1>2, <1>3, <1>4, <1>5, StepIsDataStep DEF DataStep

\* The daemon's propagation of the policy rules implements Replica: what a sidecar
\* has is, whole, a list the daemon had, and with one request at a time the sidecar
\* never falls back to an older one (daemon.go:896-962, main.go:197-221).
THEOREM RulesRefineReplica == Spec => RulesReplicated
<1>1. ASSUME Init PROVE Rules!Init
  <2>1. past["policy"] = <<Defaults>> /\ Defaults \in SUBSET Rule
    BY <1>1, Values, Kinds DEF Init
  <2>2. copy["policy"] = [n \in Name |-> Defaults] /\ pos["policy"] = [n \in Name |-> 0]
    BY <1>1, Values, Kinds DEF Init
  <2> QED BY <2>1, <2>2 DEF Rules!Init
<1>2. TypeInv /\ SnapshotFresh /\ [Next]_vars => [Rules!Next]_(Rules!vars)
  BY ReplicaStep, Values, Kinds
  DEF Rules!Next, Rules!Change, Rules!Deliver, Rules!Reset, Rules!vars
<1> QED BY <1>1, <1>2, FreshInvariant, PTL DEF Spec, RulesReplicated, Rules!Spec

\* And so does its propagation of the secrets (daemon.go:964-989, main.go:223-246).
THEOREM SecretsRefineReplica == Spec => SecretsReplicated
<1>1. Init => Secs!Init
  BY Values, Kinds DEF Init, Secs!Init
<1>2. TypeInv /\ SnapshotFresh /\ [Next]_vars => [Secs!Next]_(Secs!vars)
  BY ReplicaStep, Values, Kinds
  DEF Secs!Next, Secs!Change, Secs!Deliver, Secs!Reset, Secs!vars
<1> QED BY <1>1, <1>2, FreshInvariant, PTL DEF Spec, SecretsReplicated, Secs!Spec

-----------------------------------------------------------------------------
(* A change reaches every sidecar, or passes it by for a reason.           *)

\* Request t has yet to post the list of kind k to sidecar n, or to find out that
\* it cannot.  One that starts a container does so if there are secrets by then.
Serves(t, k, n) ==
  \/ /\ kind[t] = k
     /\ \/ pc[t] \in {"actions", "removing", "all", "snapshot", "targets"}
        \/ pc[t] \in {"deliver", "exec"} /\ n \in targets[t]
  \/ k = "secrets" /\ pc[t] \in {"container", "started"} /\ current("secrets") # << >>

Served ==
  \A k \in Kind, n \in Name : reached[k][n] = "pending" => \E t \in Thread : Serves(t, k, n)

\* Request t takes a step; what it leaves pending it serves itself, or another
\* request did and still does.
Accounted(t) ==
  /\ \A u \in Thread \ {t} : pc'[u] = pc[u] /\ kind'[u] = kind[u] /\ targets'[u] = targets[u]
  /\ \A k \in Kind, n \in Name :
       reached'[k][n] = "pending" =>
         \/ Serves(t, k, n)'
         \/ /\ reached[k][n] = "pending" /\ ~Serves(t, k, n)
            /\ k = "secrets" => past'["secrets"] = past["secrets"]

\* A step that accounts for every sidecar it leaves unserved keeps Served.
LEMMA AccountedKeeps == ASSUME Served, NEW t \in Thread, Accounted(t) PROVE Served'
<1> SUFFICES ASSUME NEW k \in Kind, NEW n \in Name, reached'[k][n] = "pending", ~Serves(t, k, n)'
             PROVE  \E u \in Thread : Serves(u, k, n)'
  BY DEF Served
<1>1. /\ reached[k][n] = "pending" /\ ~Serves(t, k, n)
      /\ k = "secrets" => past'["secrets"] = past["secrets"]
  BY DEF Accounted
<1>2. PICK u \in Thread : Serves(u, k, n)
  BY <1>1 DEF Served
<1>3. u # t
  BY <1>1, <1>2
<1>4. Serves(u, k, n)'
  BY <1>1, <1>2, <1>3 DEF Accounted, Serves, current
<1> QED BY <1>4

\* What a change of the rules leaves pending, and that it does not touch the secrets.
LEMMA RuleChangeServes ==
  ASSUME TypeInv, NEW r, AddRule \/ RemoveRule(r)
  PROVE  /\ past'["secrets"] = past["secrets"]
         /\ reached'["secrets"] = reached["secrets"]
<1>1. past' = past \/ \E v : past' = [past EXCEPT !["policy"] = Append(@, v)]
  BY DEF AddRule, RemoveRule, change, set
<1>2. reached' = reached \/ reached' = mark("policy", Name, "pending")
  BY DEF AddRule, RemoveRule, change
<1>3. reached'["secrets"] = reached["secrets"]
  BY <1>2, MarkFacts, Kinds DEF TypeInv
<1> QED BY <1>1, <1>3, Kinds DEF TypeInv, PastOK

\* After a profile has been applied, what is pending is served by its request.
LEMMA ProfileMarks ==
  ASSUME TypeInv, addProfileRule
  PROVE  /\ past'["secrets"] = past["secrets"]
         /\ reached'["secrets"] = reached["secrets"]
         /\ \A n \in Name : reached'["policy"][n] = "missed"
<1>1. \E v : past' = [past EXCEPT !["policy"] = Append(@, v)]
  BY DEF addProfileRule, set
<1>2. /\ reached'["secrets"] = reached["secrets"]
      /\ \A n \in Name : reached'["policy"][n] = "missed"
  BY MarkFacts, Kinds DEF TypeInv, addProfileRule
<1> QED BY <1>1, <1>2, Kinds DEF TypeInv, PastOK

\* A change of the secrets leaves every sidecar pending.
LEMMA SecretsChange ==
  ASSUME TypeInv, NEW v \in SecretLists, change("secrets", v)
  PROVE  /\ Last(past'["secrets"]) = v
         /\ reached'["policy"] = reached["policy"]
<1>1. past' = [past EXCEPT !["secrets"] = Append(@, v)] /\ past["secrets"] \in Seq(SecretLists)
  BY Values, Kinds DEF TypeInv, PastOK, change, set
<1>2. past'["secrets"] = Append(past["secrets"], v)
  BY <1>1, Kinds DEF TypeInv, PastOK
<1>3. \A w \in SecretLists : \A s \in Seq(SecretLists) : \A u :
        u = Append(s, w) => Len(u) = Len(s) + 1 /\ u[Len(s) + 1] = w
  BY AppendFacts
<1>4. Last(past'["secrets"]) = v
  BY <1>1, <1>2, <1>3 DEF Last
<1>5. reached'["policy"] = reached["policy"]
  BY MarkFacts, Kinds DEF TypeInv, change
<1> QED BY <1>4, <1>5

\* Every step keeps Served: a sidecar that waits has a request that will serve it.
LEMMA ServedStep == TypeInv /\ Served /\ [Next]_vars => Served'
<1> SUFFICES ASSUME TypeInv, Served, [Next]_vars PROVE Served'
  OBVIOUS
<1> USE Kinds DEF daemon, sidecar
<1>1. /\ pc \in [Thread -> {"idle", "actions", "removing", "all", "balanced", "container",
                            "started", "snapshot", "targets", "deliver", "exec"}]
      /\ kind \in [Thread -> Kind \cup {Nil}] /\ targets \in [Thread -> SUBSET Name]
  BY DEF TypeInv, RequestsOK
<1>2. ASSUME past' = past, pc' = pc, kind' = kind, targets' = targets,
             \A k \in Kind, n \in Name : reached'[k][n] = "pending" => reached[k][n] = "pending"
      PROVE  Served'
  BY <1>2 DEF Served, Serves, current
<1>3. CASE UNCHANGED vars
  BY <1>2, <1>3 DEF vars
<1>4. CASE Environment
  <2>1. CASE DaemonRestarts
    BY <2>1 DEF DaemonRestarts, Served
  <2>2. ASSUME NEW n \in Name, SidecarStops(n) PROVE Served'
    BY <1>2, <2>2 DEF SidecarStops, TypeInv, ReachedOK
  <2>3. ASSUME NEW n \in Name, RuntimeStops(n) \/ SidecarStarts(n) PROVE Served'
    BY <1>2, <2>3 DEF RuntimeStops, SidecarStarts
  <2> QED BY <1>4, <2>1, <2>2, <2>3 DEF Environment
<1>5. ASSUME NEW t \in Thread, Request(t) PROVE Served'
  <2> SUFFICES Accounted(t)
    BY AccountedKeeps
  <2>1. CASE ApplyPolicyActions(t) \/ DeletePolicyRules(t)
    BY <1>1, <2>1 DEF ApplyPolicyActions, DeletePolicyRules, begin, goto, at, Accounted, Serves
  <2>2. CASE SetPolicyProfile(t)
    BY <1>1, <2>2, ProfileMarks DEF SetPolicyProfile, goto, at, Accounted, Serves
  <2>3. ASSUME NEW r \in Rule, DeletePolicyRuleByID(t, r) PROVE Accounted(t)
    BY <1>1, <2>3, RuleChangeServes DEF DeletePolicyRuleByID, begin, goto, at, Accounted, Serves
  <2>4. ASSUME NEW list \in SecretLists, SetSecrets(t, list) PROVE Accounted(t)
    BY <1>1, <2>4, SecretsChange DEF SetSecrets, begin, goto, at, Accounted, Serves
  <2>5. ASSUME NEW n \in Name, NEW own \in OwnLists, StartRuntime(t, n, own) PROVE Accounted(t)
    BY <1>1, <2>5, SecretsChange, ListsAssumption
    DEF StartRuntime, begin, goto, at, Accounted, Serves, current
  <2> QED BY <1>5, <2>1, <2>2, <2>3, <2>4, <2>5 DEF Request
<1>6. ASSUME NEW t \in Thread, Action(t) PROVE Served'
  <2> SUFFICES Accounted(t)
    BY AccountedKeeps
  <2>1. kind[t] = "policy" /\ pc[t] = "actions"
    BY <1>6 DEF TypeInv, PlacesOK, PlaceOK, Action, ActionAdd, ActionRemoveID, ActionRemoveResource, at
  <2>2. CASE ActionAdd(t) \/ \E r \in Rule : ActionRemoveID(t, r)
    BY <1>1, <2>1, <2>2, RuleChangeServes DEF ActionAdd, ActionRemoveID, Accounted, Serves
  <2>3. ASSUME NEW R \in SUBSET Rule, ActionRemoveResource(t, R) PROVE Accounted(t)
    BY <1>1, <2>1, <2>3 DEF ActionRemoveResource, goto, Accounted, Serves
  <2> QED BY <1>6, <2>2, <2>3 DEF Action
<1>7. ASSUME NEW t \in Thread, Step(t) PROVE Served'
  <2> SUFFICES Accounted(t)
    BY AccountedKeeps
  <2>1. PlaceOK(t)
    BY DEF TypeInv, PlacesOK
  <2>2. CASE ActionsDone(t) \/ Snapshot(t)
    BY <1>1, <2>2 DEF ActionsDone, Snapshot, goto, at, Accounted, Serves
  <2>3. CASE RemoveNext(t)
    BY <1>1, <2>1, <2>3, RuleChangeServes DEF RemoveNext, goto, at, PlaceOK, Accounted, Serves
  <2>4. CASE BalancedSecondRule(t)
    BY <1>1, <2>4, ProfileMarks DEF BalancedSecondRule, finish, goto, at, Accounted, Serves
  <2>5. CASE ContainerFails(t)
    <3>1. /\ \A n \in Name : reached'["secrets"][n] # "pending"
          /\ reached'["policy"] = reached["policy"]
      <4>1. reached' = mark("secrets", {n \in Name : reached["secrets"][n] = "pending"}, "missed")
        BY <2>5 DEF ContainerFails
      <4> QED BY <4>1, MarkFacts DEF TypeInv
    <3>2. pc[t] = "container" /\ kind[t] = "secrets" /\ past' = past /\ finish(t)
      BY <2>1, <2>5 DEF ContainerFails, at, PlaceOK
    <3> QED BY <1>1, <3>1, <3>2 DEF finish, goto, Accounted, Serves
  <2>6. CASE ContainerStarted(t)
    BY <1>1, <2>1, <2>6 DEF ContainerStarted, goto, at, PlaceOK, Accounted, Serves, current
  <2>7. CASE PushSecrets(t)
    <3>1. pc[t] = "started" /\ kind[t] = "secrets" /\ past' = past /\ reached' = reached
      BY <2>1, <2>7 DEF PushSecrets, at, PlaceOK
    <3>2. CASE current("secrets") = << >> /\ finish(t)
      BY <1>1, <3>1, <3>2 DEF finish, goto, Accounted, Serves
    <3>3. CASE ~(current("secrets") = << >> /\ finish(t))
      <4>1. pc' = [pc EXCEPT ![t] = "snapshot"] /\ UNCHANGED <<kind, targets>>
        BY <2>7, <3>3 DEF PushSecrets, goto
      <4> QED BY <1>1, <3>1, <4>1 DEF Accounted, Serves
    <3> QED BY <3>2, <3>3
  <2>8. CASE Targets(t)
    <3>1. kind[t] \in Kind /\ pc[t] = "targets" /\ past' = past /\ running \subseteq Name
      BY <2>1, <2>8 DEF Targets, at, PlaceOK, Delivering, TypeInv, RequestsOK
    <3>2. /\ \A n \in Name \ running : reached'[kind[t]][n] = "missed"
          /\ \A k \in Kind, n \in Name : reached'[k][n] = "pending" => reached[k][n] = "pending"
      <4>1. reached' = mark(kind[t], Name \ running, "missed")
        BY <2>8 DEF Targets
      <4>2. \A n \in Name : reached'[kind[t]][n] = IF n \in Name \ running THEN "missed"
                                                   ELSE reached[kind[t]][n]
        BY <3>1, <4>1, MarkFacts DEF TypeInv
      <4>3. \A j \in Kind \ {kind[t]} : reached'[j] = reached[j]
        BY <3>1, <4>1, MarkFacts DEF TypeInv
      <4> QED BY <4>2, <4>3
    <3>3. CASE running = {} /\ finish(t)
      BY <1>1, <3>1, <3>2, <3>3 DEF finish, goto, Accounted, Serves
    <3>4. CASE ~(running = {} /\ finish(t))
      <4>1. /\ targets' = [targets EXCEPT ![t] = running]
            /\ pc' = [pc EXCEPT ![t] = "deliver"] /\ kind' = kind
        BY <2>8, <3>4 DEF Targets, goto
      <4> QED BY <1>1, <3>1, <3>2, <4>1 DEF Accounted, Serves
    <3> QED BY <3>3, <3>4
  <2>9. ASSUME NEW n \in Name, FindSidecar(t, n) PROVE Accounted(t)
    BY <1>1, <2>9 DEF FindSidecar, goto, at, Accounted, Serves
  <2>10. ASSUME NEW n \in Name, pc[t] \in {"deliver", "exec"}, advance(t, n), past' = past,
               \/ reached' = mark(kind[t], {n}, "missed") \/ reached' = mark(kind[t], {n}, "acked")
               \/ reached' = reached /\ reached[kind[t]][n] = "missed"
        PROVE  Accounted(t)
    <3>1. kind[t] \in Kind
      BY <2>1, <2>10 DEF PlaceOK, Delivering
    <3>2. /\ reached'[kind[t]][n] # "pending"
          /\ \A k \in Kind, m \in Name : reached'[k][m] = "pending" => reached[k][m] = "pending"
      BY <2>10, <3>1, MarkFacts DEF TypeInv
    <3> QED BY <1>1, <2>10, <3>1, <3>2 DEF advance, finish, goto, Accounted, Serves
  <2>11. ASSUME NEW n \in Name, Skip(t, n) PROVE Accounted(t)
    BY <2>10, <2>11 DEF Skip, at
  <2>12. CASE ExecSucceeds(t) \/ ExecFails(t)
    <3>1. sandbox[t] \in Name
      BY <1>1, <2>1, <2>12 DEF PlaceOK, ExecSucceeds, ExecFails, at
    <3> QED BY <2>10, <2>12, <3>1 DEF ExecSucceeds, ExecFails, at
  <2> QED BY <1>7, <2>2, <2>3, <2>4, <2>5, <2>6, <2>7, <2>8, <2>9, <2>11,
             <2>12 DEF Step
<1> QED BY <1>3, <1>4, <1>5, <1>6, <1>7 DEF Next

\* However many requests change rules and secrets at once, none ends with a sidecar
\* that has neither answered nor a reason of its own not to have (daemon.go:914-949).
THEOREM PropagationForgetsNone == Spec => []NoSidecarForgotten
<1>1. Init => Served
  BY DEF Init, Served
<1>2. Served => NoSidecarForgotten
  BY DEF Served, Serves, NoSidecarForgotten, quiet
<1> QED BY <1>1, <1>2, TypeInit, TypeStep, ServedStep, PTL DEF Spec

-----------------------------------------------------------------------------
(* Who has answered has the daemon's list.                                 *)

Synced(k, n) == copy[k][n] = current(k) \/ (k = "policy" /\ rules = {})

AckedSynced == \A k \in Kind, n \in Name : reached[k][n] = "acked" => Synced(k, n)

\* A change of the daemon's lists leaves no sidecar as having answered.
LEMMA ChangeUnacks ==
  ASSUME TypeInv, [Next]_vars, NEW k \in Kind, past'[k] # past[k]
  PROVE  \A n \in Name : reached'[k][n] # "acked"
<1> USE Kinds DEF TypeInv
<1>1. ASSUME NEW r, AddRule \/ RemoveRule(r) \/ addProfileRule
      PROVE  \A n \in Name : reached'[k][n] # "acked"
  <2>1. past' # past /\ \E v : past' = [past EXCEPT !["policy"] = Append(@, v)]
    BY <1>1 DEF AddRule, RemoveRule, addProfileRule, change, set
  <2>2. k = "policy"
    BY <2>1 DEF PastOK
  <2> QED BY <1>1, <2>1, <2>2, RuleChangeMarks, MarkFacts
<1>2. ASSUME NEW v, change("secrets", v) PROVE \A n \in Name : reached'[k][n] # "acked"
  <2>1. past' = [past EXCEPT !["secrets"] = Append(@, v)] /\ reached' = mark("secrets", Name, "pending")
    BY <1>2 DEF change, set
  <2>2. k = "secrets"
    BY <2>1 DEF PastOK
  <2> QED BY <2>1, <2>2, MarkFacts
<1>3. CASE DaemonRestarts
  BY <1>3 DEF DaemonRestarts
<1> QED
  BY <1>1, <1>2, <1>3
  DEF Next, vars, daemon, Environment, RuntimeStops, SidecarStarts, SidecarStops, Request,
      ApplyPolicyActions, DeletePolicyRules, SetPolicyProfile, DeletePolicyRuleByID, SetSecrets,
      StartRuntime, Action, ActionAdd, ActionRemoveID, ActionRemoveResource, Step, ActionsDone,
      RemoveNext, BalancedSecondRule, ContainerFails, ContainerStarted, PushSecrets, Snapshot, Targets,
      Skip, FindSidecar, ExecSucceeds, ExecFails

\* With one request at a time, whom a list is posted to has the daemon's list.
LEMMA PostSyncs ==
  ASSUME TypeInv, SnapshotFresh, Ordered, NEW t \in Thread, NEW n \in Name, Posted(t, n),
         NEW k \in Kind, k = kind[t]
  PROVE  Synced(k, n)'
<1>1. past' = past /\ payload[t] = Len(past[k])
  BY DEF Posted, SnapshotFresh, Delivering
<1>2. current(k) = past[k][payload[t]] /\ current(k)' = current(k)
  BY <1>1 DEF current, Last
<1>3. CASE k = "policy" /\ past[k][payload[t]] = {}
  BY <1>2, <1>3 DEF Synced, rules
<1>4. CASE ~(k = "policy" /\ past[k][payload[t]] = {})
  <2>1. copy' = [copy EXCEPT ![k][n] = past[k][payload[t]]]
    BY <1>4, PostedValue
  <2>2. copy'[k][n] = past[k][payload[t]]
    BY <2>1 DEF TypeInv, CopyOK
  <2> QED BY <1>2, <2>2 DEF Synced
<1> QED BY <1>3, <1>4

\* A step that changes what a sidecar has posts a list to it, and marks it as having
\* answered or as missed, or stops it, and marks it as missed.
LEMMA CopyMarked ==
  ASSUME TypeInv, [Next]_vars, NEW k \in Kind, NEW n \in Name,
         copy'[k][n] # copy[k][n] \/ reached[k][n] # "acked",
         reached'[k][n] = "acked"
  PROVE  \E t \in Thread : k = kind[t] /\ Posted(t, n)
<1> USE Kinds DEF TypeInv
<1>1. copy'[k][n] # copy[k][n] \/ reached'[k][n] # reached[k][n]
  OBVIOUS
<1>2. ~UNCHANGED vars
  BY <1>1 DEF vars, sidecar
<1>3. ~Environment
  BY <1>1 DEF Environment, DaemonRestarts, RuntimeStops, SidecarStarts, SidecarStops, sidecar, CopyOK,
              ReachedOK
<1>4. ASSUME NEW j \in Kind, NEW N, NEW m \in {"pending", "missed"}, reached' = mark(j, N, m),
             copy' = copy
      PROVE  FALSE
  BY <1>1, <1>4, MarkFacts
<1>5. ASSUME NEW r, AddRule \/ RemoveRule(r) \/ addProfileRule, copy' = copy PROVE FALSE
  BY <1>1, <1>4, <1>5, RuleChangeMarks
<1>6. ASSUME NEW v, change("secrets", v), copy' = copy PROVE FALSE
  BY <1>4, <1>6 DEF change
<1>7. ASSUME NEW t \in Thread, Request(t) \/ Action(t) PROVE FALSE
  BY <1>1, <1>5, <1>6, <1>7
  DEF Request, ApplyPolicyActions, DeletePolicyRules, SetPolicyProfile, DeletePolicyRuleByID,
      SetSecrets, StartRuntime, Action, ActionAdd, ActionRemoveID, ActionRemoveResource, sidecar
<1>8. ASSUME NEW t \in Thread, Step(t) PROVE k = kind[t] /\ Posted(t, n)
  <2>1. PlaceOK(t)
    BY DEF PlacesOK
  <2>2. ~(ActionsDone(t) \/ ContainerStarted(t) \/ PushSecrets(t) \/ Snapshot(t) \/ RemoveNext(t)
          \/ BalancedSecondRule(t) \/ ContainerFails(t))
    BY <1>1, <1>4, <1>5
    DEF ActionsDone, ContainerStarted, PushSecrets, Snapshot, RemoveNext, BalancedSecondRule,
        ContainerFails, sidecar
  <2>3. ASSUME NEW m \in Name, Skip(t, m) \/ FindSidecar(t, m) PROVE FALSE
    BY <1>1, <1>4, <2>1, <2>3 DEF Skip, FindSidecar, sidecar, at, PlaceOK, Delivering
  <2>4. ~Targets(t)
    BY <1>4, <2>1 DEF Targets, sidecar, at, PlaceOK, Delivering
  <2>5. CASE ExecSucceeds(t) \/ ExecFails(t)
    <3>1. /\ kind[t] \in Kind /\ sandbox[t] \in Name /\ at(t, "exec") /\ past' = past
          /\ reached' = reached \/ reached' = mark(kind[t], {sandbox[t]}, "acked")
                                \/ reached' = mark(kind[t], {sandbox[t]}, "missed")
          /\ \/ reload(t, sandbox[t])
             \/ copy' = copy /\ reached' = mark(kind[t], {sandbox[t]}, "missed")
      BY <2>1, <2>5 DEF ExecSucceeds, ExecFails, daemon, sidecar, at, PlaceOK, Delivering, RequestsOK
    <3>2. reload(t, sandbox[t])
      BY <1>4, <3>1
    <3>3. Posted(t, sandbox[t])
      BY <3>1, <3>2 DEF Posted, at
    <3>4. kind[t] = k /\ sandbox[t] = n
      <4>1. reached'[k][n] # reached[k][n] => kind[t] = k /\ sandbox[t] = n
        <5>1. ASSUME NEW m \in {"acked", "missed"}, reached' = mark(kind[t], {sandbox[t]}, m)
              PROVE  reached'[k][n] # reached[k][n] => kind[t] = k /\ sandbox[t] = n
          <6>1. /\ \A x \in Name : x # sandbox[t] => reached'[kind[t]][x] = reached[kind[t]][x]
                /\ \A j \in Kind \ {kind[t]} : reached'[j] = reached[j]
            BY <3>1, <5>1 DEF mark, ReachedOK
          <6> QED BY <6>1
        <5> QED BY <3>1, <5>1
      <4>2. copy'[k][n] # copy[k][n] => kind[t] = k /\ sandbox[t] = n
        <5>1. \/ copy' = copy
              \/ copy' = [copy EXCEPT ![kind[t]][sandbox[t]] = past[kind[t]][payload[t]]]
          BY <3>1, <3>3, PostedValue
        <5> QED BY <3>1, <5>1 DEF CopyOK
      <4> QED BY <1>1, <4>1, <4>2
    <3> QED BY <3>3, <3>4
  <2> QED BY <1>8, <2>2, <2>3, <2>4, <2>5 DEF Step
<1> QED BY <1>2, <1>3, <1>7, <1>8 DEF Next

\* A sidecar that acknowledged has the newest list, after every step of a lone request.
LEMMA SyncedStep ==
  ASSUME Ordered PROVE TypeInv /\ SnapshotFresh /\ AckedSynced /\ [Next]_vars => AckedSynced'
<1> SUFFICES ASSUME TypeInv, SnapshotFresh, AckedSynced, [Next]_vars,
                    NEW k \in Kind, NEW n \in Name, reached'[k][n] = "acked"
             PROVE  Synced(k, n)'
  BY DEF AckedSynced
<1>1. CASE copy'[k][n] = copy[k][n] /\ reached[k][n] = "acked"
  <2>1. past'[k] = past[k]
    BY ChangeUnacks
  <2> QED BY <1>1, <2>1 DEF AckedSynced, Synced, current, rules
<1>2. CASE ~(copy'[k][n] = copy[k][n] /\ reached[k][n] = "acked")
  <2>1. PICK t \in Thread : k = kind[t] /\ Posted(t, n)
    BY <1>2, CopyMarked
  <2> QED BY <2>1, PostSyncs
<1> QED BY <1>1, <1>2

\* With one request at a time, a sidecar that has answered the reload after a change
\* has the daemon's list, whatever calls fail and whichever process restarts - or, of
\* the rules, keeps its own when the daemon has none left (daemon.go:952-989,
\* main.go:211).
THEOREM PropagationAckedIsCurrent == Ordered => (Spec => []AckedIsCurrent)
<1> SUFFICES ASSUME Ordered PROVE Spec => []AckedIsCurrent
  OBVIOUS
<1>1. Init => AckedSynced
  BY DEF Init, AckedSynced
<1>2. AckedSynced => AckedIsCurrent
  BY DEF AckedSynced, Synced, AckedIsCurrent
<1> QED BY <1>1, <1>2, FreshInvariant, SyncedStep, PTL DEF Spec

-----------------------------------------------------------------------------
(* What a sidecar does with the secrets it has.                            *)

\* The lists of secrets that sidecars have are lists of secrets.
LEMMA SidecarSecrets ==
  ASSUME TypeInv, NEW n \in Name
  PROVE  copy["secrets"][n] \in Seq(CustomSecret)
<1>1. copy["secrets"][n] \in SecretLists
  BY Kinds, Values DEF TypeInv, CopyOK
<1> QED BY <1>1, TextsAssumption

\* For whatever lists the daemon is given and whatever headers come back: no header
\* a sidecar has redacted contains one of its secrets, except one that "[REDACTED]"
\* contains or can complete (proxy.go:565, secrets.go:89-99).
THEOREM PropagationRedactionComplete == Spec => []RedactionComplete
<1>1. TypeInv => RedactionComplete
  <2> SUFFICES ASSUME TypeInv, NEW n \in alive, NEW text \in Texts,
                      NEW i \in DOMAIN copy["secrets"][n],
                      copy["secrets"][n][i].Value \notin {<< >>, copy["secrets"][n][i].Sentinel},
                      apart(copy["secrets"][n][i].Value, Redacted)
               PROVE  ~occursIn(copy["secrets"][n][i].Value,
                                RedactSecretsInHeader(copy["secrets"][n], text))
    BY DEF RedactionComplete
  <2>1. n \in Name /\ text \in Text
    BY TextsAssumption DEF TypeInv, RequestsOK
  <2>2. PICK list \in Seq(CustomSecret) : list = copy["secrets"][n]
    BY <2>1, SidecarSecrets
  <2>3. i \in 1 .. Len(list)
    BY <2>2, LenProperties
  <2>4. list[i].Value \notin {<< >>, list[i].Sentinel} /\ apart(list[i].Value, Redacted)
    BY <2>2
  <2>5. ~occursIn(list[i].Value, RedactSecretsInHeader(list, text))
    BY <2>1, <2>3, <2>4, RedactionRemovesValues
  <2> QED BY <2>2, <2>5
<1> QED BY <1>1, TypeInvariant, PTL

\* For whatever lists and bodies: with one request at a time, a sidecar that has
\* answered puts the secrets the daemon has now in place of the sentinels, all of
\* them as if at once (daemon.go:755-758, secrets.go:49-86).
THEOREM PropagationSentinels == Ordered => (Spec => []SentinelsBecomeDaemonsValues)
<1> SUFFICES ASSUME Ordered PROVE Spec => []SentinelsBecomeDaemonsValues
  OBVIOUS
<1>1. TypeInv /\ AckedIsCurrent => SentinelsBecomeDaemonsValues
  <2> SUFFICES ASSUME TypeInv, AckedIsCurrent, quiet, NEW n \in alive,
                      reached["secrets"][n] = "acked", Unambiguous(copy["secrets"][n]),
                      NEW text \in Texts
               PROVE  ReplaceSentinels(copy["secrets"][n], text)
                        = Substituted(current("secrets"), text)
    BY DEF SentinelsBecomeDaemonsValues
  <2>1. n \in Name /\ text \in Text
    BY TextsAssumption DEF TypeInv, RequestsOK
  <2>2. PICK list \in Seq(CustomSecret) : list = copy["secrets"][n]
    BY <2>1, SidecarSecrets
  <2>3. copy["secrets"][n] = current("secrets")
    BY <2>1, Kinds DEF AckedIsCurrent
  <2>4. ReplaceSentinels(list, text) = Substituted(list, text)
    BY <2>1, <2>2, ReplacementIsSimultaneous
  <2> QED BY <2>2, <2>3, <2>4
<1> QED BY <1>1, TypeInvariant, PropagationAckedIsCurrent, PTL

=============================================================================
