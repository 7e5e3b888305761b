----------------------------- MODULE ProxyProofs -----------------------------
(***************************************************************************)
(* Proofs about Proxy, for any finite number of connections, any           *)
(* destinations and any limits: the connection counter is exact, the limit *)
(* is never exceeded by admitted connections, and nothing goes upstream    *)
(* that the policy refused.                                                *)
(***************************************************************************)
EXTENDS Proxy, FiniteSetTheorems, TLAPS

-----------------------------------------------------------------------------
(* The inductive invariant.                                                *)

\* A goroutine that is about to count itself, or has counted itself too many,
\* read a limit.
LimitLoaded == \A c \in Conn : pc[c] \in {"add", "over"} => maxConns[c] > 0

\* AdmittedWithinLimit for every part of the admitted connections: whichever of
\* them return first, the latest one admitted among the rest still bounds them.
EveryPartWithinLimit ==
  \A B \in SUBSET admitted :
    B # {} => \E c \in B : Cardinality(B) <= maxConns[c]

Inv == /\ TypeOK
       /\ LimitLoaded
       /\ ActiveCountExact
       /\ EveryPartWithinLimit

\* What is known of one connection from the label its goroutine has reached:
\* upstream is untouched before the policy check, the check was passed where the
\* handler goes on, the protocol fits the handler, and a goroutine returns with
\* the client's socket open only from the two HTTP handlers.
ConnOK(c) ==
  /\ pc[c] \in {None, "dispatch", "add", "over", "peek", "readrequest", "negotiate",
                "originaldst", "evaluate", "blocking"} => upstream[c] = None
  /\ pc[c] \in {"roundtrip", "established", "mitm", "dial", "tunnel"}
       => decision[c] = "allow"
  /\ pc[c] \in {"negotiate", "originaldst"} => proto[c] \in {"socks5", "rawtcp"}
  /\ pc[c] = "evaluate" => proto[c] \in Protocol
  /\ pc[c] = "roundtrip" => proto[c] = "http"
  /\ pc[c] = "blocking" => proto[c] \in {"http", "connect"} /\ decision[c] = "deny"
  /\ upstream[c] # None => decision[c] = "allow"
  /\ pc[c] \in {"return", "done"} /\ sock[c] = "open" =>
       proto[c] = "http" \/ (proto[c] = "connect" /\ decision[c] = "deny")

ConnInv == \A c \in Conn : ConnOK(c)

\* The limit a goroutine has read is a number (proxy.go:244).
LEMMA LimitsRead ==
  ASSUME TypeOK PROVE \A c \in Conn : maxConns[c] \in Nat
<1>1. maxConns \in [Conn -> Limits \cup {0}]
  BY DEF TypeOK
<1>2. Limits \cup {0} \subseteq Nat
  BY LimitsAssumption
<1> QED BY <1>1, <1>2

-----------------------------------------------------------------------------
(* How a step moves the set of counted connections.                        *)

Before == {None, "dispatch", "add"}
Inside == Label \ (Before \cup {"over", "done"})

\* A step that neither counts nor uncounts a connection.
CountUntouched ==
  /\ activeConns' = activeConns
  /\ counted' = counted
  /\ admitted' = admitted
  /\ \A c \in admitted : maxConns'[c] = maxConns[c]

\* A step that counts connection c, and admits it if the limit allows.
CountsUp(c) ==
  /\ activeConns' = activeConns + 1
  /\ c \in Conn \ counted
  /\ counted' = counted \cup {c}
  /\ admitted' = IF activeConns + 1 > maxConns[c] THEN admitted ELSE admitted \cup {c}
  /\ maxConns' = maxConns

\* A step that takes connection c out again.
CountsDown(c) ==
  /\ activeConns' = activeConns - 1
  /\ c \in counted
  /\ counted' = counted \ {c}
  /\ admitted' = admitted \ {c}
  /\ maxConns' = maxConns

\* A goroutine that moves within a handler, or returns uncounted, leaves the
\* counted set alone.
LEMMA MoveInside ==
  ASSUME TypeOK, NEW c \in Conn, NEW l \in Label, goto(c, l), maxConns' = maxConns,
         activeConns' = activeConns,
         \/ pc[c] \in Inside /\ l \in Inside
         \/ pc[c] \in Before /\ l \in Before
         \/ maxConns[c] = 0
  PROVE  CountUntouched
<1>1. \A e \in Conn : pc'[e] = IF e = c THEN l ELSE pc[e]
  BY DEF goto, TypeOK
<1>2. \A e \in Conn : e \in counted' <=> e \in counted
  BY <1>1 DEF counted, Inside, Before
<1>3. counted' = counted
  BY <1>2 DEF counted
<1>4. \A e \in counted : pc'[e] # "over" <=> pc[e] # "over"
  BY <1>1 DEF counted, Inside, Before
<1> QED
  BY <1>3, <1>4 DEF CountUntouched, admitted

\* A step that leaves labels, limits and counter alone changes nothing.
LEMMA SameCount ==
  ASSUME pc' = pc, maxConns' = maxConns, activeConns' = activeConns
  PROVE  CountUntouched
  BY DEF CountUntouched, admitted, counted

\* Reading the limit (proxy.go:244-245) counts nobody.
LEMMA LoadLimitCount ==
  ASSUME TypeOK, NEW c \in Conn, LoadLimit(c) PROVE CountUntouched
<1>1. \A e \in Conn : /\ e # c => pc'[e] = pc[e] /\ maxConns'[e] = maxConns[e]
                      /\ e = c => /\ pc[e] = "dispatch"
                                  /\ \/ pc'[e] = "add"
                                     \/ pc'[e] = "peek" /\ ~(maxConns'[e] > 0)
  BY DEF LoadLimit, goto, at, TypeOK
<1>2. counted' = counted
  BY <1>1 DEF counted
<1>3. \A e \in counted : e # c
  BY <1>1 DEF counted
<1>4. admitted' = admitted
  BY <1>1, <1>2, <1>3 DEF admitted, counted
<1>5. activeConns' = activeConns
  BY DEF LoadLimit, counters
<1> QED
  BY <1>1, <1>2, <1>3, <1>4, <1>5 DEF CountUntouched, admitted, counted

\* activeConns.Add(1) (proxy.go:246) counts exactly this goroutine.
LEMMA CountUpCount ==
  ASSUME TypeOK, LimitLoaded, NEW c \in Conn, CountUp(c) PROVE CountsUp(c)
<1>1. /\ pc[c] = "add" /\ maxConns[c] > 0 /\ maxConns' = maxConns
      /\ activeConns' = activeConns + 1
  BY DEF CountUp, at, locals, LimitLoaded
<1>2. \A e \in Conn :
        pc'[e] = IF e = c THEN (IF activeConns + 1 > maxConns[c] THEN "over" ELSE "peek")
                 ELSE pc[e]
  BY DEF CountUp, goto, TypeOK
<1>3. c \notin counted
  BY <1>1 DEF counted
<1>4. counted' = counted \cup {c}
  BY <1>1, <1>2 DEF counted, None
<1>5. CASE activeConns + 1 > maxConns[c]
  <2>1. admitted' = admitted
    BY <1>1, <1>2, <1>3, <1>4, <1>5 DEF admitted, counted
  <2> QED BY <1>1, <1>3, <1>4, <1>5, <2>1 DEF CountsUp
<1>6. CASE ~(activeConns + 1 > maxConns[c])
  <2>1. admitted' = admitted \cup {c}
    BY <1>1, <1>2, <1>3, <1>4, <1>6 DEF admitted, counted
  <2> QED BY <1>1, <1>3, <1>4, <1>6, <2>1 DEF CountsUp
<1> QED BY <1>5, <1>6

\* The two decrements (proxy.go:248, 253) each take one counted goroutine out.
LEMMA LeaveCount ==
  ASSUME TypeOK, NEW c \in Conn, goto(c, "done"), maxConns' = maxConns,
         activeConns' = activeConns - 1, maxConns[c] > 0,
         pc[c] \in {"over", "return"}
  PROVE  CountsDown(c)
<1>1. \A e \in Conn : pc'[e] = IF e = c THEN "done" ELSE pc[e]
  BY DEF goto, TypeOK
<1>2. c \in counted
  BY DEF counted, None
<1>3. counted' = counted \ {c}
  BY <1>1 DEF counted
<1>4. admitted' = admitted \ {c}
  BY <1>1, <1>3 DEF admitted, counted
<1> QED
  BY <1>2, <1>3, <1>4 DEF CountsDown

\* Every step of the proxy does one of the three.
LEMMA StepCount ==
  ASSUME TypeOK, LimitLoaded, Next
  PROVE  CountUntouched \/ \E c \in Conn : CountsUp(c) \/ CountsDown(c)
<1>1. CASE Control
  <2>1. pc' = pc /\ maxConns' = maxConns /\ activeConns' = activeConns
    BY <1>1 DEF Control, Start, Stop, SetSOCKS5Enabled,
                SetRawTCPEnabled, SetMaxConnections, ReloadPolicy, counters, locals
  <2> QED BY <2>1, SameCount
<1>2. CASE ConcurrentMapWrites
  <2>1. pc' = pc /\ maxConns' = maxConns /\ activeConns' = activeConns
    BY <1>2 DEF ConcurrentMapWrites, counters, locals
  <2> QED BY <2>1, SameCount
<1>3. ASSUME NEW c \in Conn, OwnStep(c)
      PROVE  CountUntouched \/ CountsUp(c) \/ CountsDown(c)
  <2>1. CASE LoadLimit(c)
    BY <2>1, LoadLimitCount
  <2>2. CASE CountUp(c)
    BY <2>2, CountUpCount
  <2>3. CASE RejectOverLimit(c)
    <3>1. /\ goto(c, "done") /\ maxConns' = maxConns
          /\ activeConns' = activeConns - 1 /\ pc[c] = "over"
      BY <2>3 DEF RejectOverLimit, at, locals
    <3>2. maxConns[c] > 0
      BY <3>1 DEF LimitLoaded
    <3> QED BY <3>1, <3>2, LeaveCount
  <2>4. CASE Return(c)
    <3>1. /\ goto(c, "done") /\ maxConns' = maxConns /\ pc[c] = "return"
          /\ activeConns' = IF maxConns[c] > 0 THEN activeConns - 1 ELSE activeConns
      BY <2>4 DEF Return, at, locals
    <3>2. CASE maxConns[c] > 0
      BY <3>1, <3>2, LeaveCount
    <3>3. CASE ~(maxConns[c] > 0)
      <4>1. maxConns[c] = 0 /\ activeConns' = activeConns
        BY <3>1, <3>3, LimitsRead
      <4>2. "done" \in Label
        BY DEF Label
      <4> QED BY <3>1, <4>1, <4>2, MoveInside
    <3> QED BY <3>2, <3>3
  <2>5. CASE Evaluate(c)
    <3>1. /\ maxConns' = maxConns /\ activeConns' = activeConns
          /\ pc[c] \in Inside
          /\ goto(c, allowedLabel(c)) \/ goto(c, refusedLabel(c))
      BY <2>5 DEF Evaluate, at, counters, Inside, Before, Label, None
    <3>2. allowedLabel(c) \in Inside /\ refusedLabel(c) \in Inside
      BY DEF allowedLabel, refusedLabel, Inside, Before, Label, None
    <3>3. Inside \subseteq Label
      BY DEF Inside
    <3> QED BY <3>1, <3>2, <3>3, MoveInside
  <2>6. CASE PeekFails(c) \/ RecordBlocked(c) \/ DialFails(c)
    <3>1. /\ maxConns' = maxConns /\ activeConns' = activeConns
          /\ pc[c] \in Inside
          /\ \E l \in Inside : goto(c, l)
      BY <2>6 DEF PeekFails, RecordBlocked, DialFails, at, locals, counters,
                  Inside, Before, Label, None
    <3>2. Inside \subseteq Label
      BY DEF Inside
    <3> QED BY <3>1, <3>2, MoveInside
  <2> QED BY <1>3, <2>1, <2>2, <2>3, <2>4, <2>5, <2>6 DEF OwnStep
<1>4. ASSUME NEW c \in Conn, PeerStep(c) PROVE CountUntouched
  <2>1. CASE Accept(c)
    <3>1. /\ maxConns' = maxConns /\ activeConns' = activeConns
          /\ pc[c] \in Before /\ goto(c, "dispatch")
          /\ "dispatch" \in Before /\ "dispatch" \in Label
      BY <2>1 DEF Accept, at, locals, counters, Before, Label
    <3> QED BY <3>1, MoveInside
  <2>2. CASE MitmRequest(c) \/ Finalize(c)
    <3>1. pc' = pc /\ maxConns' = maxConns /\ activeConns' = activeConns
      BY <2>2 DEF MitmRequest, Finalize, counters, locals
    <3> QED BY <3>1, SameCount
  <2>3. CASE \/ RouteHTTP(c) \/ RequestFails(c) \/ RoundTrip(c) \/ HandshakeFails(c)
             \/ Handshake(c) \/ MitmEnds(c) \/ Dial(c) \/ TunnelEnds(c)
    <3>1. /\ maxConns' = maxConns /\ activeConns' = activeConns
          /\ pc[c] \in Inside
          /\ \E l \in Inside : goto(c, l)
      BY <2>3 DEF RouteHTTP, RequestFails, RoundTrip, HandshakeFails, Handshake,
                  MitmEnds, Dial, TunnelEnds, at, locals, counters, Inside, Before,
                  Label, None
    <3>2. Inside \subseteq Label
      BY DEF Inside
    <3> QED BY <3>1, <3>2, MoveInside
  <2>4. CASE \/ \E p \in Protocol : RouteDisabled(c, p) \/ RouteTunnel(c, p)
             \/ \E d \in Dest : LearnDest(c, d) \/ \E p \in Protocol : ReadRequest(c, p, d)
    <3>1. /\ maxConns' = maxConns /\ activeConns' = activeConns
          /\ pc[c] \in Inside
          /\ \E l \in Inside : goto(c, l)
      BY <2>4 DEF RouteDisabled, RouteTunnel, LearnDest, ReadRequest, at, locals,
                  counters, Inside, Before, Label, None
    <3>2. Inside \subseteq Label
      BY DEF Inside
    <3> QED BY <3>1, <3>2, MoveInside
  <2> QED BY <1>4, <2>1, <2>2, <2>3, <2>4 DEF PeerStep
<1> QED
  BY <1>1, <1>2, <1>3, <1>4 DEF Next

-----------------------------------------------------------------------------
(* The counter and the limit.                                              *)

\* The counted connections are finitely many.
LEMMA CountedFinite ==
  /\ IsFiniteSet(counted) /\ Cardinality(counted) \in Nat
  /\ admitted \subseteq counted /\ counted \subseteq Conn
<1>1. counted \in SUBSET Conn
  BY DEF counted
<1>2. IsFiniteSet(counted)
  BY <1>1, ConnAssumption, FS_Subset
<1> QED
  BY <1>1, <1>2, FS_CardinalityType DEF admitted

\* Every step changes activeConns as it changes the set of counted goroutines.
LEMMA CountExactStep ==
  ASSUME ActiveCountExact,
         CountUntouched \/ \E c \in Conn : CountsUp(c) \/ CountsDown(c)
  PROVE  ActiveCountExact' /\ activeConns' \in Nat
<1>1. CASE CountUntouched
  BY <1>1, CountedFinite DEF CountUntouched, ActiveCountExact
<1>2. CASE \E c \in Conn : CountsUp(c)
  <2>1. PICK c \in Conn : CountsUp(c)
    BY <1>2
  <2>2. Cardinality(counted \cup {c}) = Cardinality(counted) + 1
    BY <2>1, CountedFinite, FS_AddElement DEF CountsUp
  <2> QED BY <2>1, <2>2, CountedFinite DEF CountsUp, ActiveCountExact
<1>3. CASE \E c \in Conn : CountsDown(c)
  <2>1. PICK c \in Conn : CountsDown(c)
    BY <1>3
  <2>2. /\ Cardinality(counted \ {c}) = Cardinality(counted) - 1
        /\ IsFiniteSet(counted \ {c})
    BY <2>1, CountedFinite, FS_RemoveElement DEF CountsDown
  <2>3. Cardinality(counted \ {c}) \in Nat
    BY <2>2, FS_CardinalityType
  <2> QED BY <2>1, <2>2, <2>3 DEF CountsDown, ActiveCountExact
<1> QED
  BY <1>1, <1>2, <1>3

\* Every step keeps every part of the admitted connections within a limit that one
\* of its members was admitted under (proxy.go:246-252).
LEMMA PartBoundStep ==
  ASSUME TypeOK, ActiveCountExact, EveryPartWithinLimit,
         CountUntouched \/ \E c \in Conn : CountsUp(c) \/ CountsDown(c)
  PROVE  EveryPartWithinLimit'
<1> SUFFICES ASSUME NEW B \in SUBSET admitted', B # {}
             PROVE  \E c \in B : Cardinality(B) <= maxConns'[c]
  BY DEF EveryPartWithinLimit
<1>1. CASE CountUntouched
  <2>1. B \in SUBSET admitted /\ \A c \in B : maxConns'[c] = maxConns[c]
    BY <1>1 DEF CountUntouched
  <2> QED BY <2>1 DEF EveryPartWithinLimit
<1>2. CASE \E c \in Conn : CountsUp(c)
  <2>1. PICK c \in Conn : CountsUp(c)
    BY <1>2
  <2>2. CASE B \subseteq admitted
    BY <2>1, <2>2 DEF EveryPartWithinLimit, CountsUp
  <2>3. CASE ~(B \subseteq admitted)
    <3>1. /\ c \in B
          /\ B \subseteq admitted \cup {c}
          /\ ~(activeConns + 1 > maxConns[c])
      BY <2>1, <2>3 DEF CountsUp
    <3>2. B \in SUBSET (counted \cup {c})
      BY <3>1, CountedFinite
    <3>3. /\ IsFiniteSet(counted \cup {c})
          /\ Cardinality(counted \cup {c}) = Cardinality(counted) + 1
      BY <2>1, CountedFinite, FS_AddElement DEF CountsUp
    <3>4. IsFiniteSet(B) /\ Cardinality(B) <= Cardinality(counted) + 1
      BY <3>2, <3>3, FS_Subset
    <3>5. Cardinality(B) \in Nat /\ activeConns \in Nat /\ maxConns[c] \in Nat
      BY <3>4, FS_CardinalityType, LimitsRead DEF TypeOK
    <3>6. Cardinality(B) <= maxConns[c]
      BY <3>1, <3>4, <3>5 DEF ActiveCountExact
    <3> QED BY <2>1, <3>1, <3>6 DEF CountsUp
  <2> QED BY <2>2, <2>3
<1>3. CASE \E c \in Conn : CountsDown(c)
  <2>1. B \in SUBSET admitted /\ maxConns' = maxConns
    BY <1>3 DEF CountsDown
  <2> QED BY <2>1 DEF EveryPartWithinLimit
<1> QED
  BY <1>1, <1>2, <1>3

-----------------------------------------------------------------------------
(* Types.                                                                  *)

\* The labels and protocols the steps assign are labels and protocols.
LEMMA LabelsUsed ==
  /\ {"dispatch", "add", "over", "peek", "readrequest", "negotiate", "originaldst",
      "evaluate", "mitm", "tunnel", "return", "done"} \subseteq Label
  /\ \A c : allowedLabel(c) \in Label /\ refusedLabel(c) \in Label
  BY DEF Label, allowedLabel, refusedLabel

\* A jump to a label keeps the type of pc.
LEMMA GotoType ==
  ASSUME TypeOK, NEW c, NEW l \in Label, goto(c, l) PROVE pc' \in [Conn -> Label]
  BY DEF TypeOK, goto

\* conn.Close keeps the type of sock.
LEMMA CloseType ==
  ASSUME TypeOK, NEW c, closeClient(c) PROVE sock' \in [Conn -> {None, "open", "closed"}]
  BY DEF TypeOK, closeClient

\* Start, Stop, the setters and a policy reload (proxy.go:92-195) keep the types.
LEMMA ControlType ==
  ASSUME TypeOK, Control PROVE TypeOK'
<1>1. CASE Start \/ Stop
  BY <1>1 DEF Start, Stop, TypeOK, config, counters, locals
<1>2. CASE \E b \in BOOLEAN : SetSOCKS5Enabled(b) \/ SetRawTCPEnabled(b)
  BY <1>2 DEF SetSOCKS5Enabled, SetRawTCPEnabled, TypeOK, lifecycle, counters, locals
<1>3. CASE \E max \in Limits : SetMaxConnections(max)
  BY <1>3 DEF SetMaxConnections, TypeOK, lifecycle, counters, locals
<1>4. CASE \E allowed \in SUBSET Dest : ReloadPolicy(allowed)
  BY <1>4 DEF ReloadPolicy, TypeOK, lifecycle, counters, locals
<1> QED
  BY <1>1, <1>2, <1>3, <1>4 DEF Control

\* The steps a goroutine takes by itself (proxy.go:242-304, 435-442) keep the types;
\* a decrement finds a counted goroutine, so activeConns stays a natural number.
LEMMA OwnStepType ==
  ASSUME TypeOK, activeConns' \in Nat, NEW c \in Conn, OwnStep(c) PROVE TypeOK'
<1>1. CASE LoadLimit(c)
  <2>1. pc' \in [Conn -> Label]
    BY <1>1, GotoType, LabelsUsed DEF LoadLimit
  <2> QED BY <1>1, <2>1 DEF LoadLimit, TypeOK, lifecycle, config, counters
<1>2. CASE CountUp(c) \/ Return(c)
  <2>1. pc' \in [Conn -> Label]
    BY <1>2, GotoType, LabelsUsed DEF CountUp, Return
  <2> QED BY <1>2, <2>1 DEF CountUp, Return, TypeOK, lifecycle, config, locals
<1>3. CASE RejectOverLimit(c) \/ PeekFails(c) \/ DialFails(c)
  <2>1. pc' \in [Conn -> Label] /\ sock' \in [Conn -> {None, "open", "closed"}]
    BY <1>3, GotoType, CloseType, LabelsUsed DEF RejectOverLimit, PeekFails, DialFails
  <2> QED BY <1>3, <2>1 DEF RejectOverLimit, PeekFails, DialFails, TypeOK, lifecycle,
                            config, counters, locals
<1>4. CASE Evaluate(c)
  <2>1. pc' \in [Conn -> Label]
    BY <1>4, GotoType, LabelsUsed DEF Evaluate
  <2>2. sock' \in [Conn -> {None, "open", "closed"}]
    BY <1>4, CloseType DEF Evaluate, refuse, TypeOK
  <2>3. decision' \in [Conn -> {None, "allow", "deny"}]
    BY <1>4 DEF Evaluate, TypeOK
  <2> QED BY <1>4, <2>1, <2>2, <2>3 DEF Evaluate, TypeOK, lifecycle, config, counters
<1>5. CASE RecordBlocked(c)
  <2>1. pc' \in [Conn -> Label]
    BY <1>5, GotoType, LabelsUsed DEF RecordBlocked
  <2> QED BY <1>5, <2>1 DEF RecordBlocked, TypeOK, lifecycle, config, locals
<1> QED
  BY <1>1, <1>2, <1>3, <1>4, <1>5 DEF OwnStep

\* The steps that wait for a peer (proxy.go:309-579, socks5.go, rawtcp.go) keep
\* the types.
LEMMA PeerStepType ==
  ASSUME TypeOK, NEW c \in Conn, PeerStep(c) PROVE TypeOK'
<1>1. CASE Accept(c)
  <2>1. pc' \in [Conn -> Label]
    BY <1>1, GotoType, LabelsUsed DEF Accept
  <2> QED BY <1>1, <2>1 DEF Accept, TypeOK, lifecycle, config, counters, locals
<1>2. CASE RouteHTTP(c) \/ Handshake(c)
  <2>1. pc' \in [Conn -> Label]
    BY <1>2, GotoType, LabelsUsed DEF RouteHTTP, Handshake
  <2> QED BY <1>2, <2>1 DEF RouteHTTP, Handshake, TypeOK, lifecycle, config, counters, locals
<1>3. CASE RequestFails(c) \/ HandshakeFails(c) \/ MitmEnds(c)
  <2>1. pc' \in [Conn -> Label] /\ sock' \in [Conn -> {None, "open", "closed"}]
    BY <1>3, GotoType, CloseType, LabelsUsed DEF RequestFails, HandshakeFails, MitmEnds
  <2> QED BY <1>3, <2>1 DEF RequestFails, HandshakeFails, MitmEnds, TypeOK, lifecycle,
                            config, counters, locals
<1>4. CASE \E p \in Protocol : RouteDisabled(c, p)
  <2>1. pc' \in [Conn -> Label] /\ sock' \in [Conn -> {None, "open", "closed"}]
    BY <1>4, GotoType, CloseType, LabelsUsed DEF RouteDisabled
  <2> QED BY <1>4, <2>1 DEF RouteDisabled, TypeOK, lifecycle, config, locals
<1>5. CASE \E p \in Protocol : RouteTunnel(c, p)
  <2>1. pc' \in [Conn -> Label]
    BY <1>5, GotoType, LabelsUsed DEF RouteTunnel
  <2>2. connsTotal' \in [Protocol -> Nat] /\ proto' \in [Conn -> Protocol \cup {None}]
    BY <1>5 DEF RouteTunnel, incConn, TypeOK
  <2> QED BY <1>5, <2>1, <2>2 DEF RouteTunnel, TypeOK, lifecycle, config
<1>6. CASE \E d \in Dest : LearnDest(c, d)
  <2>1. pc' \in [Conn -> Label]
    BY <1>6, GotoType, LabelsUsed DEF LearnDest
  <2> QED BY <1>6, <2>1 DEF LearnDest, TypeOK, lifecycle, config, counters
<1>7. CASE \E d \in Dest, p \in Protocol : ReadRequest(c, p, d)
  <2>1. pc' \in [Conn -> Label]
    BY <1>7, GotoType, LabelsUsed DEF ReadRequest
  <2>2. connsTotal' \in [Protocol -> Nat] /\ proto' \in [Conn -> Protocol \cup {None}]
    BY <1>7 DEF ReadRequest, incConn, TypeOK
  <2>3. dest' \in [Conn -> Dest \cup {None}]
    BY <1>7 DEF ReadRequest, TypeOK
  <2> QED BY <1>7, <2>1, <2>2, <2>3 DEF ReadRequest, TypeOK, lifecycle, config
<1>8. CASE RoundTrip(c) \/ Dial(c)
  <2>1. pc' \in [Conn -> Label]
    BY <1>8, GotoType, LabelsUsed DEF RoundTrip, Dial
  <2> QED BY <1>8, <2>1 DEF RoundTrip, Dial, TypeOK, lifecycle, config, counters, locals
<1>9. CASE MitmRequest(c)
  BY <1>9 DEF MitmRequest, TypeOK, lifecycle, config, counters, locals
<1>10. CASE TunnelEnds(c)
  <2>1. pc' \in [Conn -> Label] /\ sock' \in [Conn -> {None, "open", "closed"}]
    BY <1>10, GotoType, CloseType, LabelsUsed DEF TunnelEnds
  <2> QED BY <1>10, <2>1 DEF TunnelEnds, TypeOK, lifecycle, config, counters, locals
<1>11. CASE Finalize(c)
  <2>1. sock' \in [Conn -> {None, "open", "closed"}]
    BY <1>11, CloseType DEF Finalize
  <2> QED BY <1>11, <2>1 DEF Finalize, TypeOK, lifecycle, config, counters, locals
<1> QED
  BY <1>1, <1>2, <1>3, <1>4, <1>5, <1>6, <1>7, <1>8, <1>9, <1>10, <1>11 DEF PeerStep

\* Every step of the proxy keeps the types.
LEMMA NextType ==
  ASSUME TypeOK, Next, activeConns' \in Nat PROVE TypeOK'
<1>1. CASE ConcurrentMapWrites
  BY <1>1 DEF ConcurrentMapWrites, TypeOK, config, counters, locals
<1> QED
  BY <1>1, ControlType, OwnStepType, PeerStepType DEF Next

-----------------------------------------------------------------------------
(* The invariant holds.                                                    *)

\* Only a goroutine that read a positive limit reaches the increment.
LEMMA LimitLoadedStep ==
  ASSUME TypeOK, LimitLoaded, Next PROVE LimitLoaded'
<1>1. CASE Control \/ ConcurrentMapWrites
  <2>1. pc' = pc /\ maxConns' = maxConns
    BY <1>1 DEF Control, ConcurrentMapWrites, Start, Stop,
                SetSOCKS5Enabled, SetRawTCPEnabled, SetMaxConnections, ReloadPolicy, locals
  <2> QED BY <2>1 DEF LimitLoaded
<1>2. ASSUME NEW c \in Conn, LoadLimit(c) PROVE LimitLoaded'
  BY <1>2 DEF LoadLimit, goto, at, TypeOK, LimitLoaded
<1>3. ASSUME NEW c \in Conn, CountUp(c) PROVE LimitLoaded'
  BY <1>3 DEF CountUp, goto, at, TypeOK, LimitLoaded, locals
<1>4. ASSUME NEW c \in Conn, OwnStep(c) \/ PeerStep(c), ~LoadLimit(c), ~CountUp(c)
      PROVE LimitLoaded'
  <2>1. maxConns' = maxConns
    BY <1>4 DEF OwnStep, PeerStep, RejectOverLimit, PeekFails, Evaluate, RecordBlocked,
                DialFails, Return, Accept, RouteHTTP, RequestFails, RouteDisabled,
                RouteTunnel, LearnDest, ReadRequest, RoundTrip, HandshakeFails,
                Handshake, MitmRequest, MitmEnds, Dial, TunnelEnds, Finalize, locals
  <2>2. pc' = pc \/ \E l \in Label \ {"add", "over"} : goto(c, l)
    <3>1. CASE Evaluate(c)
      BY <3>1 DEF Evaluate, allowedLabel, refusedLabel, Label
    <3>2. CASE MitmRequest(c) \/ Finalize(c)
      BY <3>2 DEF MitmRequest, Finalize
    <3>3. CASE \/ RejectOverLimit(c) \/ PeekFails(c) \/ RecordBlocked(c) \/ DialFails(c)
               \/ Return(c) \/ Accept(c) \/ RouteHTTP(c) \/ RequestFails(c)
      BY <3>3 DEF RejectOverLimit, PeekFails, RecordBlocked, DialFails, Return, Accept,
                  RouteHTTP, RequestFails, Label
    <3>4. CASE \/ \E q \in Protocol : RouteDisabled(c, q) \/ RouteTunnel(c, q)
               \/ \E d \in Dest : LearnDest(c, d) \/ \E q \in Protocol : ReadRequest(c, q, d)
      BY <3>4 DEF RouteDisabled, RouteTunnel, LearnDest, ReadRequest, Label
    <3>5. CASE \/ RoundTrip(c) \/ HandshakeFails(c) \/ Handshake(c) \/ MitmEnds(c)
               \/ Dial(c) \/ TunnelEnds(c)
      BY <3>5 DEF RoundTrip, HandshakeFails, Handshake, MitmEnds, Dial, TunnelEnds, Label
    <3> QED
      BY <1>4, <3>1, <3>2, <3>3, <3>4, <3>5 DEF OwnStep, PeerStep
  <2> QED
    BY <2>1, <2>2 DEF goto, TypeOK, LimitLoaded
<1> QED
  BY <1>1, <1>2, <1>3, <1>4 DEF Next

\* The proxy as NewProxy makes it (proxy.go:64-89) satisfies the invariant.
LEMMA InitInv == Init => Inv
<1> SUFFICES ASSUME Init PROVE Inv
  OBVIOUS
<1>1. TypeOK
  BY DEF Init, TypeOK, Label, None
<1>2. LimitLoaded
  BY DEF Init, LimitLoaded, None
<1>3. counted = {} /\ admitted = {}
  BY DEF Init, counted, admitted
<1>4. ActiveCountExact
  BY <1>3, FS_EmptySet DEF Init, ActiveCountExact
<1>5. EveryPartWithinLimit
  BY <1>3 DEF EveryPartWithinLimit
<1> QED
  BY <1>1, <1>2, <1>4, <1>5 DEF Inv

\* Every step keeps the invariant.
LEMMA StepInv == Inv /\ [Next]_vars => Inv'
<1> SUFFICES ASSUME Inv, [Next]_vars PROVE Inv'
  OBVIOUS
<1>1. CASE Next
  <2>1. CountUntouched \/ \E c \in Conn : CountsUp(c) \/ CountsDown(c)
    BY <1>1, StepCount DEF Inv
  <2>2. ActiveCountExact' /\ activeConns' \in Nat
    BY <2>1, CountExactStep DEF Inv
  <2>3. TypeOK'
    BY <1>1, <2>2, NextType DEF Inv
  <2>4. LimitLoaded'
    BY <1>1, LimitLoadedStep DEF Inv
  <2>5. EveryPartWithinLimit'
    BY <2>1, PartBoundStep DEF Inv
  <2> QED BY <2>2, <2>3, <2>4, <2>5 DEF Inv
<1>2. CASE UNCHANGED vars
  BY <1>2 DEF vars, lifecycle, config, counters, locals, Inv, TypeOK, LimitLoaded,
              ActiveCountExact, EveryPartWithinLimit, counted, admitted
<1> QED
  BY <1>1, <1>2

\* The inductive invariant behind the connection limit of dispatch
\* (proxy.go:242-254) holds throughout.
THEOREM ProxyInvariant == Spec => []Inv
  BY InitInv, StepInv, PTL DEF Spec

\* Counters, labels, sockets and decisions keep their type; in particular the
\* counter of active connections never becomes negative (proxy.go:246-253).
THEOREM ProxyTypeCorrect == Spec => []TypeOK
<1>1. Inv => TypeOK
  BY DEF Inv
<1> QED BY <1>1, ProxyInvariant, PTL

\* activeConns is the number of connections between their +1 and their -1, for
\* any number of connections and any sequence of limits (proxy.go:246-253).
THEOREM ActiveCountCorrect == Spec => []ActiveCountExact
<1>1. Inv => ActiveCountExact
  BY DEF Inv
<1> QED BY <1>1, ProxyInvariant, PTL

\* No more connections are admitted than the limit one of them was admitted
\* under, whatever races through the add-then-compare of dispatch and however
\* the limit changes (proxy.go:244-252).
THEOREM LimitEnforced == Spec => []AdmittedWithinLimit
<1>1. Inv => AdmittedWithinLimit
  BY DEF Inv, EveryPartWithinLimit, AdmittedWithinLimit
<1> QED BY <1>1, ProxyInvariant, PTL

-----------------------------------------------------------------------------
(* What the handlers do to one connection.                                 *)

\* A goroutine touches no other connection.
LEMMA OthersUntouched ==
  ASSUME TypeOK, NEW c \in Conn, OwnStep(c) \/ PeerStep(c), NEW e \in Conn, e # c
  PROVE  /\ pc'[e] = pc[e] /\ sock'[e] = sock[e] /\ upstream'[e] = upstream[e]
         /\ proto'[e] = proto[e] /\ decision'[e] = decision[e]
<1>1. CASE OwnStep(c)
  BY <1>1 DEF OwnStep, LoadLimit, CountUp, RejectOverLimit, PeekFails, Evaluate, refuse,
              RecordBlocked, DialFails, Return, goto, closeClient, locals, TypeOK
<1>2. CASE PeerStep(c)
  BY <1>2 DEF PeerStep, Accept, RouteHTTP, RequestFails, RouteDisabled, RouteTunnel,
              LearnDest, ReadRequest, RoundTrip, HandshakeFails, Handshake, MitmRequest,
              MitmEnds, Dial, TunnelEnds, Finalize, goto, closeClient, locals, TypeOK
<1> QED
  BY <1>1, <1>2

\* The steps a goroutine takes by itself keep what is known of every connection.
LEMMA OwnStepConn ==
  ASSUME TypeOK, NEW c \in Conn, ConnOK(c), OwnStep(c) PROVE ConnOK(c)'
<1>1. CASE LoadLimit(c)
  BY <1>1 DEF LoadLimit, goto, closeClient, at, locals, TypeOK, ConnOK, None
<1>2. CASE CountUp(c)
  BY <1>2 DEF CountUp, goto, closeClient, at, locals, TypeOK, ConnOK, None
<1>3. CASE RejectOverLimit(c)
  BY <1>3 DEF RejectOverLimit, goto, closeClient, at, locals, TypeOK, ConnOK, None
<1>4. CASE PeekFails(c)
  BY <1>4 DEF PeekFails, goto, closeClient, at, locals, TypeOK, ConnOK, None
<1>5. CASE RecordBlocked(c)
  BY <1>5 DEF RecordBlocked, goto, closeClient, at, locals, TypeOK, ConnOK, None
<1>6. CASE DialFails(c)
  BY <1>6 DEF DialFails, goto, closeClient, at, locals, TypeOK, ConnOK, None
<1>7. CASE Return(c)
  BY <1>7 DEF Return, goto, closeClient, at, locals, TypeOK, ConnOK, None
<1>8. CASE Evaluate(c)
  BY <1>8 DEF Evaluate, refuse, allowedLabel, refusedLabel, tunnels, goto, closeClient,
              at, TypeOK, ConnOK, None, Protocol
<1> QED
  BY <1>1, <1>2, <1>3, <1>4, <1>5, <1>6, <1>7, <1>8 DEF OwnStep

\* The steps that wait for a peer do, too.
LEMMA PeerStepConn ==
  ASSUME TypeOK, NEW c \in Conn, ConnOK(c), PeerStep(c) PROVE ConnOK(c)'
<1>1. CASE Accept(c)
  BY <1>1 DEF Accept, goto, closeClient, at, locals, TypeOK, ConnOK, None
<1>2. CASE RouteHTTP(c)
  BY <1>2 DEF RouteHTTP, goto, closeClient, at, locals, TypeOK, ConnOK, None
<1>3. CASE RequestFails(c)
  BY <1>3 DEF RequestFails, goto, closeClient, at, locals, TypeOK, ConnOK, None
<1>4. CASE RoundTrip(c)
  BY <1>4 DEF RoundTrip, goto, closeClient, at, locals, TypeOK, ConnOK, None
<1>5. CASE HandshakeFails(c)
  BY <1>5 DEF HandshakeFails, goto, closeClient, at, locals, TypeOK, ConnOK, None
<1>6. CASE Handshake(c)
  BY <1>6 DEF Handshake, goto, closeClient, at, locals, TypeOK, ConnOK, None
<1>7. CASE MitmRequest(c)
  BY <1>7 DEF MitmRequest, goto, closeClient, at, locals, TypeOK, ConnOK, None
<1>8. CASE MitmEnds(c)
  BY <1>8 DEF MitmEnds, goto, closeClient, at, locals, TypeOK, ConnOK, None
<1>9. CASE Dial(c)
  BY <1>9 DEF Dial, goto, closeClient, at, locals, TypeOK, ConnOK, None
<1>10. CASE TunnelEnds(c)
  BY <1>10 DEF TunnelEnds, goto, closeClient, at, locals, TypeOK, ConnOK, None
<1>11. CASE Finalize(c)
  BY <1>11 DEF Finalize, goto, closeClient, at, locals, TypeOK, ConnOK, None
<1>12. CASE \E p \in Protocol : RouteDisabled(c, p)
  BY <1>12 DEF RouteDisabled, goto, closeClient, at, locals, TypeOK, ConnOK, None
<1>13. CASE \E p \in Protocol : RouteTunnel(c, p)
  BY <1>13 DEF RouteTunnel, goto, closeClient, at, locals, TypeOK, ConnOK, None
<1>14. CASE \E d \in Dest : LearnDest(c, d)
  BY <1>14 DEF LearnDest, Protocol, goto, closeClient, at, locals, TypeOK, ConnOK, None
<1>15. CASE \E d \in Dest, p \in Protocol : ReadRequest(c, p, d)
  BY <1>15 DEF ReadRequest, Protocol, goto, closeClient, at, locals, TypeOK, ConnOK, None
<1> QED
  BY <1>1, <1>2, <1>3, <1>4, <1>5, <1>6, <1>7, <1>8, <1>9, <1>10, <1>11, <1>12, <1>13, <1>14, <1>15 DEF PeerStep

\* Every step keeps what is known of every connection.
LEMMA ConnInvStep == TypeOK /\ ConnInv /\ [Next]_vars => ConnInv'
<1> SUFFICES ASSUME TypeOK, ConnInv, [Next]_vars, NEW e \in Conn PROVE ConnOK(e)'
  BY DEF ConnInv
<1>1. ConnOK(e)
  BY DEF ConnInv
<1>2. CASE Control \/ ConcurrentMapWrites \/ UNCHANGED vars
  <2>1. /\ pc' = pc /\ sock' = sock /\ upstream' = upstream
        /\ proto' = proto /\ decision' = decision
    BY <1>2 DEF Control, ConcurrentMapWrites, Start, Stop,
                SetSOCKS5Enabled, SetRawTCPEnabled, SetMaxConnections, ReloadPolicy,
                locals, vars
  <2> QED BY <1>1, <2>1 DEF ConnOK
<1>3. ASSUME NEW c \in Conn, OwnStep(c) \/ PeerStep(c) PROVE ConnOK(e)'
  <2>1. CASE e = c
    BY <1>1, <1>3, <2>1, OwnStepConn, PeerStepConn
  <2>2. CASE e # c
    <3>1. /\ pc'[e] = pc[e] /\ sock'[e] = sock[e] /\ upstream'[e] = upstream[e]
          /\ proto'[e] = proto[e] /\ decision'[e] = decision[e]
      BY <1>3, <2>2, OthersUntouched
    <3> QED BY <1>1, <3>1 DEF ConnOK
  <2> QED BY <2>1, <2>2
<1> QED
  BY <1>2, <1>3 DEF Next

\* Every connection satisfies ConnOK at every label.
THEOREM ProxyConnInvariant == Spec => []ConnInv
<1>1. Init => ConnInv
  BY DEF Init, ConnInv, ConnOK, None
<1> QED
  BY <1>1, ConnInvStep, ProxyTypeCorrect, PTL DEF Spec

\* Nothing is sent upstream for a connection the policy refused, in any of the
\* protocols, while the policy changes at will (proxy.go:435, 526, socks5.go:95,
\* rawtcp.go:125).
THEOREM PolicyEnforced == Spec => []UpstreamOnlyIfAllowed
<1>1. ConnInv => UpstreamOnlyIfAllowed
  BY DEF ConnInv, ConnOK, UpstreamOnlyIfAllowed
<1> QED BY <1>1, ProxyConnInvariant, PTL

\* Of all the ways out of the handlers, only those of plain HTTP and of a refused
\* CONNECT leave the client's socket open (proxy.go:434-442, 525-574).
THEOREM SocketsClosed == Spec => []OnlyHTTPLeavesSocketOpen
<1>1. ConnInv => OnlyHTTPLeavesSocketOpen
  BY DEF ConnInv, ConnOK, OnlyHTTPLeavesSocketOpen
<1> QED BY <1>1, ProxyConnInvariant, PTL
=============================================================================
