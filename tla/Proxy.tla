-------------------------------- MODULE Proxy --------------------------------
(***************************************************************************)
(* internal/proxy: the accept loop, one dispatch goroutine per connection, *)
(* the connection limit, protocol detection and the three handlers         *)
(* (HTTP/CONNECT, SOCKS5, raw TCP) down to what they do to the sockets,    *)
(* the counters and the policy decision.                                   *)
(*                                                                         *)
(* A goroutine is a pc.  Code between two accesses to shared state (the    *)
(* atomics, the toggles under p.mu, the policy engine, blockedHosts) is    *)
(* one step.  What the peers send, and every I/O error, is a choice.       *)
(* The tunnel a SOCKS5 or raw TCP handler ends in is one step here.        *)
(***************************************************************************)
EXTENDS Integers, FiniteSets

CONSTANTS Conn,     \* the connections clients open (bound: each is used once)
          Dest,     \* host:port destinations
          Limits    \* the values --max-connections can take; 0 is unlimited

ASSUME ConnAssumption == IsFiniteSet(Conn)
ASSUME LimitsAssumption == Limits \subseteq Nat

Protocol == {"http", "connect", "socks5", "rawtcp"}
None == "none"

VARIABLES
  running,         \* p.running, with the listener open
  socks5Enabled, rawTCPEnabled,
  maxConnections,
  activeConns,
  connsTotal,      \* connsTotalHTTP, ...CONNECT, ...SOCKS5, ...RawTCP
  deniedTotal,
  policy,          \* the destinations the engine allows at present
  crashed,         \* the Go runtime threw "concurrent map writes"
  pc,              \* where each connection's goroutine is
  sock,            \* the client socket, seen from the proxy
  upstream,        \* the socket to the destination
  maxConns,        \* dispatch's local copy of the limit; 0 before it is read
  proto,           \* the protocol that was detected and counted
  dest,            \* the destination the client asked for
  decision         \* what Evaluate returned

config == <<socks5Enabled, rawTCPEnabled, maxConnections, policy>>
counters == <<activeConns, connsTotal, deniedTotal>>
locals == <<maxConns, proto, dest, decision>>
lifecycle == <<running, crashed>>
vars == <<lifecycle, config, counters, locals, pc, sock, upstream>>

Label == {None, "dispatch", "add", "over", "peek", "readrequest", "negotiate",
          "originaldst", "evaluate", "blocking", "established", "mitm",
          "roundtrip", "dial", "tunnel", "return", "done"}

TypeOK ==
  /\ running \in BOOLEAN /\ crashed \in BOOLEAN
  /\ socks5Enabled \in BOOLEAN /\ rawTCPEnabled \in BOOLEAN
  /\ maxConnections \in Limits
  /\ activeConns \in Nat
  /\ connsTotal \in [Protocol -> Nat]
  /\ deniedTotal \in Nat
  /\ policy \subseteq Dest
  /\ pc \in [Conn -> Label]
  /\ sock \in [Conn -> {None, "open", "closed"}]
  /\ upstream \in [Conn -> {None, "open", "halfclosed", "closed"}]
  /\ maxConns \in [Conn -> Limits \cup {0}]
  /\ proto \in [Conn -> Protocol \cup {None}]
  /\ dest \in [Conn -> Dest \cup {None}]
  /\ decision \in [Conn -> {None, "allow", "deny"}]

Init ==
  /\ running = FALSE /\ crashed = FALSE
  /\ socks5Enabled = TRUE /\ rawTCPEnabled = TRUE
  /\ maxConnections \in Limits
  /\ activeConns = 0
  /\ connsTotal = [p \in Protocol |-> 0]
  /\ deniedTotal = 0
  /\ policy \in SUBSET Dest
  /\ pc = [c \in Conn |-> None]
  /\ sock = [c \in Conn |-> None]
  /\ upstream = [c \in Conn |-> None]
  /\ maxConns = [c \in Conn |-> 0]
  /\ proto = [c \in Conn |-> None]
  /\ dest = [c \in Conn |-> None]
  /\ decision = [c \in Conn |-> None]

-----------------------------------------------------------------------------
(* Start, Stop, the accept loop and the setters.                           *)

\* Goroutine c stands at label l, in a process that is alive.
at(c, l) == ~crashed /\ pc[c] = l
goto(c, l) == pc' = [pc EXCEPT ![c] = l]
closeClient(c) == sock' = [sock EXCEPT ![c] = "closed"]

\* Start fails, and changes nothing, when the proxy runs already or the address
\* cannot be bound.  Connections from before a Stop may still be there.
Start ==
  /\ ~crashed /\ ~running
  /\ running' = TRUE
  /\ UNCHANGED <<crashed, config, counters, locals, pc, sock, upstream>>

\* Stop closes the listener; connections in progress are left alone.
Stop ==
  /\ ~crashed /\ running
  /\ running' = FALSE
  /\ UNCHANGED <<crashed, config, counters, locals, pc, sock, upstream>>

\* The accept loop: a failing Accept is retried while the proxy runs, and ends the
\* loop once it does not.
Accept(c) ==
  /\ running
  /\ at(c, None)
  /\ goto(c, "dispatch")
  /\ sock' = [sock EXCEPT ![c] = "open"]
  /\ UNCHANGED <<lifecycle, config, counters, locals, upstream>>

SetSOCKS5Enabled(enabled) ==
  /\ ~crashed
  /\ socks5Enabled' = enabled
  /\ UNCHANGED <<lifecycle, rawTCPEnabled, maxConnections, policy, counters,
                 locals, pc, sock, upstream>>

SetRawTCPEnabled(enabled) ==
  /\ ~crashed
  /\ rawTCPEnabled' = enabled
  /\ UNCHANGED <<lifecycle, socks5Enabled, maxConnections, policy, counters,
                 locals, pc, sock, upstream>>

SetMaxConnections(max) ==
  /\ ~crashed
  /\ maxConnections' = max
  /\ UNCHANGED <<lifecycle, socks5Enabled, rawTCPEnabled, policy, counters,
                 locals, pc, sock, upstream>>

\* POST /policy/reload: the rule list is replaced under the engine's lock.
ReloadPolicy(allowed) ==
  /\ ~crashed
  /\ policy' = allowed
  /\ UNCHANGED <<lifecycle, socks5Enabled, rawTCPEnabled, maxConnections,
                 counters, locals, pc, sock, upstream>>

-----------------------------------------------------------------------------
(* dispatch.                                                               *)

LoadLimit(c) ==
  /\ at(c, "dispatch")
  /\ maxConns' = [maxConns EXCEPT ![c] = maxConnections]
  /\ goto(c, IF maxConnections > 0 THEN "add" ELSE "peek")
  /\ UNCHANGED <<lifecycle, config, counters, proto, dest, decision, sock, upstream>>

\* Mutant: the old value of the counter is compared with the limit.
CountUp_OldValue(c) ==
  /\ at(c, "add")
  /\ activeConns' = activeConns + 1
  /\ goto(c, IF activeConns > maxConns[c] THEN "over" ELSE "peek")
  /\ UNCHANGED <<lifecycle, config, connsTotal, deniedTotal, locals, sock, upstream>>

CountUp(c) ==
  /\ at(c, "add")
  /\ activeConns' = activeConns + 1
  /\ goto(c, IF activeConns + 1 > maxConns[c] THEN "over" ELSE "peek")
  /\ UNCHANGED <<lifecycle, config, connsTotal, deniedTotal, locals, sock, upstream>>

\* Mutant: the connection is closed but the counter is not taken back.
RejectOverLimit_KeepsCount(c) ==
  /\ at(c, "over")
  /\ closeClient(c)
  /\ goto(c, "done")
  /\ UNCHANGED <<lifecycle, config, counters, locals, upstream>>

\* Mutant: the deferred decrement was armed before the comparison.
RejectOverLimit_CountsTwice(c) ==
  /\ at(c, "over")
  /\ activeConns' = activeConns - 1
  /\ closeClient(c)
  /\ goto(c, "return")
  /\ UNCHANGED <<lifecycle, config, connsTotal, deniedTotal, locals, upstream>>

\* Mutant: the goroutine waits for a free slot instead of closing.
RejectOverLimit_Retries(c) ==
  /\ at(c, "over")
  /\ activeConns' = activeConns - 1
  /\ goto(c, "add")
  /\ UNCHANGED <<lifecycle, config, connsTotal, deniedTotal, locals, sock, upstream>>

RejectOverLimit(c) ==
  /\ at(c, "over")
  /\ activeConns' = activeConns - 1
  /\ closeClient(c)
  /\ goto(c, "done")
  /\ UNCHANGED <<lifecycle, config, connsTotal, deniedTotal, locals, upstream>>

\* Mutant: the peek has no deadline, and the client stays silent.
PeekFails_NoDeadline(c) ==
  /\ at(c, "peek") /\ sock[c] # "open"
  /\ closeClient(c)
  /\ goto(c, "return")
  /\ UNCHANGED <<lifecycle, config, counters, locals, upstream>>

\* No byte came within five seconds, or the peer went away.
PeekFails(c) ==
  /\ at(c, "peek")
  /\ closeClient(c)
  /\ goto(c, "return")
  /\ UNCHANGED <<lifecycle, config, counters, locals, upstream>>

\* The first byte is 0x05 or none of the upper-case letters, and that protocol
\* is switched off.
RouteDisabled(c, p) ==
  /\ at(c, "peek")
  /\ \/ p = "socks5" /\ ~socks5Enabled
     \/ p = "rawtcp" /\ ~rawTCPEnabled
  /\ deniedTotal' = deniedTotal + 1
  /\ closeClient(c)
  /\ goto(c, "return")
  /\ UNCHANGED <<lifecycle, config, activeConns, connsTotal, locals, upstream>>

incConn(p) == connsTotal' = [connsTotal EXCEPT ![p] = @ + 1]

RouteTunnel(c, p) ==
  /\ at(c, "peek")
  /\ \/ p = "socks5" /\ socks5Enabled /\ goto(c, "negotiate")
     \/ p = "rawtcp" /\ rawTCPEnabled /\ goto(c, "originaldst")
  /\ incConn(p)
  /\ proto' = [proto EXCEPT ![c] = p]
  /\ UNCHANGED <<lifecycle, config, activeConns, deniedTotal, maxConns, dest,
                 decision, sock, upstream>>

RouteHTTP(c) ==
  /\ at(c, "peek")
  /\ goto(c, "readrequest")
  /\ UNCHANGED <<lifecycle, config, counters, locals, sock, upstream>>

\* The deferred decrement, armed only when a limit was read.
Return(c) ==
  /\ at(c, "return")
  /\ activeConns' = IF maxConns[c] > 0 THEN activeConns - 1 ELSE activeConns
  /\ goto(c, "done")
  /\ UNCHANGED <<lifecycle, config, connsTotal, deniedTotal, locals, sock, upstream>>

-----------------------------------------------------------------------------
(* The handlers.  Each first learns the destination.                       *)

\* A malformed request, a short read, an unsupported SOCKS5 command or address
\* type, or a connection without SO_ORIGINAL_DST.
RequestFails(c) ==
  /\ \E l \in {"readrequest", "negotiate", "originaldst"} : at(c, l)
  /\ closeClient(c)
  /\ goto(c, "return")
  /\ UNCHANGED <<lifecycle, config, counters, locals, upstream>>

\* http.ReadRequest and handleProxy up to the call of Evaluate.
ReadRequest(c, p, d) ==
  /\ at(c, "readrequest")
  /\ p \in {"http", "connect"}
  /\ incConn(p)
  /\ proto' = [proto EXCEPT ![c] = p]
  /\ dest' = [dest EXCEPT ![c] = d]
  /\ goto(c, "evaluate")
  /\ UNCHANGED <<lifecycle, config, activeConns, deniedTotal, maxConns, decision,
                 sock, upstream>>

\* The SOCKS5 CONNECT request, or the destination iptables redirected.
LearnDest(c, d) ==
  /\ at(c, "negotiate") \/ at(c, "originaldst")
  /\ dest' = [dest EXCEPT ![c] = d]
  /\ goto(c, "evaluate")
  /\ UNCHANGED <<lifecycle, config, counters, maxConns, proto, decision, sock, upstream>>

\* Where Evaluate's caller goes on once the policy allowed the destination.
\* SOCKS5 and raw TCP dial it themselves.
tunnels(c) == proto[c] \in {"socks5", "rawtcp"}
allowedLabel(c) ==
  IF tunnels(c) THEN "dial" ELSE IF proto[c] = "connect" THEN "established" ELSE "roundtrip"

\* Mutant: a refused SOCKS5 or raw TCP connection is answered, and goes on.
refusedLabel_NoReturn(c) == IF tunnels(c) THEN "dial" ELSE "blocking"

\* HTTP and CONNECT first record the destination in blockedHosts.
refusedLabel(c) == IF tunnels(c) THEN "return" ELSE "blocking"

\* Mutant: a refused connection is left for the client to close.
refuse_NoClose(c) == sock' = sock

\* A refused SOCKS5 or raw TCP connection is closed at once.
refuse(c) == IF tunnels(c) THEN closeClient(c) ELSE sock' = sock

\* The policy is asked once per connection.
Evaluate(c) ==
  /\ at(c, "evaluate")
  /\ \/ /\ dest[c] \in policy
        /\ decision' = [decision EXCEPT ![c] = "allow"]
        /\ goto(c, allowedLabel(c))
        /\ sock' = sock
     \/ /\ dest[c] \notin policy
        /\ decision' = [decision EXCEPT ![c] = "deny"]
        /\ goto(c, refusedLabel(c))
        /\ refuse(c)
  /\ UNCHANGED <<lifecycle, config, counters, maxConns, proto, dest, upstream>>

\* The write to blockedHosts is over: the refusal is counted and answered 403.
\* Nobody closes the connection.
RecordBlocked(c) ==
  /\ at(c, "blocking")
  /\ deniedTotal' = deniedTotal + 1
  /\ goto(c, "return")
  /\ UNCHANGED <<lifecycle, config, activeConns, connsTotal, locals, sock, upstream>>

\* blockedHosts is a plain map without a lock: two goroutines inside a write at
\* once may make the Go runtime end the process.
ConcurrentMapWrites ==
  /\ \E c, e \in Conn : c # e /\ at(c, "blocking") /\ at(e, "blocking")
  /\ crashed' = TRUE
  /\ UNCHANGED <<running, config, counters, locals, pc, sock, upstream>>

\* Plain HTTP: one round trip, answered with the response or with 502.  Nobody
\* closes the client's connection.
RoundTrip(c) ==
  /\ at(c, "roundtrip")
  /\ \E up \in {None, "open"} : upstream' = [upstream EXCEPT ![c] = up]
  /\ goto(c, "return")
  /\ UNCHANGED <<lifecycle, config, counters, locals, sock>>

\* CONNECT: the "200" could not be written, or the TLS handshake failed.
HandshakeFails(c) ==
  /\ at(c, "established")
  /\ closeClient(c)
  /\ goto(c, "return")
  /\ UNCHANGED <<lifecycle, config, counters, locals, upstream>>

Handshake(c) ==
  /\ at(c, "established")
  /\ goto(c, "mitm")
  /\ UNCHANGED <<lifecycle, config, counters, locals, sock, upstream>>

\* One intercepted request.  A failing round trip is answered 502 and the loop
\* goes on; the policy is not asked again.
MitmRequest(c) ==
  /\ at(c, "mitm")
  /\ upstream' = [upstream EXCEPT ![c] = "open"]
  /\ UNCHANGED <<lifecycle, config, counters, locals, pc, sock>>

MitmEnds(c) ==
  /\ at(c, "mitm")
  /\ closeClient(c)
  /\ goto(c, "return")
  /\ UNCHANGED <<lifecycle, config, counters, locals, upstream>>

DialFails(c) ==
  /\ at(c, "dial")
  /\ closeClient(c)
  /\ goto(c, "return")
  /\ UNCHANGED <<lifecycle, config, counters, locals, upstream>>

\* Which address is dialled is not kept: it is dest[c], except that handleRawTCP,
\* after its policy check, dials 127.0.0.1 in place of an address of its own host.
Dial(c) ==
  /\ at(c, "dial")
  /\ upstream' = [upstream EXCEPT ![c] = "open"]
  /\ goto(c, "tunnel")
  /\ UNCHANGED <<lifecycle, config, counters, locals, sock>>

\* tunnelBidirectional has shut down upstream's write side and closed the
\* client; handleSOCKS5 closes upstream too, handleRawTCP does not.
TunnelEnds(c) ==
  /\ at(c, "tunnel")
  /\ closeClient(c)
  /\ upstream' = [upstream EXCEPT ![c] =
                    IF proto[c] = "socks5" THEN "closed" ELSE "halfclosed"]
  /\ goto(c, "return")
  /\ UNCHANGED <<lifecycle, config, counters, locals>>

\* A socket no goroutine refers to any more is closed when the Go runtime runs
\* its finalizer, at a time nobody controls.
Finalize(c) ==
  /\ at(c, "done")
  /\ sock[c] = "open"
  /\ closeClient(c)
  /\ UNCHANGED <<lifecycle, config, counters, locals, pc, upstream>>

-----------------------------------------------------------------------------

\* The steps a goroutine takes without waiting for its client: the scheduler
\* runs it, and the peek and the dial have deadlines of 5 and 10 seconds.
OwnStep(c) ==
  \/ LoadLimit(c) \/ CountUp(c) \/ RejectOverLimit(c) \/ PeekFails(c)
  \/ Evaluate(c) \/ RecordBlocked(c) \/ DialFails(c) \/ Return(c)

\* The steps that need the client, or an upstream server, to act.
PeerStep(c) ==
  \/ Accept(c) \/ RouteHTTP(c) \/ RequestFails(c)
  \/ \E p \in Protocol : RouteDisabled(c, p) \/ RouteTunnel(c, p)
  \/ \E d \in Dest : LearnDest(c, d) \/ \E p \in Protocol : ReadRequest(c, p, d)
  \/ RoundTrip(c) \/ HandshakeFails(c) \/ Handshake(c) \/ MitmRequest(c)
  \/ MitmEnds(c) \/ Dial(c) \/ TunnelEnds(c) \/ Finalize(c)

Control ==
  \/ Start \/ Stop
  \/ \E enabled \in BOOLEAN : SetSOCKS5Enabled(enabled) \/ SetRawTCPEnabled(enabled)
  \/ \E max \in Limits : SetMaxConnections(max)
  \/ \E allowed \in SUBSET Dest : ReloadPolicy(allowed)

Next ==
  \/ Control
  \/ ConcurrentMapWrites
  \/ \E c \in Conn : OwnStep(c) \/ PeerStep(c)

Spec == Init /\ [][Next]_vars

Fairness == \A c \in Conn : WF_vars(OwnStep(c))

FairSpec == Spec /\ Fairness

-----------------------------------------------------------------------------
(* The connection limit.                                                   *)

\* Connections whose goroutine stands between its +1 and its -1.
counted == {c \in Conn : /\ maxConns[c] > 0
                         /\ pc[c] \notin {None, "dispatch", "add", "done"}}

admitted == {c \in counted : pc[c] # "over"}

\* Every +1 on activeConns has exactly one -1, on each of the handlers' many
\* ways out (proxy.go:246-253): the counter is the number of goroutines between
\* the two, and so never drifts or goes negative.
ActiveCountExact == activeConns = Cardinality(counted)

\* Although dispatch adds first and compares afterwards, and although the limit
\* can be changed while connections race through it, no more connections are
\* ever admitted than the limit that one of them was admitted under
\* (proxy.go:244-252).
AdmittedWithinLimit ==
  admitted # {} => \E c \in admitted : Cardinality(admitted) <= maxConns[c]

-----------------------------------------------------------------------------
(* Sockets and the policy.                                                 *)

\* No byte goes upstream for a connection the policy refused, whichever
\* protocol it came by and however the policy changed meanwhile
\* (proxy.go:435-442, 526-533, socks5.go:95-101, rawtcp.go:125-131).  What the
\* policy is asked about is the address the client wanted, see Dial.
UpstreamOnlyIfAllowed == \A c \in Conn : upstream[c] # None => decision[c] = "allow"

\* The only goroutines that return with the client's socket still open are
\* those of a plain HTTP request and of a refused CONNECT (proxy.go:434-442,
\* 525-574): every other way out closes it.
OnlyHTTPLeavesSocketOpen ==
  \A c \in Conn :
    pc[c] \in {"return", "done"} /\ sock[c] = "open" =>
      \/ proto[c] = "http"
      \/ proto[c] = "connect" /\ decision[c] = "deny"

\* A connection that was accepted gets past the limit check and the detection of
\* its protocol, or is closed: the five-second deadline of the peek
\* (proxy.go:259) leaves no silent client in dispatch.
DispatchSettles ==
  \A c \in Conn :
    pc[c] = "dispatch" ~>
      (crashed \/ pc[c] \notin {"dispatch", "add", "over", "peek"})

\* A handler that is past its last wait for the client gives its slot back.
SlotReturned ==
  \A c \in Conn : pc[c] \in {"blocking", "over", "return"} ~> (crashed \/ pc[c] = "done")
=============================================================================
