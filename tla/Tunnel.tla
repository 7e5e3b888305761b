-------------------------------- MODULE Tunnel --------------------------------
(***************************************************************************)
(* internal/proxy: tunnelBidirectional, which a SOCKS5 or raw TCP handler  *)
(* ends in.  Two goroutines copy, "up" from the client to the server and   *)
(* "down" from the server to the client; the handler waits for both.  In   *)
(* Proxy the whole of this is the step TunnelEnds.                         *)
(*                                                                         *)
(* A chunk is what one Read returns.  A peer that does not read blocks the *)
(* writes to it: the deadlines are on reads only.  What was written to a   *)
(* socket counts as delivered.                                             *)
(*                                                                         *)
(* Before the tunnel handleRawTCP has called getOriginalDst, whose File    *)
(* and Fd leave the client's socket in blocking mode.  A Read of it that   *)
(* finds nothing blocks in the kernel, where neither a deadline nor Close  *)
(* reaches it, and Close itself waits for such a Read to come back.        *)
(***************************************************************************)
EXTENDS Naturals

CONSTANTS MaxChunks,   \* bound: the chunks each peer sends
          Timeouts     \* values of "an idle timeout is set"

ASSUME ChunksAssumption == MaxChunks \in Nat \ {0}
ASSUME TimeoutsAssumption == Timeouts \subseteq BOOLEAN

Direction == {"up", "down"}
Peer == {"client", "server"}
from(d) == IF d = "up" THEN "client" ELSE "server"
to(d) == IF d = "up" THEN "server" ELSE "client"

VARIABLES
  socks5,     \* the handler is handleSOCKS5, which closes upstream when it returns
  timeout,    \* rawTCPIdleTimeout > 0
  client,     \* the socket to the client: "open", "closing" (Close waits) or "closed"
  upstream,   \* the one to the server: "open", "halfclosed" or "closed"
  sent,       \* chunks the peer at the beginning of a direction has sent
  taken,      \* ... of which the goroutine has read
  written,    \* ... and written to the other side
  fin,        \* the directions whose peer has shut down its sending side
  reset,      \* peers that have reset their connection
  stalled,    \* peers that do not read
  pc,         \* the goroutines: "read", "kernel" (blocked in a Read), "write", "end",
              \* "closing" (in Close) or "done"
  expired,    \* history: the directions the idle timeout has ended
  returned    \* the handler has returned

sockets == <<client, upstream>>
peers == <<sent, fin, reset, stalled>>
vars == <<socks5, timeout, sockets, taken, written, peers, pc, expired, returned>>

Counts == [Direction -> 0 .. MaxChunks]

TypeOK ==
  /\ socks5 \in BOOLEAN /\ timeout \in Timeouts /\ returned \in BOOLEAN
  /\ client \in {"open", "closing", "closed"}
  /\ upstream \in {"open", "halfclosed", "closed"}
  /\ sent \in Counts /\ taken \in Counts /\ written \in Counts
  /\ \A d \in Direction : written[d] <= taken[d] /\ taken[d] <= sent[d]
  /\ fin \subseteq Direction /\ expired \subseteq Direction
  /\ reset \subseteq Peer /\ stalled \subseteq Peer
  /\ pc \in [Direction -> {"read", "kernel", "write", "end", "closing", "done"}]

\* Raw TCP has peeked at a first chunk, which waits in the buffered reader.
Init ==
  /\ socks5 \in BOOLEAN /\ timeout \in Timeouts
  /\ client = "open" /\ upstream = "open"
  /\ sent \in {[up |-> i, down |-> 0] : i \in 0 .. 1}
  /\ ~socks5 => sent["up"] = 1
  /\ taken = [d \in Direction |-> 0]
  /\ written = [d \in Direction |-> 0]
  /\ fin = {} /\ reset = {} /\ stalled = {} /\ expired = {}
  /\ pc = [d \in Direction |-> "read"]
  /\ returned = FALSE

-----------------------------------------------------------------------------
(* The goroutines.                                                         *)

\* The socket a direction reads from is still open for reading.
readable(d) == IF d = "up" THEN client = "open" ELSE upstream # "closed"

\* The socket a direction reads from is in blocking mode.
blocking(d) == d = "up" /\ ~socks5

goto(d, l) == pc' = [pc EXCEPT ![d] = l]

Read(d) ==
  /\ \/ pc[d] = "read" /\ readable(d)
     \/ pc[d] = "kernel"
  /\ from(d) \notin reset
  /\ taken[d] < sent[d]
  /\ taken' = [taken EXCEPT ![d] = @ + 1]
  /\ goto(d, "write")
  /\ UNCHANGED <<socks5, timeout, sockets, written, peers, expired, returned>>

\* A Read in blocking mode finds nothing, and stays in the kernel.
ReadBlocks(d) ==
  /\ pc[d] = "read" /\ readable(d) /\ blocking(d)
  /\ taken[d] = sent[d] /\ d \notin fin /\ from(d) \notin reset
  /\ goto(d, "kernel")
  /\ UNCHANGED <<socks5, timeout, sockets, taken, written, peers, expired, returned>>

\* Mutant: EOF ends the copying although chunks are still buffered.
ReadEnds_Undrained(d) ==
  /\ pc[d] \in {"read", "kernel"}
  /\ d \in fin \/ from(d) \in reset \/ ~readable(d)
  /\ goto(d, "end")
  /\ UNCHANGED <<socks5, timeout, sockets, taken, written, peers, expired, returned>>

\* EOF, a reset connection, or, before the kernel is entered, a socket that the
\* other goroutine closes.
ReadEnds(d) ==
  /\ pc[d] \in {"read", "kernel"}
  /\ \/ d \in fin /\ taken[d] = sent[d]
     \/ from(d) \in reset
     \/ pc[d] = "read" /\ ~readable(d)
  /\ goto(d, "end")
  /\ UNCHANGED <<socks5, timeout, sockets, taken, written, peers, expired, returned>>

\* Mutant: the deadline is set on the client's socket only.
ReadExpires_ClientOnly(d) ==
  /\ pc[d] = "read" /\ d = "up" /\ ~blocking(d)
  /\ timeout /\ taken[d] = sent[d]
  /\ expired' = expired \cup {d}
  /\ goto(d, "end")
  /\ UNCHANGED <<socks5, timeout, sockets, taken, written, peers, returned>>

\* deadlineReader: nothing came for the idle timeout, in this direction.  The
\* deadline has no effect on a socket in blocking mode.
ReadExpires(d) ==
  /\ pc[d] = "read" /\ ~blocking(d)
  /\ timeout /\ taken[d] = sent[d]
  /\ expired' = expired \cup {d}
  /\ goto(d, "end")
  /\ UNCHANGED <<socks5, timeout, sockets, taken, written, peers, returned>>

\* Mutant: a chunk that was written is written again.
Write_Again(d) ==
  /\ pc[d] = "write"
  /\ to(d) \notin reset \cup stalled
  /\ written' = [written EXCEPT ![d] = @ + 1]
  /\ goto(d, "write")
  /\ UNCHANGED <<socks5, timeout, sockets, taken, peers, expired, returned>>

Write(d) ==
  /\ pc[d] = "write"
  /\ to(d) \notin reset \cup stalled
  /\ written' = [written EXCEPT ![d] = @ + 1]
  /\ goto(d, "read")
  /\ UNCHANGED <<socks5, timeout, sockets, taken, peers, expired, returned>>

WriteFails(d) ==
  /\ pc[d] = "write"
  /\ to(d) \in reset
  /\ goto(d, "end")
  /\ UNCHANGED <<socks5, timeout, sockets, taken, written, peers, expired, returned>>

\* Mutant: upstream is closed for both directions.
CloseWrite_Closes ==
  /\ pc["up"] = "end"
  /\ upstream' = "closed"
  /\ goto("up", "done")
  /\ UNCHANGED <<socks5, timeout, client, taken, written, peers, expired, returned>>

\* "up" is over: upstream is told that no more will come, and can still answer.
CloseWrite ==
  /\ pc["up"] = "end"
  /\ upstream' = "halfclosed"
  /\ goto("up", "done")
  /\ UNCHANGED <<socks5, timeout, client, taken, written, peers, expired, returned>>

\* Mutant: the client's socket is left for the other goroutine to close.
CloseClient_Never ==
  /\ pc["down"] = "end"
  /\ goto("down", "done")
  /\ UNCHANGED <<socks5, timeout, sockets, taken, written, peers, expired, returned>>

\* "down" is over: Close ends a read of "up" that waits in the poller, and waits
\* for one that is in the kernel.
CloseClient ==
  /\ pc["down"] = "end"
  /\ client' = "closing"
  /\ goto("down", "closing")
  /\ UNCHANGED <<socks5, timeout, upstream, taken, written, peers, expired, returned>>

\* No goroutine is in a Read any more: the socket is given back, the client gets
\* a FIN and Close returns.
ClientClosed ==
  /\ pc["down"] = "closing" /\ pc["up"] # "kernel"
  /\ client' = "closed"
  /\ goto("down", "done")
  /\ UNCHANGED <<socks5, timeout, upstream, taken, written, peers, expired, returned>>

\* Mutant: the handler goes on when one goroutine is done.
Return_First ==
  /\ \E d \in Direction : pc[d] = "done"
  /\ ~returned /\ returned' = TRUE
  /\ upstream' = IF socks5 THEN "closed" ELSE upstream
  /\ UNCHANGED <<socks5, timeout, client, taken, written, peers, pc, expired>>

\* wg.Wait, and the deferred Close of handleSOCKS5.
Return ==
  /\ \A d \in Direction : pc[d] = "done"
  /\ ~returned /\ returned' = TRUE
  /\ upstream' = IF socks5 THEN "closed" ELSE upstream
  /\ UNCHANGED <<socks5, timeout, client, taken, written, peers, pc, expired>>

-----------------------------------------------------------------------------
(* The peers.                                                              *)

PeerSends(d) ==
  /\ from(d) \notin reset /\ d \notin fin
  /\ sent[d] < MaxChunks
  /\ sent' = [sent EXCEPT ![d] = @ + 1]
  /\ UNCHANGED <<socks5, timeout, sockets, taken, written, fin, reset, stalled, pc,
                 expired, returned>>

PeerShutsDown(d) ==
  /\ from(d) \notin reset /\ d \notin fin
  /\ fin' = fin \cup {d}
  /\ UNCHANGED <<socks5, timeout, sockets, taken, written, sent, reset, stalled, pc,
                 expired, returned>>

PeerResets(p) ==
  /\ p \notin reset
  /\ reset' = reset \cup {p}
  /\ UNCHANGED <<socks5, timeout, sockets, taken, written, sent, fin, stalled, pc,
                 expired, returned>>

PeerStalls(p) ==
  /\ p \notin stalled
  /\ stalled' = stalled \cup {p}
  /\ UNCHANGED <<socks5, timeout, sockets, taken, written, sent, fin, reset, pc,
                 expired, returned>>

PeerReads(p) ==
  /\ p \in stalled
  /\ stalled' = stalled \ {p}
  /\ UNCHANGED <<socks5, timeout, sockets, taken, written, sent, fin, reset, pc,
                 expired, returned>>

Copy(d) == Read(d) \/ ReadBlocks(d) \/ ReadEnds(d) \/ Write(d) \/ WriteFails(d)

Next ==
  \/ \E d \in Direction : Copy(d) \/ ReadExpires(d) \/ PeerSends(d) \/ PeerShutsDown(d)
  \/ CloseWrite \/ CloseClient \/ ClientClosed \/ Return
  \/ \E p \in Peer : PeerResets(p) \/ PeerStalls(p) \/ PeerReads(p)

Spec == Init /\ [][Next]_vars

\* The scheduler runs every goroutine that can go on, and timers fire.  Nothing
\* is assumed of the peers.
Fairness ==
  /\ \A d \in Direction : WF_vars(Copy(d)) /\ WF_vars(ReadExpires(d))
  /\ WF_vars(CloseWrite) /\ WF_vars(CloseClient) /\ WF_vars(ClientClosed) /\ WF_vars(Return)

FairSpec == Spec /\ Fairness

-----------------------------------------------------------------------------
(* Properties.                                                             *)

\* Nothing but a reset connection or the idle timeout cuts off what the server
\* sends: a client that has shut down its sending side gets the whole answer
\* (rawtcp.go:174-180).
AnswerComplete ==
  pc["down"] = "done" =>
    \/ reset # {} \/ "down" \in expired
    \/ "down" \in fin /\ written["down"] = sent["down"]

\* What the client sends is cut off by a reset, by the idle timeout, or by the
\* server having ended its answer, and by nothing else (rawtcp.go:166-181).
RequestCutOnlyByServer ==
  pc["up"] = "done" =>
    \/ reset # {} \/ "up" \in expired \/ pc["down"] \in {"closing", "done"}
    \/ "up" \in fin /\ written["up"] = sent["up"]

\* When the handler returns, neither goroutine uses a socket any more and the
\* sockets are as Proxy's TunnelEnds has them (rawtcp.go:194, socks5.go:111).
ReturnsAsProxyExpects ==
  returned => /\ \A d \in Direction : pc[d] = "done"
              /\ client = "closed"
              /\ upstream = IF socks5 THEN "closed" ELSE "halfclosed"

\* The client has shut down or reset its connection.
ClientEnds == "up" \in fin \/ "client" \in reset

\* When the server has ended its answer the handler returns without any timeout,
\* as soon as the peers read what is written to them: a SOCKS5 handler however
\* silent the client is, a raw TCP handler once the client ends the connection
\* too, since its Read of a silent client is in the kernel and Close waits for it
\* (rawtcp.go:67-73, 184-192).
ServerEndsTunnel ==
  <>[](stalled = {}) => (("down" \in fin /\ (socks5 \/ ClientEnds)) ~> returned)

\* With an idle timeout the handler returns once both peers are silent, as they
\* are after at most MaxChunks chunks, if they read what is written to them; a
\* raw TCP handler needs the client to end the connection even so, and then its
\* timeout ends the wait for the server (rawtcp.go:67-73, 197-210).
TimeoutEndsTunnel ==
  timeout /\ <>[](stalled = {}) /\ (socks5 \/ <>ClientEnds) => <>returned
=============================================================================
