----------------------------- MODULE TunnelProofs -----------------------------
(***************************************************************************)
(* Proofs about Tunnel, for any number of chunks and either handler, with  *)
(* or without an idle timeout, whatever the peers do.                      *)
(***************************************************************************)
EXTENDS Tunnel, TLAPS

Over == {"end", "closing", "done"}

-----------------------------------------------------------------------------
(* The inductive invariant.                                                *)

\* A goroutine has at most one chunk that it has read and not written, and only a
\* Read of the client blocks in the kernel.
ChunksInHand ==
  \A d \in Direction :
    /\ pc[d] = "kernel" => d = "up"
    /\ pc[d] = "closing" => d = "down"
    /\ pc[d] \in {"read", "kernel"} => written[d] = taken[d]
    /\ pc[d] = "write" => written[d] + 1 = taken[d]

\* Who closes which socket, and when.
SocketsInv ==
  /\ client = "closed" <=> pc["down"] = "done"
  /\ client = "closing" <=> pc["down"] = "closing"
  /\ upstream # "open" <=> pc["up"] = "done"
  /\ upstream = "closed" <=> socks5 /\ returned
  /\ returned => pc["up"] = "done" /\ pc["down"] = "done"

\* Everything the peer at the beginning of d sent was passed on, and it will send
\* no more.
Drained(d) == d \in fin /\ written[d] = sent[d]

\* Why a goroutine has stopped copying.
ReasonToEnd ==
  /\ pc["down"] \in Over => reset # {} \/ "down" \in expired \/ Drained("down")
  /\ pc["up"] \in Over => reset # {} \/ "up" \in expired \/ Drained("up")
                         \/ pc["down"] \in {"closing", "done"}

TunnelInv == TypeOK /\ ChunksInHand /\ SocketsInv /\ ReasonToEnd

\* Both handlers enter tunnelBidirectional (rawtcp.go:147-164) with it.
LEMMA TunnelInit == Init => TunnelInv
<1> SUFFICES ASSUME Init PROVE TunnelInv
  OBVIOUS
<1>1. sent \in Counts
  <2>1. PICK i \in 0 .. 1 : sent = [up |-> i, down |-> 0]
    BY DEF Init
  <2>2. i \in 0 .. MaxChunks /\ 0 \in 0 .. MaxChunks
    BY ChunksAssumption
  <2>3. [up |-> i, down |-> 0] = [d \in Direction |-> IF d = "up" THEN i ELSE 0]
    BY DEF Direction
  <2> QED BY <2>1, <2>2, <2>3 DEF Counts
<1>2. taken \in Counts /\ written \in Counts /\ \A d \in Direction : taken[d] = 0 /\ written[d] = 0
  BY ChunksAssumption DEF Init, Counts
<1>3. \A d \in Direction : written[d] <= taken[d] /\ taken[d] <= sent[d]
  BY <1>1, <1>2, ChunksAssumption DEF Counts
<1>4. TypeOK
  BY <1>1, <1>2, <1>3, TimeoutsAssumption DEF Init, TypeOK
<1> QED
  BY <1>2, <1>4 DEF Init, TunnelInv, Direction, ChunksInHand, SocketsInv, ReasonToEnd, Over

\* Every step of a goroutine (rawtcp.go:166-191), the handler's return and every
\* step of a peer keep it.
LEMMA TunnelStep == TunnelInv /\ [Next]_vars => TunnelInv'
<1> SUFFICES ASSUME TunnelInv, [Next]_vars PROVE TunnelInv'
  OBVIOUS
<1> USE ChunksAssumption
    DEF TunnelInv, TypeOK, Counts, Direction, Peer, ChunksInHand, SocketsInv, ReasonToEnd, Drained,
        Over, sockets, peers, goto, from, to
<1>1. ASSUME NEW d \in Direction, Read(d) PROVE TunnelInv'
  BY <1>1 DEF Read
<1>2. ASSUME NEW d \in Direction, ReadEnds(d) PROVE TunnelInv'
  BY <1>2 DEF ReadEnds, readable
<1>3. ASSUME NEW d \in Direction, ReadExpires(d) PROVE TunnelInv'
  BY <1>3 DEF ReadExpires
<1>4. ASSUME NEW d \in Direction, Write(d) PROVE TunnelInv'
  BY <1>4 DEF Write
<1>5. ASSUME NEW d \in Direction, WriteFails(d) PROVE TunnelInv'
  BY <1>5 DEF WriteFails
<1>6. CASE CloseWrite
  BY <1>6 DEF CloseWrite
<1>7. CASE CloseClient
  BY <1>7 DEF CloseClient
<1>8. ASSUME NEW d \in Direction, ReadBlocks(d) PROVE TunnelInv'
  BY <1>8 DEF ReadBlocks, blocking
<1>9. CASE ClientClosed
  BY <1>9 DEF ClientClosed
<1>10. CASE Return
  BY <1>10 DEF Return
<1>11. ASSUME NEW d \in Direction, PeerSends(d) PROVE TunnelInv'
  BY <1>11 DEF PeerSends
<1>12. ASSUME NEW d \in Direction, PeerShutsDown(d) PROVE TunnelInv'
  BY <1>12 DEF PeerShutsDown
<1>13. ASSUME NEW p \in Peer, PeerResets(p) PROVE TunnelInv'
  BY <1>13 DEF PeerResets
<1>14. ASSUME NEW p \in Peer, PeerStalls(p) PROVE TunnelInv'
  BY <1>14 DEF PeerStalls
<1>15. ASSUME NEW p \in Peer, PeerReads(p) PROVE TunnelInv'
  BY <1>15 DEF PeerReads
<1>16. CASE UNCHANGED vars
  BY <1>16 DEF vars
<1> QED
  BY <1>1, <1>2, <1>3, <1>4, <1>5, <1>6, <1>7, <1>10, <1>11, <1>12, <1>13, <1>14, <1>15, <1>16,
     <1>8, <1>9
  DEF Next, Copy

\* In every state the counts, sockets and goroutines fit together in this way.
THEOREM TunnelInvariant == Spec => []TunnelInv
  BY TunnelInit, TunnelStep, PTL DEF Spec

\* A goroutine never writes more than it has read, nor reads more than was sent
\* (rawtcp.go:205-210).
THEOREM TunnelTypeCorrect == Spec => []TypeOK
<1>1. TunnelInv => TypeOK
  BY DEF TunnelInv
<1> QED BY <1>1, TunnelInvariant, PTL

\* A client gets the whole answer unless a connection was reset or the server was
\* idle for too long, although the other goroutine half-closes the server's socket
\* (rawtcp.go:174-180).
THEOREM TunnelAnswerComplete == Spec => []AnswerComplete
<1>1. TunnelInv => AnswerComplete
  BY DEF TunnelInv, ReasonToEnd, Drained, Over, AnswerComplete
<1> QED BY <1>1, TunnelInvariant, PTL

\* What the client sends is cut off only by a reset, by the idle timeout or after
\* the server has ended its answer (rawtcp.go:166-181).
THEOREM TunnelRequestCut == Spec => []RequestCutOnlyByServer
<1>1. TunnelInv => RequestCutOnlyByServer
  BY DEF TunnelInv, ReasonToEnd, Drained, Over, RequestCutOnlyByServer
<1> QED BY <1>1, TunnelInvariant, PTL

\* The handler returns with the sockets as Proxy's TunnelEnds has them
\* (rawtcp.go:194, socks5.go:111).
THEOREM TunnelReturns == Spec => []ReturnsAsProxyExpects
<1>1. TunnelInv => ReturnsAsProxyExpects
  BY DEF TunnelInv, TypeOK, SocketsInv, Direction, ReturnsAsProxyExpects
<1> QED BY <1>1, TunnelInvariant, PTL
=============================================================================
