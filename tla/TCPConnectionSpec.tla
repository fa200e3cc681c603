------------------------- MODULE TCPConnectionSpec -------------------------
(***************************************************************************)
(* Two TCPConnections, their applications and the network between them.    *)
(* "A" opens the connection, "B" waits for it.  The network reorders,      *)
(* repeats and, if Lossy, drops segments.  The owner of a connection (the  *)
(* event loop of tcp_sponge_socket.cc) calls one method at a time, hands   *)
(* what is in segments_out to the network afterwards, and calls none once  *)
(* the connection is not active any more.                                  *)
(***************************************************************************)
EXTENDS TCPState, TCPConnectionCopy

CONSTANTS
    BytesA, BytesB,     \* bound: how much each application writes
    MaxToA, MaxToB,     \* bound: segments on their way to each endpoint
    Lossy,              \* may the network drop and repeat segments?
    Prompt,             \* are segments delivered before any timer runs?
    Crashes             \* may an application give up its connection?

ASSUME ConnectionAssumption ==
    /\ BytesA \in Nat /\ BytesB \in Nat /\ MaxToA \in Nat /\ MaxToB \in Nat
    /\ Lossy \in BOOLEAN /\ Prompt \in BOOLEAN /\ Crashes \in BOOLEAN

(* The network may keep a segment for as long as it likes.  A stream is    *)
(* shorter than half of the sequence numbers, so that an old segment is    *)
(* not taken for a new one.                                                *)
ASSUME ShortStreamsAssumption == 2 * (BytesA + 2) < Wrap /\ 2 * (BytesB + 2) < Wrap

VARIABLES
    conn,   \* the two TCPConnections
    net,    \* net[e]: the set of segments on their way to e
    beat    \* flips with every tick that fairness has to see

vars == <<conn, net, beat>>

Endpoint == {"A", "B"}
Peer(e) == IF e = "A" THEN "B" ELSE "A"
MaxBytes(e) == IF e = "A" THEN BytesA ELSE BytesB
MaxTo(e) == IF e = "A" THEN MaxToA ELSE MaxToB
Isn(e) == IF e = "A" THEN Wrap - 2 ELSE Wrap - 1

Init ==
    /\ conn = [e \in Endpoint |-> NewConnection(Isn(e))]
    /\ net = [e \in Endpoint |-> {}]
    /\ beat = 0

(* The segments_out of a connection that was destroyed: nobody can take    *)
(* them any more.  Everybody else's are taken at once, see Update.         *)
Destroyed(c) == c.segments_out # <<>>

SegmentsOf(c) == {c.segments_out[i] : i \in 1 .. Len(c.segments_out)}

(* The method called on e's connection leaves it in the state result; what *)
(* it has to send goes to the peer, or part of it is lost; left is what    *)
(* remains on its way to e.  (c is bound so that TLC computes it once.)    *)
Update(e, result, left) ==
    \E c \in {result} : \E sent \in SUBSET SegmentsOf(c) :
        /\ ~Lossy => sent = SegmentsOf(c)
        /\ Cardinality(net[Peer(e)] \cup sent) <= MaxTo(Peer(e))
        /\ conn' = [conn EXCEPT ![e] = [c EXCEPT !.segments_out = <<>>]]
        /\ net' = [net EXCEPT ![e] = left, ![Peer(e)] = @ \cup sent]

Call(e, c) == conn[e].active /\ Update(e, c, net[e]) /\ UNCHANGED beat

-----------------------------------------------------------------------------
Connect(e) ==
    /\ e = "A" /\ ~syn_sent(conn[e])
    /\ Call(e, connect(conn[e]))

(* The byte at a place of e's stream, different for the two streams.       *)
ByteAt(e, place) == IF e = "A" THEN place ELSE -1 - place

(* write() takes nothing before the SYN is sent.  TCPSpongeSocket lets the *)
(* application write a little later, when the handshake is over.           *)
Write(e) ==
    LET n == bytes_written(outbound(conn[e]))
    IN  /\ syn_sent(conn[e]) /\ ~input_ended(outbound(conn[e]))
        /\ n < MaxBytes(e)
        /\ remaining_capacity(outbound(conn[e]), send_capacity) > 0
        /\ Call(e, write_outbound(conn[e], <<ByteAt(e, n)>>))

EndInputStream(e) ==
    /\ syn_sent(conn[e]) /\ ~input_ended(outbound(conn[e]))
    /\ Call(e, end_input_stream(conn[e]))

Unread(e) == ~Destroyed(conn[e]) /\ ~buffer_empty(inbound(conn[e]))
Read(e) ==
    /\ Unread(e)
    /\ conn' = [conn EXCEPT ![e].receiver.reassembler.output = pop_output(@, buffer_size(@))]
    /\ UNCHANGED <<net, beat>>

(* A segment arrives; the network may keep a copy of it.                   *)
SegmentReceived(e) ==
    \E seg \in net[e], again \in BOOLEAN :
        /\ again => Lossy
        /\ conn[e].active
        /\ Update(e, segment_received(conn[e], seg), IF again THEN net[e] ELSE net[e] \ {seg})
        /\ UNCHANGED beat

(* What arrives for a connection that is no longer active is dropped.      *)
Discard(e) ==
    /\ ~conn[e].active /\ net[e] # {}
    /\ net' = [net EXCEPT ![e] = {}]
    /\ UNCHANGED <<conn, beat>>

(* With Prompt the network and the applications are faster than a tick.    *)
Settled == \A d \in Endpoint : net[d] = {} /\ ~Unread(d)
Tick(e) ==
    /\ Prompt => Settled
    /\ conn[e].active
    /\ Update(e, tick_connection(conn[e], 1), net[e])
    /\ beat' = IF Prompt THEN 1 - beat ELSE beat

(* The application destroys its socket: _abort ends the event loop, and    *)
(* the TCPConnection is destructed with its segments_out.                  *)
Destroy(e) ==
    /\ Crashes /\ conn[e].active
    /\ conn' = [conn EXCEPT ![e] = destroy(@)]
    /\ UNCHANGED <<net, beat>>

Next ==
    \E e \in Endpoint :
        \/ Connect(e)
        \/ Write(e)
        \/ EndInputStream(e)
        \/ Read(e)
        \/ SegmentReceived(e)
        \/ Discard(e)
        \/ Tick(e)
        \/ Destroy(e)

Spec == Init /\ [][Next]_vars

(* What is left to do between two ticks: for the network and the event     *)
(* loops, and for an application that connects, reads what there is and    *)
(* closes in the end.                                                      *)
Todo ==
    \/ ~Settled
    \/ \E e \in Endpoint :
          /\ conn[e].active
          /\ \/ e = "A" /\ ~syn_sent(conn[e])
             \/ syn_sent(conn[e]) /\ ~input_ended(outbound(conn[e]))
Work ==
    \E e \in Endpoint :
        Connect(e) \/ EndInputStream(e) \/ Read(e) \/ SegmentReceived(e) \/ Discard(e)

(* As long as there is something to do, some of it is done, no matter      *)
(* which (weak fairness of Work: Todo is the condition under which it is   *)
(* enabled, written out because TLC is slow to find it); and the event     *)
(* loop of an active connection keeps calling tick().                      *)
FairSpec ==
    /\ Spec
    /\ <>[]Todo => []<><<Work>>_vars
    /\ \A e \in Endpoint : SF_vars(Tick(e))

-----------------------------------------------------------------------------
(* Properties.                                                             *)

failed(c) == inbound(c).error

(* What one application reads is what the other has written, from the      *)
(* first byte and in order, and the end of the stream comes after the last *)
(* byte of a stream that its writer has ended.                             *)
Delivered ==
    \A e \in Endpoint :
        LET in  == inbound(conn[Peer(e)])
            out == outbound(conn[e])
        IN  /\ \A j \in 1 .. Len(in.buf) : in.buf[j] = ByteAt(e, bytes_read(in) + j - 1)
            /\ bytes_written(in) <= bytes_written(out)
            /\ input_ended(in) => input_ended(out) /\ bytes_written(in) = bytes_written(out)

(* An endpoint never believes that more of its stream has arrived than the *)
(* peer has assembled, and the peer never acknowledges what was not sent:  *)
(* _abs_ackno <= the receiver's ackno <= _next_seqno.                      *)
AckBetween ==
    \A e \in Endpoint :
        /\ conn[e].sender.abs_ackno <= AbsAckno(conn[Peer(e)].receiver)
        /\ AbsAckno(conn[Peer(e)].receiver) <= conn[e].sender.next_seqno

(* A connection that closed without an error has delivered its whole       *)
(* stream and its FIN to the peer and has received the peer's whole stream *)
(* (the prerequisites at tcp_connection.cc:128-134 mean what they say).    *)
CleanClose ==
    \A e \in Endpoint :
        LET c == conn[e]
            p == conn[Peer(e)]
        IN  ~c.active /\ ~failed(c) =>
                /\ input_ended(inbound(p)) /\ bytes_written(inbound(p)) = bytes_written(outbound(c))
                /\ input_ended(inbound(c)) /\ bytes_written(inbound(c)) = bytes_written(outbound(p))

(* Never do both endpoints skip the lingering: the one whose ACK of the    *)
(* last FIN may be lost stays to repeat it (tcp_connection.cc:89-92).      *)
OneLingers == conn["A"].linger \/ conn["B"].linger


(* With a loss-free network the summaries of tcp_state.cc are the official  *)
(* states, as the tests of the class assume, but for two: a connection      *)
(* whose last FIN is acknowledged stays active until the next tick, and one *)
(* whose own FIN still waits for the window when the peer's FIN arrives     *)
(* stays in the lingering mode (tcp_connection.cc:89-92 asks for the end of *)
(* the stream, not for the FIN).                                            *)
LastAckAcked == Summary("FIN_RECV", "FIN_ACKED", TRUE, FALSE)
FinHeldBack == Summary("FIN_RECV", "SYN_ACKED", TRUE, TRUE)
OfficialStates ==
    \A e \in Endpoint :
        \/ \E name \in OfficialName : is_in(conn[e], name)
        \/ state(conn[e]) = LastAckAcked
        \/ state(conn[e]) = FinHeldBack /\ eof(outbound(conn[e]))

(* What one endpoint has heard bounds what state the other one is in: the  *)
(* states of tcp_state.cc never contradict each other, whatever the        *)
(* network loses, repeats or reorders.                                     *)
StatesAgree ==
    \A e \in Endpoint :
        LET s == state(conn[e])
            p == state(conn[Peer(e)])
        IN  /\ s.sender \in {"SYN_ACKED", "FIN_SENT", "FIN_ACKED"} => p.receiver # "LISTEN"
            /\ s.sender = "FIN_ACKED" => p.receiver \in {"FIN_RECV", "ERROR"}
            /\ s.receiver = "FIN_RECV" => p.sender \in {"FIN_SENT", "FIN_ACKED", "ERROR"}
            /\ is_in(conn[e], "TIME_WAIT") =>
                    \/ p.receiver = "FIN_RECV" /\ p.sender \in {"FIN_SENT", "FIN_ACKED"}
                    \/ p.sender = "ERROR"

(* Whichever of its two definitions the linker picks, TCPConnection does   *)
(* the same: tcp_connection.cc and tcp_connection_w_comments.cc agree in   *)
(* every state of a connection on every call that can come next.           *)
CopyAgrees ==
    \A e \in Endpoint :
        LET c == conn[e]
        IN  c.active =>
                /\ connect_copy(c) = connect(c)
                /\ write_copy(c, <<0>>) = write_outbound(c, <<0>>)
                /\ end_input_stream_copy(c) = end_input_stream(c)
                /\ \A seg \in net[e] : segment_received_copy(c, seg) = segment_received(c, seg)
                /\ \A ms \in 0 .. linger_time : tick_copy(c, ms) = tick_connection(c, ms)
                /\ destroy_copy(c) = destroy(c)

(* Unless an application destroys its socket, both connections end, in     *)
(* whatever order the applications write, close and read: neither waits    *)
(* for the other for ever (tcp_connection.cc:118-148).                     *)
BothEnd ==
    \/ <>[](\A e \in Endpoint : ~conn[e].active)
    \/ <>(\E e \in Endpoint : Destroyed(conn[e]))

(* "if TCPSpongeSocket is destructed while a TCP connection is open, the   *)
(* connection is immediately terminated with a RST"                        *)
(* (tcp_sponge_socket.hh:123-124): once the handshake is done, the peer of *)
(* a destroyed endpoint learns of it and its connection ends as well.      *)
Connected == \A e \in Endpoint : has_ackno(conn[e].receiver) /\ conn[e].sender.abs_ackno > 0
DestructionEndsBoth ==
    \A e \in Endpoint : Destroyed(conn[e]) /\ Connected ~> ~conn[Peer(e)].active
=============================================================================
