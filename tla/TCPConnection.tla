--------------------------- MODULE TCPConnection ---------------------------
(***************************************************************************)
(* libsponge/tcp_connection.{hh,cc}: one endpoint, as a record that holds  *)
(* its TCPSender, its TCPReceiver and its own members, and its methods as  *)
(* operators on that record.                                               *)
(***************************************************************************)
EXTENDS TCPSender, TCPReceiver

CONSTANT linger_time    \* 10 * _cfg.rt_timeout

ASSUME LingerAssumption == linger_time \in Nat

(* The timer is only compared with linger_time, so it stops there.         *)
NewConnection(isn) ==
    [sender       |-> NewSender(isn),
     receiver     |-> NewReceiver,
     segments_out |-> <<>>,
     linger       |-> TRUE,     \* _linger_after_streams_finish
     active       |-> TRUE,
     quiet        |-> 0]        \* _last_segm_recv_timer

syn_sent(c) == c.sender.next_seqno > 0
outbound(c) == c.sender.stream
inbound(c) == stream_out(c.receiver)

-----------------------------------------------------------------------------
(* TCPSender's loops in one go.                                            *)

(* Every iteration sends at least one sequence number of the window, or    *)
(* one in a closed window, so the loop is over after so many.              *)
fill_window(s) ==
    LET Rounds == s.window_size + 2
        After[i \in 0 .. Rounds] ==
            IF i = 0 THEN s
                     ELSE LET t == After[i - 1] IN IF FillDone(t) THEN t ELSE SendNext(t)
    IN  After[Rounds]

ack_received(s, no, win) ==
    LET new_abs_ackno == unwrap(no, s.isn, s.abs_ackno)
    IN  IF AcceptsAck(s, new_abs_ackno)
        THEN fill_window(TakeAck(UpdateWindow(s, win), new_abs_ackno))
        ELSE UpdateWindow(s, win)

-----------------------------------------------------------------------------
(* The header fields a segment gets on its way out; the window is cut to   *)
(* 16 bits.                                                                *)
Stamp(c, seg, rst) ==
    LET rcv == c.receiver
    IN  [seg EXCEPT
            !.ack = has_ackno(rcv),
            !.ackno = IF has_ackno(rcv) THEN ackno(rcv) ELSE @,
            !.win = IF has_ackno(rcv) THEN window_size(rcv) % U16 ELSE @,
            !.rst = rst]

send_segments(c, rst) ==
    LET out == c.sender.segments_out
    IN  IF c.active
        THEN [c EXCEPT
                !.segments_out = @ \o [i \in 1 .. Len(out) |-> Stamp(c, out[i], rst)],
                !.sender.segments_out = <<>>]
        ELSE c

(* Mutant: only the outbound stream gets the error.                        *)
reset_outbound(c) == [c EXCEPT !.sender.stream = set_error(@), !.active = FALSE]

reset(c) ==
    [c EXCEPT
        !.sender.stream = set_error(@),
        !.receiver.reassembler.output = set_error(@),
        !.active = FALSE]


EnsureSegment(c) ==
    IF c.sender.segments_out = <<>>
    THEN [c EXCEPT !.sender = send_empty_segment(@)]
    ELSE c

(* Mutant: the end of the inbound stream alone ends the lingering.         *)
try_switching_close_mode_any(c) ==
    IF input_ended(inbound(c)) THEN [c EXCEPT !.linger = FALSE] ELSE c

try_switching_close_mode(c) ==
    IF ~eof(outbound(c)) /\ input_ended(inbound(c))
    THEN [c EXCEPT !.linger = FALSE]
    ELSE c

(* Inbound stream ended and assembled; outbound stream ended, sent and     *)
(* acknowledged.                                                           *)
istream_done(c) == input_ended(inbound(c)) /\ unassembled_bytes(c.receiver.reassembler) = 0

(* Mutant: a FIN that was sent is taken to have arrived.                   *)
ostream_done_unacked(c) ==
    eof(outbound(c)) /\ c.sender.next_seqno = bytes_written(outbound(c)) + 2

ostream_done(c) ==
    /\ eof(outbound(c))
    /\ c.sender.next_seqno = bytes_written(outbound(c)) + 2
    /\ bytes_in_flight(c.sender) = 0

MayClose(c) == (c.linger => c.quiet >= linger_time) /\ istream_done(c) /\ ostream_done(c)

try_closing_connection(c) ==
    LET c1 == send_segments(c, FALSE)
    IN  IF c.active /\ MayClose(c1) THEN [c1 EXCEPT !.active = FALSE] ELSE c1

-----------------------------------------------------------------------------
(* The methods the owner calls.                                            *)

connect(c) == send_segments([c EXCEPT !.sender = fill_window(@)], FALSE)

write_outbound(c, data) ==
    LET s == [c.sender EXCEPT !.stream = write(@, data, send_capacity)]
    IN  IF input_ended(outbound(c)) \/ ~syn_sent(c)
        THEN c
        ELSE send_segments([c EXCEPT !.sender = fill_window(s)], FALSE)

end_input_stream(c) ==
    LET s == [c.sender EXCEPT !.stream = end_input(@)]
    IN  try_closing_connection([c EXCEPT !.sender = fill_window(s)])

(* A reset segment is still used as an acknowledgment.                     *)
segment_received(c, seg) ==
    LET c1 == [c EXCEPT !.receiver = receive(@, seg), !.quiet = 0]
        c2 == IF seg.rst THEN reset(c1) ELSE c1
        c3 == IF seg.ack THEN [c2 EXCEPT !.sender = ack_received(@, seg.ackno, seg.win)] ELSE c2
        c4 == IF length_in_sequence_space(seg) > 0 THEN EnsureSegment(c3) ELSE c3
        c5 == IF syn_sent(c3) THEN send_segments(c4, FALSE) ELSE c3
        c6 == IF seg.syn /\ ~syn_sent(c5) THEN connect(c5) ELSE c5
    IN  try_switching_close_mode(c6)

GivesUp(c) == c.sender.n_consec > MAX_RETX_ATTEMPTS

(* Mutant: the passing of time does not close the connection.              *)
tick_connection_no_close(c, ms) ==
    LET c1 == [c EXCEPT !.sender = tick(@, ms), !.quiet = MinOf(@ + ms, linger_time)]
    IN  CASE ~c.active -> c
          [] c.active /\ GivesUp(c1) -> reset(send_segments(EnsureSegment(c1), TRUE))
          [] OTHER -> send_segments(c1, FALSE)

tick_connection(c, ms) ==
    LET c1 == [c EXCEPT !.sender = tick(@, ms), !.quiet = MinOf(@ + ms, linger_time)]
        c2 == IF GivesUp(c1) THEN reset(send_segments(EnsureSegment(c1), TRUE))
                             ELSE send_segments(c1, FALSE)
    IN  IF c.active THEN try_closing_connection(c2) ELSE c

(* The destructor of an active connection.  What it queues goes down with  *)
(* the object.                                                             *)
destroy(c) == reset(send_segments(EnsureSegment(c), TRUE))
=============================================================================
