------------------------- MODULE TCPConnectionCopy -------------------------
(***************************************************************************)
(* libsponge/tcp_connection_w_comments.cc: a second definition of every    *)
(* method of TCPConnection.  CMakeLists.txt puts each *.cc of the directory*)
(* into one static library, so the linker's choice of archive member       *)
(* decides which definition a program runs.  What the two files do in the  *)
(* same way (the sender's, the receiver's and the stream's methods, Stamp, *)
(* MayClose, reset, EnsureSegment) is taken from TCPConnection.            *)
(***************************************************************************)
EXTENDS TCPConnection

(* Here sending decides about the RST flag by itself.                      *)
send_segments_copy(c, rst) ==
    LET out == c.sender.segments_out
    IN  IF ~c.active THEN c
        ELSE [c EXCEPT
                !.segments_out = @ \o [i \in 1 .. Len(out) |-> Stamp(c, out[i], rst \/ GivesUp(c))],
                !.sender.segments_out = <<>>]

try_switching_close_mode_copy(c) ==
    [c EXCEPT !.linger = @ /\ (eof(outbound(c)) \/ ~input_ended(inbound(c)))]

try_closing_connection_copy(c) ==
    LET c1 == send_segments_copy(c, FALSE)
    IN  [c1 EXCEPT !.active = @ /\ ~MayClose(c1)]

connect_copy(c) == send_segments_copy([c EXCEPT !.sender = fill_window(@)], FALSE)

write_copy(c, data) ==
    IF input_ended(outbound(c)) \/ ~syn_sent(c)
    THEN c
    ELSE connect_copy([c EXCEPT !.sender.stream = write(@, data, send_capacity)])

end_input_stream_copy(c) ==
    try_closing_connection_copy(
        [c EXCEPT !.sender = fill_window([@ EXCEPT !.stream = end_input(@)])])

(* The reset comes before the receiver sees the segment.                   *)
segment_received_copy(c, seg) ==
    LET c1 == IF seg.rst THEN reset(c) ELSE c
        c2 == [c1 EXCEPT !.receiver = receive(@, seg), !.quiet = 0]
        c3 == IF seg.ack THEN [c2 EXCEPT !.sender = ack_received(@, seg.ackno, seg.win)] ELSE c2
        c4 == IF length_in_sequence_space(seg) > 0 THEN EnsureSegment(c3) ELSE c3
        c5 == IF syn_sent(c3) THEN send_segments_copy(c4, FALSE) ELSE c3
        c6 == IF seg.syn /\ ~syn_sent(c5) THEN connect_copy(c5) ELSE c5
    IN  try_switching_close_mode_copy(c6)

(* The close mode is looked at on every tick as well.                      *)
tick_copy(c, ms) ==
    LET c1 == [c EXCEPT !.sender = tick(@, ms), !.quiet = MinOf(@ + ms, linger_time)]
        c2 == send_segments_copy(IF GivesUp(c1) THEN EnsureSegment(c1) ELSE c1, FALSE)
        c3 == IF GivesUp(c2) THEN reset(c2) ELSE c2
    IN  IF c.active THEN try_closing_connection_copy(try_switching_close_mode_copy(c3)) ELSE c

destroy_copy(c) == reset(send_segments_copy(EnsureSegment(c), TRUE))
=============================================================================
