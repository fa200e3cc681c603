------------------------------ MODULE TCPState ------------------------------
(***************************************************************************)
(* libsponge/tcp_helpers/tcp_state.{hh,cc}: the state of a TCPConnection   *)
(* summarised, and the names RFC 793 has for some of the summaries.        *)
(***************************************************************************)
EXTENDS TCPConnection

receiver_summary(rcv) ==
    CASE stream_out(rcv).error -> "ERROR"
      [] ~stream_out(rcv).error /\ ~has_ackno(rcv) -> "LISTEN"
      [] ~stream_out(rcv).error /\ has_ackno(rcv) ->
            IF input_ended(stream_out(rcv)) THEN "FIN_RECV" ELSE "SYN_RECV"

(* Mutant: the FIN itself is not counted as in flight.                     *)
sender_summary_fin(s) ==
    CASE s.stream.error -> "ERROR"
      [] ~s.stream.error /\ s.next_seqno = 0 -> "CLOSED"
      [] ~s.stream.error /\ s.next_seqno > 0 ->
            CASE s.next_seqno = bytes_in_flight(s) -> "SYN_SENT"
              [] /\ s.next_seqno > bytes_in_flight(s)
                 /\ ~eof(s.stream) \/ s.next_seqno < bytes_written(s.stream) + 2 -> "SYN_ACKED"
              [] OTHER -> IF bytes_in_flight(s) > 1 THEN "FIN_SENT" ELSE "FIN_ACKED"

sender_summary(s) ==
    CASE s.stream.error -> "ERROR"
      [] ~s.stream.error /\ s.next_seqno = 0 -> "CLOSED"
      [] ~s.stream.error /\ s.next_seqno > 0 ->
            CASE s.next_seqno = bytes_in_flight(s) -> "SYN_SENT"
              [] /\ s.next_seqno > bytes_in_flight(s)
                 /\ ~eof(s.stream) \/ s.next_seqno < bytes_written(s.stream) + 2 -> "SYN_ACKED"
              [] OTHER -> IF bytes_in_flight(s) > 0 THEN "FIN_SENT" ELSE "FIN_ACKED"

Summary(receiver, sender, active, linger) ==
    [receiver |-> receiver, sender |-> sender, active |-> active, linger |-> linger]

(* An inactive connection does not linger, whatever its flag says.         *)
state(c) ==
    Summary(receiver_summary(c.receiver), sender_summary(c.sender), c.active, c.active /\ c.linger)

(* The official states.                                                    *)
Official ==
    [LISTEN      |-> Summary("LISTEN",   "CLOSED",    TRUE,  TRUE),
     SYN_RCVD    |-> Summary("SYN_RECV", "SYN_SENT",  TRUE,  TRUE),
     SYN_SENT    |-> Summary("LISTEN",   "SYN_SENT",  TRUE,  TRUE),
     ESTABLISHED |-> Summary("SYN_RECV", "SYN_ACKED", TRUE,  TRUE),
     CLOSE_WAIT  |-> Summary("FIN_RECV", "SYN_ACKED", TRUE,  FALSE),
     LAST_ACK    |-> Summary("FIN_RECV", "FIN_SENT",  TRUE,  FALSE),
     CLOSING     |-> Summary("FIN_RECV", "FIN_SENT",  TRUE,  TRUE),
     FIN_WAIT_1  |-> Summary("SYN_RECV", "FIN_SENT",  TRUE,  TRUE),
     FIN_WAIT_2  |-> Summary("SYN_RECV", "FIN_ACKED", TRUE,  TRUE),
     TIME_WAIT   |-> Summary("FIN_RECV", "FIN_ACKED", TRUE,  TRUE),
     RESET       |-> Summary("ERROR",    "ERROR",     FALSE, FALSE),
     CLOSED      |-> Summary("FIN_RECV", "FIN_ACKED", FALSE, FALSE)]

OfficialName == DOMAIN Official
is_in(c, name) == state(c) = Official[name]
=============================================================================
