---------------------------- MODULE TCPSegments ----------------------------
(***************************************************************************)
(* tcp_helpers/tcp_segment and tcp_header: the fields of a TCP segment     *)
(* that the endpoints read.  Ports, checksum, data offset and the urgent   *)
(* and push fields do not influence the state machines and are left out.   *)
(***************************************************************************)
EXTENDS Integers, Sequences

(* A segment whose header has its default values (tcp_header.hh).          *)
DefaultSegment ==
    [seqno |-> 0, syn |-> FALSE, fin |-> FALSE, payload |-> <<>>,
     ack |-> FALSE, ackno |-> 0, win |-> 0, rst |-> FALSE]

Bit(b) == IF b THEN 1 ELSE 0

(* SYN and FIN each occupy one sequence number.                            *)
length_in_sequence_space(seg) == Len(seg.payload) + Bit(seg.syn) + Bit(seg.fin)
=============================================================================
