---------------------------- MODULE TCPReceiver ----------------------------
(***************************************************************************)
(* libsponge/tcp_receiver.{hh,cc}: the receiver's members as a record and  *)
(* its methods as operators.                                               *)
(***************************************************************************)
EXTENDS WrappingIntegers, StreamReassembler, TCPSegments

NewReceiver == [syn_received |-> FALSE, isn |-> 0, reassembler |-> NewReassembler]

stream_out(rcv) == rcv.reassembler.output

(* Mutant: the SYN is taken to occupy a place in the stream.               *)
StreamIndex_syn_counted(abs_seqno, seg) == abs_seqno % U64

(* The place in the stream of the segment's first byte, a uint64_t.        *)
StreamIndex(abs_seqno, seg) == (abs_seqno - Bit(~seg.syn)) % U64

(* segment_received(): a segment before the SYN is ignored; a SYN sets the *)
(* ISN, every time.                                                        *)
receive(rcv, seg) ==
    LET r1        == IF seg.syn THEN [rcv EXCEPT !.syn_received = TRUE, !.isn = seg.seqno]
                                ELSE rcv
        abs_seqno == unwrap(seg.seqno, r1.isn, bytes_written(stream_out(rcv)) + 1)
        c         == [data |-> seg.payload, index |-> StreamIndex(abs_seqno, seg)]
    IN  IF r1.syn_received
        THEN [r1 EXCEPT !.reassembler = push_substring(@, c, seg.fin)]
        ELSE rcv

(* Mutant: the FIN is acknowledged when it has arrived, gap or not.        *)
AbsAckno_fin_seen(rcv) ==
    bytes_written(stream_out(rcv)) + Bit(rcv.syn_received) + Bit(rcv.reassembler.eof_set)

(* The absolute number behind ackno().                                     *)
AbsAckno(rcv) ==
    bytes_written(stream_out(rcv)) + Bit(rcv.syn_received) + Bit(input_ended(stream_out(rcv)))

(* ackno() has a value only once the SYN is in.                            *)
has_ackno(rcv) == rcv.syn_received

(* Mutant: the same slip, in the number that is sent only.                 *)
ackno_fin_seen(rcv) == wrap(AbsAckno_fin_seen(rcv), rcv.isn)

ackno(rcv) == wrap(AbsAckno(rcv), rcv.isn)

(* Mutant: the window counts the bytes that wait to be assembled.          *)
window_size_unassembled(rcv) ==
    remaining_capacity(stream_out(rcv), recv_capacity) - unassembled_bytes(rcv.reassembler)

window_size(rcv) == remaining_capacity(stream_out(rcv), recv_capacity)
=============================================================================
