-------------------------- MODULE TCPReceiverSpec --------------------------
(***************************************************************************)
(* A TCPReceiver at the end of a network that delays, reorders and repeats *)
(* the segments of one peer, while the application reads.  The peer sends  *)
(* the SYN, the bytes 0 .. StreamLen - 1 and the FIN; the absolute         *)
(* sequence numbers are 0, 1 .. StreamLen and StreamLen + 1.               *)
(***************************************************************************)
EXTENDS TCPReceiver

CONSTANTS
    Isn,            \* the peer's initial sequence number
    StreamLen,      \* how many bytes the peer sends
    MaxPayload      \* bound: longest payload of a segment

ASSUME ReceiverSpecAssumption ==
    Isn \in WrappingInt32 /\ StreamLen \in Nat /\ MaxPayload \in Nat

(* A uint64_t counts the stream and the window behind it.                  *)
ASSUME StreamFitsAssumption == StreamLen + recv_capacity + 2 <= U64

VARIABLES
    rcv,    \* the TCPReceiver
    got,    \* history: the absolute sequence numbers that have arrived
    beat    \* flips with every delivery, so that fairness sees each of them

vars == <<rcv, got, beat>>

Init == rcv = NewReceiver /\ got = {} /\ beat = 0

(* The peer's segment that starts at abs_seqno with len bytes.             *)
Segment(abs_seqno, len, fin) ==
    LET first == IF abs_seqno = 0 THEN 0 ELSE abs_seqno - 1
    IN  [DefaultSegment EXCEPT
            !.seqno = wrap(abs_seqno, Isn),
            !.syn = abs_seqno = 0,
            !.fin = fin,
            !.payload = [j \in 1 .. len |-> first + j - 1]]

Exists(abs_seqno, len, fin) ==
    LET last == (IF abs_seqno = 0 THEN 0 ELSE abs_seqno - 1) + len
    IN  IF fin THEN last = StreamLen
               ELSE last <= StreamLen \/ (abs_seqno = StreamLen + 2 /\ len = 0)

(* A segment in the network is less than half the sequence space old: in   *)
(* 32 bits, two gigabytes; here it is a bound.                             *)
Recent(abs_seqno) ==
    LET next == bytes_written(stream_out(rcv)) + 1
    IN  2 * abs_seqno < 2 * next + Wrap /\ 2 * next < 2 * abs_seqno + Wrap

Deliver(abs_seqno, len, fin) ==
    /\ Exists(abs_seqno, len, fin) /\ Recent(abs_seqno)
    /\ LET seg == Segment(abs_seqno, len, fin)
       IN  /\ rcv' = receive(rcv, seg)
           /\ got' = got \cup abs_seqno .. abs_seqno + length_in_sequence_space(seg) - 1
           /\ beat' = 1 - beat

(* An empty segment with the SYN's number but without the SYN: its index   *)
(* in the stream is 2^64 - 1.                                              *)
DeliverProbe ==
    /\ Recent(0)
    /\ rcv' = receive(rcv, [DefaultSegment EXCEPT !.seqno = Isn])
    /\ UNCHANGED <<got, beat>>

Read(len) ==
    /\ rcv' = [rcv EXCEPT !.reassembler.output = pop_output(@, len)]
    /\ UNCHANGED <<got, beat>>

DeliverAny ==
    \E abs_seqno \in 0 .. StreamLen + 2, len \in 0 .. MaxPayload, fin \in BOOLEAN :
        Deliver(abs_seqno, len, fin)

ReadAny == \E len \in 1 .. buffer_size(stream_out(rcv)) : Read(len)

Next == DeliverAny \/ DeliverProbe \/ ReadAny

Spec == Init /\ [][Next]_vars

(* The peer repeats the segment it has no acknowledgment for until it      *)
(* arrives (tcp_sender.cc:96-117), and the application reads.  The first   *)
(* is weak fairness, with the condition under which the peer has such a    *)
(* segment written out.                                                    *)
Resent ==
    \E len \in 0 .. MaxPayload, fin \in BOOLEAN :
        /\ length_in_sequence_space(Segment(AbsAckno(rcv), len, fin)) > 0
        /\ Deliver(AbsAckno(rcv), len, fin)

FairSpec ==
    /\ Spec
    /\ <>[](~input_ended(stream_out(rcv))) => []<><<Resent>>_vars
    /\ WF_vars(ReadAny)

-----------------------------------------------------------------------------
(* Properties.                                                             *)

(* The bytes the application reads are the peer's, from the first and in   *)
(* order, and the end of the stream comes after all of them, for every     *)
(* wrap of the sequence numbers on the way (tcp_receiver.cc:21-23).        *)
DeliveredInOrder ==
    LET q == stream_out(rcv)
    IN  /\ \A j \in 1 .. Len(q.buf) : q.buf[j] = bytes_read(q) + j - 1
        /\ input_ended(q) => bytes_written(q) = StreamLen

(* ackno() never acknowledges a sequence number that has not arrived: the  *)
(* peer will not send it again (tcp_receiver.cc:26-33).                    *)
AcksOnlyArrived == 0 .. AbsAckno(rcv) - 1 \subseteq got

(* The chunks that wait between two calls: no two overlap or even touch,   *)
(* none could be assembled, all are inside the window and hold the bytes   *)
(* of their place (stream_reassembler.cc:27-62).                           *)
Positions(c) == c.index .. End(c) - 1
Touch(c, d) == c.index <= End(d) /\ d.index <= End(c)
ChunksApart ==
    LET r == rcv.reassembler
    IN  \A i \in 1 .. Len(r.unasmb) :
            LET c == r.unasmb[i]
            IN  /\ \A j \in 1 .. Len(c.data) : c.data[j] = c.index + j - 1
                /\ c.index > r.first_unasmb
                /\ End(c) <= first_unacceptable(r)
                /\ \A j \in 1 .. Len(r.unasmb) : i # j => ~Touch(c, r.unasmb[j])

(* "If the byte at a particular index has been pushed more than once, it   *)
(* should only be counted once" (stream_reassembler.hh:58-59).             *)
Stored == UNION {Positions(rcv.reassembler.unasmb[i]) : i \in DOMAIN rcv.reassembler.unasmb}
CountsOnce == unassembled_bytes(rcv.reassembler) = Cardinality(Stored)

(* "This capacity limits both the bytes that have been reassembled, and    *)
(* those that have not yet been reassembled" (stream_reassembler.hh:36).   *)
WithinCapacity == buffer_size(stream_out(rcv)) + Cardinality(Stored) <= recv_capacity

(* A byte that was taken in is not dropped again: it waits until it is     *)
(* assembled.  In particular the early return of merge(), with the chunks  *)
(* it has erased by then, loses nothing (stream_reassembler.cc:40,91-92).  *)
NoByteDropped == [][\A p \in Stored : p \in Stored' \/ p < rcv'.reassembler.first_unasmb]_vars

(* The right edge of the window, ackno() + window_size(), never moves      *)
(* back: what the peer was once allowed to send stays allowed              *)
(* (tcp_receiver.cc:26-35).                                                *)
WindowNeverShrinks ==
    [][has_ackno(rcv) =>
        AbsAckno(rcv)' + window_size(rcv)' >= AbsAckno(rcv) + window_size(rcv)]_vars

(* From every state that reordering, overlap and a full buffer can lead to *)
(* the stream is completed: no byte becomes impossible to deliver.         *)
Completes == <>(eof(stream_out(rcv)))
=============================================================================
