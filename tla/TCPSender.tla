----------------------------- MODULE TCPSender -----------------------------
(***************************************************************************)
(* libsponge/tcp_sender.{hh,cc}: the methods of TCPSender as operators on  *)
(* a record that holds its members.  fill_window() is a loop; NextSegment, *)
(* FillDone and SendNext are its body, its exits and its effect, so that   *)
(* TCPSenderSpec can run it one iteration at a time and TCPConnection in   *)
(* one go.                                                                 *)
(***************************************************************************)
EXTENDS WrappingIntegers, Streams, TCPSegments, FiniteSets

CONSTANTS
    U16,                \* 2^16: n_bytes_to_send and the window are uint16_t
    MAX_PAYLOAD_SIZE,   \* TCPConfig::MAX_PAYLOAD_SIZE
    MAX_RETX_ATTEMPTS,  \* TCPConfig::MAX_RETX_ATTEMPTS
    rt_timeout,         \* TCPConfig::rt_timeout, the initial RTO
    send_capacity       \* TCPConfig::send_capacity

ASSUME SenderAssumption ==
    /\ U16 \in Nat \ {0, 1}
    /\ MAX_PAYLOAD_SIZE \in Nat \ {0}
    /\ MAX_PAYLOAD_SIZE < U16
    /\ MAX_RETX_ATTEMPTS \in Nat
    /\ rt_timeout \in Nat \ {0}
    /\ send_capacity \in Nat \ {0}

(* Timer.  time_elapsed is compared with timeout and never otherwise read, *)
(* and timeout only changes in start(), so counting stops at timeout.      *)
expired(timer) == timer.time_elapsed >= timer.timeout
start(new_timeout) == [time_elapsed |-> 0, timeout |-> new_timeout]
Elapse(timer, ms) ==
    [timer EXCEPT !.time_elapsed = MinOf(@ + ms, timer.timeout)]

NewSender(isn) ==
    [isn                    |-> isn,
     segments_out           |-> <<>>,
     stream                 |-> EmptyStream,
     next_seqno             |-> 0,
     abs_ackno              |-> 0,
     window_size            |-> 1,
     outstanding            |-> <<>>,   \* of [seqno, segment], oldest first
     timer                  |-> start(rt_timeout),
     n_consec               |-> 0]

bytes_in_flight(s) == s.next_seqno - s.abs_ackno

-----------------------------------------------------------------------------
(* fill_window().                                                          *)

(* Mutant: what is already in flight is not taken off the window.          *)
Room_whole_window(s) == IF s.window_size = 0 THEN 1 ELSE s.window_size

(* n_bytes_to_send as the loop first computes it.                          *)
Room(s) ==
    IF s.window_size = 0 /\ bytes_in_flight(s) = 0
    THEN 1
    ELSE (s.window_size - bytes_in_flight(s)) % U16

SendsSyn(s) == s.next_seqno = 0 /\ Room(s) > 0

(* The most payload this segment may carry.                                *)
PayloadLimit(s) == MinOf(Room(s) - Bit(SendsSyn(s)), MAX_PAYLOAD_SIZE)

(* Mutant: FIN as soon as the writer is done, unsent bytes or not.         *)
SendsFinEarly(s) == input_ended(s.stream) /\ Room(s) > 0

(* A full-size payload is taken to leave room for the FIN; otherwise the   *)
(* room is what the payload did not use.                                   *)
SendsFin(s) ==
    /\ eof(after_read(s.stream, PayloadLimit(s)))
    /\ \/ PayloadLimit(s) = MAX_PAYLOAD_SIZE
       \/ PayloadLimit(s) > Len(peek_output(s.stream, PayloadLimit(s)))

NextSegment(s) ==
    [DefaultSegment EXCEPT
        !.seqno = wrap(s.next_seqno, s.isn),
        !.syn = SendsSyn(s),
        !.fin = SendsFin(s),
        !.payload = peek_output(s.stream, PayloadLimit(s))]

(* Mutant: the loop's condition with < for <=.                             *)
FillDone_strict(s) ==
    \/ s.next_seqno >= s.abs_ackno + s.window_size
    \/ eof(s.stream) /\ s.next_seqno >= bytes_written(s.stream) + 2
    \/ length_in_sequence_space(NextSegment(s)) = 0

(* The ways out of the loop: the window is full, the FIN has been sent, or *)
(* there is nothing to send.                                               *)
FillDone(s) ==
    \/ s.next_seqno > s.abs_ackno + s.window_size
    \/ eof(s.stream) /\ s.next_seqno >= bytes_written(s.stream) + 2
    \/ length_in_sequence_space(NextSegment(s)) = 0

(* Mutant: the timer is not started for a new segment.                     *)
SendNext_no_timer(s) ==
    [s EXCEPT
        !.stream = after_read(s.stream, PayloadLimit(s)),
        !.segments_out = Append(@, NextSegment(s)),
        !.outstanding = Append(@, [seqno |-> s.next_seqno, segment |-> NextSegment(s)]),
        !.next_seqno = @ + length_in_sequence_space(NextSegment(s))]

(* Mutant: a segment without payload is not kept for retransmission.       *)
SendNext_untracked(s) ==
    [s EXCEPT
        !.stream = after_read(s.stream, PayloadLimit(s)),
        !.segments_out = Append(@, NextSegment(s)),
        !.outstanding = IF NextSegment(s).payload = <<>> THEN @
                        ELSE Append(@, [seqno |-> s.next_seqno, segment |-> NextSegment(s)]),
        !.next_seqno = @ + length_in_sequence_space(NextSegment(s)),
        !.timer = IF expired(@) THEN start(rt_timeout) ELSE @]

(* One iteration that sends.                                               *)
SendNext(s) ==
    [s EXCEPT
        !.stream = after_read(s.stream, PayloadLimit(s)),
        !.segments_out = Append(@, NextSegment(s)),
        !.outstanding = Append(@, [seqno |-> s.next_seqno, segment |-> NextSegment(s)]),
        !.next_seqno = @ + length_in_sequence_space(NextSegment(s)),
        !.timer = IF expired(@) THEN start(rt_timeout) ELSE @]

-----------------------------------------------------------------------------
(* ack_received().                                                         *)

FullyAcked(o, acked) == o.seqno + length_in_sequence_space(o.segment) <= acked

(* How many segments the erasing loop removes: the longest prefix of       *)
(* fully acknowledged ones.                                                *)
AckedPrefix(outstanding, acked) ==
    CHOOSE k \in 0 .. Len(outstanding) :
        /\ \A i \in 1 .. k : FullyAcked(outstanding[i], acked)
        /\ k < Len(outstanding) => ~FullyAcked(outstanding[k + 1], acked)

(* Mutant: an ackno ahead of what was sent is believed.                    *)
AcceptsAck_any(s, new_abs_ackno) == new_abs_ackno > s.abs_ackno

(* Is the ackno new, and for something that was sent?                      *)
AcceptsAck(s, new_abs_ackno) ==
    new_abs_ackno > s.abs_ackno /\ new_abs_ackno <= s.next_seqno

(* The window is taken from every ACK.                                     *)
UpdateWindow(s, win) == [s EXCEPT !.window_size = win]

(* Mutant: one segment too many is erased when the ACK ends inside it.     *)
TakeAck_partial(s, new_abs_ackno) ==
    LET k == Cardinality({i \in 1 .. Len(s.outstanding) :
                              s.outstanding[i].seqno < new_abs_ackno})
    IN  [s EXCEPT
            !.abs_ackno = new_abs_ackno,
            !.outstanding = SubSeq(@, k + 1, Len(@)),
            !.timer = start(rt_timeout),
            !.n_consec = 0]

(* An accepted ACK, up to the call of fill_window().                       *)
TakeAck(s, new_abs_ackno) ==
    LET k == AckedPrefix(s.outstanding, new_abs_ackno)
    IN  [s EXCEPT
            !.abs_ackno = new_abs_ackno,
            !.outstanding = SubSeq(@, k + 1, Len(@)),
            !.timer = IF k > 0 THEN start(rt_timeout) ELSE @,
            !.n_consec = 0]

-----------------------------------------------------------------------------
(* Mutant: no retransmission into a closed window.                         *)
tick_no_probe(s, ms) ==
    LET timer == Elapse(s.timer, ms)
    IN  IF expired(timer) /\ s.outstanding # <<>> /\ s.window_size > 0
        THEN [s EXCEPT
                !.segments_out = Append(@, Head(s.outstanding).segment),
                !.n_consec = @ + 1,
                !.timer = start(2 * timer.timeout)]
        ELSE [s EXCEPT !.timer = timer]

(* tick(): only a retransmission restarts the timer, and only a non-zero   *)
(* window backs it off.                                                    *)
tick(s, ms) ==
    LET timer   == Elapse(s.timer, ms)
        backoff == s.window_size > 0
    IN  IF expired(timer) /\ s.outstanding # <<>>
        THEN [s EXCEPT
                !.segments_out = Append(@, Head(s.outstanding).segment),
                !.n_consec = IF backoff THEN @ + 1 ELSE @,
                !.timer = start(IF backoff THEN 2 * timer.timeout ELSE timer.timeout)]
        ELSE [s EXCEPT !.timer = timer]

send_empty_segment(s) ==
    [s EXCEPT !.segments_out =
        Append(@, [DefaultSegment EXCEPT !.seqno = wrap(s.next_seqno, s.isn)])]
=============================================================================
