--------------------------- MODULE TCPSenderSpec ---------------------------
(***************************************************************************)
(* A TCPSender driven by its owner, the TCPConnection.  The owner opens    *)
(* the connection, writes, ends the input, passes on ACKs and the passage  *)
(* of time; it empties segments_out before it calls again.  One iteration  *)
(* of the loop of fill_window() is one step: while ctl = "fill" the call   *)
(* is in progress and nothing else happens.                                *)
(*                                                                         *)
(* ACKs are arbitrary: any ackno and any window, so stale, duplicated,     *)
(* reordered, partial and senseless ones are all among them.               *)
(***************************************************************************)
EXTENDS TCPSender

CONSTANTS
    Isn,            \* the initial sequence number
    MaxWritten,     \* bound: bytes written over the stream's life
    MaxWindow,      \* bound: largest window an ACK offers
    MaxMs           \* bound: most time one tick() reports

ASSUME SenderSpecAssumption ==
    /\ Isn \in WrappingInt32
    /\ MaxWritten \in Nat
    /\ MaxWindow \in Nat
    /\ MaxWindow < U16
    /\ MaxMs \in Nat

VARIABLES
    s,      \* the TCPSender
    ctl     \* "idle", or "fill" while fill_window() runs

vars == <<s, ctl>>

Byte == Nat
Segment ==
    [seqno : Nat, syn : BOOLEAN, fin : BOOLEAN, payload : Seq(Byte),
     ack : BOOLEAN, ackno : Nat, win : Nat, rst : BOOLEAN]
Sender ==
    [isn : WrappingInt32, segments_out : Seq(Segment), stream : Stream(Byte),
     next_seqno : Nat, abs_ackno : Nat, window_size : 0 .. U16 - 1,
     outstanding : Seq([seqno : Nat, segment : Segment]),
     timer : [time_elapsed : Nat, timeout : Nat], n_consec : Nat]

Init == s = NewSender(Isn) /\ ctl = "idle"

(* The connection gives up after MAX_RETX_ATTEMPTS retransmissions in a    *)
(* row (tcp_connection.cc:163) and does not use its sender any more.       *)
Ready == ctl = "idle" /\ s.segments_out = <<>> /\ s.n_consec <= MAX_RETX_ATTEMPTS

(* The next k bytes of the stream; a byte is its position.                 *)
Fresh(k) == [i \in 1 .. k |-> bytes_written(s.stream) + i - 1]

(* connect(): the owner calls fill_window().                               *)
FillWindow ==
    /\ Ready
    /\ ctl' = "fill"
    /\ UNCHANGED s

(* write(): only with the SYN sent and the input not ended.                *)
Write(k) ==
    /\ Ready
    /\ s.next_seqno > 0 /\ ~input_ended(s.stream)
    /\ bytes_written(s.stream) + k <= MaxWritten
    /\ s' = [s EXCEPT !.stream = write(@, Fresh(k), send_capacity)]
    /\ ctl' = "fill"

EndInput ==
    /\ Ready
    /\ s' = [s EXCEPT !.stream = end_input(@)]
    /\ ctl' = "fill"

(* ack_received(): returns early for an ackno that is not new or not sent. *)
AckReceived(ackno, win) ==
    LET new_abs_ackno == unwrap(ackno, s.isn, s.abs_ackno)
        s1            == UpdateWindow(s, win)
    IN  /\ Ready
        /\ \/ /\ AcceptsAck(s, new_abs_ackno)
              /\ s' = TakeAck(s1, new_abs_ackno)
              /\ ctl' = "fill"
           \/ /\ ~AcceptsAck(s, new_abs_ackno)
              /\ s' = s1
              /\ UNCHANGED ctl

Tick(ms) == Ready /\ s' = tick(s, ms) /\ UNCHANGED ctl

(* The connection asks for an empty segment when it owes an ACK and has    *)
(* nothing else to send.                                                   *)
SendEmpty == Ready /\ s' = send_empty_segment(s) /\ UNCHANGED ctl

FillStep ==
    /\ ctl = "fill" /\ ~FillDone(s)
    /\ s' = SendNext(s)
    /\ UNCHANGED ctl

FillReturn ==
    /\ ctl = "fill" /\ FillDone(s)
    /\ ctl' = "idle"
    /\ UNCHANGED s

(* send_segments(): the owner takes everything out of segments_out.        *)
Drain ==
    /\ ctl = "idle" /\ s.segments_out # <<>>
    /\ s' = [s EXCEPT !.segments_out = <<>>]
    /\ UNCHANGED ctl

Next ==
    \/ FillWindow
    \/ \E k \in 1 .. MaxWritten : Write(k)
    \/ EndInput
    \/ \E ackno \in WrappingInt32, win \in 0 .. MaxWindow : AckReceived(ackno, win)
    \/ \E ms \in 1 .. MaxMs : Tick(ms)
    \/ SendEmpty
    \/ FillStep
    \/ FillReturn
    \/ Drain

Spec == Init /\ [][Next]_vars

(* A call that started returns, what it queued is sent, and time passes:   *)
(* the event loop calls tick() once per iteration (tcp_sponge_socket.cc).  *)
Fairness ==
    /\ WF_vars(FillStep \/ FillReturn \/ Drain)
    /\ SF_vars(\E ms \in 1 .. MaxMs : Tick(ms))

FairSpec == Spec /\ Fairness

-----------------------------------------------------------------------------
(* Properties.                                                             *)

Last(o) == o.seqno + length_in_sequence_space(o.segment)

TypeOK == s \in Sender /\ ctl \in {"idle", "fill"}

(* _outstanding_segments is exactly the flight: consecutive non-empty      *)
(* segments without gap or overlap up to _next_seqno, the first of which   *)
(* is not yet fully acknowledged; and it is empty only when                *)
(* bytes_in_flight() is 0.  So every sequence number the peer may still    *)
(* miss is in a segment that tick() can resend (tcp_sender.cc:66,85-87).   *)
OutstandingCoversFlight ==
    LET out == s.outstanding
    IN  /\ \A i \in 1 .. Len(out) :
              /\ out[i].seqno < Last(out[i])
              /\ Last(out[i]) = IF i = Len(out) THEN s.next_seqno ELSE out[i + 1].seqno
        /\ out # <<>> => out[1].seqno <= s.abs_ackno /\ s.abs_ackno < Last(out[1])
        /\ out = <<>> => s.abs_ackno = s.next_seqno

(* The two ways of counting agree: _next_seqno runs one ahead of the bytes *)
(* taken from the stream (the SYN), two ahead once the FIN is sent, and    *)
(* that only after the whole stream; and what is left in the stream is the *)
(* bytes that follow, in order (tcp_sender.cc:29,53,67).                   *)
Accounting ==
    LET q == s.stream
    IN  /\ Len(q.buf) <= send_capacity
        /\ Len(q.buf) <= q.written
        /\ \A j \in 1 .. Len(q.buf) : q.buf[j] = bytes_read(q) + j - 1
        /\ s.abs_ackno <= s.next_seqno
        /\ s.next_seqno = 0 => bytes_read(q) = 0
        /\ s.next_seqno > 0 =>
              \/ s.next_seqno = bytes_read(q) + 1
              \/ s.next_seqno = bytes_read(q) + 2 /\ eof(q)

(* While anything is outstanding the retransmission timer is running: it   *)
(* has not expired, so a later tick() will find it expiring                *)
(* (tcp_sender.cc:70,90,114).                                              *)
TimerArmed == s.outstanding # <<>> => ~expired(s.timer)

(* A segment in flight carries exactly the bytes its sequence numbers      *)
(* stand for, the SYN is the number 0 and nothing else, and the FIN        *)
(* follows the last byte of an ended stream.                               *)
FlightContent ==
    \A i \in 1 .. Len(s.outstanding) :
        LET o     == s.outstanding[i]
            seg   == o.segment
            first == IF seg.syn THEN 0 ELSE o.seqno - 1
        IN  /\ seg.seqno = wrap(o.seqno, s.isn)
            /\ seg.syn <=> o.seqno = 0
            /\ \A j \in 1 .. Len(seg.payload) : seg.payload[j] = first + j - 1
            /\ seg.fin => eof(s.stream) /\ Last(o) = bytes_written(s.stream) + 2

(* Everything handed to the connection is empty or is in flight.           *)
SendsOnlyFlight ==
    \A i \in 1 .. Len(s.segments_out) :
        \/ length_in_sequence_space(s.segments_out[i]) = 0
        \/ \E j \in 1 .. Len(s.outstanding) : s.outstanding[j].segment = s.segments_out[i]

(* The sender never waits with work to do and nothing in flight: after a   *)
(* call returned, unsent bytes or an unsent FIN imply that a segment is    *)
(* outstanding, whose acknowledgment or timeout will wake the sender up.   *)
(* A pure window update does not call fill_window() (tcp_sender.cc:81-82), *)
(* which is only harmless because of this.                                 *)
Unsent ==
    \/ ~buffer_empty(s.stream)
    \/ input_ended(s.stream) /\ s.next_seqno < bytes_written(s.stream) + 2
NoStall == ctl = "idle" /\ s.next_seqno > 0 /\ Unsent => bytes_in_flight(s) > 0

(* What the peer offered: a zero window counts as one (tcp_sender.cc:38).  *)
WindowEnd == s.abs_ackno + (IF s.window_size = 0 THEN 1 ELSE s.window_size)

(* New bytes lie inside the window the peer offered last.                  *)
DataWithinWindow ==
    [][s'.next_seqno > s.next_seqno =>
        s.next_seqno + Bit(NextSegment(s).syn) + Len(NextSegment(s).payload) <= WindowEnd]_vars

(* "Don't add FIN if this would make the segment exceed the receiver's     *)
(* window" (tests/send_extra.cc:236), "include the FIN flag if it fits"    *)
(* (tcp_sender.cc:56).                                                     *)
FinWithinWindow ==
    [][s'.next_seqno > s.next_seqno =>
        s.next_seqno + length_in_sequence_space(NextSegment(s)) <= WindowEnd]_vars

(* Whatever is outstanding is acknowledged further or sent again, or the   *)
(* sender has given up: no ACK, window update or idle period can keep the  *)
(* timer from firing.                                                      *)
Resends == s.outstanding # <<>> /\ \E i \in 1 .. Len(s.segments_out) :
               s.segments_out[i] = Head(s.outstanding).segment
RetransmitsOrProgresses ==
    \A a \in 0 .. MaxWritten + 2 :
        (s.outstanding # <<>> /\ s.abs_ackno = a)
            ~> (s.abs_ackno > a \/ (ctl = "idle" /\ Resends) \/ s.n_consec > MAX_RETX_ATTEMPTS)

(* The invariants together; with the timeout positive they are inductive.  *)
IInv ==
    /\ TypeOK
    /\ s.timer.timeout > 0
    /\ Accounting
    /\ OutstandingCoversFlight
    /\ TimerArmed
    /\ FlightContent
    /\ SendsOnlyFlight
    /\ NoStall
=============================================================================
