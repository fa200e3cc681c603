-------------------------- MODULE TCPSenderProofs --------------------------
(***************************************************************************)
(* TCPSenderSpec proved for every value of its constants.                  *)
(*                                                                         *)
(* None of the sender's invariants is inductive alone.  That the           *)
(* outstanding segments cover the flight needs the accounting of           *)
(* _next_seqno (a new segment starts where the last one ends), its content *)
(* needs the accounting of the stream, NoStall needs that a FIN or a byte  *)
(* which is left always finds room while nothing is in flight, and         *)
(* TimerArmed needs a positive timeout.  IInv is their conjunction.  The   *)
(* module first states what the operators of TCPSender do, then that each  *)
(* action preserves IInv, and last the theorems.                           *)
(***************************************************************************)
EXTENDS TCPSenderSpec, CommonProofs, SequenceTheorems, WellFoundedInduction

USE SMTT(30)

(***************************************************************************)
(* Facts about the operators.                                              *)
(***************************************************************************)

(* The assumptions on the constants, in one place.                         *)
LEMMA Constants ==
    /\ Wrap \in Nat \ {0} /\ Wraps \in Nat \ {0} /\ U64 \in Nat \ {0}
    /\ U16 \in Nat \ {0, 1} /\ MAX_PAYLOAD_SIZE \in Nat \ {0}
    /\ rt_timeout \in Nat \ {0} /\ send_capacity \in Nat \ {0}
    /\ Isn \in WrappingInt32 /\ MaxWritten \in Nat /\ MaxWindow \in Nat /\ MaxWindow < U16
    /\ MaxMs \in Nat
BY WrapAssumption, SenderAssumption, SenderSpecAssumption, ModU64, 0 \in Int

(* wrap() and unwrap() return natural numbers.                             *)
LEMMA WrapNat ==
    ASSUME NEW n \in Nat, NEW i \in WrappingInt32
    PROVE  wrap(n, i) \in Nat
<1>1. n + i \in Int
  BY Constants DEF WrappingInt32
<1>2. (n + i) % U64 \in Int
  BY <1>1, Constants, DivMod
<1>3. ((n + i) % U64) % Wrap \in 0 .. Wrap - 1
  BY Zenon, <1>2, Constants, DivMod
<1> QED
  BY <1>3, Constants DEF wrap

(* unwrap() returns a natural number.                                      *)
LEMMA UnwrapNat ==
    ASSUME NEW n \in WrappingInt32, NEW i \in WrappingInt32, NEW c \in Nat
    PROVE  unwrap(n, i, c) \in Nat
<1> DEFINE q == c \div Wrap
           a == Offset(n, i) + q * Wrap
           w == (q + (IF a < c THEN 1 ELSE -1)) % U64
           b == (Offset(n, i) + w * Wrap) % U64
<1>1. Offset(n, i) \in Nat
  BY OffsetType, Constants
<1>2. q \in Nat
  <2>1. q \in Int /\ c % Wrap \in 0 .. Wrap - 1 /\ c = Wrap * q + (c % Wrap)
    BY Constants, DivMod
  <2> HIDE DEF q
  <2>2. ASSUME q <= -1 PROVE FALSE
    <3>1. q * Wrap <= (-1) * Wrap
      BY <2>1, <2>2, Constants, MulMono
    <3> QED
      BY <3>1, <2>1, Constants
  <2> QED
    BY <2>1, <2>2
<1> HIDE DEF q
<1>3. a \in Nat
  BY <1>1, <1>2, Constants
<1> HIDE DEF a
<1>4. w \in Nat
  BY <1>2, Constants, DivMod, q + (IF a < c THEN 1 ELSE -1) \in Int
<1> HIDE DEF w
<1>5. b \in Nat
  BY <1>1, <1>4, Constants, DivMod, Offset(n, i) + w * Wrap \in Int
<1> QED
  BY <1>3, <1>5 DEF unwrap, a, b, q, w

(* A write is cut to the room that is left.                                *)
LEMMA MinRoom ==
    ASSUME NEW len \in Nat, NEW size \in Nat, NEW cap \in Nat, size <= cap
    PROVE  MinOf(len, cap - size) \in 0 .. len /\ size + MinOf(len, cap - size) <= cap
BY DEF MinOf

(* Dropping the first k elements of a sequence.                            *)
LEMMA SuffixFacts ==
    ASSUME NEW S, NEW q \in Seq(S), NEW k \in 0 .. Len(q)
    PROVE  /\ SubSeq(q, k + 1, Len(q)) \in Seq(S)
           /\ Len(SubSeq(q, k + 1, Len(q))) = Len(q) - k
           /\ \A i \in 1 .. Len(q) - k : SubSeq(q, k + 1, Len(q))[i] = q[k + i]
OBVIOUS

(* What a read takes from a stream and what it leaves.                     *)
LEMMA ReadFacts ==
    ASSUME NEW q \in Stream(Nat), NEW len \in Nat
    PROVE  /\ peek_output(q, len) \in Seq(Nat)
           /\ Len(peek_output(q, len)) = MinOf(len, Len(q.buf))
           /\ \A j \in 1 .. Len(peek_output(q, len)) : peek_output(q, len)[j] = q.buf[j]
           /\ after_read(q, len) \in Stream(Nat)
           /\ after_read(q, len).written = q.written
           /\ after_read(q, len).ended = q.ended
           /\ Len(after_read(q, len).buf) = Len(q.buf) - Len(peek_output(q, len))
           /\ \A j \in 1 .. Len(after_read(q, len).buf) :
                 after_read(q, len).buf[j] = q.buf[j + Len(peek_output(q, len))]
<1> DEFINE m == MinOf(len, Len(q.buf))
<1>1. q.buf \in Seq(Nat) /\ Len(q.buf) \in Nat
  BY DEF Stream
<1>2. m \in 0 .. Len(q.buf)
  BY <1>1 DEF MinOf
<1> HIDE DEF m
<1>3. /\ SubSeq(q.buf, 1, m) \in Seq(Nat)
      /\ Len(SubSeq(q.buf, 1, m)) = m
      /\ \A j \in 1 .. m : SubSeq(q.buf, 1, m)[j] = q.buf[j]
  BY <1>1, <1>2
<1>4. /\ SubSeq(q.buf, m + 1, Len(q.buf)) \in Seq(Nat)
      /\ Len(SubSeq(q.buf, m + 1, Len(q.buf))) = Len(q.buf) - m
      /\ \A j \in 1 .. Len(q.buf) - m : SubSeq(q.buf, m + 1, Len(q.buf))[j] = q.buf[j + m]
  BY <1>1, <1>2
<1>5. peek_output(q, len) = SubSeq(q.buf, 1, m)
  BY DEF peek_output, m
<1>6. after_read(q, len) = [q EXCEPT !.buf = SubSeq(q.buf, m + 1, Len(q.buf))]
  BY Zenon, <1>3, <1>5 DEF after_read, pop_output
<1> QED
  BY Zenon, <1>3, <1>4, <1>5, <1>6 DEF Stream, m

(* What a write adds to a stream.                                          *)
LEMMA WriteFacts ==
    ASSUME NEW q \in Stream(Nat), NEW data \in Seq(Nat), NEW cap \in Nat, Len(q.buf) <= cap
    PROVE  LET n == MinOf(Len(data), cap - Len(q.buf))
           IN  /\ n \in Nat
               /\ write(q, data, cap) \in Stream(Nat)
               /\ write(q, data, cap).written = q.written + n
               /\ write(q, data, cap).ended = q.ended
               /\ Len(write(q, data, cap).buf) = Len(q.buf) + n
               /\ Len(q.buf) + n <= cap
               /\ \A j \in 1 .. Len(q.buf) + n : write(q, data, cap).buf[j] =
                     IF j <= Len(q.buf) THEN q.buf[j] ELSE data[j - Len(q.buf)]
<1> DEFINE n == MinOf(Len(data), cap - Len(q.buf))
<1>1. q.buf \in Seq(Nat) /\ Len(q.buf) \in Nat /\ q.written \in Nat /\ Len(data) \in Nat
  BY DEF Stream
<1>2. n \in 0 .. Len(data) /\ Len(q.buf) + n <= cap
  BY Zenon, <1>1, MinRoom
<1>3. write(q, data, cap) = [q EXCEPT !.buf = q.buf \o SubSeq(data, 1, n), !.written = q.written + n]
  BY DEF write, remaining_capacity
<1> HIDE DEF n
<1>4. /\ SubSeq(data, 1, n) \in Seq(Nat) /\ Len(SubSeq(data, 1, n)) = n
      /\ \A j \in 1 .. n : SubSeq(data, 1, n)[j] = data[j]
  BY <1>2
<1>5. /\ q.buf \o SubSeq(data, 1, n) \in Seq(Nat)
      /\ Len(q.buf \o SubSeq(data, 1, n)) = Len(q.buf) + n
      /\ \A j \in 1 .. Len(q.buf) + n : (q.buf \o SubSeq(data, 1, n))[j] =
            IF j <= Len(q.buf) THEN q.buf[j] ELSE data[j - Len(q.buf)]
  <2> DEFINE b == q.buf
             d == SubSeq(data, 1, n)
  <2>1. b \in Seq(Nat) /\ Len(b) \in Nat /\ d \in Seq(Nat) /\ Len(d) = n /\ n \in Nat
    BY <1>1, <1>2, <1>4
  <2>2. \A j \in 1 .. n : d[j] = data[j]
    BY <1>4
  <2> HIDE DEF b, d
  <2>3. b \o d \in Seq(Nat) /\ Len(b \o d) = Len(b) + n
    BY Zenon, <2>1, ConcatProperties
  <2>4. ASSUME NEW j \in 1 .. Len(b) + n
        PROVE  (b \o d)[j] = IF j <= Len(b) THEN b[j] ELSE data[j - Len(b)]
    <3>1. (b \o d)[j] = IF j <= Len(b) THEN b[j] ELSE d[j - Len(b)]
      BY <2>1, ConcatProperties
    <3>2. CASE j <= Len(b)
      BY <3>1, <3>2
    <3>3. CASE j > Len(b)
      <4>1. j - Len(b) \in 1 .. n
        BY <3>3, <2>1
      <4> QED
        BY <4>1, <3>1, <3>3, <2>1, <2>2
    <3> QED
      BY <3>2, <3>3, <2>1
  <2> QED
    BY SMTT(30), <2>3, <2>4 DEF b, d
<1>6. /\ write(q, data, cap) \in Stream(Nat)
      /\ write(q, data, cap).buf = q.buf \o SubSeq(data, 1, n)
      /\ write(q, data, cap).written = q.written + n
      /\ write(q, data, cap).ended = q.ended
  <2> DEFINE b == q.buf \o SubSeq(data, 1, n)
             w == q.written + n
  <2>1. /\ b \in Seq(Nat)
        /\ w \in Nat
        /\ write(q, data, cap) = [q EXCEPT !.buf = b, !.written = w]
    <3>1. b \in Seq(Nat)
      BY <1>5
    <3>2. w \in Nat
      BY <1>1, <1>2
    <3>3. write(q, data, cap) = [q EXCEPT !.buf = b, !.written = w]
      BY <1>3
    <3> QED
      BY <3>1, <3>2, <3>3
  <2> HIDE DEF b, w
  <2>2. /\ write(q, data, cap) \in Stream(Nat)
        /\ write(q, data, cap).buf = b
        /\ write(q, data, cap).written = w
        /\ write(q, data, cap).ended = q.ended
    BY Zenon, <2>1 DEF Stream
  <2> QED
    BY <2>2 DEF b, w
<1> QED
  BY SMTT(30), <1>1, <1>2, <1>5, <1>6 DEF n

(* The fields of a sender have their types.                                *)
LEMMA SenderFields ==
    ASSUME NEW t \in Sender
    PROVE  /\ t.isn \in WrappingInt32 /\ t.segments_out \in Seq(Segment)
           /\ t.stream \in Stream(Nat) /\ t.next_seqno \in Nat /\ t.abs_ackno \in Nat
           /\ t.window_size \in 0 .. U16 - 1 /\ t.window_size \in Nat
           /\ t.outstanding \in Seq([seqno : Nat, segment : Segment])
           /\ t.timer \in [time_elapsed : Nat, timeout : Nat] /\ t.n_consec \in Nat
           /\ t.stream.buf \in Seq(Nat) /\ t.stream.written \in Nat
           /\ t.stream.ended \in BOOLEAN /\ Len(t.stream.buf) \in Nat
           /\ Len(t.outstanding) \in Nat /\ Len(t.segments_out) \in Nat
BY Constants DEF Sender, Stream, Byte

(* n_bytes_to_send as first computed: uint16_t, and exactly the unused     *)
(* part of the window when the loop's condition holds.                     *)
LEMMA RoomFacts ==
    ASSUME NEW t \in Sender
    PROVE  /\ Room(t) \in Nat
           /\ /\ t.abs_ackno <= t.next_seqno
              /\ t.next_seqno <= t.abs_ackno + t.window_size
              => Room(t) = IF t.window_size = 0 /\ t.next_seqno = t.abs_ackno
                           THEN 1
                           ELSE t.abs_ackno + t.window_size - t.next_seqno
<1> DEFINE x == t.window_size - (t.next_seqno - t.abs_ackno)
<1>1. /\ t.next_seqno \in Nat /\ t.abs_ackno \in Nat /\ t.window_size \in 0 .. U16 - 1
      /\ U16 \in Nat \ {0} /\ x \in Int
  BY SenderFields, Constants
<1>2. x % U16 \in Nat
  <2>1. x % U16 \in 0 .. U16 - 1
    BY <1>1, DivMod
  <2> QED
    BY <2>1, <1>1
<1>3. x \in 0 .. U16 - 1 => x % U16 = x
  <2> HIDE DEF x
  <2>1. ASSUME x \in 0 .. U16 - 1 PROVE x % U16 = x
    <3>1. x = 0 * U16 + x
      BY <1>1
    <3> QED
      BY <3>1, <2>1, <1>1, ModUnique, 0 \in Int
  <2> QED
    BY <2>1
<1>4. Room(t) = IF t.window_size = 0 /\ t.next_seqno - t.abs_ackno = 0 THEN 1 ELSE x % U16
  BY DEF Room, bytes_in_flight
<1>5. Room(t) \in Nat
  BY <1>2, <1>4
<1>6. ASSUME t.abs_ackno <= t.next_seqno, t.next_seqno <= t.abs_ackno + t.window_size
      PROVE  Room(t) = IF t.window_size = 0 /\ t.next_seqno = t.abs_ackno
                       THEN 1
                       ELSE t.abs_ackno + t.window_size - t.next_seqno
  <2>1. x \in 0 .. U16 - 1
    BY <1>1, <1>6
  <2>2. x % U16 = t.abs_ackno + t.window_size - t.next_seqno
    BY <2>1, <1>1, <1>3
  <2>3. t.next_seqno - t.abs_ackno = 0 <=> t.next_seqno = t.abs_ackno
    <3>1. \A m, n \in Nat : m - n = 0 <=> m = n
      OBVIOUS
    <3> QED
      BY SMTT(30), <3>1, <1>1
  <2> QED
    BY <2>2, <2>3, <1>4
<1> QED
  BY <1>5, <1>6

(* The segment an iteration of fill_window() builds.                       *)
LEMMA SegmentFacts ==
    ASSUME NEW t \in Sender
    PROVE  /\ PayloadLimit(t) \in Nat
           /\ PayloadLimit(t) + Bit(SendsSyn(t)) <= Room(t)
           /\ NextSegment(t) \in Segment
           /\ NextSegment(t).seqno = wrap(t.next_seqno, t.isn)
           /\ NextSegment(t).syn = SendsSyn(t)
           /\ NextSegment(t).fin = SendsFin(t)
           /\ NextSegment(t).payload = peek_output(t.stream, PayloadLimit(t))
           /\ Len(NextSegment(t).payload) \in Nat
           /\ Len(NextSegment(t).payload) = MinOf(PayloadLimit(t), Len(t.stream.buf))
           /\ Len(NextSegment(t).payload) <= PayloadLimit(t)
           /\ length_in_sequence_space(NextSegment(t)) =
                 Len(NextSegment(t).payload) + Bit(SendsSyn(t)) + Bit(SendsFin(t))
           /\ length_in_sequence_space(NextSegment(t)) \in Nat
<1>1. Room(t) \in Nat /\ t.stream \in Stream(Nat) /\ t.isn \in WrappingInt32 /\ t.next_seqno \in Nat
      /\ MAX_PAYLOAD_SIZE \in Nat /\ Len(t.stream.buf) \in Nat
  BY RoomFacts, SenderFields, Constants
<1>2. SendsSyn(t) \in BOOLEAN /\ SendsFin(t) \in BOOLEAN
  BY DEF SendsSyn, SendsFin
<1>3. PayloadLimit(t) \in Nat /\ PayloadLimit(t) + Bit(SendsSyn(t)) <= Room(t)
  BY <1>1 DEF PayloadLimit, SendsSyn, Bit, MinOf
<1> DEFINE p == peek_output(t.stream, PayloadLimit(t))
<1>4. p \in Seq(Nat) /\ Len(p) = MinOf(PayloadLimit(t), Len(t.stream.buf)) /\ Len(p) \in Nat
  BY <1>1, <1>3, ReadFacts
<1>5. Len(p) <= PayloadLimit(t)
  BY <1>1, <1>3, <1>4 DEF MinOf
<1> HIDE DEF p
<1>6. NextSegment(t) = [seqno |-> wrap(t.next_seqno, t.isn), syn |-> SendsSyn(t),
                        fin |-> SendsFin(t), payload |-> p,
                        ack |-> FALSE, ackno |-> 0, win |-> 0, rst |-> FALSE]
  <2> DEFINE n == wrap(t.next_seqno, t.isn)
             y == SendsSyn(t)
             f == SendsFin(t)
  <2>1. NextSegment(t) = [DefaultSegment EXCEPT !.seqno = n, !.syn = y, !.fin = f, !.payload = p]
    BY DEF NextSegment, p
  <2> HIDE DEF n, y, f
  <2>2. NextSegment(t) = [seqno |-> n, syn |-> y, fin |-> f, payload |-> p,
                          ack |-> FALSE, ackno |-> 0, win |-> 0, rst |-> FALSE]
    BY Zenon, <2>1 DEF DefaultSegment
  <2> QED
    BY <2>2 DEF n, y, f
<1>7. wrap(t.next_seqno, t.isn) \in Nat
  BY SMTT(30), <1>1, WrapNat
<1>8. /\ NextSegment(t) \in Segment
      /\ NextSegment(t).seqno = wrap(t.next_seqno, t.isn)
      /\ NextSegment(t).syn = SendsSyn(t)
      /\ NextSegment(t).fin = SendsFin(t)
      /\ NextSegment(t).payload = p
  BY <1>2, <1>4, <1>6, <1>7 DEF Segment, Byte
<1>9. length_in_sequence_space(NextSegment(t)) = Len(p) + Bit(SendsSyn(t)) + Bit(SendsFin(t))
  BY <1>8 DEF length_in_sequence_space
<1>10. length_in_sequence_space(NextSegment(t)) \in Nat
  BY <1>4, <1>9 DEF Bit
<1> QED
  BY <1>3, <1>4, <1>5, <1>8, <1>9, <1>10 DEF p

(* An iteration of fill_window() that sends, field by field.               *)
LEMMA SendNextFacts ==
    ASSUME NEW t \in Sender
    PROVE  LET seg == NextSegment(t)
               o   == [seqno |-> t.next_seqno, segment |-> seg]
               u   == SendNext(t)
           IN  /\ u \in Sender
               /\ o \in [seqno : Nat, segment : Segment]
               /\ u.isn = t.isn /\ u.abs_ackno = t.abs_ackno
               /\ u.window_size = t.window_size /\ u.n_consec = t.n_consec
               /\ u.stream = after_read(t.stream, PayloadLimit(t))
               /\ u.segments_out = Append(t.segments_out, seg)
               /\ u.outstanding = Append(t.outstanding, o)
               /\ u.next_seqno = t.next_seqno + length_in_sequence_space(seg)
               /\ u.timer = IF expired(t.timer) THEN start(rt_timeout) ELSE t.timer
<1> DEFINE seg == NextSegment(t)
           o   == [seqno |-> t.next_seqno, segment |-> seg]
           q   == after_read(t.stream, PayloadLimit(t))
           so  == Append(t.segments_out, seg)
           out == Append(t.outstanding, o)
           n   == t.next_seqno + length_in_sequence_space(seg)
           tm  == IF expired(t.timer) THEN start(rt_timeout) ELSE t.timer
<1>1. seg \in Segment /\ length_in_sequence_space(seg) \in Nat
  BY SegmentFacts
<1>2. o \in [seqno : Nat, segment : Segment]
  BY <1>1, SenderFields
<1>3. q \in Stream(Nat)
  BY SenderFields, SegmentFacts, ReadFacts
<1>4. so \in Seq(Segment) /\ out \in Seq([seqno : Nat, segment : Segment])
  BY Zenon, <1>1, <1>2, SenderFields, AppendProperties
<1>5. n \in Nat
  BY <1>1, SenderFields
<1>6. tm \in [time_elapsed : Nat, timeout : Nat]
  BY SenderFields, Constants DEF start
<1>7. SendNext(t) = [t EXCEPT !.stream = q, !.segments_out = so, !.outstanding = out,
                              !.next_seqno = n, !.timer = tm]
  BY DEF SendNext
<1> HIDE DEF seg, o, q, so, out, n, tm
<1>8. /\ SendNext(t) \in Sender
      /\ SendNext(t).isn = t.isn /\ SendNext(t).abs_ackno = t.abs_ackno
      /\ SendNext(t).window_size = t.window_size /\ SendNext(t).n_consec = t.n_consec
      /\ SendNext(t).stream = q /\ SendNext(t).segments_out = so
      /\ SendNext(t).outstanding = out /\ SendNext(t).next_seqno = n
      /\ SendNext(t).timer = tm
  BY Zenon, <1>3, <1>4, <1>5, <1>6, <1>7 DEF Sender, Byte
<1> QED
  BY <1>2, <1>8 DEF seg, o, q, so, out, n, tm

(* Erasing stops at the first segment that is not fully acknowledged.      *)
LEMMA AckedPrefixFacts ==
    ASSUME NEW out \in Seq([seqno : Nat, segment : Segment]), NEW a \in Nat
    PROVE  LET k == AckedPrefix(out, a)
           IN  /\ k \in 0 .. Len(out)
               /\ \A i \in 1 .. k : FullyAcked(out[i], a)
               /\ k < Len(out) => ~FullyAcked(out[k + 1], a)
<1> DEFINE Good(k) == /\ \A i \in 1 .. k : FullyAcked(out[i], a)
                      /\ k < Len(out) => ~FullyAcked(out[k + 1], a)
           Z == {j \in 1 .. Len(out) : ~FullyAcked(out[j], a)}
<1>1. Len(out) \in Nat
  OBVIOUS
<1>2. \E k \in 0 .. Len(out) : Good(k)
  <2>1. CASE Z = {}
    <3>1. Len(out) \in 0 .. Len(out) /\ Good(Len(out))
      BY <2>1, <1>1
    <3> QED
      BY <3>1
  <2>2. CASE Z # {}
    <3>1. Z \subseteq Nat
      BY <1>1
    <3>2. PICK m \in Z : \A j \in Z : ~(<<j, m>> \in OpToRel(<, Nat))
      BY Zenon, <2>2, <3>1, WFMin, NatLessThanWellFounded
    <3>3. \A j \in Z : m <= j
      <4>1. SUFFICES ASSUME NEW j \in Z, ~(m <= j) PROVE FALSE
        OBVIOUS
      <4>2. j \in Nat /\ m \in Nat
        BY <3>1
      <4>3. j < m
        BY <4>1, <4>2
      <4>4. <<j, m>> \in OpToRel(<, Nat)
        BY <4>2, <4>3 DEF OpToRel
      <4> QED
        BY Zenon, <4>4, <3>2
    <3>4. m - 1 \in 0 .. Len(out) /\ Good(m - 1)
      BY <3>3, <1>1
    <3> QED
      BY Zenon, <3>4
  <2> QED
    BY <2>1, <2>2
<1>3. AckedPrefix(out, a) = CHOOSE k \in 0 .. Len(out) : Good(k)
  BY DEF AckedPrefix
<1> HIDE DEF Good
<1>4. AckedPrefix(out, a) \in 0 .. Len(out) /\ Good(AckedPrefix(out, a))
  BY <1>2, <1>3
<1> QED
  BY <1>4 DEF Good

(* An accepted ACK, field by field.                                        *)
LEMMA TakeAckFacts ==
    ASSUME NEW t \in Sender, NEW a \in Nat, NEW win \in 0 .. U16 - 1
    PROVE  LET k == AckedPrefix(t.outstanding, a)
               u == TakeAck(UpdateWindow(t, win), a)
           IN  /\ u \in Sender
               /\ u.isn = t.isn /\ u.stream = t.stream /\ u.segments_out = t.segments_out
               /\ u.next_seqno = t.next_seqno /\ u.abs_ackno = a
               /\ u.outstanding = SubSeq(t.outstanding, k + 1, Len(t.outstanding))
               /\ u.timer = IF k > 0 THEN start(rt_timeout) ELSE t.timer
<1> DEFINE k   == AckedPrefix(t.outstanding, a)
           out == SubSeq(t.outstanding, k + 1, Len(t.outstanding))
           tm  == IF k > 0 THEN start(rt_timeout) ELSE t.timer
           v   == UpdateWindow(t, win)
<1>1. k \in 0 .. Len(t.outstanding)
  BY Zenon, SenderFields, AckedPrefixFacts
<1>2. out \in Seq([seqno : Nat, segment : Segment])
  BY Zenon, <1>1, SenderFields, SuffixFacts
<1>3. tm \in [time_elapsed : Nat, timeout : Nat]
  BY SenderFields, Constants DEF start
<1>4. /\ v \in Sender /\ v = [t EXCEPT !.window_size = win]
      /\ v.outstanding = t.outstanding /\ v.timer = t.timer /\ v.isn = t.isn
      /\ v.stream = t.stream /\ v.segments_out = t.segments_out
      /\ v.next_seqno = t.next_seqno
  BY DEF UpdateWindow, Sender
<1>5. TakeAck(v, a) = [v EXCEPT !.abs_ackno = a, !.outstanding = out, !.timer = tm, !.n_consec = 0]
  BY <1>4 DEF TakeAck
<1> HIDE DEF k, out, tm, v
<1>6. v \in Sender
  BY <1>4
<1>7. TakeAck(v, a) \in Sender
  <2>1. [v EXCEPT !.abs_ackno = a, !.outstanding = out, !.timer = tm, !.n_consec = 0] \in Sender
    BY Zenon, <1>2, <1>3, <1>6 DEF Sender
  <2> QED
    BY <2>1, <1>5
<1>8. /\ TakeAck(v, a).isn = v.isn /\ TakeAck(v, a).stream = v.stream
      /\ TakeAck(v, a).segments_out = v.segments_out
      /\ TakeAck(v, a).next_seqno = v.next_seqno /\ TakeAck(v, a).abs_ackno = a
      /\ TakeAck(v, a).outstanding = out /\ TakeAck(v, a).timer = tm
  BY <1>5, <1>6 DEF Sender
<1> QED
  BY <1>4, <1>7, <1>8 DEF k, out, tm, v

(* tick(): nothing but segments_out, the timer and the count changes, and  *)
(* the timer is expired afterwards only if nothing is outstanding.         *)
LEMMA TickFacts ==
    ASSUME NEW t \in Sender, NEW ms \in Nat
    PROVE  LET u == tick(t, ms)
           IN  /\ u \in Sender
               /\ u.isn = t.isn /\ u.stream = t.stream /\ u.window_size = t.window_size
               /\ u.next_seqno = t.next_seqno /\ u.abs_ackno = t.abs_ackno
               /\ u.outstanding = t.outstanding
               /\ \/ u.segments_out = t.segments_out
                  \/ /\ t.outstanding # <<>>
                     /\ u.segments_out = Append(t.segments_out, Head(t.outstanding).segment)
               /\ t.timer.timeout > 0 =>
                     u.timer.timeout > 0 /\ (t.outstanding # <<>> => ~expired(u.timer))
<1> DEFINE tm == Elapse(t.timer, ms)
           nc == IF t.window_size > 0 THEN t.n_consec + 1 ELSE t.n_consec
           to == IF t.window_size > 0 THEN 2 * tm.timeout ELSE tm.timeout
           so == Append(t.segments_out, Head(t.outstanding).segment)
           x  == expired(tm) /\ t.outstanding # <<>>
<1>1. /\ tm \in [time_elapsed : Nat, timeout : Nat] /\ tm.timeout = t.timer.timeout
  BY SenderFields DEF Elapse, MinOf
<1>2. nc \in Nat /\ to \in Nat /\ (t.timer.timeout > 0 => to > 0)
  BY <1>1, SenderFields
<1>3. t.outstanding # <<>> => so \in Seq(Segment)
  <2>1. ASSUME t.outstanding # <<>> PROVE so \in Seq(Segment)
    <3>1. Head(t.outstanding) \in [seqno : Nat, segment : Segment]
      BY Zenon, <2>1, SenderFields, HeadTailProperties
    <3> QED
      BY <3>1, SenderFields, AppendProperties
  <2> QED
    BY <2>1
<1>4. tick(t, ms) = IF x
                    THEN [t EXCEPT !.segments_out = so, !.n_consec = nc, !.timer = start(to)]
                    ELSE [t EXCEPT !.timer = tm]
  BY DEF tick
<1>5. start(to) \in [time_elapsed : Nat, timeout : Nat] /\ start(to).timeout = to /\ start(to).time_elapsed = 0
  BY <1>2 DEF start
<1>6. x \in BOOLEAN /\ (x => t.outstanding # <<>>) /\ (~x /\ t.outstanding # <<>> => ~expired(tm))
  BY DEF expired
<1> HIDE DEF tm, nc, to, so, x
<1>7. CASE x
  <2>1. tick(t, ms) = [t EXCEPT !.segments_out = so, !.n_consec = nc, !.timer = start(to)]
    BY <1>4, <1>7
  <2>2. so \in Seq(Segment) /\ t.outstanding # <<>>
    BY <1>3, <1>6, <1>7
  <2> DEFINE r == start(to)
  <2>3. r \in [time_elapsed : Nat, timeout : Nat] /\ r.timeout = to /\ r.time_elapsed = 0
    BY <1>5
  <2> HIDE DEF r
  <2>4. /\ tick(t, ms) \in Sender
        /\ tick(t, ms).isn = t.isn /\ tick(t, ms).stream = t.stream
        /\ tick(t, ms).window_size = t.window_size /\ tick(t, ms).next_seqno = t.next_seqno
        /\ tick(t, ms).abs_ackno = t.abs_ackno /\ tick(t, ms).outstanding = t.outstanding
        /\ tick(t, ms).segments_out = so /\ tick(t, ms).timer = r
    BY Zenon, <2>1, <2>2, <2>3, <1>2 DEF Sender, r
  <2>5. t.timer.timeout > 0 => ~expired(r) /\ r.timeout > 0
    BY <2>3, <1>2 DEF expired
  <2> QED
    BY <2>2, <2>4, <2>5 DEF so
<1>8. CASE ~x
  <2>1. tick(t, ms) = [t EXCEPT !.timer = tm]
    BY <1>4, <1>8
  <2>2. /\ tick(t, ms) \in Sender
        /\ tick(t, ms).isn = t.isn /\ tick(t, ms).stream = t.stream
        /\ tick(t, ms).window_size = t.window_size /\ tick(t, ms).next_seqno = t.next_seqno
        /\ tick(t, ms).abs_ackno = t.abs_ackno /\ tick(t, ms).outstanding = t.outstanding
        /\ tick(t, ms).segments_out = t.segments_out /\ tick(t, ms).timer = tm
    BY Zenon, <2>1, <1>1 DEF Sender
  <2> QED
    BY <2>2, <1>1, <1>6, <1>8
<1> QED
  BY <1>6, <1>7, <1>8

(***************************************************************************)
(* The inductive invariant.                                                *)
(***************************************************************************)

(* A step that leaves the stream, the flight and its bounds alone keeps    *)
(* what is said about them.                                                *)
LEMMA FlightFrame ==
    ASSUME s'.isn = s.isn, s'.stream = s.stream, s'.next_seqno = s.next_seqno,
           s'.abs_ackno = s.abs_ackno, s'.outstanding = s.outstanding
    PROVE  /\ Accounting => Accounting'
           /\ OutstandingCoversFlight => OutstandingCoversFlight'
           /\ FlightContent => FlightContent'
BY DEF Accounting, OutstandingCoversFlight, FlightContent, bytes_read, bytes_written, eof,
       input_ended, buffer_empty, Last

(* NoStall, too, when no call starts.                                      *)
LEMMA StallFrame ==
    ASSUME s'.stream = s.stream, s'.next_seqno = s.next_seqno,
           s'.abs_ackno = s.abs_ackno, ctl' = ctl, NoStall
    PROVE  NoStall'
BY DEF NoStall, Unsent, bytes_in_flight, buffer_empty, input_ended, bytes_written

(* Initially nothing is in flight.                                         *)
LEMMA InitIInv == Init => IInv
<1> SUFFICES ASSUME Init PROVE IInv
  OBVIOUS
<1> USE DEF Init
<1>1. /\ s.stream = [buf |-> <<>>, written |-> 0, ended |-> FALSE, error |-> FALSE]
      /\ s.next_seqno = 0 /\ s.abs_ackno = 0 /\ s.outstanding = <<>> /\ s.segments_out = <<>>
      /\ s.timer = [time_elapsed |-> 0, timeout |-> rt_timeout] /\ s.window_size = 1
      /\ s.isn = Isn /\ s.n_consec = 0
  BY DEF NewSender, EmptyStream, start
<1>2. TypeOK
  <2>1. EmptyStream \in Stream(Byte) /\ start(rt_timeout) \in [time_elapsed : Nat, timeout : Nat]
    BY Constants DEF EmptyStream, Stream, start
  <2>2. 1 \in 0 .. U16 - 1
    BY Constants
  <2>3. NewSender(Isn) \in Sender
    BY <2>1, <2>2, Constants DEF NewSender, Sender
  <2> QED
    BY <2>3 DEF TypeOK
<1>3. Accounting
  BY <1>1, Constants DEF Accounting, bytes_read
<1>4. OutstandingCoversFlight /\ FlightContent /\ SendsOnlyFlight /\ TimerArmed
  BY <1>1 DEF OutstandingCoversFlight, FlightContent, SendsOnlyFlight, TimerArmed
<1>5. NoStall
  BY SMTT(30), <1>1 DEF NoStall
<1> QED
  BY <1>1, <1>2, <1>3, <1>4, <1>5, Constants DEF IInv

(* What an iteration of fill_window() that sends does to the numbers: the  *)
(* segment is not empty, it starts at _next_seqno, which was one ahead of  *)
(* the bytes read (or zero, and then the segment has the SYN).             *)
LEMMA FillNumbers ==
    ASSUME TypeOK, Accounting, ~FillDone(s)
    PROVE  LET seg == NextSegment(s)
               n   == length_in_sequence_space(seg)
               q   == s.stream
               r   == after_read(q, PayloadLimit(s))
               p   == Len(seg.payload)
           IN  /\ n \in Nat /\ n > 0 /\ p \in Nat
               /\ n = p + Bit(seg.syn) + Bit(seg.fin)
               /\ s.next_seqno <= s.abs_ackno + s.window_size
               /\ seg.syn \in BOOLEAN /\ seg.fin \in BOOLEAN
               /\ seg.syn <=> s.next_seqno = 0
               /\ s.next_seqno + Bit(seg.syn) = bytes_read(q) + 1
               /\ r.written = q.written /\ r.ended = q.ended
               /\ Len(r.buf) = Len(q.buf) - p /\ p <= Len(q.buf)
               /\ seg.fin => eof(r)
               /\ \A j \in 1 .. p : seg.payload[j] = bytes_read(q) + j - 1
               /\ \A j \in 1 .. Len(r.buf) : r.buf[j] = bytes_read(q) + p + j - 1
<1> DEFINE seg == NextSegment(s)
           n   == length_in_sequence_space(seg)
           q   == s.stream
           lim == PayloadLimit(s)
           r   == after_read(q, lim)
           p   == Len(seg.payload)
<1>1. s \in Sender
  BY DEF TypeOK
<1>2. /\ s.next_seqno \in Nat /\ s.abs_ackno \in Nat /\ s.window_size \in Nat
      /\ q \in Stream(Nat) /\ q.written \in Nat /\ Len(q.buf) \in Nat
  BY <1>1, SenderFields
<1>3. /\ Room(s) \in Nat /\ lim \in Nat /\ p \in Nat /\ n \in Nat
      /\ p = MinOf(lim, Len(q.buf)) /\ n = p + Bit(SendsSyn(s)) + Bit(SendsFin(s))
      /\ seg.syn = SendsSyn(s) /\ seg.fin = SendsFin(s) /\ seg.payload = peek_output(q, lim)
  BY <1>1, RoomFacts, SegmentFacts
<1>4. SendsSyn(s) \in BOOLEAN /\ SendsFin(s) \in BOOLEAN
  BY DEF SendsSyn, SendsFin
<1>5. n # 0 /\ ~(s.next_seqno > s.abs_ackno + s.window_size)
      /\ ~(eof(q) /\ s.next_seqno >= bytes_written(q) + 2)
  BY DEF FillDone
<1>6. s.next_seqno <= s.abs_ackno + s.window_size /\ n > 0
  BY <1>2, <1>3, <1>5
<1>7. SendsSyn(s) <=> s.next_seqno = 0
  <2>1. ASSUME s.next_seqno = 0 PROVE Room(s) > 0
    <3>1. s.abs_ackno = 0
      BY <2>1, <1>2 DEF Accounting
    <3> QED
      BY <2>1, <3>1, <1>1, <1>2, <1>6, RoomFacts
  <2> QED
    BY <2>1 DEF SendsSyn
<1>8. s.next_seqno + Bit(SendsSyn(s)) = bytes_read(q) + 1
  <2>1. CASE s.next_seqno = 0
    BY <2>1, <1>2, <1>7 DEF Accounting, Bit
  <2>2. CASE s.next_seqno > 0
    <3>1. s.next_seqno = bytes_read(q) + 1 \/ (s.next_seqno = bytes_read(q) + 2 /\ eof(q))
      BY <2>2 DEF Accounting
    <3>2. ~(s.next_seqno = bytes_read(q) + 2 /\ eof(q))
      BY <1>2, <1>5 DEF bytes_read, bytes_written, eof, buffer_empty
    <3> QED
      BY <2>2, <3>1, <3>2, <1>2, <1>7 DEF Bit
  <2> QED
    BY <2>1, <2>2, <1>2
<1>9. /\ r.written = q.written /\ r.ended = q.ended
      /\ Len(r.buf) = Len(q.buf) - p
      /\ \A j \in 1 .. p : seg.payload[j] = q.buf[j]
      /\ \A j \in 1 .. Len(r.buf) : r.buf[j] = q.buf[j + p]
  <2> DEFINE d == peek_output(q, lim)
  <2>1. /\ r.written = q.written /\ r.ended = q.ended
        /\ Len(r.buf) = Len(q.buf) - Len(d)
        /\ \A j \in 1 .. Len(d) : d[j] = q.buf[j]
        /\ \A j \in 1 .. Len(r.buf) : r.buf[j] = q.buf[j + Len(d)]
    <3> HIDE DEF q, lim
    <3> QED
      BY <1>2, <1>3, ReadFacts
  <2>2. seg.payload = d /\ p = Len(d)
    BY <1>3
  <2> HIDE DEF seg, n, q, lim, r, p, d
  <2> QED
    BY <2>1, <2>2
<1>10. p <= Len(q.buf)
  BY <1>2, <1>3 DEF MinOf
<1>11. seg.fin => eof(r)
  BY Zenon, <1>3 DEF SendsFin
<1> HIDE DEF seg, n, q, lim, r, p
<1>12. \A j \in 1 .. Len(q.buf) : q.buf[j] = bytes_read(q) + j - 1
  BY DEF Accounting, q
<1>13. bytes_read(q) \in Int
  BY <1>2 DEF bytes_read
<1>14. \A j \in 1 .. p : seg.payload[j] = bytes_read(q) + j - 1
  BY <1>2, <1>3, <1>9, <1>10, <1>12
<1>15. \A j \in 1 .. Len(r.buf) : r.buf[j] = bytes_read(q) + p + j - 1
  <2>1. SUFFICES ASSUME NEW j \in 1 .. Len(r.buf) PROVE r.buf[j] = bytes_read(q) + p + j - 1
    OBVIOUS
  <2>2. j + p \in 1 .. Len(q.buf)
    BY SMTT(30), <1>2, <1>3, <1>9, <1>10
  <2>3. r.buf[j] = q.buf[j + p] /\ q.buf[j + p] = bytes_read(q) + (j + p) - 1
    BY <2>2, <1>9, <1>12
  <2> QED
    BY <2>2, <2>3, <1>2, <1>3, <1>13
<1>16. n = p + Bit(seg.syn) + Bit(seg.fin) /\ seg.syn \in BOOLEAN /\ seg.fin \in BOOLEAN
       /\ (seg.syn <=> s.next_seqno = 0) /\ s.next_seqno + Bit(seg.syn) = bytes_read(q) + 1
  BY <1>3, <1>4, <1>7, <1>8
<1> QED
  BY Zenon, <1>3, <1>6, <1>9, <1>10, <1>11, <1>14, <1>15, <1>16 DEF seg, n, q, lim, r, p

(* Appending to a sequence, element by element.                            *)
LEMMA AppendFacts ==
    ASSUME NEW S, NEW q \in Seq(S), NEW x \in S
    PROVE  /\ Append(q, x) \in Seq(S) /\ Len(q) \in Nat
           /\ Len(Append(q, x)) = Len(q) + 1
           /\ \A i \in 1 .. Len(q) : Append(q, x)[i] = q[i]
           /\ Append(q, x)[Len(q) + 1] = x
OBVIOUS

(* An iteration of fill_window() that sends.                               *)
LEMMA FillStepIInv ==
    ASSUME IInv, FillStep
    PROVE  IInv'
<1> DEFINE seg == NextSegment(s)
           n   == length_in_sequence_space(seg)
           q   == s.stream
           r   == after_read(q, PayloadLimit(s))
           p   == Len(seg.payload)
           o   == [seqno |-> s.next_seqno, segment |-> seg]
           out == s.outstanding
           L   == Len(out)
<1>1. /\ TypeOK /\ Accounting /\ OutstandingCoversFlight /\ TimerArmed /\ FlightContent
      /\ SendsOnlyFlight /\ s.timer.timeout > 0 /\ s \in Sender
      /\ ~FillDone(s) /\ ctl = "fill" /\ ctl' = "fill" /\ s' = SendNext(s)
  BY DEF IInv, FillStep, TypeOK
<1>2. /\ s.next_seqno \in Nat /\ s.abs_ackno \in Nat /\ s.window_size \in Nat
      /\ q.written \in Nat /\ Len(q.buf) \in Nat /\ bytes_read(q) \in Int
      /\ out \in Seq([seqno : Nat, segment : Segment]) /\ s.segments_out \in Seq(Segment)
      /\ L \in Nat
  <2>1. q.written \in Nat /\ Len(q.buf) \in Nat
    BY <1>1, SenderFields
  <2>2. bytes_read(q) \in Int
    BY <2>1 DEF bytes_read
  <2> QED
    BY Zenon, <2>1, <2>2, <1>1, SenderFields
<1>3. /\ s' \in Sender
      /\ o \in [seqno : Nat, segment : Segment]
      /\ s'.isn = s.isn /\ s'.abs_ackno = s.abs_ackno
      /\ s'.stream = r
      /\ s'.segments_out = Append(s.segments_out, seg)
      /\ s'.outstanding = Append(out, o)
      /\ s'.next_seqno = s.next_seqno + n
      /\ s'.timer = IF expired(s.timer) THEN start(rt_timeout) ELSE s.timer
  BY SMTT(30), <1>1, SendNextFacts
<1>4. /\ n \in Nat /\ n > 0 /\ p \in Nat
      /\ n = p + Bit(seg.syn) + Bit(seg.fin)
      /\ seg.syn \in BOOLEAN /\ seg.fin \in BOOLEAN
      /\ seg.syn <=> s.next_seqno = 0
      /\ s.next_seqno + Bit(seg.syn) = bytes_read(q) + 1
      /\ r.written = q.written /\ r.ended = q.ended
      /\ Len(r.buf) = Len(q.buf) - p /\ p <= Len(q.buf)
      /\ seg.fin => eof(r)
      /\ \A j \in 1 .. p : seg.payload[j] = bytes_read(q) + j - 1
      /\ \A j \in 1 .. Len(r.buf) : r.buf[j] = bytes_read(q) + p + j - 1
  BY Zenon, <1>1, FillNumbers
<1>5. seg \in Segment /\ seg.seqno = wrap(s.next_seqno, s.isn)
  BY <1>1, SegmentFacts
<1>6. Last(o) = s.next_seqno + n /\ o.seqno = s.next_seqno /\ o.segment = seg
  BY DEF Last
<1>7. /\ Len(s'.outstanding) = L + 1
      /\ \A i \in 1 .. L : s'.outstanding[i] = out[i]
      /\ s'.outstanding[L + 1] = o
  BY SMTT(30), <1>2, <1>3, AppendFacts
<1>8. r.buf \in Seq(Nat)
  BY <1>3, SenderFields
<1> HIDE DEF seg, n, q, r, p, o, out, L
<1>9. TypeOK'
  BY <1>1, <1>3 DEF TypeOK
<1>10. TimerArmed' /\ s'.timer.timeout > 0
  BY <1>1, <1>3, Constants DEF TimerArmed, expired, start
<1>11. bytes_read(r) = bytes_read(q) + p /\ s.next_seqno + n = bytes_read(r) + 1 + Bit(seg.fin)
  <2>1. bytes_read(r) = bytes_read(q) + p
    BY <1>2, <1>4 DEF bytes_read
  <2> DEFINE a == Bit(seg.syn)
             b == Bit(seg.fin)
             x == s.next_seqno
             y == bytes_read(q)
  <2>2. /\ a \in Nat /\ b \in Nat /\ n = p + a + b /\ x + a = y + 1
        /\ x \in Nat /\ y \in Int /\ p \in Nat
    BY <1>2, <1>4 DEF Bit
  <2> HIDE DEF a, b, x, y
  <2>3. x + (p + a + b) = (y + p) + 1 + b
    BY <2>2
  <2> QED
    BY <2>1, <2>2, <2>3 DEF b, x, y
<1>12. Accounting'
  <2>1. Len(r.buf) <= send_capacity /\ Len(r.buf) <= r.written
    <3>1. Len(q.buf) <= send_capacity /\ Len(q.buf) <= q.written
      BY <1>1 DEF Accounting, q
    <3> QED
      BY SMTT(30), <3>1, <1>2, <1>4, Constants
  <2>2. \A j \in 1 .. Len(r.buf) : r.buf[j] = bytes_read(r) + j - 1
    BY <1>4, <1>11
  <2>3. s'.abs_ackno <= s'.next_seqno /\ s'.next_seqno # 0
    <3>1. s.abs_ackno <= s.next_seqno
      BY <1>1 DEF Accounting
    <3> QED
      BY SMTT(30), <3>1, <1>2, <1>3, <1>4
  <2>4. s'.next_seqno = bytes_read(r) + 1 \/ (s'.next_seqno = bytes_read(r) + 2 /\ eof(r))
    <3>1. CASE seg.fin
      <4>1. Bit(seg.fin) = 1 /\ eof(r)
        BY <3>1, <1>4 DEF Bit
      <4> QED
        BY SMTT(30), <4>1, <1>2, <1>3, <1>4, <1>11
    <3>2. CASE ~seg.fin
      <4>1. Bit(seg.fin) = 0
        BY <3>2 DEF Bit
      <4> QED
        BY <4>1, <1>2, <1>3, <1>4, <1>11
    <3> QED
      BY <3>1, <3>2
  <2> QED
    BY <2>1, <2>2, <2>3, <2>4, <1>3 DEF Accounting
<1>13. OutstandingCoversFlight'
  <2>1. /\ \A i \in 1 .. L : /\ out[i].seqno < Last(out[i])
                             /\ Last(out[i]) = IF i = L THEN s.next_seqno ELSE out[i + 1].seqno
        /\ out # <<>> => out[1].seqno <= s.abs_ackno /\ s.abs_ackno < Last(out[1])
        /\ out = <<>> => s.abs_ackno = s.next_seqno
    BY <1>1 DEF OutstandingCoversFlight, out, L
  <2>2. ASSUME NEW i \in 1 .. L + 1
        PROVE  /\ s'.outstanding[i].seqno < Last(s'.outstanding[i])
               /\ Last(s'.outstanding[i]) = IF i = L + 1 THEN s'.next_seqno
                                                         ELSE s'.outstanding[i + 1].seqno
    <3>1. CASE i = L + 1
      BY SMTT(30), <3>1, <1>2, <1>3, <1>4, <1>6, <1>7
    <3>2. CASE i \in 1 .. L
      <4>1. s'.outstanding[i] = out[i] /\ i # L + 1
        BY <3>2, <1>2, <1>7
      <4>2. CASE i = L
        BY SMTT(30), <4>1, <4>2, <3>2, <2>1, <1>6, <1>7
      <4>3. CASE i # L
        <5>1. i + 1 \in 1 .. L
          BY <3>2, <4>3, <1>2
        <5> QED
          BY SMTT(30), <5>1, <4>1, <4>3, <3>2, <2>1, <1>7
      <4> QED
        BY <4>2, <4>3
    <3> QED
      BY <3>1, <3>2, <1>2
  <2>3. s'.outstanding # <<>>
    BY <1>2, <1>7
  <2>4. s'.outstanding[1].seqno <= s'.abs_ackno /\ s'.abs_ackno < Last(s'.outstanding[1])
    <3>1. CASE out = <<>>
      <4>1. L = 0
        BY <3>1 DEF L
      <4> QED
        BY SMTT(30), <4>1, <3>1, <2>1, <1>2, <1>3, <1>4, <1>6, <1>7
    <3>2. CASE out # <<>>
      <4>1. 1 \in 1 .. L
        BY <3>2, <1>2 DEF L
      <4> QED
        BY <4>1, <3>2, <2>1, <1>3, <1>7
    <3> QED
      BY <3>1, <3>2
  <2> QED
    BY <2>2, <2>3, <2>4, <1>7 DEF OutstandingCoversFlight, Last
<1>14. FlightContent'
  <2>1. eof(q) => eof(r)
    BY SMTT(30), <1>2, <1>4, <1>8 DEF eof, input_ended, buffer_empty
  <2> DEFINE Content(x) == /\ x.segment.seqno = wrap(x.seqno, s'.isn)
                           /\ x.segment.syn <=> x.seqno = 0
                           /\ \A j \in 1 .. Len(x.segment.payload) : x.segment.payload[j] =
                                 (IF x.segment.syn THEN 0 ELSE x.seqno - 1) + j - 1
                           /\ x.segment.fin => eof(r) /\ Last(x) = r.written + 2
  <2>2. SUFFICES ASSUME NEW i \in 1 .. L + 1 PROVE Content(s'.outstanding[i])
    BY <1>3, <1>7 DEF FlightContent, bytes_written, Last
  <2>3. CASE i \in 1 .. L
    <3>1. s'.outstanding[i] = out[i]
      BY <2>3, <1>7
    <3>2. LET x     == out[i]
              first == IF x.segment.syn THEN 0 ELSE x.seqno - 1
          IN  /\ x.segment.seqno = wrap(x.seqno, s.isn)
              /\ x.segment.syn <=> x.seqno = 0
              /\ \A j \in 1 .. Len(x.segment.payload) : x.segment.payload[j] = first + j - 1
              /\ x.segment.fin => eof(q) /\ Last(x) = q.written + 2
      BY SMTT(30), <2>3, <1>1 DEF FlightContent, bytes_written, out, L, q
    <3>3. Content(out[i])
      BY <3>2, <2>1, <1>3, <1>4
    <3> HIDE DEF Content
    <3> QED
      BY <3>1, <3>3
  <2>4. CASE i = L + 1
    <3>1. s'.outstanding[i] = o
      BY <2>4, <1>7
    <3>2. bytes_read(q) = IF seg.syn THEN 0 ELSE s.next_seqno - 1
      BY <1>2, <1>4 DEF Bit
    <3>3. \A j \in 1 .. Len(seg.payload) :
             seg.payload[j] = (IF seg.syn THEN 0 ELSE s.next_seqno - 1) + j - 1
      BY <3>2, <1>4 DEF p
    <3>4. ASSUME seg.fin PROVE eof(r) /\ s.next_seqno + n = r.written + 2
      <4>1. eof(r)
        BY <3>4, <1>4
      <4>2. Len(r.buf) = 0
        BY <4>1 DEF eof, buffer_empty
      <4>3. Bit(seg.fin) = 1
        BY <3>4 DEF Bit
      <4>4. bytes_read(r) = r.written
        BY <4>2, <1>2, <1>4 DEF bytes_read
      <4> QED
        BY <4>1, <4>3, <4>4, <1>2, <1>4, <1>11
    <3>5. seg.seqno = wrap(s.next_seqno, s'.isn) /\ (seg.syn <=> s.next_seqno = 0)
      BY <1>3, <1>4, <1>5
    <3>6. seg.fin => eof(r) /\ Last(o) = r.written + 2
      BY <3>4, <1>6
    <3>7. Content(o)
      BY <3>3, <3>5, <3>6, <1>6
    <3> HIDE DEF Content
    <3> QED
      BY <3>1, <3>7
  <2>5. i \in 1 .. L \/ i = L + 1
    BY <1>2
  <2> HIDE DEF Content
  <2> QED
    BY <2>3, <2>4, <2>5
<1>15. SendsOnlyFlight'
  <2> DEFINE so == s.segments_out
  <2>1. /\ Len(so) \in Nat /\ Len(s'.segments_out) = Len(so) + 1
        /\ \A i \in 1 .. Len(so) : s'.segments_out[i] = so[i]
        /\ s'.segments_out[Len(so) + 1] = seg
    BY <1>2, <1>3, <1>5, AppendFacts
  <2>2. \A i \in 1 .. Len(so) : \/ length_in_sequence_space(so[i]) = 0
                                \/ \E j \in 1 .. L : out[j].segment = so[i]
    BY <1>1 DEF SendsOnlyFlight, out, L
  <2> HIDE DEF so
  <2>3. SUFFICES ASSUME NEW i \in 1 .. Len(so) + 1
                 PROVE  \/ length_in_sequence_space(s'.segments_out[i]) = 0
                        \/ \E j \in 1 .. L + 1 : s'.outstanding[j].segment = s'.segments_out[i]
    BY <2>1, <1>7 DEF SendsOnlyFlight
  <2>4. CASE i \in 1 .. Len(so)
    <3>1. s'.segments_out[i] = so[i]
      BY <2>1, <2>4
    <3>2. CASE length_in_sequence_space(so[i]) = 0
      BY <3>1, <3>2
    <3>3. CASE \E j \in 1 .. L : out[j].segment = so[i]
      <4>1. PICK j \in 1 .. L : out[j].segment = so[i]
        BY <3>3
      <4>2. j \in 1 .. L + 1 /\ s'.outstanding[j] = out[j]
        BY <1>2, <1>7
      <4> QED
        BY <4>1, <4>2, <3>1
    <3> QED
      BY <3>2, <3>3, <2>2, <2>4
  <2>5. CASE i = Len(so) + 1
    <3>1. L + 1 \in 1 .. L + 1
      BY <1>2
    <3> QED
      BY <3>1, <2>1, <2>5, <1>6, <1>7
  <2> QED
    BY <2>1, <2>4, <2>5
<1>16. NoStall'
  BY <1>1 DEF NoStall
<1> QED
  BY <1>9, <1>10, <1>12, <1>13, <1>14, <1>15, <1>16 DEF IInv

(* What IInv says of the sender alone holds as long as it does not change. *)
LEMMA SameSender ==
    ASSUME IInv, s' = s
    PROVE  /\ (s \in Sender)' /\ s'.timer.timeout > 0 /\ Accounting' /\ OutstandingCoversFlight'
           /\ TimerArmed' /\ FlightContent' /\ SendsOnlyFlight'
<1>1. (s \in Sender)' /\ s'.timer.timeout > 0
  BY DEF IInv, TypeOK
<1>2. Accounting'
  BY DEF IInv, Accounting
<1>3. OutstandingCoversFlight'
  BY DEF IInv, OutstandingCoversFlight
<1>4. TimerArmed'
  BY DEF IInv, TimerArmed
<1>5. FlightContent'
  BY SMTT(30) DEF IInv, FlightContent
<1>6. SendsOnlyFlight'
  BY DEF IInv, SendsOnlyFlight
<1> QED
  BY <1>1, <1>2, <1>3, <1>4, <1>5, <1>6

(* fill_window() returns only when there is nothing it could send, or      *)
(* something is in flight.                                                 *)
LEMMA FillReturnIInv ==
    ASSUME IInv, FillReturn
    PROVE  IInv'
<1> DEFINE q   == s.stream
           lim == PayloadLimit(s)
<1>1. s' = s /\ ctl' = "idle" /\ FillDone(s) /\ TypeOK /\ Accounting /\ s \in Sender
  BY DEF IInv, FillReturn, TypeOK
<1>2. /\ s.next_seqno \in Nat /\ s.abs_ackno \in Nat /\ s.window_size \in Nat
      /\ q \in Stream(Nat) /\ q.written \in Nat /\ Len(q.buf) \in Nat /\ q.buf \in Seq(Nat)
  BY <1>1, SenderFields
<1>3. ASSUME s.next_seqno > 0, Unsent, ~(bytes_in_flight(s) > 0) PROVE FALSE
  <2>1. s.next_seqno = s.abs_ackno
    BY <1>1, <1>2, <1>3 DEF Accounting, bytes_in_flight
  <2>2. ~(s.next_seqno > s.abs_ackno + s.window_size)
    BY <2>1, <1>2
  <2>3. ~(eof(q) /\ s.next_seqno >= q.written + 2)
    BY <1>2, <1>3 DEF Unsent, eof, bytes_written
  <2>4. length_in_sequence_space(NextSegment(s)) = 0
    BY <2>2, <2>3, <1>1 DEF FillDone, bytes_written
  <2>5. Room(s) \in Nat /\ Room(s) > 0
    BY <2>1, <1>1, <1>2, RoomFacts
  <2>6. ~SendsSyn(s) /\ Bit(SendsSyn(s)) = 0
    BY <1>3 DEF SendsSyn, Bit
  <2>7. lim \in Nat /\ lim > 0
    BY <2>5, <2>6, Constants DEF PayloadLimit, MinOf
  <2> DEFINE p == Len(NextSegment(s).payload)
             b == Bit(SendsFin(s))
  <2>8. /\ p \in Nat /\ p = MinOf(lim, Len(q.buf)) /\ p = Len(peek_output(q, lim))
        /\ length_in_sequence_space(NextSegment(s)) = p + Bit(SendsSyn(s)) + b
    BY <1>1, SegmentFacts
  <2>9. b \in Nat /\ (SendsFin(s) => b = 1)
    BY DEF Bit
  <2> HIDE DEF p, b
  <2>10. p = 0 /\ b = 0
    BY <2>4, <2>6, <2>8, <2>9
  <2>11. Len(q.buf) = 0
    BY <2>7, <2>8, <2>10, <1>2 DEF MinOf
  <2>12. buffer_empty(q) /\ input_ended(q)
    BY <2>11, <1>2, <1>3 DEF buffer_empty, Unsent
  <2>13. eof(after_read(q, lim))
    <3> DEFINE r == after_read(q, lim)
    <3>1. r \in Stream(Nat) /\ r.ended = q.ended /\ Len(r.buf) = Len(q.buf) - Len(peek_output(q, lim))
      <4> HIDE DEF q, lim
      <4> QED
        BY <2>7, <1>2, ReadFacts
    <3> HIDE DEF r
    <3>2. Len(r.buf) = 0 /\ r.buf \in Seq(Nat)
      BY <3>1, <2>8, <2>10, <2>11 DEF Stream
    <3>3. r.buf = <<>>
      BY <3>2
    <3> QED
      BY <3>1, <3>3, <2>12 DEF eof, buffer_empty, input_ended, r
  <2>14. SendsFin(s)
    BY <2>7, <2>8, <2>10, <2>13 DEF SendsFin
  <2> QED
    BY <2>9, <2>10, <2>14
<1>4. NoStall'
  BY <1>1, <1>3 DEF NoStall, Unsent
<1>5. /\ TypeOK' /\ s'.timer.timeout > 0 /\ Accounting' /\ OutstandingCoversFlight'
      /\ TimerArmed' /\ FlightContent' /\ SendsOnlyFlight'
  BY <1>1, SameSender DEF TypeOK
<1> QED
  BY <1>4, <1>5 DEF IInv

(* Writing to the stream; fill_window() is called next.                    *)
LEMMA WriteIInv ==
    ASSUME IInv, NEW k \in 1 .. MaxWritten, Write(k)
    PROVE  IInv'
<1> DEFINE q == s.stream
           d == Fresh(k)
           n == MinOf(Len(d), send_capacity - Len(q.buf))
           r == write(q, d, send_capacity)
<1>1. /\ TypeOK /\ Accounting /\ OutstandingCoversFlight /\ TimerArmed /\ FlightContent
      /\ SendsOnlyFlight /\ s.timer.timeout > 0 /\ s \in Sender
      /\ s.next_seqno > 0 /\ ~q.ended /\ ctl' = "fill"
      /\ s' = [s EXCEPT !.stream = r]
  BY DEF IInv, Write, TypeOK, input_ended
<1>2. /\ s.next_seqno \in Nat /\ s.abs_ackno \in Nat /\ q \in Stream(Nat)
      /\ q.written \in Nat /\ Len(q.buf) \in Nat
  BY <1>1, SenderFields
<1>3. /\ Len(q.buf) <= send_capacity /\ Len(q.buf) <= q.written
      /\ \A j \in 1 .. Len(q.buf) : q.buf[j] = bytes_read(q) + j - 1
      /\ s.abs_ackno <= s.next_seqno /\ s.next_seqno = bytes_read(q) + 1
  BY <1>1 DEF Accounting, eof, input_ended
<1>4. d \in Seq(Nat) /\ Len(d) = k /\ \A j \in 1 .. k : d[j] = q.written + j - 1
  BY <1>2, Constants DEF Fresh, bytes_written
<1>5. /\ n \in Nat /\ n <= k /\ r \in Stream(Nat) /\ r.written = q.written + n
      /\ r.ended = q.ended
      /\ Len(r.buf) = Len(q.buf) + n /\ Len(q.buf) + n <= send_capacity
      /\ \A j \in 1 .. Len(q.buf) + n :
            r.buf[j] = IF j <= Len(q.buf) THEN q.buf[j] ELSE d[j - Len(q.buf)]
  <2> HIDE DEF q, d
  <2>1. /\ q \in Stream(Nat) /\ d \in Seq(Nat) /\ send_capacity \in Nat
        /\ Len(q.buf) <= send_capacity
    BY <1>2, <1>3, <1>4, Constants
  <2>2. /\ n \in Nat /\ r \in Stream(Nat) /\ r.written = q.written + n
        /\ r.ended = q.ended
        /\ Len(r.buf) = Len(q.buf) + n /\ Len(q.buf) + n <= send_capacity
        /\ \A j \in 1 .. Len(q.buf) + n :
              r.buf[j] = IF j <= Len(q.buf) THEN q.buf[j] ELSE d[j - Len(q.buf)]
    BY <2>1, WriteFacts
  <2>3. n <= k
    BY <1>2, <1>4, Constants DEF MinOf
  <2> QED
    BY <2>2, <2>3
<1> HIDE DEF q, d, n, r
<1>6. /\ s' \in Sender /\ s'.stream = r
      /\ s'.isn = s.isn /\ s'.next_seqno = s.next_seqno /\ s'.abs_ackno = s.abs_ackno
      /\ s'.outstanding = s.outstanding /\ s'.segments_out = s.segments_out
      /\ s'.timer = s.timer
  BY Zenon, <1>1, <1>5 DEF Sender, Byte
<1>7. bytes_read(q) \in Int /\ bytes_read(r) = bytes_read(q)
  BY <1>2, <1>5 DEF bytes_read
<1>8. Accounting'
  <2>1. ASSUME NEW j \in 1 .. Len(r.buf) PROVE r.buf[j] = bytes_read(r) + j - 1
    <3>1. CASE j <= Len(q.buf)
      BY <3>1, <1>2, <1>3, <1>5, <1>7
    <3>2. CASE j > Len(q.buf)
      <4>1. j \in 1 .. Len(q.buf) + n
        BY <1>5
      <4>2. r.buf[j] = d[j - Len(q.buf)]
        BY <4>1, <3>2, <1>2, <1>5
      <4>3. j - Len(q.buf) \in 1 .. k
        BY ONLY <4>1, <3>2, <1>2, <1>5, Constants
      <4>4. r.buf[j] = q.written + (j - Len(q.buf)) - 1
        BY <4>2, <4>3, <1>4
      <4> QED
        BY SMTT(30), <4>4, <1>2, <1>5, <1>7 DEF bytes_read
    <3> QED
      BY <3>1, <3>2, <1>2
  <2>2. Len(r.buf) <= send_capacity /\ Len(r.buf) <= r.written
    BY <1>2, <1>3, <1>5
  <2> QED
    BY <2>1, <2>2, <1>1, <1>2, <1>3, <1>6, <1>7 DEF Accounting
<1>9. OutstandingCoversFlight'
  BY <1>1, <1>6 DEF OutstandingCoversFlight, Last
<1>10. FlightContent'
  BY <1>1, <1>6 DEF FlightContent, eof, input_ended, q, Last
<1>11. TypeOK' /\ s'.timer.timeout > 0 /\ TimerArmed' /\ SendsOnlyFlight' /\ NoStall'
  BY <1>1, <1>6 DEF TypeOK, TimerArmed, SendsOnlyFlight, NoStall
<1> QED
  BY <1>8, <1>9, <1>10, <1>11 DEF IInv

(* Ending the input; fill_window() is called next.                         *)
LEMMA EndInputIInv ==
    ASSUME IInv, EndInput
    PROVE  IInv'
<1> DEFINE r == end_input(s.stream)
<1>1. /\ TypeOK /\ Accounting /\ OutstandingCoversFlight /\ TimerArmed /\ FlightContent
      /\ SendsOnlyFlight /\ s.timer.timeout > 0 /\ s \in Sender /\ ctl' = "fill"
      /\ s' = [s EXCEPT !.stream = r]
  BY DEF IInv, EndInput, TypeOK
<1>2. r \in Stream(Nat) /\ r.buf = s.stream.buf /\ r.written = s.stream.written /\ r.ended
  BY Zenon, <1>1, SenderFields DEF end_input, Stream
<1> HIDE DEF r
<1>3. /\ s' \in Sender /\ s'.stream = r
      /\ s'.isn = s.isn /\ s'.next_seqno = s.next_seqno /\ s'.abs_ackno = s.abs_ackno
      /\ s'.outstanding = s.outstanding /\ s'.segments_out = s.segments_out
      /\ s'.timer = s.timer
  BY <1>1, <1>2 DEF Sender, Byte
<1>4. Accounting'
  BY <1>1, <1>2, <1>3 DEF Accounting, bytes_read, eof, input_ended, buffer_empty
<1>5. OutstandingCoversFlight'
  BY <1>1, <1>3 DEF OutstandingCoversFlight, Last
<1>6. FlightContent'
  BY <1>1, <1>2, <1>3 DEF FlightContent, eof, input_ended, buffer_empty, bytes_written, Last
<1>7. TypeOK' /\ s'.timer.timeout > 0 /\ TimerArmed' /\ SendsOnlyFlight' /\ NoStall'
  BY <1>1, <1>3 DEF TypeOK, TimerArmed, SendsOnlyFlight, NoStall
<1> QED
  BY <1>4, <1>5, <1>6, <1>7 DEF IInv

(* An ACK.  Only an accepted one touches the flight: it drops a prefix.    *)
LEMMA AckReceivedIInv ==
    ASSUME IInv, NEW no \in WrappingInt32, NEW win \in 0 .. MaxWindow,
           AckReceived(no, win)
    PROVE  IInv'
<1> DEFINE a   == unwrap(no, s.isn, s.abs_ackno)
           out == s.outstanding
           L   == Len(out)
           k   == AckedPrefix(out, a)
<1>1. /\ TypeOK /\ Accounting /\ OutstandingCoversFlight /\ TimerArmed /\ FlightContent
      /\ SendsOnlyFlight /\ NoStall /\ s.timer.timeout > 0 /\ s \in Sender
      /\ s.segments_out = <<>>
  BY DEF IInv, AckReceived, Ready, TypeOK
<1>2. /\ s.next_seqno \in Nat /\ s.abs_ackno \in Nat /\ s.isn \in WrappingInt32
      /\ out \in Seq([seqno : Nat, segment : Segment]) /\ L \in Nat
  BY Zenon, <1>1, SenderFields
<1>3. a \in Nat /\ win \in 0 .. U16 - 1
  <2>1. a \in Nat
    BY Zenon, <1>2, UnwrapNat
  <2>2. win \in 0 .. U16 - 1
    BY Constants
  <2> QED
    BY <2>1, <2>2
<1>4. CASE AcceptsAck(s, a) /\ s' = TakeAck(UpdateWindow(s, win), a) /\ ctl' = "fill"
  <2>1. /\ s' \in Sender
        /\ s'.isn = s.isn /\ s'.stream = s.stream /\ s'.segments_out = s.segments_out
        /\ s'.next_seqno = s.next_seqno /\ s'.abs_ackno = a
        /\ s'.outstanding = SubSeq(out, k + 1, L)
        /\ s'.timer = IF k > 0 THEN start(rt_timeout) ELSE s.timer
    <3> DEFINE u == TakeAck(UpdateWindow(s, win), a)
    <3>1. s' = u /\ s \in Sender
      BY <1>1, <1>4
    <3> HIDE DEF a
    <3>2. /\ u \in Sender
          /\ u.isn = s.isn /\ u.stream = s.stream /\ u.segments_out = s.segments_out
          /\ u.next_seqno = s.next_seqno /\ u.abs_ackno = a
          /\ u.outstanding = SubSeq(out, k + 1, L)
          /\ u.timer = IF k > 0 THEN start(rt_timeout) ELSE s.timer
      BY <3>1, <1>3, TakeAckFacts, Zenon
    <3> HIDE DEF u
    <3> QED
      BY <3>1, <3>2
  <2>2. s.abs_ackno < a /\ a <= s.next_seqno
    BY <1>4, <1>2, <1>3 DEF AcceptsAck
  <2>3. /\ k \in 0 .. L /\ \A i \in 1 .. k : FullyAcked(out[i], a)
        /\ k < L => ~FullyAcked(out[k + 1], a)
    BY Zenon, <1>2, <1>3, AckedPrefixFacts
  <2>4. /\ \A i \in 1 .. L : /\ out[i].seqno < Last(out[i])
                             /\ Last(out[i]) = IF i = L THEN s.next_seqno ELSE out[i + 1].seqno
        /\ out # <<>> => out[1].seqno <= s.abs_ackno /\ s.abs_ackno < Last(out[1])
        /\ out = <<>> => s.abs_ackno = s.next_seqno
    BY <1>1 DEF OutstandingCoversFlight
  <2>5. \A i \in 1 .. L : FullyAcked(out[i], a) <=> Last(out[i]) <= a
    BY DEF FullyAcked, Last
  <2>6. \A i \in 1 .. L : out[i].seqno \in Nat /\ Last(out[i]) \in Int
    <3>1. SUFFICES ASSUME NEW i \in 1 .. L PROVE out[i].seqno \in Nat /\ Last(out[i]) \in Int
      OBVIOUS
    <3> HIDE DEF out
    <3>2. out[i] \in [seqno : Nat, segment : Segment]
      BY Zenon, <1>2, ElementOfSeq
    <3> DEFINE p == Len(out[i].segment.payload)
               y == Bit(out[i].segment.syn)
               f == Bit(out[i].segment.fin)
    <3>3. out[i].seqno \in Nat /\ p \in Nat
      BY <3>2 DEF Segment
    <3>4. y \in Nat /\ f \in Nat
      BY DEF Bit
    <3>5. Last(out[i]) = out[i].seqno + (p + y + f)
      BY DEF Last, length_in_sequence_space
    <3> HIDE DEF p, y, f
    <3> QED
      BY <3>3, <3>4, <3>5
  <2>7. /\ s'.outstanding \in Seq([seqno : Nat, segment : Segment])
        /\ Len(s'.outstanding) = L - k
        /\ \A i \in 1 .. L - k : s'.outstanding[i] = out[k + i]
    <3> DEFINE z == SubSeq(out, k + 1, Len(out))
    <3> HIDE DEF out, k
    <3>1. k \in 0 .. Len(out)
      BY <2>3
    <3>2. /\ z \in Seq([seqno : Nat, segment : Segment])
          /\ Len(z) = Len(out) - k
          /\ \A i \in 1 .. Len(out) - k : z[i] = out[k + i]
      BY Zenon, <3>1, <1>2, SuffixFacts
    <3> QED
      BY <3>2, <2>1
  <2> HIDE DEF out, L, k, a
  <2>8. OutstandingCoversFlight'
    <3>1. ASSUME NEW i \in 1 .. L - k
          PROVE  /\ s'.outstanding[i].seqno < Last(s'.outstanding[i])
                 /\ Last(s'.outstanding[i]) = IF i = L - k THEN s'.next_seqno
                                                           ELSE s'.outstanding[i + 1].seqno
      <4>1. k + i \in 1 .. L /\ s'.outstanding[i] = out[k + i] /\ (i = L - k <=> k + i = L)
        BY <2>3, <2>7, <1>2
      <4>2. ASSUME i # L - k PROVE s'.outstanding[i + 1] = out[(k + i) + 1]
        <5>1. i + 1 \in 1 .. L - k /\ k + (i + 1) = (k + i) + 1
          BY <4>2, <2>3, <1>2
        <5> QED
          BY <5>1, <2>7
      <4> QED
        BY Zenon, <4>1, <4>2, <2>1, <2>4
    <3>2. ASSUME s'.outstanding # <<>>
          PROVE  s'.outstanding[1].seqno <= a /\ a < Last(s'.outstanding[1])
      <4>1. k + 1 \in 1 .. L /\ s'.outstanding[1] = out[k + 1] /\ k < L
        <5>1. L - k # 0
          BY <3>2, <2>7
        <5> QED
          BY SMTT(30), <5>1, <2>3, <2>7, <1>2
      <4>2. a < Last(out[k + 1])
        BY <4>1, <2>3, <2>5, <2>6, <1>3
      <4>3. out[k + 1].seqno <= a
        <5>1. CASE k = 0
          <6>1. out # <<>> /\ out[1].seqno <= s.abs_ackno
            BY <4>1, <2>4, <5>1 DEF L
          <6> QED
            BY SMTT(30), <6>1, <5>1, <4>1, <2>2, <2>6, <1>2, <1>3
        <5>2. CASE k > 0
          <6>1. k \in 1 .. L /\ k \in 1 .. k /\ k # L
            BY <5>2, <4>1, <2>3, <1>2
          <6>2. Last(out[k]) <= a /\ Last(out[k]) = out[k + 1].seqno
            BY <6>1, <2>3, <2>4, <2>5
          <6> QED
            BY <6>2
        <5> QED
          BY <5>1, <5>2, <2>3
      <4> QED
        BY <4>1, <4>2, <4>3
    <3>3. ASSUME s'.outstanding = <<>> PROVE a = s.next_seqno
      <4>1. L = k
        BY <3>3, <2>3, <2>7, <1>2
      <4>2. L > 0
        <5>1. out # <<>>
          BY <2>2, <2>4, <1>2, <1>3
        <5> QED
          BY <5>1, <1>2 DEF L
      <4>3. Last(out[L]) <= a /\ Last(out[L]) = s.next_seqno
        BY SMTT(30), <4>1, <4>2, <2>3, <2>4, <2>5, <1>2
      <4> QED
        BY <4>3, <2>2, <1>2, <1>3
    <3> QED
      BY Zenon, <3>1, <3>2, <3>3, <2>1, <2>7 DEF OutstandingCoversFlight, Last
  <2>9. Accounting'
    BY <2>1, <2>2, <1>1 DEF Accounting
  <2>10. TimerArmed' /\ s'.timer.timeout > 0
    <3>1. CASE k > 0
      BY <3>1, <2>1, Constants DEF TimerArmed, expired, start
    <3>2. CASE k = 0
      <4>1. s'.timer = s.timer
        BY <3>2, <2>1
      <4>2. s'.outstanding # <<>> => out # <<>>
        <5>1. out = <<>> => L = 0
          BY DEF L
        <5> QED
          BY <5>1, <3>2, <2>7
      <4> QED
        BY <4>1, <4>2, <1>1 DEF TimerArmed, out
    <3> QED
      BY <3>1, <3>2, <2>3
  <2>11. FlightContent'
    <3> DEFINE Content(x) == /\ x.segment.seqno = wrap(x.seqno, s.isn)
                             /\ x.segment.syn <=> x.seqno = 0
                             /\ \A j \in 1 .. Len(x.segment.payload) : x.segment.payload[j] =
                                   (IF x.segment.syn THEN 0 ELSE x.seqno - 1) + j - 1
                             /\ x.segment.fin => eof(s.stream) /\ Last(x) = bytes_written(s.stream) + 2
    <3>1. SUFFICES ASSUME NEW i \in 1 .. L - k PROVE Content(s'.outstanding[i])
      BY Zenon, <2>1, <2>7 DEF FlightContent, Last
    <3>2. \A i0 \in 1 .. L : Content(out[i0])
      BY <1>1 DEF FlightContent, out, L
    <3> HIDE DEF Content
    <3>3. k \in Nat /\ L \in Nat
      BY <2>3, <1>2
    <3>4. k + i \in 1 .. L
      BY <3>3
    <3>5. s'.outstanding[i] = out[k + i]
      BY <2>7
    <3> QED
      BY SMTT(30), <3>2, <3>4, <3>5
  <2>12. TypeOK' /\ SendsOnlyFlight' /\ NoStall'
    BY <2>1, <1>1, <1>4 DEF TypeOK, SendsOnlyFlight, NoStall
  <2> QED
    BY <2>8, <2>9, <2>10, <2>11, <2>12 DEF IInv
<1>5. CASE s' = UpdateWindow(s, win) /\ ctl' = ctl
  <2>1. /\ s' \in Sender /\ s'.isn = s.isn /\ s'.stream = s.stream
        /\ s'.next_seqno = s.next_seqno /\ s'.abs_ackno = s.abs_ackno
        /\ s'.outstanding = s.outstanding /\ s'.segments_out = s.segments_out
        /\ s'.timer = s.timer
    BY Zenon, <1>1, <1>3, <1>5 DEF UpdateWindow, Sender
  <2>2. Accounting' /\ OutstandingCoversFlight' /\ FlightContent'
    BY <2>1, <1>1, FlightFrame
  <2>3. NoStall'
    BY <2>1, <1>1, <1>5, StallFrame
  <2>4. TypeOK' /\ s'.timer.timeout > 0 /\ TimerArmed' /\ SendsOnlyFlight'
    BY <2>1, <1>1, <1>5 DEF TypeOK, TimerArmed, SendsOnlyFlight
  <2> QED
    BY <2>2, <2>3, <2>4 DEF IInv
<1> QED
  BY <1>4, <1>5 DEF AckReceived

(* Time passes; the oldest segment may be sent again.                      *)
LEMMA TickIInv ==
    ASSUME IInv, NEW ms \in 1 .. MaxMs, Tick(ms)
    PROVE  IInv'
<1>1. /\ TypeOK /\ Accounting /\ OutstandingCoversFlight /\ FlightContent
      /\ NoStall /\ s.timer.timeout > 0 /\ s \in Sender
      /\ s.segments_out = <<>> /\ s' = tick(s, ms) /\ ctl' = ctl /\ ms \in Nat
  BY DEF IInv, Tick, Ready, TypeOK
<1>2. /\ s' \in Sender /\ s'.isn = s.isn /\ s'.stream = s.stream
      /\ s'.next_seqno = s.next_seqno /\ s'.abs_ackno = s.abs_ackno
      /\ s'.outstanding = s.outstanding
      /\ \/ s'.segments_out = s.segments_out
         \/ /\ s.outstanding # <<>>
            /\ s'.segments_out = Append(s.segments_out, Head(s.outstanding).segment)
      /\ s'.timer.timeout > 0 /\ (s.outstanding # <<>> => ~expired(s'.timer))
  BY Zenon, <1>1, TickFacts
<1>3. Accounting' /\ OutstandingCoversFlight' /\ FlightContent'
  BY Zenon, <1>1, <1>2, FlightFrame
<1>4. NoStall'
  BY <1>1, <1>2, StallFrame
<1>5. SendsOnlyFlight'
  <2> DEFINE h == Head(s.outstanding).segment
  <2>1. CASE s'.segments_out = s.segments_out
    BY <2>1, <1>1 DEF SendsOnlyFlight
  <2>2. CASE s.outstanding # <<>> /\ s'.segments_out = Append(s.segments_out, h)
    <3>1. s'.segments_out = <<h>>
      BY <2>2, <1>1
    <3>2. 1 \in 1 .. Len(s.outstanding) /\ s.outstanding[1].segment = h
      BY <2>2, <1>1, SenderFields
    <3> HIDE DEF h
    <3>3. Len(s'.segments_out) = 1 /\ s'.segments_out[1] = h
      BY <3>1
    <3> QED
      BY <3>2, <3>3, <1>2 DEF SendsOnlyFlight
  <2> QED
    BY <2>1, <2>2, <1>2
<1>6. TypeOK' /\ TimerArmed'
  BY <1>1, <1>2 DEF TypeOK, TimerArmed
<1> QED
  BY <1>2, <1>3, <1>4, <1>5, <1>6 DEF IInv

(* An empty segment is queued.                                             *)
LEMMA SendEmptyIInv ==
    ASSUME IInv, SendEmpty
    PROVE  IInv'
<1> DEFINE w == wrap(s.next_seqno, s.isn)
           e == [DefaultSegment EXCEPT !.seqno = w]
<1>1. /\ TypeOK /\ Accounting /\ OutstandingCoversFlight /\ FlightContent
      /\ NoStall /\ TimerArmed /\ s.timer.timeout > 0 /\ s \in Sender
      /\ s.segments_out = <<>> /\ s' = send_empty_segment(s) /\ ctl' = ctl
  BY DEF IInv, SendEmpty, Ready, TypeOK
<1>2. w \in Nat
  BY <1>1, SenderFields, WrapNat
<1>3. s' = [s EXCEPT !.segments_out = <<e>>]
  BY <1>1 DEF send_empty_segment
<1> HIDE DEF w
<1>4. e \in Segment /\ length_in_sequence_space(e) = 0
  <2>1. <<>> \in Seq(Byte)
    OBVIOUS
  <2>2. DefaultSegment \in Segment
    BY <2>1 DEF DefaultSegment, Segment
  <2>3. e \in Segment /\ e.payload = DefaultSegment.payload /\ e.syn = DefaultSegment.syn
        /\ e.fin = DefaultSegment.fin
    BY <2>2, <1>2 DEF Segment
  <2>4. e.payload = <<>> /\ e.syn = FALSE /\ e.fin = FALSE
    BY <2>3 DEF DefaultSegment
  <2>5. Len(e.payload) = 0 /\ Bit(e.syn) = 0 /\ Bit(e.fin) = 0
    BY <2>4 DEF Bit
  <2> QED
    BY <2>3, <2>5 DEF length_in_sequence_space
<1>5. length_in_sequence_space(e) = 0
  BY <1>4
<1> HIDE DEF e
<1>6. <<e>> \in Seq(Segment) /\ Len(<<e>>) = 1 /\ <<e>>[1] = e
  BY <1>4
<1>7. /\ s' \in Sender /\ s'.isn = s.isn /\ s'.stream = s.stream
      /\ s'.next_seqno = s.next_seqno /\ s'.abs_ackno = s.abs_ackno
      /\ s'.outstanding = s.outstanding /\ s'.timer = s.timer
      /\ s'.segments_out = <<e>>
  BY Zenon, <1>1, <1>3, <1>6 DEF Sender
<1>8. Accounting' /\ OutstandingCoversFlight' /\ FlightContent'
  BY <1>1, <1>7, FlightFrame
<1>9. NoStall'
  BY <1>1, <1>7, StallFrame
<1>10. SendsOnlyFlight'
  BY <1>5, <1>6, <1>7 DEF SendsOnlyFlight
<1>11. TypeOK' /\ TimerArmed' /\ s'.timer.timeout > 0
  BY <1>1, <1>7 DEF TypeOK, TimerArmed
<1> QED
  BY <1>8, <1>9, <1>10, <1>11 DEF IInv

(* The connection takes the queued segments.                               *)
LEMMA DrainIInv ==
    ASSUME IInv, Drain
    PROVE  IInv'
<1>1. /\ TypeOK /\ Accounting /\ OutstandingCoversFlight /\ FlightContent
      /\ NoStall /\ TimerArmed /\ s.timer.timeout > 0 /\ s \in Sender
      /\ s' = [s EXCEPT !.segments_out = <<>>] /\ ctl' = ctl
  BY DEF IInv, Drain, TypeOK
<1>2. /\ s' \in Sender /\ s'.isn = s.isn /\ s'.stream = s.stream
      /\ s'.next_seqno = s.next_seqno /\ s'.abs_ackno = s.abs_ackno
      /\ s'.outstanding = s.outstanding /\ s'.timer = s.timer /\ s'.segments_out = <<>>
  <2> DEFINE z == <<>>
  <2>1. z \in Seq(Segment) /\ s' = [s EXCEPT !.segments_out = z]
    BY <1>1
  <2> HIDE DEF z
  <2>2. /\ s' \in Sender /\ s'.isn = s.isn /\ s'.stream = s.stream
        /\ s'.next_seqno = s.next_seqno /\ s'.abs_ackno = s.abs_ackno
        /\ s'.outstanding = s.outstanding /\ s'.timer = s.timer /\ s'.segments_out = z
    BY Zenon, <2>1, <1>1 DEF Sender
  <2> QED
    BY <2>2 DEF z
<1>3. Accounting' /\ OutstandingCoversFlight' /\ FlightContent'
  BY <1>1, <1>2, FlightFrame
<1>4. NoStall'
  BY <1>1, <1>2, StallFrame
<1>5. TypeOK' /\ TimerArmed' /\ s'.timer.timeout > 0 /\ SendsOnlyFlight'
  BY <1>1, <1>2 DEF TypeOK, TimerArmed, SendsOnlyFlight
<1> QED
  BY <1>3, <1>4, <1>5 DEF IInv

(* Every step keeps the invariant: one case per action.                    *)
LEMMA StepIInv == IInv /\ [Next]_vars => IInv'
<1> SUFFICES ASSUME IInv, [Next]_vars PROVE IInv'
  OBVIOUS
<1>1. CASE FillWindow
  <2>1. s' = s /\ ctl' = "fill"
    BY <1>1 DEF FillWindow
  <2> QED
    BY <2>1, SameSender DEF IInv, TypeOK, NoStall
<1>2. CASE \E k \in 1 .. MaxWritten : Write(k)
  BY <1>2, WriteIInv
<1>3. CASE EndInput
  BY <1>3, EndInputIInv
<1>4. CASE \E no \in WrappingInt32, win \in 0 .. MaxWindow : AckReceived(no, win)
  BY SMTT(30), <1>4, AckReceivedIInv
<1>5. CASE \E ms \in 1 .. MaxMs : Tick(ms)
  BY <1>5, TickIInv
<1>6. CASE SendEmpty
  BY <1>6, SendEmptyIInv
<1>7. CASE FillStep
  BY <1>7, FillStepIInv
<1>8. CASE FillReturn
  BY <1>8, FillReturnIInv
<1>9. CASE Drain
  BY <1>9, DrainIInv
<1>10. CASE UNCHANGED vars
  <2>1. s' = s /\ ctl' = ctl
    BY <1>10 DEF vars
  <2>2. NoStall'
    BY <2>1 DEF IInv, NoStall, Unsent
  <2> QED
    BY <2>1, <2>2, SameSender DEF IInv, TypeOK
<1> QED
  BY <1>1, <1>2, <1>3, <1>4, <1>5, <1>6, <1>7, <1>8, <1>9, <1>10 DEF Next

(* Only an iteration of fill_window() moves _next_seqno.                   *)
LEMMA OnlyFillSends ==
    ASSUME IInv, Next, s'.next_seqno # s.next_seqno
    PROVE  FillStep
<1>1. s \in Sender
  BY DEF IInv, TypeOK
<1>2. ASSUME NEW k \in 1 .. MaxWritten, Write(k) PROVE s'.next_seqno = s.next_seqno
  BY <1>1, <1>2 DEF Write, Sender
<1>3. ASSUME EndInput PROVE s'.next_seqno = s.next_seqno
  BY <1>1, <1>3 DEF EndInput, Sender
<1>4. ASSUME NEW no \in WrappingInt32, NEW win \in 0 .. MaxWindow, AckReceived(no, win)
      PROVE  s'.next_seqno = s.next_seqno
  <2>1. s' = UpdateWindow(s, win) => s'.next_seqno = s.next_seqno
    BY <1>1 DEF UpdateWindow, Sender
  <2> DEFINE a == unwrap(no, s.isn, s.abs_ackno)
  <2>2. a \in Nat
    BY <1>1, SenderFields, UnwrapNat
  <2>3. win \in 0 .. U16 - 1
    BY Constants
  <2> HIDE DEF a
  <2>4. s' = TakeAck(UpdateWindow(s, win), a) => s'.next_seqno = s.next_seqno
    BY SMTT(30), <2>2, <2>3, <1>1, TakeAckFacts
  <2> QED
    BY <2>1, <2>4, <1>4 DEF AckReceived, a
<1>5. ASSUME NEW ms \in 1 .. MaxMs, Tick(ms) PROVE s'.next_seqno = s.next_seqno
  <2>1. s' = tick(s, ms) /\ ms \in Nat
    BY <1>5 DEF Tick
  <2> QED
    BY <2>1, <1>1, TickFacts
<1>6. ASSUME SendEmpty PROVE s'.next_seqno = s.next_seqno
  BY <1>1, <1>6 DEF SendEmpty, send_empty_segment, Sender
<1>7. ASSUME Drain PROVE s'.next_seqno = s.next_seqno
  BY <1>1, <1>7 DEF Drain, Sender
<1> QED
  BY <1>2, <1>3, <1>4, <1>5, <1>6, <1>7 DEF Next, FillWindow, FillReturn

(* The payload an iteration sends ends inside the window.                  *)
LEMMA FillStepWindow ==
    ASSUME IInv, FillStep
    PROVE  s.next_seqno + Bit(NextSegment(s).syn) + Len(NextSegment(s).payload) <= WindowEnd
<1> DEFINE y == Bit(NextSegment(s).syn)
           p == Len(NextSegment(s).payload)
<1>1. s \in Sender /\ Accounting /\ TypeOK /\ ~FillDone(s)
  BY DEF IInv, TypeOK, FillStep
<1>2. s.next_seqno \in Nat /\ s.abs_ackno \in Nat /\ s.window_size \in Nat
  BY <1>1, SenderFields
<1>3. PayloadLimit(s) \in Nat /\ PayloadLimit(s) + y <= Room(s) /\ p \in Nat /\ p <= PayloadLimit(s)
  BY <1>1, SegmentFacts
<1>4. s.abs_ackno <= s.next_seqno /\ s.next_seqno <= s.abs_ackno + s.window_size
  <2>1. s.abs_ackno <= s.next_seqno
    BY <1>1 DEF Accounting
  <2>2. ~(s.next_seqno > s.abs_ackno + s.window_size)
    BY <1>1 DEF FillDone
  <2> QED
    BY SMTT(30), <2>1, <2>2, <1>2
<1>5. Room(s) = IF s.window_size = 0 /\ s.next_seqno = s.abs_ackno
                THEN 1 ELSE s.abs_ackno + s.window_size - s.next_seqno
  BY <1>1, <1>4, RoomFacts
<1>6. y \in Nat
  BY DEF Bit
<1> HIDE DEF y, p
<1>7. s.next_seqno + Room(s) <= WindowEnd
  BY <1>2, <1>4, <1>5 DEF WindowEnd
<1>8. Room(s) \in Nat /\ WindowEnd \in Nat
  BY <1>1, <1>2, RoomFacts DEF WindowEnd
<1>9. s.next_seqno + y + p <= WindowEnd
  BY <1>2, <1>3, <1>6, <1>7, <1>8
<1> QED
  BY <1>9 DEF y, p

(* The conjunction of the sender's invariants holds for every size of the  *)
(* sequence space, window, payload, capacity and timeout.                  *)
THEOREM SenderInvariant == Spec => []IInv
BY InitIInv, StepIInv, PTL DEF Spec

(* TCPSender's members keep their types; the window stays a uint16_t.      *)
THEOREM SenderTypes == Spec => []TypeOK
<1>1. IInv => TypeOK
  BY DEF IInv
<1> QED
  BY <1>1, SenderInvariant, PTL

(* _next_seqno and the bytes taken from the stream agree, SYN and FIN      *)
(* included, and what is left in the stream follows them in order          *)
(* (tcp_sender.cc:29,53,67).                                               *)
THEOREM SenderAccounts == Spec => []Accounting
<1>1. IInv => Accounting
  BY DEF IInv
<1> QED
  BY <1>1, SenderInvariant, PTL

(* What fill_window() sent and ack_received() did not yet erase is exactly *)
(* the unacknowledged part of the sequence space.                          *)
THEOREM FlightIsCovered == Spec => []OutstandingCoversFlight
<1>1. IInv => OutstandingCoversFlight
  BY DEF IInv
<1> QED
  BY <1>1, SenderInvariant, PTL

(* The segments in flight carry the bytes that were written.               *)
THEOREM FlightIsFaithful == Spec => []FlightContent
<1>1. IInv => FlightContent
  BY DEF IInv
<1> QED
  BY <1>1, SenderInvariant, PTL

(* tick() finds the timer running whenever something is outstanding.       *)
THEOREM TimerIsArmed == Spec => []TimerArmed
<1>1. IInv => TimerArmed
  BY DEF IInv
<1> QED
  BY <1>1, SenderInvariant, PTL

(* The connection is only handed empty segments and segments in flight.    *)
THEOREM OnlyFlightIsSent == Spec => []SendsOnlyFlight
<1>1. IInv => SendsOnlyFlight
  BY DEF IInv
<1> QED
  BY <1>1, SenderInvariant, PTL

(* fill_window() never returns with work left and nothing in flight.       *)
THEOREM SenderNeverStalls == Spec => []NoStall
<1>1. IInv => NoStall
  BY DEF IInv
<1> QED
  BY <1>1, SenderInvariant, PTL

(* fill_window() sends no byte beyond the window last offered.             *)
THEOREM PayloadInWindow == Spec => DataWithinWindow
<1> DEFINE A == s'.next_seqno > s.next_seqno =>
                   s.next_seqno + Bit(NextSegment(s).syn) + Len(NextSegment(s).payload) <= WindowEnd
<1>1. IInv /\ [Next]_vars => [A]_vars
  <2> SUFFICES ASSUME IInv, Next, s'.next_seqno > s.next_seqno
               PROVE  s.next_seqno + Bit(NextSegment(s).syn) + Len(NextSegment(s).payload) <= WindowEnd
    OBVIOUS
  <2>1. s.next_seqno \in Nat
    BY SenderFields DEF IInv, TypeOK
  <2>2. s'.next_seqno # s.next_seqno
    BY <2>1
  <2> QED
    BY <2>2, OnlyFillSends, FillStepWindow
<1> QED
  BY <1>1, SenderInvariant, PTL DEF Spec, DataWithinWindow
=============================================================================
