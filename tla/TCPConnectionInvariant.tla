----------------------- MODULE TCPConnectionInvariant -----------------------
(***************************************************************************)
(* Two connected TCPConnections, for all capacities, payload sizes, bounds *)
(* and streams, over a network that may lose, repeat, delay and reorder.   *)
(*                                                                         *)
(* The argument has two halves that depend on each other.  Every segment   *)
(* under way carries bytes of its sender's stream at their places          *)
(* (Carried), so the peer's reassembler stays in order with respect to     *)
(* what was sent; and every ackno under way is at most the receiver's own  *)
(* (Acks), so a sender never counts as acknowledged what has not been      *)
(* assembled.  unwrap() is exact because a stream is shorter than half of  *)
(* the sequence numbers.  What has been sent, assembled and acknowledged   *)
(* only grows, so old segments stay true.                                  *)
(*                                                                         *)
(* The calls of the methods are taken one by one, under two promises,      *)
(* SenderPromise and ReceivePromise, that TCPConnectionProofs discharges.  *)
(***************************************************************************)
EXTENDS TCPConnectionSpec, CommonProofs

USE SMTT(30)

AnySegment ==
    [seqno : Nat, syn : BOOLEAN, fin : BOOLEAN, payload : Seq(Int),
     ack : BOOLEAN, ackno : Nat, win : Nat, rst : BOOLEAN]

Flying == [seqno : Nat, segment : AnySegment]

Sender ==
    [isn : WrappingInt32, segments_out : Seq(AnySegment), stream : Stream(Int),
     next_seqno : Nat, abs_ackno : Nat, window_size : 0 .. U16 - 1,
     outstanding : Seq(Flying), timer : [time_elapsed : Nat, timeout : Nat], n_consec : Nat]

(* The stream of e, and what its sender has sent of it.                    *)
At(e) == [p \in Nat |-> ByteAt(e, p)]

SentPlaces(s) == 0 .. bytes_read(s.stream) - 1

SentEnd(s) == {f \in {s.stream.written} : s.next_seqno = f + 2}

(* A segment is part of a stream of which P and the end F have been sent,  *)
(* n numbers with SYN and FIN.                                             *)
Carried(seg, isn, at, P, F, n) ==
    n > 0 /\ \E m \in 0 .. n :
        /\ seg.seqno = wrap(m, isn) /\ seg.syn = (m = 0)
        /\ Run(seg.payload, FirstOf(m), at)
        /\ FirstOf(m) .. FirstOf(m) + Len(seg.payload) - 1 \subseteq P
        /\ seg.fin => FirstOf(m) + Len(seg.payload) \in F

From(seg, s, e) ==
    seg \in AnySegment /\ Carried(seg, Isn(e), At(e), SentPlaces(s), SentEnd(s), s.next_seqno)

(* The ackno of a segment that comes from an endpoint with the receiver v, *)
(* which listens to isn.                                                   *)
Acks(seg, v, isn) ==
    seg.ack => seg.win < U16 /\ \E a \in 1 .. AbsAckno(v) : seg.ackno = wrap(a, isn)

(* A sender of e's stream.                                                 *)
Numbers(s, e) ==
    LET q == s.stream
    IN  /\ Len(q.buf) <= send_capacity /\ Len(q.buf) <= q.written /\ q.written <= MaxBytes(e)
        /\ s.abs_ackno <= s.next_seqno
        /\ s.next_seqno = 0 => bytes_read(q) = 0 /\ s.outstanding = <<>> /\ s.n_consec = 0
        /\ s.next_seqno > 0 =>
              \/ s.next_seqno = bytes_read(q) + 1
              \/ s.next_seqno = bytes_read(q) + 2 /\ q.ended /\ Len(q.buf) = 0
        /\ s.abs_ackno = 0 => s.window_size = 1 /\ s.next_seqno <= 1

Sends(s, e) ==
    /\ s \in Sender /\ s.isn = Isn(e)
    /\ Numbers(s, e)
    /\ Run(s.stream.buf, bytes_read(s.stream), At(e))
    /\ \A i \in 1 .. Len(s.outstanding) : From(s.outstanding[i].segment, s, e)
    /\ \A i \in 1 .. Len(s.segments_out) : From(s.segments_out[i], s, e)

(* A connection: its members, what the flags mean, and how it stands to    *)
(* its peer, whose sender is t and whose receiver is v.                    *)
IsConnection(c, s, w, out, l, a, q) ==
    c = [sender |-> s, receiver |-> w, segments_out |-> out, linger |-> l, active |-> a, quiet |-> q]

Flags(c) ==
    /\ c.linger \in BOOLEAN /\ c.active \in BOOLEAN
    /\ c.linger = FALSE => inbound(c).ended
    /\ c.active = FALSE /\ inbound(c).error = FALSE => inbound(c).ended /\ ostream_done(c)
    /\ inbound(c).error = outbound(c).error

Stands(c, e, t, v) ==
    /\ IsConnection(c, c.sender, c.receiver, c.segments_out, c.linger, c.active, c.quiet)
    /\ Flags(c)
    /\ Sends(c.sender, e)
    /\ c.sender.abs_ackno <= AbsAckno(v)
    /\ Listens(c.receiver, Isn(Peer(e)), At(Peer(e)), SentPlaces(t), SentEnd(t))
    /\ c.receiver.syn_received => t.next_seqno > 0

(* A segment that e may have sent.                                         *)
Good(seg, c, e) == From(seg, c.sender, e) /\ Acks(seg, c.receiver, Isn(Peer(e)))

(* Both connections C and all segments N under way, and never do both      *)
(* connections skip the lingering.                                         *)
Pair(C, N, e) ==
    /\ Stands(C[e], e, C[Peer(e)].sender, C[Peer(e)].receiver)
    /\ C[e].active => C[e].segments_out = <<>>
    /\ \A seg \in N[Peer(e)] : Good(seg, C[e], e)

Consistent(C, N) ==
    /\ C = [e \in Endpoint |-> C[e]] /\ N = [e \in Endpoint |-> N[e]]
    /\ \A e \in Endpoint : Pair(C, N, e)
    /\ \E e \in Endpoint : C[e].linger

IInv == Consistent(conn, net)

(***************************************************************************)
(* What the sender's methods do.                                           *)
(***************************************************************************)

(* The assumptions on the constants, in one place.                         *)
LEMMA Constants ==
    /\ Wrap \in Nat \ {0} /\ U64 \in Nat \ {0} /\ Wrap <= U64
    /\ U16 \in Nat \ {0, 1} /\ MAX_PAYLOAD_SIZE \in Nat \ {0} /\ MAX_RETX_ATTEMPTS \in Nat
    /\ rt_timeout \in Nat \ {0} /\ send_capacity \in Nat \ {0} /\ recv_capacity \in Nat \ {0}
    /\ \A e \in Endpoint :
          /\ Isn(e) \in WrappingInt32 /\ MaxBytes(e) \in Nat /\ 2 * (MaxBytes(e) + 2) < Wrap
          /\ Peer(e) \in Endpoint /\ Peer(e) # e /\ Peer(Peer(e)) = e
<1>1. Wrap \in Nat \ {0} /\ Wraps \in Nat \ {0} /\ U64 \in Nat \ {0}
  BY WrapAssumption, ModU64, 0 \in Int
<1>2. Wrap <= U64
  <2>1. 1 <= Wraps /\ 1 \in Int /\ Wraps \in Int
    BY <1>1
  <2>2. 1 * Wrap <= Wraps * Wrap
    BY <1>1, <2>1, MulMono
  <2> QED
    BY <1>1, <2>1, <2>2 DEF U64
<1>3. ASSUME NEW e \in Endpoint
      PROVE  /\ Isn(e) \in WrappingInt32 /\ MaxBytes(e) \in Nat /\ 2 * (MaxBytes(e) + 2) < Wrap
             /\ Peer(e) \in Endpoint /\ Peer(e) # e /\ Peer(Peer(e)) = e
  BY <1>1, ConnectionAssumption, ShortStreamsAssumption
     DEF Endpoint, Isn, MaxBytes, Peer, WrappingInt32
<1> QED
  BY <1>1, <1>2, <1>3, SenderAssumption, CapacityAssumption

(* The empty sequence, and a sequence with one more element.               *)
LEMMA EmptyIsSeq ==
    ASSUME NEW S
    PROVE  <<>> \in Seq(S)
OBVIOUS

(* A sequence with one more element.                                       *)
LEMMA AppendIs ==
    ASSUME NEW S, NEW q \in Seq(S), NEW x \in S
    PROVE  /\ Append(q, x) \in Seq(S) /\ Len(Append(q, x)) = Len(q) + 1 /\ Len(q) \in Nat
           /\ \A i \in 1 .. Len(q) + 1 : Append(q, x)[i] = IF i <= Len(q) THEN q[i] ELSE x
OBVIOUS

(* wrap() returns a natural number.                                        *)
LEMMA WrapNat ==
    ASSUME NEW n \in Nat, NEW i \in WrappingInt32
    PROVE  wrap(n, i) \in WrappingInt32 /\ wrap(n, i) \in Nat
<1>1. n + i \in Int
  BY Constants DEF WrappingInt32
<1>2. (n + i) % U64 \in Int
  BY <1>1, Constants, DivMod
<1>3. ((n + i) % U64) % Wrap \in 0 .. Wrap - 1
  BY Zenon, <1>2, Constants, DivMod
<1> QED
  BY <1>3, Constants DEF wrap, WrappingInt32

(* The fields of a sender have their types.                                *)
LEMMA SenderFields ==
    ASSUME NEW s \in Sender
    PROVE  /\ s.isn \in WrappingInt32 /\ s.segments_out \in Seq(AnySegment)
           /\ s.stream \in Stream(Int) /\ s.next_seqno \in Nat /\ s.abs_ackno \in Nat
           /\ s.window_size \in 0 .. U16 - 1 /\ s.window_size \in Nat
           /\ s.outstanding \in Seq(Flying)
           /\ s.timer \in [time_elapsed : Nat, timeout : Nat] /\ s.n_consec \in Nat
           /\ s.stream.buf \in Seq(Int) /\ s.stream.written \in Nat
           /\ s.stream.ended \in BOOLEAN /\ s.stream.error \in BOOLEAN
           /\ Len(s.stream.buf) \in Nat
           /\ Len(s.outstanding) \in Nat /\ Len(s.segments_out) \in Nat
BY Constants DEF Sender, Stream

(* The bytes read() takes and the stream it leaves.                        *)
Took(t, w, q, len, at) ==
    /\ t \in Seq(Int) /\ Len(t) = MinOf(len, Len(q.buf)) /\ Run(t, bytes_read(q), at)
    /\ Popped(w, q, Len(t), at)

(* read() takes a run of the stream.                                       *)
LEMMA ReadTakes ==
    ASSUME NEW q \in Stream(Int), NEW at, Len(q.buf) <= q.written, Run(q.buf, bytes_read(q), at),
           NEW len \in Nat
    PROVE  Took(peek_output(q, len), after_read(q, len), q, len, at)
<1> DEFINE m == MinOf(len, Len(q.buf))
           t == SubSeq(q.buf, 1, m)
<1>1. q.buf \in Seq(Int) /\ Len(q.buf) \in Nat /\ q.written \in Nat
  BY DEF Stream
<1>2. m \in 0 .. Len(q.buf) /\ m \in Nat /\ m <= Len(q.buf)
  BY <1>1 DEF MinOf
<1>3. bytes_read(q) \in Nat
  BY <1>1 DEF bytes_read
<1> HIDE DEF m
<1>4. t \in Seq(Int) /\ Len(t) = m
  BY <1>1, <1>2
<1>5. Run(t, bytes_read(q), at)
  BY <1>2, <1>3, RunPrefix
<1>6. peek_output(q, len) = t /\ after_read(q, len) = pop_output(q, m)
  BY <1>4 DEF peek_output, after_read, m
<1> HIDE DEF t
<1>7. Popped(after_read(q, len), q, m, at)
  BY Zenon, <1>2, <1>6, PopLeaves
<1> QED
  BY Zenon, <1>4, <1>5, <1>6, <1>7 DEF Took, m

(* n_bytes_to_send: a uint16_t; before the SYN is acknowledged it is the   *)
(* one number of the initial window.                                       *)
LEMMA RoomFacts ==
    ASSUME NEW s \in Sender
    PROVE  /\ Room(s) \in Nat
           /\ s.abs_ackno = 0 /\ s.window_size = 1 /\ s.next_seqno <= 1 => Room(s) = 1 - s.next_seqno
<1> DEFINE x == s.window_size - (s.next_seqno - s.abs_ackno)
<1>1. /\ s.next_seqno \in Nat /\ s.abs_ackno \in Nat /\ s.window_size \in Nat
      /\ U16 \in Nat \ {0, 1} /\ x \in Int
  BY SenderFields, Constants
<1>2. x % U16 \in Nat
  <2>1. x % U16 \in 0 .. U16 - 1
    BY Zenon, <1>1, DivMod
  <2> QED
    BY <1>1, <2>1
<1>3. Room(s) = IF s.window_size = 0 /\ s.next_seqno - s.abs_ackno = 0 THEN 1 ELSE x % U16
  BY DEF Room, bytes_in_flight
<1>4. ASSUME s.abs_ackno = 0, s.window_size = 1, s.next_seqno <= 1 PROVE Room(s) = 1 - s.next_seqno
  <2>1. x = 1 - s.next_seqno /\ x \in 0 .. U16 - 1
    BY <1>1, <1>4
  <2> HIDE DEF x
  <2>2. x % U16 = x
    <3>1. x = 0 * U16 + x
      BY <1>1
    <3> QED
      BY <1>1, <2>1, <3>1, ModUnique, 0 \in Int
  <2> QED
    BY <1>3, <1>4, <2>1, <2>2
<1> QED
  BY <1>2, <1>3, <1>4

(* What a sender has sent only grows.                                      *)
Grown(t, s) ==
    /\ s.next_seqno <= t.next_seqno
    /\ SentPlaces(s) \subseteq SentPlaces(t)
    /\ SentEnd(s) \subseteq SentEnd(t)

(* fill_window() as seen from outside.                                     *)
Fills(t, s, e) ==
    /\ Sends(t, e) /\ Grown(t, s)
    /\ t.abs_ackno = s.abs_ackno /\ t.stream.error = s.stream.error

(* A segment that was part of what had been sent stays one.                *)
LEMMA MoreFrom ==
    ASSUME NEW s \in Sender, NEW t \in Sender, Grown(t, s), NEW e, NEW seg, From(seg, s, e)
    PROVE  From(seg, t, e)
<1>1. s.next_seqno \in Nat /\ t.next_seqno \in Nat /\ s.next_seqno <= t.next_seqno
  BY SenderFields DEF Grown
<1>2. PICK m \in 0 .. s.next_seqno :
        /\ seg.seqno = wrap(m, Isn(e)) /\ seg.syn = (m = 0)
        /\ Run(seg.payload, FirstOf(m), At(e))
        /\ FirstOf(m) .. FirstOf(m) + Len(seg.payload) - 1 \subseteq SentPlaces(s)
        /\ seg.fin => FirstOf(m) + Len(seg.payload) \in SentEnd(s)
  BY Zenon DEF From, Carried
<1>5. s.next_seqno > 0
  BY Zenon DEF From, Carried
<1>3. m \in 0 .. t.next_seqno /\ t.next_seqno > 0
  BY <1>1, <1>5
<1>4. /\ FirstOf(m) .. FirstOf(m) + Len(seg.payload) - 1 \subseteq SentPlaces(t)
      /\ seg.fin => FirstOf(m) + Len(seg.payload) \in SentEnd(t)
  BY Zenon, <1>2 DEF Grown
<1> QED
  BY Zenon, <1>2, <1>3, <1>4 DEF From, Carried

(* The record an iteration of fill_window() builds.                        *)
LEMMA NextSegmentIs ==
    ASSUME NEW s \in Sender, PayloadLimit(s) \in Nat
    PROVE  /\ NextSegment(s) =
                [seqno |-> wrap(s.next_seqno, s.isn), syn |-> SendsSyn(s), fin |-> SendsFin(s),
                 payload |-> peek_output(s.stream, PayloadLimit(s)),
                 ack |-> FALSE, ackno |-> 0, win |-> 0, rst |-> FALSE]
           /\ SendsSyn(s) \in BOOLEAN /\ SendsFin(s) \in BOOLEAN
<1>1. PICK no, y, f, p : /\ no = wrap(s.next_seqno, s.isn) /\ y = SendsSyn(s) /\ f = SendsFin(s)
                         /\ p = peek_output(s.stream, PayloadLimit(s))
  OBVIOUS
<1>2. NextSegment(s) = [DefaultSegment EXCEPT !.seqno = no, !.syn = y, !.fin = f, !.payload = p]
  BY Zenon, <1>1 DEF NextSegment
<1>3. NextSegment(s) = [seqno |-> no, syn |-> y, fin |-> f, payload |-> p,
                        ack |-> FALSE, ackno |-> 0, win |-> 0, rst |-> FALSE]
  BY Zenon, <1>2 DEF DefaultSegment
<1>4. SendsSyn(s) \in BOOLEAN /\ SendsFin(s) \in BOOLEAN
  BY DEF SendsSyn, SendsFin
<1> QED
  BY Zenon, <1>1, <1>3, <1>4

(* An iteration that sends, member by member.                              *)
SentNext(t, s, seg) ==
    /\ t \in Sender /\ t.isn = s.isn /\ t.abs_ackno = s.abs_ackno /\ t.window_size = s.window_size
    /\ t.n_consec = s.n_consec /\ t.stream = after_read(s.stream, PayloadLimit(s))
    /\ t.segments_out = Append(s.segments_out, seg)
    /\ t.outstanding = Append(s.outstanding, [seqno |-> s.next_seqno, segment |-> seg])
    /\ t.next_seqno = s.next_seqno + length_in_sequence_space(seg)

(* An iteration of fill_window() that sends, as a record                   *)
(* (tcp_sender.cc:26-73).                                                  *)
LEMMA SendNextIs ==
    ASSUME NEW s \in Sender, NEW seg, seg = NextSegment(s), seg \in AnySegment,
           length_in_sequence_space(seg) \in Nat,
           after_read(s.stream, PayloadLimit(s)) \in Stream(Int)
    PROVE  SentNext(SendNext(s), s, seg)
<1> DEFINE o   == [seqno |-> s.next_seqno, segment |-> seg]
           q   == after_read(s.stream, PayloadLimit(s))
           so  == Append(s.segments_out, seg)
           out == Append(s.outstanding, o)
           n   == s.next_seqno + length_in_sequence_space(seg)
           tm  == IF expired(s.timer) THEN start(rt_timeout) ELSE s.timer
<1>1. o \in Flying
  BY SenderFields DEF Flying
<1>2. q \in Stream(Int)
  OBVIOUS
<1>3. so \in Seq(AnySegment) /\ out \in Seq(Flying)
  BY <1>1, SenderFields, AppendIs
<1>4. n \in Nat
  BY SenderFields
<1>5. tm \in [time_elapsed : Nat, timeout : Nat]
  BY SenderFields, Constants DEF start
<1>6. SendNext(s) = [s EXCEPT !.stream = q, !.segments_out = so, !.outstanding = out,
                              !.next_seqno = n, !.timer = tm]
  BY Zenon DEF SendNext
<1> HIDE DEF o, q, so, out, n, tm
<1>7. /\ SendNext(s) \in Sender
      /\ SendNext(s).isn = s.isn /\ SendNext(s).abs_ackno = s.abs_ackno
      /\ SendNext(s).window_size = s.window_size /\ SendNext(s).n_consec = s.n_consec
      /\ SendNext(s).stream = q /\ SendNext(s).segments_out = so
      /\ SendNext(s).outstanding = out /\ SendNext(s).next_seqno = n
  BY Zenon, <1>2, <1>3, <1>4, <1>5, <1>6 DEF Sender
<1> QED
  BY Zenon, <1>7 DEF SentNext, o, q, so, out, n

(* The numbers of one iteration: n is _next_seqno, a _abs_ackno, L and b   *)
(* the bytes taken from and in the stream before, y and f the flags.       *)
Iteration(n, a, room, lim, L, b, wr, y, f, ended) ==
    /\ n \in Nat /\ a \in Nat /\ room \in Nat /\ lim \in Nat /\ L \in Nat /\ b \in Nat /\ wr \in Nat
    /\ y \in BOOLEAN /\ f \in BOOLEAN /\ ended \in BOOLEAN
    /\ a <= n /\ b <= wr /\ (n = 0 => wr - b = 0)
    /\ n > 0 => n = wr - b + 1 \/ (n = wr - b + 2 /\ ended /\ b = 0)
    /\ a = 0 => n <= 1 /\ room = 1 - n
    /\ y <=> n = 0 /\ room > 0
    /\ lim = MinOf(room - Bit(y), MAX_PAYLOAD_SIZE) /\ L = MinOf(lim, b)
    /\ f => ended /\ b - L = 0 /\ (lim = MAX_PAYLOAD_SIZE \/ lim > L)
    /\ ~(ended /\ b = 0 /\ n >= wr + 2) /\ L + Bit(y) + Bit(f) # 0

Iterated(n, a, L, b, wr, y, f) ==
    /\ L <= b
    /\ FirstOf(n) = wr - b
    /\ y <=> n = 0
    /\ n + (L + Bit(y) + Bit(f)) > 0
    /\ n + (L + Bit(y) + Bit(f)) = wr - (b - L) + 1 + Bit(f)
    /\ a = 0 => n + (L + Bit(y) + Bit(f)) <= 1
    /\ n # wr + 2

(* The numbers of the sender after an iteration that sends                 *)
(* (tcp_sender.cc:26-73).                                                  *)
LEMMA NextNumbers ==
    ASSUME NEW n, NEW a, NEW room, NEW lim, NEW L, NEW b, NEW wr, NEW y, NEW f, NEW ended,
           Iteration(n, a, room, lim, L, b, wr, y, f, ended)
    PROVE  Iterated(n, a, L, b, wr, y, f)
<1> USE DEF Iteration, Iterated
<1>1. MAX_PAYLOAD_SIZE \in Nat \ {0}
  BY Constants
<1>2. L <= b
  BY DEF MinOf
<1>3. CASE n = 0
  <2>1. a = 0 /\ room = 1 /\ wr = b
    BY <1>3
  <2>2. y
    BY <1>3, <2>1
  <2>3. lim = 0
    BY <1>1, <2>1, <2>2 DEF MinOf, Bit
  <2>4. L = 0
    BY <2>3 DEF MinOf
  <2>5. ~f
    BY <1>1, <2>3, <2>4
  <2> QED
    BY <1>2, <1>3, <2>1, <2>2, <2>4, <2>5 DEF Bit, FirstOf
<1>4. CASE n > 0
  <2>1. ~y /\ n = wr - b + 1 /\ FirstOf(n) = wr - b
    <3>1. ~y
      BY <1>4
    <3>2. n = wr - b + 1
      BY <1>4
    <3> QED
      BY <1>4, <3>1, <3>2 DEF FirstOf
  <2>2. ASSUME a = 0 PROVE FALSE
    <3>1. room = 0 /\ lim = 0
      BY <1>1, <1>4, <2>1, <2>2 DEF MinOf, Bit
    <3>2. L = 0
      BY <3>1 DEF MinOf
    <3> QED
      BY <1>1, <2>1, <3>1, <3>2 DEF Bit
  <2> QED
    BY <1>2, <1>4, <2>1, <2>2 DEF Bit
<1> QED
  BY <1>3, <1>4

(* An iteration that sends keeps the sender in order.                      *)
LEMMA SendNextFills ==
    ASSUME NEW e \in Endpoint, NEW s, Sends(s, e), ~FillDone(s)
    PROVE  Fills(SendNext(s), s, e)
<1> DEFINE q   == s.stream
           n   == s.next_seqno
           a   == s.abs_ackno
           b   == Len(q.buf)
           wr  == q.written
           lim == PayloadLimit(s)
           p   == peek_output(q, lim)
           q2  == after_read(q, lim)
           L   == Len(p)
           y   == SendsSyn(s)
           f   == SendsFin(s)
           seg == NextSegment(s)
           t   == SendNext(s)
           o   == [seqno |-> n, segment |-> seg]
<1>1. /\ s \in Sender /\ s.isn = Isn(e) /\ Numbers(s, e) /\ Run(q.buf, bytes_read(q), At(e))
      /\ Isn(e) \in WrappingInt32
  BY Constants DEF Sends
<1>2. /\ q \in Stream(Int) /\ n \in Nat /\ a \in Nat /\ b \in Nat /\ wr \in Nat
      /\ q.ended \in BOOLEAN /\ q.error \in BOOLEAN
  BY <1>1, SenderFields
<1>3. /\ b <= wr /\ a <= n /\ (n = 0 => wr - b = 0)
      /\ n > 0 => n = wr - b + 1 \/ (n = wr - b + 2 /\ q.ended /\ b = 0)
      /\ a = 0 => s.window_size = 1 /\ n <= 1
      /\ b <= send_capacity /\ wr <= MaxBytes(e) /\ (n = 0 => s.n_consec = 0)
  BY <1>1 DEF Numbers, bytes_read
<1>4. Room(s) \in Nat /\ (a = 0 => Room(s) = 1 - n)
  BY <1>1, <1>3, RoomFacts
<1>5. y \in BOOLEAN /\ f \in BOOLEAN /\ (y <=> n = 0 /\ Room(s) > 0)
  BY DEF SendsSyn, SendsFin
<1>6. lim = MinOf(Room(s) - Bit(y), MAX_PAYLOAD_SIZE) /\ lim \in Nat
  BY <1>4, Constants DEF PayloadLimit, SendsSyn, Bit, MinOf
<1>7. Took(p, q2, q, lim, At(e))
  BY Zenon, <1>1, <1>2, <1>3, <1>6, ReadTakes
<1>8. /\ p \in Seq(Int) /\ L = MinOf(lim, b) /\ Run(p, bytes_read(q), At(e)) /\ L \in Nat
      /\ q2 \in Stream(Int) /\ q2.written = wr /\ q2.ended = q.ended /\ q2.error = q.error
      /\ Len(q2.buf) = b - L /\ Run(q2.buf, bytes_read(q2), At(e))
  BY Zenon, <1>2, <1>6, <1>7 DEF Took, Popped, MinOf
<1>9. f => q.ended /\ b - L = 0 /\ (lim = MAX_PAYLOAD_SIZE \/ lim > L)
  <2>1. f => q2.ended /\ q2.buf = <<>> /\ (lim = MAX_PAYLOAD_SIZE \/ lim > L)
    BY Zenon DEF SendsFin, eof, input_ended, buffer_empty
  <2>2. q2.buf = <<>> => Len(q2.buf) = 0
    OBVIOUS
  <2> QED
    BY Zenon, <1>8, <2>1, <2>2
<1>10. /\ seg = [seqno |-> wrap(n, Isn(e)), syn |-> y, fin |-> f, payload |-> p,
                 ack |-> FALSE, ackno |-> 0, win |-> 0, rst |-> FALSE]
       /\ wrap(n, Isn(e)) \in Nat
  BY Zenon, <1>1, <1>2, <1>6, NextSegmentIs, WrapNat
<1>11. ~(q.ended /\ b = 0 /\ n >= wr + 2)
  <2>1. ~(q.ended /\ q.buf = <<>> /\ n >= wr + 2)
    BY Zenon DEF FillDone, eof, input_ended, buffer_empty, bytes_written
  <2>2. b = 0 => q.buf = <<>>
    BY <1>2 DEF Stream
  <2> QED
    BY Zenon, <2>1, <2>2
<1>12. /\ seg \in AnySegment /\ length_in_sequence_space(seg) = L + Bit(y) + Bit(f)
       /\ seg.seqno = wrap(n, Isn(e)) /\ seg.syn = y /\ seg.fin = f /\ seg.payload = p
  <2> HIDE DEF seg, y, f, p, L
  <2>1. /\ seg \in AnySegment /\ seg.seqno = wrap(n, Isn(e)) /\ seg.syn = y /\ seg.fin = f
        /\ seg.payload = p
    BY Zenon, <1>5, <1>8, <1>10 DEF AnySegment
  <2> QED
    BY Zenon, <2>1 DEF length_in_sequence_space, L
<1>13. L + Bit(y) + Bit(f) # 0
  BY Zenon, <1>12 DEF FillDone
<1>14. length_in_sequence_space(seg) \in Nat
  BY <1>5, <1>8, <1>12 DEF Bit
<1>15. SentNext(t, s, seg)
  BY Zenon, <1>1, <1>8, <1>12, <1>14, SendNextIs
<1>16. t.next_seqno = n + (L + Bit(y) + Bit(f)) /\ t.stream = q2 /\ t \in Sender
  BY Zenon, <1>12, <1>15 DEF SentNext
<1> HIDE DEF q, n, a, b, wr, lim, p, q2, L, y, f, seg, t, o
<1>25. L \in Nat /\ L = MinOf(lim, b)
  BY Zenon, <1>8
<1>26. /\ n = 0 => wr - b = 0
       /\ n > 0 => n = wr - b + 1 \/ (n = wr - b + 2 /\ q.ended /\ b = 0)
       /\ a = 0 => n <= 1 /\ Room(s) = 1 - n
       /\ a <= n /\ b <= wr
  BY Zenon, <1>3, <1>4
<1>17. /\ L <= b /\ FirstOf(n) = wr - b /\ (y <=> n = 0)
       /\ n + (L + Bit(y) + Bit(f)) > 0
       /\ n + (L + Bit(y) + Bit(f)) = wr - (b - L) + 1 + Bit(f)
       /\ a = 0 => n + (L + Bit(y) + Bit(f)) <= 1
       /\ n # wr + 2
  <2>1. Iteration(n, a, Room(s), lim, L, b, wr, y, f, q.ended)
    BY Zenon, <1>2, <1>4, <1>5, <1>6, <1>9, <1>11, <1>13, <1>25, <1>26 DEF Iteration
  <2>2. Iterated(n, a, L, b, wr, y, f)
    BY Zenon, <2>1, NextNumbers
  <2> QED
    BY Zenon, <2>2 DEF Iterated
<1>18. bytes_read(q) = wr - b /\ bytes_read(q2) = wr - (b - L) /\ wr - b \in Nat
  BY <1>2, <1>3, <1>8 DEF bytes_read, wr, b
<1>19. Grown(t, s)
  <2>1. n <= t.next_seqno
    BY <1>2, <1>5, <1>8, <1>16 DEF Bit
  <2>2. 0 .. wr - b - 1 \subseteq 0 .. wr - (b - L) - 1
    BY <1>2, <1>8, <1>17
  <2>3. SentPlaces(s) \subseteq SentPlaces(t)
    BY Zenon, <1>16, <1>18, <2>2 DEF SentPlaces, q
  <2>4. SentEnd(s) = {}
    BY Zenon, <1>17 DEF SentEnd, q, n, wr
  <2> QED
    BY Zenon, <2>1, <2>3, <2>4 DEF Grown, n
<1>20. From(seg, t, e)
  <2>1. n \in 0 .. t.next_seqno /\ t.next_seqno > 0
    BY <1>2, <1>5, <1>16, <1>17, <1>25 DEF Bit
  <2>2. Run(seg.payload, FirstOf(n), At(e))
    BY Zenon, <1>8, <1>12, <1>17, <1>18
  <2>3. FirstOf(n) .. FirstOf(n) + L - 1 \subseteq 0 .. wr - (b - L) - 1
    <3>1. wr \in Nat /\ b \in Nat /\ L \in Nat /\ wr - b \in Nat
      BY Zenon, <1>2, <1>18, <1>25
    <3>2. wr - b .. wr - b + L - 1 \subseteq 0 .. wr - (b - L) - 1
      BY <3>1
    <3> QED
      BY Zenon, <1>17, <3>2
  <2>4. FirstOf(n) .. FirstOf(n) + Len(seg.payload) - 1 \subseteq SentPlaces(t)
    BY Zenon, <1>12, <1>16, <1>18, <2>3 DEF SentPlaces, L
  <2>5. ASSUME f PROVE FirstOf(n) + L = wr /\ t.next_seqno = wr + 2
    BY <1>2, <1>8, <1>9, <1>16, <1>17, <2>5 DEF Bit
  <2>6. f => FirstOf(n) + Len(seg.payload) \in SentEnd(t)
    BY Zenon, <1>8, <1>12, <1>16, <2>5 DEF SentEnd, L
  <2> QED
    <3>1. y = (n = 0)
      BY <1>5, <1>17
    <3> QED
      BY Zenon, <1>12, <2>1, <2>2, <2>4, <2>6, <3>1 DEF From, Carried
<1>21. Numbers(t, e)
  <2>1. /\ t.stream = q2 /\ t.abs_ackno = a /\ t.window_size = s.window_size
    BY Zenon, <1>15, <1>16 DEF SentNext, a
  <2>2. /\ t.next_seqno > 0 /\ a <= t.next_seqno /\ (a = 0 => t.next_seqno <= 1)
        /\ b - L <= send_capacity /\ b - L <= wr
    BY <1>2, <1>3, <1>5, <1>16, <1>17, <1>25, Constants DEF Bit
  <2>3. f => t.next_seqno = wr - (b - L) + 2
    BY <1>2, <1>8, <1>16, <1>17 DEF Bit
  <2>4. ~f => t.next_seqno = wr - (b - L) + 1
    BY <1>2, <1>8, <1>16, <1>17 DEF Bit
  <2>5. t.next_seqno # 0
    BY <2>2, <1>16, SenderFields
  <2> QED
    BY Zenon, <1>3, <1>8, <1>9, <1>18, <2>1, <2>2, <2>3, <2>4, <2>5 DEF Numbers
<1>22. ASSUME NEW i \in 1 .. Len(t.outstanding) PROVE From(t.outstanding[i].segment, t, e)
  <2>1. PICK out : out = s.outstanding
    OBVIOUS
  <2>2. out \in Seq(Flying) /\ o \in Flying /\ o.segment = seg
    BY Zenon, <1>1, <1>2, <1>12, <2>1, SenderFields DEF Flying, o
  <2>3. t.outstanding = Append(out, o)
    BY Zenon, <1>15, <2>1 DEF SentNext, o, n
  <2>4. Len(t.outstanding) = Len(out) + 1 /\ Len(out) \in Nat
        /\ t.outstanding[i] = IF i <= Len(out) THEN out[i] ELSE o
    BY <2>2, <2>3, AppendIs
  <2>5. CASE i <= Len(out)
    <3>1. i \in 1 .. Len(out) /\ t.outstanding[i] = out[i]
      BY <2>4, <2>5
    <3>2. From(out[i].segment, s, e)
      BY Zenon, <2>1, <3>1 DEF Sends
    <3> QED
      BY Zenon, <1>1, <1>16, <1>19, <3>1, <3>2, MoreFrom
  <2>6. CASE ~(i <= Len(out))
    BY Zenon, <1>20, <2>2, <2>4, <2>6
  <2> QED
    BY <2>5, <2>6
<1>23. ASSUME NEW i \in 1 .. Len(t.segments_out) PROVE From(t.segments_out[i], t, e)
  <2>1. PICK out : out = s.segments_out
    OBVIOUS
  <2>2. out \in Seq(AnySegment) /\ seg \in AnySegment
    BY <1>1, <1>12, <2>1, SenderFields
  <2>3. t.segments_out = Append(out, seg)
    BY Zenon, <1>15, <2>1 DEF SentNext
  <2>4. Len(t.segments_out) = Len(out) + 1 /\ Len(out) \in Nat
        /\ t.segments_out[i] = IF i <= Len(out) THEN out[i] ELSE seg
    BY <2>2, <2>3, AppendIs
  <2>5. CASE i <= Len(out)
    <3>1. i \in 1 .. Len(out) /\ t.segments_out[i] = out[i]
      BY <2>4, <2>5
    <3>2. From(out[i], s, e)
      BY Zenon, <2>1, <3>1 DEF Sends
    <3> QED
      BY Zenon, <1>1, <1>16, <1>19, <3>1, <3>2, MoreFrom
  <2>6. CASE ~(i <= Len(out))
    BY Zenon, <1>20, <2>2, <2>4, <2>6
  <2> QED
    BY <2>5, <2>6
<1>24. Sends(t, e)
  BY Zenon, <1>1, <1>8, <1>15, <1>16, <1>21, <1>22, <1>23 DEF Sends, SentNext
<1> QED
  BY Zenon, <1>8, <1>15, <1>16, <1>19, <1>24 DEF Fills, SentNext, q, t

(* To have grown is transitive.                                            *)
LEMMA GrownTwice ==
    ASSUME NEW s \in Sender, NEW t \in Sender, NEW u \in Sender, Grown(t, s), Grown(u, t)
    PROVE  Grown(u, s)
<1>1. s.next_seqno \in Nat /\ t.next_seqno \in Nat /\ u.next_seqno \in Nat
  BY SenderFields
<1>2. s.next_seqno <= t.next_seqno /\ t.next_seqno <= u.next_seqno
  BY Zenon DEF Grown
<1>3. s.next_seqno <= u.next_seqno
  BY <1>1, <1>2
<1> QED
  BY Zenon, <1>3 DEF Grown

(* A sender with the same stream and numbers has not lost what it sent.    *)
LEMMA GrownSame ==
    ASSUME NEW s \in Sender, NEW t, t.next_seqno = s.next_seqno, t.stream = s.stream
    PROVE  Grown(t, s)
<1>1. s.next_seqno <= t.next_seqno
  BY SenderFields
<1> QED
  BY Zenon, <1>1 DEF Grown, SentPlaces, SentEnd

(* A sender whose stream and numbers are in order and whose segments are   *)
(* not new.                                                                *)
LEMMA SendsFrame ==
    ASSUME NEW e \in Endpoint, NEW s, Sends(s, e), NEW t \in Sender, t.isn = s.isn, Grown(t, s),
           Numbers(t, e), Run(t.stream.buf, bytes_read(t.stream), At(e)),
           \A i \in 1 .. Len(t.outstanding) : From(t.outstanding[i].segment, s, e),
           \A i \in 1 .. Len(t.segments_out) : From(t.segments_out[i], s, e)
    PROVE  Sends(t, e)
<1>1. s \in Sender /\ s.isn = Isn(e)
  BY DEF Sends
<1>2. ASSUME NEW i \in 1 .. Len(t.outstanding) PROVE From(t.outstanding[i].segment, t, e)
  BY Zenon, <1>1, MoreFrom
<1>3. ASSUME NEW i \in 1 .. Len(t.segments_out) PROVE From(t.segments_out[i], t, e)
  BY Zenon, <1>1, MoreFrom
<1> QED
  BY Zenon, <1>1, <1>2, <1>3 DEF Sends

(* Another stream in the same sender.                                      *)
OtherStream(t, s, q) ==
    /\ t \in Sender /\ t.stream = q /\ t.isn = s.isn /\ t.segments_out = s.segments_out
    /\ t.outstanding = s.outstanding /\ t.next_seqno = s.next_seqno /\ t.abs_ackno = s.abs_ackno
    /\ t.window_size = s.window_size /\ t.n_consec = s.n_consec

(* The sender with another stream, member by member.                       *)
LEMMA OtherStreamIs ==
    ASSUME NEW s \in Sender, NEW q \in Stream(Int)
    PROVE  OtherStream([s EXCEPT !.stream = q], s, q)
BY Zenon DEF Sender, OtherStream

(* It may have been written to, ended or given an error.                   *)
LEMMA OtherStreamSends ==
    ASSUME NEW e \in Endpoint, NEW s, Sends(s, e), NEW t, NEW q, OtherStream(t, s, q),
           Len(q.buf) <= send_capacity, Len(q.buf) <= q.written, q.written <= MaxBytes(e),
           bytes_read(q) = bytes_read(s.stream), Run(q.buf, bytes_read(q), At(e)),
           s.next_seqno = bytes_read(s.stream) + 2 =>
                q.ended = s.stream.ended /\ q.written = s.stream.written /\ q.buf = s.stream.buf
    PROVE  Sends(t, e) /\ Grown(t, s) /\ t.abs_ackno = s.abs_ackno
<1>1. /\ s \in Sender /\ s.isn = Isn(e) /\ Numbers(s, e) /\ t \in Sender /\ t.stream = q
      /\ t.isn = s.isn /\ t.segments_out = s.segments_out /\ t.outstanding = s.outstanding
      /\ t.next_seqno = s.next_seqno /\ t.abs_ackno = s.abs_ackno /\ t.window_size = s.window_size
      /\ t.n_consec = s.n_consec
  BY Zenon DEF Sends, OtherStream
<1>2. s.next_seqno <= s.next_seqno
  BY <1>1, SenderFields
<1>3. Numbers(t, e)
  BY Zenon, <1>1 DEF Numbers
<1>4. SentEnd(s) \subseteq SentEnd(t)
  <2>1. SUFFICES ASSUME NEW x \in SentEnd(s) PROVE x \in SentEnd(t)
    OBVIOUS
  <2>2. x = s.stream.written /\ s.next_seqno = s.stream.written + 2
    BY Zenon, <2>1 DEF SentEnd
  <2>3. s.next_seqno = bytes_read(s.stream) + 2
    <3>1. PICK b, w, n : b = Len(s.stream.buf) /\ w = s.stream.written /\ n = s.next_seqno
      BY Zenon
    <3>2. b \in Nat /\ w \in Nat /\ n \in Nat /\ b <= w
      BY <1>1, <3>1, SenderFields DEF Numbers
    <3>3. n = 0 \/ n = w - b + 1 \/ n = w - b + 2
      <4>1. n > 0 => n = bytes_read(s.stream) + 1 \/ n = bytes_read(s.stream) + 2
        BY Zenon, <1>1, <3>1 DEF Numbers
      <4> QED
        BY <3>1, <3>2, <4>1 DEF bytes_read
    <3>4. n = w + 2
      BY <2>2, <3>1
    <3>5. n = w - b + 2
      BY <3>2, <3>3, <3>4
    <3> QED
      BY Zenon, <3>1, <3>5 DEF bytes_read
  <2>4. q.written = s.stream.written
    BY Zenon, <2>3
  <2> QED
    BY Zenon, <1>1, <2>2, <2>4 DEF SentEnd
<1>5. Grown(t, s)
  BY Zenon, <1>1, <1>2, <1>4 DEF Grown, SentPlaces
<1>6. /\ \A i \in 1 .. Len(t.outstanding) : From(t.outstanding[i].segment, s, e)
      /\ \A i \in 1 .. Len(t.segments_out) : From(t.segments_out[i], s, e)
  BY Zenon, <1>1 DEF Sends
<1>7. Sends(t, e)
  BY Zenon, <1>1, <1>3, <1>5, <1>6, SendsFrame
<1> QED
  BY Zenon, <1>1, <1>5, <1>7

(* The application ends its stream.                                        *)
LEMMA EndSends ==
    ASSUME NEW e \in Endpoint, NEW s, Sends(s, e)
    PROVE  Fills([s EXCEPT !.stream = end_input(@)], s, e)
<1> DEFINE p == s.stream
           q == end_input(p)
           t == [s EXCEPT !.stream = q]
<1>1. s \in Sender /\ p \in Stream(Int) /\ Numbers(s, e) /\ Run(p.buf, bytes_read(p), At(e))
  BY SenderFields DEF Sends
<1>2. q \in Stream(Int) /\ q.buf = p.buf /\ q.written = p.written /\ q.ended /\ q.error = p.error
  BY Zenon, <1>1 DEF end_input, Stream
<1>3. t = [s EXCEPT !.stream = end_input(@)]
  OBVIOUS
<1> HIDE DEF q
<1>4. OtherStream(t, s, q)
  BY Zenon, <1>1, <1>2, OtherStreamIs
<1> HIDE DEF p, t
<1>5. /\ Len(q.buf) <= send_capacity /\ Len(q.buf) <= q.written /\ q.written <= MaxBytes(e)
      /\ bytes_read(q) = bytes_read(p) /\ Run(q.buf, bytes_read(q), At(e))
  BY Zenon, <1>1, <1>2 DEF Numbers, bytes_read, p
<1>6. ASSUME s.next_seqno = bytes_read(p) + 2
      PROVE  q.ended = p.ended /\ q.written = p.written /\ q.buf = p.buf
  <2>1. s.next_seqno \in Nat /\ p.written \in Nat /\ Len(p.buf) \in Nat /\ Len(p.buf) <= p.written
        /\ p.ended \in BOOLEAN
    BY <1>1, SenderFields DEF Numbers, p
  <2>2. bytes_read(p) \in Nat
    BY <2>1 DEF bytes_read
  <2>3. s.next_seqno > 0 /\ s.next_seqno # bytes_read(p) + 1
    BY <1>6, <2>1, <2>2
  <2>4. p.ended
    BY Zenon, <1>1, <2>3 DEF Numbers, p
  <2>5. p.ended = TRUE /\ q.ended = TRUE
    BY <1>2, <2>1, <2>4 DEF Stream
  <2> QED
    BY Zenon, <1>2, <2>5
<1>7. Sends(t, e) /\ Grown(t, s) /\ t.abs_ackno = s.abs_ackno
  BY <1>4, <1>5, <1>6, OtherStreamSends DEF p
<1>8. t.stream = q
  BY Zenon, <1>4 DEF OtherStream
<1> QED
  BY Zenon, <1>2, <1>3, <1>7, <1>8 DEF Fills, p

(* reset() gives the stream an error.                                      *)
Broken(s) == [s EXCEPT !.stream = set_error(@)]

Breaks(t, s, e) ==
    Sends(t, e) /\ Grown(t, s) /\ t.abs_ackno = s.abs_ackno /\ t.stream.error = TRUE

(* set_error() on the outbound stream leaves what was sent.                *)
LEMMA ErrorSends ==
    ASSUME NEW e \in Endpoint, NEW s, Sends(s, e)
    PROVE  Breaks(Broken(s), s, e)
<1> DEFINE p == s.stream
           q == set_error(p)
           t == Broken(s)
<1>1. s \in Sender /\ p \in Stream(Int) /\ Numbers(s, e) /\ Run(p.buf, bytes_read(p), At(e))
  BY SenderFields DEF Sends
<1>2. /\ q \in Stream(Int) /\ q.buf = p.buf /\ q.written = p.written /\ q.ended = p.ended
      /\ q.error = TRUE
  BY Zenon, <1>1 DEF set_error, Stream
<1>3. t = [s EXCEPT !.stream = q]
  BY DEF Broken
<1> HIDE DEF q, t
<1>4. OtherStream(t, s, q)
  BY Zenon, <1>1, <1>2, <1>3, OtherStreamIs
<1> HIDE DEF p
<1>5. /\ Len(q.buf) <= send_capacity /\ Len(q.buf) <= q.written /\ q.written <= MaxBytes(e)
      /\ bytes_read(q) = bytes_read(p) /\ Run(q.buf, bytes_read(q), At(e))
  BY Zenon, <1>1, <1>2 DEF Numbers, bytes_read, p
<1>7. Sends(t, e) /\ Grown(t, s) /\ t.abs_ackno = s.abs_ackno
  BY <1>2, <1>4, <1>5, OtherStreamSends DEF p
<1>8. t.stream = q /\ t.segments_out = s.segments_out
  BY Zenon, <1>4 DEF OtherStream
<1> QED
  BY Zenon, <1>2, <1>7, <1>8 DEF Breaks, t

(* The application writes the next byte of its stream.                     *)
LEMMA WriteSends ==
    ASSUME NEW e \in Endpoint, NEW s, Sends(s, e), s.next_seqno > 0, ~input_ended(s.stream),
           bytes_written(s.stream) < MaxBytes(e), remaining_capacity(s.stream, send_capacity) > 0
    PROVE  Fills([s EXCEPT !.stream =
                     write(@, <<ByteAt(e, bytes_written(s.stream))>>, send_capacity)], s, e)
<1> DEFINE p == s.stream
           d == <<ByteAt(e, bytes_written(p))>>
           q == write(p, d, send_capacity)
           t == [s EXCEPT !.stream = q]
           b == Len(p.buf)
           w == p.written
<1>1. s \in Sender /\ p \in Stream(Int) /\ Numbers(s, e) /\ Run(p.buf, bytes_read(p), At(e))
  BY SenderFields DEF Sends
<1>2. /\ s.next_seqno \in Nat /\ w \in Nat /\ b \in Nat /\ b <= w /\ w < MaxBytes(e)
      /\ b < send_capacity /\ MaxBytes(e) \in Nat /\ send_capacity \in Nat /\ ~p.ended
  BY <1>1, SenderFields, Constants DEF Numbers, bytes_written, remaining_capacity, input_ended
<1>3. Run(d, w, At(e)) /\ Len(d) = 1
  <2>1. At(e)[w] = ByteAt(e, w) /\ ByteAt(e, w) \in Int
    BY <1>2 DEF At, ByteAt
  <2>2. PICK x : x = ByteAt(e, w)
    OBVIOUS
  <2>3. <<x>> \in Seq(Int) /\ Len(<<x>>) = 1 /\ <<x>>[1] = x
    BY <2>1, <2>2
  <2>4. ASSUME NEW j \in 1 .. 1 PROVE j = 1 /\ w + j - 1 = w
    BY <1>2
  <2>5. d = <<x>>
    BY Zenon, <2>2 DEF bytes_written
  <2>6. \A j \in 1 .. 1 : <<x>>[j] = At(e)[w + j - 1]
    BY Zenon, <2>1, <2>2, <2>3, <2>4
  <2> QED
    BY Zenon, <2>3, <2>5, <2>6 DEF Run
<1>4. Wrote(q, p, d, At(e))
  <2>1. b + Len(d) <= send_capacity
    BY <1>2, <1>3
  <2> HIDE DEF d
  <2> QED
    BY Zenon, <1>1, <1>2, <1>3, <2>1, WriteContinues
<1>5. /\ q \in Stream(Int) /\ q.written = w + 1 /\ Len(q.buf) = b + 1 /\ q.ended = p.ended
      /\ q.error = p.error /\ Run(q.buf, bytes_read(q), At(e))
  BY Zenon, <1>3, <1>4 DEF Wrote
<1>6. t = [s EXCEPT !.stream = write(@, <<ByteAt(e, bytes_written(s.stream))>>, send_capacity)]
  OBVIOUS
<1> HIDE DEF d, q
<1>7. OtherStream(t, s, q)
  BY Zenon, <1>1, <1>5, OtherStreamIs
<1> HIDE DEF p, t, b, w
<1>8. bytes_read(q) = bytes_read(p)
  <2>1. (w + 1) - (b + 1) = w - b
    BY <1>2
  <2> QED
    BY Zenon, <1>5, <2>1 DEF bytes_read, w, b
<1>9. Len(q.buf) <= send_capacity /\ Len(q.buf) <= q.written /\ q.written <= MaxBytes(e)
  BY <1>2, <1>5
<1>10. s.next_seqno # bytes_read(p) + 2
  <2>1. s.next_seqno = bytes_read(p) + 1
    BY Zenon, <1>1, <1>2 DEF Numbers, p
  <2>2. bytes_read(p) \in Nat
    BY <1>2 DEF bytes_read, w, b
  <2> QED
    BY <2>1, <2>2
<1>11. Sends(t, e) /\ Grown(t, s) /\ t.abs_ackno = s.abs_ackno
  BY <1>5, <1>7, <1>8, <1>9, <1>10, OtherStreamSends DEF p
<1>12. t.stream = q
  BY Zenon, <1>7 DEF OtherStream
<1> QED
  BY Zenon, <1>5, <1>6, <1>11, <1>12 DEF Fills, p

(* Only the queue, the timer and the count of retransmissions change.      *)
Queued(t, s, out) ==
    /\ t \in Sender /\ t.segments_out = out /\ t.stream = s.stream /\ t.isn = s.isn
    /\ t.outstanding = s.outstanding /\ t.next_seqno = s.next_seqno /\ t.abs_ackno = s.abs_ackno
    /\ t.window_size = s.window_size
    /\ s.outstanding = <<>> => t.n_consec = s.n_consec

(* Segments of the stream that are queued again leave the sender in order. *)
LEMMA QueuedSends ==
    ASSUME NEW e \in Endpoint, NEW s, Sends(s, e), NEW t, NEW out, Queued(t, s, out),
           \A i \in 1 .. Len(out) : From(out[i], s, e)
    PROVE  Fills(t, s, e)
<1>1. s \in Sender /\ s.isn = Isn(e) /\ Numbers(s, e) /\ t \in Sender
      /\ t.next_seqno = s.next_seqno /\ t.stream = s.stream
  BY Zenon DEF Sends, Queued
<1>2. Grown(t, s)
  BY Zenon, <1>1, GrownSame
<1>3. Numbers(t, e)
  BY Zenon, <1>1 DEF Numbers, Queued
<1>4. /\ \A i \in 1 .. Len(t.outstanding) : From(t.outstanding[i].segment, s, e)
      /\ \A i \in 1 .. Len(t.segments_out) : From(t.segments_out[i], s, e)
      /\ Run(t.stream.buf, bytes_read(t.stream), At(e)) /\ t.isn = s.isn
  BY Zenon DEF Sends, Queued
<1>5. Sends(t, e)
  BY Zenon, <1>1, <1>2, <1>3, <1>4, SendsFrame
<1> QED
  BY Zenon, <1>2, <1>5 DEF Fills, Queued

(* send_segments() empties the queue.                                      *)
LEMMA ClearSends ==
    ASSUME NEW e \in Endpoint, NEW s, Sends(s, e), NEW t, t = [s EXCEPT !.segments_out = <<>>]
    PROVE  Fills(t, s, e)
<1>1. s \in Sender
  BY DEF Sends
<1>2. Queued(t, s, <<>>)
  <2>1. PICK z \in Seq(AnySegment) : z = <<>>
    BY Zenon, EmptyIsSeq
  <2>2. Queued([s EXCEPT !.segments_out = z], s, z)
    BY <1>1 DEF Sender, Queued
  <2> QED
    BY Zenon, <2>1, <2>2
<1>3. \A i \in 1 .. Len(<<>>) : From(<<>>[i], s, e)
  OBVIOUS
<1> QED
  BY Zenon, <1>2, <1>3, QueuedSends

(* One more segment in a queue.                                            *)
LEMMA OneMore ==
    ASSUME NEW e, NEW s, NEW out \in Seq(AnySegment), NEW seg,
           \A i \in 1 .. Len(out) : From(out[i], s, e), From(seg, s, e)
    PROVE  /\ Append(out, seg) \in Seq(AnySegment)
           /\ \A i \in 1 .. Len(Append(out, seg)) : From(Append(out, seg)[i], s, e)
<1> DEFINE two == Append(out, seg)
<1>1. seg \in AnySegment
  BY DEF From
<1>2. /\ two \in Seq(AnySegment) /\ Len(two) = Len(out) + 1 /\ Len(out) \in Nat
      /\ \A i \in 1 .. Len(out) + 1 : two[i] = IF i <= Len(out) THEN out[i] ELSE seg
  BY <1>1, AppendIs
<1> HIDE DEF two
<1>3. ASSUME NEW i \in 1 .. Len(two) PROVE From(two[i], s, e)
  <2>1. i \in 1 .. Len(out) + 1
    BY Zenon, <1>2
  <2>2. CASE i <= Len(out)
    <3>1. i \in 1 .. Len(out)
      BY <1>2, <2>1, <2>2
    <3> QED
      BY Zenon, <1>2, <2>1, <2>2, <3>1
  <2>3. CASE ~(i <= Len(out))
    BY Zenon, <1>2, <2>1, <2>3
  <2> QED
    BY <2>2, <2>3
<1> QED
  BY Zenon, <1>2, <1>3 DEF two

(* The segments in a sender are its own.                                   *)
LEMMA OwnSegments ==
    ASSUME NEW e, NEW s, Sends(s, e)
    PROVE  s.segments_out \in Seq(AnySegment) /\ \A i \in 1 .. Len(s.segments_out) : From(s.segments_out[i], s, e)
BY SenderFields DEF Sends

(* An empty segment, sent after the SYN.                                   *)
LEMMA EmptySends ==
    ASSUME NEW e \in Endpoint, NEW s, Sends(s, e), s.next_seqno > 0
    PROVE  Fills(send_empty_segment(s), s, e)
<1> DEFINE n   == s.next_seqno
           no  == wrap(n, Isn(e))
           seg == [DefaultSegment EXCEPT !.seqno = no]
           out == Append(s.segments_out, seg)
<1>1. s \in Sender /\ s.isn = Isn(e) /\ n \in Nat /\ Isn(e) \in WrappingInt32
  BY SenderFields, Constants DEF Sends
<1>2. no \in Nat
  BY <1>1, WrapNat
<1> HIDE DEF no
<1>3. PICK z \in Seq(Int) : z = <<>>
  BY Zenon, EmptyIsSeq
<1>4. seg = [seqno |-> no, syn |-> FALSE, fin |-> FALSE, payload |-> z,
             ack |-> FALSE, ackno |-> 0, win |-> 0, rst |-> FALSE]
  <2>1. PICK f, d : f = FALSE /\ d = DefaultSegment
    BY Zenon
  <2>2. d = [seqno |-> 0, syn |-> f, fin |-> f, payload |-> z,
             ack |-> f, ackno |-> 0, win |-> 0, rst |-> f]
    BY Zenon, <1>3, <2>1 DEF DefaultSegment
  <2>3. [d EXCEPT !.seqno = no] = [seqno |-> no, syn |-> f, fin |-> f, payload |-> z,
                                   ack |-> f, ackno |-> 0, win |-> 0, rst |-> f]
    BY <2>2
  <2> QED
    BY Zenon, <2>1, <2>3
<1> HIDE DEF seg
<1>5. /\ seg \in AnySegment /\ seg.seqno = no /\ seg.syn = FALSE /\ seg.fin = FALSE
      /\ seg.payload = z
  BY <1>2, <1>4 DEF AnySegment
<1>6. Len(z) = 0 /\ Run(z, FirstOf(n), At(e))
  BY <1>3 DEF Run
<1>7. FirstOf(n) .. FirstOf(n) + Len(z) - 1 \subseteq SentPlaces(s)
  <2>1. FirstOf(n) \in Nat
    BY <1>1 DEF FirstOf
  <2>2. FirstOf(n) .. FirstOf(n) + 0 - 1 = {}
    BY <2>1
  <2> QED
    BY <1>6, <2>2
<1>8. n \in 0 .. n /\ (n = 0) = FALSE
  BY <1>1
<1>9. From(seg, s, e)
  BY Zenon, <1>5, <1>6, <1>7, <1>8 DEF From, Carried, no
<1>10. out \in Seq(AnySegment) /\ \A i \in 1 .. Len(out) : From(out[i], s, e)
  BY <1>9, OwnSegments, OneMore
<1>11. send_empty_segment(s) = [s EXCEPT !.segments_out = out]
  BY <1>1 DEF send_empty_segment, seg, no
<1> HIDE DEF out
<1>12. Queued(send_empty_segment(s), s, out)
  BY Zenon, <1>1, <1>10, <1>11 DEF Sender, Queued
<1> QED
  BY Zenon, <1>10, <1>12, QueuedSends

(* tick(): at most a segment is repeated.                                  *)
LEMMA TickSends ==
    ASSUME NEW e \in Endpoint, NEW s, Sends(s, e), NEW ms \in Nat
    PROVE  Fills(tick(s, ms), s, e)
<1> DEFINE tm == Elapse(s.timer, ms)
           nc == IF s.window_size > 0 THEN s.n_consec + 1 ELSE s.n_consec
           to == IF s.window_size > 0 THEN 2 * tm.timeout ELSE tm.timeout
           r  == start(to)
           so == Append(s.segments_out, Head(s.outstanding).segment)
           x  == expired(tm) /\ s.outstanding # <<>>
<1>0. s \in Sender
  BY DEF Sends
<1>1. tm \in [time_elapsed : Nat, timeout : Nat]
  <2>1. PICK u \in [time_elapsed : Nat, timeout : Nat] : u = s.timer
    BY <1>0, SenderFields
  <2>2. Elapse(u, ms) \in [time_elapsed : Nat, timeout : Nat]
    BY DEF Elapse, MinOf
  <2> QED
    BY Zenon, <2>1, <2>2
<1>2. nc \in Nat /\ to \in Nat
  BY <1>0, <1>1, SenderFields
<1>3. tick(s, ms) = IF x
                    THEN [s EXCEPT !.segments_out = so, !.n_consec = nc, !.timer = r]
                    ELSE [s EXCEPT !.timer = tm]
  BY Zenon DEF tick
<1>4. r \in [time_elapsed : Nat, timeout : Nat]
  BY <1>2 DEF start
<1>5. ASSUME s.outstanding # <<>>
      PROVE  so \in Seq(AnySegment) /\ \A i \in 1 .. Len(so) : From(so[i], s, e)
  <2>1. s.outstanding \in Seq(Flying) /\ Len(s.outstanding) \in Nat
    BY <1>0, SenderFields
  <2>2. 1 \in 1 .. Len(s.outstanding) /\ Head(s.outstanding) = s.outstanding[1]
    BY <1>5, <2>1
  <2>3. From(Head(s.outstanding).segment, s, e)
    BY Zenon, <2>2 DEF Sends
  <2> QED
    BY <2>3, OwnSegments, OneMore
<1>6. x \in BOOLEAN
  BY DEF expired
<1>7. CASE x
  <2>1. s.outstanding # <<>>
    BY <1>7
  <2>2. so \in Seq(AnySegment) /\ \A i \in 1 .. Len(so) : From(so[i], s, e)
    BY Zenon, <1>5, <2>1
  <2> HIDE DEF tm, nc, to, so, x, r
  <2>3. tick(s, ms) = [s EXCEPT !.segments_out = so, !.n_consec = nc, !.timer = r]
    BY Zenon, <1>3, <1>7
  <2>4. Queued(tick(s, ms), s, so)
    BY Zenon, <1>0, <1>2, <1>4, <2>1, <2>2, <2>3 DEF Sender, Queued
  <2> QED
    BY Zenon, <2>2, <2>4, QueuedSends
<1>8. CASE ~x
  <2> HIDE DEF tm, nc, to, so, x, r
  <2>3. tick(s, ms) = [s EXCEPT !.timer = tm]
    BY Zenon, <1>3, <1>8
  <2>4. Queued(tick(s, ms), s, s.segments_out)
    BY <1>0, <1>1, <2>3 DEF Sender, Queued
  <2> QED
    BY Zenon, <2>4, OwnSegments, QueuedSends
<1> QED
  BY Zenon, <1>6, <1>7, <1>8

(* ack_received() with a genuine ackno takes it for what it is.            *)
Acked(t, s, e, a) ==
    /\ Sends(t, e) /\ Grown(t, s) /\ t.stream.error = s.stream.error
    /\ t.abs_ackno \in {s.abs_ackno, a}

(* What the sender promises: its two methods with a loop leave it in       *)
(* order, forget nothing that was sent, and take an ackno of the peer for  *)
(* what it is.  TCPConnectionProofs shows that it keeps the promise.       *)
SenderPromise ==
    \A e \in Endpoint : \A s :
        Sends(s, e) =>
            /\ Fills(fill_window(s), s, e)
            /\ \A a \in Nat, win \in 0 .. U16 - 1 :
                  1 <= a /\ a <= s.next_seqno => Acked(ack_received(s, wrap(a, Isn(e)), win), s, e, a)

(* fill_window() keeps the sender in order, however often its loop runs.   *)
LEMMA FillWindowFills ==
    ASSUME SenderPromise, NEW e \in Endpoint, NEW s, Sends(s, e)
    PROVE  Fills(fill_window(s), s, e)
BY Zenon DEF SenderPromise

(* ack_received() leaves the sender in order (tcp_sender.cc:77-93).        *)
LEMMA AckSends ==
    ASSUME SenderPromise,
           NEW e \in Endpoint, NEW s, Sends(s, e), NEW a \in Nat, 1 <= a, a <= s.next_seqno,
           NEW win \in 0 .. U16 - 1, NEW no, no = wrap(a, Isn(e))
    PROVE  Acked(ack_received(s, no, win), s, e, a)
BY Zenon DEF SenderPromise

(***************************************************************************)
(* What the methods of a connection do.                                    *)
(***************************************************************************)

(* The members of a connection, and what replacing them gives.             *)
SetSender(c, t) == [c EXCEPT !.sender = t]

SetSenderQuiet(c, t, p) == [c EXCEPT !.sender = t, !.quiet = p]

SetReceiverQuiet(c, t, p) == [c EXCEPT !.receiver = t, !.quiet = p]

SetSegments(c, o) == [c EXCEPT !.segments_out = o]

SetSegmentsSender(c, o, t) == [c EXCEPT !.segments_out = o, !.sender = t]

SetLinger(c, k) == [c EXCEPT !.linger = k]

SetActive(c, k) == [c EXCEPT !.active = k]

SetAllThree(c, t, u, k) == [c EXCEPT !.sender = t, !.receiver = u, !.active = k]

(* The members of a connection are what it was made of.                    *)
LEMMA ConnectionFields ==
    ASSUME NEW c, NEW s, NEW w, NEW out, NEW l, NEW a, NEW q, IsConnection(c, s, w, out, l, a, q)
    PROVE  /\ IsConnection(c, c.sender, c.receiver, c.segments_out, c.linger, c.active, c.quiet)
           /\ c.sender = s /\ c.receiver = w /\ c.segments_out = out
           /\ c.linger = l /\ c.active = a /\ c.quiet = q
BY DEF IsConnection

(* A connection with another sender.                                       *)
LEMMA WithSender ==
    ASSUME NEW c, NEW s, NEW w, NEW out, NEW l, NEW a, NEW q, IsConnection(c, s, w, out, l, a, q), NEW t
    PROVE  IsConnection(SetSender(c, t), t, w, out, l, a, q)
BY DEF IsConnection, SetSender

(* A connection with another sender and timer.                             *)
LEMMA WithSenderQuiet ==
    ASSUME NEW c, NEW s, NEW w, NEW out, NEW l, NEW a, NEW q, IsConnection(c, s, w, out, l, a, q),
           NEW t, NEW p
    PROVE  IsConnection(SetSenderQuiet(c, t, p), t, w, out, l, a, p)
<1> DEFINE z == [sender |-> s, receiver |-> w, segments_out |-> out, linger |-> l, active |-> a,
                 quiet |-> q]
<1>1. PICK d : d = SetSenderQuiet(c, t, p)
  OBVIOUS
<1>2. d = [z EXCEPT !.sender = t, !.quiet = p]
  BY Zenon, <1>1 DEF IsConnection, SetSenderQuiet
<1>3. IsConnection(d, t, w, out, l, a, p)
  BY Zenon, <1>2 DEF IsConnection
<1> QED
  BY Zenon, <1>1, <1>3

(* A connection with another receiver and timer.                           *)
LEMMA WithReceiverQuiet ==
    ASSUME NEW c, NEW s, NEW w, NEW out, NEW l, NEW a, NEW q, IsConnection(c, s, w, out, l, a, q),
           NEW t, NEW p
    PROVE  IsConnection(SetReceiverQuiet(c, t, p), s, t, out, l, a, p)
<1> DEFINE z == [sender |-> s, receiver |-> w, segments_out |-> out, linger |-> l, active |-> a,
                 quiet |-> q]
<1>1. PICK d : d = SetReceiverQuiet(c, t, p)
  OBVIOUS
<1>2. d = [z EXCEPT !.receiver = t, !.quiet = p]
  BY Zenon, <1>1 DEF IsConnection, SetReceiverQuiet
<1>3. IsConnection(d, s, t, out, l, a, p)
  BY Zenon, <1>2 DEF IsConnection
<1> QED
  BY Zenon, <1>1, <1>3

(* A connection with another queue.                                        *)
LEMMA WithSegments ==
    ASSUME NEW c, NEW s, NEW w, NEW out, NEW l, NEW a, NEW q, IsConnection(c, s, w, out, l, a, q), NEW o
    PROVE  IsConnection(SetSegments(c, o), s, w, o, l, a, q)
BY DEF IsConnection, SetSegments

(* A connection with another queue and sender.                             *)
LEMMA WithSegmentsSender ==
    ASSUME NEW c, NEW s, NEW w, NEW out, NEW l, NEW a, NEW q, IsConnection(c, s, w, out, l, a, q),
           NEW o, NEW t
    PROVE  IsConnection(SetSegmentsSender(c, o, t), t, w, o, l, a, q)
<1> DEFINE z == [sender |-> s, receiver |-> w, segments_out |-> out, linger |-> l, active |-> a,
                 quiet |-> q]
<1>1. PICK d : d = SetSegmentsSender(c, o, t)
  OBVIOUS
<1>2. d = [z EXCEPT !.segments_out = o, !.sender = t]
  BY Zenon, <1>1 DEF IsConnection, SetSegmentsSender
<1>3. IsConnection(d, t, w, o, l, a, q)
  BY Zenon, <1>2 DEF IsConnection
<1> QED
  BY Zenon, <1>1, <1>3

(* A connection with another linger flag.                                  *)
LEMMA WithLinger ==
    ASSUME NEW c, NEW s, NEW w, NEW out, NEW l, NEW a, NEW q, IsConnection(c, s, w, out, l, a, q), NEW k
    PROVE  IsConnection(SetLinger(c, k), s, w, out, k, a, q)
BY DEF IsConnection, SetLinger

(* A connection with another active flag.                                  *)
LEMMA WithActive ==
    ASSUME NEW c, NEW s, NEW w, NEW out, NEW l, NEW a, NEW q, IsConnection(c, s, w, out, l, a, q), NEW k
    PROVE  IsConnection(SetActive(c, k), s, w, out, l, k, q)
BY DEF IsConnection, SetActive

(* A connection with another sender, receiver and active flag.             *)
LEMMA WithAllThree ==
    ASSUME NEW c, NEW s, NEW w, NEW out, NEW l, NEW a, NEW q, IsConnection(c, s, w, out, l, a, q),
           NEW t, NEW u, NEW k
    PROVE  IsConnection(SetAllThree(c, t, u, k), t, u, out, l, k, q)
<1> DEFINE z == [sender |-> s, receiver |-> w, segments_out |-> out, linger |-> l, active |-> a,
                 quiet |-> q]
<1>1. PICK d : d = SetAllThree(c, t, u, k)
  OBVIOUS
<1>2. d = [z EXCEPT !.sender = t, !.receiver = u, !.active = k]
  BY Zenon, <1>1 DEF IsConnection, SetAllThree
<1>3. IsConnection(d, t, u, out, l, k, q)
  BY Zenon, <1>2 DEF IsConnection
<1> QED
  BY Zenon, <1>1, <1>3

(* The numbers of a receiver.                                              *)
LEMMA ReceiverNumbers ==
    ASSUME NEW w, NEW isn, NEW at, NEW P, NEW F, Listens(w, isn, at, P, F)
    PROVE  /\ AbsAckno(w) \in Nat /\ stream_out(w).written \in Nat
           /\ stream_out(w).ended \in BOOLEAN /\ stream_out(w).error \in BOOLEAN
           /\ w.syn_received = TRUE => 1 <= AbsAckno(w)
           /\ AbsAckno(w) = stream_out(w).written + Bit(w.syn_received) + Bit(stream_out(w).ended)
<1>1. /\ stream_out(w).written \in Nat /\ stream_out(w).ended \in BOOLEAN
      /\ stream_out(w).error \in BOOLEAN /\ w.syn_received \in BOOLEAN
  <2>1. PICK q \in Stream(Int) : q = stream_out(w)
    BY DEF Listens, InOrder, stream_out
  <2>2. q.written \in Nat /\ q.ended \in BOOLEAN /\ q.error \in BOOLEAN
    BY DEF Stream
  <2> QED
    BY Zenon, <2>1, <2>2 DEF Listens
<1>2. AbsAckno(w) = stream_out(w).written + Bit(w.syn_received) + Bit(stream_out(w).ended)
  BY Zenon DEF AbsAckno, bytes_written, input_ended
<1>3. PICK n \in Nat, x \in BOOLEAN, y \in BOOLEAN :
         n = stream_out(w).written /\ x = w.syn_received /\ y = stream_out(w).ended
  BY Zenon, <1>1
<1>4. n + Bit(x) + Bit(y) \in Nat /\ (x => 1 <= n + Bit(x) + Bit(y))
  BY DEF Bit
<1> QED
  BY Zenon, <1>1, <1>2, <1>3, <1>4

(* The ackno of a receiver that follows another one is not smaller.        *)
LEMMA AcknoGrows ==
    ASSUME NEW v, NEW w, NEW isn, NEW at, NEW P, NEW F, Listens(v, isn, at, P, F),
           Listens(w, isn, at, P, F), Follows(w.reassembler, v.reassembler),
           v.syn_received => w.syn_received
    PROVE  AbsAckno(v) <= AbsAckno(w)
<1>1. stream_out(v).written <= stream_out(w).written /\ (stream_out(v).ended => stream_out(w).ended)
  BY Zenon DEF Listens, InOrder, Follows, stream_out
<1>2. PICK n \in Nat, x \in BOOLEAN, y \in BOOLEAN :
         n = stream_out(v).written /\ x = v.syn_received /\ y = stream_out(v).ended
  BY Zenon, ReceiverNumbers DEF Listens
<1>3. PICK m \in Nat, f \in BOOLEAN, g \in BOOLEAN :
         m = stream_out(w).written /\ f = w.syn_received /\ g = stream_out(w).ended
  BY Zenon, ReceiverNumbers DEF Listens
<1>4. n <= m /\ (x => f) /\ (y => g)
  BY Zenon, <1>1, <1>2, <1>3
<1>5. n + Bit(x) + Bit(y) <= m + Bit(f) + Bit(g)
  BY <1>4 DEF Bit
<1> QED
  BY Zenon, <1>2, <1>3, <1>5, ReceiverNumbers

(* The state a method starts from and the one it leaves.                   *)
Live(c) == c.active = TRUE \/ inbound(c).error = TRUE

Out(c, e) ==
    c.segments_out \in Seq(AnySegment) /\ \A i \in 1 .. Len(c.segments_out) : Good(c.segments_out[i], c, e)

Later(d, c) ==
    /\ Grown(d.sender, c.sender)
    /\ AbsAckno(c.receiver) <= AbsAckno(d.receiver)
    /\ d.linger = FALSE => c.linger = FALSE \/ SentEnd(c.sender) = {}

Fit(c, e, t, v) == Stands(c, e, t, v) /\ Out(c, e)

Ends(d, c, e, t, v) == Fit(d, e, t, v) /\ Later(d, c)

Moves(d, c, e, t, v) == Ends(d, c, e, t, v) /\ Live(d)

(* A segment that could have been sent still could.                        *)
LEMMA GoodLater ==
    ASSUME NEW e, NEW c, NEW d, c.sender \in Sender, d.sender \in Sender,
           AbsAckno(c.receiver) \in Nat, AbsAckno(d.receiver) \in Nat, Later(d, c),
           NEW seg, Good(seg, c, e)
    PROVE  Good(seg, d, e)
<1>1. From(seg, d.sender, e)
  BY Zenon, MoreFrom DEF Good, Later
<1>2. \A a \in 1 .. AbsAckno(c.receiver) : a \in 1 .. AbsAckno(d.receiver)
  <2>1. PICK m \in Nat, n \in Nat : m = AbsAckno(c.receiver) /\ n = AbsAckno(d.receiver)
    OBVIOUS
  <2>2. m <= n
    BY Zenon, <2>1 DEF Later
  <2>3. \A a \in 1 .. m : a \in 1 .. n
    BY <2>2
  <2> QED
    BY Zenon, <2>1, <2>3
<1> QED
  BY Zenon, <1>1, <1>2 DEF Good, Acks

(* What a connection that stands consists of.                              *)
LEMMA StandsFacts ==
    ASSUME NEW c, NEW e, NEW t, NEW v, Stands(c, e, t, v)
    PROVE  /\ IsConnection(c, c.sender, c.receiver, c.segments_out, c.linger, c.active, c.quiet)
           /\ c.sender \in Sender /\ Sends(c.sender, e)
           /\ Listens(c.receiver, Isn(Peer(e)), At(Peer(e)), SentPlaces(t), SentEnd(t))
           /\ AbsAckno(c.receiver) \in Nat /\ AbsAckno(c.receiver) <= AbsAckno(c.receiver)
           /\ c.sender.next_seqno \in Nat /\ c.sender.abs_ackno \in Nat
           /\ c.linger \in BOOLEAN /\ c.active \in BOOLEAN
           /\ inbound(c).error \in BOOLEAN /\ inbound(c).ended \in BOOLEAN
<1>1. /\ Sends(c.sender, e) /\ c.sender \in Sender
      /\ Listens(c.receiver, Isn(Peer(e)), At(Peer(e)), SentPlaces(t), SentEnd(t))
  BY Zenon DEF Stands, Sends
<1>2. c.sender.next_seqno \in Nat /\ c.sender.abs_ackno \in Nat
  BY <1>1, SenderFields
<1>3. AbsAckno(c.receiver) \in Nat /\ inbound(c).error \in BOOLEAN /\ inbound(c).ended \in BOOLEAN
  BY Zenon, <1>1, ReceiverNumbers DEF inbound
<1>4. AbsAckno(c.receiver) <= AbsAckno(c.receiver)
  BY <1>3
<1> QED
  BY Zenon, <1>1, <1>2, <1>3, <1>4 DEF Stands, Flags

(* Nothing happens; one thing after another.                               *)
LEMMA MovesSame ==
    ASSUME NEW c, NEW e, NEW t, NEW v, Fit(c, e, t, v)
    PROVE  Ends(c, c, e, t, v) /\ (Live(c) => Moves(c, c, e, t, v))
<1>1. Stands(c, e, t, v)
  BY Zenon DEF Fit
<1>2. Grown(c.sender, c.sender)
  BY Zenon, <1>1, StandsFacts, GrownSame
<1> QED
  BY Zenon, <1>1, <1>2, StandsFacts DEF Ends, Moves, Later

(* To be later is transitive.                                              *)
LEMMA LaterTwice ==
    ASSUME NEW b, NEW c, NEW d, b.sender \in Sender, c.sender \in Sender, d.sender \in Sender,
           AbsAckno(b.receiver) \in Nat, AbsAckno(c.receiver) \in Nat, AbsAckno(d.receiver) \in Nat,
           Later(c, b), Later(d, c)
    PROVE  Later(d, b)
<1>1. Grown(d.sender, b.sender)
  BY Zenon, GrownTwice DEF Later
<1>2. AbsAckno(b.receiver) <= AbsAckno(d.receiver)
  <2>1. AbsAckno(b.receiver) <= AbsAckno(c.receiver) /\ AbsAckno(c.receiver) <= AbsAckno(d.receiver)
    BY Zenon DEF Later
  <2> QED
    BY <2>1
<1>3. SentEnd(c.sender) = {} => SentEnd(b.sender) = {}
  BY DEF Later, Grown
<1> QED
  BY Zenon, <1>1, <1>2, <1>3 DEF Later

(* A move and then a method that ends well end well.                       *)
LEMMA MovesTwice ==
    ASSUME NEW b, NEW c, NEW d, NEW e, NEW t, NEW v, Fit(b, e, t, v),
           Moves(c, b, e, t, v), Ends(d, c, e, t, v)
    PROVE  Ends(d, b, e, t, v)
<1>1. Stands(b, e, t, v) /\ Stands(c, e, t, v) /\ Stands(d, e, t, v) /\ Later(c, b) /\ Later(d, c)
  BY Zenon DEF Moves, Ends, Fit
<1>2. Later(d, b)
  <2>1. /\ b.sender \in Sender /\ AbsAckno(b.receiver) \in Nat
    BY Zenon, <1>1, StandsFacts
  <2>2. /\ c.sender \in Sender /\ AbsAckno(c.receiver) \in Nat
    BY Zenon, <1>1, StandsFacts
  <2>3. /\ d.sender \in Sender /\ AbsAckno(d.receiver) \in Nat
    BY Zenon, <1>1, StandsFacts
  <2> QED
    BY Zenon, <1>1, <2>1, <2>2, <2>3, LaterTwice
<1> QED
  BY Zenon, <1>2 DEF Ends

(* The sender has been called.                                             *)
LEMMA SenderStands ==
    ASSUME NEW e \in Endpoint, NEW t, NEW v, NEW c, Stands(c, e, t, v), Live(c),
           NEW s, Sends(s, e), Grown(s, c.sender), s.abs_ackno <= AbsAckno(v),
           s.stream.error = c.sender.stream.error,
           NEW out, NEW q, NEW d, IsConnection(d, s, c.receiver, out, c.linger, c.active, q)
    PROVE  Stands(d, e, t, v) /\ Later(d, c) /\ Live(d)
<1>2. /\ IsConnection(d, d.sender, d.receiver, d.segments_out, d.linger, d.active, d.quiet)
      /\ d.sender = s /\ d.receiver = c.receiver
      /\ d.linger = c.linger /\ d.active = c.active
  BY ConnectionFields
<1>3. Later(d, c)
  BY Zenon, <1>2, StandsFacts DEF Later
<1>4. Live(d)
  BY Zenon, <1>2 DEF Live, inbound
<1>5. Flags(d)
  <2>1. /\ c.linger \in BOOLEAN /\ c.active \in BOOLEAN
        /\ c.linger = FALSE => inbound(c).ended
        /\ inbound(c).error = outbound(c).error
    BY Zenon DEF Stands, Flags
  <2>2. ~(c.active = FALSE /\ inbound(c).error = FALSE)
    BY Zenon DEF Live
  <2>3. inbound(d) = inbound(c) /\ outbound(d).error = outbound(c).error
    BY Zenon, <1>2 DEF inbound, outbound
  <2> QED
    BY Zenon, <1>2, <2>1, <2>2, <2>3 DEF Flags
<1>6. Stands(d, e, t, v)
  BY Zenon, <1>2, <1>5 DEF Stands
<1> QED
  BY Zenon, <1>3, <1>4, <1>6

(* The queue, with segments that could have been sent before.              *)
LEMMA OutLater ==
    ASSUME NEW e, NEW t, NEW v, NEW c, NEW d, Stands(c, e, t, v), Stands(d, e, t, v), Later(d, c),
           d.segments_out \in Seq(AnySegment),
           \A i \in 1 .. Len(d.segments_out) : Good(d.segments_out[i], c, e)
    PROVE  Out(d, e)
<1>1. c.sender \in Sender /\ AbsAckno(c.receiver) \in Nat
  BY Zenon, StandsFacts
<1>2. d.sender \in Sender /\ AbsAckno(d.receiver) \in Nat
  BY Zenon, StandsFacts
<1> QED
  BY Zenon, <1>1, <1>2, GoodLater DEF Out

(* The sender has been called, and segments have been queued.              *)
LEMMA SenderMoves ==
    ASSUME NEW e \in Endpoint, NEW t, NEW v, NEW c, Fit(c, e, t, v), Live(c),
           NEW s, Sends(s, e), Grown(s, c.sender), s.abs_ackno <= AbsAckno(v),
           s.stream.error = c.sender.stream.error,
           NEW out \in Seq(AnySegment), \A i \in 1 .. Len(out) : Good(out[i], c, e),
           NEW q, NEW d, IsConnection(d, s, c.receiver, out, c.linger, c.active, q)
    PROVE  Moves(d, c, e, t, v)
<1>1. Stands(c, e, t, v)
  BY Zenon DEF Fit
<1>2. Stands(d, e, t, v) /\ Later(d, c) /\ Live(d)
  BY Zenon, <1>1, SenderStands
<1>3. d.segments_out = out
  BY Zenon, ConnectionFields
<1>4. Out(d, e)
  BY Zenon, <1>1, <1>2, <1>3, OutLater
<1> QED
  BY Zenon, <1>2, <1>4 DEF Moves, Ends, Fit

(* The same with the queue as it was.                                      *)
LEMMA SenderCalled ==
    ASSUME NEW e \in Endpoint, NEW t, NEW v, NEW c, Fit(c, e, t, v), Live(c),
           NEW s, Fills(s, c.sender, e),
           NEW q, NEW d, IsConnection(d, s, c.receiver, c.segments_out, c.linger, c.active, q)
    PROVE  Moves(d, c, e, t, v)
<1>1. c.segments_out \in Seq(AnySegment) /\ \A i \in 1 .. Len(c.segments_out) : Good(c.segments_out[i], c, e)
  BY Zenon DEF Fit, Out
<1>2. c.sender.abs_ackno <= AbsAckno(v)
  BY Zenon DEF Fit, Stands
<1>3. /\ Sends(s, e) /\ Grown(s, c.sender) /\ s.abs_ackno <= AbsAckno(v)
      /\ s.stream.error = c.sender.stream.error
  BY Zenon, <1>2 DEF Fills
<1> QED
  BY Zenon, <1>1, <1>3, SenderMoves

(* The receiver has been called.                                           *)
LEMMA ReceiverMoves ==
    ASSUME NEW e \in Endpoint, NEW t, NEW v, NEW c, Fit(c, e, t, v),
           NEW w, Listens(w, Isn(Peer(e)), At(Peer(e)), SentPlaces(t), SentEnd(t)),
           Follows(w.reassembler, c.receiver.reassembler),
           c.receiver.syn_received => w.syn_received, w.syn_received => t.next_seqno > 0,
           NEW q, NEW d, IsConnection(d, c.sender, w, c.segments_out, c.linger, c.active, q)
    PROVE  Ends(d, c, e, t, v) /\ (Live(c) => Live(d))
<1>1. Stands(c, e, t, v)
  BY Zenon DEF Fit
<1>2. /\ IsConnection(d, d.sender, d.receiver, d.segments_out, d.linger, d.active, d.quiet)
      /\ d.sender = c.sender /\ d.receiver = w /\ d.segments_out = c.segments_out
      /\ d.linger = c.linger /\ d.active = c.active
  BY ConnectionFields
<1>3. AbsAckno(c.receiver) <= AbsAckno(w)
  BY Zenon, <1>1, StandsFacts, AcknoGrows
<1>4. Later(d, c)
  <2>1. Grown(d.sender, c.sender)
    BY Zenon, <1>1, <1>2, StandsFacts, GrownSame
  <2> QED
    BY Zenon, <1>2, <1>3, <2>1 DEF Later
<1>5. inbound(d).error = inbound(c).error /\ (inbound(c).ended => inbound(d).ended)
  BY Zenon, <1>2 DEF inbound, stream_out, Follows
<1>6. Flags(d)
  <2>1. /\ c.linger \in BOOLEAN /\ c.active \in BOOLEAN
        /\ c.linger = FALSE => inbound(c).ended
        /\ c.active = FALSE /\ inbound(c).error = FALSE => inbound(c).ended /\ ostream_done(c)
        /\ inbound(c).error = outbound(c).error
    BY Zenon, <1>1 DEF Stands, Flags
  <2>2. outbound(d) = outbound(c) /\ (ostream_done(c) => ostream_done(d))
    BY Zenon, <1>2 DEF outbound, ostream_done
  <2> QED
    BY Zenon, <1>2, <1>5, <2>1, <2>2 DEF Flags
<1>7. Stands(d, e, t, v)
  BY Zenon, <1>1, <1>2, <1>6 DEF Stands
<1>8. Out(d, e)
  BY Zenon, <1>1, <1>2, <1>4, <1>7, OutLater DEF Fit, Out
<1>9. Live(c) => Live(d)
  BY Zenon, <1>2, <1>5 DEF Live
<1> QED
  BY Zenon, <1>4, <1>7, <1>8, <1>9 DEF Ends, Fit

(* An error on the inbound stream leaves the receiver as it was.           *)
Erred(r) == [r EXCEPT !.output = set_error(@)]

Errs(s, r, at, P, F) ==
    /\ InOrder(s, at, P, F) /\ s.first_unasmb = r.first_unasmb
    /\ s.output.written = r.output.written /\ s.output.ended = r.output.ended
    /\ s.output.error = TRUE

(* An error on the inbound stream leaves the reassembler in order.         *)
LEMMA ErrorInOrder ==
    ASSUME NEW r, NEW at, NEW P, NEW F, InOrder(r, at, P, F)
    PROVE  Errs(Erred(r), r, at, P, F)
<1> DEFINE q == set_error(r.output)
           s == Erred(r)
<1>1. Sound(r) /\ r.output \in Stream(Int)
  BY Zenon DEF InOrder
<1>2. /\ q \in Stream(Int) /\ q.buf = r.output.buf /\ q.written = r.output.written
      /\ q.ended = r.output.ended /\ q.error = TRUE
  BY Zenon, <1>1 DEF set_error, Stream
<1>3. s = [r EXCEPT !.output = q]
  BY DEF Erred
<1> HIDE DEF q, s
<1>4. Rec(s, q, r.unasmb, r.first_unasmb, r.n_unasmb, r.eof_set, r.last_byte)
  BY <1>1, <1>3 DEF Sound, With, Rec
<1>5. /\ Sound(s) /\ s.output = q /\ s.unasmb = r.unasmb /\ s.first_unasmb = r.first_unasmb
      /\ s.n_unasmb = r.n_unasmb /\ s.eof_set = r.eof_set /\ s.last_byte = r.last_byte
  BY <1>4, RecFields
<1>6. bytes_read(q) = bytes_read(r.output) /\ first_unacceptable(s) = first_unacceptable(r)
  BY Zenon, <1>2, <1>5 DEF bytes_read, first_unacceptable, buffer_size
<1>7. InOrder(s, at, P, F)
  BY Zenon, <1>2, <1>5, <1>6 DEF InOrder
<1> QED
  BY Zenon, <1>2, <1>5, <1>7 DEF Errs, s

SetReassembler(v, s) == [v EXCEPT !.reassembler = s]

(* A receiver with another reassembler.                                    *)
LEMMA WithReassembler ==
    ASSUME NEW v, NEW b, NEW i, NEW r, IsReceiver(v, b, i, r), NEW s
    PROVE  IsReceiver(SetReassembler(v, s), b, i, s)
BY DEF IsReceiver, SetReassembler

ErrorGiven(w, v, isn, at, P, F) ==
    /\ Listens(w, isn, at, P, F) /\ AbsAckno(w) = AbsAckno(v) /\ w.syn_received = v.syn_received
    /\ stream_out(w).error = TRUE /\ stream_out(w).ended = stream_out(v).ended

Fails(v) == [v EXCEPT !.reassembler.output = set_error(@)]

(* An error on the inbound stream leaves the receiver listening.           *)
LEMMA ErrorListens ==
    ASSUME NEW v, NEW isn, NEW at, NEW P, NEW F, Listens(v, isn, at, P, F)
    PROVE  ErrorGiven(Fails(v), v, isn, at, P, F)
<1> DEFINE r == v.reassembler
           s == Erred(r)
           w == Fails(v)
<1>1. InOrder(r, at, P, F)
  BY Zenon DEF Listens
<1>2. /\ InOrder(s, at, P, F) /\ s.first_unasmb = r.first_unasmb
      /\ s.output.written = r.output.written /\ s.output.ended = r.output.ended
      /\ s.output.error = TRUE
  BY Zenon, <1>1, ErrorInOrder DEF Errs
<1>3. w = SetReassembler(v, s)
  BY Zenon DEF SetReassembler, Fails, Erred
<1> HIDE DEF s, w
<1>4. IsReceiver(w, v.syn_received, v.isn, s)
  BY Zenon, <1>3, WithReassembler DEF Listens
<1>5. /\ IsReceiver(w, w.syn_received, w.isn, w.reassembler)
      /\ w.syn_received = v.syn_received /\ w.isn = v.isn /\ w.reassembler = s
  BY Zenon, <1>4, ReceiverFields
<1>6. Listens(w, isn, at, P, F)
  BY Zenon, <1>2, <1>5 DEF Listens
<1>7. AbsAckno(w) = AbsAckno(v)
  BY Zenon, <1>2, <1>5 DEF AbsAckno, stream_out, bytes_written, input_ended
<1> QED
  BY Zenon, <1>2, <1>5, <1>6, <1>7 DEF stream_out, ErrorGiven, w

(* reset() marks both streams and ends the connection.                     *)
WellReset(d, c, e, t, v) ==
    /\ Stands(d, e, t, v) /\ Later(d, c) /\ Live(d)
    /\ d.active = FALSE /\ d.segments_out = c.segments_out

(* reset() leaves a connection that stands (tcp_connection.cc:83-87).      *)
LEMMA ResetStands ==
    ASSUME NEW e \in Endpoint, NEW t, NEW v, NEW c, Stands(c, e, t, v)
    PROVE  WellReset(reset(c), c, e, t, v)
<1> DEFINE s == Broken(c.sender)
           w == Fails(c.receiver)
           d == reset(c)
<1>2. /\ IsConnection(c, c.sender, c.receiver, c.segments_out, c.linger, c.active, c.quiet)
      /\ Sends(c.sender, e)
      /\ Listens(c.receiver, Isn(Peer(e)), At(Peer(e)), SentPlaces(t), SentEnd(t))
      /\ AbsAckno(c.receiver) <= AbsAckno(c.receiver)
  BY Zenon, StandsFacts
<1>3. d = SetAllThree(c, s, w, FALSE)
  BY Zenon DEF reset, SetAllThree, Broken, Fails
<1>4. /\ Sends(s, e) /\ Grown(s, c.sender) /\ s.abs_ackno = c.sender.abs_ackno
      /\ s.stream.error = TRUE
  BY Zenon, <1>2, ErrorSends DEF Breaks
<1>5. ErrorGiven(w, c.receiver, Isn(Peer(e)), At(Peer(e)), SentPlaces(t), SentEnd(t))
  BY Zenon, <1>2, ErrorListens
<1> HIDE DEF s, w
<1>6. IsConnection(d, s, w, c.segments_out, c.linger, FALSE, c.quiet)
  BY Zenon, <1>2, <1>3, WithAllThree
<1> HIDE DEF d
<1>7. /\ IsConnection(d, d.sender, d.receiver, d.segments_out, d.linger, d.active, d.quiet)
      /\ d.sender = s /\ d.receiver = w /\ d.segments_out = c.segments_out
      /\ d.linger = c.linger /\ d.active = FALSE
  <2>1. PICK f : f = FALSE
    BY Zenon
  <2>2. IsConnection(d, s, w, c.segments_out, c.linger, f, c.quiet)
    BY Zenon, <1>6, <2>1
  <2>3. /\ IsConnection(d, d.sender, d.receiver, d.segments_out, d.linger, d.active, d.quiet)
        /\ d.sender = s /\ d.receiver = w /\ d.segments_out = c.segments_out
        /\ d.linger = c.linger /\ d.active = f
    BY <2>2, ConnectionFields
  <2> QED
    BY Zenon, <2>1, <2>3
<1>8. Later(d, c)
  BY Zenon, <1>2, <1>4, <1>5, <1>7 DEF Later, ErrorGiven
<1>9. inbound(d).error = TRUE /\ outbound(d).error = TRUE /\ inbound(d).ended = inbound(c).ended
  BY Zenon, <1>4, <1>5, <1>7 DEF inbound, outbound, ErrorGiven
<1>10. Flags(d)
  <2>1. c.linger \in BOOLEAN /\ (c.linger = FALSE => inbound(c).ended)
    BY Zenon DEF Stands, Flags
  <2>2. FALSE \in BOOLEAN /\ TRUE # FALSE
    OBVIOUS
  <2> QED
    BY Zenon, <1>7, <1>9, <2>1, <2>2 DEF Flags
<1>11. Stands(d, e, t, v)
  BY Zenon, <1>4, <1>5, <1>7, <1>10 DEF Stands, ErrorGiven
<1> QED
  BY Zenon, <1>7, <1>8, <1>9, <1>11 DEF WellReset, Live, d

(* reset() is a move.                                                      *)
LEMMA ResetMoves ==
    ASSUME NEW e \in Endpoint, NEW t, NEW v, NEW c, Fit(c, e, t, v)
    PROVE  Moves(reset(c), c, e, t, v)
<1>1. Stands(c, e, t, v) /\ Out(c, e)
  BY Zenon DEF Fit
<1>2. WellReset(reset(c), c, e, t, v)
  BY Zenon, <1>1, ResetStands
<1>3. Out(reset(c), e)
  BY Zenon, <1>1, <1>2, OutLater DEF Out, WellReset
<1> QED
  BY Zenon, <1>2, <1>3 DEF Moves, Ends, Fit, WellReset

(* A segment of e's stream with the ackno of e's receiver.                 *)
LEMMA StampGood ==
    ASSUME NEW e \in Endpoint, NEW t, NEW v, NEW c, Stands(c, e, t, v),
           NEW seg, From(seg, c.sender, e), NEW rst \in BOOLEAN
    PROVE  Good(Stamp(c, seg, rst), c, e)
<1> DEFINE w  == c.receiver
           x  == has_ackno(w)
           an == IF x THEN ackno(w) ELSE seg.ackno
           wi == IF x THEN window_size(w) % U16 ELSE seg.win
           d  == Stamp(c, seg, rst)
<1>1. /\ Listens(w, Isn(Peer(e)), At(Peer(e)), SentPlaces(t), SentEnd(t))
      /\ AbsAckno(w) \in Nat /\ Isn(Peer(e)) \in WrappingInt32
  BY Zenon, StandsFacts, Constants
<1>2. x \in BOOLEAN /\ (x => w.isn = Isn(Peer(e)))
  BY Zenon, <1>1 DEF Listens, has_ackno
<1>3. seg \in AnySegment
  BY Zenon DEF From
<1>4. window_size(w) % U16 \in 0 .. U16 - 1 /\ U16 \in Nat
  <2>1. window_size(w) \in Int
    <3>1. Len(stream_out(w).buf) \in Nat
      BY <1>1, WindowFacts DEF Listens, stream_out
    <3> QED
      BY <3>1, CapacityAssumption DEF window_size, remaining_capacity
  <2>2. PICK z \in Int : z = window_size(w)
    BY <2>1
  <2>3. z % U16 \in 0 .. U16 - 1 /\ U16 \in Nat
    BY Constants, DivMod
  <2> QED
    BY Zenon, <2>2, <2>3
<1>5. x => ackno(w) = wrap(AbsAckno(w), Isn(Peer(e))) /\ ackno(w) \in Nat
  <2>1. x => ackno(w) = wrap(AbsAckno(w), Isn(Peer(e)))
    BY Zenon, <1>2 DEF ackno
  <2>2. wrap(AbsAckno(w), Isn(Peer(e))) \in Nat
    BY <1>1, WrapNat
  <2> QED
    BY Zenon, <2>1, <2>2
<1>6. an \in Nat /\ wi \in Nat
  <2>1. seg.ackno \in Nat /\ seg.win \in Nat
    BY <1>3 DEF AnySegment
  <2>2. window_size(w) % U16 \in Nat
    BY <1>4
  <2> QED
    BY Zenon, <1>5, <2>1, <2>2
<1>7. d = [seg EXCEPT !.ack = x, !.ackno = an, !.win = wi, !.rst = rst]
  BY Zenon DEF Stamp
<1> HIDE DEF x, an, wi, d
<1>8. /\ d \in AnySegment /\ d.seqno = seg.seqno /\ d.syn = seg.syn /\ d.fin = seg.fin
      /\ d.payload = seg.payload /\ d.ack = x /\ d.ackno = an /\ d.win = wi
  <2>1. PICK no, sy, fi, pl, ak, ao, ww, rs :
          /\ seg = [seqno |-> no, syn |-> sy, fin |-> fi, payload |-> pl,
                    ack |-> ak, ackno |-> ao, win |-> ww, rst |-> rs]
          /\ no \in Nat /\ sy \in BOOLEAN /\ fi \in BOOLEAN /\ pl \in Seq(Int)
    BY <1>3 DEF AnySegment
  <2>2. d = [seqno |-> no, syn |-> sy, fin |-> fi, payload |-> pl,
             ack |-> x, ackno |-> an, win |-> wi, rst |-> rst]
    BY Zenon, <1>7, <2>1
  <2>3. /\ d \in AnySegment /\ d.seqno = no /\ d.syn = sy /\ d.fin = fi
        /\ d.payload = pl /\ d.ack = x /\ d.ackno = an /\ d.win = wi
    BY Zenon, <1>2, <1>6, <2>1, <2>2 DEF AnySegment
  <2>4. seg.seqno = no /\ seg.syn = sy /\ seg.fin = fi /\ seg.payload = pl
    BY <2>1
  <2> QED
    BY Zenon, <2>3, <2>4
<1>9. From(d, c.sender, e)
  BY Zenon, <1>8 DEF From, Carried
<1>10. ASSUME x PROVE wi < U16 /\ \E a \in 1 .. AbsAckno(w) : an = wrap(a, Isn(Peer(e)))
  <2>1. w.syn_received = TRUE
    BY Zenon, <1>1, <1>10 DEF Listens, x, has_ackno
  <2>2. 1 <= AbsAckno(w)
    BY Zenon, <1>1, <2>1, ReceiverNumbers
  <2>3. AbsAckno(w) \in 1 .. AbsAckno(w)
    BY <1>1, <2>2
  <2>4. window_size(w) % U16 < U16
    BY <1>4
  <2> QED
    BY Zenon, <1>5, <1>10, <2>3, <2>4 DEF an, wi
<1>11. Acks(d, w, Isn(Peer(e)))
  BY Zenon, <1>8, <1>10 DEF Acks
<1> QED
  BY Zenon, <1>9, <1>11 DEF Good, d

(* Two queues of such segments, one after the other.                       *)
LEMMA BothGood ==
    ASSUME NEW e, NEW c, NEW out \in Seq(AnySegment), NEW n \in Nat, NEW new,
           new = [i \in 1 .. n |-> new[i]], \A i \in 1 .. n : Good(new[i], c, e),
           \A i \in 1 .. Len(out) : Good(out[i], c, e)
    PROVE  /\ out \o new \in Seq(AnySegment)
           /\ \A i \in 1 .. Len(out \o new) : Good((out \o new)[i], c, e)
<1>1. \A i \in 1 .. n : new[i] \in AnySegment
  BY DEF Good, From
<1>2. new \in Seq(AnySegment) /\ Len(new) = n
  BY <1>1
<1> DEFINE z == out \o new
<1>3. /\ z \in Seq(AnySegment) /\ Len(z) = Len(out) + n /\ Len(out) \in Nat
      /\ \A i \in 1 .. Len(out) + n : z[i] = IF i <= Len(out) THEN out[i] ELSE new[i - Len(out)]
  BY <1>2, ConcatFacts
<1> HIDE DEF z
<1>4. ASSUME NEW i \in 1 .. Len(z) PROVE Good(z[i], c, e)
  <2>1. i \in 1 .. Len(out) + n
    BY Zenon, <1>3
  <2>2. CASE i <= Len(out)
    <3>1. i \in 1 .. Len(out)
      BY <1>3, <2>1, <2>2
    <3> QED
      BY Zenon, <1>3, <2>1, <2>2, <3>1
  <2>3. CASE ~(i <= Len(out))
    <3>1. i - Len(out) \in 1 .. n
      BY <1>3, <2>1, <2>3
    <3> QED
      BY Zenon, <1>3, <2>1, <2>3, <3>1
  <2> QED
    BY <2>2, <2>3
<1> QED
  BY Zenon, <1>3, <1>4 DEF z

(* send_segments().                                                        *)
LEMMA SendMoves ==
    ASSUME NEW e \in Endpoint, NEW t, NEW v, NEW c, Fit(c, e, t, v), Live(c), NEW rst \in BOOLEAN
    PROVE  Moves(send_segments(c, rst), c, e, t, v)
<1> DEFINE d   == send_segments(c, rst)
           so  == c.sender.segments_out
           new == [i \in 1 .. Len(so) |-> Stamp(c, so[i], rst)]
           out == c.segments_out \o new
           s   == [c.sender EXCEPT !.segments_out = <<>>]
<1>1. Stands(c, e, t, v) /\ Out(c, e)
  BY Zenon DEF Fit
<1>2. /\ IsConnection(c, c.sender, c.receiver, c.segments_out, c.linger, c.active, c.quiet)
      /\ Sends(c.sender, e) /\ c.active \in BOOLEAN
  BY Zenon, <1>1, StandsFacts
<1>3. CASE c.active = FALSE
  <2>1. d = c
    BY Zenon, <1>3 DEF send_segments
  <2> QED
    BY Zenon, <2>1, MovesSame
<1>4. CASE c.active = TRUE
  <2>1. d = SetSegmentsSender(c, out, s)
    BY Zenon, <1>4 DEF send_segments, SetSegmentsSender
  <2>2. Len(so) \in Nat /\ \A i \in 1 .. Len(so) : From(so[i], c.sender, e)
    <3>1. so \in Seq(AnySegment) /\ \A i \in 1 .. Len(so) : From(so[i], c.sender, e)
      BY Zenon, <1>2, OwnSegments
    <3>2. Len(so) \in Nat
      BY <3>1
    <3> QED
      BY Zenon, <3>1, <3>2
  <2>3. \A i \in 1 .. Len(so) : Good(new[i], c, e)
    <3>1. ASSUME NEW i \in 1 .. Len(so) PROVE Good(Stamp(c, so[i], rst), c, e)
      BY Zenon, <1>1, <2>2, StampGood
    <3> QED
      BY Zenon, <3>1
  <2>4. new = [i \in 1 .. Len(so) |-> new[i]]
    BY Zenon
  <2> HIDE DEF new
  <2>5. out \in Seq(AnySegment) /\ \A i \in 1 .. Len(out) : Good(out[i], c, e)
    <3>1. c.segments_out \in Seq(AnySegment)
          /\ \A i \in 1 .. Len(c.segments_out) : Good(c.segments_out[i], c, e)
      BY Zenon, <1>1 DEF Out
    <3> QED
      BY Zenon, <2>2, <2>3, <2>4, <3>1, BothGood
  <2>6. Fills(s, c.sender, e)
    BY Zenon, <1>2, ClearSends
  <2> HIDE DEF out, s
  <2>7. IsConnection(d, s, c.receiver, out, c.linger, c.active, c.quiet)
    BY Zenon, <1>2, <2>1, WithSegmentsSender
  <2>8. /\ Sends(s, e) /\ Grown(s, c.sender) /\ s.abs_ackno <= AbsAckno(v)
        /\ s.stream.error = c.sender.stream.error
    BY Zenon, <1>1, <2>6 DEF Fills, Stands
  <2> HIDE DEF d
  <2> QED
    <3>1. Moves(d, c, e, t, v)
      BY Zenon, <2>5, <2>7, <2>8, SenderMoves
    <3> QED
      BY Zenon, <3>1 DEF d
<1> QED
  BY Zenon, <1>2, <1>3, <1>4

(* EnsureSegment(): an empty segment if there is none, once the SYN is     *)
(* sent.                                                                   *)
LEMMA EnsureMoves ==
    ASSUME NEW e \in Endpoint, NEW t, NEW v, NEW c, Fit(c, e, t, v), Live(c), syn_sent(c)
    PROVE  Moves(EnsureSegment(c), c, e, t, v)
<1> DEFINE s == send_empty_segment(c.sender)
           d == EnsureSegment(c)
<1>1. Stands(c, e, t, v)
  BY Zenon DEF Fit
<1>2. /\ IsConnection(c, c.sender, c.receiver, c.segments_out, c.linger, c.active, c.quiet)
      /\ Sends(c.sender, e)
  BY Zenon, <1>1, StandsFacts
<1>3. CASE c.sender.segments_out = <<>>
  <2>1. d = SetSender(c, s)
    BY Zenon, <1>3 DEF EnsureSegment, SetSender
  <2>2. Fills(s, c.sender, e)
    BY Zenon, <1>2, EmptySends DEF syn_sent
  <2> HIDE DEF d, s
  <2>3. IsConnection(d, s, c.receiver, c.segments_out, c.linger, c.active, c.quiet)
    BY Zenon, <1>2, <2>1, WithSender
  <2>4. Moves(d, c, e, t, v)
    BY Zenon, <2>2, <2>3, SenderCalled
  <2> QED
    BY Zenon, <2>4 DEF d
<1>4. CASE c.sender.segments_out # <<>>
  <2>1. d = c
    BY Zenon, <1>4 DEF EnsureSegment
  <2> QED
    BY Zenon, <2>1, MovesSame
<1> QED
  BY Zenon, <1>3, <1>4

(* try_switching_close_mode(): the peer's stream has ended before the own  *)
(* one.                                                                    *)
LEMMA SwitchEnds ==
    ASSUME NEW e \in Endpoint, NEW t, NEW v, NEW c, Fit(c, e, t, v)
    PROVE  Ends(try_switching_close_mode(c), c, e, t, v)
<1> DEFINE d == try_switching_close_mode(c)
<1>1. Stands(c, e, t, v)
  BY Zenon DEF Fit
<1>2. /\ IsConnection(c, c.sender, c.receiver, c.segments_out, c.linger, c.active, c.quiet)
      /\ Sends(c.sender, e) /\ c.sender \in Sender
      /\ AbsAckno(c.receiver) <= AbsAckno(c.receiver)
  BY Zenon, <1>1, StandsFacts
<1>3. CASE ~eof(outbound(c)) /\ input_ended(inbound(c))
  <2>1. d = SetLinger(c, FALSE)
    BY Zenon, <1>3 DEF try_switching_close_mode, SetLinger
  <2> HIDE DEF d
  <2>2. IsConnection(d, c.sender, c.receiver, c.segments_out, FALSE, c.active, c.quiet)
    BY Zenon, <1>2, <2>1, WithLinger
  <2>3. /\ IsConnection(d, d.sender, d.receiver, d.segments_out, d.linger, d.active, d.quiet)
        /\ d.sender = c.sender /\ d.receiver = c.receiver /\ d.segments_out = c.segments_out
        /\ d.linger = FALSE /\ d.active = c.active
    <3>1. PICK f : f = FALSE
      BY Zenon
    <3>2. IsConnection(d, c.sender, c.receiver, c.segments_out, f, c.active, c.quiet)
      BY Zenon, <2>2, <3>1
    <3>3. /\ IsConnection(d, d.sender, d.receiver, d.segments_out, d.linger, d.active, d.quiet)
          /\ d.sender = c.sender /\ d.receiver = c.receiver /\ d.segments_out = c.segments_out
          /\ d.linger = f /\ d.active = c.active
      BY <3>2, ConnectionFields
    <3> QED
      BY Zenon, <3>1, <3>3
  <2>4. SentEnd(c.sender) = {}
    <3>1. PICK q, b, w, n : /\ q = c.sender.stream /\ b = Len(q.buf) /\ w = q.written
                            /\ n = c.sender.next_seqno
      BY Zenon
    <3>2. b \in Nat /\ w \in Nat /\ n \in Nat /\ q \in Stream(Int)
      BY <1>2, <3>1, SenderFields
    <3>3. b <= w /\ (n > 0 => n = w - b + 1 \/ (n = w - b + 2 /\ q.ended /\ b = 0))
      BY Zenon, <1>2, <3>1 DEF Sends, Numbers, bytes_read
    <3>4. ~(q.ended /\ b = 0)
      <4>1. ~(q.ended /\ q.buf = <<>>)
        BY Zenon, <1>3, <3>1 DEF eof, input_ended, buffer_empty, outbound
      <4>2. b = 0 => q.buf = <<>>
        <5>1. PICK z \in Seq(Int) : z = q.buf
          BY <3>2 DEF Stream
        <5>2. Len(z) = 0 => z = <<>>
          OBVIOUS
        <5> QED
          BY Zenon, <3>1, <5>1, <5>2
      <4> QED
        BY Zenon, <4>1, <4>2
    <3>5. n # w + 2
      BY <3>2, <3>3, <3>4
    <3> QED
      BY Zenon, <3>1, <3>5 DEF SentEnd
  <2>5. Later(d, c)
    <3>1. Grown(d.sender, c.sender)
      BY Zenon, <1>2, <2>3, GrownSame
    <3> QED
      BY Zenon, <1>2, <2>3, <2>4, <3>1 DEF Later
  <2>6. inbound(d) = inbound(c) /\ outbound(d) = outbound(c) /\ (ostream_done(c) => ostream_done(d))
    BY Zenon, <2>3 DEF inbound, outbound, ostream_done
  <2>7. Flags(d)
    <3>1. FALSE \in BOOLEAN
      OBVIOUS
    <3> QED
      BY Zenon, <1>1, <1>3, <2>3, <2>6, <3>1 DEF Stands, Flags, input_ended
  <2>8. Stands(d, e, t, v)
    BY Zenon, <1>1, <2>3, <2>7 DEF Stands
  <2>9. Out(d, e)
    BY Zenon, <2>3 DEF Fit, Out, Good
  <2> QED
    BY Zenon, <2>5, <2>8, <2>9 DEF Ends, Fit, d
<1>4. CASE ~(~eof(outbound(c)) /\ input_ended(inbound(c)))
  <2>1. d = c
    BY Zenon, <1>4 DEF try_switching_close_mode
  <2> QED
    BY Zenon, <2>1, MovesSame
<1> QED
  BY Zenon, <1>3, <1>4

(* try_closing_connection(): both streams are over.                        *)
LEMMA CloseEnds ==
    ASSUME NEW e \in Endpoint, NEW t, NEW v, NEW c, Fit(c, e, t, v), Live(c)
    PROVE  Ends(try_closing_connection(c), c, e, t, v)
<1> DEFINE b == send_segments(c, FALSE)
           d == try_closing_connection(c)
<1>1. Moves(b, c, e, t, v)
  <2>1. FALSE \in BOOLEAN
    OBVIOUS
  <2> QED
    BY Zenon, <2>1, SendMoves
<1>2. Fit(b, e, t, v) /\ Stands(b, e, t, v)
  BY Zenon, <1>1 DEF Moves, Ends, Fit
<1>3. CASE c.active /\ MayClose(b)
  <2>1. d = SetActive(b, FALSE)
    BY Zenon, <1>3 DEF try_closing_connection, SetActive
  <2>0. inbound(b).ended /\ ostream_done(b)
    BY Zenon, <1>3 DEF MayClose, istream_done, input_ended
  <2> HIDE DEF b, d
  <2>2. /\ IsConnection(b, b.sender, b.receiver, b.segments_out, b.linger, b.active, b.quiet)
        /\ b.sender \in Sender
        /\ AbsAckno(b.receiver) <= AbsAckno(b.receiver)
    BY Zenon, <1>2, StandsFacts
  <2>3. IsConnection(d, b.sender, b.receiver, b.segments_out, b.linger, FALSE, b.quiet)
    BY Zenon, <2>1, <2>2, WithActive
  <2>4. /\ IsConnection(d, d.sender, d.receiver, d.segments_out, d.linger, d.active, d.quiet)
        /\ d.sender = b.sender /\ d.receiver = b.receiver /\ d.segments_out = b.segments_out
        /\ d.linger = b.linger /\ d.active = FALSE
    <3>1. PICK f : f = FALSE
      BY Zenon
    <3>2. IsConnection(d, b.sender, b.receiver, b.segments_out, b.linger, f, b.quiet)
      BY Zenon, <2>3, <3>1
    <3>3. /\ IsConnection(d, d.sender, d.receiver, d.segments_out, d.linger, d.active, d.quiet)
          /\ d.sender = b.sender /\ d.receiver = b.receiver /\ d.segments_out = b.segments_out
          /\ d.linger = b.linger /\ d.active = f
      BY <3>2, ConnectionFields
    <3> QED
      BY Zenon, <3>1, <3>3
  <2>5. Later(d, b)
    <3>1. Grown(d.sender, b.sender)
      BY Zenon, <2>2, <2>4, GrownSame
    <3> QED
      BY Zenon, <2>2, <2>4, <3>1 DEF Later
  <2>6. inbound(d) = inbound(b) /\ outbound(d) = outbound(b) /\ (ostream_done(b) => ostream_done(d))
    BY Zenon, <2>4 DEF inbound, outbound, ostream_done
  <2>7. Flags(d)
    <3>1. FALSE \in BOOLEAN
      OBVIOUS
    <3> QED
      BY Zenon, <1>2, <2>0, <2>4, <2>6, <3>1 DEF Stands, Flags
  <2>8. Stands(d, e, t, v)
    BY Zenon, <1>2, <2>4, <2>7 DEF Stands
  <2>9. Out(d, e)
    BY Zenon, <1>2, <2>4 DEF Fit, Out, Good
  <2>10. Ends(d, b, e, t, v)
    BY Zenon, <2>5, <2>8, <2>9 DEF Ends, Fit
  <2>11. Ends(d, c, e, t, v)
    BY Zenon, <1>1, <2>10, MovesTwice
  <2> QED
    BY Zenon, <2>11 DEF d
<1>4. CASE ~(c.active /\ MayClose(b))
  <2>1. d = b
    BY Zenon, <1>4 DEF try_closing_connection
  <2> QED
    BY Zenon, <1>1, <2>1 DEF Moves
<1> QED
  BY Zenon, <1>3, <1>4

(* Two calls of the sender are like one.                                   *)
LEMMA FillsTwice ==
    ASSUME NEW e, NEW s \in Sender, NEW t, NEW u, Fills(t, s, e), Fills(u, t, e)
    PROVE  Fills(u, s, e)
<1>1. t \in Sender /\ u \in Sender
  BY Zenon DEF Fills, Sends
<1> QED
  BY Zenon, <1>1, GrownTwice DEF Fills

(* Two moves are a move.                                                   *)
LEMMA MovesOn ==
    ASSUME NEW b, NEW c, NEW d, NEW e, NEW t, NEW v, Fit(b, e, t, v),
           Moves(c, b, e, t, v), Moves(d, c, e, t, v)
    PROVE  Moves(d, b, e, t, v)
BY Zenon, MovesTwice DEF Moves

(* A move leaves a connection that fits.                                   *)
LEMMA MovesFit ==
    ASSUME NEW c, NEW d, NEW e, NEW t, NEW v, Moves(d, c, e, t, v)
    PROVE  Fit(d, e, t, v) /\ Live(d) /\ Stands(d, e, t, v)
BY Zenon DEF Moves, Ends, Fit

(* A call of the sender, fill_window() and send_segments().                *)
LEMMA FillAndSend ==
    ASSUME SenderPromise, NEW e \in Endpoint, NEW t, NEW v, NEW c, Fit(c, e, t, v), Live(c),
           NEW s, Fills(s, c.sender, e)
    PROVE  /\ Moves(SetSender(c, fill_window(s)), c, e, t, v)
           /\ Moves(send_segments(SetSender(c, fill_window(s)), FALSE), c, e, t, v)
<1> DEFINE d == SetSender(c, fill_window(s))
<1>1. Stands(c, e, t, v)
  BY Zenon DEF Fit
<1>2. /\ IsConnection(c, c.sender, c.receiver, c.segments_out, c.linger, c.active, c.quiet)
      /\ c.sender \in Sender
  BY Zenon, <1>1, StandsFacts
<1>3. Fills(fill_window(s), c.sender, e)
  <2>1. Fills(fill_window(s), s, e)
    BY Zenon, FillWindowFills DEF Fills
  <2> QED
    BY Zenon, <1>2, <2>1, FillsTwice
<1>4. IsConnection(d, fill_window(s), c.receiver, c.segments_out, c.linger, c.active, c.quiet)
  BY Zenon, <1>2, WithSender
<1> HIDE DEF d
<1>5. Moves(d, c, e, t, v)
  BY Zenon, <1>3, <1>4, SenderCalled
<1>6. Moves(send_segments(d, FALSE), d, e, t, v)
  <2>1. FALSE \in BOOLEAN
    OBVIOUS
  <2> QED
    BY Zenon, <1>5, <2>1, MovesFit, SendMoves
<1>7. Moves(send_segments(d, FALSE), c, e, t, v)
  BY Zenon, <1>5, <1>6, MovesOn
<1> QED
  BY Zenon, <1>5, <1>7 DEF d

(* connect().                                                              *)
LEMMA ConnectMoves ==
    ASSUME SenderPromise, NEW e \in Endpoint, NEW t, NEW v, NEW c, Fit(c, e, t, v), Live(c)
    PROVE  Moves(connect(c), c, e, t, v)
<1>1. Stands(c, e, t, v)
  BY Zenon DEF Fit
<1>2. Sends(c.sender, e) /\ c.sender \in Sender
  BY Zenon, <1>1, StandsFacts
<1>3. Fills(c.sender, c.sender, e)
  BY Zenon, <1>2, GrownSame DEF Fills
<1>4. connect(c) = send_segments(SetSender(c, fill_window(c.sender)), FALSE)
  BY Zenon DEF connect, SetSender
<1> QED
  BY Zenon, <1>3, <1>4, FillAndSend

(* write().                                                                *)
LEMMA WriteMoves ==
    ASSUME SenderPromise,
           NEW e \in Endpoint, NEW t, NEW v, NEW c, Fit(c, e, t, v), Live(c), syn_sent(c),
           ~input_ended(outbound(c)), bytes_written(outbound(c)) < MaxBytes(e),
           remaining_capacity(outbound(c), send_capacity) > 0
    PROVE  Moves(write_outbound(c, <<ByteAt(e, bytes_written(outbound(c)))>>), c, e, t, v)
<1> DEFINE x == <<ByteAt(e, bytes_written(outbound(c)))>>
           s == [c.sender EXCEPT !.stream = write(@, x, send_capacity)]
<1>1. Stands(c, e, t, v)
  BY Zenon DEF Fit
<1>2. Sends(c.sender, e) /\ c.sender.next_seqno > 0
  BY Zenon, <1>1, StandsFacts DEF syn_sent
<1>3. Fills(s, c.sender, e)
  BY Zenon, <1>2, WriteSends DEF outbound
<1>4. write_outbound(c, x) = send_segments(SetSender(c, fill_window(s)), FALSE)
  BY Zenon DEF write_outbound, SetSender
<1> HIDE DEF s
<1>5. Moves(write_outbound(c, x), c, e, t, v)
  BY Zenon, <1>3, <1>4, FillAndSend
<1> QED
  BY Zenon, <1>5

(* end_input_stream().                                                     *)
LEMMA EndInputEnds ==
    ASSUME SenderPromise, NEW e \in Endpoint, NEW t, NEW v, NEW c, Fit(c, e, t, v), Live(c)
    PROVE  Ends(end_input_stream(c), c, e, t, v)
<1> DEFINE s == [c.sender EXCEPT !.stream = end_input(@)]
           d == SetSender(c, fill_window(s))
<1>1. Stands(c, e, t, v)
  BY Zenon DEF Fit
<1>2. Sends(c.sender, e)
  BY Zenon, <1>1, StandsFacts
<1>3. Fills(s, c.sender, e)
  BY Zenon, <1>2, EndSends
<1>4. end_input_stream(c) = try_closing_connection(d)
  BY Zenon DEF end_input_stream, SetSender
<1> HIDE DEF s
<1>5. Moves(d, c, e, t, v)
  BY Zenon, <1>3, FillAndSend
<1> HIDE DEF d
<1>6. Ends(try_closing_connection(d), d, e, t, v)
  BY Zenon, <1>5, MovesFit, CloseEnds
<1> QED
  BY Zenon, <1>4, <1>5, <1>6, MovesTwice

(* tick().                                                                 *)
LEMMA TickEnds ==
    ASSUME NEW e \in Endpoint, NEW t, NEW v, NEW c, Fit(c, e, t, v), c.active = TRUE, NEW ms \in Nat
    PROVE  Ends(tick_connection(c, ms), c, e, t, v)
<1> DEFINE s  == tick(c.sender, ms)
           q  == MinOf(c.quiet + ms, linger_time)
           c1 == SetSenderQuiet(c, s, q)
           g  == reset(send_segments(EnsureSegment(c1), TRUE))
           h  == send_segments(c1, FALSE)
<1>1. Stands(c, e, t, v) /\ Live(c)
  BY Zenon DEF Fit, Live
<1>2. /\ IsConnection(c, c.sender, c.receiver, c.segments_out, c.linger, c.active, c.quiet)
      /\ Sends(c.sender, e)
  BY Zenon, <1>1, StandsFacts
<1>3. Fills(s, c.sender, e)
  BY Zenon, <1>2, TickSends
<1>4. tick_connection(c, ms) = try_closing_connection(IF GivesUp(c1) THEN g ELSE h)
  BY Zenon DEF tick_connection, SetSenderQuiet
<1> HIDE DEF s, q
<1>5. IsConnection(c1, s, c.receiver, c.segments_out, c.linger, c.active, q)
  BY Zenon, <1>2, WithSenderQuiet
<1> HIDE DEF c1
<1>6. Moves(c1, c, e, t, v)
  BY Zenon, <1>1, <1>3, <1>5, SenderCalled
<1>7. Fit(c1, e, t, v) /\ Live(c1) /\ Stands(c1, e, t, v)
  BY Zenon, <1>6, MovesFit
<1>8. CASE GivesUp(c1)
  <2>1. syn_sent(c1)
    <3>1. c1.sender \in Sender /\ Numbers(c1.sender, e)
      BY Zenon, <1>7, StandsFacts DEF Sends
    <3>2. c1.sender.n_consec > MAX_RETX_ATTEMPTS
      BY Zenon, <1>8 DEF GivesUp
    <3>3. c1.sender.n_consec # 0 /\ c1.sender.next_seqno \in Nat
      BY <3>1, <3>2, SenderFields, Constants
    <3>4. c1.sender.next_seqno # 0
      BY Zenon, <3>1, <3>3 DEF Numbers
    <3> QED
      BY <3>3, <3>4 DEF syn_sent
  <2> DEFINE c2 == EnsureSegment(c1)
             c3 == send_segments(c2, TRUE)
  <2>2. Moves(c2, c1, e, t, v)
    BY Zenon, <1>7, <2>1, EnsureMoves
  <2>3. Fit(c2, e, t, v) /\ Live(c2)
    BY Zenon, <2>2, MovesFit
  <2> HIDE DEF c2
  <2>4. Moves(c3, c2, e, t, v)
    <3>1. TRUE \in BOOLEAN
      OBVIOUS
    <3> QED
      BY Zenon, <2>3, <3>1, SendMoves
  <2>5. Fit(c3, e, t, v) /\ Live(c3)
    BY Zenon, <2>4, MovesFit
  <2> HIDE DEF c3
  <2>6. Moves(reset(c3), c3, e, t, v)
    BY Zenon, <2>5, ResetMoves
  <2>7. Fit(reset(c3), e, t, v) /\ Live(reset(c3))
    BY Zenon, <2>6, MovesFit
  <2>8. Ends(try_closing_connection(reset(c3)), reset(c3), e, t, v)
    BY Zenon, <2>7, CloseEnds
  <2>9. Moves(c2, c, e, t, v)
    BY Zenon, <1>6, <2>2, MovesOn
  <2>10. Moves(c3, c, e, t, v)
    BY Zenon, <2>4, <2>9, MovesOn
  <2>11. Moves(reset(c3), c, e, t, v)
    BY Zenon, <2>6, <2>10, MovesOn
  <2>12. Ends(try_closing_connection(reset(c3)), c, e, t, v)
    BY Zenon, <2>8, <2>11, MovesTwice
  <2>13. tick_connection(c, ms) = try_closing_connection(reset(c3))
    BY Zenon, <1>4, <1>8 DEF c2, c3
  <2> QED
    BY Zenon, <2>12, <2>13
<1>9. CASE ~GivesUp(c1)
  <2>1. Moves(h, c1, e, t, v)
    <3>1. FALSE \in BOOLEAN
      OBVIOUS
    <3> QED
      BY Zenon, <1>7, <3>1, SendMoves
  <2>2. Moves(h, c, e, t, v)
    BY Zenon, <1>6, <2>1, MovesOn
  <2>3. Fit(h, e, t, v) /\ Live(h)
    BY Zenon, <2>1, MovesFit
  <2>4. Ends(try_closing_connection(h), h, e, t, v)
    BY Zenon, <2>3, CloseEnds
  <2>5. Ends(try_closing_connection(h), c, e, t, v)
    BY Zenon, <2>2, <2>4, MovesTwice
  <2>6. tick_connection(c, ms) = try_closing_connection(h)
    BY Zenon, <1>4, <1>9
  <2> QED
    BY Zenon, <2>5, <2>6
<1> QED
  BY Zenon, <1>8, <1>9

(***************************************************************************)
(* The two ends.                                                           *)
(***************************************************************************)

(* What the receiver w of a peer has assembled of the stream that t sends, *)
(* and what it acknowledges, is at most what t has sent.                   *)
Trails(w, t) ==
    /\ stream_out(w).written \in Nat /\ stream_out(w).written <= bytes_read(t.stream)
    /\ AbsAckno(w) \in Nat /\ AbsAckno(w) <= t.next_seqno
    /\ stream_out(w).ended =>
          /\ t.stream.ended = TRUE /\ t.stream.written = stream_out(w).written
          /\ t.next_seqno = stream_out(w).written + 2

(* A receiver that listens to t trails it.                                 *)
LEMMA ReceiverBehind ==
    ASSUME NEW p \in Endpoint, NEW t, Sends(t, p), NEW w,
           Listens(w, Isn(p), At(p), SentPlaces(t), SentEnd(t)),
           w.syn_received => t.next_seqno > 0
    PROVE  Trails(w, t)
<1>1. t \in Sender /\ Numbers(t, p)
  BY Zenon DEF Sends
<1>2. PICK q, b, r, n : /\ q = t.stream /\ b = Len(q.buf) /\ r = q.written /\ n = t.next_seqno
  BY Zenon
<1>3. b \in Nat /\ r \in Nat /\ n \in Nat
  BY <1>1, <1>2, SenderFields
<1>4. /\ b <= r /\ (n = 0 => r - b = 0)
      /\ n > 0 => n = r - b + 1 \/ (n = r - b + 2 /\ q.ended /\ b = 0)
  BY Zenon, <1>1, <1>2 DEF Numbers, bytes_read
<1>5. PICK f \in Nat, x \in BOOLEAN, y \in BOOLEAN :
         f = stream_out(w).written /\ x = w.syn_received /\ y = stream_out(w).ended
  BY Zenon, ReceiverNumbers DEF Listens
<1>6. AbsAckno(w) = f + Bit(x) + Bit(y) /\ AbsAckno(w) \in Nat
  BY Zenon, <1>5, ReceiverNumbers
<1>7. f <= r - b
  <2>1. 0 .. f - 1 \subseteq 0 .. (r - b) - 1
    BY Zenon, <1>2, <1>5 DEF Listens, InOrder, stream_out, SentPlaces, bytes_read
  <2>2. f - 1 \in 0 .. f - 1 \/ f = 0
    OBVIOUS
  <2> QED
    BY <1>3, <1>4, <2>1, <2>2
<1>8. y => f = r /\ n = f + 2
  <2>1. ASSUME y PROVE f \in SentEnd(t)
    BY Zenon, <1>5, <2>1 DEF Listens, InOrder, stream_out
  <2>2. f \in SentEnd(t) => f = r /\ n = f + 2
    BY Zenon, <1>2 DEF SentEnd
  <2> QED
    BY Zenon, <2>1, <2>2
<1>9. x => n > 0
  BY Zenon, <1>2, <1>5
<1>10. ~x => f = 0 /\ ~y
  BY Zenon, <1>5 DEF Listens, InOrder, stream_out
<1>11. f + Bit(x) + Bit(y) <= n
  BY <1>3, <1>4, <1>7, <1>8, <1>9, <1>10 DEF Bit
<1>12. y => q.ended = TRUE
  <2>1. y => b = 0 /\ n # r - b + 1 /\ n > 0
    BY <1>3, <1>4, <1>7, <1>8
  <2>2. q.ended \in BOOLEAN
    BY <1>1, <1>2, SenderFields
  <2> QED
    BY Zenon, <1>4, <2>1, <2>2
<1> QED
  BY Zenon, <1>2, <1>5, <1>6, <1>7, <1>8, <1>11, <1>12 DEF Trails, bytes_read

(* unwrap() finds the number of a segment of the stream, however old.      *)
LEMMA UnwrapsSegment ==
    ASSUME NEW p \in Endpoint, NEW t, Sends(t, p), NEW f \in Nat, f <= bytes_read(t.stream),
           NEW m \in 0 .. t.next_seqno
    PROVE  m \in UInt64 /\ unwrap(wrap(m, Isn(p)), Isn(p), f + 1) = m
<1>1. t \in Sender /\ Numbers(t, p)
  BY Zenon DEF Sends
<1>2. PICK b, r, n : /\ b = Len(t.stream.buf) /\ r = t.stream.written /\ n = t.next_seqno
  BY Zenon
<1>3. b \in Nat /\ r \in Nat /\ n \in Nat
  BY <1>1, <1>2, SenderFields
<1>4. /\ b <= r /\ r <= MaxBytes(p) /\ f <= r - b
      /\ n > 0 => n = r - b + 1 \/ n = r - b + 2
  BY Zenon, <1>1, <1>2 DEF Numbers, bytes_read
<1>5. PICK k \in Nat : k = MaxBytes(p) /\ 2 * (k + 2) < Wrap
  BY Zenon, Constants
<1>6. m \in 0 .. k + 2 /\ f \in 0 .. k
  <2>1. m \in 0 .. n
    BY Zenon, <1>2
  <2> QED
    BY <1>3, <1>4, <1>5, <2>1
<1>7. m \in UInt64 /\ f + 1 \in UInt64
  BY <1>5, <1>6, Constants DEF UInt64
<1>8. 2 * diff(f + 1, m) < Wrap
  BY <1>5, <1>6, Constants DEF diff
<1>9. RoundTripAt(m, Isn(p), f + 1)
  BY Zenon, <1>7, Constants, UnwrapRoundTrip
<1> QED
  BY Zenon, <1>7, <1>8, <1>9 DEF RoundTripAt

(* A segment of the stream is a genuine one for the receiver.              *)
LEMMA FromGenuine ==
    ASSUME NEW p \in Endpoint, NEW t, Sends(t, p), NEW w, Trails(w, t), NEW seg, From(seg, t, p)
    PROVE  \E m : Genuine(w, seg, m, Isn(p), At(p), SentPlaces(t), SentEnd(t))
<1>1. PICK m \in 0 .. t.next_seqno :
        /\ seg.seqno = wrap(m, Isn(p)) /\ seg.syn = (m = 0)
        /\ Run(seg.payload, FirstOf(m), At(p))
        /\ FirstOf(m) .. FirstOf(m) + Len(seg.payload) - 1 \subseteq SentPlaces(t)
        /\ seg.fin => FirstOf(m) + Len(seg.payload) \in SentEnd(t)
  BY Zenon DEF From, Carried
<1>2. m \in UInt64 /\ unwrap(seg.seqno, Isn(p), stream_out(w).written + 1) = m
  <2>1. m \in UInt64 /\ unwrap(wrap(m, Isn(p)), Isn(p), stream_out(w).written + 1) = m
    BY Zenon, UnwrapsSegment DEF Trails
  <2> QED
    BY Zenon, <1>1, <2>1
<1>3. seg.syn \in BOOLEAN /\ seg.fin \in BOOLEAN /\ seg.payload \in Seq(Int)
  BY DEF From, AnySegment
<1>4. seg.syn => seg.seqno = Isn(p)
  <2>1. wrap(0, Isn(p)) = Isn(p)
    BY Constants, WrapZero
  <2>2. seg.syn => m = 0
    BY Zenon, <1>1
  <2> QED
    BY Zenon, <1>1, <2>1, <2>2
<1> DEFINE c == ChunkOf(seg, m)
<1>5. StreamIndex(m, seg) = FirstOf(m) /\ FirstOf(m) \in Nat
  BY Zenon, <1>1, <1>2, IndexIs
<1>6. c = [data |-> seg.payload, index |-> FirstOf(m)]
  BY Zenon, <1>5 DEF ChunkOf
<1> HIDE DEF c
<1>7. c \in Chunk /\ c.index = FirstOf(m) /\ c.data = seg.payload
  BY <1>3, <1>5, <1>6 DEF Chunk
<1>8. End(c) = FirstOf(m) + Len(seg.payload)
  BY Zenon, <1>7 DEF End
<1>9. Faithful(c, At(p))
  BY Zenon, <1>1, <1>7 DEF Faithful
<1>10. Places(c) \subseteq SentPlaces(t)
  <2>1. Len(seg.payload) \in Nat
    BY <1>3
  <2>2. End(c) - 1 = FirstOf(m) + Len(seg.payload) - 1
    BY <1>5, <1>8, <2>1
  <2> QED
    BY Zenon, <1>1, <1>7, <2>2 DEF Places
<1>11. Genuine(w, seg, m, Isn(p), At(p), SentPlaces(t), SentEnd(t))
  BY Zenon, <1>1, <1>2, <1>3, <1>4, <1>7, <1>8, <1>9, <1>10 DEF Genuine, bytes_written, c
<1> QED
  BY Zenon, <1>11

(* What the receiver promises: a genuine segment leaves it listening       *)
(* (ReceiveFacts of StreamReassemblerProofs).                              *)
ReceivePromise ==
    \A v, isn, at, P, F, seg, m :
        /\ Listens(v, isn, at, P, F) /\ (\A p \in P, f \in F : p < f)
        /\ Genuine(v, seg, m, isn, at, P, F)
        => Heard(receive(v, seg), v, seg, isn, at, P, F)

(* A segment of the peer for the receiver.                                 *)
LEMMA HearMoves ==
    ASSUME ReceivePromise, NEW e \in Endpoint, NEW t, NEW v, NEW c, Fit(c, e, t, v), Live(c),
           Sends(t, Peer(e)), NEW seg, From(seg, t, Peer(e)), NEW q
    PROVE  Moves(SetReceiverQuiet(c, receive(c.receiver, seg), q), c, e, t, v)
<1> DEFINE p == Peer(e)
           w == receive(c.receiver, seg)
           d == SetReceiverQuiet(c, w, q)
<1>1. Stands(c, e, t, v) /\ p \in Endpoint
  BY Zenon, Constants DEF Fit
<1>2. /\ IsConnection(c, c.sender, c.receiver, c.segments_out, c.linger, c.active, c.quiet)
      /\ Listens(c.receiver, Isn(p), At(p), SentPlaces(t), SentEnd(t))
      /\ c.receiver.syn_received => t.next_seqno > 0
  BY Zenon, <1>1, StandsFacts DEF Stands
<1>3. \A x \in SentPlaces(t), f \in SentEnd(t) : x < f
  <2>1. PICK b \in Nat, r \in Nat : b = Len(t.stream.buf) /\ r = t.stream.written
    BY SenderFields DEF Sends
  <2>2. \A x \in 0 .. (r - b) - 1 : x < r
    BY <2>1
  <2>3. SentPlaces(t) = 0 .. (r - b) - 1 /\ \A f \in SentEnd(t) : f = r
    BY Zenon, <2>1 DEF SentPlaces, SentEnd, bytes_read
  <2> QED
    BY Zenon, <2>2, <2>3
<1>4. Trails(c.receiver, t)
  BY Zenon, <1>1, <1>2, ReceiverBehind
<1>5. PICK m : Genuine(c.receiver, seg, m, Isn(p), At(p), SentPlaces(t), SentEnd(t))
  BY Zenon, <1>1, <1>4, FromGenuine
<1>6. Heard(w, c.receiver, seg, Isn(p), At(p), SentPlaces(t), SentEnd(t))
  BY Zenon, <1>2, <1>3, <1>5 DEF ReceivePromise
<1>7. /\ Listens(w, Isn(p), At(p), SentPlaces(t), SentEnd(t))
      /\ Follows(w.reassembler, c.receiver.reassembler)
      /\ w.syn_received = (c.receiver.syn_received \/ seg.syn)
  BY Zenon, <1>6 DEF Heard
<1>8. t.next_seqno > 0
  BY Zenon DEF From, Carried
<1> HIDE DEF w
<1>9. IsConnection(d, c.sender, w, c.segments_out, c.linger, c.active, q)
  BY Zenon, <1>2, WithReceiverQuiet
<1>10. c.receiver.syn_received => w.syn_received
  BY Zenon, <1>7
<1> HIDE DEF d
<1>11. Ends(d, c, e, t, v) /\ (Live(c) => Live(d))
  BY Zenon, <1>7, <1>8, <1>9, <1>10, ReceiverMoves
<1>12. Moves(d, c, e, t, v)
  BY Zenon, <1>11 DEF Moves
<1> QED
  BY Zenon, <1>12 DEF d, w

(* The ackno of a segment for the sender.                                  *)
LEMMA AckMoves ==
    ASSUME SenderPromise, NEW e \in Endpoint, NEW t, NEW v, NEW c, Fit(c, e, t, v), Live(c),
           AbsAckno(v) \in Nat, AbsAckno(v) <= c.sender.next_seqno,
           NEW seg \in AnySegment, Acks(seg, v, Isn(e)), seg.ack
    PROVE  Moves(SetSender(c, ack_received(c.sender, seg.ackno, seg.win)), c, e, t, v)
<1> DEFINE s == ack_received(c.sender, seg.ackno, seg.win)
           d == SetSender(c, s)
<1>1. Stands(c, e, t, v)
  BY Zenon DEF Fit
<1>2. /\ IsConnection(c, c.sender, c.receiver, c.segments_out, c.linger, c.active, c.quiet)
      /\ Sends(c.sender, e) /\ c.sender.next_seqno \in Nat /\ c.sender.abs_ackno <= AbsAckno(v)
  BY Zenon, <1>1, StandsFacts DEF Stands
<1>3. PICK a \in 1 .. AbsAckno(v) : seg.ackno = wrap(a, Isn(e))
  BY Zenon DEF Acks
<1>4. a \in Nat /\ 1 <= a /\ a <= AbsAckno(v) /\ a <= c.sender.next_seqno
  <2>1. PICK k \in Nat, n \in Nat : k = AbsAckno(v) /\ n = c.sender.next_seqno
    BY <1>2
  <2>2. a \in 1 .. k /\ k <= n
    BY Zenon, <2>1
  <2>3. a \in Nat /\ 1 <= a /\ a <= k /\ a <= n
    BY <2>2
  <2> QED
    BY Zenon, <2>1, <2>3
<1>5. seg.win \in 0 .. U16 - 1
  <2>1. seg.win \in Nat
    BY DEF AnySegment
  <2>2. seg.win < U16
    BY Zenon DEF Acks
  <2> QED
    BY <2>1, <2>2, Constants
<1>6. Acked(s, c.sender, e, a)
  BY Zenon, <1>2, <1>3, <1>4, <1>5, AckSends
<1> HIDE DEF s
<1>7. /\ Sends(s, e) /\ Grown(s, c.sender) /\ s.stream.error = c.sender.stream.error
      /\ s.abs_ackno <= AbsAckno(v)
  <2>1. s.abs_ackno \in {c.sender.abs_ackno, a}
    BY Zenon, <1>6 DEF Acked
  <2>2. s.abs_ackno = c.sender.abs_ackno \/ s.abs_ackno = a
    BY Zenon, <2>1
  <2> QED
    BY Zenon, <1>2, <1>4, <1>6, <2>2 DEF Acked
<1>8. IsConnection(d, s, c.receiver, c.segments_out, c.linger, c.active, c.quiet)
  BY Zenon, <1>2, WithSender
<1> HIDE DEF d
<1>9. Moves(d, c, e, t, v)
  BY Zenon, <1>7, <1>8, SenderMoves DEF Fit, Out
<1> QED
  BY Zenon, <1>9 DEF d, s

(* The reply to a segment: what the sender has to send, an empty segment,  *)
(* or the own SYN.                                                         *)
Reply(c, seg) ==
    LET c4 == IF length_in_sequence_space(seg) > 0 THEN EnsureSegment(c) ELSE c
        c5 == IF syn_sent(c) THEN send_segments(c4, FALSE) ELSE c
    IN  IF seg.syn /\ ~syn_sent(c5) THEN connect(c5) ELSE c5

(* The reply is a move (tcp_connection.cc:49-62).                          *)
LEMMA ReplyMoves ==
    ASSUME SenderPromise, NEW e \in Endpoint, NEW t, NEW v, NEW c, Fit(c, e, t, v), Live(c), NEW seg
    PROVE  Moves(Reply(c, seg), c, e, t, v)
<1> DEFINE c4 == IF length_in_sequence_space(seg) > 0 THEN EnsureSegment(c) ELSE c
           c5 == IF syn_sent(c) THEN send_segments(c4, FALSE) ELSE c
           d  == Reply(c, seg)
<1>1. d = IF seg.syn /\ ~syn_sent(c5) THEN connect(c5) ELSE c5
  BY Zenon DEF Reply
<1>2. Moves(c5, c, e, t, v)
  <2>1. CASE syn_sent(c)
    <3>1. Moves(c4, c, e, t, v)
      BY Zenon, <2>1, EnsureMoves, MovesSame
    <3> HIDE DEF c4
    <3>2. FALSE \in BOOLEAN
      OBVIOUS
    <3>3. Moves(send_segments(c4, FALSE), c4, e, t, v)
      BY Zenon, <3>1, <3>2, MovesFit, SendMoves
    <3>4. Moves(send_segments(c4, FALSE), c, e, t, v)
      BY Zenon, <3>1, <3>3, MovesOn
    <3> QED
      BY Zenon, <2>1, <3>4
  <2>2. CASE ~syn_sent(c)
    BY Zenon, <2>2, MovesSame
  <2> QED
    BY Zenon, <2>1, <2>2
<1> HIDE DEF c5, d
<1>3. Moves(connect(c5), c, e, t, v)
  <2>1. Moves(connect(c5), c5, e, t, v)
    BY Zenon, <1>2, MovesFit, ConnectMoves
  <2> QED
    BY Zenon, <1>2, <2>1, MovesOn
<1>4. Moves(d, c, e, t, v)
  BY Zenon, <1>1, <1>2, <1>3
<1> QED
  BY Zenon, <1>4 DEF d

(* segment_received().                                                     *)
LEMMA SegmentEnds ==
    ASSUME SenderPromise,
           ReceivePromise, NEW e \in Endpoint, NEW t, NEW v, NEW c, Fit(c, e, t, v), c.active = TRUE,
           Sends(t, Peer(e)), AbsAckno(v) \in Nat, AbsAckno(v) <= c.sender.next_seqno,
           NEW seg, From(seg, t, Peer(e)), Acks(seg, v, Isn(e))
    PROVE  Ends(segment_received(c, seg), c, e, t, v)
<1> DEFINE c1 == SetReceiverQuiet(c, receive(c.receiver, seg), 0)
           c2 == IF seg.rst THEN reset(c1) ELSE c1
           c3 == IF seg.ack THEN SetSender(c2, ack_received(c2.sender, seg.ackno, seg.win)) ELSE c2
           c6 == Reply(c3, seg)
<1>1. segment_received(c, seg) = try_switching_close_mode(c6)
  BY Zenon DEF segment_received, SetReceiverQuiet, SetSender, Reply
<1>2. Live(c) /\ seg \in AnySegment
  BY Zenon DEF Live, From
<1>3. Moves(c1, c, e, t, v)
  BY Zenon, <1>2, HearMoves
<1> HIDE DEF c1
<1>4. Moves(c2, c, e, t, v)
  <2>1. Moves(reset(c1), c1, e, t, v)
    BY Zenon, <1>3, MovesFit, ResetMoves
  <2>2. Moves(reset(c1), c, e, t, v)
    BY Zenon, <1>3, <2>1, MovesOn
  <2> QED
    BY Zenon, <1>3, <2>2
<1> HIDE DEF c2
<1>5. Fit(c2, e, t, v) /\ Live(c2) /\ Stands(c2, e, t, v)
  BY Zenon, <1>4, MovesFit
<1>6. Moves(c3, c, e, t, v)
  <2>1. CASE seg.ack
    <3>1. AbsAckno(v) <= c2.sender.next_seqno
      <4>1. c.sender.next_seqno <= c2.sender.next_seqno
        BY Zenon, <1>4 DEF Moves, Ends, Later, Grown
      <4>2. c.sender.next_seqno \in Nat
        BY Zenon, StandsFacts DEF Fit
      <4>3. c2.sender.next_seqno \in Nat
        BY Zenon, <1>5, StandsFacts
      <4> QED
        BY <4>1, <4>2, <4>3
    <3>2. Moves(c3, c2, e, t, v)
      BY Zenon, <1>2, <1>5, <2>1, <3>1, AckMoves
    <3> QED
      BY Zenon, <1>4, <3>2, MovesOn
  <2>2. CASE ~seg.ack
    BY Zenon, <1>4, <2>2
  <2> QED
    BY Zenon, <2>1, <2>2
<1> HIDE DEF c3
<1>7. Moves(c6, c, e, t, v)
  <2>1. Moves(c6, c3, e, t, v)
    BY Zenon, <1>6, MovesFit, ReplyMoves
  <2> QED
    BY Zenon, <1>6, <2>1, MovesOn
<1> HIDE DEF c6
<1>8. Ends(try_switching_close_mode(c6), c6, e, t, v)
  BY Zenon, <1>7, MovesFit, SwitchEnds
<1> QED
  BY Zenon, <1>1, <1>7, <1>8, MovesTwice

(* The destructor.  The connection has no owner any more, so nothing is    *)
(* asked of its queue.                                                     *)
Gone(d, c, e, t, v) == Stands(d, e, t, v) /\ Later(d, c) /\ d.active = FALSE

(* The destructor leaves a connection that stands                          *)
(* (tcp_connection.cc:182-194).                                            *)
LEMMA DestroyStands ==
    ASSUME NEW e \in Endpoint, NEW t, NEW v, NEW c, Stands(c, e, t, v), c.active = TRUE
    PROVE  Gone(destroy(c), c, e, t, v)
<1> DEFINE b  == send_segments(EnsureSegment(c), TRUE)
           u  == send_empty_segment(c.sender)
           x  == EnsureSegment(c)
           s  == [c.sender EXCEPT !.segments_out = <<>>]
           so == x.sender.segments_out
           out == x.segments_out \o [i \in 1 .. Len(so) |-> Stamp(x, so[i], TRUE)]
<1>1. /\ IsConnection(c, c.sender, c.receiver, c.segments_out, c.linger, c.active, c.quiet)
      /\ Sends(c.sender, e) /\ c.sender \in Sender
  BY Zenon, StandsFacts
<1>2. PICK z : IsConnection(x, z, c.receiver, c.segments_out, c.linger, c.active, c.quiet)
               /\ [z EXCEPT !.segments_out = <<>>] = s
  <2>1. CASE c.sender.segments_out = <<>>
    <3>1. x = SetSender(c, u)
      BY Zenon, <2>1 DEF EnsureSegment, SetSender
    <3>2. [u EXCEPT !.segments_out = <<>>] = s
      <4>1. PICK o : u = [c.sender EXCEPT !.segments_out = o]
        BY Zenon DEF send_empty_segment
      <4> QED
        BY Zenon, <1>1, <4>1 DEF Sender
    <3> HIDE DEF u, x
    <3>3. IsConnection(x, u, c.receiver, c.segments_out, c.linger, c.active, c.quiet)
      BY Zenon, <1>1, <3>1, WithSender
    <3> QED
      BY Zenon, <3>2, <3>3
  <2>2. CASE c.sender.segments_out # <<>>
    BY Zenon, <1>1, <2>2 DEF EnsureSegment
  <2> QED
    BY Zenon, <2>1, <2>2
<1>3. b = IF x.active THEN SetSegmentsSender(x, out, [x.sender EXCEPT !.segments_out = <<>>]) ELSE x
  BY Zenon DEF send_segments, SetSegmentsSender
<1> HIDE DEF b, x, s, out
<1>4. x.sender = z /\ x.active = c.active
  BY Zenon, <1>2, ConnectionFields
<1>5. b = SetSegmentsSender(x, out, s)
  BY Zenon, <1>2, <1>3, <1>4
<1>6. IsConnection(b, s, c.receiver, out, c.linger, c.active, c.quiet)
  BY Zenon, <1>2, <1>5, WithSegmentsSender
<1>7. Fills(s, c.sender, e)
  BY Zenon, <1>1, ClearSends DEF s
<1>8. /\ Sends(s, e) /\ Grown(s, c.sender) /\ s.abs_ackno <= AbsAckno(v)
      /\ s.stream.error = c.sender.stream.error
  BY Zenon, <1>7 DEF Fills, Stands
<1>9. Stands(b, e, t, v) /\ Later(b, c)
  BY Zenon, <1>6, <1>8, SenderStands DEF Live
<1>10. Stands(reset(b), e, t, v) /\ Later(reset(b), b) /\ reset(b).active = FALSE
  BY Zenon, <1>9, ResetStands DEF WellReset
<1>11. Later(reset(b), c)
  <2>1. c.sender \in Sender /\ AbsAckno(c.receiver) \in Nat
    BY Zenon, StandsFacts
  <2>2. b.sender \in Sender /\ AbsAckno(b.receiver) \in Nat
    BY Zenon, <1>9, StandsFacts
  <2>3. reset(b).sender \in Sender /\ AbsAckno(reset(b).receiver) \in Nat
    BY Zenon, <1>10, StandsFacts
  <2> QED
    BY Zenon, <1>9, <1>10, <2>1, <2>2, <2>3, LaterTwice
<1>12. destroy(c) = reset(b)
  BY Zenon DEF destroy, b, x
<1> QED
  BY Zenon, <1>10, <1>11, <1>12 DEF Gone

(* The application reads, from a connection that may have ended.           *)
Drained(c) ==
    [c EXCEPT !.receiver.reassembler.output = pop_output(@, buffer_size(@))]

(* Reading leaves a connection that stands.                                *)
LEMMA ReadEnds ==
    ASSUME NEW e \in Endpoint, NEW t, NEW v, NEW c, Fit(c, e, t, v)
    PROVE  Ends(Drained(c), c, e, t, v)
<1> DEFINE r == c.receiver.reassembler
           n == buffer_size(r.output)
           s == ReadFrom(r, n)
           w == SetReassembler(c.receiver, s)
           d == Drained(c)
<1>1. Stands(c, e, t, v)
  BY Zenon DEF Fit
<1>2. /\ IsConnection(c, c.sender, c.receiver, c.segments_out, c.linger, c.active, c.quiet)
      /\ Listens(c.receiver, Isn(Peer(e)), At(Peer(e)), SentPlaces(t), SentEnd(t))
      /\ c.receiver.syn_received => t.next_seqno > 0
  BY Zenon, <1>1, StandsFacts DEF Stands
<1>3. d = [c EXCEPT !.receiver = w]
  BY Zenon DEF Drained, SetReassembler, ReadFrom
<1>4. n \in Nat /\ n <= buffer_size(r.output)
  <2>1. Len(r.output.buf) \in Nat
    BY Zenon, <1>2, WindowFacts DEF Listens
  <2> QED
    BY <2>1 DEF buffer_size
<1>5. InOrder(s, At(Peer(e)), SentPlaces(t), SentEnd(t)) /\ Follows(s, r)
  BY Zenon, <1>2, <1>4, ReadInOrder DEF Listens
<1>6. r.output.ended = s.output.ended /\ r.first_unasmb = s.first_unasmb
  <2>1. r \in [output : {r.output}, unasmb : {r.unasmb}, first_unasmb : {r.first_unasmb},
               n_unasmb : {r.n_unasmb}, eof_set : {r.eof_set}, last_byte : {r.last_byte}]
        /\ r.output \in Stream(Int)
    BY Zenon, <1>2 DEF Listens, InOrder, Sound, With
  <2> QED
    BY <2>1 DEF ReadFrom, pop_output, Stream
<1> HIDE DEF s
<1>7. IsReceiver(w, c.receiver.syn_received, c.receiver.isn, s)
  BY Zenon, <1>2, WithReassembler DEF Listens
<1> HIDE DEF w
<1>8. /\ IsReceiver(w, w.syn_received, w.isn, w.reassembler)
      /\ w.syn_received = c.receiver.syn_received /\ w.isn = c.receiver.isn /\ w.reassembler = s
  BY <1>7, ReceiverFields
<1>9. Listens(w, Isn(Peer(e)), At(Peer(e)), SentPlaces(t), SentEnd(t))
  BY Zenon, <1>2, <1>5, <1>6, <1>8 DEF Listens
<1>10. IsConnection(d, c.sender, w, c.segments_out, c.linger, c.active, c.quiet)
  BY <1>2, <1>3 DEF IsConnection
<1> HIDE DEF d
<1>11. Ends(d, c, e, t, v)
  BY Zenon, <1>2, <1>5, <1>8, <1>9, <1>10, ReceiverMoves
<1> QED
  BY Zenon, <1>11 DEF d

(***************************************************************************)
(* A step of one end keeps both ends consistent.                           *)
(***************************************************************************)

(* What Consistent says of one end.                                        *)
LEMMA PairFacts ==
    ASSUME NEW C, NEW N, Consistent(C, N), NEW e \in Endpoint
    PROVE  /\ Peer(e) \in Endpoint /\ Peer(e) # e /\ Peer(Peer(e)) = e
           /\ Stands(C[e], e, C[Peer(e)].sender, C[Peer(e)].receiver)
           /\ Stands(C[Peer(e)], Peer(e), C[e].sender, C[e].receiver)
           /\ C[e].active => C[e].segments_out = <<>>
           /\ \A seg \in N[Peer(e)] : Good(seg, C[e], e)
           /\ \A seg \in N[e] : Good(seg, C[Peer(e)], Peer(e))
           /\ Trails(C[Peer(e)].receiver, C[e].sender)
<1>1. Peer(e) \in Endpoint /\ Peer(e) # e /\ Peer(Peer(e)) = e
  BY Zenon, Constants
<1>2. Pair(C, N, e) /\ Pair(C, N, Peer(e))
  BY Zenon, <1>1 DEF Consistent
<1>3. /\ Stands(C[e], e, C[Peer(e)].sender, C[Peer(e)].receiver)
      /\ Stands(C[Peer(e)], Peer(e), C[e].sender, C[e].receiver)
      /\ C[e].active => C[e].segments_out = <<>>
      /\ \A seg \in N[Peer(e)] : Good(seg, C[e], e)
      /\ \A seg \in N[e] : Good(seg, C[Peer(e)], Peer(e))
  BY Zenon, <1>1, <1>2 DEF Pair
<1>4. Trails(C[Peer(e)].receiver, C[e].sender)
  <2>1. /\ Sends(C[e].sender, e)
        /\ Listens(C[Peer(e)].receiver, Isn(e), At(e), SentPlaces(C[e].sender), SentEnd(C[e].sender))
        /\ C[Peer(e)].receiver.syn_received => C[e].sender.next_seqno > 0
    BY Zenon, <1>1, <1>3 DEF Stands
  <2> QED
    BY Zenon, <2>1, ReceiverBehind
<1> QED
  BY Zenon, <1>1, <1>3, <1>4

(* The peer sees that its counterpart has moved on.                        *)
LEMMA PeerStands ==
    ASSUME NEW p, NEW b, NEW c, NEW d, Stands(b, p, c.sender, c.receiver), Later(d, c),
           c.sender \in Sender, d.sender \in Sender,
           AbsAckno(c.receiver) \in Nat, AbsAckno(d.receiver) \in Nat
    PROVE  Stands(b, p, d.sender, d.receiver)
<1>1. /\ c.sender.next_seqno <= d.sender.next_seqno
      /\ SentPlaces(c.sender) \subseteq SentPlaces(d.sender)
      /\ SentEnd(c.sender) \subseteq SentEnd(d.sender)
      /\ AbsAckno(c.receiver) <= AbsAckno(d.receiver)
  BY Zenon DEF Later, Grown
<1>2. Listens(b.receiver, Isn(Peer(p)), At(Peer(p)), SentPlaces(d.sender), SentEnd(d.sender))
  BY Zenon, <1>1, ListensMono DEF Stands
<1>3. b.sender.abs_ackno <= AbsAckno(d.receiver)
  <2>1. b.sender.abs_ackno <= AbsAckno(c.receiver) /\ b.sender.abs_ackno \in Nat
    BY Zenon, StandsFacts DEF Stands
  <2> QED
    BY <1>1, <2>1
<1>4. c.sender.next_seqno > 0 => d.sender.next_seqno > 0
  <2>1. c.sender.next_seqno \in Nat /\ d.sender.next_seqno \in Nat
    BY SenderFields
  <2> QED
    BY <1>1, <2>1
<1> QED
  BY Zenon, <1>2, <1>3, <1>4 DEF Stands

(* One end goes from C[e] to d, and what it sends is good.                 *)
LEMMA StepKeeps ==
    ASSUME NEW C, NEW N, Consistent(C, N), NEW e \in Endpoint, NEW d,
           Stands(d, e, C[Peer(e)].sender, C[Peer(e)].receiver), Later(d, C[e]),
           d.active => d.segments_out = <<>>,
           NEW sent, \A seg \in sent : Good(seg, d, e),
           NEW D, D = [C EXCEPT ![e] = d],
           NEW M, M = [x \in Endpoint |-> M[x]],
           M[e] \subseteq N[e], M[Peer(e)] \subseteq N[Peer(e)] \cup sent
    PROVE  Consistent(D, M)
<1> DEFINE p == Peer(e)
<1>1. /\ p \in Endpoint /\ p # e /\ Peer(p) = e
      /\ Stands(C[e], e, C[p].sender, C[p].receiver)
      /\ Stands(C[p], p, C[e].sender, C[e].receiver)
      /\ \A seg \in N[p] : Good(seg, C[e], e)
      /\ \A seg \in N[e] : Good(seg, C[p], p)
      /\ Trails(C[p].receiver, C[e].sender)
      /\ C[p].active => C[p].segments_out = <<>>
  <2>1. p \in Endpoint
    BY Zenon, PairFacts
  <2>2. C[p].active => C[p].segments_out = <<>>
    BY Zenon, <2>1, PairFacts
  <2> QED
    BY Zenon, <2>2, PairFacts
<1>2. D = [x \in Endpoint |-> D[x]] /\ D[e] = d /\ D[p] = C[p]
  BY <1>1 DEF Consistent
<1>3. \A x \in Endpoint : x = e \/ x = p
  BY DEF Endpoint, Peer
<1>4. C[e].sender \in Sender /\ AbsAckno(C[e].receiver) \in Nat
  BY Zenon, <1>1, StandsFacts
<1>5. d.sender \in Sender /\ AbsAckno(d.receiver) \in Nat
  BY Zenon, StandsFacts
<1>6. Pair(D, M, e)
  <2>1. \A seg \in N[p] : Good(seg, d, e)
    BY Zenon, <1>1, <1>4, <1>5, GoodLater
  <2>2. \A seg \in M[p] : Good(seg, d, e)
    BY Zenon, <2>1
  <2> QED
    BY Zenon, <1>2, <2>2 DEF Pair
<1>7. Pair(D, M, p)
  <2>1. Stands(C[p], p, d.sender, d.receiver)
    BY Zenon, <1>1, <1>4, <1>5, PeerStands
  <2>2. \A seg \in M[e] : Good(seg, C[p], p)
    BY Zenon, <1>1
  <2> QED
    BY Zenon, <1>1, <1>2, <2>1, <2>2 DEF Pair
<1>8. \E x \in Endpoint : D[x].linger
  <2>1. d.linger \in BOOLEAN /\ C[e].linger \in BOOLEAN /\ C[p].linger \in BOOLEAN
    BY Zenon, <1>1, StandsFacts
  <2>2. ASSUME d.linger = FALSE, C[p].linger = FALSE PROVE FALSE
    <3>1. C[e].linger = TRUE
      BY Zenon, <1>3, <2>1, <2>2 DEF Consistent
    <3>2. SentEnd(C[e].sender) = {}
      BY Zenon, <2>2, <3>1 DEF Later
    <3>3. stream_out(C[p].receiver).ended
      BY Zenon, <1>1, <2>2 DEF Stands, Flags, inbound
    <3>4. C[e].sender.next_seqno = C[e].sender.stream.written + 2
      BY Zenon, <1>1, <3>3 DEF Trails
    <3> QED
      BY Zenon, <3>2, <3>4 DEF SentEnd
  <2> QED
    BY Zenon, <1>1, <1>2, <2>1, <2>2
<1> QED
  BY Zenon, <1>2, <1>3, <1>6, <1>7, <1>8 DEF Consistent

(* The state a method leaves, once its segments are taken.                 *)
LEMMA TakenStands ==
    ASSUME NEW e, NEW t, NEW v, NEW b, NEW c, Ends(c, b, e, t, v)
    PROVE  LET d == SetSegments(c, <<>>)
           IN  /\ Stands(d, e, t, v) /\ Later(d, b) /\ d.segments_out = <<>>
               /\ \A seg : Good(seg, c, e) => Good(seg, d, e)
<1> DEFINE d == SetSegments(c, <<>>)
<1>1. Stands(c, e, t, v) /\ Later(c, b)
  BY Zenon DEF Ends, Fit
<1>2. IsConnection(d, c.sender, c.receiver, <<>>, c.linger, c.active, c.quiet)
  BY Zenon, <1>1, WithSegments DEF Stands
<1> HIDE DEF d
<1>3. /\ IsConnection(d, d.sender, d.receiver, d.segments_out, d.linger, d.active, d.quiet)
      /\ d.sender = c.sender /\ d.receiver = c.receiver /\ d.segments_out = <<>>
      /\ d.linger = c.linger /\ d.active = c.active
  BY <1>2, ConnectionFields
<1>4. inbound(d) = inbound(c) /\ outbound(d) = outbound(c) /\ (ostream_done(c) => ostream_done(d))
  BY Zenon, <1>3 DEF inbound, outbound, ostream_done
<1>5. Flags(d)
  BY Zenon, <1>1, <1>3, <1>4 DEF Stands, Flags
<1>6. Stands(d, e, t, v)
  BY Zenon, <1>1, <1>3, <1>5 DEF Stands
<1>7. Later(d, b)
  BY Zenon, <1>1, <1>3 DEF Later
<1>8. \A seg : Good(seg, c, e) => Good(seg, d, e)
  BY Zenon, <1>3 DEF Good
<1>9. Stands(d, e, t, v) /\ Later(d, b) /\ d.segments_out = <<>>
      /\ \A seg : Good(seg, c, e) => Good(seg, d, e)
  BY Zenon, <1>3, <1>6, <1>7, <1>8
<1> QED
  BY Zenon, <1>9 DEF d

(* Update() after a method that ends well.                                 *)
LEMMA UpdateKeeps ==
    ASSUME IInv, NEW e \in Endpoint, NEW c, NEW left, left \subseteq net[e], Update(e, c, left),
           Ends(c, conn[e], e, conn[Peer(e)].sender, conn[Peer(e)].receiver)
    PROVE  IInv'
<1> DEFINE p == Peer(e)
           d == SetSegments(c, <<>>)
<1>1. PICK sent \in SUBSET SegmentsOf(c) :
         /\ conn' = [conn EXCEPT ![e] = d]
         /\ net' = [net EXCEPT ![e] = left, ![p] = @ \cup sent]
  BY Zenon DEF Update, SetSegments
<1>2. /\ Stands(d, e, conn[p].sender, conn[p].receiver) /\ Later(d, conn[e]) /\ d.segments_out = <<>>
      /\ \A seg : Good(seg, c, e) => Good(seg, d, e)
  BY Zenon, TakenStands
<1>3. \A seg \in sent : Good(seg, d, e)
  BY Zenon, <1>2 DEF SegmentsOf, Ends, Fit, Out
<1>4. Consistent(conn, net) /\ p \in Endpoint /\ p # e
  BY Zenon, PairFacts DEF IInv
<1>5. PICK M : M = net'
  OBVIOUS
<1>6. M = [x \in Endpoint |-> M[x]] /\ M[e] \subseteq net[e] /\ M[p] \subseteq net[p] \cup sent
  <2>1. net = [x \in Endpoint |-> net[x]]
    BY Zenon, <1>4 DEF Consistent
  <2>2. M = [net EXCEPT ![e] = left, ![p] = @ \cup sent]
    BY Zenon, <1>1, <1>5
  <2> QED
    BY Zenon, <1>4, <2>1, <2>2
<1> HIDE DEF d
<1>7. Consistent(conn', M)
  BY Zenon, <1>1, <1>2, <1>3, <1>4, <1>6, StepKeeps
<1> QED
  BY Zenon, <1>5, <1>7 DEF IInv

(* What a method of an active connection starts from.                      *)
LEMMA StartFits ==
    ASSUME IInv, NEW e \in Endpoint, conn[e].segments_out = <<>>
    PROVE  Fit(conn[e], e, conn[Peer(e)].sender, conn[Peer(e)].receiver)
<1>1. Stands(conn[e], e, conn[Peer(e)].sender, conn[Peer(e)].receiver)
  BY Zenon, PairFacts DEF IInv
<1>2. PICK out : out = conn[e].segments_out
  OBVIOUS
<1>3. out \in Seq(AnySegment) /\ Len(out) = 0
  BY <1>2, EmptyIsSeq
<1>4. \A i \in 1 .. Len(out) : Good(out[i], conn[e], e)
  BY <1>3
<1> QED
  BY Zenon, <1>1, <1>2, <1>3, <1>4 DEF Fit, Out

(* What a method of an active connection starts from.                      *)
LEMMA ActiveFits ==
    ASSUME IInv, NEW e \in Endpoint, conn[e].active
    PROVE  /\ Fit(conn[e], e, conn[Peer(e)].sender, conn[Peer(e)].receiver)
           /\ conn[e].active = TRUE /\ Live(conn[e])
<1>1. conn[e].segments_out = <<>> /\ conn[e].active \in BOOLEAN
  BY Zenon, PairFacts, StandsFacts DEF IInv
<1>2. conn[e].active = TRUE
  BY Zenon, <1>1
<1> QED
  BY Zenon, <1>1, <1>2, StartFits DEF Live

(* Every step keeps the invariant.                                         *)
LEMMA NextKeeps ==
    ASSUME SenderPromise, ReceivePromise, IInv, [Next]_vars
    PROVE  IInv'
<1>1. CASE UNCHANGED vars
  BY Zenon, <1>1 DEF vars, IInv
<1>2. CASE Next
  <2>1. PICK e \in Endpoint :
          \/ Connect(e) \/ Write(e) \/ EndInputStream(e) \/ Read(e)
          \/ SegmentReceived(e) \/ Discard(e) \/ Tick(e) \/ Destroy(e)
    BY Zenon, <1>2 DEF Next
  <2> DEFINE p == Peer(e)
             t == conn[p].sender
             v == conn[p].receiver
             c == conn[e]
  <2>2. /\ Consistent(conn, net) /\ p \in Endpoint
        /\ Stands(c, e, t, v) /\ Stands(conn[p], p, c.sender, c.receiver) /\ Trails(v, c.sender)
        /\ \A seg \in net[e] : Good(seg, conn[p], p)
        /\ Peer(p) = e
    BY Zenon, PairFacts DEF IInv
  <2>3. ASSUME NEW d, Ends(d, c, e, t, v), Call(e, d) PROVE IInv'
    BY Zenon, <2>3, UpdateKeeps DEF Call
  <2>4. ASSUME NEW d, Stands(d, e, t, v), Later(d, c), d.active => d.segments_out = <<>>,
               conn' = [conn EXCEPT ![e] = d], UNCHANGED net
        PROVE  IInv'
    <3>1. net = [x \in Endpoint |-> net[x]]
      BY Zenon, <2>2 DEF Consistent
    <3>2. PICK none : none = {}
      BY Zenon
    <3>3. Consistent(conn', net)
      <4>1. /\ net[e] \subseteq net[e] /\ net[p] \subseteq net[p] \cup none
            /\ \A seg \in none : Good(seg, d, e)
        BY <3>2
      <4> QED
        BY Zenon, <2>2, <2>4, <3>1, <4>1, StepKeeps
    <3> QED
      BY Zenon, <2>4, <3>3 DEF IInv
  <2>5. CASE Connect(e)
    BY Zenon, <2>3, <2>5, ActiveFits, ConnectMoves DEF Connect, Call, Moves
  <2>6. CASE Write(e)
    <3> DEFINE d == write_outbound(c, <<ByteAt(e, bytes_written(outbound(c)))>>)
    <3>1. /\ syn_sent(c) /\ ~input_ended(outbound(c)) /\ bytes_written(outbound(c)) < MaxBytes(e)
          /\ remaining_capacity(outbound(c), send_capacity) > 0 /\ Call(e, d)
      BY Zenon, <2>6 DEF Write
    <3>2. Fit(c, e, t, v) /\ Live(c)
      BY Zenon, <3>1, ActiveFits DEF Call
    <3>3. Ends(d, c, e, t, v)
      BY Zenon, <3>1, <3>2, WriteMoves DEF Moves
    <3> QED
      BY Zenon, <2>3, <3>1, <3>3
  <2>7. CASE EndInputStream(e)
    BY Zenon, <2>3, <2>7, ActiveFits, EndInputEnds DEF EndInputStream, Call
  <2>8. CASE Read(e)
    <3>1. /\ conn[e].segments_out = <<>> /\ UNCHANGED net
          /\ conn' = [conn EXCEPT ![e].receiver.reassembler.output = pop_output(@, buffer_size(@))]
      BY Zenon, <2>8 DEF Read, Unread, Destroyed
    <3>2. conn' = [conn EXCEPT ![e] = Drained(c)]
      BY Zenon, <3>1 DEF Drained
    <3>3. Ends(Drained(c), c, e, t, v)
      BY Zenon, <3>1, StartFits, ReadEnds
    <3>4. Drained(c).segments_out = <<>>
      <4>1. IsConnection(c, c.sender, c.receiver, c.segments_out, c.linger, c.active, c.quiet)
        BY Zenon, <2>2 DEF Stands
      <4>2. \E w : Drained(c) = [c EXCEPT !.receiver = w]
        BY Zenon DEF Drained
      <4> QED
        BY <3>1, <4>1, <4>2 DEF IsConnection
    <3> QED
      BY Zenon, <2>4, <3>1, <3>2, <3>3, <3>4 DEF Ends, Fit
  <2>9. CASE SegmentReceived(e)
    <3>1. PICK seg \in net[e], again \in BOOLEAN :
            /\ c.active
            /\ Update(e, segment_received(c, seg), IF again THEN net[e] ELSE net[e] \ {seg})
      BY Zenon, <2>9 DEF SegmentReceived
    <3>2. From(seg, t, p) /\ Acks(seg, v, Isn(e)) /\ Sends(t, p)
      BY Zenon, <2>2 DEF Good, Stands
    <3>3. Fit(c, e, t, v) /\ c.active = TRUE
      BY Zenon, <3>1, ActiveFits
    <3>4. Ends(segment_received(c, seg), c, e, t, v)
      BY Zenon, <2>2, <3>2, <3>3, SegmentEnds DEF Trails
    <3>5. (IF again THEN net[e] ELSE net[e] \ {seg}) \subseteq net[e]
      BY Zenon
    <3> QED
      BY Zenon, <3>1, <3>4, <3>5, UpdateKeeps
  <2>10. CASE Discard(e)
    <3>1. UNCHANGED conn /\ net' = [net EXCEPT ![e] = {}]
      BY Zenon, <2>10 DEF Discard
    <3>2. PICK M : M = net'
      OBVIOUS
    <3>3. M = [x \in Endpoint |-> M[x]] /\ \A x \in Endpoint : M[x] \subseteq net[x]
      <4>1. net = [x \in Endpoint |-> net[x]] /\ M = [net EXCEPT ![e] = {}]
        BY Zenon, <2>2, <3>1, <3>2 DEF Consistent
      <4> QED
        BY <4>1
    <3>4. \A x \in Endpoint : Pair(conn, M, x)
      <4>1. ASSUME NEW x \in Endpoint PROVE Pair(conn, M, x)
        <5>1. Pair(conn, net, x) /\ Peer(x) \in Endpoint
          BY Zenon, <2>2, Constants DEF Consistent
        <5> QED
          BY Zenon, <3>3, <5>1 DEF Pair
      <4> QED
        BY Zenon, <4>1
    <3>5. Consistent(conn, M)
      BY Zenon, <2>2, <3>3, <3>4 DEF Consistent
    <3> QED
      BY Zenon, <3>1, <3>2, <3>5 DEF IInv
  <2>11. CASE Tick(e)
    <3>1. c.active /\ Update(e, tick_connection(c, 1), net[e])
      BY Zenon, <2>11 DEF Tick
    <3>2. Ends(tick_connection(c, 1), c, e, t, v)
      <4>1. 1 \in Nat
        OBVIOUS
      <4> QED
        BY Zenon, <3>1, <4>1, ActiveFits, TickEnds
    <3>3. net[e] \subseteq net[e]
      BY Zenon
    <3> QED
      BY Zenon, <3>1, <3>2, <3>3, UpdateKeeps
  <2>12. CASE Destroy(e)
    <3>1. c.active = TRUE /\ conn' = [conn EXCEPT ![e] = destroy(c)] /\ UNCHANGED net
      BY Zenon, <2>12, ActiveFits DEF Destroy
    <3>2. Gone(destroy(c), c, e, t, v)
      BY Zenon, <2>2, <3>1, DestroyStands
    <3> QED
      BY Zenon, <2>4, <3>1, <3>2 DEF Gone
  <2> QED
    BY Zenon, <2>1, <2>5, <2>6, <2>7, <2>8, <2>9, <2>10, <2>11, <2>12
<1> QED
  BY Zenon, <1>1, <1>2

(***************************************************************************)
(* What the invariant says of the two streams.                             *)
(***************************************************************************)

(* The inbound stream of a peer is a part of the outbound one.             *)
LEMMA IInvDelivered == IInv => Delivered
<1> SUFFICES ASSUME IInv, NEW e \in Endpoint
             PROVE  LET in  == inbound(conn[Peer(e)])
                        out == outbound(conn[e])
                    IN  /\ \A j \in 1 .. Len(in.buf) : in.buf[j] = ByteAt(e, bytes_read(in) + j - 1)
                        /\ bytes_written(in) <= bytes_written(out)
                        /\ input_ended(in) => input_ended(out) /\ bytes_written(in) = bytes_written(out)
  BY DEF Delivered
<1> DEFINE in  == inbound(conn[Peer(e)])
           out == outbound(conn[e])
           w   == conn[Peer(e)].receiver
           t   == conn[e].sender
<1>1. /\ Stands(conn[e], e, conn[Peer(e)].sender, conn[Peer(e)].receiver)
      /\ Stands(conn[Peer(e)], Peer(e), conn[e].sender, conn[e].receiver)
      /\ Peer(Peer(e)) = e /\ Trails(w, t)
  BY Zenon, PairFacts DEF IInv
<1>2. Listens(w, Isn(e), At(e), SentPlaces(t), SentEnd(t)) /\ t \in Sender
  BY Zenon, <1>1, StandsFacts DEF Stands
<1>3. /\ in \in Stream(Int) /\ Len(in.buf) <= in.written /\ Run(in.buf, bytes_read(in), At(e))
  BY Zenon, <1>2 DEF Listens, InOrder, inbound, stream_out
<1>4. ASSUME NEW j \in 1 .. Len(in.buf) PROVE in.buf[j] = ByteAt(e, bytes_read(in) + j - 1)
  <2>1. in.buf[j] = At(e)[bytes_read(in) + j - 1]
    BY Zenon, <1>3 DEF Run
  <2>2. bytes_read(in) + j - 1 \in Nat
    <3>1. Len(in.buf) \in Nat /\ in.written \in Nat
      BY <1>3 DEF Stream
    <3> QED
      BY <1>3, <3>1 DEF bytes_read
  <2> QED
    BY Zenon, <2>1, <2>2 DEF At
<1>5. in.written <= out.written
  <2>1. in.written \in Nat /\ in.written <= bytes_read(out)
    BY Zenon, <1>1 DEF Trails, inbound, outbound
  <2>2. out.written \in Nat /\ Len(out.buf) \in Nat
    BY <1>2, SenderFields DEF outbound
  <2> QED
    BY <2>1, <2>2 DEF bytes_read
<1>6. in.ended => out.ended /\ in.written = out.written
  BY Zenon, <1>1 DEF Trails, inbound, outbound
<1> QED
  BY Zenon, <1>4, <1>5, <1>6 DEF bytes_written, input_ended

(* The acknos lie between what is acknowledged and what is sent.           *)
LEMMA IInvAckBetween == IInv => AckBetween
<1> SUFFICES ASSUME IInv, NEW e \in Endpoint
             PROVE  /\ conn[e].sender.abs_ackno <= AbsAckno(conn[Peer(e)].receiver)
                    /\ AbsAckno(conn[Peer(e)].receiver) <= conn[e].sender.next_seqno
  BY Zenon DEF AckBetween
<1> QED
  BY Zenon, PairFacts DEF IInv, Stands, Trails

(* The numbers of a sender whose stream is over.                           *)
LEMMA DoneArrived ==
    ASSUME IInv, NEW e \in Endpoint, ostream_done(conn[e])
    PROVE  LET in == inbound(conn[Peer(e)])
           IN  in.ended /\ in.written = outbound(conn[e]).written
<1> DEFINE w == conn[Peer(e)].receiver
           t == conn[e].sender
<1>1. /\ Stands(conn[e], e, conn[Peer(e)].sender, w)
      /\ Stands(conn[Peer(e)], Peer(e), t, conn[e].receiver)
      /\ Peer(Peer(e)) = e /\ Trails(w, t) /\ t.abs_ackno <= AbsAckno(w)
  BY Zenon, PairFacts DEF IInv, Stands
<1>2. Listens(w, Isn(e), At(e), SentPlaces(t), SentEnd(t)) /\ t \in Sender
  BY Zenon, <1>1, StandsFacts DEF Stands
<1>3. PICK n, a, r, b : n = t.next_seqno /\ a = t.abs_ackno /\ r = t.stream.written /\ b = Len(t.stream.buf)
  BY Zenon
<1>4. n \in Nat /\ a \in Nat /\ r \in Nat /\ b \in Nat
  BY <1>2, <1>3, SenderFields
<1>5. n = r + 2 /\ n - a = 0
  BY Zenon, <1>3 DEF ostream_done, bytes_in_flight, outbound, bytes_written
<1>6. PICK f \in Nat, x \in BOOLEAN, y \in BOOLEAN :
         f = stream_out(w).written /\ x = w.syn_received /\ y = stream_out(w).ended
  BY Zenon, <1>2, ReceiverNumbers DEF Listens
<1>7. a <= f + Bit(x) + Bit(y)
  BY Zenon, <1>1, <1>2, <1>3, <1>6, ReceiverNumbers
<1>8. f <= r - b
  BY Zenon, <1>1, <1>3, <1>6 DEF Trails, bytes_read
<1>9. y /\ f = r
  BY <1>4, <1>5, <1>7, <1>8 DEF Bit
<1> QED
  BY Zenon, <1>3, <1>6, <1>9 DEF inbound, outbound

(* A connection that closed without an error has done both its jobs.       *)
LEMMA IInvCleanClose == IInv => CleanClose
<1> SUFFICES ASSUME IInv, NEW e \in Endpoint, ~conn[e].active, ~failed(conn[e])
             PROVE  LET c == conn[e]
                        p == conn[Peer(e)]
                    IN  /\ input_ended(inbound(p)) /\ bytes_written(inbound(p)) = bytes_written(outbound(c))
                        /\ input_ended(inbound(c)) /\ bytes_written(inbound(c)) = bytes_written(outbound(p))
  BY DEF CleanClose
<1>1. /\ Stands(conn[e], e, conn[Peer(e)].sender, conn[Peer(e)].receiver)
      /\ Peer(e) \in Endpoint /\ Peer(Peer(e)) = e
  BY Zenon, PairFacts DEF IInv
<1>2. conn[e].active = FALSE /\ inbound(conn[e]).error = FALSE
  <2>1. conn[e].active \in BOOLEAN /\ inbound(conn[e]).error \in BOOLEAN
    BY Zenon, <1>1, StandsFacts
  <2> QED
    BY Zenon, <2>1 DEF failed
<1>3. inbound(conn[e]).ended /\ ostream_done(conn[e])
  BY Zenon, <1>1, <1>2 DEF Stands, Flags
<1>4. /\ inbound(conn[Peer(e)]).ended
      /\ inbound(conn[Peer(e)]).written = outbound(conn[e]).written
  BY Zenon, <1>3, DoneArrived
<1>5. inbound(conn[e]).written = outbound(conn[Peer(e)]).written
  BY Zenon, <1>1, <1>3, IInvDelivered DEF Delivered, input_ended, bytes_written
<1> QED
  BY Zenon, <1>3, <1>4, <1>5 DEF input_ended, bytes_written

(* One of the two lingers.                                                 *)
LEMMA IInvOneLingers == IInv => OneLingers
BY DEF IInv, Consistent, Endpoint, OneLingers

(* The summaries of tcp_state.cc, case by case.                            *)
LEMMA ReceiverSummary ==
    ASSUME NEW w, NEW x \in BOOLEAN, NEW y \in BOOLEAN, NEW z \in BOOLEAN,
           x = stream_out(w).error, y = w.syn_received, z = stream_out(w).ended
    PROVE  /\ receiver_summary(w) = "ERROR" <=> x
           /\ receiver_summary(w) = "LISTEN" <=> ~x /\ ~y
           /\ receiver_summary(w) = "FIN_RECV" <=> ~x /\ y /\ z
<1>1. receiver_summary(w) = CASE x -> "ERROR"
                              [] ~x /\ ~y -> "LISTEN"
                              [] ~x /\ y -> IF z THEN "FIN_RECV" ELSE "SYN_RECV"
  BY DEF receiver_summary, has_ackno, input_ended
<1> QED
  BY <1>1

SenderCases(u, s, n, a, r) ==
    /\ u = "ERROR" <=> s.stream.error
    /\ u \in {"SYN_ACKED", "FIN_SENT", "FIN_ACKED"} <=> ~s.stream.error /\ n > 0 /\ a > 0
    /\ u \in {"FIN_SENT", "FIN_ACKED"} <=>
          ~s.stream.error /\ n > 0 /\ a > 0 /\ eof(s.stream) /\ n >= r + 2
    /\ u = "FIN_ACKED" <=> ~s.stream.error /\ n > 0 /\ a = n /\ eof(s.stream) /\ n >= r + 2

(* The summary of a sender (tcp_state.cc:94-110).                          *)
LEMMA SenderSummary ==
    ASSUME NEW s, NEW n \in Nat, NEW a \in Nat, NEW r \in Nat,
           n = s.next_seqno, a = s.abs_ackno, r = s.stream.written, a <= n
    PROVE  SenderCases(sender_summary(s), s, n, a, r)
<1>1. sender_summary(s) =
         CASE s.stream.error -> "ERROR"
           [] ~s.stream.error /\ n = 0 -> "CLOSED"
           [] ~s.stream.error /\ n > 0 ->
                 CASE n = n - a -> "SYN_SENT"
                   [] n > n - a /\ (~eof(s.stream) \/ n < r + 2) -> "SYN_ACKED"
                   [] OTHER -> IF n - a > 0 THEN "FIN_SENT" ELSE "FIN_ACKED"
  BY Zenon DEF sender_summary, bytes_in_flight, bytes_written
<1>2. CASE s.stream.error
  BY <1>1, <1>2 DEF SenderCases
<1>3. CASE ~s.stream.error /\ n = 0
  BY <1>1, <1>3 DEF SenderCases
<1>4. CASE ~s.stream.error /\ n > 0
  <2>1. sender_summary(s) = CASE n = n - a -> "SYN_SENT"
                              [] n > n - a /\ (~eof(s.stream) \/ n < r + 2) -> "SYN_ACKED"
                              [] OTHER -> IF n - a > 0 THEN "FIN_SENT" ELSE "FIN_ACKED"
    BY <1>1, <1>4
  <2> QED
    BY <1>4, <2>1 DEF SenderCases
<1> QED
  BY <1>2, <1>3, <1>4

(* The summaries of the two ends, in numbers.                              *)
LEMMA Summaries ==
    ASSUME IInv, NEW e \in Endpoint
    PROVE  LET s == sender_summary(conn[e].sender)
               w == receiver_summary(conn[Peer(e)].receiver)
           IN  /\ s \in {"SYN_ACKED", "FIN_SENT", "FIN_ACKED"} => w # "LISTEN"
               /\ s = "FIN_ACKED" => w \in {"FIN_RECV", "ERROR"}
               /\ w = "FIN_RECV" => s \in {"FIN_SENT", "FIN_ACKED", "ERROR"}
               /\ s = "ERROR" <=> receiver_summary(conn[e].receiver) = "ERROR"
<1> DEFINE t == conn[e].sender
           b == conn[Peer(e)].receiver
<1>1. /\ Stands(conn[e], e, conn[Peer(e)].sender, b)
      /\ Stands(conn[Peer(e)], Peer(e), t, conn[e].receiver)
      /\ Peer(Peer(e)) = e /\ Trails(b, t) /\ t.abs_ackno <= AbsAckno(b)
  BY Zenon, PairFacts DEF IInv, Stands
<1>2. /\ Listens(b, Isn(e), At(e), SentPlaces(t), SentEnd(t)) /\ t \in Sender /\ Numbers(t, e)
  BY Zenon, <1>1, StandsFacts DEF Stands, Sends
<1>3. PICK n, a, r, k : n = t.next_seqno /\ a = t.abs_ackno /\ r = t.stream.written /\ k = Len(t.stream.buf)
  BY Zenon
<1>4. n \in Nat /\ a \in Nat /\ r \in Nat /\ k \in Nat
  BY <1>2, <1>3, SenderFields
<1>6. PICK f \in Nat, g \in BOOLEAN, h \in BOOLEAN, i \in BOOLEAN :
         /\ f = stream_out(b).written /\ g = stream_out(b).error
         /\ h = b.syn_received /\ i = stream_out(b).ended
  BY Zenon, <1>2, ReceiverNumbers DEF Listens
<1>7. /\ receiver_summary(b) = "ERROR" <=> g
      /\ receiver_summary(b) = "LISTEN" <=> ~g /\ ~h
      /\ receiver_summary(b) = "FIN_RECV" <=> ~g /\ h /\ i
  BY Zenon, <1>6, ReceiverSummary
<1>8. a <= n
  BY Zenon, <1>2, <1>3 DEF Numbers
<1>9. SenderCases(sender_summary(t), t, n, a, r)
  BY Zenon, <1>3, <1>4, <1>8, SenderSummary
<1>10. a <= f + Bit(h) + Bit(i)
  BY Zenon, <1>1, <1>2, <1>3, <1>6, ReceiverNumbers
<1>11. ~h => f = 0 /\ ~i
  BY Zenon, <1>2, <1>6 DEF Listens, InOrder, stream_out
<1>12. f <= r - k /\ (i => n = f + 2 /\ r = f /\ t.stream.ended = TRUE)
  BY Zenon, <1>1, <1>3, <1>6 DEF Trails, bytes_read
<1>13. k <= r /\ (a = 0 => n <= 1)
  BY Zenon, <1>2, <1>3 DEF Numbers
<1>14. sender_summary(t) \in {"SYN_ACKED", "FIN_SENT", "FIN_ACKED"} => receiver_summary(b) # "LISTEN"
  <2>1. a > 0 => h
    BY <1>4, <1>10, <1>11 DEF Bit
  <2> QED
    BY Zenon, <1>7, <1>9, <2>1 DEF SenderCases
<1>15. sender_summary(t) = "FIN_ACKED" => receiver_summary(b) \in {"FIN_RECV", "ERROR"}
  <2>1. a = n /\ n >= r + 2 => h /\ i
    BY <1>4, <1>10, <1>11, <1>12, <1>13 DEF Bit
  <2> QED
    BY Zenon, <1>7, <1>9, <2>1 DEF SenderCases
<1>16. receiver_summary(b) = "FIN_RECV" => sender_summary(t) \in {"FIN_SENT", "FIN_ACKED", "ERROR"}
  <2>1. i => n > 0 /\ a > 0 /\ n >= r + 2 /\ k = 0
    BY <1>4, <1>12, <1>13
  <2>2. k = 0 /\ t.stream.ended = TRUE => eof(t.stream)
    <3>1. PICK q \in Seq(Int) : q = t.stream.buf
      BY <1>2, SenderFields
    <3>2. Len(q) = 0 => q = <<>>
      OBVIOUS
    <3> QED
      BY Zenon, <1>3, <3>1, <3>2 DEF eof, buffer_empty, input_ended
  <2>3. i => t.stream.error \/ sender_summary(t) \in {"FIN_SENT", "FIN_ACKED"}
    BY Zenon, <1>9, <1>12, <2>1, <2>2 DEF SenderCases
  <2> QED
    BY Zenon, <1>7, <1>9, <2>3 DEF SenderCases
<1>17. sender_summary(t) = "ERROR" <=> receiver_summary(conn[e].receiver) = "ERROR"
  <2>1. PICK j \in BOOLEAN, l \in BOOLEAN, m \in BOOLEAN :
          /\ j = stream_out(conn[e].receiver).error /\ l = conn[e].receiver.syn_received
          /\ m = stream_out(conn[e].receiver).ended
    BY Zenon, <1>1, StandsFacts, ReceiverNumbers DEF Listens
  <2>2. receiver_summary(conn[e].receiver) = "ERROR" <=> j
    BY Zenon, <2>1, ReceiverSummary
  <2>3. j = t.stream.error
    BY Zenon, <1>1, <2>1 DEF Stands, Flags, inbound, outbound
  <2> QED
    BY Zenon, <1>9, <2>2, <2>3 DEF SenderCases
<1> QED
  BY Zenon, <1>14, <1>15, <1>16, <1>17

(* The states of the two ends agree.                                       *)
LEMMA IInvStatesAgree == IInv => StatesAgree
<1> SUFFICES ASSUME IInv, NEW e \in Endpoint
             PROVE  LET s == state(conn[e])
                        p == state(conn[Peer(e)])
                    IN  /\ s.sender \in {"SYN_ACKED", "FIN_SENT", "FIN_ACKED"} => p.receiver # "LISTEN"
                        /\ s.sender = "FIN_ACKED" => p.receiver \in {"FIN_RECV", "ERROR"}
                        /\ s.receiver = "FIN_RECV" => p.sender \in {"FIN_SENT", "FIN_ACKED", "ERROR"}
                        /\ is_in(conn[e], "TIME_WAIT") =>
                                \/ p.receiver = "FIN_RECV" /\ p.sender \in {"FIN_SENT", "FIN_ACKED"}
                                \/ p.sender = "ERROR"
  BY DEF StatesAgree
<1> DEFINE s == state(conn[e])
           p == state(conn[Peer(e)])
<1>1. Peer(e) \in Endpoint /\ Peer(Peer(e)) = e
  BY Zenon, Constants
<1>2. /\ s.sender = sender_summary(conn[e].sender) /\ s.receiver = receiver_summary(conn[e].receiver)
      /\ p.sender = sender_summary(conn[Peer(e)].sender)
      /\ p.receiver = receiver_summary(conn[Peer(e)].receiver)
  BY DEF state, Summary
<1>3. is_in(conn[e], "TIME_WAIT") => s.sender = "FIN_ACKED" /\ s.receiver = "FIN_RECV"
  BY DEF is_in, Official, Summary
<1> HIDE DEF s, p
<1>4. /\ s.sender \in {"SYN_ACKED", "FIN_SENT", "FIN_ACKED"} => p.receiver # "LISTEN"
      /\ s.sender = "FIN_ACKED" => p.receiver \in {"FIN_RECV", "ERROR"}
  BY Zenon, <1>2, Summaries
<1>5. /\ s.receiver = "FIN_RECV" => p.sender \in {"FIN_SENT", "FIN_ACKED", "ERROR"}
      /\ p.sender = "ERROR" <=> p.receiver = "ERROR"
  BY Zenon, <1>1, <1>2, Summaries
<1>6. is_in(conn[e], "TIME_WAIT") =>
         \/ p.receiver = "FIN_RECV" /\ p.sender \in {"FIN_SENT", "FIN_ACKED"}
         \/ p.sender = "ERROR"
  BY <1>3, <1>4, <1>5
<1> QED
  BY Zenon, <1>4, <1>5, <1>6 DEF s, p
=============================================================================
