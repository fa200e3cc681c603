------------------------ MODULE TCPConnectionProofs ------------------------
(***************************************************************************)
(* The theorems about two connected TCPConnections, for all capacities,    *)
(* payload sizes, bounds and streams, and a network that may lose, repeat, *)
(* delay and reorder.  TCPConnectionInvariant proves that every step keeps *)
(* the inductive invariant IInv if the sender's loops and the receiver     *)
(* keep their promises.  The sender's is proved here; the receiver's is    *)
(* ReceiveFacts of StreamReassemblerProofs.                                *)
(***************************************************************************)
EXTENDS TCPConnectionInvariant, StreamReassemblerProofs

USE SMTT(30)

(***************************************************************************)
(* fill_window(): every iteration leaves the sender in order (lemma        *)
(* SendNextFills), so with NatSetInduction any number of them does.        *)
(***************************************************************************)

(* f is the function that fill_window() reads its result from.             *)
IsRounds(f, s, n) ==
    f = [i \in 0 .. n |->
            IF i = 0 THEN s
                     ELSE LET t == f[i - 1] IN IF FillDone(t) THEN t ELSE SendNext(t)]

(* The rounds of a loop exist, for any number of them.                     *)
LEMMA RoundsExist ==
    ASSUME NEW s
    PROVE  \A n \in Nat : \E f : IsRounds(f, s, n)
<1> DEFINE Round(t) == IF FillDone(t) THEN t ELSE SendNext(t)
           S == {n \in Nat : \E f : IsRounds(f, s, n)}
<1> HIDE DEF Round
<1>1. 0 \in S
  <2> DEFINE f == [i \in 0 .. 0 |-> s]
  <2>1. f = [i \in 0 .. 0 |-> IF i = 0 THEN s ELSE Round(f[i - 1])]
    OBVIOUS
  <2>2. IsRounds(f, s, 0)
    BY Zenon, <2>1 DEF IsRounds, Round
  <2> QED
    BY <2>2
<1>2. ASSUME NEW n \in Nat, n \in S PROVE n + 1 \in S
  <2>1. PICK f : IsRounds(f, s, n)
    BY <1>2
  <2>2. f = [i \in 0 .. n |-> IF i = 0 THEN s ELSE Round(f[i - 1])]
    BY Zenon, <2>1 DEF IsRounds, Round
  <2> DEFINE g == [i \in 0 .. n + 1 |-> IF i <= n THEN f[i] ELSE Round(f[n])]
  <2>3. ASSUME NEW i \in 0 .. n + 1 PROVE g[i] = IF i = 0 THEN s ELSE Round(g[i - 1])
    <3>1. CASE i = 0
      <4>1. g[0] = f[0] /\ f[0] = s
        BY <2>2
      <4> QED
        BY <3>1, <4>1
    <3>2. CASE i \in 1 .. n
      <4>1. i \in 0 .. n /\ i - 1 \in 0 .. n /\ i # 0 /\ i <= n /\ i - 1 <= n /\ i - 1 \in 0 .. n + 1
        BY <3>2
      <4>2. g[i] = f[i] /\ g[i - 1] = f[i - 1]
        BY <4>1
      <4>3. f[i] = Round(f[i - 1])
        BY <2>2, <4>1
      <4> QED
        BY Zenon, <4>1, <4>2, <4>3
    <3>3. CASE i = n + 1
      <4>1. g[n + 1] = Round(f[n]) /\ g[n] = f[n] /\ i - 1 = n /\ i # 0
        BY <3>3
      <4> QED
        BY Zenon, <3>3, <4>1
    <3> QED
      BY <3>1, <3>2, <3>3
  <2>4. g = [i \in 0 .. n + 1 |-> IF i = 0 THEN s ELSE Round(g[i - 1])]
    <3>1. g = [i \in 0 .. n + 1 |-> g[i]]
      OBVIOUS
    <3> HIDE DEF g
    <3> QED
      BY Zenon, <2>3, <3>1
  <2> HIDE DEF g
  <2>5. IsRounds(g, s, n + 1)
    BY Zenon, <2>4 DEF IsRounds, Round
  <2> QED
    BY <2>5
<1> HIDE DEF S
<1>3. Nat \subseteq S
  BY <1>1, <1>2, NatSetInduction
<1> QED
  BY <1>3 DEF S

(* fill_window() is the last of its rounds.                                *)
LEMMA FillIsRounds ==
    ASSUME NEW s \in Sender
    PROVE  \E n \in Nat : \E f : IsRounds(f, s, n) /\ fill_window(s) = f[n]
<1> DEFINE n == s.window_size + 2
           After[i \in 0 .. n] ==
               IF i = 0 THEN s
                        ELSE LET t == After[i - 1] IN IF FillDone(t) THEN t ELSE SendNext(t)
<1>1. fill_window(s) = After[n]
  BY Zenon DEF fill_window
<1>2. n \in Nat
  BY SenderFields
<1> HIDE DEF n
<1>3. \E f : IsRounds(f, s, n)
  BY Zenon, <1>2, RoundsExist
<1>4. IsRounds(After, s, n)
  BY Zenon, <1>3 DEF IsRounds
<1> QED
  BY Zenon, <1>1, <1>2, <1>4

(* fill_window() keeps the sender in order, however often its loop runs.   *)
LEMMA FillWindowKept ==
    ASSUME NEW e \in Endpoint, NEW s, Sends(s, e)
    PROVE  Fills(fill_window(s), s, e)
<1>1. s \in Sender
  BY DEF Sends
<1>9. PICK n \in Nat : \E f : IsRounds(f, s, n) /\ fill_window(s) = f[n]
  BY Zenon, <1>1, FillIsRounds
<1>2. PICK f : IsRounds(f, s, n) /\ fill_window(s) = f[n]
  BY Zenon, <1>9
<1> DEFINE S == {i \in Nat : i <= n => Fills(f[i], s, e)}
<1>3. 0 \in S
  <2>1. f[0] = s
    <3>1. 0 \in 0 .. n
      OBVIOUS
    <3> QED
      BY <1>2, <3>1 DEF IsRounds
  <2>2. Fills(s, s, e)
    BY Zenon, <1>1, GrownSame DEF Fills
  <2> QED
    BY <2>1, <2>2
<1>4. ASSUME NEW i \in Nat, i \in S PROVE i + 1 \in S
  <2> SUFFICES ASSUME i + 1 <= n PROVE Fills(f[i + 1], s, e)
    OBVIOUS
  <2>1. f[i + 1] = IF FillDone(f[i]) THEN f[i] ELSE SendNext(f[i])
    <3>1. i + 1 \in 0 .. n /\ i + 1 # 0 /\ (i + 1) - 1 = i
      OBVIOUS
    <3>2. f[i + 1] = LET t == f[(i + 1) - 1] IN IF FillDone(t) THEN t ELSE SendNext(t)
      BY Zenon, <1>2, <3>1 DEF IsRounds
    <3> QED
      BY Zenon, <3>1, <3>2
  <2>2. Fills(f[i], s, e)
    BY <1>4
  <2>3. CASE FillDone(f[i])
    BY Zenon, <2>1, <2>2, <2>3
  <2>4. CASE ~FillDone(f[i])
    <3>1. Sends(f[i], e) /\ f[i + 1] = SendNext(f[i])
      BY Zenon, <2>1, <2>2, <2>4 DEF Fills
    <3>2. Fills(f[i + 1], f[i], e)
      BY Zenon, <2>4, <3>1, SendNextFills
    <3>3. f[i] \in Sender /\ f[i + 1] \in Sender
      BY Zenon, <3>1, <3>2 DEF Fills, Sends
    <3>4. Grown(f[i + 1], s)
      BY Zenon, <1>1, <2>2, <3>2, <3>3, GrownTwice DEF Fills
    <3> QED
      BY Zenon, <2>2, <3>2, <3>4 DEF Fills
  <2> QED
    BY <2>3, <2>4
<1> HIDE DEF S
<1>5. Nat \subseteq S
  BY <1>3, <1>4, NatSetInduction
<1>6. Fills(f[n], s, e)
  BY <1>5 DEF S
<1> QED
  BY Zenon, <1>2, <1>6

(***************************************************************************)
(* ack_received().                                                         *)
(***************************************************************************)

(* A sender that has heard of an acknowledgment.                           *)
Heeds(t, s, a) ==
    /\ t \in Sender /\ t.stream = s.stream /\ t.isn = s.isn /\ t.segments_out = s.segments_out
    /\ t.next_seqno = s.next_seqno /\ t.abs_ackno = a

(* An ackno between 1 and the next number leaves the sender in order.      *)
LEMMA HeedsSends ==
    ASSUME NEW e \in Endpoint, NEW s, Sends(s, e), NEW t, NEW a \in Nat, Heeds(t, s, a),
           1 <= a, a <= s.next_seqno,
           \A i \in 1 .. Len(t.outstanding) : From(t.outstanding[i].segment, s, e)
    PROVE  Sends(t, e) /\ Grown(t, s)
<1>1. /\ s \in Sender /\ s.isn = Isn(e) /\ Numbers(s, e) /\ t \in Sender
      /\ t.next_seqno = s.next_seqno /\ t.stream = s.stream /\ t.isn = s.isn /\ t.abs_ackno = a
  BY Zenon DEF Sends, Heeds
<1>2. Grown(t, s)
  BY Zenon, <1>1, GrownSame
<1>3. s.next_seqno # 0 /\ a # 0
  BY <1>1, SenderFields
<1>4. Numbers(t, e)
  BY Zenon, <1>1, <1>3 DEF Numbers
<1>5. /\ \A i \in 1 .. Len(t.segments_out) : From(t.segments_out[i], s, e)
      /\ Run(t.stream.buf, bytes_read(t.stream), At(e))
  BY Zenon DEF Sends, Heeds
<1>6. Sends(t, e)
  BY Zenon, <1>1, <1>2, <1>4, <1>5, SendsFrame
<1> QED
  BY Zenon, <1>2, <1>6

(* The erasing loop drops the first segments.                              *)
LEMMA PrefixIs ==
    ASSUME NEW out \in Seq(Flying), NEW a \in Nat
    PROVE  AckedPrefix(out, a) \in 0 .. Len(out)
<1> DEFINE Stop(k) == /\ \A i \in 1 .. k : FullyAcked(out[i], a)
                      /\ k < Len(out) => ~FullyAcked(out[k + 1], a)
           Z == {j \in 1 .. Len(out) : ~FullyAcked(out[j], a)}
<1>1. Len(out) \in Nat
  OBVIOUS
<1>2. \E k \in 0 .. Len(out) : Stop(k)
  <2>1. CASE Z = {}
    <3>1. Len(out) \in 0 .. Len(out) /\ Stop(Len(out))
      BY <2>1, <1>1
    <3> QED
      BY <3>1
  <2>2. CASE Z # {}
    <3>1. Z \subseteq Nat
      BY <1>1
    <3>2. PICK m \in Z : \A j \in Z : ~(<<j, m>> \in OpToRel(<, Nat))
      BY Zenon, <2>2, <3>1, WFMin, NatLessThanWellFounded
    <3>3. ASSUME NEW j \in Z PROVE m <= j
      <4>1. j \in Nat /\ m \in Nat
        BY <3>1
      <4>2. j < m => <<j, m>> \in OpToRel(<, Nat)
        BY <4>1 DEF OpToRel
      <4>3. ~(j < m)
        BY Zenon, <3>2, <4>2
      <4> QED
        BY <4>1, <4>3
    <3>4. m - 1 \in 0 .. Len(out) /\ Stop(m - 1)
      BY <3>3, <1>1
    <3> QED
      BY <3>4
  <2> QED
    BY <2>1, <2>2
<1>3. AckedPrefix(out, a) = CHOOSE k \in 0 .. Len(out) : Stop(k)
  BY DEF AckedPrefix
<1> HIDE DEF Stop
<1> QED
  BY <1>2, <1>3

(* unwrap() finds the number behind an ackno, however old                  *)
(* (tcp_sender.cc:80).                                                     *)
LEMMA UnwrapsAck ==
    ASSUME NEW e \in Endpoint, NEW s, Sends(s, e), NEW a \in Nat, a <= s.next_seqno
    PROVE  unwrap(wrap(a, Isn(e)), Isn(e), s.abs_ackno) = a
<1> DEFINE n == s.next_seqno
           c == s.abs_ackno
           w == s.stream.written
           b == Len(s.stream.buf)
<1>1. s \in Sender /\ Numbers(s, e)
  BY DEF Sends
<1>2. n \in Nat /\ c \in Nat /\ w \in Nat /\ b \in Nat
  BY <1>1, SenderFields
<1>3. c <= n /\ b <= w /\ w <= MaxBytes(e)
  BY Zenon, <1>1 DEF Numbers
<1>4. n > 0 => n = w - b + 1 \/ n = w - b + 2
  BY Zenon, <1>1 DEF Numbers, bytes_read
<1> HIDE DEF n, c, w, b
<1>5. n <= MaxBytes(e) + 2 /\ MaxBytes(e) \in Nat /\ 2 * (MaxBytes(e) + 2) < Wrap
  BY <1>2, <1>3, <1>4, Constants
<1>6. a \in UInt64 /\ c \in UInt64 /\ 2 * diff(c, a) < Wrap
  <2>1. Wrap <= U64 /\ Wrap \in Nat /\ U64 \in Nat /\ a <= n
    BY Zenon, Constants DEF n
  <2>2. a \in UInt64 /\ c \in UInt64
    BY <1>2, <1>3, <1>5, <2>1 DEF UInt64
  <2>3. diff(c, a) <= MaxBytes(e) + 2 /\ diff(c, a) \in Int
    BY <1>2, <1>3, <1>5, <2>1 DEF diff
  <2>4. PICK x \in Int : x = diff(c, a)
    BY <2>3
  <2> QED
    BY <1>5, <2>1, <2>2, <2>3, <2>4
<1>7. RoundTripAt(a, Isn(e), c)
  BY Zenon, <1>6, Constants, UnwrapRoundTrip
<1> QED
  BY Zenon, <1>6, <1>7 DEF RoundTripAt, c

(* ack_received() leaves the sender in order (tcp_sender.cc:77-93).        *)
LEMMA AckKept ==
    ASSUME NEW e \in Endpoint, NEW s, Sends(s, e), NEW a \in Nat, 1 <= a, a <= s.next_seqno,
           NEW win \in 0 .. U16 - 1, NEW no, no = wrap(a, Isn(e))
    PROVE  Acked(ack_received(s, no, win), s, e, a)
<1>1. s \in Sender /\ s.isn = Isn(e) /\ s.next_seqno \in Nat /\ s.abs_ackno \in Nat
      /\ s.abs_ackno <= s.next_seqno /\ s.outstanding \in Seq(Flying)
  BY SenderFields DEF Sends, Numbers
<1>2. unwrap(no, s.isn, s.abs_ackno) = a
  BY Zenon, <1>1, UnwrapsAck
<1> DEFINE u == UpdateWindow(s, win)
           t == TakeAck(u, a)
           k == AckedPrefix(s.outstanding, a)
           out == SubSeq(s.outstanding, k + 1, Len(s.outstanding))
           tm == IF k > 0 THEN start(rt_timeout) ELSE s.timer
<1>3. /\ u \in Sender /\ u.outstanding = s.outstanding /\ u.timer = s.timer
      /\ Heeds(u, s, s.abs_ackno)
  BY <1>1 DEF UpdateWindow, Sender, Heeds
<1>4. k \in 0 .. Len(s.outstanding) /\ Len(s.outstanding) \in Nat
  <2>1. Len(s.outstanding) \in Nat
    BY <1>1
  <2> QED
    BY Zenon, <1>1, <2>1, PrefixIs
<1>5. /\ out \in Seq(Flying) /\ Len(out) = Len(s.outstanding) - k
      /\ \A i \in 1 .. Len(s.outstanding) - k : out[i] = s.outstanding[k + i]
  <2>1. PICK z \in Seq(Flying) : z = s.outstanding
    BY <1>1
  <2>2. PICK j \in 0 .. Len(z) : j = k
    BY <1>4, <2>1
  <2>3. /\ SubSeq(z, j + 1, Len(z)) \in Seq(Flying) /\ Len(SubSeq(z, j + 1, Len(z))) = Len(z) - j
        /\ \A i \in 1 .. Len(z) - j : SubSeq(z, j + 1, Len(z))[i] = z[j + i]
    OBVIOUS
  <2> QED
    BY Zenon, <2>1, <2>2, <2>3
<1>6. tm \in [time_elapsed : Nat, timeout : Nat]
  BY <1>1, SenderFields, Constants DEF start
<1>7. t = [u EXCEPT !.abs_ackno = a, !.outstanding = out, !.timer = tm, !.n_consec = 0]
  BY Zenon, <1>3 DEF TakeAck
<1>8. ack_received(s, no, win) = IF AcceptsAck(s, a) THEN fill_window(t) ELSE u
  BY Zenon, <1>2 DEF ack_received
<1> HIDE DEF u, t, k, out, tm
<1>9. CASE AcceptsAck(s, a)
  <2>1. /\ t \in Sender /\ t.stream = u.stream /\ t.isn = u.isn /\ t.segments_out = u.segments_out
        /\ t.next_seqno = u.next_seqno /\ t.abs_ackno = a /\ t.outstanding = out
    BY Zenon, <1>3, <1>5, <1>6, <1>7 DEF Sender
  <2>2. Heeds(t, s, a)
    BY Zenon, <1>3, <2>1 DEF Heeds
  <2>3. ASSUME NEW i \in 1 .. Len(t.outstanding) PROVE From(t.outstanding[i].segment, s, e)
    <3>1. i \in 1 .. Len(s.outstanding) - k
      BY Zenon, <1>5, <2>1
    <3>2. k + i \in 1 .. Len(s.outstanding)
      BY <1>4, <3>1
    <3> QED
      BY Zenon, <1>5, <2>1, <3>1, <3>2 DEF Sends
  <2>4. Sends(t, e) /\ Grown(t, s)
    BY <2>2, <2>3, HeedsSends
  <2>5. Fills(fill_window(t), t, e)
    BY Zenon, <2>4, FillWindowKept
  <2>6. fill_window(t) \in Sender
    BY Zenon, <2>5 DEF Fills, Sends
  <2>7. Grown(fill_window(t), s)
    BY Zenon, <1>1, <2>1, <2>4, <2>5, <2>6, GrownTwice DEF Fills
  <2>8. ack_received(s, no, win) = fill_window(t)
    BY Zenon, <1>8, <1>9
  <2> QED
    BY Zenon, <2>2, <2>5, <2>7, <2>8 DEF Fills, Acked, Heeds
<1>10. CASE ~AcceptsAck(s, a)
  <2>1. 1 <= s.abs_ackno
    BY <1>1, <1>10 DEF AcceptsAck
  <2>2. \A i \in 1 .. Len(u.outstanding) : From(u.outstanding[i].segment, s, e)
    BY Zenon, <1>3 DEF Sends
  <2>3. Sends(u, e) /\ Grown(u, s)
    BY <1>1, <1>3, <2>1, <2>2, HeedsSends
  <2>4. ack_received(s, no, win) = u
    BY Zenon, <1>8, <1>10
  <2> QED
    BY Zenon, <1>3, <2>3, <2>4 DEF Acked, Heeds
<1> QED
  BY <1>9, <1>10

(***************************************************************************)
(* The promises are kept, and hold in the beginning.                       *)
(***************************************************************************)

(* The sender keeps its promise (tcp_sender.cc:24-93).                     *)
LEMMA SenderKeepsPromise == SenderPromise
<1> SUFFICES ASSUME NEW e \in Endpoint, NEW s, Sends(s, e)
             PROVE  /\ Fills(fill_window(s), s, e)
                    /\ \A a \in Nat, win \in 0 .. U16 - 1 :
                          1 <= a /\ a <= s.next_seqno
                          => Acked(ack_received(s, wrap(a, Isn(e)), win), s, e, a)
  BY Zenon DEF SenderPromise
<1>1. ASSUME NEW a \in Nat, NEW win \in 0 .. U16 - 1, 1 <= a, a <= s.next_seqno
      PROVE  Acked(ack_received(s, wrap(a, Isn(e)), win), s, e, a)
  BY Zenon, <1>1, AckKept
<1> QED
  BY Zenon, <1>1, FillWindowKept

(* segment_received() of the receiver keeps its promise                    *)
(* (tcp_receiver.cc:13-24).                                                *)
LEMMA PromiseKept == ReceivePromise
<1> SUFFICES ASSUME NEW v, NEW isn, NEW at, NEW P, NEW F, NEW seg, NEW m,
                    Listens(v, isn, at, P, F), \A p \in P, f \in F : p < f,
                    Genuine(v, seg, m, isn, at, P, F)
             PROVE  Heard(receive(v, seg), v, seg, isn, at, P, F)
  BY DEF ReceivePromise
<1> QED
  BY ReceiveFacts

(* A sender that has not been called (tcp_sender.cc:14-22).                *)
LEMMA NewSends ==
    ASSUME NEW e \in Endpoint
    PROVE  LET s == NewSender(Isn(e))
           IN  Sends(s, e) /\ s.abs_ackno = 0 /\ s.next_seqno = 0 /\ s.stream = EmptyStream
<1> DEFINE s == NewSender(Isn(e))
<1>1. /\ s \in Sender /\ s.isn = Isn(e) /\ s.abs_ackno = 0 /\ s.next_seqno = 0
      /\ s.stream = EmptyStream /\ s.outstanding = <<>> /\ s.segments_out = <<>>
      /\ s.n_consec = 0 /\ s.window_size = 1
  <2>1. PICK q \in Stream(Int), tm \in [time_elapsed : Nat, timeout : Nat], i \in WrappingInt32 :
          q = EmptyStream /\ tm = start(rt_timeout) /\ i = Isn(e)
    <3>1. EmptyStream \in Stream(Int)
      BY DEF EmptyStream, Stream
    <3>2. start(rt_timeout) \in [time_elapsed : Nat, timeout : Nat]
      BY Constants DEF start
    <3> QED
      BY Zenon, <3>1, <3>2, Constants
  <2>2. s = [isn |-> i, segments_out |-> <<>>, stream |-> q, next_seqno |-> 0, abs_ackno |-> 0,
             window_size |-> 1, outstanding |-> <<>>, timer |-> tm, n_consec |-> 0]
    BY Zenon, <2>1 DEF NewSender
  <2>3. 1 \in 0 .. U16 - 1
    BY Constants
  <2> HIDE DEF s
  <2> QED
    BY <2>1, <2>2, <2>3 DEF Sender
<1> HIDE DEF s
<1>2. bytes_read(s.stream) = 0 /\ Len(s.stream.buf) = 0 /\ s.stream.written = 0 /\ s.stream.buf = <<>>
  BY <1>1 DEF EmptyStream, bytes_read
<1>3. Numbers(s, e)
  <2>1. 0 <= send_capacity /\ 0 <= 0 /\ 0 <= MaxBytes(e) /\ 0 <= 1 /\ ~(0 > 0)
    BY Constants
  <2> QED
    BY Zenon, <1>1, <1>2, <2>1 DEF Numbers
<1>4. Run(s.stream.buf, bytes_read(s.stream), At(e))
  BY <1>2 DEF Run
<1>5. /\ \A i \in 1 .. Len(s.outstanding) : From(s.outstanding[i].segment, s, e)
      /\ \A i \in 1 .. Len(s.segments_out) : From(s.segments_out[i], s, e)
  BY <1>1
<1>6. Sends(s, e) /\ s.abs_ackno = 0 /\ s.next_seqno = 0 /\ s.stream = EmptyStream
  BY Zenon, <1>1, <1>3, <1>4, <1>5 DEF Sends
<1> QED
  BY Zenon, <1>6 DEF s

(* A receiver that has not been called listens to anybody.                 *)
LEMMA NewListens ==
    ASSUME NEW isn, NEW at, NEW P, NEW F
    PROVE  /\ Listens(NewReceiver, isn, at, P, F) /\ AbsAckno(NewReceiver) = 0
           /\ ~NewReceiver.syn_received /\ stream_out(NewReceiver) = EmptyStream
<1> DEFINE v == NewReceiver
<1>1. IsReceiver(v, FALSE, 0, NewReassembler)
  BY Zenon DEF NewReceiver, IsReceiver
<1> HIDE DEF v
<1>2. /\ IsReceiver(v, v.syn_received, v.isn, v.reassembler)
      /\ v.syn_received = FALSE /\ v.reassembler = NewReassembler
  <2>1. PICK b : b = FALSE
    BY Zenon
  <2>2. IsReceiver(v, b, 0, NewReassembler)
    BY Zenon, <1>1, <2>1
  <2>3. /\ IsReceiver(v, v.syn_received, v.isn, v.reassembler)
        /\ v.syn_received = b /\ v.reassembler = NewReassembler
    BY Zenon, <2>2, ReceiverFields
  <2> QED
    BY Zenon, <2>1, <2>3
<1>3. InOrder(v.reassembler, at, P, F)
  BY Zenon, <1>2, NewInOrder
<1>4. /\ v.reassembler.first_unasmb = 0 /\ v.reassembler.output = EmptyStream
      /\ EmptyStream.ended = FALSE /\ EmptyStream.written = 0
  BY <1>2 DEF NewReassembler, EmptyStream
<1>5. Listens(v, isn, at, P, F)
  BY Zenon, <1>2, <1>3, <1>4 DEF Listens
<1>6. AbsAckno(v) = 0
  <2>1. AbsAckno(v) = EmptyStream.written + Bit(v.syn_received) + Bit(EmptyStream.ended)
    BY Zenon, <1>4 DEF AbsAckno, bytes_written, input_ended, stream_out
  <2>2. Bit(v.syn_received) = 0 /\ Bit(EmptyStream.ended) = 0
    BY Zenon, <1>2, <1>4 DEF Bit
  <2> QED
    BY <1>4, <2>1, <2>2
<1> QED
  BY Zenon, <1>2, <1>4, <1>5, <1>6 DEF v, stream_out

(* The invariant holds in the beginning.                                   *)
LEMMA InitConsistent == Init => IInv
<1> SUFFICES ASSUME Init PROVE IInv
  OBVIOUS
<1>1. conn = [e \in Endpoint |-> NewConnection(Isn(e))] /\ net = [e \in Endpoint |-> {}]
  BY Zenon DEF Init
<1>2. ASSUME NEW e \in Endpoint
      PROVE  /\ IsConnection(conn[e], NewSender(Isn(e)), NewReceiver, <<>>, TRUE, TRUE, 0)
             /\ net[e] = {}
  BY Zenon, <1>1, <1>2 DEF NewConnection, IsConnection
<1>3. ASSUME NEW e \in Endpoint
      PROVE  /\ IsConnection(conn[e], conn[e].sender, conn[e].receiver, conn[e].segments_out,
                             conn[e].linger, conn[e].active, conn[e].quiet)
             /\ conn[e].sender = NewSender(Isn(e)) /\ conn[e].receiver = NewReceiver
             /\ conn[e].segments_out = <<>> /\ conn[e].linger = TRUE /\ conn[e].active = TRUE
  <2>1. PICK b : b = TRUE
    OBVIOUS
  <2>2. IsConnection(conn[e], NewSender(Isn(e)), NewReceiver, <<>>, b, b, 0)
    BY Zenon, <1>2, <2>1
  <2>3. /\ IsConnection(conn[e], conn[e].sender, conn[e].receiver, conn[e].segments_out,
                        conn[e].linger, conn[e].active, conn[e].quiet)
        /\ conn[e].sender = NewSender(Isn(e)) /\ conn[e].receiver = NewReceiver
        /\ conn[e].segments_out = <<>> /\ conn[e].linger = b /\ conn[e].active = b
    BY Zenon, <2>2, ConnectionFields
  <2> QED
    BY Zenon, <2>1, <2>3
<1>4. ASSUME NEW e \in Endpoint PROVE Pair(conn, net, e)
  <2>1. Peer(e) \in Endpoint
    BY Zenon, Constants
  <2>2. /\ Sends(conn[e].sender, e) /\ conn[e].sender.abs_ackno = 0
        /\ outbound(conn[e]) = EmptyStream
    BY Zenon, <1>3, NewSends DEF outbound
  <2>3. /\ Listens(conn[e].receiver, Isn(Peer(e)), At(Peer(e)), SentPlaces(conn[Peer(e)].sender),
                   SentEnd(conn[Peer(e)].sender))
        /\ ~conn[e].receiver.syn_received /\ inbound(conn[e]) = EmptyStream
    BY Zenon, <1>3, NewListens DEF inbound
  <2>4. conn[e].sender.abs_ackno <= AbsAckno(conn[Peer(e)].receiver)
    <3>1. AbsAckno(conn[Peer(e)].receiver) = 0
      BY Zenon, <1>3, <2>1, NewListens
    <3> QED
      BY <2>2, <3>1
  <2>5. Flags(conn[e])
    <3>1. TRUE \in BOOLEAN /\ TRUE # FALSE
      OBVIOUS
    <3> QED
      BY Zenon, <1>3, <2>2, <2>3, <3>1 DEF Flags
  <2>6. Stands(conn[e], e, conn[Peer(e)].sender, conn[Peer(e)].receiver)
    BY Zenon, <1>3, <2>2, <2>3, <2>4, <2>5 DEF Stands
  <2>7. net[Peer(e)] = {}
    BY Zenon, <1>2, <2>1
  <2> QED
    BY Zenon, <1>3, <2>6, <2>7 DEF Pair
<1>5. conn = [e \in Endpoint |-> conn[e]] /\ net = [e \in Endpoint |-> net[e]]
  BY <1>1
<1>6. \E e \in Endpoint : conn[e].linger
  BY Zenon, <1>3, "A" \in Endpoint DEF Endpoint
<1> QED
  BY Zenon, <1>4, <1>5, <1>6 DEF IInv, Consistent

-----------------------------------------------------------------------------

(* Always, in every execution: segments under way are parts of what their  *)
(* sender has sent and acknowledge no more than has been assembled, the    *)
(* receivers are in order, and one of the two ends lingers                 *)
(* (tcp_connection.cc:26-194).                                             *)
THEOREM AlwaysConsistent == Spec => []IInv
<1>1. IInv /\ [Next]_vars => IInv'
  BY Zenon, SenderKeepsPromise, PromiseKept, NextKeeps
<1> QED
  BY <1>1, InitConsistent, PTL DEF Spec

(* What one application reads is what the other has written, in order, and *)
(* ends where that ends (tcp_connection.cc:37-81).                         *)
THEOREM DeliveredHolds == Spec => []Delivered
BY AlwaysConsistent, IInvDelivered, PTL

(* No sender believes more acknowledged than its peer has assembled, and   *)
(* no receiver acknowledges what was not sent (tcp_connection.cc:43-44,    *)
(* 103-108).                                                               *)
THEOREM AckBetweenHolds == Spec => []AckBetween
BY AlwaysConsistent, IInvAckBetween, PTL

(* A connection that closed without an error has delivered its own stream  *)
(* and received the peer's, whatever was lost (tcp_connection.cc:118-148). *)
THEOREM CleanCloseHolds == Spec => []CleanClose
BY AlwaysConsistent, IInvCleanClose, PTL

(* Never do both ends skip the lingering (tcp_connection.cc:89-92).        *)
THEOREM OneLingersHolds == Spec => []OneLingers
BY AlwaysConsistent, IInvOneLingers, PTL

(* The summaries of the two ends never contradict each other               *)
(* (tcp_state.cc:76-110).                                                  *)
THEOREM StatesAgreeHolds == Spec => []StatesAgree
BY AlwaysConsistent, IInvStatesAgree, PTL
=============================================================================
