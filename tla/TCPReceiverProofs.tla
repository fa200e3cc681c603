------------------------- MODULE TCPReceiverProofs -------------------------
(***************************************************************************)
(* The receiver's properties, for every stream, window and ISN.            *)
(*                                                                         *)
(* The reassembler is in order with respect to what has arrived            *)
(* (StreamReassemblerProofs); the receiver keeps it so because unwrap()    *)
(* undoes wrap() near the checkpoint (CommonProofs), so every chunk is     *)
(* pushed at its own place.  The last section says what unwrap() promises  *)
(* at every checkpoint a stream reaches.                                   *)
(***************************************************************************)
EXTENDS TCPReceiverSpec, StreamReassemblerProofs, WrappingCheckpoint

USE SMTT(30)

(***************************************************************************)
(* The inductive invariant.                                                *)
(***************************************************************************)

(* A byte is its place.  The bytes that have arrived, and the end.         *)
StreamBytes == [p \in Nat |-> p]
Arrived(g) == {p \in 0 .. StreamLen - 1 : p + 1 \in g}
EndArrived(g) == {f \in {StreamLen} : f + 1 \in g}

(* The receiver listens to the peer, and what it has came over the network.*)
IInv ==
    /\ Listens(rcv, Isn, StreamBytes, Arrived(got), EndArrived(got))
    /\ rcv.syn_received => 0 \in got

(* What has arrived only grows, and no byte lies behind the end.           *)
LEMMA ArrivedFacts ==
    ASSUME NEW g, NEW h, g \subseteq h
    PROVE  /\ Arrived(g) \subseteq Arrived(h) /\ EndArrived(g) \subseteq EndArrived(h)
           /\ \A p \in Arrived(h), f \in EndArrived(h) : p < f
BY ReceiverSpecAssumption DEF Arrived, EndArrived

(* What is assembled is at most the whole stream.                          *)
LEMMA AssembledBound ==
    ASSUME NEW r, NEW g, InOrder(r, StreamBytes, Arrived(g), EndArrived(g))
    PROVE  /\ r.first_unasmb \in 0 .. StreamLen
           /\ first_unacceptable(r) \in Nat /\ first_unacceptable(r) <= StreamLen + recv_capacity
<1> DEFINE lo == r.first_unasmb
           hi == first_unacceptable(r)
<1>1. /\ lo \in Nat /\ hi \in Nat /\ hi <= lo + recv_capacity
  <2> DEFINE b == Len(r.output.buf)
  <2>1. lo \in Nat /\ hi \in Nat /\ b \in Nat /\ hi = lo + recv_capacity - b /\ recv_capacity \in Nat
    BY WindowFacts, CapacityAssumption
  <2> HIDE DEF lo, hi, b
  <2> QED
    BY <2>1
<1>2. 0 .. lo - 1 \subseteq Arrived(g)
  BY DEF InOrder
<1> HIDE DEF lo, hi
<1>3. lo <= StreamLen
  <2>1. ASSUME lo > StreamLen PROVE FALSE
    <3>1. StreamLen \in 0 .. lo - 1
      BY <1>1, <2>1, ReceiverSpecAssumption
    <3> QED
      BY <1>2, <3>1, ReceiverSpecAssumption DEF Arrived
  <2> QED
    BY <1>1, <2>1, ReceiverSpecAssumption
<1>4. lo \in 0 .. StreamLen /\ hi \in Nat /\ hi <= StreamLen + recv_capacity
  BY <1>1, <1>3, ReceiverSpecAssumption, CapacityAssumption
<1> QED
  BY <1>4 DEF lo, hi

(* The fields of a segment that is not the default one.                    *)
Carries(s, a, b, c, d) == s.seqno = a /\ s.syn = b /\ s.fin = c /\ s.payload = d

(* A segment carries what was set in it.                                   *)
LEMMA SegmentFields ==
    ASSUME NEW a, NEW b, NEW c, NEW d, NEW s,
           s = [DefaultSegment EXCEPT !.seqno = a, !.syn = b, !.fin = c, !.payload = d]
    PROVE  Carries(s, a, b, c, d)
BY DEF DefaultSegment, Carries

(* unwrap() finds the absolute number of a recent segment again.           *)
LEMMA RecentUnwraps ==
    ASSUME NEW m \in 0 .. StreamLen + 2, NEW n \in 0 .. StreamLen,
           2 * m < 2 * (n + 1) + Wrap, 2 * (n + 1) < 2 * m + Wrap
    PROVE  unwrap(wrap(m, Isn), Isn, n + 1) = m
<1>1. m \in UInt64 /\ n + 1 \in UInt64 /\ Isn \in WrappingInt32
  <2>1. U64 \in Nat
    BY ModU64, 0 \in Int
  <2> QED
    BY <2>1, ReceiverSpecAssumption, CapacityAssumption, StreamFitsAssumption DEF UInt64
<1>2. 2 * diff(n + 1, m) < Wrap
  BY ReceiverSpecAssumption, WrapAssumption DEF diff
<1> QED
  BY <1>1, <1>2, UnwrapRoundTrip DEF RoundTripAt

(* Its payload is the run of the stream that begins there.                 *)
LEMMA PayloadRun ==
    ASSUME NEW a \in Nat, NEW len \in Nat, NEW t, t = [j \in 1 .. len |-> a + j - 1]
    PROVE  t \in Seq(Int) /\ Len(t) = len /\ Run(t, a, StreamBytes)
<1>1. t \in Seq(Int) /\ Len(t) = len
  OBVIOUS
<1>2. ASSUME NEW j \in 1 .. len PROVE t[j] = StreamBytes[a + j - 1]
  BY DEF StreamBytes
<1> QED
  BY <1>1, <1>2 DEF Run

(***************************************************************************)
(* Every step keeps the invariant, drops no byte and shrinks no window.    *)
(***************************************************************************)
LEMMA InitIInv == Init => IInv
<1> SUFFICES ASSUME Init PROVE IInv
  OBVIOUS
<1>1. rcv = NewReceiver /\ IsReceiver(NewReceiver, FALSE, 0, NewReassembler)
  BY Zenon DEF Init, NewReceiver, IsReceiver
<1>2. /\ IsReceiver(rcv, rcv.syn_received, rcv.isn, rcv.reassembler)
      /\ rcv.syn_received = FALSE /\ rcv.reassembler = NewReassembler
  <2>1. PICK b : b = FALSE
    BY Zenon
  <2>2. IsReceiver(rcv, b, 0, NewReassembler)
    BY Zenon, <1>1, <2>1
  <2>3. /\ IsReceiver(rcv, rcv.syn_received, rcv.isn, rcv.reassembler)
        /\ rcv.syn_received = b /\ rcv.reassembler = NewReassembler
    BY Zenon, <2>2, ReceiverFields
  <2> QED
    BY Zenon, <2>1, <2>3
<1>3. InOrder(rcv.reassembler, StreamBytes, Arrived(got), EndArrived(got))
  BY Zenon, <1>2, NewInOrder
<1>5. rcv.reassembler.first_unasmb = 0 /\ rcv.reassembler.output.ended = FALSE
  BY <1>2 DEF NewReassembler, EmptyStream
<1>4. Listens(rcv, Isn, StreamBytes, Arrived(got), EndArrived(got))
  BY Zenon, <1>1, <1>2, <1>3, <1>5 DEF Listens
<1> QED
  BY Zenon, <1>2, <1>4 DEF IInv

(* A step keeps the invariant, and the reassembler follows the old one.    *)
Keeps ==
    /\ IInv'
    /\ Follows(rcv'.reassembler, rcv.reassembler)
    /\ rcv.syn_received => rcv'.syn_received

(* A segment of the peer.                                                  *)
LEMMA DeliverKeeps ==
    ASSUME IInv, NEW m \in 0 .. StreamLen + 2, NEW len \in Nat, NEW fin \in BOOLEAN,
           Deliver(m, len, fin)
    PROVE  Keeps
<1> DEFINE seg == Segment(m, len, fin)
           a == FirstOf(m)
           P == Arrived(got')
           F == EndArrived(got')
           c == ChunkOf(seg, m)
           n == rcv.reassembler.first_unasmb
           payload == [j \in 1 .. len |-> a + j - 1]
<1>1. /\ Exists(m, len, fin) /\ Recent(m) /\ rcv' = receive(rcv, seg)
      /\ got' = got \cup m .. m + length_in_sequence_space(seg) - 1
  BY Zenon DEF Deliver
<1>2. seg.seqno = wrap(m, Isn) /\ seg.syn = (m = 0) /\ seg.fin = fin /\ seg.payload = payload
  <2>1. PICK b : b = (m = 0)
    OBVIOUS
  <2>2. PICK t : t = payload
    BY Zenon
  <2>3. seg = [DefaultSegment EXCEPT !.seqno = wrap(m, Isn), !.syn = b, !.fin = fin, !.payload = t]
    BY Zenon, <2>1, <2>2 DEF Segment, FirstOf
  <2> HIDE DEF seg
  <2>4. seg.seqno = wrap(m, Isn) /\ seg.syn = b /\ seg.fin = fin /\ seg.payload = t
    <3>1. Carries(seg, wrap(m, Isn), b, fin, t)
      BY Zenon, <2>3, SegmentFields
    <3> QED
      BY Zenon, <3>1 DEF Carries
  <2> QED
    BY Zenon, <2>1, <2>2, <2>4
<1> HIDE DEF seg
<1>3. StreamIndex(m, seg) = a /\ a \in Nat
  <2>1. m \in UInt64
    BY ModU64, 0 \in Int, ReceiverSpecAssumption, CapacityAssumption, StreamFitsAssumption
    DEF UInt64
  <2> QED
    BY <1>2, <2>1, IndexIs
<1>4. payload \in Seq(Int) /\ Len(payload) = len /\ Run(payload, a, StreamBytes)
  BY <1>3, PayloadRun
<1> HIDE DEF payload
<1>5. c = [data |-> payload, index |-> a]
  BY Zenon, <1>2, <1>3 DEF ChunkOf
<1> HIDE DEF c, a
<1>6. c.data = payload /\ c.index = a /\ c \in Chunk
  BY <1>3, <1>4, <1>5 DEF Chunk
<1>7. Faithful(c, StreamBytes)
  BY <1>4, <1>6 DEF Faithful
<1>8. End(c) = a + len
  BY <1>4, <1>6 DEF End
<1>9. IF fin THEN a + len = StreamLen ELSE a + len <= StreamLen \/ (m = StreamLen + 2 /\ len = 0)
  BY Zenon, <1>1 DEF Exists, a, FirstOf
<1>10. m .. m + len + Bit(m = 0) + Bit(fin) - 1 \subseteq got'
  <2>1. length_in_sequence_space(seg) = len + Bit(m = 0) + Bit(fin)
    BY Zenon, <1>2, <1>4 DEF length_in_sequence_space
  <2>2. Bit(m = 0) \in Nat /\ Bit(fin) \in Nat
    BY DEF Bit
  <2> QED
    BY <1>1, <2>1, <2>2
<1>11. a .. a + len - 1 \subseteq P
  <2>1. ASSUME NEW p \in a .. a + len - 1 PROVE p \in P
    <3>1. p \in 0 .. StreamLen - 1
      BY <1>3, <1>9, ReceiverSpecAssumption
    <3>2. p + 1 \in m .. m + len + Bit(m = 0) + Bit(fin) - 1
      BY <1>3 DEF Bit, a, FirstOf
    <3> QED
      BY <1>10, <3>1, <3>2 DEF Arrived
  <2> QED
    BY <2>1
<1>12. Places(c) \subseteq P
  <2>1. Places(c) = a .. a + len - 1
    BY <1>3, <1>6, <1>8 DEF Places
  <2> HIDE DEF P
  <2> QED
    BY Zenon, <1>11, <2>1
<1>13. fin => End(c) \in F
  <2>1. ASSUME fin = TRUE PROVE End(c) \in F
    <3>1. a + len = StreamLen
      BY <1>9, <2>1
    <3>2. StreamLen + 1 \in m .. m + len + Bit(m = 0) + Bit(fin) - 1
      BY <1>3, <2>1, <3>1 DEF Bit, a, FirstOf
    <3> QED
      BY <1>8, <1>10, <3>1, <3>2 DEF EndArrived
  <2> QED
    BY <2>1
<1>14. Listens(rcv, Isn, StreamBytes, P, F) /\ \A p \in P, f \in F : p < f
  <2>1. got \subseteq got'
    BY <1>1
  <2>2. /\ Arrived(got) \subseteq P /\ EndArrived(got) \subseteq F
        /\ \A p \in P, f \in F : p < f
    BY <2>1, ArrivedFacts
  <2>3. Listens(rcv, Isn, StreamBytes, Arrived(got), EndArrived(got))
    BY Zenon DEF IInv
  <2> HIDE DEF P, F
  <2> QED
    BY Zenon, <2>2, <2>3, ListensMono
<1> HIDE DEF P, F
<1>15. unwrap(seg.seqno, Isn, bytes_written(stream_out(rcv)) + 1) = m
  <2>1. InOrder(rcv.reassembler, StreamBytes, Arrived(got'), EndArrived(got'))
    BY Zenon, <1>14 DEF Listens, P, F
  <2>2. n \in 0 .. StreamLen
    BY <2>1, AssembledBound
  <2>3. bytes_written(stream_out(rcv)) = n
    BY <2>1 DEF bytes_written, stream_out, InOrder
  <2>4. 2 * m < 2 * (n + 1) + Wrap /\ 2 * (n + 1) < 2 * m + Wrap
    BY Zenon, <1>1, <2>3 DEF Recent
  <2> HIDE DEF n
  <2>5. unwrap(wrap(m, Isn), Isn, n + 1) = m
    BY <2>2, <2>4, RecentUnwraps
  <2> QED
    BY Zenon, <1>2, <2>3, <2>5
<1>16. seg.syn \in BOOLEAN /\ seg.fin \in BOOLEAN /\ (seg.syn => seg.seqno = Isn)
  BY Zenon, <1>2, WrapZero, ReceiverSpecAssumption
<1>17. Heard(rcv', rcv, seg, Isn, StreamBytes, P, F)
  <2>1. /\ ChunkOf(seg, m) \in Chunk
        /\ Faithful(ChunkOf(seg, m), StreamBytes) /\ Places(ChunkOf(seg, m)) \subseteq P
        /\ seg.fin => End(ChunkOf(seg, m)) \in F
    BY Zenon, <1>2, <1>6, <1>7, <1>12, <1>13 DEF c
  <2>3. Genuine(rcv, seg, m, Isn, StreamBytes, P, F)
    BY Zenon, <1>15, <1>16, <2>1 DEF Genuine
  <2>2. Heard(receive(rcv, seg), rcv, seg, Isn, StreamBytes, P, F)
    BY Zenon, <1>14, <2>3, ReceiveFacts
  <2> QED
    BY Zenon, <1>1, <2>2
<1>18. rcv'.syn_received => 0 \in got'
  <2>1. ASSUME seg.syn = TRUE PROVE 0 \in got'
    <3>1. m = 0
      BY Zenon, <1>2, <2>1
    <3>2. 0 \in m .. m + len + Bit(m = 0) + Bit(fin) - 1
      BY <3>1 DEF Bit
    <3> QED
      BY <1>10, <3>2
  <2>2. ASSUME rcv.syn_received PROVE 0 \in got'
    BY Zenon, <1>1, <2>2 DEF IInv
  <2> QED
    BY Zenon, <1>16, <1>17, <2>1, <2>2 DEF Heard
<1>19. Listens(rcv', Isn, StreamBytes, Arrived(got'), EndArrived(got'))
  BY Zenon, <1>17 DEF Heard, P, F
<1> QED
  BY Zenon, <1>17, <1>18, <1>19 DEF Keeps, IInv, Heard

(* A segment with the SYN's number and without the SYN.                    *)
LEMMA ProbeKeeps ==
    ASSUME IInv, DeliverProbe
    PROVE  Keeps
<1> DEFINE seg == [DefaultSegment EXCEPT !.seqno = Isn]
           P == Arrived(got)
           F == EndArrived(got)
           c == ChunkOf(seg, 0)
           n == rcv.reassembler.first_unasmb
<1>1. Recent(0) /\ rcv' = receive(rcv, seg) /\ got' = got
  BY Zenon DEF DeliverProbe
<1>2. seg.seqno = Isn /\ seg.syn = FALSE /\ seg.fin = FALSE /\ seg.payload = <<>>
  BY DEF DefaultSegment
<1> HIDE DEF seg
<1>3. U64 \in Nat \ {0} /\ StreamLen \in Nat /\ recv_capacity \in Nat
  BY ModU64, 0 \in Int, ReceiverSpecAssumption, CapacityAssumption
<1>4. StreamIndex(0, seg) = U64 - 1
  <2>1. 0 - Bit(~seg.syn) = -1
    <3>1. Bit(~seg.syn) = 1
      BY Zenon, <1>2 DEF Bit
    <3> QED
      BY <3>1
  <2>2. -1 \in Int /\ -1 \in -U64 .. -1
    BY <1>3
  <2>3. (-1) % U64 = -1 + U64
    BY <2>2, ModU64
  <2> QED
    BY <1>3, <2>1, <2>3 DEF StreamIndex
<1>5. c = [data |-> <<>>, index |-> U64 - 1]
  BY Zenon, <1>2, <1>4 DEF ChunkOf
<1> HIDE DEF c
<1>6. c \in Chunk /\ c.index = U64 - 1
  BY <1>3, <1>5 DEF Chunk
<1>7. Listens(rcv, Isn, StreamBytes, P, F) /\ InOrder(rcv.reassembler, StreamBytes, P, F)
  BY Zenon DEF IInv, Listens
<1>8. \A p \in P, f \in F : p < f
  BY ArrivedFacts
<1>9. ~(c.index < first_unacceptable(rcv.reassembler))
  <2>1. /\ first_unacceptable(rcv.reassembler) \in Nat
        /\ first_unacceptable(rcv.reassembler) <= StreamLen + recv_capacity
    BY <1>7, AssembledBound
  <2> QED
    BY <1>3, <1>6, <2>1, StreamFitsAssumption
<1>10. unwrap(seg.seqno, Isn, bytes_written(stream_out(rcv)) + 1) = 0
  <2>1. n \in 0 .. StreamLen
    BY <1>7, AssembledBound
  <2>2. bytes_written(stream_out(rcv)) = n
    BY <1>7 DEF bytes_written, stream_out, InOrder
  <2>3. 2 * 0 < 2 * (n + 1) + Wrap /\ 2 * (n + 1) < 2 * 0 + Wrap
    BY Zenon, <1>1, <2>2 DEF Recent
  <2> HIDE DEF n
  <2>4. 0 \in 0 .. StreamLen + 2
    BY <1>3
  <2>5. unwrap(wrap(0, Isn), Isn, n + 1) = 0
    BY <2>1, <2>3, <2>4, RecentUnwraps
  <2> QED
    BY Zenon, <1>2, <2>2, <2>5, WrapZero, ReceiverSpecAssumption
<1> HIDE DEF P, F
<1>11. Genuine(rcv, seg, 0, Isn, StreamBytes, P, F)
  <2>1. /\ ChunkOf(seg, 0) \in Chunk
        /\ ~(ChunkOf(seg, 0).index < first_unacceptable(rcv.reassembler))
    BY Zenon, <1>6, <1>9 DEF c
  <2> QED
    BY Zenon, <1>2, <1>10, <2>1 DEF Genuine
<1>12. Heard(rcv', rcv, seg, Isn, StreamBytes, P, F)
  BY Zenon, <1>1, <1>7, <1>8, <1>11, ReceiveFacts
<1>13. Listens(rcv', Isn, StreamBytes, Arrived(got'), EndArrived(got'))
  BY Zenon, <1>1, <1>12 DEF Heard, P, F
<1>14. (rcv'.syn_received => 0 \in got') /\ (rcv.syn_received => rcv'.syn_received)
  BY Zenon, <1>1, <1>2, <1>12 DEF Heard, IInv
<1> QED
  BY Zenon, <1>12, <1>13, <1>14 DEF Keeps, IInv, Heard

(* The application reads.                                                  *)
LEMMA ReadKeeps ==
    ASSUME IInv, NEW len \in 1 .. buffer_size(stream_out(rcv)), Read(len)
    PROVE  Keeps
<1> DEFINE r == rcv.reassembler
           P == Arrived(got)
           F == EndArrived(got)
<1>1. /\ IsReceiver(rcv, rcv.syn_received, rcv.isn, r) /\ rcv.syn_received \in BOOLEAN
      /\ InOrder(r, StreamBytes, P, F) /\ got' = got
      /\ rcv' = [rcv EXCEPT !.reassembler.output = pop_output(r.output, len)]
  BY Zenon DEF IInv, Listens, Read
<1>2. buffer_size(r.output) \in Nat
  BY <1>1, WindowFacts DEF buffer_size
<1>3. len \in Nat /\ len <= buffer_size(r.output) /\ 0 < buffer_size(r.output)
  BY <1>2 DEF stream_out
<1>4. InOrder(ReadFrom(r, len), StreamBytes, P, F) /\ Follows(ReadFrom(r, len), r)
  BY <1>1, <1>3, ReadInOrder
<1>5. rcv.syn_received = TRUE
  <2>1. ASSUME rcv.syn_received = FALSE PROVE FALSE
    <3>1. r.first_unasmb = 0
      BY Zenon, <2>1 DEF IInv, Listens
    <3>2. buffer_size(r.output) <= 0
      BY <1>1, <3>1 DEF InOrder, buffer_size
    <3> QED
      BY <1>2, <1>3, <3>2
  <2> QED
    BY Zenon, <1>1, <2>1
<1>6. IsReceiver(rcv', rcv.syn_received, rcv.isn, ReadFrom(r, len))
  <2>1. PICK b, i, t : rcv = [syn_received |-> b, isn |-> i, reassembler |-> t]
    BY Zenon, <1>1 DEF IsReceiver
  <2>2. b = rcv.syn_received /\ i = rcv.isn /\ t = r
    BY <2>1
  <2>3. PICK q : q = pop_output(r.output, len)
    OBVIOUS
  <2>4. rcv' = [rcv EXCEPT !.reassembler.output = q]
    BY Zenon, <1>1, <2>3
  <2>5. rcv' = [syn_received |-> b, isn |-> i, reassembler |-> [t EXCEPT !.output = q]]
    BY <2>1, <2>4
  <2>6. ReadFrom(r, len) = [t EXCEPT !.output = q]
    BY Zenon, <2>2, <2>3 DEF ReadFrom
  <2> QED
    BY Zenon, <2>2, <2>5, <2>6 DEF IsReceiver
<1>7. PICK t : t = ReadFrom(r, len)
  OBVIOUS
<1>8. /\ IsReceiver(rcv', rcv'.syn_received, rcv'.isn, rcv'.reassembler)
      /\ rcv'.syn_received = rcv.syn_received /\ rcv'.isn = rcv.isn /\ rcv'.reassembler = t
  <2>1. IsReceiver(rcv', rcv.syn_received, rcv.isn, t)
    BY Zenon, <1>6, <1>7
  <2> QED
    BY Zenon, <2>1, ReceiverFields
<1>9. Listens(rcv', Isn, StreamBytes, Arrived(got'), EndArrived(got'))
  BY Zenon, <1>1, <1>4, <1>5, <1>7, <1>8 DEF Listens, IInv
<1> QED
  BY Zenon, <1>1, <1>4, <1>7, <1>8, <1>9 DEF Keeps, IInv

(* Any step, or none.                                                      *)
LEMMA StepKeeps ==
    ASSUME IInv, [Next]_vars
    PROVE  Keeps
<1>1. CASE DeliverAny
  <2>1. PICK m \in 0 .. StreamLen + 2, len \in 0 .. MaxPayload, fin \in BOOLEAN : Deliver(m, len, fin)
    BY Zenon, <1>1 DEF DeliverAny
  <2>2. len \in Nat
    BY ReceiverSpecAssumption
  <2> QED
    BY Zenon, <2>1, <2>2, DeliverKeeps
<1>2. CASE DeliverProbe
  BY Zenon, <1>2, ProbeKeeps
<1>3. CASE ReadAny
  BY Zenon, <1>3, ReadKeeps DEF ReadAny
<1>4. CASE UNCHANGED vars
  <2>1. rcv' = rcv /\ got' = got
    BY Zenon, <1>4 DEF vars
  <2>2. InOrder(rcv.reassembler, StreamBytes, Arrived(got), EndArrived(got))
    BY Zenon DEF IInv, Listens
  <2>3. Follows(rcv.reassembler, rcv.reassembler)
    BY <2>2, AlikeFollows DEF Alike
  <2> QED
    BY Zenon, <2>1, <2>3 DEF Keeps, IInv
<1> QED
  BY Zenon, <1>1, <1>2, <1>3, <1>4 DEF Next

(***************************************************************************)
(* What the invariant says.                                                *)
(***************************************************************************)

(* The invariant holds in every state.                                     *)
THEOREM InOrderAlways == Spec => []IInv
<1>1. ASSUME IInv, [Next]_vars PROVE IInv'
  BY Zenon, <1>1, StepKeeps DEF Keeps
<1> QED
  BY InitIInv, <1>1, PTL DEF Spec

(* The output buffer is a run of the stream.                               *)
LEMMA BufferIsRun ==
    ASSUME IInv
    PROVE  DeliveredInOrder
<1> DEFINE q == rcv.reassembler.output
           r == rcv.reassembler
<1>1. InOrder(r, StreamBytes, Arrived(got), EndArrived(got))
  BY Zenon DEF IInv, Listens
<1>2. /\ Run(q.buf, bytes_read(q), StreamBytes) /\ q \in Stream(Int)
      /\ Len(q.buf) <= q.written
  BY <1>1 DEF InOrder
<1>3. bytes_read(q) \in Nat
  <2>1. q.buf \in Seq(Int) /\ q.written \in Nat
    BY <1>2 DEF Stream
  <2>2. Len(q.buf) \in Nat
    BY <2>1
  <2> QED
    BY <1>2, <2>1, <2>2 DEF bytes_read
<1>4. ASSUME NEW j \in 1 .. Len(q.buf) PROVE q.buf[j] = bytes_read(q) + j - 1
  <2> DEFINE a == bytes_read(q)
  <2>1. q.buf[j] = StreamBytes[a + j - 1]
    BY <1>2 DEF Run
  <2>2. j \in Nat \ {0}
    <3>1. j \in 1 .. Len(q.buf)
      OBVIOUS
    <3>2. q.buf \in Seq(Int)
      BY <1>2 DEF Stream
    <3>3. Len(q.buf) \in Nat
      BY <3>2
    <3> QED
      BY <3>1, <3>3
  <2> HIDE DEF a
  <2>3. a + j - 1 \in Nat
    BY <1>3, <2>2 DEF a
  <2>4. StreamBytes[a + j - 1] = a + j - 1
    BY Zenon, <2>3 DEF StreamBytes
  <2> QED
    BY Zenon, <2>1, <2>4 DEF a
<1>5. ASSUME q.ended PROVE q.written = StreamLen
  <2>1. r.first_unasmb \in EndArrived(got) /\ q.written = r.first_unasmb
    BY <1>1, <1>5 DEF InOrder
  <2> QED
    BY <2>1 DEF EndArrived
<1> QED
  BY Zenon, <1>4, <1>5 DEF DeliveredInOrder, stream_out, input_ended, bytes_written

(* The application reads the peer's bytes in order, and the end of the     *)
(* stream behind the last of them (tcp_receiver.cc:21-23), for every       *)
(* stream, capacity and ISN and whatever the network delays or repeats.    *)
THEOREM DeliveredInOrderHolds == Spec => []DeliveredInOrder
BY InOrderAlways, BufferIsRun, PTL

(* What is assembled has arrived.                                          *)
LEMMA AssembledArrived ==
    ASSUME IInv
    PROVE  AcksOnlyArrived
<1> DEFINE r == rcv.reassembler
           n == r.first_unasmb
<1>1. /\ InOrder(r, StreamBytes, Arrived(got), EndArrived(got)) /\ rcv.syn_received \in BOOLEAN
      /\ rcv.syn_received => 0 \in got
  BY Zenon DEF IInv, Listens
<1>2. /\ n \in Nat /\ r.output.written = n /\ 0 .. n - 1 \subseteq Arrived(got)
      /\ r.output.ended \in BOOLEAN /\ (r.output.ended => n \in EndArrived(got))
  BY <1>1 DEF InOrder, Stream
<1>3. AbsAckno(rcv) = n + Bit(rcv.syn_received) + Bit(r.output.ended)
  BY Zenon, <1>2 DEF AbsAckno, bytes_written, stream_out, input_ended
<1> HIDE DEF n
<1>4. CASE rcv.syn_received = FALSE
  <2>2. r.first_unasmb = 0 /\ r.output.ended = FALSE
    BY Zenon, <1>4 DEF IInv, Listens
  <2>3. Bit(rcv.syn_received) = 0 /\ Bit(r.output.ended) = 0 /\ n = 0
    BY Zenon, <1>4, <2>2 DEF Bit, n
  <2>4. 0 .. AbsAckno(rcv) - 1 = {}
    BY <1>3, <2>3
  <2> QED
    BY <2>4 DEF AcksOnlyArrived
<1>5. CASE rcv.syn_received = TRUE
  <2>1. Bit(rcv.syn_received) = 1 /\ 0 \in got
    BY Zenon, <1>1, <1>5 DEF Bit
  <2>2. 0 .. n \subseteq got
    <3>1. ASSUME NEW x \in 0 .. n, x # 0 PROVE x \in got
      <4>1. x - 1 \in 0 .. n - 1 /\ (x - 1) + 1 = x
        BY <1>2, <3>1
      <4>2. x - 1 \in Arrived(got)
        BY <1>2, <4>1
      <4> QED
        BY <4>1, <4>2 DEF Arrived
    <3> QED
      BY <2>1, <3>1
  <2>3. CASE r.output.ended = FALSE
    <3>1. Bit(r.output.ended) = 0
      BY Zenon, <2>3 DEF Bit
    <3>2. AbsAckno(rcv) - 1 = n
      BY <1>2, <1>3, <2>1, <3>1
    <3> QED
      BY <2>2, <3>2 DEF AcksOnlyArrived
  <2>4. CASE r.output.ended = TRUE
    <3>1. Bit(r.output.ended) = 1
      BY Zenon, <2>4 DEF Bit
    <3>2. AbsAckno(rcv) - 1 = n + 1
      BY <1>2, <1>3, <2>1, <3>1
    <3>3. n + 1 \in got
      BY <1>2, <2>4 DEF EndArrived
    <3>4. \A x \in 0 .. n + 1 : x \in 0 .. n \/ x = n + 1
      BY <1>2
    <3> QED
      BY <2>2, <3>2, <3>3, <3>4 DEF AcksOnlyArrived
  <2> QED
    BY Zenon, <1>2, <2>3, <2>4
<1> QED
  BY Zenon, <1>1, <1>4, <1>5

(* ackno() covers only what has arrived, SYN and FIN included              *)
(* (tcp_receiver.cc:26-33).                                                *)
THEOREM AcksOnlyArrivedHolds == Spec => []AcksOnlyArrived
BY InOrderAlways, AssembledArrived, PTL

(* The list of chunks is spaced.                                           *)
LEMMA ChunksAreSpaced ==
    ASSUME IInv
    PROVE  ChunksApart
<1> DEFINE r == rcv.reassembler
           lo == r.first_unasmb
           hi == first_unacceptable(r)
           u == r.unasmb
<1>1. Spaced(u, StreamBytes, lo, hi) /\ lo \in Nat
  <2>1. InOrder(r, StreamBytes, Arrived(got), EndArrived(got))
    BY Zenon DEF IInv, Listens
  <2> QED
    BY <2>1 DEF InOrder
<1> SUFFICES ASSUME NEW i \in 1 .. Len(u)
             PROVE  /\ \A j \in 1 .. Len(u[i].data) : u[i].data[j] = u[i].index + j - 1
                    /\ u[i].index > lo /\ End(u[i]) <= hi
                    /\ \A j \in 1 .. Len(u) : i # j => ~Touch(u[i], u[j])
  BY Zenon DEF ChunksApart
<1> HIDE DEF u, lo, hi
<1>2. /\ u[i] \in Chunk /\ Run(u[i].data, u[i].index, StreamBytes)
      /\ lo < u[i].index /\ End(u[i]) <= hi
  BY <1>1 DEF Spaced, Faithful
<1>3. ASSUME NEW j \in 1 .. Len(u[i].data) PROVE u[i].data[j] = u[i].index + j - 1
  <2>1. PICK d, a : d = u[i].data /\ a = u[i].index
    OBVIOUS
  <2>2. d \in Seq(Int) /\ a \in Nat /\ j \in 1 .. Len(d) /\ Run(d, a, StreamBytes)
    BY <1>2, <2>1 DEF Chunk
  <2>3. d[j] = StreamBytes[a + j - 1]
    BY <2>2 DEF Run
  <2>4. a + j - 1 \in Nat
    <3>1. Len(d) \in Nat
      BY <2>2
    <3> QED
      BY <2>2, <3>1
  <2>5. StreamBytes[a + j - 1] = a + j - 1
    BY Zenon, <2>4 DEF StreamBytes
  <2> QED
    BY Zenon, <2>1, <2>3, <2>5
<1>4. ASSUME NEW j \in 1 .. Len(u), i # j PROVE ~Touch(u[i], u[j])
  <2>1. Apart(u[i], u[j]) /\ u[j] \in Chunk
    BY <1>1, <1>4 DEF Spaced, Faithful
  <2>2. u[i].index \in Nat /\ u[j].index \in Nat /\ End(u[i]) \in Nat /\ End(u[j]) \in Nat
    BY <1>2, <2>1, ChunkFacts
  <2> QED
    BY <2>1, <2>2 DEF Apart, Touch
<1>5. u[i].index > lo
  <2>1. u[i].index \in Nat
    BY <1>2, ChunkFacts
  <2> QED
    BY <1>1, <1>2, <2>1
<1> QED
  BY Zenon, <1>2, <1>3, <1>4, <1>5

(* The waiting chunks never overlap or touch, none could be assembled, all *)
(* lie in the window and hold the bytes of their place                     *)
(* (stream_reassembler.cc:27-62).                                          *)
THEOREM ChunksApartHolds == Spec => []ChunksApart
BY InOrderAlways, ChunksAreSpaced, PTL

(* The set of the property is the set of the invariant.                    *)
LEMMA StoredIsHeld ==
    ASSUME IInv
    PROVE  Stored = Held(rcv.reassembler.unasmb)
<1> DEFINE u == rcv.reassembler.unasmb
<1>1. u \in Seq(Chunk)
  BY Zenon DEF IInv, Listens, InOrder, Spaced
<1> HIDE DEF u
<1>2. DOMAIN u = 1 .. Len(u)
  BY <1>1
<1>3. UNION {Positions(u[i]) : i \in DOMAIN u} = Held(u)
  BY Zenon, <1>2 DEF Held, Positions, Places
<1> QED
  BY Zenon, <1>3 DEF Stored, u

(* The count is the number of places held.                                 *)
LEMMA CountIsStored ==
    ASSUME IInv
    PROVE  CountsOnce
<1>1. rcv.reassembler.n_unasmb = Cardinality(Held(rcv.reassembler.unasmb))
  BY Zenon DEF IInv, Listens, InOrder
<1> QED
  BY Zenon, <1>1, StoredIsHeld DEF CountsOnce, unassembled_bytes

(* A byte that arrives more than once is counted once                      *)
(* (stream_reassembler.hh:58-59).                                          *)
THEOREM CountsOnceHolds == Spec => []CountsOnce
BY InOrderAlways, CountIsStored, PTL

(* What is held fits behind what is assembled.                             *)
LEMMA StoredFits ==
    ASSUME IInv
    PROVE  WithinCapacity
<1>1. InOrder(rcv.reassembler, StreamBytes, Arrived(got), EndArrived(got))
  BY Zenon DEF IInv, Listens
<1>2. Len(rcv.reassembler.output.buf) + Cardinality(Held(rcv.reassembler.unasmb)) <= recv_capacity
  BY Zenon, <1>1, WithinRoom
<1> QED
  BY Zenon, <1>2, StoredIsHeld DEF WithinCapacity, buffer_size, stream_out

(* The capacity bounds the assembled and the waiting bytes together        *)
(* (stream_reassembler.hh:36).                                             *)
THEOREM WithinCapacityHolds == Spec => []WithinCapacity
BY InOrderAlways, StoredFits, PTL

(* No byte that was taken in is dropped before it is assembled, by         *)
(* whatever path merge() returns (stream_reassembler.cc:40,91-92).         *)
THEOREM NoByteDroppedHolds == Spec => NoByteDropped
<1>1. ASSUME IInv, [Next]_vars
      PROVE  [\A p \in Stored : p \in Stored' \/ p < rcv'.reassembler.first_unasmb]_vars
  <2>1. IInv' /\ Follows(rcv'.reassembler, rcv.reassembler)
    BY Zenon, <1>1, StepKeeps DEF Keeps
  <2>2. Stored = Held(rcv.reassembler.unasmb)
    BY Zenon, <1>1, StoredIsHeld
  <2>3. Stored' = Held(rcv'.reassembler.unasmb)
    <3>1. IInv => Stored = Held(rcv.reassembler.unasmb)
      BY Zenon, StoredIsHeld
    <3>2. (IInv => Stored = Held(rcv.reassembler.unasmb))'
      BY StoredIsHeld, PTL
    <3> QED
      BY Zenon, <2>1, <3>2
  <2>4. rcv'.reassembler.first_unasmb \in Nat
    BY Zenon, <2>1 DEF IInv, Listens, InOrder
  <2>5. ASSUME NEW p \in Stored, p \notin Stored' PROVE p < rcv'.reassembler.first_unasmb
    <3>1. p \in 0 .. rcv'.reassembler.first_unasmb - 1
      BY Zenon, <2>1, <2>2, <2>3, <2>5 DEF Follows
    <3> QED
      BY <2>4, <3>1
  <2> QED
    BY Zenon, <2>5
<1> QED
  BY InOrderAlways, <1>1, PTL DEF Spec, NoByteDropped

(* The right edge of the window never moves back (tcp_receiver.cc:26-35).  *)
THEOREM WindowNeverShrinksHolds == Spec => WindowNeverShrinks
<1>1. ASSUME IInv
      PROVE  /\ AbsAckno(rcv) + window_size(rcv) = first_unacceptable(rcv.reassembler)
                    + Bit(rcv.syn_received) + Bit(rcv.reassembler.output.ended)
             /\ first_unacceptable(rcv.reassembler) \in Nat
             /\ rcv.syn_received \in BOOLEAN /\ rcv.reassembler.output.ended \in BOOLEAN
  <2> DEFINE r == rcv.reassembler
             b == Len(r.output.buf)
             n == r.first_unasmb
             hi == first_unacceptable(r)
             x == Bit(rcv.syn_received)
             y == Bit(r.output.ended)
  <2>1. InOrder(r, StreamBytes, Arrived(got), EndArrived(got)) /\ rcv.syn_received \in BOOLEAN
    BY Zenon, <1>1 DEF IInv, Listens
  <2>2. n \in Nat /\ b \in Nat /\ recv_capacity \in Nat /\ hi \in Nat /\ hi = n + recv_capacity - b
    BY Zenon, <2>1, WindowFacts, CapacityAssumption
  <2>3. r.output.written = n /\ r.output.ended \in BOOLEAN
    BY <2>1 DEF InOrder, Stream
  <2>4. x \in Nat /\ y \in Nat
    BY DEF Bit
  <2>5. AbsAckno(rcv) = n + x + y /\ window_size(rcv) = recv_capacity - b
    BY Zenon, <2>3 DEF AbsAckno, bytes_written, stream_out, input_ended, window_size, remaining_capacity
  <2> HIDE DEF b, n, hi, x, y
  <2>6. AbsAckno(rcv) + window_size(rcv) = hi + x + y
    BY <2>2, <2>4, <2>5
  <2> QED
    BY Zenon, <2>1, <2>2, <2>3, <2>6 DEF hi, x, y
<1> DEFINE Edge == AbsAckno(rcv) + window_size(rcv)
           Parts == /\ Edge = first_unacceptable(rcv.reassembler)
                              + Bit(rcv.syn_received) + Bit(rcv.reassembler.output.ended)
                    /\ first_unacceptable(rcv.reassembler) \in Nat
                    /\ rcv.syn_received \in BOOLEAN /\ rcv.reassembler.output.ended \in BOOLEAN
<1>2. ASSUME IInv, [Next]_vars
      PROVE  [has_ackno(rcv) =>
                AbsAckno(rcv)' + window_size(rcv)' >= AbsAckno(rcv) + window_size(rcv)]_vars
  <2>1. /\ IInv' /\ Follows(rcv'.reassembler, rcv.reassembler)
        /\ rcv.syn_received => rcv'.syn_received
    BY Zenon, <1>2, StepKeeps DEF Keeps
  <2>2. IInv => Parts
    BY Zenon, <1>1
  <2>3. (IInv => Parts)'
    BY <1>1, PTL
  <2>4. Parts /\ Parts'
    BY Zenon, <1>2, <2>1, <2>2, <2>3
  <2>5. ASSUME NEW s \in BOOLEAN, NEW t \in BOOLEAN, s => t
        PROVE  Bit(s) \in Nat /\ Bit(t) \in Nat /\ Bit(s) <= Bit(t)
    BY <2>5 DEF Bit
  <2> DEFINE x == Bit(rcv.syn_received)
             y == Bit(rcv.reassembler.output.ended)
             z == first_unacceptable(rcv.reassembler)
             x1 == Bit(rcv'.syn_received)
             y1 == Bit(rcv'.reassembler.output.ended)
             z1 == first_unacceptable(rcv'.reassembler)
  <2>6. x \in Nat /\ x1 \in Nat /\ x <= x1
    BY Zenon, <2>1, <2>4, <2>5
  <2>7. y \in Nat /\ y1 \in Nat /\ y <= y1
    BY Zenon, <2>1, <2>4, <2>5 DEF Follows
  <2>8. z \in Nat /\ z1 \in Nat /\ z <= z1
    BY Zenon, <2>1, <2>4 DEF Follows
  <2>9. Edge = z + x + y /\ Edge' = z1 + x1 + y1
    BY Zenon, <2>4
  <2> HIDE DEF x, y, z, x1, y1, z1
  <2>10. Edge' >= Edge
    BY <2>6, <2>7, <2>8, <2>9
  <2> QED
    BY Zenon, <2>10
<1> QED
  BY InOrderAlways, <1>2, PTL DEF Spec, WindowNeverShrinks

(***************************************************************************)
(* Sequence numbers at every checkpoint (WrappingCheckpoint), as one side  *)
(* of a connection meets them.                                             *)
(***************************************************************************)

(* The checkpoint stays a 64-bit number while the stream advances.         *)
LEMMA CheckpointType == CheckpointSpec => [](isn \in WrappingInt32 /\ checkpoint \in UInt64)
<1> DEFINE T == isn \in WrappingInt32 /\ checkpoint \in UInt64
<1>1. CheckpointInit => T
  BY WrapAssumption, ModU64, 0 \in Int DEF CheckpointInit, UInt64
<1>2. T /\ [Advance]_<<isn, checkpoint>> => T'
  BY WrapAssumption, ModU64, 0 \in Int DEF Advance, UInt64
<1> QED
  BY <1>1, <1>2, PTL DEF CheckpointSpec

(* At every checkpoint a stream reaches, for every width, unwrap() returns *)
(* the candidate nearest to the checkpoint (wrapping_integers.cc:33-45).   *)
THEOREM UnwrapIsClosestHolds == CheckpointSpec => []UnwrapIsClosest
<1>1. isn \in WrappingInt32 /\ checkpoint \in UInt64 => UnwrapIsClosest
  BY Zenon, UnwrapClosest DEF UnwrapIsClosest
<1> QED
  BY <1>1, CheckpointType, PTL

(* At every checkpoint a stream reaches, unwrap() undoes wrap() for the    *)
(* numbers less than half a wrap away (wrapping_integers.cc:17-19,33-45).  *)
THEOREM RoundTripHolds == CheckpointSpec => []RoundTrip
<1>1. isn \in WrappingInt32 /\ checkpoint \in UInt64 => RoundTrip
  BY Zenon, UnwrapRoundTrip DEF RoundTrip
<1> QED
  BY <1>1, CheckpointType, PTL
=============================================================================
