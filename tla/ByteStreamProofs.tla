-------------------------- MODULE ByteStreamProofs --------------------------
(***************************************************************************)
(* For every capacity: the ring buffer of byte_stream.cc returns the bytes *)
(* in the order in which they were written, and it implements ByteQueue.   *)
(*                                                                         *)
(* The argument: RingInv says that the j-th unread byte lies j places      *)
(* after data_begin, going round the end of the vector once at most.  It   *)
(* makes peek_output(len) the bytes n_bytes_read, n_bytes_read + 1, ...    *)
(* (lemma PeekIs), whether the ring is copied in one piece or in two, and  *)
(* with that every operation is the one of the queue.                      *)
(***************************************************************************)
EXTENDS ByteStream, TLAPS

(* The index of the j-th unread byte.                                      *)
Place(j) ==
    IF data_begin + j < max_capacity THEN data_begin + j ELSE data_begin + j - max_capacity

(* The inductive invariant.                                                *)
RingInv ==
    /\ buffer \in [Index -> Nat]
    /\ data_begin \in Index
    /\ cur_size \in 0 .. max_capacity
    /\ n_bytes_read \in Nat
    /\ n_bytes_written \in 0 .. MaxWritten
    /\ done_writing \in BOOLEAN
    /\ _error \in BOOLEAN
    /\ n_bytes_written - n_bytes_read = cur_size
    /\ \A j \in 0 .. cur_size - 1 : buffer[Place(j)] = n_bytes_read + j

-----------------------------------------------------------------------------
(* Quotient and remainder are unique.                                      *)
LEMMA RemainderUnique ==
    ASSUME NEW x \in Int, NEW m \in Nat \ {0}, NEW k \in Int, NEW r \in 0 .. m - 1,
           x = k * m + r
    PROVE  x % m = r
OBVIOUS

(* The remainder of a number that is up to two laps off the ring.          *)
LEMMA Laps ==
    ASSUME NEW m \in Nat \ {0}, NEW x \in Int
    PROVE  /\ x \in 0 .. m - 1 => x % m = x
           /\ x \in m .. 2 * m - 1 => x % m = x - m
           /\ x \in -m .. -1 => x % m = x + m
           /\ x \in -(2 * m) .. -m - 1 => x % m = x + 2 * m
<1>1. ASSUME x \in 0 .. m - 1 PROVE x % m = x
  BY <1>1, RemainderUnique, x = 0 * m + x
<1>2. ASSUME x \in m .. 2 * m - 1 PROVE x % m = x - m
  BY <1>2, RemainderUnique, x = 1 * m + (x - m), x - m \in 0 .. m - 1
<1>3. ASSUME x \in -m .. -1 PROVE x % m = x + m
  BY <1>3, RemainderUnique, x = (-1) * m + (x + m), x + m \in 0 .. m - 1
<1>4. ASSUME x \in -(2 * m) .. -m - 1 PROVE x % m = x + 2 * m
  BY <1>4, RemainderUnique, x = (-2) * m + (x + 2 * m), x + 2 * m \in 0 .. m - 1
<1> QED
  BY <1>1, <1>2, <1>3, <1>4

(* The bytes first, first + 1, ... as a sequence of length n.              *)
Run(first, n) == [i \in 1 .. n |-> first + i - 1]

(* Such a run is a sequence of naturals.                                   *)
LEMMA RunIsSeq ==
    ASSUME NEW first \in Nat, NEW n \in Nat
    PROVE  Run(first, n) \in Seq(Nat) /\ Len(Run(first, n)) = n
BY DEF Run

(* What peek_output() copies, in one piece or in two.                      *)
LEMMA PeekIs ==
    ASSUME RingInv, NEW len \in Nat
    PROVE  peek_output(len) = Run(n_bytes_read, MinOf(len, cur_size))
<1> DEFINE n == MinOf(len, cur_size)
           m == max_capacity
<1>1. m \in Nat \ {0} /\ n \in 0 .. cur_size /\ cur_size \in 0 .. m /\ data_begin \in 0 .. m - 1
      /\ n_bytes_read \in Nat
  BY RingAssumption DEF RingInv, Index, MinOf
<1>2. \A j \in 0 .. cur_size - 1 :
        buffer[IF data_begin + j < m THEN data_begin + j ELSE data_begin + j - m] = n_bytes_read + j
  BY DEF RingInv, Place
<1> HIDE DEF n, m
<1>3. CASE data_begin + n <= m
  <2>1. \A i \in 1 .. n : buffer[data_begin + i - 1] = n_bytes_read + i - 1
    <3> TAKE i \in 1 .. n
    <3>1. i - 1 \in 0 .. cur_size - 1 /\ data_begin + (i - 1) < m
      BY <1>1, <1>3
    <3> QED
      BY <1>1, <1>2, <3>1
  <2>2. Piece(data_begin, data_begin + n) = Run(n_bytes_read, n)
    BY <1>1, <2>1 DEF Piece, Run
  <2> QED
    BY <1>3, <2>2 DEF peek_output, n, m
<1>4. CASE ~(data_begin + n <= m)
  <2> DEFINE k == data_begin + n - m
             d == m - data_begin
  <2>1. k \in 1 .. m - 1 /\ d \in 1 .. n /\ n = d + k
    BY <1>1, <1>4
  <2>2. (data_begin + n) % m = k
    BY <1>1, <2>1, Laps, data_begin + n \in m .. 2 * m - 1
  <2> HIDE DEF k, d
  <2>3. \A i \in 1 .. d : buffer[data_begin + i - 1] = n_bytes_read + i - 1
    <3> TAKE i \in 1 .. d
    <3>1. i - 1 \in 0 .. cur_size - 1 /\ data_begin + (i - 1) < m
      BY <1>1, <2>1 DEF d
    <3> QED
      BY <1>1, <1>2, <3>1
  <2>4. \A i \in 1 .. k : buffer[0 + i - 1] = n_bytes_read + d + i - 1
    <3> TAKE i \in 1 .. k
    <3>1. d + i - 1 \in 0 .. cur_size - 1 /\ ~(data_begin + (d + i - 1) < m)
          /\ data_begin + (d + i - 1) - m = 0 + i - 1
      BY <1>1, <2>1 DEF d
    <3> QED
      BY <1>1, <1>2, <2>1, <3>1
  <2>5. Piece(data_begin, m) = Run(n_bytes_read, d)
    BY <1>1, <2>1, <2>3 DEF Piece, Run, d
  <2>6. Piece(0, k) = Run(n_bytes_read + d, k)
    BY <1>1, <2>1, <2>4 DEF Piece, Run
  <2>7. Run(n_bytes_read, d) \o Run(n_bytes_read + d, k) = Run(n_bytes_read, n)
    BY <1>1, <2>1 DEF Run
  <2> QED
    BY <1>4, <2>2, <2>5, <2>6, <2>7 DEF peek_output, n, m
<1> QED
  BY <1>3, <1>4 DEF n
-----------------------------------------------------------------------------
(* A new ByteStream (byte_stream.cc:14-22).                                *)
LEMMA RingInit == Init => RingInv
<1> SUFFICES ASSUME Init PROVE RingInv
  OBVIOUS
<1>1. 0 .. cur_size - 1 = {}
  BY DEF Init
<1>2. /\ buffer \in [Index -> Nat] /\ data_begin \in Index /\ cur_size \in 0 .. max_capacity
      /\ n_bytes_read \in Nat /\ n_bytes_written \in 0 .. MaxWritten
      /\ n_bytes_written - n_bytes_read = cur_size
  BY RingAssumption DEF Init, Index
<1>3. done_writing \in BOOLEAN /\ _error \in BOOLEAN
  BY DEF Init
<1> QED
  BY <1>1, <1>2, <1>3 DEF RingInv

(* write(): the n new bytes lie behind the unread ones, which stay.        *)
LEMMA WriteKeeps ==
    ASSUME RingInv, NEW k \in 0 .. MaxOffer, Write(k)
    PROVE  RingInv'
<1> DEFINE n == MinOf(k, remaining_capacity)
           m == max_capacity
           first == data_begin + cur_size
<1>1. /\ m \in Nat \ {0} /\ n \in 0 .. m - cur_size /\ cur_size \in 0 .. m /\ data_begin \in 0 .. m - 1
      /\ n_bytes_read \in Nat /\ n_bytes_written \in Nat /\ n_bytes_written = n_bytes_read + cur_size
      /\ MaxWritten \in Nat
  BY RingAssumption DEF RingInv, Index, MinOf, remaining_capacity
<1>2. /\ n_bytes_written + n <= MaxWritten
      /\ buffer' = Stored(first, n)
      /\ n_bytes_written' = n_bytes_written + n
      /\ cur_size' = cur_size + n
      /\ UNCHANGED <<data_begin, n_bytes_read, done_writing, _error>>
  BY DEF Write
<1> HIDE DEF n
<1>3. \A i \in Index : (i - first) % m \in 0 .. m - 1
  BY <1>1, RingAssumption DEF Index
<1>4. buffer' \in [Index -> Nat]
  <2>1. \A i \in Index : LET j == (i - first) % m IN (IF j < n THEN n_bytes_written + j ELSE buffer[i]) \in Nat
    BY <1>1, <1>3 DEF RingInv
  <2> QED
    BY <1>2, <2>1 DEF Stored
<1>5. ASSUME NEW j \in 0 .. cur_size + n - 1 PROVE buffer'[Place(j)] = n_bytes_read + j
  <2> DEFINE i == Place(j)
             r == (i - first) % m
  <2>1. i \in Index /\ i = IF data_begin + j < m THEN data_begin + j ELSE data_begin + j - m
    BY <1>1, <1>5 DEF Place, Index
  <2>2. buffer'[i] = IF r < n THEN n_bytes_written + r ELSE buffer[i]
    BY <1>2, <2>1 DEF Stored
  <2>3. i - first = IF data_begin + j < m THEN j - cur_size ELSE j - cur_size - m
    BY <1>1, <1>5, <2>1
  <2> HIDE DEF i
  <2>4. CASE j < cur_size
    <3>1. r = j - cur_size + m
      <4>1. CASE data_begin + j < m
        <5>1. i - first \in Int /\ i - first \in -m .. -1
          BY <1>1, <1>5, <2>1, <2>3, <2>4, <4>1
        <5>2. r = i - first + m
          BY <1>1, <5>1, Laps
        <5> QED
          BY <1>1, <1>5, <2>1, <2>3, <2>4, <4>1, <5>2
      <4>2. CASE ~(data_begin + j < m)
        <5>1. i - first \in Int /\ i - first \in -(2 * m) .. -m - 1
          BY <1>1, <1>5, <2>1, <2>3, <2>4, <4>2
        <5>2. r = i - first + 2 * m
          BY <1>1, <5>1, Laps
        <5> QED
          BY <1>1, <1>5, <2>1, <2>3, <2>4, <4>2, <5>2
      <4> QED
        BY <4>1, <4>2
    <3>2. ~(r < n)
      BY <1>1, <1>5, <3>1
    <3>3. buffer[i] = n_bytes_read + j
      BY <1>1, <1>5, <2>4 DEF RingInv, i
    <3> QED
      BY <2>2, <3>2, <3>3 DEF i
  <2>5. CASE ~(j < cur_size)
    <3>1. r = j - cur_size
      <4>1. CASE data_begin + j < m
        <5>1. i - first \in Int /\ i - first \in 0 .. m - 1
          BY <1>1, <1>5, <2>1, <2>3, <2>5, <4>1
        <5>2. r = i - first
          BY <1>1, <5>1, Laps
        <5> QED
          BY <1>1, <1>5, <2>1, <2>3, <2>5, <4>1, <5>2
      <4>2. CASE ~(data_begin + j < m)
        <5>1. i - first \in Int /\ i - first \in -m .. -1
          BY <1>1, <1>5, <2>1, <2>3, <2>5, <4>2
        <5>2. r = i - first + m
          BY <1>1, <5>1, Laps
        <5> QED
          BY <1>1, <1>5, <2>1, <2>3, <2>5, <4>2, <5>2
      <4> QED
        BY <4>1, <4>2
    <3>2. r < n /\ n_bytes_written + r = n_bytes_read + j
      BY <1>1, <1>5, <2>5, <3>1
    <3> QED
      BY <2>2, <3>2 DEF i
  <2> QED
    BY <2>4, <2>5
<1>6. \A j \in 0 .. cur_size' - 1 : buffer'[Place(j)'] = n_bytes_read' + j
  BY <1>1, <1>2, <1>5 DEF Place
<1> QED
  BY <1>1, <1>2, <1>4, <1>6 DEF RingInv

(* pop_output(): the unread bytes move up by len.                          *)
LEMMA PopKeeps ==
    ASSUME RingInv, NEW len \in 0 .. cur_size, PopOutput(len)
    PROVE  /\ RingInv'
           /\ n_bytes_read' = n_bytes_read + len
           /\ cur_size' = cur_size - len
           /\ UNCHANGED <<n_bytes_written, done_writing, _error>>
<1> DEFINE m == max_capacity
<1>1. /\ m \in Nat \ {0} /\ cur_size \in 0 .. m /\ data_begin \in 0 .. m - 1
      /\ n_bytes_read \in Nat /\ n_bytes_written \in 0 .. MaxWritten /\ len \in 0 .. m
      /\ SizeT \in Nat \ {0} /\ cur_size - len \in 0 .. SizeT - 1
  BY RingAssumption DEF RingInv, Index
<1>2. cur_size' = cur_size - len
  <2>1. ASSUME NEW x \in 0 .. SizeT - 1 PROVE x % SizeT = x
    BY <1>1, <2>1, Laps
  <2> QED
    BY <1>1, <2>1 DEF PopOutput
<1>3. n_bytes_read' = n_bytes_read + len /\ UNCHANGED <<buffer, n_bytes_written, done_writing, _error>>
  BY <1>1 DEF PopOutput, MinOf
<1>4. data_begin' = IF data_begin + len < m THEN data_begin + len ELSE data_begin + len - m
  <2>1. ASSUME NEW x \in 0 .. 2 * m - 1 PROVE x % m = IF x < m THEN x ELSE x - m
    <3>1. x \in Int /\ (IF x < m THEN x \in 0 .. m - 1 ELSE x \in m .. 2 * m - 1)
      BY <1>1, <2>1
    <3> QED
      BY <1>1, <3>1, Laps
  <2>2. data_begin + len \in 0 .. 2 * m - 1
    BY <1>1
  <2> QED
    BY <1>1, <2>1, <2>2 DEF PopOutput
<1>5. ASSUME NEW j \in 0 .. cur_size - len - 1 PROVE buffer'[Place(j)'] = n_bytes_read' + j
  <2>1. len + j \in 0 .. cur_size - 1 /\ Place(j)' = Place(len + j)
    BY <1>1, <1>4, <1>5 DEF Place
  <2>2. buffer[Place(len + j)] = n_bytes_read + (len + j)
    BY <2>1 DEF RingInv
  <2> QED
    BY <1>1, <1>3, <1>5, <2>1, <2>2
<1>6. data_begin' \in Index
  BY <1>1, <1>4 DEF Index
<1>7. RingInv'
  BY <1>1, <1>2, <1>3, <1>5, <1>6 DEF RingInv
<1> QED
  BY <1>2, <1>3, <1>7

(* read() pops what peek_output() returned.                                *)
LEMMA ReadIsPop ==
    ASSUME RingInv, NEW len \in 0 .. max_capacity + 1, Read(len)
    PROVE  MinOf(len, cur_size) \in 0 .. cur_size /\ PopOutput(MinOf(len, cur_size))
<1>1. MinOf(len, cur_size) \in 0 .. cur_size /\ len \in Nat /\ n_bytes_read \in Nat
  BY RingAssumption DEF RingInv, MinOf
<1>2. Len(peek_output(len)) = MinOf(len, cur_size)
  BY <1>1, PeekIs, RunIsSeq
<1> QED
  BY <1>1, <1>2 DEF Read

(* Every operation keeps the invariant.                                    *)
LEMMA RingStep == RingInv /\ [Next]_vars => RingInv'
<1> SUFFICES ASSUME RingInv, [Next]_vars PROVE RingInv'
  OBVIOUS
<1>1. ASSUME NEW k \in 0 .. MaxOffer, Write(k) PROVE RingInv'
  BY <1>1, WriteKeeps
<1>2. ASSUME NEW len \in 0 .. cur_size, PopOutput(len) PROVE RingInv'
  BY <1>2, PopKeeps
<1>3. ASSUME NEW len \in 0 .. max_capacity + 1, Read(len) PROVE RingInv'
  BY <1>3, ReadIsPop, PopKeeps
<1>4. CASE EndInput
  BY <1>4 DEF EndInput, RingInv, Place
<1>5. CASE SetError
  BY <1>5 DEF SetError, RingInv, Place
<1>6. CASE UNCHANGED vars
  BY <1>6 DEF vars, RingInv, Place
<1> QED
  BY <1>1, <1>2, <1>3, <1>4, <1>5, <1>6 DEF Next

(* The ring, its read position and its counters agree after every sequence *)
(* of calls of byte_stream.cc.                                             *)
THEOREM RingInvariant == Spec => []RingInv
BY RingInit, RingStep, PTL DEF Spec

(* peek_output() returns the bytes in the order of the writes, at every    *)
(* position of the ring and for every length (byte_stream.cc:36-54).       *)
THEOREM PeeksInOrder == Spec => []PeekInOrder
<1>1. RingInv => PeekInOrder
  <2> SUFFICES ASSUME RingInv PROVE PeekInOrder
    OBVIOUS
  <2>1. \A len \in 0 .. max_capacity : peek_output(len) = Run(n_bytes_read, MinOf(len, cur_size))
    BY PeekIs, RingAssumption
  <2> QED
    BY <2>1 DEF PeekInOrder, Run, RingInv
<1> QED
  BY <1>1, RingInvariant, PTL
-----------------------------------------------------------------------------
(* The refinement.  The queue behind the ring, and that it holds the       *)
(* unread bytes.                                                           *)
State(b, w, e, r) == [buf |-> b, written |-> w, ended |-> e, error |-> r]

Mapped == State(peek_output(cur_size), n_bytes_written, done_writing, _error)

HoldsUnread ==
    /\ Mapped = State(Run(n_bytes_read, cur_size), n_bytes_written, done_writing, _error)
    /\ Mapped.buf = Run(n_bytes_read, cur_size) /\ Mapped.written = n_bytes_written
    /\ n_bytes_read \in Nat /\ cur_size \in Nat
    /\ Len(Mapped.buf) = cur_size

(* The bytes of the mapped queue are the unread ones, now ...              *)
LEMMA MappedIs == RingInv => HoldsUnread
<1> SUFFICES ASSUME RingInv PROVE HoldsUnread
  OBVIOUS
<1>1. cur_size \in Nat /\ n_bytes_read \in Nat /\ MinOf(cur_size, cur_size) = cur_size
  BY RingAssumption DEF RingInv, MinOf
<1>2. peek_output(cur_size) = Run(n_bytes_read, cur_size)
  BY <1>1, PeekIs
<1> QED
  BY <1>1, <1>2, RunIsSeq DEF Mapped, HoldsUnread, State

(* ... and after a step.                                                   *)
LEMMA MappedIsNext == RingInv' => HoldsUnread'
BY MappedIs, PTL

(* Cutting a run of bytes.                                                 *)
LEMMA RunParts ==
    ASSUME NEW first \in Nat, NEW n \in Nat
    PROVE  /\ \A len \in 0 .. n : SubSeq(Run(first, n), len + 1, n) = Run(first + len, n - len)
           /\ SubSeq(Run(first, n), 1, n) = Run(first, n)
<1>1. ASSUME NEW len \in 0 .. n PROVE SubSeq(Run(first, n), len + 1, n) = Run(first + len, n - len)
  BY <1>1 DEF Run
<1>2. SubSeq(Run(first, n), 1, n) = Run(first, n)
  BY DEF Run
<1> QED
  BY <1>1, <1>2

(* Two runs, one behind the other.                                         *)
LEMMA RunJoined ==
    ASSUME NEW first \in Nat, NEW n \in Nat, NEW k \in Nat
    PROVE  Run(first, n) \o Run(first + n, k) = Run(first, n + k)
BY DEF Run

(* A stream with some of its fields replaced.                              *)
LEMMA FieldReplaced ==
    ASSUME NEW b, NEW w, NEW e, NEW r, NEW x
    PROVE  /\ [State(b, w, e, r) EXCEPT !.buf = x] = State(x, w, e, r)
           /\ [State(b, w, e, r) EXCEPT !.written = x] = State(b, x, e, r)
           /\ [State(b, w, e, r) EXCEPT !.ended = x] = State(b, w, x, r)
           /\ [State(b, w, e, r) EXCEPT !.error = x] = State(b, w, e, x)
BY SMT DEF State

(* The flag of end_input().                                                *)
LEMMA EndedRaised ==
    ASSUME NEW b, NEW w, NEW e, NEW r
    PROVE  [State(b, w, e, r) EXCEPT !.ended = TRUE] = State(b, w, TRUE, r)
<1>1. PICK t : t = TRUE
  OBVIOUS
<1>2. [State(b, w, e, r) EXCEPT !.ended = t] = State(b, w, t, r)
  BY FieldReplaced
<1> QED
  BY <1>1, <1>2, Zenon

(* The flag of set_error().                                                *)
LEMMA ErrorRaised ==
    ASSUME NEW b, NEW w, NEW e, NEW r
    PROVE  [State(b, w, e, r) EXCEPT !.error = TRUE] = State(b, w, e, TRUE)
<1>1. PICK t : t = TRUE
  OBVIOUS
<1>2. [State(b, w, e, r) EXCEPT !.error = t] = State(b, w, e, t)
  BY FieldReplaced
<1> QED
  BY <1>1, <1>2, Zenon

(* Popping, whether by pop_output() or by read().                          *)
LEMMA PopImplements ==
    ASSUME RingInv, NEW len \in 0 .. cur_size, PopOutput(len)
    PROVE  Queue!Pop
<1>1. /\ RingInv'
      /\ n_bytes_read' = n_bytes_read + len
      /\ cur_size' = cur_size - len
      /\ UNCHANGED <<n_bytes_written, done_writing, _error>>
  BY PopKeeps
<1>2. HoldsUnread /\ HoldsUnread'
  BY <1>1, MappedIs, MappedIsNext
<1>3. Mapped.buf = Run(n_bytes_read, cur_size) /\ Len(Mapped.buf) = cur_size
  BY <1>2 DEF HoldsUnread
<1>4. Mapped' = State(Run(n_bytes_read + len, cur_size - len), n_bytes_written, done_writing, _error)
  BY <1>1, <1>2 DEF HoldsUnread, Run
<1>5. SubSeq(Mapped.buf, len + 1, Len(Mapped.buf)) = Run(n_bytes_read + len, cur_size - len)
  <2>1. SubSeq(Run(n_bytes_read, cur_size), len + 1, cur_size) = Run(n_bytes_read + len, cur_size - len)
    BY <1>2, RunParts DEF HoldsUnread
  <2> QED
    BY <1>3, <2>1
<1>6. Mapped' = [Mapped EXCEPT !.buf = SubSeq(Mapped.buf, len + 1, Len(Mapped.buf))]
  <2> DEFINE S(b) == State(b, n_bytes_written, done_writing, _error)
  <2>1. [S(Run(n_bytes_read, cur_size)) EXCEPT !.buf = Run(n_bytes_read + len, cur_size - len)]
            = S(Run(n_bytes_read + len, cur_size - len))
    BY FieldReplaced
  <2>2. Mapped = S(Run(n_bytes_read, cur_size))
    BY <1>2 DEF HoldsUnread
  <2> QED
    BY <1>4, <1>5, <2>1, <2>2, Zenon
<1> QED
  BY <1>3, <1>6 DEF Queue!Pop, Queue!pop_output, Queue!buffer_size, Mapped, State

(* write() appends what fits.                                              *)
LEMMA WriteImplements ==
    ASSUME RingInv, ~done_writing, NEW k \in 0 .. MaxOffer, Write(k)
    PROVE  Queue!Write
<1> DEFINE n == MinOf(k, max_capacity - cur_size)
           data == Run(n_bytes_written, n)
<1>1. /\ n \in 0 .. max_capacity - cur_size /\ n <= MaxOffer /\ n \in Nat
      /\ n_bytes_written \in 0 .. MaxWritten /\ n_bytes_written = n_bytes_read + cur_size
      /\ cur_size \in 0 .. max_capacity /\ n_bytes_read \in Nat
      /\ max_capacity \in Nat /\ MaxOffer \in Nat /\ MaxWritten \in Nat
  BY RingAssumption DEF RingInv, MinOf
<1>2. /\ n_bytes_written' = n_bytes_written + n
      /\ cur_size' = cur_size + n
      /\ UNCHANGED <<n_bytes_read, done_writing, _error>>
  BY DEF Write, remaining_capacity
<1> HIDE DEF n
<1>3. data \in [1 .. n -> Byte] /\ Len(data) = n /\ SubSeq(data, 1, n) = data
  <2>1. data \in [1 .. n -> Byte]
    BY <1>1 DEF Run, Byte
  <2> QED
    BY <2>1, <1>1, RunIsSeq, RunParts
<1> HIDE DEF data
<1>4. HoldsUnread /\ HoldsUnread'
  BY WriteKeeps, MappedIs, MappedIsNext
<1>5. Mapped' = State(Run(n_bytes_read, cur_size + n), n_bytes_written + n, done_writing, _error)
  BY <1>2, <1>4 DEF HoldsUnread, Run
<1>6. Mapped.buf \o data = Run(n_bytes_read, cur_size + n)
  <2>1. Run(n_bytes_read, cur_size) \o Run(n_bytes_read + cur_size, n) = Run(n_bytes_read, cur_size + n)
    <3>1. n_bytes_read \in Nat /\ cur_size \in Nat /\ n \in Nat
      BY <1>1
    <3> QED
      BY <3>1, RunJoined, Zenon
  <2>2. Mapped.buf = Run(n_bytes_read, cur_size)
    BY <1>4 DEF HoldsUnread
  <2> QED
    BY <1>1, <2>1, <2>2 DEF data
<1>7. Mapped' = [Mapped EXCEPT !.buf = Mapped.buf \o SubSeq(data, 1, n), !.written = Mapped.written + n]
  <2>1. Mapped.written = n_bytes_written
    BY <1>4 DEF HoldsUnread
  <2>2. PICK x, y : x = Run(n_bytes_read, cur_size + n) /\ y = n_bytes_written + n
    OBVIOUS
  <2>3. [Mapped EXCEPT !.buf = x] = State(x, n_bytes_written, done_writing, _error)
    BY <1>4, FieldReplaced DEF HoldsUnread
  <2>4. [State(x, n_bytes_written, done_writing, _error) EXCEPT !.written = y] = State(x, y, done_writing, _error)
    BY SMT DEF State
  <2>5. [Mapped EXCEPT !.buf = x, !.written = y] = [[Mapped EXCEPT !.buf = x] EXCEPT !.written = y]
    OBVIOUS
  <2>6. Mapped' = State(x, y, done_writing, _error)
    BY <1>5, <2>2, Zenon
  <2>7. Mapped' = [Mapped EXCEPT !.buf = x, !.written = y]
    BY <2>3, <2>4, <2>5, <2>6, Zenon
  <2>8. x = Mapped.buf \o SubSeq(data, 1, n) /\ y = Mapped.written + n
    BY <1>3, <1>6, <2>1, <2>2, Zenon
  <2> QED
    BY <2>7, <2>8, Zenon
<1>8. Queue!MinOf(Len(data), max_capacity - Len(Mapped.buf)) = n
  BY <1>1, <1>3, <1>4 DEF Queue!MinOf, HoldsUnread
<1>9. Mapped' = Queue!write(Mapped, data, max_capacity)
  BY <1>7, <1>8 DEF Queue!write, Queue!remaining_capacity
<1>10. n \in 0 .. max_capacity
  BY <1>1
<1> QED
  BY <1>3, <1>9, <1>10 DEF Queue!Write, Queue!input_ended, Mapped, State

(* The ring buffer implements the queue: each operation of byte_stream.cc, *)
(* seen through peek_output(), is the one of ByteQueue, for every capacity.*)
THEOREM RingImplementsQueue == Spec => ImplementsByteQueue
<1>1. Init => Queue!Init
  <2> SUFFICES ASSUME Init PROVE Queue!Init
    OBVIOUS
  <2>1. Mapped = State(Run(0, 0), 0, FALSE, FALSE)
    BY RingInit, MappedIs DEF Init, HoldsUnread
  <2>2. Run(0, 0) = << >>
    BY DEF Run
  <2> QED
    BY <2>1, <2>2 DEF Queue!Init, Queue!EmptyStream, Mapped, State
<1>2. RingInv /\ RingInv' /\ [Next]_vars => [Queue!Next]_Mapped
  <2> SUFFICES ASSUME RingInv, RingInv', [Next]_vars PROVE [Queue!Next]_Mapped
    OBVIOUS
  <2>0. HoldsUnread /\ HoldsUnread'
    BY MappedIs, MappedIsNext
  <2>1. ASSUME NEW k \in 0 .. MaxOffer, ~done_writing, Write(k) PROVE Queue!Next
    BY <2>1, WriteImplements DEF Queue!Next
  <2>2. ASSUME NEW len \in 0 .. cur_size, PopOutput(len) PROVE Queue!Next
    BY <2>2, PopImplements DEF Queue!Next
  <2>3. ASSUME NEW len \in 0 .. max_capacity + 1, Read(len) PROVE Queue!Next
    BY <2>3, ReadIsPop, PopImplements DEF Queue!Next
  <2>4. CASE EndInput
    <3> DEFINE S(e, r) == State(Run(n_bytes_read, cur_size), n_bytes_written, e, r)
    <3>1. [S(done_writing, _error) EXCEPT !.ended = TRUE] = S(TRUE, _error)
      BY EndedRaised
    <3>2. Mapped = S(done_writing, _error)
      BY <2>0 DEF HoldsUnread
    <3>3. Mapped' = S(done_writing, _error)'
      BY <2>0 DEF HoldsUnread
    <3>4. S(done_writing, _error)' = S(TRUE, _error)
      BY <2>4, Zenon DEF EndInput
    <3>5. Mapped' = [Mapped EXCEPT !.ended = TRUE]
      BY <3>1, <3>2, <3>3, <3>4, Zenon
    <3> QED
      BY <3>5 DEF Queue!Next, Queue!EndInput, Queue!end_input, Mapped, State
  <2>5. CASE SetError
    <3> DEFINE S(e, r) == State(Run(n_bytes_read, cur_size), n_bytes_written, e, r)
    <3>1. [S(done_writing, _error) EXCEPT !.error = TRUE] = S(done_writing, TRUE)
      BY ErrorRaised
    <3>2. Mapped = S(done_writing, _error)
      BY <2>0 DEF HoldsUnread
    <3>3. Mapped' = S(done_writing, _error)'
      BY <2>0 DEF HoldsUnread
    <3>4. S(done_writing, _error)' = S(done_writing, TRUE)
      BY <2>5, Zenon DEF SetError
    <3>5. Mapped' = [Mapped EXCEPT !.error = TRUE]
      BY <3>1, <3>2, <3>3, <3>4, Zenon
    <3> QED
      BY <3>5 DEF Queue!Next, Queue!SetError, Queue!set_error, Mapped, State
  <2>6. CASE UNCHANGED vars
    BY <2>6, <2>0 DEF vars, HoldsUnread, Run
  <2> QED
    BY <2>1, <2>2, <2>3, <2>4, <2>5, <2>6 DEF Next
<1> QED
  BY <1>1, <1>2, RingInvariant, PTL DEF Spec, ImplementsByteQueue, Queue!Spec, Mapped, State
=============================================================================
