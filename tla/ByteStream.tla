----------------------------- MODULE ByteStream -----------------------------
(***************************************************************************)
(* libsponge/byte_stream.{hh,cc}: the ring buffer.                         *)
(*                                                                         *)
(* Bytes are told apart by their place in the stream: the writer offers    *)
(* byte n_bytes_written, n_bytes_written + 1, ..., so a byte that is       *)
(* skipped, repeated or reordered is seen.                                 *)
(***************************************************************************)
EXTENDS Integers, Sequences

CONSTANTS
    max_capacity,   \* the constructor's argument
    SizeT,          \* 2^64: size_t arithmetic is modulo SizeT
    MaxOffer,       \* bound: longest string one write() is given
    MaxWritten      \* bound: bytes accepted over the stream's life

ASSUME RingAssumption ==
    /\ max_capacity \in Nat \ {0}
    /\ MaxOffer \in Nat
    /\ MaxWritten \in Nat
    /\ SizeT \in Nat
    /\ MaxWritten + max_capacity < SizeT

VARIABLES
    buffer,         \* the ring, index 0 .. max_capacity - 1
    data_begin,     \* index of the oldest unread byte
    cur_size,       \* number of unread bytes
    n_bytes_read,
    n_bytes_written,
    done_writing,
    _error

vars == <<buffer, data_begin, cur_size, n_bytes_read, n_bytes_written,
          done_writing, _error>>

Byte == 0 .. MaxWritten + MaxOffer
Index == 0 .. max_capacity - 1
MinOf(a, b) == IF a <= b THEN a ELSE b

Init ==
    /\ buffer = [i \in Index |-> 0]
    /\ data_begin = 0
    /\ cur_size = 0
    /\ n_bytes_read = 0
    /\ n_bytes_written = 0
    /\ done_writing = FALSE
    /\ _error = FALSE

remaining_capacity == max_capacity - cur_size

(* The ring as a sequence: len bytes from the index begin, in one piece    *)
(* when they do not run over the end of the vector and in two when they do.*)
Piece(first, last) == [i \in 1 .. last - first |-> buffer[first + i - 1]]

peek_output(len) ==
    LET len_ret == MinOf(len, cur_size)
    IN  IF data_begin + len_ret <= max_capacity
        THEN Piece(data_begin, data_begin + len_ret)
        ELSE Piece(data_begin, max_capacity)
                \o Piece(0, (data_begin + len_ret) % max_capacity)

(* The ring after the loop of write() stored n new bytes from index first  *)
(* on: data[j] goes to (first + j) % max_capacity.                         *)
Stored(first, n) ==
    [i \in Index |->
        LET j == (i - first) % max_capacity
        IN  IF j < n THEN n_bytes_written + j ELSE buffer[i]]

-----------------------------------------------------------------------------
(* Mutants of the operations, one plausible slip each.                     *)

(* write() that reckons the free place from the start of the ring.         *)
WriteFromStart(k) ==
    LET n == MinOf(k, remaining_capacity)
    IN  /\ n_bytes_written + n <= MaxWritten
        /\ buffer' = Stored(cur_size, n)
        /\ n_bytes_written' = n_bytes_written + n
        /\ cur_size' = cur_size + n
        /\ UNCHANGED <<data_begin, n_bytes_read, done_writing, _error>>

(* pop_output() that stops at the end of the vector instead of wrapping.   *)
PopUnwrapped(len) ==
    /\ data_begin' = MinOf(data_begin + len, max_capacity - 1)
    /\ n_bytes_read' = n_bytes_read + len
    /\ cur_size' = cur_size - len
    /\ UNCHANGED <<buffer, n_bytes_written, done_writing, _error>>

-----------------------------------------------------------------------------
(* write(data) with a string of k bytes.                                   *)
Write(k) ==
    LET n == MinOf(k, remaining_capacity)
    IN  /\ n_bytes_written + n <= MaxWritten
        /\ buffer' = Stored(data_begin + cur_size, n)
        /\ n_bytes_written' = n_bytes_written + n
        /\ cur_size' = cur_size + n
        /\ UNCHANGED <<data_begin, n_bytes_read, done_writing, _error>>

(* pop_output(len).  The subtraction is unsigned, so std::max(0, ...) has  *)
(* no effect and a len above cur_size would wrap.                          *)
PopOutput(len) ==
    /\ data_begin' = (data_begin + len) % max_capacity
    /\ n_bytes_read' = n_bytes_read + MinOf(len, cur_size)
    /\ cur_size' = (cur_size - len) % SizeT
    /\ UNCHANGED <<buffer, n_bytes_written, done_writing, _error>>

(* read(len) copies and pops what peek_output(len) returned.               *)
Read(len) == PopOutput(Len(peek_output(len)))

EndInput ==
    /\ done_writing' = TRUE
    /\ UNCHANGED <<buffer, data_begin, cur_size, n_bytes_read, n_bytes_written, _error>>

SetError ==
    /\ _error' = TRUE
    /\ UNCHANGED <<buffer, data_begin, cur_size, n_bytes_read, n_bytes_written, done_writing>>

(* Every caller in the repository checks input_ended() before it writes    *)
(* (stream_reassembler.cc:68, tcp_connection.cc:72) and pops only what it  *)
(* has peeked (tcp_sponge_socket.cc:134, bidirectional_stream_copy.cc).    *)
Next ==
    \/ \E k \in 0 .. MaxOffer : ~done_writing /\ Write(k)
    \/ \E len \in 0 .. cur_size : PopOutput(len)
    \/ \E len \in 0 .. max_capacity + 1 : Read(len)
    \/ EndInput
    \/ SetError

Spec == Init /\ [][Next]_vars

-----------------------------------------------------------------------------
(* The ring buffer implements the abstract byte queue: every operation of  *)
(* byte_stream.cc, seen through peek_output(), is the operation of the     *)
(* same name on a bounded FIFO, at every position of the ring.             *)
Queue == INSTANCE ByteQueue WITH
    Capacity <- max_capacity,
    q <- [buf     |-> peek_output(cur_size),
          written |-> n_bytes_written,
          ended   |-> done_writing,
          error   |-> _error]

ImplementsByteQueue == Queue!Spec

(* The two counters, the ring and the read position agree: what            *)
(* peek_output(len) returns is, for every len, the bytes numbered          *)
(* bytes_read() onwards, cut at buffer_size().                             *)
PeekInOrder ==
    /\ n_bytes_written - n_bytes_read = cur_size
    /\ \A len \in 0 .. max_capacity :
        peek_output(len) = [i \in 1 .. MinOf(len, cur_size) |-> n_bytes_read + i - 1]
=============================================================================
