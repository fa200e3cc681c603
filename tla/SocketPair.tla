----------------------------- MODULE SocketPair -----------------------------
(***************************************************************************)
(* The two connected Unix-domain stream sockets between a program and its  *)
(* TCP thread, with the calls of util/file_descriptor.cc and               *)
(* util/socket.cc on them.  A channel is one direction: the bytes in the   *)
(* kernel and whether it was shut down, by its writer or by its reader.    *)
(***************************************************************************)
EXTENDS Streams

CONSTANT pair_capacity      \* bytes the kernel holds in one direction

ASSUME PairAssumption == pair_capacity \in Nat \ {0}

Channel == [buf |-> <<>>, shut |-> FALSE]

(* up: from the program to the TCP thread; down: the other way; closed:    *)
(* the program's FDWrapper::_closed.                                       *)
socket_pair == [up |-> Channel, down |-> Channel, closed |-> FALSE]

Readable(ch) == ch.buf # <<>> \/ ch.shut
Writable(ch) == Len(ch.buf) < pair_capacity
HungUp(p) == p.up.shut /\ p.down.shut

(* read(limit): what it returns, what it leaves, and when it sets _eof.    *)
DataRead(ch, limit) == SubSeq(ch.buf, 1, MinOf(limit, Len(ch.buf)))
AfterRead(ch, limit) == [ch EXCEPT !.buf = SubSeq(@, Len(DataRead(ch, limit)) + 1, Len(@))]
ReadSetsEof(ch, limit) == limit > 0 /\ ch.buf = <<>> /\ ch.shut

(* One writev(2) of write(data): a part of the data, or a broken pipe.     *)
BytesWritten(ch, data) == MinOf(Len(data), pair_capacity - Len(ch.buf))
AfterWrite(ch, data) == [ch EXCEPT !.buf = @ \o SubSeq(data, 1, BytesWritten(ch, data))]
BrokenPipe(ch, data) == ch.shut /\ data # <<>>

(* SHUT_WR is for the caller's own direction.                              *)
ShutdownWr(ch) == [ch EXCEPT !.shut = TRUE]
ShutdownRdWr(p) == [p EXCEPT !.up.shut = TRUE, !.down.shut = TRUE]

(* FDWrapper::close() on the program's side: what it had not read is gone. *)
Close(p) == [ShutdownRdWr(p) EXCEPT !.down.buf = <<>>, !.closed = TRUE]
=============================================================================
