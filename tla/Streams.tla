------------------------------ MODULE Streams ------------------------------
(***************************************************************************)
(* What libsponge's ByteStream promises its users, as values and operators:*)
(* a bounded first-in-first-out queue of bytes whose writer can end it.    *)
(* The reassembler, the sender and the connection hold such values; module *)
(* ByteStream shows that the ring buffer of byte_stream.cc implements them.*)
(* Operators carry the names of the methods they stand for.  A capacity is *)
(* a parameter because the inbound and the outbound stream have their own. *)
(***************************************************************************)
EXTENDS Integers, Sequences

MinOf(a, b) == IF a <= b THEN a ELSE b

Stream(Byte) ==
    [buf : Seq(Byte), written : Nat, ended : BOOLEAN, error : BOOLEAN]

EmptyStream == [buf |-> <<>>, written |-> 0, ended |-> FALSE, error |-> FALSE]

buffer_size(q) == Len(q.buf)
buffer_empty(q) == q.buf = <<>>
bytes_written(q) == q.written
bytes_read(q) == q.written - Len(q.buf)
input_ended(q) == q.ended
eof(q) == input_ended(q) /\ buffer_empty(q)
remaining_capacity(q, cap) == cap - Len(q.buf)

write(q, data, cap) ==
    LET n == MinOf(Len(data), remaining_capacity(q, cap))
    IN  [q EXCEPT !.buf = @ \o SubSeq(data, 1, n), !.written = @ + n]

peek_output(q, len) == SubSeq(q.buf, 1, MinOf(len, Len(q.buf)))

(* Callers pop no more than they peeked, so len <= buffer_size(q).         *)
pop_output(q, len) == [q EXCEPT !.buf = SubSeq(@, len + 1, Len(@))]

(* read() returns the peeked bytes and leaves the rest.                    *)
after_read(q, len) == pop_output(q, Len(peek_output(q, len)))

end_input(q) == [q EXCEPT !.ended = TRUE]
set_error(q) == [q EXCEPT !.error = TRUE]
=============================================================================
