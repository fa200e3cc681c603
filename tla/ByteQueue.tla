----------------------------- MODULE ByteQueue -----------------------------
(***************************************************************************)
(* The abstract specification of a ByteStream: one Stream value and the    *)
(* operations its writer and its reader perform.                           *)
(***************************************************************************)
EXTENDS Streams

CONSTANTS
    Byte,       \* what the stream carries
    Capacity    \* the constructor's capacity

VARIABLE q

Init == q = EmptyStream

(* "the writer can end the input, and then no more bytes can be written"   *)
(* (byte_stream.hh:10-11).                                                 *)
Write == /\ ~input_ended(q)
         /\ \E n \in 0 .. Capacity : \E data \in [1 .. n -> Byte] :
                q' = write(q, data, Capacity)

Pop == \E len \in 0 .. buffer_size(q) : q' = pop_output(q, len)

EndInput == q' = end_input(q)

SetError == q' = set_error(q)

Next == Write \/ Pop \/ EndInput \/ SetError

Spec == Init /\ [][Next]_q
=============================================================================
