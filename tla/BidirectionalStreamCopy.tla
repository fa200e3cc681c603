---------------------- MODULE BidirectionalStreamCopy ----------------------
(***************************************************************************)
(* apps/bidirectional_stream_copy.cc: the program's thread between its     *)
(* standard input and output and a socket, as a record o with two byte     *)
(* streams, its event loop and flags, and its four rules as operators.     *)
(***************************************************************************)
EXTENDS EventLoop, SocketPair

CONSTANTS
    buffer_capacity,    \* buffer_size: of either stream
    max_copy_length     \* bytes one callback moves

NewCopy ==
    [loop |-> add_rules(4), out |-> EmptyStream, in |-> EmptyStream,
     outbound_shutdown |-> FALSE, inbound_shutdown |-> FALSE,
     input_eof |-> FALSE, socket_eof |-> FALSE, output_closed |-> FALSE]

(* Neither stream ever has an error: nothing here calls set_error().       *)
copy_interest(o, r) ==
    CASE r = 1 -> remaining_capacity(o.out, buffer_capacity) > 0
      [] r = 2 -> ~buffer_empty(o.out) \/ (eof(o.out) /\ ~o.outbound_shutdown)
      [] r = 3 -> remaining_capacity(o.in, buffer_capacity) > 0
      [] r = 4 -> ~buffer_empty(o.in) \/ (eof(o.in) /\ ~o.inbound_shutdown)

(* Rules whose descriptor is at its end or closed.                         *)
copy_defunct(o) ==
    {r \in o.loop.rules :
        \/ r = 1 /\ o.input_eof
        \/ r = 3 /\ o.socket_eof
        \/ r = 4 /\ o.output_closed}

copy_cancel(o, r) ==
    IF r \in {1, 2} THEN [o EXCEPT !.out = end_input(@)] ELSE [o EXCEPT !.in = end_input(@)]

(* Rules 1 and 3: from the input into the outbound stream, and from the    *)
(* socket into the inbound stream.                                         *)
ReadInput(o, data, at_end) ==
    LET q == write(o.out, data, buffer_capacity)
    IN  [o EXCEPT !.input_eof = at_end, !.out = IF at_end THEN end_input(q) ELSE q]

ReadSocket(o, down) ==
    LET limit == remaining_capacity(o.in, buffer_capacity)
        q     == write(o.in, DataRead(down, limit), buffer_capacity)
        at_end == o.socket_eof \/ ReadSetsEof(down, limit)
    IN  [o EXCEPT !.socket_eof = at_end, !.in = IF at_end THEN end_input(q) ELSE q]

(* Rules 2 and 4: from the outbound stream into the socket, and from the   *)
(* inbound stream to the output.                                           *)
ToSocket(o) == peek_output(o.out, MinOf(max_copy_length, buffer_size(o.out)))
ToOutput(o) == peek_output(o.in, MinOf(max_copy_length, buffer_size(o.in)))

WriteSocket(o, up) ==
    LET q == pop_output(o.out, BytesWritten(up, ToSocket(o)))
    IN  [o EXCEPT !.out = q, !.outbound_shutdown = @ \/ eof(q)]

WriteOutput(o) ==
    LET q == pop_output(o.in, Len(ToOutput(o)))
    IN  [o EXCEPT !.in = q, !.inbound_shutdown = @ \/ eof(q), !.output_closed = @ \/ eof(q)]
=============================================================================
