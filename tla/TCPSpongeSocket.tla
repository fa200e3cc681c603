-------------------------- MODULE TCPSpongeSocket --------------------------
(***************************************************************************)
(* libsponge/tcp_helpers/tcp_sponge_socket.cc: the TCP side of the socket, *)
(* as a record t with the TCPConnection, the event loop, the two shutdown  *)
(* flags and the eof flag of _thread_data, and the four rules of           *)
(* _initialize_TCP as operators; t.fault says why the thread died.         *)
(***************************************************************************)
EXTENDS TCPState, EventLoop, SocketPair

CONSTANT CopyMax    \* 65536: bytes one callback moves into the socket pair

(* pc: "opening" while the owner runs the loop inside connect() or         *)
(* listen_and_accept(), then "running", "ending" (the loop is left) and    *)
(* "ended".                                                                *)
initialize_TCP(isn) ==
    [conn |-> NewConnection(isn), loop |-> add_rules(4), pc |-> "opening", eof |-> FALSE,
     outbound_shutdown |-> FALSE, inbound_shutdown |-> FALSE, fault |-> "none"]

remaining_outbound_capacity(c) == remaining_capacity(outbound(c), send_capacity)

interest(t, r) ==
    CASE r = 1 -> t.conn.active
      [] r = 2 -> t.conn.active /\ ~t.outbound_shutdown /\ remaining_outbound_capacity(t.conn) > 0
      [] r = 3 -> \/ ~buffer_empty(inbound(t.conn))
                  \/ (eof(inbound(t.conn)) \/ inbound(t.conn).error) /\ ~t.inbound_shutdown
      [] r = 4 -> t.conn.segments_out # <<>>

(* Rule 2: the application's bytes into the outbound stream.  Mutant: its  *)
(* end is noted, but not passed on.                                        *)
EndOutbound_flag(t) == [t EXCEPT !.outbound_shutdown = TRUE]

EndOutbound(t) == [t EXCEPT !.conn = end_input_stream(@), !.outbound_shutdown = TRUE]

ReadFromPipe(t, up) ==
    LET limit == remaining_outbound_capacity(t.conn)
        data  == DataRead(up, limit)
        c     == write_outbound(t.conn, data)
        taken == bytes_written(outbound(c)) - bytes_written(outbound(t.conn))
        t1    == [t EXCEPT !.conn = c, !.eof = @ \/ ReadSetsEof(up, limit)]
    IN  IF taken # Len(data) THEN [t EXCEPT !.fault = "accepted less"]
        ELSE IF t1.eof THEN EndOutbound(t1) ELSE t1

cancel(t, r) == IF r = 2 THEN EndOutbound(t) ELSE t

(* Rule 3: what was assembled, to the application, and then its end.       *)
Assembled(t) == peek_output(inbound(t.conn), MinOf(CopyMax, buffer_size(inbound(t.conn))))

(* Mutant: pops what it wanted to write.                                   *)
WriteToPipe_all(t, down) ==
    LET t1 == [t EXCEPT !.conn.receiver.reassembler.output = pop_output(@, Len(Assembled(t)))]
    IN  IF BrokenPipe(down, Assembled(t)) THEN [t EXCEPT !.fault = "SIGPIPE"]
        ELSE [t1 EXCEPT !.inbound_shutdown = @ \/ eof(inbound(t1.conn)) \/ inbound(t1.conn).error]

(* Mutant: shuts the pipe down when no more will be assembled.             *)
WriteToPipe_early(t, down) ==
    LET n  == BytesWritten(down, Assembled(t))
        t1 == [t EXCEPT !.conn.receiver.reassembler.output = pop_output(@, n)]
    IN  IF BrokenPipe(down, Assembled(t)) THEN [t EXCEPT !.fault = "SIGPIPE"]
        ELSE [t1 EXCEPT !.inbound_shutdown = @ \/ input_ended(inbound(t1.conn)) \/ inbound(t1.conn).error]

WriteToPipe(t, down) ==
    LET n  == BytesWritten(down, Assembled(t))
        t1 == [t EXCEPT !.conn.receiver.reassembler.output = pop_output(@, n)]
    IN  IF BrokenPipe(down, Assembled(t)) THEN [t EXCEPT !.fault = "SIGPIPE"]
        ELSE [t1 EXCEPT !.inbound_shutdown = @ \/ eof(inbound(t1.conn)) \/ inbound(t1.conn).error]

PipeWritten(t, down) ==
    LET ch == AfterWrite(down, Assembled(t))
    IN  IF WriteToPipe(t, down).inbound_shutdown THEN ShutdownWr(ch) ELSE ch

(* Rule 4: all segments become datagrams.                                  *)
SendSegments(t) == [t EXCEPT !.conn.segments_out = <<>>]

(* connect() loops in SYN_SENT, listen_and_accept() up to the end of the   *)
(* handshake.                                                              *)
Opening(t, role) ==
    IF role = "connect" THEN is_in(t.conn, "SYN_SENT")
    ELSE \E name \in {"LISTEN", "SYN_RCVD", "SYN_SENT"} : is_in(t.conn, name)

(* The end of a round of _tcp_loop, ms after the last one.                 *)
AfterWait(t, abort, ms) ==
    IF abort THEN [t EXCEPT !.pc = "ending"]
             ELSE [t EXCEPT !.conn = tick_connection(@, ms)]
=============================================================================
