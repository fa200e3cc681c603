-------------------------- MODULE SpongeSocketSpec --------------------------
(***************************************************************************)
(* A program, the TCP thread of its TCPSpongeSocket, the socket pair       *)
(* between them and, across a network that loses nothing, the peer's       *)
(* TCPConnection.  The two threads interleave at their system calls: one   *)
(* step is the first half of wait_next_event() up to poll(), or one        *)
(* callback.  Programs: "copy" (tcp_udp, tcp_ipv4, tcp_ip_ethernet, lab7)  *)
(* copies both ways and waits; "webget" sends a request, reads the answer, *)
(* closes and waits; "leave" destroys the socket.                          *)
(***************************************************************************)
EXTENDS TCPSpongeSocket, BidirectionalStreamCopy
LOCAL INSTANCE SequencesExt

CONSTANTS
    Programs,       \* the programs to look at
    Roles,          \* "connect" or "listen"
    InputBytes,     \* bound: what the program has to send
    PeerBytes,      \* bound: what the peer has to send
    MayReset        \* may the peer reset the connection?

ASSUME SocketAssumption ==
    /\ Programs \subseteq {"copy", "webget", "leave"} /\ Roles \subseteq {"connect", "listen"}
    /\ InputBytes \in Nat /\ PeerBytes \in Nat /\ MayReset \in BOOLEAN
    /\ CopyMax \in Nat \ {0} /\ max_copy_length \in Nat \ {0} /\ buffer_capacity \in Nat \ {0}

VARIABLES
    tcp,        \* the TCP side of the socket
    pair,       \* the socket pair
    own,        \* the program: what it runs, where it is, its copy loop, its output
    input,      \* its standard input
    peer,       \* the peer's connection, what it has read, whether it reset
    toA, toB,   \* segments on their way to the socket and to the peer
    abort       \* TCPSpongeSocket::_abort

vars == <<tcp, pair, own, input, peer, toA, toB, abort>>

(* The bytes of the two streams.                                           *)
InputStream == [i \in 1 .. InputBytes |-> i]
PeerStream == [i \in 1 .. PeerBytes |-> -i]

(* Whoever connects has sent its SYN.  An input is a pipe, which may stay  *)
(* open, or a file, which has an end from the start.                       *)
Init ==
    \E prog \in Programs, role \in Roles, file \in BOOLEAN :
        LET a == initialize_TCP(Wrap - 2)
            b == NewConnection(Wrap - 1)
        IN  /\ role = "listen" => prog = "copy"
            /\ file <=> role = "listen"
            /\ tcp = IF role = "connect" THEN [a EXCEPT !.conn = connect(@)] ELSE a
            /\ pair = socket_pair
            /\ own = [prog |-> prog, role |-> role, pc |-> "opening", copy |-> NewCopy,
                      rest |-> InputStream, output |-> <<>>]
            /\ input = [left |-> InputStream, ended |-> file, file |-> file]
            /\ peer = [conn |-> IF role = "listen" THEN [connect(b) EXCEPT !.segments_out = <<>>] ELSE b,
                       read |-> <<>>, reset |-> FALSE]
            /\ toA = IF role = "listen" THEN connect(b).segments_out ELSE <<>>
            /\ toB = <<>>
            /\ abort = FALSE

Dead == tcp.fault # "none" \/ own.pc = "killed"

-----------------------------------------------------------------------------
(* The TCP thread.                                                         *)

(* A round that has begun is finished.                                     *)
InLoop ==
    /\ ~Dead
    /\ \/ tcp.pc = "running"
       \/ tcp.pc = "opening" /\ (Opening(tcp, own.role) \/ Pending(tcp.loop) # {})
Polling == InLoop /\ Pending(tcp.loop) = {}

(* Set-up: rule 2 is cancelled once _thread_data is at eof, which the      *)
(* interest of the rules after it already sees.                            *)
tcp_defunct == IF tcp.eof THEN {2} \cap tcp.loop.rules ELSE {}
SetUpTcp ==
    LET t == IF tcp_defunct # {} THEN cancel(tcp, 2) ELSE tcp
    IN  [t EXCEPT !.loop = SetUp(@, tcp_defunct)]
InterestedTcp(t) ==
    {r \in t.loop.rules : IF r = 1 THEN interest(tcp, r) ELSE interest(t, r)}
AbleTcp ==
    {r \in 1 .. 4 :
        \/ r = 1 /\ toA # <<>>
        \/ r = 2 /\ Readable(pair.up)
        \/ r = 3 /\ Writable(pair.down)
        \/ r = 4}
HupTcp == IF HungUp(pair) THEN {2, 3} ELSE {}
PolledTcp(t) == Polled(t.loop, InterestedTcp(t), AbleTcp, HupTcp)

TcpPoll ==
    /\ Polling
    /\ \E t \in {SetUpTcp} : \E loop \in {PolledTcp(t)} :
        /\ Pending(loop) # {}
        /\ tcp' = [t EXCEPT !.loop = loop]
    /\ UNCHANGED <<pair, own, input, peer, toA, toB, abort>>

(* No rule is interested: the loop ends (an active connection always keeps *)
(* rule 1 interested, so this does not happen during the handshake).       *)
TcpExit ==
    /\ Polling
    /\ \E t \in {SetUpTcp} :
        /\ Exits(InterestedTcp(t))
        /\ tcp' = [t EXCEPT !.pc = "ending"]
    /\ UNCHANGED <<pair, own, input, peer, toA, toB, abort>>

(* t is the state after the callback (or cancellation) of the rule whose   *)
(* turn it is; after the last one the round is over.                       *)
Round(t, counted) ==
    LET r    == Turn(tcp.loop)
        loop == Handled(tcp.loop, r)
        t1   == [t EXCEPT !.loop = loop]
    IN  tcp' = CASE BusyWait(counted, interest(t, r)) /\ t.fault = "none" -> [t1 EXCEPT !.fault = "busy wait"]
                 [] Pending(loop) = {} /\ t.fault = "none" -> AfterWait(t1, abort, 0)
                 [] OTHER -> t1
Serving(r) == InLoop /\ r \in tcp.loop.ready /\ Turn(tcp.loop) = r

TcpReceive ==
    /\ Serving(1)
    /\ \E c \in {segment_received(tcp.conn, Head(toA))} : Round([tcp EXCEPT !.conn = c], TRUE)
    /\ toA' = Tail(toA)
    /\ UNCHANGED <<pair, own, input, peer, toB, abort>>

TcpRead ==
    /\ Serving(2)
    /\ \E t \in {ReadFromPipe(tcp, pair.up)} : Round(t, TRUE)
    /\ pair' = [pair EXCEPT !.up = AfterRead(@, remaining_outbound_capacity(tcp.conn))]
    /\ UNCHANGED <<own, input, peer, toA, toB, abort>>

TcpWrite ==
    /\ Serving(3)
    /\ \E t \in {WriteToPipe(tcp, pair.down)} : Round(t, TRUE)
    /\ pair' = [pair EXCEPT !.down = PipeWritten(tcp, @)]
    /\ UNCHANGED <<own, input, peer, toA, toB, abort>>

TcpSend ==
    /\ Serving(4)
    /\ Round(SendSegments(tcp), tcp.conn.segments_out # <<>>)
    /\ toB' = toB \o tcp.conn.segments_out
    /\ UNCHANGED <<pair, own, input, peer, toA, abort>>

(* The only news of the rule is a hangup.                                  *)
TcpCancel ==
    /\ InLoop /\ Pending(tcp.loop) # {} /\ Turn(tcp.loop) \in tcp.loop.hung
    /\ Round(cancel(tcp, Turn(tcp.loop)), TRUE)
    /\ UNCHANGED <<pair, own, input, peer, toA, toB, abort>>

(* _tcp_main after the loop: shutdown() of the program's end, which fails  *)
(* if that is closed, and then an exception leaves the thread; the         *)
(* connection is destructed, and the segments of its destructor with it.   *)
TcpFinish ==
    /\ ~Dead /\ tcp.pc = "ending"
    /\ IF pair.closed
       THEN tcp' = [tcp EXCEPT !.fault = "terminate"] /\ UNCHANGED pair
       ELSE tcp' = [tcp EXCEPT !.pc = "ended"] /\ pair' = ShutdownRdWr(pair)
    /\ UNCHANGED <<own, input, peer, toA, toB, abort>>

-----------------------------------------------------------------------------
(* The program.  connect() or listen_and_accept() has left its loop and    *)
(* starts the thread.                                                      *)
Opened ==
    /\ ~Dead /\ tcp.pc = "opening" /\ ~Opening(tcp, own.role) /\ Pending(tcp.loop) = {}
    /\ tcp' = [tcp EXCEPT !.pc = "running"]
    /\ own' = [own EXCEPT !.pc = own.prog]
    /\ UNCHANGED <<pair, input, peer, toA, toB, abort>>

(* bidirectional_stream_copy().                                            *)
Copying == ~Dead /\ own.prog = "copy" /\ own.pc = "copy"
CopyPolling == Copying /\ Pending(own.copy.loop) = {}

AbleCopy ==
    {r \in 1 .. 4 :
        \/ r = 1 /\ (input.left # <<>> \/ input.file)
        \/ r = 2 /\ Writable(pair.up)
        \/ r = 3 /\ Readable(pair.down)
        \/ r = 4}
HupCopy ==
    {r \in 1 .. 3 : IF r = 1 THEN input.ended /\ ~input.file ELSE HungUp(pair)}
SetUpCopy(o) ==
    LET o1 == IF 1 \in copy_defunct(o) THEN copy_cancel(o, 1) ELSE o
        o2 == IF copy_defunct(o) \cap {3, 4} # {} THEN copy_cancel(o1, 3) ELSE o1
    IN  [o2 EXCEPT !.loop = SetUp(@, copy_defunct(o))]
InterestedCopy(o) == {r \in o.loop.rules : copy_interest(o, r)}

CopyPoll ==
    /\ CopyPolling
    /\ \E o \in {SetUpCopy(own.copy)} :
       \E loop \in {Polled(o.loop, InterestedCopy(o), AbleCopy, HupCopy)} :
        /\ Pending(loop) # {}
        /\ own' = [own EXCEPT !.copy = [o EXCEPT !.loop = loop]]
    /\ UNCHANGED <<tcp, pair, input, peer, toA, toB, abort>>

CopyExit ==
    /\ CopyPolling
    /\ \E o \in {SetUpCopy(own.copy)} :
        /\ Exits(InterestedCopy(o))
        /\ own' = [own EXCEPT !.copy = o, !.pc = "wait"]
    /\ UNCHANGED <<tcp, pair, input, peer, toA, toB, abort>>

(* o is the loop's state after the callback of rule r.  Every callback     *)
(* reads or writes its descriptor, so none is a busy wait.                 *)
CopyTurn(r) == Copying /\ r \in own.copy.loop.ready /\ Turn(own.copy.loop) = r
CopyRound(o, r) == own' = [own EXCEPT !.copy = [o EXCEPT !.loop = Handled(@, r)]]

CopyReadInput ==
    LET n == MinOf(Len(input.left), remaining_capacity(own.copy.out, buffer_capacity))
    IN  /\ CopyTurn(1)
        /\ CopyRound(ReadInput(own.copy, SubSeq(input.left, 1, n), input.left = <<>>), 1)
        /\ input' = [input EXCEPT !.left = SubSeq(@, n + 1, Len(@))]
        /\ UNCHANGED <<tcp, pair, peer, toA, toB, abort>>

CopyWriteSocket ==
    /\ CopyTurn(2)
    /\ IF BrokenPipe(pair.up, ToSocket(own.copy))
       THEN own' = [own EXCEPT !.pc = "killed"] /\ UNCHANGED pair
       ELSE \E o \in {WriteSocket(own.copy, pair.up)} :
               LET up == AfterWrite(pair.up, ToSocket(own.copy))
               IN  /\ CopyRound(o, 2)
                   /\ pair' = [pair EXCEPT !.up = IF o.outbound_shutdown THEN ShutdownWr(up) ELSE up]
    /\ UNCHANGED <<tcp, input, peer, toA, toB, abort>>

CopyReadSocket ==
    /\ CopyTurn(3)
    /\ CopyRound(ReadSocket(own.copy, pair.down), 3)
    /\ pair' = [pair EXCEPT !.down = AfterRead(@, remaining_capacity(own.copy.in, buffer_capacity))]
    /\ UNCHANGED <<tcp, input, peer, toA, toB, abort>>

CopyWriteOutput ==
    /\ CopyTurn(4)
    /\ own' = [own EXCEPT
                !.copy = [WriteOutput(own.copy) EXCEPT !.loop = Handled(@, 4)],
                !.output = @ \o ToOutput(own.copy)]
    /\ UNCHANGED <<tcp, pair, input, peer, toA, toB, abort>>

CopyCancel ==
    LET r == Turn(own.copy.loop)
    IN  /\ Copying /\ Pending(own.copy.loop) # {} /\ r \in own.copy.loop.hung
        /\ CopyRound(copy_cancel(own.copy, r), r)
        /\ UNCHANGED <<tcp, pair, input, peer, toA, toB, abort>>

(* webget's get_URL(): blocking writes of the whole request, and reads up  *)
(* to the eof.                                                             *)
WebgetWrite ==
    /\ ~Dead /\ own.pc = "webget" /\ (Writable(pair.up) \/ own.rest = <<>> \/ pair.up.shut)
    /\ own' = CASE BrokenPipe(pair.up, own.rest) -> [own EXCEPT !.pc = "killed"]
                 [] own.rest = <<>> -> [own EXCEPT !.pc = "fetch"]
                 [] OTHER -> [own EXCEPT !.rest = SubSeq(@, BytesWritten(pair.up, @) + 1, Len(@))]
    /\ pair' = [pair EXCEPT !.up = IF @.shut THEN @ ELSE AfterWrite(@, own.rest)]
    /\ UNCHANGED <<tcp, input, peer, toA, toB, abort>>

WebgetRead ==
    /\ ~Dead /\ own.pc = "fetch" /\ Readable(pair.down)
    /\ own' = [own EXCEPT
                !.output = @ \o DataRead(pair.down, pair_capacity),
                !.pc = IF ReadSetsEof(pair.down, pair_capacity) THEN "close" ELSE @]
    /\ pair' = [pair EXCEPT !.down = AfterRead(@, pair_capacity)]
    /\ UNCHANGED <<tcp, input, peer, toA, toB, abort>>

WebgetClose ==
    /\ ~Dead /\ own.pc = "close"
    /\ own' = [own EXCEPT !.pc = "wait"]
    /\ pair' = Close(pair)
    /\ UNCHANGED <<tcp, input, peer, toA, toB, abort>>

(* wait_until_closed(): shutdown(), which throws if the descriptor is      *)
(* closed, then join().                                                    *)
Wait ==
    /\ ~Dead /\ own.pc = "wait"
    /\ own' = [own EXCEPT !.pc = IF pair.closed THEN "unwind" ELSE "join"]
    /\ pair' = IF pair.closed THEN pair ELSE ShutdownRdWr(pair)
    /\ UNCHANGED <<tcp, input, peer, toA, toB, abort>>

(* ~TCPSpongeSocket() of a socket whose thread was not joined.             *)
Destruct ==
    /\ ~Dead /\ own.pc \in {"leave", "unwind"}
    /\ own' = [own EXCEPT !.pc = IF own.pc = "unwind" THEN "unwind_join" ELSE "join"]
    /\ abort' = TRUE
    /\ UNCHANGED <<tcp, pair, input, peer, toA, toB>>

Joined ==
    /\ ~Dead /\ own.pc \in {"join", "unwind_join"} /\ tcp.pc = "ended"
    /\ own' = [own EXCEPT !.pc = IF own.pc = "join" THEN "done" ELSE "failed"]
    /\ UNCHANGED <<tcp, pair, input, peer, toA, toB, abort>>

-----------------------------------------------------------------------------
(* Time passes for TCP only while nobody has anything else to do.          *)
TcpBlocked ==
    \/ tcp.pc = "ended"
    \/ /\ Polling
       /\ \E t \in {SetUpTcp} : ~Exits(InterestedTcp(t)) /\ Pending(PolledTcp(t)) = {}
OwnBlocked ==
    \/ own.pc \in {"done", "failed"}
    \/ own.pc \in {"join", "unwind_join"} /\ tcp.pc # "ended"
    \/ own.pc = "opening" /\ InLoop
    \/ own.pc = "webget" /\ own.rest # <<>> /\ ~Writable(pair.up) /\ ~pair.up.shut
    \/ own.pc = "fetch" /\ ~Readable(pair.down)
    \/ /\ CopyPolling
       /\ \E o \in {SetUpCopy(own.copy)} :
            /\ ~Exits(InterestedCopy(o))
            /\ Pending(Polled(o.loop, InterestedCopy(o), AbleCopy, HupCopy)) = {}
Settled == ~Dead /\ toA = <<>> /\ toB = <<>> /\ TcpBlocked /\ OwnBlocked

(* poll() times out, or returns at once because a descriptor nobody is     *)
(* interested in has hung up; either way no rule is called.                *)
TcpIdle ==
    /\ Polling /\ TcpBlocked /\ (Settled \/ abort)
    /\ \E t \in {SetUpTcp} : tcp' = AfterWait(t, abort, 1)
    /\ UNCHANGED <<pair, own, input, peer, toA, toB, abort>>

-----------------------------------------------------------------------------
(* The user at the input, and the peer, which reads what it gets at once.  *)
UserEnds ==
    /\ own.prog = "copy" /\ ~input.ended
    /\ input' = [input EXCEPT !.ended = TRUE]
    /\ UNCHANGED <<tcp, pair, own, peer, toA, toB, abort>>

PeerCall(result) ==
    \E c \in {result} :
        /\ peer' = [peer EXCEPT
                        !.conn = [c EXCEPT !.segments_out = <<>>,
                                           !.receiver.reassembler.output = pop_output(@, buffer_size(@))],
                        !.read = @ \o inbound(c).buf]
        /\ toA' = toA \o c.segments_out
        /\ UNCHANGED <<tcp, pair, own, input, abort>>

PeerReceive ==
    /\ toB # <<>> /\ toB' = Tail(toB)
    /\ PeerCall(IF peer.conn.active THEN segment_received(peer.conn, Head(toB)) ELSE peer.conn)

PeerOpen == peer.conn.active /\ has_ackno(peer.conn.receiver) /\ ~input_ended(outbound(peer.conn))

PeerWrite ==
    LET n == bytes_written(outbound(peer.conn))
    IN  /\ PeerOpen /\ n < PeerBytes /\ remaining_outbound_capacity(peer.conn) > 0
        /\ PeerCall(write_outbound(peer.conn, SubSeq(PeerStream, n + 1, PeerBytes)))
        /\ UNCHANGED toB

PeerEnd ==
    /\ PeerOpen
    /\ PeerCall(end_input_stream(peer.conn))
    /\ UNCHANGED toB

PeerTick ==
    /\ Settled /\ peer.conn.active
    /\ PeerCall(tick_connection(peer.conn, 1))
    /\ UNCHANGED toB

PeerReset ==
    /\ MayReset /\ peer.conn.active /\ has_ackno(peer.conn.receiver)
    /\ peer' = [peer EXCEPT !.conn = reset(@), !.reset = TRUE]
    /\ toA' = Append(toA, [DefaultSegment EXCEPT !.rst = TRUE])
    /\ UNCHANGED <<tcp, pair, own, input, toB, abort>>

-----------------------------------------------------------------------------
Thread ==
    TcpPoll \/ TcpExit \/ TcpReceive \/ TcpRead \/ TcpWrite \/ TcpSend \/ TcpCancel \/ TcpIdle \/ TcpFinish
Owner ==
    \/ Opened \/ CopyPoll \/ CopyExit \/ CopyReadInput \/ CopyWriteSocket \/ CopyReadSocket
    \/ CopyWriteOutput \/ CopyCancel \/ WebgetWrite \/ WebgetRead \/ WebgetClose
    \/ Wait \/ Destruct \/ Joined
Next ==
    Thread \/ Owner \/ UserEnds \/ PeerReceive \/ PeerWrite \/ PeerEnd \/ PeerTick \/ PeerReset

Spec == Init /\ [][Next]_vars

(* Whether there is work: for a thread, the network or a timer.  As long   *)
(* as there is, some of it is done, no matter which (weak fairness of      *)
(* Work, its enabling condition written out because TLC is slow to find    *)
(* it), and the user and the peer end their streams at some time.          *)
Busy ==
    /\ ~Dead
    /\ \/ ~TcpBlocked \/ ~OwnBlocked \/ toB # <<>>
       \/ Polling /\ (abort \/ (Settled /\ AfterWait(SetUpTcp, FALSE, 1) # tcp))
       \/ Settled /\ tick_connection(peer.conn, 1) # peer.conn
Work == Thread \/ Owner \/ PeerReceive \/ PeerTick
FairSpec ==
    /\ Spec
    /\ <>[]Busy => []<><<Work>>_vars
    /\ <>[]PeerOpen => []<><<PeerEnd>>_vars
    /\ WF_vars(UserEnds)

-----------------------------------------------------------------------------
(* Properties.                                                             *)

WrittenByPeer == SubSeq(PeerStream, 1, bytes_written(outbound(peer.conn)))

(* Every byte goes through two event loops, two byte streams, the socket   *)
(* pair and TCP, in pieces of any size, and comes out once and in order;   *)
(* when the program is done and nobody reset the connection, all of it has *)
(* arrived, in both directions (tcp_sponge_socket.cc:94-151,               *)
(* bidirectional_stream_copy.cc:28-83).                                    *)
CopiedIntact ==
    /\ IsPrefix(own.output, WrittenByPeer)
    /\ IsPrefix(peer.read, InputStream)
    /\ own.prog = "copy" /\ own.pc = "done" /\ ~peer.reset =>
            own.output = WrittenByPeer /\ peer.read = InputStream

(* Neither thread is killed by a broken pipe, a busy wait or an exception  *)
(* that nobody catches, whatever the order of the ends of the two streams, *)
(* the shutdowns from both sides of the socket pair and the destruction of *)
(* the socket, unless the peer resets the connection or the program closes *)
(* the descriptor under the thread (webget.cc:28).                         *)
NoFault == Dead => peer.reset \/ own.prog = "webget"

(* The program comes to its end: its copy loop returns once both streams   *)
(* have ended, and the thread that wait_until_closed() or the destructor   *)
(* joins ends (tcp_sponge_socket.cc:186 and 198).                          *)
Finishes == <>(own.pc \in {"done", "failed"} \/ Dead)

(* "Close socket, and wait for TCPConnection to finish"                    *)
(* (tcp_sponge_socket.hh:64): a program that calls wait_until_closed()     *)
(* gets past it.                                                           *)
WaitReturns == own.pc = "wait" ~> own.pc = "done"
=============================================================================
