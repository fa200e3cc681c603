----------------------------- MODULE AdapterSpec -----------------------------
(***************************************************************************)
(* A server and two clients that write segments to, and read packets from, *)
(* one kind of descriptor, each through its adapter.  The network between  *)
(* them loses, repeats and damages packets.  On "tun" and "udp" the server *)
(* listens, as `tcp_ipv4 -l' and `tcp_udp -l' do, and the clients compete; *)
(* on "tap", where the program is a client only, there are two ends that   *)
(* are each other's next hop.                                              *)
(***************************************************************************)
EXTENDS Adapters, FiniteSets

CONSTANT MaxWaiting         \* bound: datagrams a tap end may have waiting for ARP

ASSUME AdapterAssumption == MaxWaiting \in Nat \ {0}

VARIABLES
    adapter,    \* End -> its adapter
    wire,       \* the packets of the last end that wrote any; each may still be
                \* read any number of times, or never
    peer,       \* ghost: End -> the end it is connected to
    read        \* ghost: the last read since a packet was written
vars == <<adapter, wire, peer, read>>

End == {"server", "client", "rival"}
NoOne == "none"
NotRead == [reader |-> NoOne]

-----------------------------------------------------------------------------
(* The addresses, and what is sent: sequence numbers at the wrap, an odd   *)
(* payload with octets of all zeros and all ones.                          *)
ServerIp == <<43137, 2305>>
ClientIp == <<43137, 2308>>
RivalIp  == <<43137, 2320>>
At(ip, port) == [ip |-> ip, port |-> port]
ServerAddress == At(ServerIp, 9090)
ClientAddress == At(ClientIp, 40961)

Plain == [TCPHeader EXCEPT !.seqno = <<65535, 65535>>, !.ackno = <<0, 1>>, !.win = 64000, !.ack = TRUE]
Segments ==
    {[header |-> [Plain EXCEPT !.syn = TRUE, !.ack = FALSE], payload |-> <<>>],
     [header |-> [Plain EXCEPT !.seqno = <<0, 0>>, !.psh = TRUE, !.fin = TRUE], payload |-> <<0, 255, 87>>],
     [header |-> [Plain EXCEPT !.rst = TRUE], payload |-> <<>>],
     [header |-> [Plain EXCEPT !.syn = TRUE, !.rst = TRUE], payload |-> <<>>]}

(* The adapter of the tap looks at no flag: two of them will do there.     *)
Written(medium) ==
    IF medium = "tap" THEN {seg \in Segments : ~seg.header.rst} ELSE Segments

NoInterface == NewInterface(Zeros(6), <<0, 0>>)
Eth(e) == IF e = "server" THEN <<2, 0, 0, 94, 0, 1>> ELSE <<2, 0, 0, 94, 0, 2>>
Config(a, source, destination) == [a EXCEPT !.source = source, !.destination = destination]

(* On udp the sockets have addresses; a client's own is not in its config. *)
UdpEnds(rival) ==
    LET Socket(address) == NewAdapter("udp", address, NoInterface, <<0, 0>>)
    IN  [e \in End |->
            CASE e = "server" -> [Config(Socket(ServerAddress), At(<<0, 0>>, 9090), NoAddress)
                                    EXCEPT !.listening = TRUE]
              [] e = "client" -> Config(Socket(ClientAddress), NoAddress, ServerAddress)
              [] e = "rival"  -> Config(Socket(rival), NoAddress, ServerAddress)]

(* On tun the server takes any of its addresses for its own; the rival may *)
(* want another port of it.                                                *)
TunEnds(rival, port) ==
    LET Device == NewAdapter("tun", NoAddress, NoInterface, <<0, 0>>)
    IN  [e \in End |->
            CASE e = "server" -> [Config(Device, At(<<0, 0>>, 9090), NoAddress)
                                    EXCEPT !.listening = TRUE]
              [] e = "client" -> Config(Device, ClientAddress, ServerAddress)
              [] e = "rival"  -> Config(Device, rival, At(ServerIp, port))]

TapEnds ==
    LET Device(e, ip, next) == NewAdapter("tap", NoAddress, NewInterface(Eth(e), ip), next)
    IN  [e \in {"server", "client"} |->
            IF e = "server"
            THEN Config(Device(e, ServerIp, ClientIp), ServerAddress, ClientAddress)
            ELSE Config(Device(e, ClientIp, ServerIp), ClientAddress, ServerAddress)]

Rivals == {At(ClientIp, 40962), At(RivalIp, 40961)}
Wants(e) == IF adapter[e].destination = ServerAddress THEN "server" ELSE NoOne

Init ==
    /\ \/ \E rival \in Rivals : adapter = UdpEnds(rival)
       \/ \E rival \in Rivals, port \in {9090, 9091} : adapter = TunEnds(rival, port)
       \/ adapter = TapEnds
    /\ wire = IF adapter = TapEnds
              THEN {[packet |-> dummy_frame, sender |-> e, to |-> NoOne, seg |-> <<>>] : e \in DOMAIN TapEnds}
              ELSE {}
    /\ peer = [e \in DOMAIN adapter |->
                IF e # "server" THEN Wants(e) ELSE IF adapter = TapEnds THEN "client" ELSE NoOne]
    /\ read = NotRead

-----------------------------------------------------------------------------
(* A frame of the tap is known by the datagram after its header to carry   *)
(* the segment that datagram was made of, or none.                         *)
Carried(e, packet, written) ==
    LET dgram(seg) == concatenate(serialize_datagram(wrap_tcp_in_ip(adapter[e], seg)))
        made == {seg \in Written("tap") : dgram(seg) = SubSeq(packet.octets, 15, Len(packet.octets))}
    IN  IF adapter[e].medium # "tap" THEN <<written>>
        ELSE SetToSeq({Addressed(adapter[e], seg) : seg \in made})

Emitted(e, out, written) ==
    {[packet |-> out[k], sender |-> e, to |-> peer[e], seg |-> Carried(e, out[k], written)] : k \in DOMAIN out}

(* The owner of the adapter writes a segment; a listening server has none. *)
Write(e) ==
    /\ ~adapter[e].listening
    /\ adapter[e].medium = "tap" =>
           Len(Queue(adapter[e].interface, adapter[e].next_hop)) < MaxWaiting
    /\ \E seg \in Written(adapter[e].medium), drop \in {FALSE, Lossy(adapter[e])} :
         \E r \in {write_adapter(adapter[e], seg, drop)} :
            /\ adapter' = [adapter EXCEPT ![e] = r.adapter]
            /\ wire' = IF r.out = <<>> THEN wire ELSE Emitted(e, r.out, Addressed(adapter[e], seg))
            /\ read' = NotRead
            /\ UNCHANGED peer

(* One bit of a packet flips, or its end is lost.                          *)
Flipped(octets, i, k) ==
    [octets EXCEPT ![i] = IF flag(@, k) THEN @ - 2 ^ k ELSE @ + 2 ^ k]
Damaged(packet, medium) ==
    {[packet EXCEPT !.octets = Flipped(@, i, k)] : i \in DOMAIN packet.octets, k \in 0 .. 7}
    \cup (IF medium = "udp" THEN {}
          ELSE {[packet EXCEPT !.octets = SubSeq(@, 1, n)] : n \in 0 .. Len(packet.octets) - 1})

(* The host's UDP delivers to the socket that was addressed; tun and tap   *)
(* show an end all that others write.                                      *)
Reaches(p, e) ==
    p.sender # e /\ (adapter[e].medium = "udp" => p.packet.destination = adapter[e].socket)

ReadPacket(e, p, packet, drop) ==
    \E r \in {read_adapter(adapter[e], packet, drop)} :
        /\ adapter' = [adapter EXCEPT ![e] = r.adapter]
        /\ wire' = IF r.out = <<>> THEN wire ELSE Emitted(e, r.out, <<>>)
        /\ peer' = [peer EXCEPT ![e] =
                        IF adapter[e].listening /\ ~r.adapter.listening THEN p.sender ELSE @]
        /\ read' = [reader |-> e, sender |-> p.sender, to |-> p.to, sent |-> p.seg,
                    damaged |-> packet # p.packet, drop |-> drop, was |-> peer[e],
                    result |-> r.segment]

Read(e) ==
    \E p \in wire, drop \in {FALSE, Lossy(adapter[e])} :
        Reaches(p, e) /\ ReadPacket(e, p, p.packet, drop)

(* Of the messages on the wire only ARP's have no checksum of their own:   *)
(* the packets that carry a segment are damaged.  To bound the search, the *)
(* damage is done to the first read after a write.                         *)
ReadDamaged(e) ==
    /\ read = NotRead
    /\ \E p \in wire :
         /\ Reaches(p, e) /\ p.seg # <<>>
         /\ \E packet \in Damaged(p.packet, adapter[e].medium) : ReadPacket(e, p, packet, FALSE)

(* The loop of TCPSpongeSocket tells the adapter that time has passed.     *)
Tick(e) ==
    /\ adapter[e].medium = "tap"
    /\ \E r \in {tick_adapter(adapter[e], 1)} :
        /\ adapter' = [adapter EXCEPT ![e] = r.adapter]
        /\ wire' = IF r.out = <<>> THEN wire ELSE Emitted(e, r.out, <<>>)
    /\ read' = NotRead
    /\ UNCHANGED peer

Next == \E e \in DOMAIN adapter : Write(e) \/ Read(e) \/ ReadDamaged(e) \/ Tick(e)
Spec == Init /\ [][Next]_vars

-----------------------------------------------------------------------------
Unsealed(segment) == [k \in DOMAIN segment |-> [segment[k] EXCEPT !.header.cksum = 0]]
HandedUp == read # NotRead /\ read.result # <<>>

(* A packet that was damaged on its way is dropped, or was hit where it    *)
(* does not matter and gives the very segment that was written: the        *)
(* checksums and lengths make up for the header checks whose results       *)
(* IPv4Datagram::parse and TCPSegment::parse drop (ipv4_datagram.cc:13,    *)
(* tcp_segment.cc:20).                                                     *)
DamageHarmless ==
    (HandedUp /\ read.damaged) => Unsealed(read.result) = read.sent

(* An intact segment of the end we are connected to, or the clean SYN that *)
(* a listening server waits for, is handed up as it was written, unless    *)
(* the lossy adapter drops it; also when it dropped the SYN that ended the *)
(* listening (lossy_fd_adapter.hh:43), and when the server was bound to    *)
(* any address (tcp_over_ip.cc:57).                                        *)
PeerHeard ==
    (/\ read # NotRead /\ read.sent # <<>> /\ ~read.damaged /\ ~read.drop
     /\ read.to = read.reader
     /\ read.was = read.sender \/ (read.was = NoOne /\ Opens(read.sent[1])))
    => Unsealed(read.result) = read.sent

(* What is handed up comes from the one end this one is connected to, was  *)
(* meant for it, and the first of it opens the connection: nobody else is  *)
(* heard once a server has chosen, whatever ports and addresses they use.  *)
OnePeer ==
    HandedUp =>
        /\ read.sender = peer[read.reader] /\ read.to = read.reader
        /\ read.was = NoOne => Opens(read.result[1])
=============================================================================
