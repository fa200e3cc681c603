------------------------------ MODULE Adapters ------------------------------
(***************************************************************************)
(* The datagram adapters between a TCPConnection and the host:             *)
(* tcp_helpers/{fd_adapter, tcp_over_ip, tuntap_adapter, lossy_fd_adapter} *)
(* carry segments in UDP payloads ("udp"), IPv4 datagrams ("tun") or       *)
(* Ethernet frames ("tap").  An adapter is a record of the members; an     *)
(* operation gives [adapter, out, segment]: the adapter it leaves, the     *)
(* packets it writes to the descriptor and the optional segment it         *)
(* returns, as a sequence of none or one.  An Address is [ip, port]; going *)
(* through inet_ntoa() keeps the numeric address.                          *)
(***************************************************************************)
EXTENDS Packets, NetworkInterface

NoAddress == [ip |-> <<0, 0>>, port |-> 0]

(* _should_drop() is the dice of a LossyFdAdapter; there is none for tap.  *)
Lossy(a) == a.medium # "tap"

(* FdAdapterBase; `socket' is the address the host gave the UDP socket.    *)
NewAdapter(medium, socket, interface, next_hop) ==
    [medium |-> medium, source |-> NoAddress, destination |-> NoAddress, listening |-> FALSE,
     socket |-> socket, interface |-> interface, next_hop |-> next_hop]

Nothing(a) == [adapter |-> a, out |-> <<>>, segment |-> <<>>]
HandUp(a, seg) == [adapter |-> a, out |-> <<>>, segment |-> <<seg>>]

Opens(seg) == seg.header.syn /\ ~seg.header.rst
Addressed(a, seg) ==
    [seg EXCEPT !.header.sport = a.source.port, !.header.dport = a.destination.port]
(* The element of a set of one: it names the result of a step.             *)
The(S) == CHOOSE x \in S : TRUE
Parsed(r) == [header |-> r.header, payload |-> r.payload]

-----------------------------------------------------------------------------
(* TCPOverIPv4Adapter.                                                     *)
Follow(a, dgram, seg) ==
    [a EXCEPT !.source.ip = dgram.header.dst,
              !.destination = [ip |-> dgram.header.src, port |-> seg.header.sport],
              !.listening = FALSE]

(* Mutant: the address that was contacted is not taken for our own.        *)
unwrap_tcp_in_ip_unbound(a, dgram) ==
    LET h      == dgram.header
        r      == parse_segment(as_buffer(dgram.payload), pseudo_cksum(h))
        b      == IF a.listening THEN [Follow(a, dgram, r) EXCEPT !.source = a.source] ELSE a
        Unread == \/ ~a.listening /\ (h.dst # a.source.ip \/ h.src # a.destination.ip)
                  \/ h.proto # PROTO_TCP \/ r.result # "NoError"
                  \/ r.header.dport # a.source.port
                  \/ a.listening /\ ~Opens(r)
    IN  IF Unread THEN Nothing(a)
        ELSE IF r.header.sport # b.destination.port THEN Nothing(b) ELSE HandUp(b, Parsed(r))

unwrap_tcp_in_ip(a, dgram) ==
    LET h      == dgram.header
        r      == parse_segment(as_buffer(dgram.payload), pseudo_cksum(h))
        b      == IF a.listening THEN Follow(a, dgram, r) ELSE a
        Unread == \/ ~a.listening /\ (h.dst # a.source.ip \/ h.src # a.destination.ip)
                  \/ h.proto # PROTO_TCP \/ r.result # "NoError"
                  \/ r.header.dport # a.source.port
                  \/ a.listening /\ ~Opens(r)
    IN  IF Unread THEN Nothing(a)
        ELSE IF r.header.sport # b.destination.port THEN Nothing(b) ELSE HandUp(b, Parsed(r))

wrap_tcp_in_ip(a, segment) ==
    LET seg == Addressed(a, segment)
        h   == [IPv4Header EXCEPT !.src = a.source.ip, !.dst = a.destination.ip,
                    !.len = (5 * 4 + seg.header.doff * 4 + Len(seg.payload)) % U16]
    IN  [header |-> h, payload |-> serialize_segment(seg, pseudo_cksum(h))]

-----------------------------------------------------------------------------
(* TCPOverUDPSocketAdapter, on a UDPSocket whose sendto() and recv() keep  *)
(* the boundaries of the datagrams and tell where they come from.          *)

(* Mutant: once connected, it reads what anyone sends.                     *)
read_udp_anyone(a, packet) ==
    LET r == parse_segment(packet.octets, 0)
        b == [a EXCEPT !.destination = packet.source, !.listening = FALSE]
    IN  IF r.result # "NoError" THEN Nothing(a)
        ELSE IF ~a.listening THEN HandUp(a, Parsed(r))
        ELSE IF Opens(r) THEN HandUp(b, Parsed(r)) ELSE Nothing(a)

read_udp(a, packet) ==
    LET r == parse_segment(packet.octets, 0)
        b == [a EXCEPT !.destination = packet.source, !.listening = FALSE]
    IN  IF ~a.listening /\ packet.source # a.destination THEN Nothing(a)
        ELSE IF r.result # "NoError" THEN Nothing(a)
        ELSE IF ~a.listening THEN HandUp(a, Parsed(r))
        ELSE IF Opens(r) THEN HandUp(b, Parsed(r)) ELSE Nothing(a)

sendto(a, destination, payload) ==
    [source |-> a.socket, destination |-> destination, octets |-> concatenate(payload)]
write_udp(a, seg) ==
    [Nothing(a) EXCEPT !.out = <<sendto(a, a.destination, serialize_segment(Addressed(a, seg), 0))>>]

-----------------------------------------------------------------------------
(* TCPOverIPv4OverTunFdAdapter.                                            *)
read_tun(a, packet) ==
    The({IF r.result # "NoError" THEN Nothing(a) ELSE unwrap_tcp_in_ip(a, Parsed(r)) :
            r \in {parse_datagram(packet.octets)}})
write_tun(a, seg) ==
    [Nothing(a) EXCEPT
        !.out = <<[octets |-> concatenate(serialize_datagram(wrap_tcp_in_ip(a, seg)))]>>]

-----------------------------------------------------------------------------
(* TCPOverIPv4OverEthernetAdapter.  The NetworkInterface works on the      *)
(* records of frames and messages; here they meet their octets.            *)
arp_out(m) ==
    [hardware_type |-> 1, protocol_type |-> TYPE_IPv4,
     hardware_address_size |-> 6, protocol_address_size |-> 4,
     opcode |-> IF m.opcode = "request" THEN 1 ELSE 2,
     sender_ethernet_address |-> m.sender_ethernet_address, sender_ip_address |-> m.sender_ip_address,
     target_ethernet_address |-> m.target_ethernet_address, target_ip_address |-> m.target_ip_address]
arp_in(m) ==
    [opcode |-> IF m.opcode = 1 THEN "request" ELSE "reply",
     sender_ethernet_address |-> m.sender_ethernet_address, sender_ip_address |-> m.sender_ip_address,
     target_ethernet_address |-> m.target_ethernet_address, target_ip_address |-> m.target_ip_address]

frame_out(f) ==
    concatenate(serialize_frame(
        [dst |-> f.dst, src |-> f.src,
         type |-> IF f.type = "IPv4" THEN TYPE_IPv4 ELSE TYPE_ARP,
         payload |-> IF f.type = "IPv4" THEN serialize_datagram(f.payload)
                                        ELSE <<serialize_arp(arp_out(f.payload))>>]))

(* The frames recv_frame() does anything with.                             *)
frame_in(octets) ==
    LET f == parse_frame(octets)
        d == parse_datagram(f.payload)
        m == parse_arp(f.payload)
        Of(type, payload) == <<[type |-> type, src |-> f.src, dst |-> f.dst, payload |-> payload]>>
    IN  CASE f.type = TYPE_IPv4 /\ d.result = "NoError" -> Of("IPv4", Parsed(d))
          [] f.type = TYPE_ARP /\ m.result = "NoError" -> Of("ARP", arp_in(m.message))
          [] OTHER -> <<>>

(* What the constructor writes before anything else.                       *)
dummy_frame == [octets |-> concatenate(serialize_frame(
                  [dst |-> Zeros(6), src |-> Zeros(6), type |-> 0, payload |-> <<>>]))]

send_pending(a) ==
    [Nothing([a EXCEPT !.interface.frames_out = <<>>]) EXCEPT
        !.out = [k \in DOMAIN a.interface.frames_out |->
                    [octets |-> frame_out(a.interface.frames_out[k])]]]

recv_octets(a, octets) ==
    The({IF frame = <<>> THEN a.interface ELSE recv_frame(a.interface, frame[1]) :
            frame \in {frame_in(octets)}})

(* The interface that has heard the frame has the datagram it carried.     *)
read_heard(a, heard) ==
    LET idle == [heard EXCEPT !.datagrams_out = <<>>, !.frames_out = <<>>]
        out  == send_pending([a EXCEPT !.interface = heard]).out
        b    == [a EXCEPT !.interface = idle]
    IN  IF heard.datagrams_out = <<>> THEN [Nothing(b) EXCEPT !.out = out]
        ELSE [unwrap_tcp_in_ip(b, Last(heard.datagrams_out)) EXCEPT !.out = out]

read_tap(a, packet) == The({read_heard(a, heard) : heard \in {recv_octets(a, packet.octets)}})

write_tap(a, seg) ==
    send_pending([a EXCEPT !.interface = send_datagram(@, wrap_tcp_in_ip(a, seg), a.next_hop)])

(* Only this adapter does anything when time passes.                       *)
tick_adapter(a, ms) == send_pending([a EXCEPT !.interface = tick_interface(@, ms)])

-----------------------------------------------------------------------------
(* LossyFdAdapter: a read is dropped after the adapter below has done it.  *)
read_adapter(a, packet, drop) ==
    LET r == CASE a.medium = "udp" -> read_udp(a, packet)
               [] a.medium = "tun" -> read_tun(a, packet)
               [] a.medium = "tap" -> read_tap(a, packet)
    IN  IF drop THEN [r EXCEPT !.segment = <<>>] ELSE r

write_adapter(a, seg, drop) ==
    CASE drop -> Nothing(a)
      [] ~drop /\ a.medium = "udp" -> write_udp(a, seg)
      [] ~drop /\ a.medium = "tun" -> write_tun(a, seg)
      [] ~drop /\ a.medium = "tap" -> write_tap(a, seg)
=============================================================================
