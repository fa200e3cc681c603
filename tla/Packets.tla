------------------------------ MODULE Packets ------------------------------
(***************************************************************************)
(* The wire formats, libsponge/tcp_helpers/{tcp_header, tcp_segment,       *)
(* ipv4_header, ipv4_datagram, ethernet_header, ethernet_frame,            *)
(* arp_message}.cc: what parse() makes of octets, and serialize() of the   *)
(* fields.  The callers of IPv4Header::parse, TCPHeader::parse and         *)
(* EthernetHeader::parse drop their results, so only the fields and the    *)
(* parser they leave behind are here.  A CASE with one arm stands where    *)
(* the code throws otherwise.                                              *)
(***************************************************************************)
EXTENDS Wire

flag(octets, k) == (octets \div 2 ^ k) % 2 = 1
bit(b, k) == IF b THEN 2 ^ k ELSE 0

-----------------------------------------------------------------------------
(* TCPHeader and TCPSegment.                                               *)
TCPHeader ==
    [sport |-> 0, dport |-> 0, seqno |-> <<0, 0>>, ackno |-> <<0, 0>>, doff |-> 5,
     urg |-> FALSE, ack |-> FALSE, psh |-> FALSE, rst |-> FALSE, syn |-> FALSE, fin |-> FALSE,
     win |-> 0, cksum |-> 0, uptr |-> 0]

parse_tcp_header(p) ==
    LET flags == field(p, 13, 1)
        doff  == field(p, 12, 1) \div 16
        rest  == remove_prefix(p, 20)
    IN  [header |-> [sport |-> field(p, 0, 2), dport |-> field(p, 2, 2),
                     seqno |-> field(p, 4, 4), ackno |-> field(p, 8, 4), doff |-> doff,
                     urg |-> flag(flags, 5), ack |-> flag(flags, 4), psh |-> flag(flags, 3),
                     rst |-> flag(flags, 2), syn |-> flag(flags, 1), fin |-> flag(flags, 0),
                     win |-> field(p, 14, 2), cksum |-> field(p, 16, 2), uptr |-> field(p, 18, 2)],
         parser |-> IF doff < 5 THEN rest ELSE remove_prefix(rest, doff * 4 - 20)]

serialize_tcp_header(h) ==
    CASE h.doff >= 5 ->
    u16(h.sport) \o u16(h.dport) \o u32(h.seqno) \o u32(h.ackno) \o u8(h.doff * 16)
    \o u8(bit(h.urg, 5) + bit(h.ack, 4) + bit(h.psh, 3) + bit(h.rst, 2) + bit(h.syn, 1) + bit(h.fin, 0))
    \o u16(h.win) \o u16(h.cksum) \o u16(h.uptr) \o Zeros(4 * h.doff - 20)

(* Mutant: the checksum is not looked at.                                  *)
parse_segment_unchecked(buffer, pseudo) ==
    LET r == parse_tcp_header(NetParser(buffer))
    IN  [result |-> r.parser.error, header |-> r.header, payload |-> r.parser.buffer]

parse_segment(buffer, pseudo) ==
    LET r == parse_tcp_header(NetParser(buffer))
    IN  IF value(add(InternetChecksum(pseudo), buffer)) # 0
        THEN [result |-> "BadChecksum", header |-> TCPHeader, payload |-> <<>>]
        ELSE [result |-> r.parser.error, header |-> r.header, payload |-> r.parser.buffer]

serialize_segment(seg, pseudo) ==
    LET zero  == [seg.header EXCEPT !.cksum = 0]
        check == add(add(InternetChecksum(pseudo), serialize_tcp_header(zero)), seg.payload)
    IN  append(<<serialize_tcp_header([zero EXCEPT !.cksum = value(check)])>>, <<seg.payload>>)

-----------------------------------------------------------------------------
(* IPv4Header and IPv4Datagram.                                            *)
PROTO_TCP == 6

IPv4Header ==
    [ver |-> 4, hlen |-> 5, tos |-> 0, len |-> 0, id |-> 0, df |-> TRUE, mf |-> FALSE, offset |-> 0,
     ttl |-> 128, proto |-> PROTO_TCP, cksum |-> 0, src |-> <<0, 0>>, dst |-> <<0, 0>>]

(* A buffer that is too short leaves the header as it was.                 *)
parse_ipv4_header(p) ==
    LET data_size == Len(p.buffer)
        first     == field(p, 0, 1)
        fo_val    == field(p, 6, 2)
        rest      == remove_prefix(p, 20)
        h == [ver |-> first \div 16, hlen |-> first % 16, tos |-> field(p, 1, 1), len |-> field(p, 2, 2),
              id |-> field(p, 4, 2), df |-> flag(fo_val, 14), mf |-> flag(fo_val, 13),
              offset |-> fo_val % 2 ^ 13, ttl |-> field(p, 8, 1), proto |-> field(p, 9, 1),
              cksum |-> field(p, 10, 2), src |-> field(p, 12, 4), dst |-> field(p, 16, 4)]
        sound == data_size >= 4 * h.hlen /\ h.ver = 4 /\ h.hlen >= 5 /\ data_size = h.len
    IN  IF data_size < 20 THEN [header |-> IPv4Header, parser |-> p]
        ELSE [header |-> h, parser |-> IF sound THEN remove_prefix(rest, h.hlen * 4 - 20) ELSE rest]

serialize_ipv4_header(h) ==
    CASE h.ver = 4 /\ h.hlen >= 5 ->
    u8(h.ver * 16 + h.hlen) \o u8(h.tos) \o u16(h.len) \o u16(h.id)
    \o u16(bit(h.df, 14) + bit(h.mf, 13) + h.offset) \o u8(h.ttl) \o u8(h.proto)
    \o u16(h.cksum) \o u32(h.src) \o u32(h.dst) \o Zeros(4 * h.hlen - 20)

payload_length(h) == (h.len - 4 * h.hlen) % U16
pseudo_cksum(h) == h.src[1] + h.src[2] + h.dst[1] + h.dst[2] + h.proto + payload_length(h)

parse_datagram(buffer) ==
    LET r == parse_ipv4_header(NetParser(buffer))
    IN  [result  |-> IF Len(r.parser.buffer) # payload_length(r.header) THEN "PacketTooShort"
                     ELSE r.parser.error,
         header  |-> r.header,
         payload |-> <<r.parser.buffer>>]

serialize_datagram(dgram) ==
    LET zero  == [dgram.header EXCEPT !.cksum = 0]
        check == add(InternetChecksum(0), serialize_ipv4_header(zero))
    IN  CASE size(dgram.payload) = payload_length(dgram.header) ->
        append(<<serialize_ipv4_header([zero EXCEPT !.cksum = value(check)])>>, dgram.payload)

-----------------------------------------------------------------------------
(* EthernetFrame: header and payload; and ARPMessage.                      *)
TYPE_IPv4 == 2048
TYPE_ARP == 2054

parse_frame(buffer) ==
    LET p == NetParser(buffer)
    IN  IF Len(buffer) < 14
        THEN [dst |-> Zeros(6), src |-> Zeros(6), type |-> 0, payload |-> buffer]
        ELSE [dst |-> field(p, 0, 6), src |-> field(p, 6, 6), type |-> field(p, 12, 2),
              payload |-> remove_prefix(p, 14).buffer]

serialize_frame(frame) == append(<<frame.dst \o frame.src \o u16(frame.type)>>, frame.payload)

supported(m) ==
    /\ m.hardware_type = 1 /\ m.protocol_type = TYPE_IPv4
    /\ m.hardware_address_size = 6 /\ m.protocol_address_size = 4
    /\ m.opcode \in {1, 2}

parse_arp(buffer) ==
    LET p == NetParser(buffer)
        m == [hardware_type |-> field(p, 0, 2), protocol_type |-> field(p, 2, 2),
              hardware_address_size |-> field(p, 4, 1), protocol_address_size |-> field(p, 5, 1),
              opcode |-> field(p, 6, 2),
              sender_ethernet_address |-> field(p, 8, 6), sender_ip_address |-> field(p, 14, 4),
              target_ethernet_address |-> field(p, 18, 6), target_ip_address |-> field(p, 24, 4)]
    IN  [result  |-> IF Len(buffer) < 28 THEN "PacketTooShort"
                     ELSE IF supported(m) THEN "NoError" ELSE "Unsupported",
         message |-> m]

serialize_arp(m) ==
    CASE supported(m) ->
    u16(m.hardware_type) \o u16(m.protocol_type) \o u8(m.hardware_address_size)
    \o u8(m.protocol_address_size) \o u16(m.opcode)
    \o m.sender_ethernet_address \o u32(m.sender_ip_address)
    \o m.target_ethernet_address \o u32(m.target_ip_address)
=============================================================================
