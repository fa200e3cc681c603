-------------------------- MODULE NetworkInterface --------------------------
(***************************************************************************)
(* libsponge/network_interface.{hh,cc} and its asynchronous wrapper in     *)
(* router.hh: an interface as a record of the members, its methods as      *)
(* operators on that record.  Serialised datagrams and ARP messages are    *)
(* the records themselves; a std::map is a function on its set of keys.    *)
(***************************************************************************)
EXTENDS Integers, Sequences, FiniteSets, Functions

CONSTANTS
    MSG_EXPIRY,         \* 5000 ms: a request is not repeated before
    ENTRY_EXPIRY,       \* 30000 ms: a mapping is not used longer
    ETHERNET_BROADCAST,         \* the destination of a request
    ARPMSG_ETHERNET_BROADCAST   \* the address a request asks for

ASSUME InterfaceAssumption == MSG_EXPIRY \in Nat /\ ENTRY_EXPIRY \in Nat

EmptyMap == [x \in {} |-> 0]

NewInterface(eth, ip) ==
    [ethernet_address |-> eth,
     ip_address       |-> ip,
     frames_out       |-> <<>>,
     forwarding_table |-> EmptyMap,     \* IP address -> Entry
     outstanding_msg  |-> EmptyMap,     \* IP address -> ms since the request
     unsent_datagrams |-> EmptyMap,     \* IP address -> queue of datagrams
     datagrams_out    |-> <<>>]         \* AsyncNetworkInterface

(* std::map: insert() leaves an entry that exists alone, [] = does not.    *)
insert(m, k, v) == [x \in DOMAIN m \cup {k} |-> IF x \in DOMAIN m THEN m[x] ELSE v]
assign(m, k, v) == [x \in DOMAIN m \cup {k} |-> IF x = k THEN v ELSE m[x]]
erase(m, k) == Restrict(m, DOMAIN m \ {k})

Frame(i, type, dst, payload) ==
    [type |-> type, src |-> i.ethernet_address, dst |-> dst, payload |-> payload]
ARPMessage(i, opcode, target_eth, target_ip) ==
    [opcode |-> opcode,
     sender_ethernet_address |-> i.ethernet_address, sender_ip_address |-> i.ip_address,
     target_ethernet_address |-> target_eth, target_ip_address |-> target_ip]
Request(i, ip) ==
    Frame(i, "ARP", ETHERNET_BROADCAST, ARPMessage(i, "request", ARPMSG_ETHERNET_BROADCAST, ip))
Reply(i, msg) ==
    Frame(i, "ARP", msg.sender_ethernet_address,
          ARPMessage(i, "reply", msg.sender_ethernet_address, msg.sender_ip_address))

Queue(i, ip) == IF ip \in DOMAIN i.unsent_datagrams THEN i.unsent_datagrams[ip] ELSE <<>>

-----------------------------------------------------------------------------
(* Mutant: a request under way does not keep back the next one.            *)
send_datagram_asks_again(i, dgram, next_hop) ==
    IF next_hop \in DOMAIN i.forwarding_table
    THEN [i EXCEPT !.frames_out =
            Append(@, Frame(i, "IPv4", i.forwarding_table[next_hop].eth_addr, dgram))]
    ELSE [i EXCEPT
            !.unsent_datagrams = assign(@, next_hop, Append(Queue(i, next_hop), dgram)),
            !.outstanding_msg  = insert(@, next_hop, 0),
            !.frames_out       = Append(@, Request(i, next_hop))]

send_datagram(i, dgram, next_hop) ==
    IF next_hop \in DOMAIN i.forwarding_table
    THEN [i EXCEPT !.frames_out =
            Append(@, Frame(i, "IPv4", i.forwarding_table[next_hop].eth_addr, dgram))]
    ELSE [i EXCEPT
            !.unsent_datagrams = assign(@, next_hop, Append(Queue(i, next_hop), dgram)),
            !.outstanding_msg  = insert(@, next_hop, 0),
            !.frames_out       = IF next_hop \in DOMAIN i.outstanding_msg
                                 THEN @ ELSE Append(@, Request(i, next_hop))]

-----------------------------------------------------------------------------
(* Mutant: broadcasts are for nobody.                                      *)
Heeds_own(i, frame) ==
    /\ frame.dst = i.ethernet_address
    /\ frame.type = "ARP" => frame.payload.target_ip_address = i.ip_address

(* recv_frame() ignores what is for another address.                       *)
Heeds(i, frame) ==
    /\ frame.dst \in {i.ethernet_address, ETHERNET_BROADCAST}
    /\ frame.type = "ARP" => frame.payload.target_ip_address = i.ip_address

Learn(i, msg) ==
    [i EXCEPT !.forwarding_table =
        insert(@, msg.sender_ip_address,
               [eth_addr |-> msg.sender_ethernet_address, time_elapsed |-> 0])]

(* The interface after send_datagram() of each datagram of a queue.        *)
SendAll(i, queue, ip) ==
    LET After[n \in 0 .. Len(queue)] ==
            IF n = 0 THEN i ELSE send_datagram(After[n - 1], queue[n], ip)
    IN  After[Len(queue)]

(* Mutant: what waits is sent and waits on.                                *)
SendWaiting_keep(i, ip) == SendAll(i, Queue(i, ip), ip)

SendWaiting(i, ip) ==
    IF ip \in DOMAIN i.unsent_datagrams
    THEN [SendAll(i, Queue(i, ip), ip) EXCEPT !.unsent_datagrams = assign(@, ip, <<>>)]
    ELSE i

(* Mutant: the sender of a request is learned, what waits for it waits on. *)
recv_arp_replies_only(i, msg) ==
    LET ip == msg.sender_ip_address
    IN  IF msg.opcode = "request"
        THEN [Learn(i, msg) EXCEPT !.frames_out = Append(@, Reply(i, msg))]
        ELSE [SendWaiting(Learn(i, msg), ip) EXCEPT !.outstanding_msg = erase(@, ip)]

recv_arp(i, msg) ==
    LET ip == msg.sender_ip_address
        j  == SendWaiting(Learn(i, msg), ip)
    IN  IF msg.opcode = "request"
        THEN [j EXCEPT !.frames_out = Append(@, Reply(i, msg))]
        ELSE [j EXCEPT !.outstanding_msg = erase(@, ip)]

recv_frame(i, frame) ==
    CASE ~Heeds(i, frame) -> i
      [] Heeds(i, frame) /\ frame.type = "IPv4" ->
            [i EXCEPT !.datagrams_out = Append(@, frame.payload)]
      [] Heeds(i, frame) /\ frame.type = "ARP" -> recv_arp(i, frame.payload)

-----------------------------------------------------------------------------
(* The keys that stay, of a map to the times elapsed.                      *)
Kept(elapsed, ms, expiry) == {k \in DOMAIN elapsed : elapsed[k] + ms <= expiry}

Older(entry, ms) == [entry EXCEPT !.time_elapsed = @ + ms]

tick_interface(i, ms) ==
    LET age     == [ip \in DOMAIN i.forwarding_table |-> i.forwarding_table[ip].time_elapsed]
        Entries == Kept(age, ms, ENTRY_EXPIRY)
        Asked   == Kept(i.outstanding_msg, ms, MSG_EXPIRY)
    IN  [i EXCEPT
            !.forwarding_table = [ip \in Entries |-> Older(i.forwarding_table[ip], ms)],
            !.outstanding_msg  = [ip \in Asked |-> i.outstanding_msg[ip] + ms]]
=============================================================================
