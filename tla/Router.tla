------------------------------- MODULE Router -------------------------------
(***************************************************************************)
(* libsponge/router.{hh,cc}: interfaces and a table of routes by prefix    *)
(* length and prefix.  Addresses have AddrBits bits, 32 in the code.       *)
(***************************************************************************)
EXTENDS NetworkInterface

CONSTANT AddrBits

ASSUME RouterAssumption == AddrBits \in Nat \ {0}

Addr == 0 .. 2^AddrBits - 1

NewRouter(interfaces) == [interfaces |-> interfaces, routing_table |-> EmptyMap]

(* addr & get_mask(prefix_len)                                             *)
Masked(addr, prefix_len) ==
    IF prefix_len = 0 \/ prefix_len > AddrBits
    THEN 0
    ELSE addr - (addr % 2^(AddrBits - prefix_len))

Direct == -1    \* no next hop: the network is attached

add_route(r, route_prefix, prefix_length, next_hop, interface_num) ==
    LET same == IF prefix_length \in DOMAIN r.routing_table
                THEN r.routing_table[prefix_length] ELSE EmptyMap
        out  == [next_hop |-> next_hop, interface_num |-> interface_num]
    IN  [r EXCEPT !.routing_table =
            assign(@, prefix_length, insert(same, Masked(route_prefix, prefix_length), out))]

(* The lengths under which dst is found; the loop stops at the longest.    *)
MatchingLengths(r, dst) ==
    {n \in DOMAIN r.routing_table : Masked(dst, n) \in DOMAIN r.routing_table[n]}

(* Mutant: the shortest prefix that matches wins.                          *)
Lookup_shortest(r, dst) ==
    LET len == CHOOSE n \in MatchingLengths(r, dst) : \A k \in MatchingLengths(r, dst) : n <= k
    IN  r.routing_table[len][Masked(dst, len)]

Lookup(r, dst) ==
    LET len == CHOOSE n \in MatchingLengths(r, dst) : \A k \in MatchingLengths(r, dst) : n >= k
    IN  r.routing_table[len][Masked(dst, len)]

route_one_datagram(r, dgram) ==
    IF MatchingLengths(r, dgram.dst) = {} \/ dgram.ttl <= 1
    THEN r
    ELSE LET out    == Lookup(r, dgram.dst)
             hop    == IF out.next_hop = Direct THEN dgram.dst ELSE out.next_hop
             onward == [dgram EXCEPT !.ttl = @ - 1]
         IN  [r EXCEPT !.interfaces[out.interface_num] = send_datagram(@, onward, hop)]

(* The router after route_one_datagram() of each datagram of a queue.      *)
RouteAll(r, queue) ==
    LET After[k \in 0 .. Len(queue)] ==
            IF k = 0 THEN r ELSE route_one_datagram(After[k - 1], queue[k])
    IN  After[Len(queue)]

(* Routing puts nothing into datagrams_out, so the queue of an interface   *)
(* is what it was when route() was called.                                 *)
RouteQueue(r, n) ==
    [RouteAll(r, r.interfaces[n].datagrams_out) EXCEPT !.interfaces[n].datagrams_out = <<>>]

route(r) ==
    LET After[n \in 0 .. Len(r.interfaces)] ==
            IF n = 0 THEN r ELSE RouteQueue(After[n - 1], n)
    IN  After[Len(r.interfaces)]
=============================================================================
