-------------------------- MODULE MCRoutedNetwork --------------------------
(***************************************************************************)
(* One host and the router on LAN 1; the router, a host and a gateway to   *)
(* everywhere else on LAN 2.  Addresses have three bits.                   *)
(***************************************************************************)
EXTENDS RoutedNetwork

MCHost == {"a", "b", "g"}
MCPort == <<"r1", "r2">>
MCIpOf == [a |-> 1, r1 |-> 0, r2 |-> 4, b |-> 5, g |-> 6]
MCLanOf == [a |-> 1, r1 |-> 1, r2 |-> 2, b |-> 2, g |-> 2]
MCGateway == [a |-> 0, b |-> 4, g |-> 4]

(* The default route, the two networks, the second given with bits beyond  *)
(* its prefix, and a second route for it by the gateway.                   *)
MCRoutes == {
    [prefix |-> 0, length |-> 0, next_hop |-> 6, interface |-> 2],
    [prefix |-> 0, length |-> 2, next_hop |-> Direct, interface |-> 1],
    [prefix |-> 5, length |-> 2, next_hop |-> Direct, interface |-> 2],
    [prefix |-> 4, length |-> 2, next_hop |-> 6, interface |-> 2]}

(* From a to the other network, and through the router back to a.  The    *)
(* second one may have no hop left when it comes to the router.            *)
MCDatagrams == {
    [id |-> 1, from |-> "a", dst |-> 5, ttl |-> 2],
    [id |-> 2, from |-> "a", dst |-> 1, ttl |-> 2],
    [id |-> 2, from |-> "a", dst |-> 1, ttl |-> 1]}
=============================================================================
