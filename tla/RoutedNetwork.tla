--------------------------- MODULE RoutedNetwork ---------------------------
(***************************************************************************)
(* Hosts and a Router on some LANs (apps/network_simulator.cc, lab7.cc).   *)
(* What an interface has in frames_out goes to everybody else on its LAN,  *)
(* in any order and with any delay.  The network may lose or repeat        *)
(* MaxFaults frames.  A router routes after every frame it receives.       *)
(***************************************************************************)
EXTENDS Router

CONSTANTS
    Host,           \* names of the hosts
    Port,           \* the names of the router's interfaces, a sequence
    IpOf,           \* the IP address of each of them
    LanOf,          \* the LAN each of them is on
    Gateway,        \* a host's next hop for everything it sends
    Routes,         \* what add_route() is called with
    Datagrams,      \* bound: what the hosts may send, each id at most once
    MaxFaults       \* bound: frames lost or repeated

(* The interfaces have names of their own, and hosts send datagrams.       *)
ASSUME NetworkAssumption ==
    /\ Port \in Seq(Range(Port)) /\ Host \cap Range(Port) = {}
    /\ \A m, n \in DOMAIN Port : Port[m] = Port[n] => m = n
    /\ \A d \in Datagrams : d.from \in Host

(* A mapping is kept for at least as long as a request counts.             *)
ASSUME ExpiryAssumption == MSG_EXPIRY <= ENTRY_EXPIRY

VARIABLES
    host,       \* the hosts' interfaces; what arrived stays in datagrams_out
    router,
    configured, \* the routes that were added
    standing,   \* of these, the ones that were the first for their prefix
    wire,       \* the copies of frames on their way
    sent,       \* the datagrams that were sent
    recent,     \* the requests of the last MSG_EXPIRY ms: who asked for what how long ago
    early,      \* was a request repeated within MSG_EXPIRY?
    faults

vars == <<host, router, configured, standing, wire, sent, recent, early, faults>>

Interface == Host \cup Range(Port)
Neighbours(x) == {y \in Interface \ {x} : LanOf[y] = LanOf[x]}
PortNo(x) == CHOOSE n \in DOMAIN Port : Port[n] = x
Members(x) == IF x \in Host THEN host[x] ELSE router.interfaces[PortNo(x)]

Init ==
    /\ host = [h \in Host |-> NewInterface(h, IpOf[h])]
    /\ router = NewRouter([n \in DOMAIN Port |-> NewInterface(Port[n], IpOf[Port[n]])])
    /\ configured = {}
    /\ standing = {}
    /\ wire = {}
    /\ sent = {}
    /\ recent = {}
    /\ early = FALSE
    /\ faults = 0

-----------------------------------------------------------------------------
IsRequest(frame) == frame.type = "ARP" /\ frame.payload.opcode = "request"

(* The wire takes the frames_out of some interfaces: out[x] is what x has  *)
(* to send.  A copy that its receiver ignores makes no difference whenever *)
(* it comes, and is left out.                                              *)
Emit(out, left) ==
    LET Heard(x) == {c \in [to : Neighbours(x), frame : Range(out[x])] :
                        Heeds(Members(c.to), c.frame)}
        Asked(x) == {[by |-> x, ip |-> f.payload.target_ip_address, ms |-> 0] :
                        f \in {g \in Range(out[x]) : IsRequest(g)}}
        AskedNow == UNION {Asked(x) : x \in DOMAIN out}
    IN  /\ wire' = left \cup UNION {Heard(x) : x \in DOMAIN out}
        /\ early' = (early \/ \E q \in AskedNow, p \in recent : q.by = p.by /\ q.ip = p.ip)
        /\ recent' = recent \cup AskedNow

Taken(i) == [i EXCEPT !.frames_out = <<>>]

HostCall(h, result, left) ==
    \E i \in {result} :
        /\ host' = [host EXCEPT ![h] = Taken(i)]
        /\ Emit([x \in {h} |-> i.frames_out], left)
        /\ UNCHANGED <<router, configured, standing>>

RouterCall(result, left) ==
    \E r \in {result} :
        /\ router' = [r EXCEPT !.interfaces = [n \in DOMAIN Port |-> Taken(r.interfaces[n])]]
        /\ Emit([x \in Range(Port) |-> r.interfaces[PortNo(x)].frames_out], left)
        /\ UNCHANGED <<host, configured, standing>>

Covers(rt, dst) ==
    LET block == 2^(AddrBits - rt.length) IN rt.prefix \div block = dst \div block
SamePrefix(rt, other) == rt.length = other.length /\ Covers(rt, other.prefix)

(* A router is set up before anything is sent.                             *)
AddRoute ==
    \E rt \in Routes \ configured :
        /\ sent = {}
        /\ router' = add_route(router, rt.prefix, rt.length, rt.next_hop, rt.interface)
        /\ configured' = configured \cup {rt}
        /\ standing' = IF \E other \in standing : SamePrefix(rt, other)
                       THEN standing ELSE standing \cup {rt}
        /\ UNCHANGED <<host, wire, sent, recent, early, faults>>

SendDatagram ==
    \E d \in Datagrams :
        /\ configured = Routes
        /\ \A other \in sent : other.id # d.id
        /\ sent' = sent \cup {d}
        /\ HostCall(d.from, send_datagram(host[d.from], [id |-> d.id, dst |-> d.dst, ttl |-> d.ttl],
                                          Gateway[d.from]), wire)
        /\ UNCHANGED faults

(* c reaches its interface, and may arrive again if left holds it still.   *)
Receive(c, left) ==
    \/ /\ c.to \in Host
       /\ HostCall(c.to, recv_frame(host[c.to], c.frame), left)
    \/ /\ c.to \notin Host
       /\ LET r == [router EXCEPT !.interfaces[PortNo(c.to)] = recv_frame(@, c.frame)]
          IN  RouterCall(route(r), left)

Deliver == \E c \in wire : Receive(c, wire \ {c}) /\ UNCHANGED <<sent, faults>>

Repeat ==
    /\ faults < MaxFaults /\ faults' = faults + 1
    /\ \E c \in wire : Receive(c, wire)
    /\ UNCHANGED sent

Lose ==
    /\ faults < MaxFaults /\ faults' = faults + 1
    /\ \E c \in wire : wire' = wire \ {c}
    /\ UNCHANGED <<host, router, configured, standing, sent, recent, early>>

(* Time passes everywhere: all owners call tick().                         *)
Tick ==
    /\ host' = [h \in Host |-> tick_interface(host[h], 1)]
    /\ router' = [router EXCEPT !.interfaces =
                    [n \in DOMAIN Port |-> tick_interface(router.interfaces[n], 1)]]
    /\ recent' = {[q EXCEPT !.ms = @ + 1] : q \in {p \in recent : p.ms < MSG_EXPIRY}}
    /\ UNCHANGED <<configured, standing, wire, sent, early, faults>>

Next ==
    \/ AddRoute
    \/ SendDatagram
    \/ Deliver
    \/ Repeat
    \/ Lose
    \/ Tick

Spec == Init /\ [][Next]_vars

-----------------------------------------------------------------------------
(* Properties.                                                             *)

(* The route for an address, from the list of routes alone: the longest    *)
(* prefix, and of two for one prefix the one that was added first.         *)
BestRoute(dst) ==
    CHOOSE rt \in standing :
        Covers(rt, dst) /\ \A other \in standing : Covers(other, dst) => other.length <= rt.length
NextHop(dst) ==
    IF BestRoute(dst).next_hop = Direct THEN dst ELSE BestRoute(dst).next_hop

(* The router drops what has no hop left.                                  *)
Expires(d) == d.ttl <= 1

(* Where copies of a datagram are: waiting for an address, on the way to   *)
(* the interface they are for, or received.                                *)
Found(id, queue) == {k \in DOMAIN queue : queue[k].id = id}
Waiting(id) ==
    UNION {{p} \X Found(id, Queue(Members(p[1]), p[2])) :
              p \in UNION {{x} \X (DOMAIN Members(x).unsent_datagrams) : x \in Interface}}
Travelling(id) ==
    {c \in wire : c.frame.type = "IPv4" /\ c.frame.payload.id = id}
Received(id) == UNION {{h} \X Found(id, host[h].datagrams_out) : h \in Host}
Copies(id) == Cardinality(Waiting(id)) + Cardinality(Travelling(id)) + Cardinality(Received(id))

(* Interfaces and the router neither lose nor multiply datagrams, whatever *)
(* arrives and expires while they wait (network_interface.cc:52-62,        *)
(* 119-127): without faults of the network there is one copy of each.      *)
OneCopy ==
    \A d \in sent :
        /\ Copies(d.id) <= 1 + faults
        /\ faults = 0 /\ ~Expires(d) => Copies(d.id) = 1

(* A datagram never waits for an address that is known: it would wait      *)
(* until somebody else asks, and later ones would overtake it.             *)
KnownMeansSent ==
    \A x \in Interface : \A ip \in DOMAIN Members(x).forwarding_table : Queue(Members(x), ip) = <<>>

(* A request goes out "unless we already did in the last 5 sec"            *)
(* (network_interface.cc:53): two requests of an interface for an address  *)
(* are more than MSG_EXPIRY apart, also when a reply ended the first one   *)
(* and the mapping has expired again.                                      *)
RequestsSpaced == ~early

(* What the router sends on waits at the interface and for the hop of the  *)
(* longest prefix that covers its destination, of two routes for it the    *)
(* one added first, and a host receives only what was meant for it and has *)
(* passed the router once (router.cc:32,36-58).                            *)
RightNextHop ==
    \A d \in sent :
        LET best == BestRoute(d.dst)
        IN  /\ \A w \in Waiting(d.id) :
                  w[1][1] \in Range(Port) =>
                      w[1] = <<Port[best.interface], NextHop(d.dst)>>
            /\ \A a \in Received(d.id) :
                  /\ IpOf[a[1]] = NextHop(d.dst)
                  /\ host[a[1]].datagrams_out[a[2]].ttl = d.ttl - 1

(* No datagram is left behind: when nothing is on its way any more, every *)
(* one with a hop left has arrived, however often addresses expired in the *)
(* meantime.  (Time alone makes nobody send: what still waits then would   *)
(* wait until another datagram comes, as it does when a request is lost.)  *)
NoneLeftBehind ==
    wire = {} /\ faults = 0 => \A d \in sent : Expires(d) \/ Received(d.id) # {}
=============================================================================
