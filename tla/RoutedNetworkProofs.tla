------------------------ MODULE RoutedNetworkProofs ------------------------
(***************************************************************************)
(* The interfaces of any number of hosts and routers' ports, with any      *)
(* routes, datagrams and faults of the network: a datagram never waits for *)
(* a known address, and requests are spaced.                               *)
(*                                                                         *)
(* Both are proved call by call.  The argument for the second: of an       *)
(* address that an interface has asked for within MSG_EXPIRY it remembers  *)
(* either the request or the mapping, and neither is older than the        *)
(* request (Known).  A reply erases the request only where it leaves a     *)
(* mapping, which insert() may have found there, but then it was learned   *)
(* after the request went out.                                             *)
(***************************************************************************)
EXTENDS RoutedNetwork, WellFoundedInduction, TLAPS

IsList(s) == Len(s) \in Nat /\ s = [k \in 1 .. Len(s) |-> s[k]]
IsFrame(f) == f.type \in {"IPv4", "ARP"}
IsEntry(t) == t = [eth_addr |-> t.eth_addr, time_elapsed |-> t.time_elapsed] /\ t.time_elapsed \in Nat

(* An interface and its members: frames, mappings, requests, queues and    *)
(* datagrams.                                                              *)
Is(i, eth, ip, f, t, m, u, d) ==
    i = [ethernet_address |-> eth, ip_address |-> ip, frames_out |-> f, forwarding_table |-> t,
         outstanding_msg |-> m, unsent_datagrams |-> u, datagrams_out |-> d]
Typed(f, t, m, u, d) ==
    /\ IsList(f) /\ IsList(d)
    /\ \A ip \in DOMAIN u : IsList(u[ip])
    /\ \A ip \in DOMAIN t : IsEntry(t[ip])
    /\ \A ip \in DOMAIN m : m[ip] \in Nat
    /\ \A x \in Range(f) : IsFrame(x)

(* Nothing waits for a known address, but for those of X.                  *)
WaitsFor(u, ip) == IF ip \in DOMAIN u THEN u[ip] ELSE <<>>
NoneWaits(t, u, X) == \A ip \in DOMAIN t \ X : WaitsFor(u, ip) = <<>>

(* A mapping that was learned while a request stood is younger than it.    *)
Younger(t, m) == \A ip \in DOMAIN t \cap DOMAIN m : t[ip].time_elapsed <= m[ip]

(* A request for ip is remembered, or ip known, since ms or less.          *)
Known(t, m, ip, ms) ==
    \/ ip \in DOMAIN m /\ m[ip] <= ms
    \/ ip \in DOMAIN t /\ t[ip].time_elapsed <= ms

(* A are the requests made before this call; those made by it are in f.    *)
Remembers(t, m, A) == \A q \in A : q.ms \in Nat /\ Known(t, m, q.ip, q.ms)
Target(x) == x.payload.target_ip_address
AsksNew(f, t, m, A) ==
    \A x \in Range(f) : IsRequest(x) => Known(t, m, Target(x), 0) /\ \A q \in A : q.ip # Target(x)

Orderly(f, t, m, u, d, X, A) ==
    /\ Typed(f, t, m, u, d)
    /\ NoneWaits(t, u, X)
    /\ Younger(t, m)
    /\ Remembers(t, m, A)
    /\ AsksNew(f, t, m, A)
Works(i, X, A) ==
    /\ Is(i, i.ethernet_address, i.ip_address, i.frames_out, i.forwarding_table,
          i.outstanding_msg, i.unsent_datagrams, i.datagrams_out)
    /\ Orderly(i.frames_out, i.forwarding_table, i.outstanding_msg, i.unsent_datagrams,
                i.datagrams_out, X, A)

Fine(i, A) == Works(i, {}, A)

(* The router's interfaces work, n with the requests A[n].                 *)
IsRouter(r) ==
    /\ r = [interfaces |-> r.interfaces, routing_table |-> r.routing_table]
    /\ r.interfaces = [n \in 1 .. Len(Port) |-> r.interfaces[n]]
RouterWorks(r, A) == IsRouter(r) /\ \A n \in 1 .. Len(Port) : Fine(r.interfaces[n], A[n])

RequestsOf(x, R) == {q \in R : q.by = x}
PortRequests(R) == [n \in 1 .. Len(Port) |-> RequestsOf(Port[n], R)]
Holds(H, r, R, W, e) ==
    /\ H = [h \in Host |-> H[h]]
    /\ \A h \in Host : Fine(H[h], RequestsOf(h, R)) /\ H[h].frames_out = <<>>
    /\ RouterWorks(r, PortRequests(R))
    /\ \A n \in 1 .. Len(Port) : r.interfaces[n].frames_out = <<>>
    /\ \A q \in R : q = [by |-> q.by, ip |-> q.ip, ms |-> q.ms]
    /\ \A c \in W : IsFrame(c.frame)
    /\ e = FALSE
IInv == Holds(host, router, recent, wire, early)


-----------------------------------------------------------------------------
(* Lists and members.                                                      *)

(* The elements of a list with one more.                                   *)
LEMMA AppendList ==
    ASSUME NEW s, NEW e, IsList(s)
    PROVE  IsList(Append(s, e)) /\ Range(Append(s, e)) = Range(s) \cup {e}
<1> DEFINE S == Range(s) \cup {e}
           n == Len(s)
<1>1. n \in Nat /\ s = [k \in 1 .. n |-> s[k]]
  BY DEF IsList
<1>2. \A k \in 1 .. n : s[k] \in S
  BY <1>1 DEF Range
<1> HIDE DEF S
<1>3. s \in Seq(S) /\ e \in S
  BY <1>1, <1>2 DEF S
<1>4. /\ Append(s, e) \in Seq(S) /\ Len(Append(s, e)) = n + 1
      /\ \A k \in 1 .. n : Append(s, e)[k] = s[k]
      /\ Append(s, e)[n + 1] = e
  BY <1>1, <1>3
<1>5. IsList(Append(s, e)) /\ DOMAIN Append(s, e) = 1 .. n + 1 /\ DOMAIN s = 1 .. n
  <2>1. ASSUME NEW w \in Seq(S)
        PROVE  Len(w) \in Nat /\ w = [k \in 1 .. Len(w) |-> w[k]] /\ DOMAIN w = 1 .. Len(w)
    OBVIOUS
  <2>2. IsList(Append(s, e)) /\ DOMAIN Append(s, e) = 1 .. Len(Append(s, e))
    BY Zenon, <1>4, <2>1 DEF IsList
  <2> QED
    BY <1>3, <1>4, <2>1, <2>2
<1>6. 1 .. n + 1 = (1 .. n) \cup {n + 1}
  BY <1>1
<1> QED
  BY <1>4, <1>5, <1>6 DEF Range

(* The empty list.                                                         *)
LEMMA NoList == IsList(<<>>) /\ Range(<<>>) = {}
BY DEF IsList, Range

(* The members of an interface.                                            *)
LEMMA Fields ==
    ASSUME NEW i, NEW eth, NEW ip, NEW f, NEW t, NEW m, NEW u, NEW d, Is(i, eth, ip, f, t, m, u, d)
    PROVE  /\ i.ethernet_address = eth /\ i.ip_address = ip /\ i.frames_out = f
           /\ i.forwarding_table = t /\ i.outstanding_msg = m
           /\ i.unsent_datagrams = u /\ i.datagrams_out = d
BY DEF Is

(* Which interface works depends on its members alone.                     *)
LEMMA WorksIs ==
    ASSUME NEW i, NEW eth, NEW ip, NEW f, NEW t, NEW m, NEW u, NEW d, Is(i, eth, ip, f, t, m, u, d),
           NEW X, NEW A
    PROVE  Works(i, X, A) <=> Orderly(f, t, m, u, d, X, A)
<1>1. /\ i.frames_out = f /\ i.forwarding_table = t /\ i.outstanding_msg = m
      /\ i.unsent_datagrams = u /\ i.datagrams_out = d
      /\ i.ethernet_address = eth /\ i.ip_address = ip
  BY Zenon, Fields
<1> QED
  BY <1>1 DEF Works

-----------------------------------------------------------------------------
(* What each piece of a call does to the members.                          *)

(* A frame that is no request.                                             *)
LEMMA FrameKeeps ==
    ASSUME NEW f, NEW t, NEW m, NEW u, NEW d, NEW X, NEW A, Orderly(f, t, m, u, d, X, A),
           NEW x, IsFrame(x), ~IsRequest(x)
    PROVE  Orderly(Append(f, x), t, m, u, d, X, A)
<1>1. IsList(Append(f, x)) /\ Range(Append(f, x)) = Range(f) \cup {x}
  BY Zenon, AppendList DEF Orderly, Typed
<1> QED
  BY Zenon, <1>1 DEF Orderly, Typed, AsksNew

(* A datagram for the owner.                                               *)
LEMMA DatagramKeeps ==
    ASSUME NEW f, NEW t, NEW m, NEW u, NEW d, NEW X, NEW A, Orderly(f, t, m, u, d, X, A), NEW x
    PROVE  Orderly(f, t, m, u, Append(d, x), X, A)
<1>1. IsList(Append(d, x))
  BY Zenon, AppendList DEF Orderly, Typed
<1> QED
  BY Zenon, <1>1 DEF Orderly, Typed

(* A datagram waits for an address that is not known.                      *)
LEMMA WaitKeeps ==
    ASSUME NEW f, NEW t, NEW m, NEW u, NEW d, NEW X, NEW A, Orderly(f, t, m, u, d, X, A),
           NEW h, h \notin DOMAIN t, NEW x
    PROVE  Orderly(f, t, m, assign(u, h, Append(WaitsFor(u, h), x)), d, X, A)
<1>1. IsList(WaitsFor(u, h))
  <2>1. ASSUME h \in DOMAIN u PROVE IsList(u[h])
    BY Zenon, <2>1 DEF Orderly, Typed
  <2> QED
    BY <2>1, NoList DEF WaitsFor
<1>2. PICK q : q = Append(WaitsFor(u, h), x) /\ IsList(q)
  BY Zenon, <1>1, AppendList
<1>3. PICK v : v = assign(u, h, q)
  OBVIOUS
<1>4. /\ DOMAIN v = DOMAIN u \cup {h} /\ v[h] = q
      /\ \A y \in DOMAIN u : y # h => v[y] = u[y]
  BY <1>3 DEF assign
<1>5. \A ip \in DOMAIN v : IsList(v[ip])
  BY Zenon, <1>2, <1>4 DEF Orderly, Typed
<1>6. NoneWaits(t, v, X)
  <2> SUFFICES ASSUME NEW ip \in DOMAIN t \ X PROVE WaitsFor(v, ip) = <<>>
    BY Zenon DEF NoneWaits
  <2>1. ip # h /\ WaitsFor(u, ip) = <<>>
    BY Zenon DEF Orderly, NoneWaits
  <2> QED
    BY Zenon, <2>1, <1>4 DEF WaitsFor
<1>7. Orderly(f, t, m, v, d, X, A)
  BY Zenon, <1>5, <1>6 DEF Orderly, Typed
<1> QED
  BY Zenon, <1>2, <1>3, <1>7

(* A request goes out, unless one is remembered.                           *)
LEMMA AskKeeps ==
    ASSUME NEW f, NEW t, NEW m, NEW u, NEW d, NEW X, NEW A, Orderly(f, t, m, u, d, X, A),
           NEW h, h \notin DOMAIN t, h \notin DOMAIN m,
           NEW x, IsFrame(x), Target(x) = h
    PROVE  Orderly(Append(f, x), t, insert(m, h, 0), u, d, X, A)
<1>1. PICK n : n = insert(m, h, 0)
  OBVIOUS
<1>2. /\ DOMAIN n = DOMAIN m \cup {h} /\ n[h] = 0
      /\ \A y \in DOMAIN m : n[y] = m[y]
  BY <1>1 DEF insert
<1>3. IsList(Append(f, x)) /\ Range(Append(f, x)) = Range(f) \cup {x}
  BY Zenon, AppendList DEF Orderly, Typed
<1>4. Typed(Append(f, x), t, n, u, d)
  <2>1. \A ip \in DOMAIN n : n[ip] \in Nat
    BY <1>2 DEF Orderly, Typed
  <2> QED
    BY Zenon, <1>3, <2>1 DEF Orderly, Typed
<1>5. Younger(t, n)
  BY Zenon, <1>2 DEF Orderly, Younger
<1>6. \A ip, ms : Known(t, m, ip, ms) => Known(t, n, ip, ms)
  BY Zenon, <1>2 DEF Known
<1>7. Remembers(t, n, A)
  BY Zenon, <1>6 DEF Orderly, Remembers
<1>8. \A q \in A : q.ip # h
  BY Zenon DEF Orderly, Remembers, Known
<1>9. Known(t, n, h, 0)
  BY <1>2 DEF Known
<1>10. AsksNew(Append(f, x), t, n, A)
  BY Zenon, <1>3, <1>6, <1>8, <1>9 DEF Orderly, AsksNew
<1>11. Orderly(Append(f, x), t, n, u, d, X, A)
  BY Zenon, <1>4, <1>5, <1>7, <1>10 DEF Orderly
<1> QED
  BY Zenon, <1>1, <1>11

(* A mapping is learned; what waits for it waits on for the moment.        *)
LEMMA LearnKeeps ==
    ASSUME NEW f, NEW t, NEW m, NEW u, NEW d, NEW A, Orderly(f, t, m, u, d, {}, A),
           NEW ip, NEW x, IsEntry(x), x.time_elapsed = 0
    PROVE  Orderly(f, insert(t, ip, x), m, u, d, {ip}, A)
<1>1. PICK v : v = insert(t, ip, x)
  OBVIOUS
<1>2. /\ DOMAIN v = DOMAIN t \cup {ip} /\ (ip \notin DOMAIN t => v[ip] = x)
      /\ \A y \in DOMAIN t : v[y] = t[y]
  BY <1>1 DEF insert
<1>3. Typed(f, v, m, u, d)
  BY Zenon, <1>2 DEF Orderly, Typed
<1>4. NoneWaits(v, u, {ip})
  BY Zenon, <1>2 DEF Orderly, NoneWaits
<1>5. Younger(v, m)
  <2> SUFFICES ASSUME NEW y \in DOMAIN v \cap DOMAIN m PROVE v[y].time_elapsed <= m[y]
    BY Zenon DEF Younger
  <2>1. CASE y \in DOMAIN t
    BY Zenon, <2>1, <1>2 DEF Orderly, Younger
  <2>2. CASE y \notin DOMAIN t
    <3>1. v[y].time_elapsed = 0
      BY Zenon, <2>2, <1>2
    <3>2. m[y] \in Nat
      BY Zenon DEF Orderly, Typed
    <3> QED
      BY <3>1, <3>2
  <2> QED
    BY <2>1, <2>2
<1>6. \A y, ms : Known(t, m, y, ms) => Known(v, m, y, ms)
  BY Zenon, <1>2 DEF Known
<1>7. Remembers(v, m, A) /\ AsksNew(f, v, m, A)
  BY Zenon, <1>6 DEF Orderly, Remembers, AsksNew
<1>8. Orderly(f, v, m, u, d, {ip}, A)
  BY Zenon, <1>3, <1>4, <1>5, <1>7 DEF Orderly
<1> QED
  BY Zenon, <1>1, <1>8

(* What waited for ip has been sent.                                       *)
LEMMA SentKeeps ==
    ASSUME NEW f, NEW t, NEW m, NEW u, NEW d, NEW A, NEW ip, Orderly(f, t, m, u, d, {ip}, A)
    PROVE  /\ Orderly(f, t, m, assign(u, ip, <<>>), d, {}, A)
           /\ ip \notin DOMAIN u => Orderly(f, t, m, u, d, {}, A)
<1>1. PICK none : none = <<>> /\ IsList(none)
  BY NoList
<1>2. PICK v : v = assign(u, ip, none)
  OBVIOUS
<1>3. /\ DOMAIN v = DOMAIN u \cup {ip} /\ v[ip] = none
      /\ \A y \in DOMAIN u : y # ip => v[y] = u[y]
  BY <1>2 DEF assign
<1>4. Typed(f, t, m, v, d)
  <2>1. \A y \in DOMAIN v : IsList(v[y])
    BY Zenon, <1>1, <1>3 DEF Orderly, Typed
  <2> QED
    BY Zenon, <2>1 DEF Orderly, Typed
<1>5. \A y \in DOMAIN t : y # ip => WaitsFor(u, y) = none
  BY Zenon, <1>1 DEF Orderly, NoneWaits
<1>6. \A y \in DOMAIN t : WaitsFor(v, y) = none
  <2> SUFFICES ASSUME NEW y \in DOMAIN t PROVE WaitsFor(v, y) = none
    OBVIOUS
  <2>1. CASE y = ip
    BY Zenon, <1>3, <2>1 DEF WaitsFor
  <2>2. CASE y # ip
    BY <1>1, <1>3, <1>5, <2>2 DEF WaitsFor
  <2> QED
    BY <2>1, <2>2
<1>7. NoneWaits(t, v, {})
  BY <1>1, <1>6 DEF NoneWaits
<1>8. Orderly(f, t, m, v, d, {}, A)
  BY Zenon, <1>4, <1>7 DEF Orderly
<1>9. ASSUME ip \notin DOMAIN u PROVE Orderly(f, t, m, u, d, {}, A)
  <2>1. WaitsFor(u, ip) = <<>>
    BY <1>9 DEF WaitsFor
  <2>2. NoneWaits(t, u, {})
    BY <1>1, <1>5, <2>1 DEF NoneWaits
  <2> QED
    BY Zenon, <2>2 DEF Orderly
<1> QED
  BY Zenon, <1>1, <1>2, <1>8, <1>9

(* A reply ends the request, of which a younger mapping remains.           *)
LEMMA ReplyKeeps ==
    ASSUME NEW f, NEW t, NEW m, NEW u, NEW d, NEW X, NEW A, Orderly(f, t, m, u, d, X, A),
           NEW ip \in DOMAIN t
    PROVE  Orderly(f, t, erase(m, ip), u, d, X, A)
<1>1. PICK n : n = erase(m, ip)
  OBVIOUS
<1>2. DOMAIN n = DOMAIN m \ {ip} /\ \A y \in DOMAIN n : n[y] = m[y]
  BY <1>1 DEF erase, Restrict
<1>3. Typed(f, t, n, u, d)
  <2>1. \A y \in DOMAIN n : n[y] \in Nat
    BY <1>2 DEF Orderly, Typed
  <2> QED
    BY Zenon, <2>1 DEF Orderly, Typed
<1>4. Younger(t, n)
  BY <1>2 DEF Orderly, Younger
<1>5. ASSUME NEW y, NEW ms \in Nat, Known(t, m, y, ms) PROVE Known(t, n, y, ms)
  <2>1. CASE y \in DOMAIN t /\ t[y].time_elapsed <= ms
    BY Zenon, <2>1 DEF Known
  <2>2. CASE y \in DOMAIN m /\ m[y] <= ms /\ y # ip
    BY <2>2, <1>2 DEF Known
  <2>3. CASE y \in DOMAIN m /\ m[y] <= ms /\ y = ip
    <3>1. t[y].time_elapsed <= m[y] /\ y \in DOMAIN t
      BY Zenon, <2>3 DEF Orderly, Younger
    <3>2. m[y] \in Nat /\ t[y].time_elapsed \in Nat
      BY Zenon, <2>3 DEF Orderly, Typed, IsEntry
    <3>3. t[y].time_elapsed <= ms
      BY <3>1, <3>2, <2>3
    <3> QED
      BY Zenon, <3>1, <3>3 DEF Known
  <2> QED
    BY Zenon, <1>5, <2>1, <2>2, <2>3 DEF Known
<1>6. Remembers(t, n, A)
  BY Zenon, <1>5 DEF Orderly, Remembers
<1>7. AsksNew(f, t, n, A)
  BY Zenon, <1>5, 0 \in Nat DEF Orderly, AsksNew
<1>8. Orderly(f, t, n, u, d, X, A)
  BY Zenon, <1>3, <1>4, <1>6, <1>7 DEF Orderly
<1> QED
  BY Zenon, <1>1, <1>8

(* The wire takes the frames: what they asked for has been asked for.      *)
LEMMA TakenKeeps ==
    ASSUME NEW f, NEW t, NEW m, NEW u, NEW d, NEW X, NEW A, Orderly(f, t, m, u, d, X, A),
           NEW B, \A q \in B : \/ q \in A
                               \/ q.ms = 0 /\ \E x \in Range(f) : IsRequest(x) /\ Target(x) = q.ip
    PROVE  Orderly(<<>>, t, m, u, d, X, B)
<1>1. PICK none : none = <<>> /\ IsList(none) /\ Range(none) = {}
  BY NoList
<1>2. Typed(none, t, m, u, d) /\ AsksNew(none, t, m, B)
  BY <1>1 DEF Orderly, Typed, AsksNew
<1>3. Remembers(t, m, B)
  <2> SUFFICES ASSUME NEW q \in B PROVE q.ms \in Nat /\ Known(t, m, q.ip, q.ms)
    BY Zenon DEF Remembers
  <2>1. CASE q \in A
    BY Zenon, <2>1 DEF Orderly, Remembers
  <2>2. CASE q.ms = 0 /\ \E x \in Range(f) : IsRequest(x) /\ Target(x) = q.ip
    <3>1. Known(t, m, q.ip, 0)
      BY Zenon, <2>2 DEF Orderly, AsksNew
    <3>2. 0 \in Nat
      OBVIOUS
    <3> QED
      BY Zenon, <2>2, <3>1, <3>2
  <2> QED
    BY <2>1, <2>2
<1>4. Orderly(none, t, m, u, d, X, B)
  BY Zenon, <1>2, <1>3 DEF Orderly
<1> QED
  BY Zenon, <1>1, <1>4

(* The mappings and requests that a tick leaves, one ms older.             *)
OlderMap(t) ==
    [ip \in {k \in DOMAIN t : t[k].time_elapsed + 1 <= ENTRY_EXPIRY} |-> Older(t[ip], 1)]
OlderRequests(m) == [ip \in {k \in DOMAIN m : m[k] + 1 <= MSG_EXPIRY} |-> m[ip] + 1]

(* Time passes: a request that still counts has left its trace.            *)
LEMMA TickKeeps ==
    ASSUME NEW t, NEW m, NEW u, NEW d, NEW A, Orderly(<<>>, t, m, u, d, {}, A),
           NEW B, \A q \in B : \E p \in A : q.ip = p.ip /\ q.ms = p.ms + 1 /\ p.ms < MSG_EXPIRY
    PROVE  Orderly(<<>>, OlderMap(t), OlderRequests(m), u, d, {}, B)
<1>1. PICK v, n : v = OlderMap(t) /\ n = OlderRequests(m)
  OBVIOUS
<1>2. \A ip \in DOMAIN t : IsEntry(t[ip]) /\ t[ip].time_elapsed \in Nat
  BY Zenon DEF Orderly, Typed, IsEntry
<1>3. \A ip \in DOMAIN m : m[ip] \in Nat
  BY Zenon DEF Orderly, Typed
<1>4. MSG_EXPIRY \in Nat /\ ENTRY_EXPIRY \in Nat /\ MSG_EXPIRY <= ENTRY_EXPIRY
  BY InterfaceAssumption, ExpiryAssumption
<1>5. ASSUME NEW x, IsEntry(x) PROVE IsEntry(Older(x, 1)) /\ Older(x, 1).time_elapsed = x.time_elapsed + 1
  <2>1. PICK a, e : x = [eth_addr |-> a, time_elapsed |-> e] /\ e \in Nat
    BY <1>5 DEF IsEntry
  <2>2. Older(x, 1) = [eth_addr |-> a, time_elapsed |-> e + 1]
    BY <2>1 DEF Older
  <2> QED
    BY <2>1, <2>2 DEF IsEntry
<1>6. /\ DOMAIN v = {k \in DOMAIN t : t[k].time_elapsed + 1 <= ENTRY_EXPIRY}
      /\ \A ip \in DOMAIN v : v[ip] = Older(t[ip], 1)
  BY <1>1 DEF OlderMap
<1>7. \A ip \in DOMAIN v : /\ ip \in DOMAIN t /\ IsEntry(v[ip])
                           /\ v[ip].time_elapsed = t[ip].time_elapsed + 1
  <2> SUFFICES ASSUME NEW ip \in DOMAIN v
               PROVE  /\ ip \in DOMAIN t /\ IsEntry(v[ip])
                      /\ v[ip].time_elapsed = t[ip].time_elapsed + 1
    OBVIOUS
  <2>1. ip \in DOMAIN t /\ v[ip] = Older(t[ip], 1)
    BY <1>6
  <2> QED
    BY Zenon, <2>1, <1>2, <1>5
<1>8. /\ DOMAIN n = {k \in DOMAIN m : m[k] + 1 <= MSG_EXPIRY}
      /\ \A ip \in DOMAIN n : ip \in DOMAIN m /\ n[ip] = m[ip] + 1
  BY <1>1 DEF OlderRequests
<1>9. PICK none : none = <<>> /\ IsList(none) /\ Range(none) = {} /\ Orderly(none, t, m, u, d, {}, A)
  BY NoList
<1>10. Typed(none, v, n, u, d) /\ AsksNew(none, v, n, B)
  <2>1. \A ip \in DOMAIN n : n[ip] \in Nat
    BY <1>3, <1>8
  <2>2. Typed(none, v, n, u, d)
    BY Zenon, <1>7, <1>9, <2>1 DEF Orderly, Typed
  <2> QED
    BY <1>9, <2>2 DEF AsksNew
<1>11. NoneWaits(v, u, {})
  BY Zenon, <1>7 DEF Orderly, NoneWaits
<1>12. Younger(v, n)
  <2> SUFFICES ASSUME NEW ip \in DOMAIN v \cap DOMAIN n PROVE v[ip].time_elapsed <= n[ip]
    BY Zenon DEF Younger
  <2>1. ip \in DOMAIN t /\ ip \in DOMAIN m
    BY <1>7, <1>8
  <2>2. t[ip].time_elapsed <= m[ip]
    BY Zenon, <2>1 DEF Orderly, Younger
  <2> QED
    BY <2>1, <2>2, <1>2, <1>3, <1>7, <1>8
<1>13. Remembers(v, n, B)
  <2> SUFFICES ASSUME NEW q \in B PROVE q.ms \in Nat /\ Known(v, n, q.ip, q.ms)
    BY Zenon DEF Remembers
  <2>1. PICK p \in A : q.ip = p.ip /\ q.ms = p.ms + 1 /\ p.ms < MSG_EXPIRY
    OBVIOUS
  <2>2. p.ms \in Nat /\ Known(t, m, q.ip, p.ms)
    BY Zenon, <2>1 DEF Orderly, Remembers
  <2>3. CASE q.ip \in DOMAIN m /\ m[q.ip] <= p.ms
    <3>1. q.ip \in DOMAIN n /\ n[q.ip] <= q.ms
      BY <2>1, <2>2, <2>3, <1>3, <1>4, <1>8
    <3> QED
      BY <2>1, <2>2, <3>1 DEF Known
  <2>4. CASE q.ip \in DOMAIN t /\ t[q.ip].time_elapsed <= p.ms
    <3>1. q.ip \in DOMAIN v
      BY <2>1, <2>2, <2>4, <1>2, <1>4, <1>6
    <3>2. v[q.ip].time_elapsed <= q.ms
      BY <2>1, <2>2, <2>4, <3>1, <1>2, <1>7
    <3> QED
      BY <2>1, <2>2, <3>1, <3>2 DEF Known
  <2> QED
    BY <2>2, <2>3, <2>4 DEF Known
<1>14. Orderly(none, v, n, u, d, {}, B)
  BY Zenon, <1>10, <1>11, <1>12, <1>13 DEF Orderly
<1> QED
  BY Zenon, <1>1, <1>9, <1>14

-----------------------------------------------------------------------------
(* The methods of an interface.                                            *)

(* send_datagram() to a known address sends one frame.                     *)
LEMMA SendKnown ==
    ASSUME NEW i, NEW eth, NEW ip, NEW f, NEW t, NEW m, NEW u, NEW d, Is(i, eth, ip, f, t, m, u, d),
           NEW x, NEW h \in DOMAIN t
    PROVE  \E g : /\ IsFrame(g) /\ ~IsRequest(g)
                  /\ Is(send_datagram(i, x, h), eth, ip, Append(f, g), t, m, u, d)
<1>1. i.frames_out = f /\ i.forwarding_table = t
  BY Zenon, Fields
<1>2. PICK g : g = Frame(i, "IPv4", t[h].eth_addr, x)
  OBVIOUS
<1>3. PICK fs : fs = Append(f, g)
  OBVIOUS
<1>4. send_datagram(i, x, h) = [i EXCEPT !.frames_out = fs]
  BY <1>1, <1>2, <1>3 DEF send_datagram
<1>5. Is(send_datagram(i, x, h), eth, ip, fs, t, m, u, d)
  BY <1>4 DEF Is
<1>6. IsFrame(g) /\ ~IsRequest(g)
  BY <1>2 DEF Frame, IsFrame, IsRequest
<1> QED
  BY Zenon, <1>3, <1>5, <1>6

(* send_datagram() works on (network_interface.cc:32-85).                  *)
LEMMA SendWorks ==
    ASSUME NEW i, NEW X, NEW A, Works(i, X, A), NEW x, NEW h
    PROVE  Works(send_datagram(i, x, h), X, A)
<1>1. PICK eth, ip, f, t, m, u, d :
        Is(i, eth, ip, f, t, m, u, d) /\ Orderly(f, t, m, u, d, X, A)
  BY Zenon DEF Works
<1>2. /\ i.frames_out = f /\ i.forwarding_table = t /\ i.outstanding_msg = m
      /\ i.unsent_datagrams = u
  BY Zenon, <1>1, Fields
<1>3. PICK j : j = send_datagram(i, x, h)
  OBVIOUS
<1>4. CASE h \in DOMAIN t
  <2>1. PICK g : IsFrame(g) /\ ~IsRequest(g) /\ Is(j, eth, ip, Append(f, g), t, m, u, d)
    BY Zenon, <1>1, <1>3, <1>4, SendKnown
  <2>2. Orderly(Append(f, g), t, m, u, d, X, A)
    BY Zenon, <1>1, <2>1, FrameKeeps
  <2> QED
    BY Zenon, <1>3, <2>1, <2>2, WorksIs
<1>5. CASE h \notin DOMAIN t
  <2>1. PICK v : v = assign(u, h, Append(WaitsFor(u, h), x)) /\ Orderly(f, t, m, v, d, X, A)
    BY Zenon, <1>1, <1>5, WaitKeeps
  <2>2. Queue(i, h) = WaitsFor(u, h)
    BY Zenon, <1>2 DEF Queue, WaitsFor
  <2>3. PICK n : n = insert(m, h, 0)
    OBVIOUS
  <2>4. CASE h \in DOMAIN m
    <3>1. j = [i EXCEPT !.unsent_datagrams = v, !.outstanding_msg = n, !.frames_out = f]
      BY Zenon, <1>2, <1>3, <1>5, <2>1, <2>2, <2>3, <2>4 DEF send_datagram
    <3>2. Is(j, eth, ip, f, t, n, v, d)
      BY <1>1, <3>1 DEF Is
    <3>3. DOMAIN n = DOMAIN m /\ \A y \in DOMAIN m : n[y] = m[y]
      BY <2>3, <2>4 DEF insert
    <3>4. Orderly(f, t, n, v, d, X, A)
      <4>1. Typed(f, t, n, v, d) /\ Younger(t, n)
        BY Zenon, <2>1, <3>3 DEF Orderly, Typed, Younger
      <4>2. \A y, ms : Known(t, m, y, ms) => Known(t, n, y, ms)
        BY Zenon, <3>3 DEF Known
      <4>3. Remembers(t, n, A) /\ AsksNew(f, t, n, A)
        BY Zenon, <2>1, <4>2 DEF Orderly, Remembers, AsksNew
      <4> QED
        BY Zenon, <2>1, <4>1, <4>3 DEF Orderly
    <3> QED
      BY Zenon, <1>3, <3>2, <3>4, WorksIs
  <2>5. CASE h \notin DOMAIN m
    <3>1. PICK g : g = Request(i, h)
      OBVIOUS
    <3>2. IsFrame(g) /\ Target(g) = h
      BY <3>1 DEF Request, Frame, ARPMessage, IsFrame, Target
    <3>3. PICK fs : fs = Append(f, g) /\ Orderly(fs, t, n, v, d, X, A)
      BY Zenon, <2>1, <2>3, <2>5, <1>5, <3>2, AskKeeps
    <3>4. j = [i EXCEPT !.unsent_datagrams = v, !.outstanding_msg = n, !.frames_out = fs]
      BY Zenon, <1>2, <1>3, <1>5, <2>1, <2>2, <2>3, <2>5, <3>1, <3>3 DEF send_datagram
    <3>5. Is(j, eth, ip, fs, t, n, v, d)
      BY <1>1, <3>4 DEF Is
    <3> QED
      BY Zenon, <1>3, <3>3, <3>5, WorksIs
  <2> QED
    BY <2>4, <2>5
<1> QED
  BY <1>4, <1>5

-----------------------------------------------------------------------------
(* The loops of SendWaiting() and route().                                 *)

(* A set that holds 0 and with a number its successor holds all of them:   *)
(* otherwise there were a least number outside.                            *)
LEMMA NatSetInduction ==
    ASSUME NEW S, 0 \in S, \A i \in Nat : i \in S => i + 1 \in S
    PROVE  Nat \subseteq S
<1> DEFINE T == Nat \ S
           R == OpToRel(<, Nat)
<1> SUFFICES ASSUME T # {} PROVE FALSE
  OBVIOUS
<1>1. IsWellFoundedOn(R, Nat)
  BY Zenon, NatLessThanWellFounded
<1>2. PICK x \in T : \A y \in T : ~(<<y, x>> \in R)
  <2> HIDE DEF R
  <2> QED
    BY Zenon, <1>1, WFMin
<1>3. \A y \in T : ~(y < x)
  BY Zenon, <1>2 DEF OpToRel
<1>4. x \in Nat /\ x # 0 /\ x - 1 \in Nat /\ x - 1 < x
  OBVIOUS
<1>5. x - 1 \in S
  BY <1>3, <1>4
<1> QED
  BY <1>4, <1>5

(* f is the function that SendAll() reads its result from.                 *)
IsSends(f, i, queue, ip, n) ==
    f = [k \in 0 .. n |-> IF k = 0 THEN i ELSE send_datagram(f[k - 1], queue[k], ip)]

(* The interface after each datagram of the queue.                         *)
LEMMA SendsExist ==
    ASSUME NEW i, NEW queue, NEW ip
    PROVE  \A n \in Nat : \E f : IsSends(f, i, queue, ip, n)
<1> DEFINE S == {n \in Nat : \E f : IsSends(f, i, queue, ip, n)}
<1>1. 0 \in S
  <2> DEFINE f == [k \in 0 .. 0 |-> i]
  <2>1. IsSends(f, i, queue, ip, 0)
    BY DEF IsSends
  <2> QED
    BY <2>1
<1>2. ASSUME NEW n \in Nat, n \in S PROVE n + 1 \in S
  <2>1. PICK f : IsSends(f, i, queue, ip, n)
    BY <1>2
  <2>2. f = [k \in 0 .. n |-> IF k = 0 THEN i ELSE send_datagram(f[k - 1], queue[k], ip)]
    BY <2>1 DEF IsSends
  <2> DEFINE g == [k \in 0 .. n + 1 |-> IF k <= n THEN f[k] ELSE send_datagram(f[n], queue[n + 1], ip)]
  <2>3. ASSUME NEW k \in 0 .. n + 1
        PROVE  g[k] = IF k = 0 THEN i ELSE send_datagram(g[k - 1], queue[k], ip)
    <3>1. CASE k = 0
      <4>1. g[0] = f[0] /\ f[0] = i
        BY <2>2
      <4> QED
        BY <3>1, <4>1
    <3>2. CASE k \in 1 .. n
      <4>1. k \in 0 .. n /\ k - 1 \in 0 .. n /\ k # 0 /\ k <= n /\ k - 1 <= n /\ k - 1 \in 0 .. n + 1
        BY <3>2
      <4>2. g[k] = f[k] /\ g[k - 1] = f[k - 1]
        BY <4>1
      <4>3. f[k] = send_datagram(f[k - 1], queue[k], ip)
        BY <2>2, <4>1
      <4> QED
        BY Zenon, <4>1, <4>2, <4>3
    <3>3. CASE k = n + 1
      <4>1. g[n + 1] = send_datagram(f[n], queue[n + 1], ip) /\ g[n] = f[n] /\ k - 1 = n /\ k # 0
        BY <3>3
      <4> QED
        BY Zenon, <3>3, <4>1
    <3> QED
      BY <3>1, <3>2, <3>3
  <2>4. IsSends(g, i, queue, ip, n + 1)
    BY <2>3 DEF IsSends
  <2> QED
    BY <2>4
<1> HIDE DEF S
<1>3. Nat \subseteq S
  BY <1>1, <1>2, NatSetInduction
<1> QED
  BY <1>3 DEF S

(* SendAll() is the last of its iterations.                                *)
LEMMA SendsLast ==
    ASSUME NEW i, NEW queue, NEW ip, Len(queue) \in Nat
    PROVE  \E f : IsSends(f, i, queue, ip, Len(queue)) /\ SendAll(i, queue, ip) = f[Len(queue)]
<1> DEFINE After[k \in 0 .. Len(queue)] ==
               IF k = 0 THEN i ELSE send_datagram(After[k - 1], queue[k], ip)
<1>1. SendAll(i, queue, ip) = After[Len(queue)]
  BY Zenon DEF SendAll
<1>2. \E f : IsSends(f, i, queue, ip, Len(queue))
  BY SendsExist
<1>3. IsSends(After, i, queue, ip, Len(queue))
  BY Zenon, <1>2 DEF IsSends
<1> QED
  BY <1>1, <1>3

(* f is the function that RouteAll() reads its result from.                *)
IsRouting(f, r, queue, n) ==
    f = [k \in 0 .. n |-> IF k = 0 THEN r ELSE route_one_datagram(f[k - 1], queue[k])]

(* The router after each datagram of the queue.                            *)
LEMMA RoutingExists ==
    ASSUME NEW r, NEW queue
    PROVE  \A n \in Nat : \E f : IsRouting(f, r, queue, n)
<1> DEFINE S == {n \in Nat : \E f : IsRouting(f, r, queue, n)}
<1>1. 0 \in S
  <2> DEFINE f == [k \in 0 .. 0 |-> r]
  <2>1. IsRouting(f, r, queue, 0)
    BY DEF IsRouting
  <2> QED
    BY <2>1
<1>2. ASSUME NEW n \in Nat, n \in S PROVE n + 1 \in S
  <2>1. PICK f : IsRouting(f, r, queue, n)
    BY <1>2
  <2>2. f = [k \in 0 .. n |-> IF k = 0 THEN r ELSE route_one_datagram(f[k - 1], queue[k])]
    BY <2>1 DEF IsRouting
  <2> DEFINE g == [k \in 0 .. n + 1 |-> IF k <= n THEN f[k] ELSE route_one_datagram(f[n], queue[n + 1])]
  <2>3. ASSUME NEW k \in 0 .. n + 1
        PROVE  g[k] = IF k = 0 THEN r ELSE route_one_datagram(g[k - 1], queue[k])
    <3>1. CASE k = 0
      <4>1. g[0] = f[0] /\ f[0] = r
        BY <2>2
      <4> QED
        BY <3>1, <4>1
    <3>2. CASE k \in 1 .. n
      <4>1. k \in 0 .. n /\ k - 1 \in 0 .. n /\ k # 0 /\ k <= n /\ k - 1 <= n /\ k - 1 \in 0 .. n + 1
        BY <3>2
      <4>2. g[k] = f[k] /\ g[k - 1] = f[k - 1]
        BY <4>1
      <4>3. f[k] = route_one_datagram(f[k - 1], queue[k])
        BY <2>2, <4>1
      <4> QED
        BY Zenon, <4>1, <4>2, <4>3
    <3>3. CASE k = n + 1
      <4>1. g[n + 1] = route_one_datagram(f[n], queue[n + 1]) /\ g[n] = f[n] /\ k - 1 = n /\ k # 0
        BY <3>3
      <4> QED
        BY Zenon, <3>3, <4>1
    <3> QED
      BY <3>1, <3>2, <3>3
  <2>4. IsRouting(g, r, queue, n + 1)
    BY <2>3 DEF IsRouting
  <2> QED
    BY <2>4
<1> HIDE DEF S
<1>3. Nat \subseteq S
  BY <1>1, <1>2, NatSetInduction
<1> QED
  BY <1>3 DEF S

(* RouteAll() is the last of its iterations.                               *)
LEMMA RoutingLast ==
    ASSUME NEW r, NEW queue, Len(queue) \in Nat
    PROVE  \E f : IsRouting(f, r, queue, Len(queue)) /\ RouteAll(r, queue) = f[Len(queue)]
<1> DEFINE After[k \in 0 .. Len(queue)] ==
               IF k = 0 THEN r ELSE route_one_datagram(After[k - 1], queue[k])
<1>1. RouteAll(r, queue) = After[Len(queue)]
  BY Zenon DEF RouteAll
<1>2. \E f : IsRouting(f, r, queue, Len(queue))
  BY RoutingExists
<1>3. IsRouting(After, r, queue, Len(queue))
  BY Zenon, <1>2 DEF IsRouting
<1> QED
  BY <1>1, <1>3

(* f is the function that route() reads its result from.                   *)
IsRounds(f, r, n) ==
    f = [k \in 0 .. n |-> IF k = 0 THEN r ELSE RouteQueue(f[k - 1], k)]

(* The router after each of its interfaces.                                *)
LEMMA RoundsExist ==
    ASSUME NEW r
    PROVE  \A n \in Nat : \E f : IsRounds(f, r, n)
<1> DEFINE S == {n \in Nat : \E f : IsRounds(f, r, n)}
<1>1. 0 \in S
  <2> DEFINE f == [k \in 0 .. 0 |-> r]
  <2>1. IsRounds(f, r, 0)
    BY DEF IsRounds
  <2> QED
    BY <2>1
<1>2. ASSUME NEW n \in Nat, n \in S PROVE n + 1 \in S
  <2>1. PICK f : IsRounds(f, r, n)
    BY <1>2
  <2>2. f = [k \in 0 .. n |-> IF k = 0 THEN r ELSE RouteQueue(f[k - 1], k)]
    BY <2>1 DEF IsRounds
  <2> DEFINE g == [k \in 0 .. n + 1 |-> IF k <= n THEN f[k] ELSE RouteQueue(f[n], n + 1)]
  <2>3. ASSUME NEW k \in 0 .. n + 1
        PROVE  g[k] = IF k = 0 THEN r ELSE RouteQueue(g[k - 1], k)
    <3>1. CASE k = 0
      <4>1. g[0] = f[0] /\ f[0] = r
        BY <2>2
      <4> QED
        BY <3>1, <4>1
    <3>2. CASE k \in 1 .. n
      <4>1. k \in 0 .. n /\ k - 1 \in 0 .. n /\ k # 0 /\ k <= n /\ k - 1 <= n /\ k - 1 \in 0 .. n + 1
        BY <3>2
      <4>2. g[k] = f[k] /\ g[k - 1] = f[k - 1]
        BY <4>1
      <4>3. f[k] = RouteQueue(f[k - 1], k)
        BY <2>2, <4>1
      <4> QED
        BY Zenon, <4>1, <4>2, <4>3
    <3>3. CASE k = n + 1
      <4>1. g[n + 1] = RouteQueue(f[n], n + 1) /\ g[n] = f[n] /\ k - 1 = n /\ k # 0
        BY <3>3
      <4> QED
        BY Zenon, <3>3, <4>1
    <3> QED
      BY <3>1, <3>2, <3>3
  <2>4. IsRounds(g, r, n + 1)
    BY <2>3 DEF IsRounds
  <2> QED
    BY <2>4
<1> HIDE DEF S
<1>3. Nat \subseteq S
  BY <1>1, <1>2, NatSetInduction
<1> QED
  BY <1>3 DEF S

(* route() is the last of its iterations.                                  *)
LEMMA RoundsLast ==
    ASSUME NEW r, Len(r.interfaces) \in Nat
    PROVE  \E f : IsRounds(f, r, Len(r.interfaces)) /\ route(r) = f[Len(r.interfaces)]
<1> DEFINE After[k \in 0 .. Len(r.interfaces)] ==
               IF k = 0 THEN r ELSE RouteQueue(After[k - 1], k)
<1>1. route(r) = After[Len(r.interfaces)]
  BY Zenon DEF route
<1>2. \E f : IsRounds(f, r, Len(r.interfaces))
  BY RoundsExist
<1>3. IsRounds(After, r, Len(r.interfaces))
  BY Zenon, <1>2 DEF IsRounds
<1> QED
  BY <1>1, <1>3

(* SendAll() to a known address only adds frames that are no requests.     *)
LEMMA SendAllKnown ==
    ASSUME NEW i, NEW eth, NEW ip, NEW f, NEW t, NEW m, NEW u, NEW d, Is(i, eth, ip, f, t, m, u, d),
           NEW X, NEW A, Orderly(f, t, m, u, d, X, A),
           NEW queue, Len(queue) \in Nat, NEW h \in DOMAIN t
    PROVE  \E g : Is(SendAll(i, queue, h), eth, ip, g, t, m, u, d) /\ Orderly(g, t, m, u, d, X, A)
<1>1. PICK a : IsSends(a, i, queue, h, Len(queue)) /\ SendAll(i, queue, h) = a[Len(queue)]
  BY Zenon, SendsLast
<1> DEFINE N == Len(queue)
           S == {k \in Nat : k <= N => \E g : Is(a[k], eth, ip, g, t, m, u, d)
                                              /\ Orderly(g, t, m, u, d, X, A)}
<1>2. 0 \in S
  <2>1. a[0] = i
    BY <1>1 DEF IsSends
  <2> QED
    BY <2>1
<1>3. ASSUME NEW k \in Nat, k \in S PROVE k + 1 \in S
  <2> SUFFICES ASSUME k + 1 <= N
               PROVE  \E g : Is(a[k + 1], eth, ip, g, t, m, u, d) /\ Orderly(g, t, m, u, d, X, A)
    OBVIOUS
  <2>1. a[k + 1] = send_datagram(a[k], queue[k + 1], h)
    BY <1>1 DEF IsSends
  <2>2. PICK g : Is(a[k], eth, ip, g, t, m, u, d) /\ Orderly(g, t, m, u, d, X, A)
    BY <1>3
  <2>3. PICK x : /\ IsFrame(x) /\ ~IsRequest(x)
                 /\ Is(send_datagram(a[k], queue[k + 1], h), eth, ip, Append(g, x), t, m, u, d)
    BY Zenon, <2>2, SendKnown
  <2>4. Orderly(Append(g, x), t, m, u, d, X, A)
    BY Zenon, <2>2, <2>3, FrameKeeps
  <2> QED
    BY Zenon, <2>1, <2>3, <2>4
<1> HIDE DEF S
<1>4. N \in S
  BY <1>2, <1>3, NatSetInduction
<1>5. \E g : Is(a[N], eth, ip, g, t, m, u, d) /\ Orderly(g, t, m, u, d, X, A)
  BY <1>4 DEF S
<1> QED
  BY Zenon, <1>1, <1>5

(* What has been learned and sent: the interface is j, its members in      *)
(* order, and ip is known.                                                 *)
Learned(j, eth, ip, m, d, A, known) ==
    \E g, v, w : /\ Is(j, eth, ip, g, v, m, w, d) /\ Orderly(g, v, m, w, d, {}, A)
                 /\ known \in DOMAIN v

(* A mapping is learned and what waits for it is sent                      *)
(* (network_interface.cc:115-127).                                         *)
LEMMA LearnSends ==
    ASSUME NEW i, NEW eth, NEW ip, NEW f, NEW t, NEW m, NEW u, NEW d, Is(i, eth, ip, f, t, m, u, d),
           NEW A, Orderly(f, t, m, u, d, {}, A), NEW msg, NEW h, h = msg.sender_ip_address
    PROVE  Learned(SendWaiting(Learn(i, msg), h), eth, ip, m, d, A, h)
<1>1. PICK x : x = [eth_addr |-> msg.sender_ethernet_address, time_elapsed |-> 0]
  OBVIOUS
<1>2. IsEntry(x) /\ x.time_elapsed = 0
  BY <1>1 DEF IsEntry
<1>3. PICK v : v = insert(t, h, x) /\ Orderly(f, v, m, u, d, {h}, A)
  BY Zenon, <1>2, LearnKeeps
<1>4. h \in DOMAIN v
  BY <1>3 DEF insert
<1>5. PICK j : j = Learn(i, msg)
  OBVIOUS
<1>6. Is(j, eth, ip, f, v, m, u, d)
  <2>1. i.forwarding_table = t
    BY Zenon, Fields
  <2>2. j = [i EXCEPT !.forwarding_table = v]
    BY <1>1, <1>3, <1>5, <2>1 DEF Learn
  <2> QED
    BY <2>2 DEF Is
<1>7. j.unsent_datagrams = u
  BY Zenon, <1>6, Fields
<1>8. CASE h \notin DOMAIN u
  <2>1. SendWaiting(j, h) = j
    BY <1>7, <1>8 DEF SendWaiting
  <2>2. Orderly(f, v, m, u, d, {}, A)
    BY Zenon, <1>3, <1>8, SentKeeps
  <2> QED
    BY Zenon, <1>4, <1>5, <1>6, <2>1, <2>2 DEF Learned
<1>9. CASE h \in DOMAIN u
  <2>1. PICK q : q = Queue(j, h) /\ Len(q) \in Nat
    <3>1. Queue(j, h) = u[h]
      BY <1>7, <1>9 DEF Queue
    <3>2. Len(u[h]) \in Nat
      BY Zenon, <1>9 DEF Orderly, Typed, IsList
    <3> QED
      BY <3>1, <3>2
  <2>8. PICK X : X = {h}
    OBVIOUS
  <2>9. Orderly(f, v, m, u, d, X, A)
    BY <1>3, <2>8
  <2>10. PICK g : Is(SendAll(j, q, h), eth, ip, g, v, m, u, d) /\ Orderly(g, v, m, u, d, X, A)
    BY Zenon, <1>4, <1>6, <2>1, <2>9, SendAllKnown
  <2>2. Is(SendAll(j, q, h), eth, ip, g, v, m, u, d) /\ Orderly(g, v, m, u, d, {h}, A)
    BY <2>8, <2>10
  <2>3. PICK k : k = SendAll(j, q, h)
    OBVIOUS
  <2>11. Orderly(g, v, m, assign(u, h, <<>>), d, {}, A)
    BY Zenon, <2>2, SentKeeps
  <2>4. PICK w : w = assign(u, h, <<>>) /\ Orderly(g, v, m, w, d, {}, A)
    BY Zenon, <2>11
  <2>5. k.unsent_datagrams = u
    <3>1. Is(k, eth, ip, g, v, m, u, d)
      BY <2>2, <2>3
    <3> QED
      BY Zenon, <3>1, Fields
  <2>6. SendWaiting(j, h) = [k EXCEPT !.unsent_datagrams = w]
    BY <1>7, <1>9, <2>1, <2>3, <2>4, <2>5 DEF SendWaiting
  <2>7. Is(SendWaiting(j, h), eth, ip, g, v, m, w, d)
    BY <2>2, <2>3, <2>6 DEF Is
  <2> QED
    BY Zenon, <1>4, <1>5, <2>4, <2>7 DEF Learned
<1> QED
  BY <1>8, <1>9

(* recv_frame() works on (network_interface.cc:88-153).                    *)
LEMMA RecvWorks ==
    ASSUME NEW i, NEW X, X = {}, NEW A, Works(i, X, A), NEW frame, IsFrame(frame)
    PROVE  Works(recv_frame(i, frame), X, A)
<1>2. PICK eth, ip, f, t, m, u, d :
        Is(i, eth, ip, f, t, m, u, d) /\ Orderly(f, t, m, u, d, X, A)
  BY Zenon DEF Works
<1>1. PICK k : k = recv_frame(i, frame)
  OBVIOUS
<1>3. CASE ~Heeds(i, frame)
  <2>1. recv_frame(i, frame) = i
    BY <1>3 DEF recv_frame
  <2> QED
    BY <2>1
<1>4. CASE Heeds(i, frame) /\ frame.type = "IPv4"
  <2>1. PICK e : e = Append(d, frame.payload) /\ Orderly(f, t, m, u, e, X, A)
    BY Zenon, <1>2, DatagramKeeps
  <2>2. i.datagrams_out = d
    BY Zenon, <1>2, Fields
  <2>3. recv_frame(i, frame) = [i EXCEPT !.datagrams_out = e]
    BY <1>4, <2>1, <2>2 DEF recv_frame
  <2>4. Is(k, eth, ip, f, t, m, u, e)
    <3>1. k = [i EXCEPT !.datagrams_out = e]
      BY Zenon, <1>1, <2>3
    <3> QED
      BY <1>2, <3>1 DEF Is
  <2>6. Orderly(f, t, m, u, e, X, A)
    BY <2>1
  <2>5. Works(k, X, A)
    BY Zenon, <2>4, <2>6, WorksIs
  <2> QED
    BY <1>1, <2>5
<1>5. CASE Heeds(i, frame) /\ frame.type = "ARP"
  <2>1. PICK msg, h : msg = frame.payload /\ h = msg.sender_ip_address
    OBVIOUS
  <2>2. PICK j : j = SendWaiting(Learn(i, msg), h)
    OBVIOUS
  <2>3. Learned(j, eth, ip, m, d, A, h)
    <3>1. Orderly(f, t, m, u, d, {}, A)
      BY <1>2
    <3> QED
      BY Zenon, <1>2, <2>1, <2>2, <3>1, LearnSends
  <2>4. PICK g, v, w : /\ Is(j, eth, ip, g, v, m, w, d) /\ Orderly(g, v, m, w, d, X, A)
                       /\ h \in DOMAIN v
    <3>1. PICK g, v, w : /\ Is(j, eth, ip, g, v, m, w, d) /\ Orderly(g, v, m, w, d, {}, A)
                         /\ h \in DOMAIN v
      BY Zenon, <2>3 DEF Learned
    <3> QED
      BY <3>1
  <2>5. j.frames_out = g /\ j.outstanding_msg = m
    BY Zenon, <2>4, Fields
  <2>6. recv_frame(i, frame) = recv_arp(i, msg)
    BY <1>5, <2>1 DEF recv_frame
  <2>7. CASE msg.opcode = "request"
    <3>1. PICK x : x = Reply(i, msg)
      OBVIOUS
    <3>2. IsFrame(x) /\ ~IsRequest(x)
      BY <3>1 DEF Reply, Frame, ARPMessage, IsFrame, IsRequest
    <3>3. PICK fs : fs = Append(g, x) /\ Orderly(fs, v, m, w, d, X, A)
      BY Zenon, <2>4, <3>2, FrameKeeps
    <3>4. recv_arp(i, msg) = [j EXCEPT !.frames_out = fs]
      BY <2>1, <2>2, <2>5, <2>7, <3>1, <3>3 DEF recv_arp
    <3>5. Is(k, eth, ip, fs, v, m, w, d)
      BY <1>1, <2>4, <2>6, <3>4 DEF Is
    <3>6. Works(k, X, A)
      BY Zenon, <3>3, <3>5, WorksIs
    <3> QED
      BY <1>1, <3>6
  <2>8. CASE msg.opcode # "request"
    <3>1. PICK n : n = erase(m, h) /\ Orderly(g, v, n, w, d, X, A)
      BY Zenon, <2>4, ReplyKeeps
    <3>2. recv_arp(i, msg) = [j EXCEPT !.outstanding_msg = n]
      BY <2>1, <2>2, <2>5, <2>8, <3>1 DEF recv_arp
    <3>3. Is(k, eth, ip, g, v, n, w, d)
      BY <1>1, <2>4, <2>6, <3>2 DEF Is
    <3>4. Works(k, X, A)
      BY Zenon, <3>1, <3>3, WorksIs
    <3> QED
      BY <1>1, <3>4
  <2> QED
    BY <2>7, <2>8
<1> QED
  BY Zenon, <1>3, <1>4, <1>5 DEF IsFrame

(* send_datagram() keeps an interface in order between calls.              *)
LEMMA SendFine ==
    ASSUME NEW i, NEW A, Fine(i, A), NEW x, NEW h
    PROVE  Fine(send_datagram(i, x, h), A)
BY Zenon, SendWorks DEF Fine

(* So does recv_frame().                                                   *)
LEMMA RecvFine ==
    ASSUME NEW i, NEW A, Fine(i, A), NEW frame, IsFrame(frame)
    PROVE  Fine(recv_frame(i, frame), A)
<1>1. PICK X : X = {}
  OBVIOUS
<1>2. Works(i, X, A)
  BY <1>1 DEF Fine
<1>3. Works(recv_frame(i, frame), X, A)
  BY Zenon, <1>1, <1>2, RecvWorks
<1> QED
  BY <1>1, <1>3 DEF Fine

(* tick() (network_interface.cc:156-175).                                  *)
LEMMA TickFine ==
    ASSUME NEW i, NEW A, Fine(i, A), i.frames_out = <<>>,
           NEW B, \A q \in B : \E p \in A : q.ip = p.ip /\ q.ms = p.ms + 1 /\ p.ms < MSG_EXPIRY
    PROVE  Fine(tick_interface(i, 1), B) /\ tick_interface(i, 1).frames_out = <<>>
<1>1. PICK none, X : none = <<>> /\ X = {}
  OBVIOUS
<1>2. PICK eth, ip, f, t, m, u, d :
        Is(i, eth, ip, f, t, m, u, d) /\ Orderly(f, t, m, u, d, X, A)
  BY <1>1 DEF Fine, Works
<1>3. i.frames_out = f /\ i.forwarding_table = t /\ i.outstanding_msg = m
  BY <1>2 DEF Is
<1>4. PICK v, n : v = OlderMap(t) /\ n = OlderRequests(m) /\ Orderly(none, v, n, u, d, X, B)
  <2>1. Orderly(<<>>, t, m, u, d, {}, A)
    BY <1>1, <1>2, <1>3
  <2>2. Orderly(<<>>, OlderMap(t), OlderRequests(m), u, d, {}, B)
    BY Zenon, <2>1, TickKeeps
  <2> QED
    BY <1>1, <2>2
<1>5. PICK j : j = tick_interface(i, 1)
  OBVIOUS
<1>6. Is(j, eth, ip, none, v, n, u, d)
  <2>1. j = [i EXCEPT !.forwarding_table = v, !.outstanding_msg = n]
    <3> DEFINE age == [a \in DOMAIN t |-> t[a].time_elapsed]
    <3>1. Kept(age, 1, ENTRY_EXPIRY) = {k \in DOMAIN t : t[k].time_elapsed + 1 <= ENTRY_EXPIRY}
      BY DEF Kept
    <3>2. Kept(m, 1, MSG_EXPIRY) = {k \in DOMAIN m : m[k] + 1 <= MSG_EXPIRY}
      BY DEF Kept
    <3>3. j = [i EXCEPT !.forwarding_table = [a \in Kept(age, 1, ENTRY_EXPIRY) |-> Older(t[a], 1)],
                        !.outstanding_msg = [a \in Kept(m, 1, MSG_EXPIRY) |-> m[a] + 1]]
      BY Zenon, <1>3, <1>5 DEF tick_interface
    <3> QED
      BY Zenon, <1>4, <3>1, <3>2, <3>3 DEF OlderMap, OlderRequests
  <2>2. Is(i, eth, ip, none, t, m, u, d)
    BY <1>1, <1>2, <1>3
  <2> QED
    BY <2>1, <2>2 DEF Is
<1>7. Works(j, X, B)
  <2>1. Orderly(none, v, n, u, d, X, B)
    BY <1>4
  <2> QED
    BY Zenon, <1>6, <2>1, WorksIs
<1>8. j.frames_out = none
  BY <1>6 DEF Is
<1> QED
  BY <1>1, <1>5, <1>7, <1>8 DEF Fine

(* The wire takes the frames of an interface.                              *)
LEMMA TakenFine ==
    ASSUME NEW i, NEW A, Fine(i, A),
           NEW B, \A q \in B : \/ q \in A
                               \/ q.ms = 0 /\ \E x \in Range(i.frames_out) : IsRequest(x) /\ Target(x) = q.ip
    PROVE  Fine(Taken(i), B) /\ Taken(i).frames_out = <<>>
<1>1. PICK none, X : none = <<>> /\ X = {}
  OBVIOUS
<1>2. PICK eth, ip, f, t, m, u, d :
        Is(i, eth, ip, f, t, m, u, d) /\ Orderly(f, t, m, u, d, X, A)
  BY <1>1 DEF Fine, Works
<1>3. i.frames_out = f
  BY <1>2 DEF Is
<1>4. Orderly(none, t, m, u, d, X, B)
  <2>1. \A q \in B : \/ q \in A
                     \/ q.ms = 0 /\ \E x \in Range(f) : IsRequest(x) /\ Target(x) = q.ip
    BY Zenon, <1>3
  <2>2. Orderly(<<>>, t, m, u, d, X, B)
    BY Zenon, <1>2, <2>1, TakenKeeps
  <2> QED
    BY <1>1, <2>2
<1>5. PICK j : j = Taken(i)
  OBVIOUS
<1>6. Is(j, eth, ip, none, t, m, u, d)
  BY <1>1, <1>2, <1>5 DEF Is, Taken
<1>7. Works(j, X, B)
  BY Zenon, <1>4, <1>6, WorksIs
<1>8. j.frames_out = none
  BY <1>6 DEF Is
<1> QED
  BY <1>1, <1>5, <1>7, <1>8 DEF Fine

(* A router reads the datagrams of an interface to the end.                *)
LEMMA ReadFine ==
    ASSUME NEW i, NEW A, Fine(i, A)
    PROVE  Fine([i EXCEPT !.datagrams_out = <<>>], A) /\ Len(i.datagrams_out) \in Nat
<1>1. PICK none, X : none = <<>> /\ X = {} /\ IsList(none)
  BY NoList
<1>2. PICK eth, ip, f, t, m, u, d :
        Is(i, eth, ip, f, t, m, u, d) /\ Orderly(f, t, m, u, d, X, A)
  BY <1>1 DEF Fine, Works
<1>3. i.datagrams_out = d /\ Len(d) \in Nat
  <2>1. i.datagrams_out = d
    BY <1>2 DEF Is
  <2> QED
    BY Zenon, <1>2, <2>1 DEF Orderly, Typed, IsList
<1>4. Orderly(f, t, m, u, none, X, A)
  BY Zenon, <1>1, <1>2 DEF Orderly, Typed
<1>5. PICK j : j = [i EXCEPT !.datagrams_out = <<>>]
  OBVIOUS
<1>6. Is(j, eth, ip, f, t, m, u, none)
  BY <1>1, <1>2, <1>5 DEF Is
<1>7. Works(j, X, A)
  BY Zenon, <1>4, <1>6, WorksIs
<1> QED
  BY <1>1, <1>3, <1>5, <1>7 DEF Fine

-----------------------------------------------------------------------------
(* The router.                                                             *)

(* The interfaces are numbered.                                            *)
LEMMA PortsAre ==
    /\ Len(Port) \in Nat /\ DOMAIN Port = 1 .. Len(Port)
    /\ \A n \in 1 .. Len(Port) : Port[n] \in Range(Port) /\ PortNo(Port[n]) = n
    /\ \A x \in Range(Port) : PortNo(x) \in 1 .. Len(Port) /\ Port[PortNo(x)] = x
<1>1. Len(Port) \in Nat /\ DOMAIN Port = 1 .. Len(Port)
  BY NetworkAssumption
<1>2. ASSUME NEW x \in Range(Port) PROVE PortNo(x) \in 1 .. Len(Port) /\ Port[PortNo(x)] = x
  <2>1. \E n \in DOMAIN Port : Port[n] = x
    BY Zenon DEF Range
  <2> QED
    BY Zenon, <1>1, <2>1 DEF PortNo
<1>3. ASSUME NEW n \in 1 .. Len(Port) PROVE Port[n] \in Range(Port) /\ PortNo(Port[n]) = n
  <2>1. Port[n] \in Range(Port)
    BY Zenon, <1>1 DEF Range
  <2> QED
    BY Zenon, <1>1, <1>2, <2>1, NetworkAssumption
<1> QED
  BY Zenon, <1>1, <1>2, <1>3

(* One interface of a router is replaced: if it works the router works on. *)
LEMMA PortFine ==
    ASSUME NEW r, NEW A, RouterWorks(r, A), NEW k, NEW j,
           k \in 1 .. Len(Port) => Fine(j, A[k])
    PROVE  RouterWorks([r EXCEPT !.interfaces[k] = j], A)
<1>1. PICK I, T, N : I = r.interfaces /\ T = r.routing_table /\ N = 1 .. Len(Port)
  OBVIOUS
<1>2. r = [interfaces |-> I, routing_table |-> T] /\ I = [n \in N |-> I[n]]
  BY Zenon, <1>1 DEF RouterWorks, IsRouter
<1>3. PICK J : J = [I EXCEPT ![k] = j]
  OBVIOUS
<1>4. J = [n \in N |-> J[n]] /\ \A n \in N : J[n] = IF n = k THEN j ELSE I[n]
  BY <1>2, <1>3
<1>5. PICK s : s = [r EXCEPT !.interfaces[k] = j]
  OBVIOUS
<1>6. s = [interfaces |-> J, routing_table |-> T]
  BY <1>2, <1>3, <1>5
<1>7. s.interfaces = J /\ s.routing_table = T
  BY <1>6
<1>8. IsRouter(s)
  BY Zenon, <1>1, <1>4, <1>6, <1>7 DEF IsRouter
<1>9. ASSUME NEW n \in 1 .. Len(Port) PROVE Fine(s.interfaces[n], A[n])
  <2>1. s.interfaces[n] = IF n = k THEN j ELSE r.interfaces[n]
    BY Zenon, <1>1, <1>4, <1>7
  <2>2. CASE n = k
    BY Zenon, <2>1, <2>2
  <2>3. CASE n # k
    BY Zenon, <2>1, <2>3 DEF RouterWorks
  <2> QED
    BY Zenon, <2>2, <2>3
<1>10. RouterWorks(s, A)
  BY Zenon, <1>8, <1>9 DEF RouterWorks
<1> QED
  BY <1>5, <1>10

(* route_one_datagram() (router.cc:36-58).                                 *)
LEMMA RouteOneWorks ==
    ASSUME NEW r, NEW A, RouterWorks(r, A), NEW x
    PROVE  RouterWorks(route_one_datagram(r, x), A)
<1>1. CASE MatchingLengths(r, x.dst) = {} \/ x.ttl <= 1
  <2>1. route_one_datagram(r, x) = r
    BY Zenon, <1>1 DEF route_one_datagram
  <2> QED
    BY Zenon, <2>1
<1>2. CASE ~(MatchingLengths(r, x.dst) = {} \/ x.ttl <= 1)
  <2>1. PICK k, hop, y :
          route_one_datagram(r, x) =
            [r EXCEPT !.interfaces[k] = send_datagram(r.interfaces[k], y, hop)]
    <3> DEFINE out == Lookup(r, x.dst)
               hop == IF out.next_hop = Direct THEN x.dst ELSE out.next_hop
               y   == [x EXCEPT !.ttl = x.ttl - 1]
    <3>1. route_one_datagram(r, x) =
            [r EXCEPT !.interfaces[out.interface_num] =
                send_datagram(r.interfaces[out.interface_num], y, hop)]
      BY <1>2 DEF route_one_datagram
    <3> QED
      BY Zenon, <3>1
  <2>2. PICK j : j = send_datagram(r.interfaces[k], y, hop)
    OBVIOUS
  <2>3. k \in 1 .. Len(Port) => Fine(j, A[k])
    BY Zenon, <2>2, SendFine DEF RouterWorks
  <2>4. RouterWorks([r EXCEPT !.interfaces[k] = j], A)
    BY Zenon, <2>3, PortFine
  <2> QED
    BY Zenon, <2>1, <2>2, <2>4
<1> QED
  BY Zenon, <1>1, <1>2

(* All datagrams of a queue.                                               *)
LEMMA RouteAllWorks ==
    ASSUME NEW r, NEW A, RouterWorks(r, A), NEW queue, Len(queue) \in Nat
    PROVE  RouterWorks(RouteAll(r, queue), A)
<1>1. PICK a : IsRouting(a, r, queue, Len(queue)) /\ RouteAll(r, queue) = a[Len(queue)]
  BY Zenon, RoutingLast
<1> DEFINE N == Len(queue)
           S == {k \in Nat : k <= N => RouterWorks(a[k], A)}
<1>2. 0 \in S
  <2>1. a[0] = r
    BY <1>1 DEF IsRouting
  <2> QED
    BY <2>1
<1>3. ASSUME NEW k \in Nat, k \in S PROVE k + 1 \in S
  <2> SUFFICES ASSUME k + 1 <= N PROVE RouterWorks(a[k + 1], A)
    OBVIOUS
  <2>1. a[k + 1] = route_one_datagram(a[k], queue[k + 1])
    BY <1>1 DEF IsRouting
  <2>2. RouterWorks(a[k], A)
    BY <1>3
  <2> QED
    BY Zenon, <2>1, <2>2, RouteOneWorks
<1> HIDE DEF S
<1>4. N \in S
  BY <1>2, <1>3, NatSetInduction
<1>5. RouterWorks(a[N], A)
  BY <1>4 DEF S
<1> QED
  BY Zenon, <1>1, <1>5

(* The queue of one interface (router.cc:62-67).                           *)
LEMMA RouteQueueWorks ==
    ASSUME NEW r, NEW A, RouterWorks(r, A), NEW n \in 1 .. Len(Port)
    PROVE  RouterWorks(RouteQueue(r, n), A)
<1>1. PICK queue : queue = r.interfaces[n].datagrams_out /\ Len(queue) \in Nat
  <2>1. Fine(r.interfaces[n], A[n])
    BY Zenon DEF RouterWorks
  <2> QED
    BY Zenon, <2>1, ReadFine
<1>2. PICK s : s = RouteAll(r, queue)
  OBVIOUS
<1>3. RouterWorks(s, A)
  BY Zenon, <1>1, <1>2, RouteAllWorks
<1>4. PICK j : j = [s.interfaces[n] EXCEPT !.datagrams_out = <<>>]
  OBVIOUS
<1>5. Fine(j, A[n])
  <2>1. Fine(s.interfaces[n], A[n])
    BY Zenon, <1>3 DEF RouterWorks
  <2> QED
    BY Zenon, <1>4, <2>1, ReadFine
<1>6. RouterWorks([s EXCEPT !.interfaces[n] = j], A)
  BY Zenon, <1>3, <1>5, PortFine
<1>7. RouteQueue(r, n) = [s EXCEPT !.interfaces[n].datagrams_out = <<>>]
  BY Zenon, <1>1, <1>2 DEF RouteQueue
<1>8. [s EXCEPT !.interfaces[n].datagrams_out = <<>>] = [s EXCEPT !.interfaces[n] = j]
  BY <1>4
<1> QED
  BY Zenon, <1>6, <1>7, <1>8

(* There are as many interfaces as there are names.                        *)
LEMMA RouterLen ==
    ASSUME NEW r, IsRouter(r)
    PROVE  Len(r.interfaces) = Len(Port)
<1>1. PICK I, N : I = r.interfaces /\ N = Len(Port)
  OBVIOUS
<1>2. N \in Nat /\ I = [n \in 1 .. N |-> I[n]]
  BY <1>1, PortsAre DEF IsRouter
<1>3. PICK S : \A n \in 1 .. N : I[n] \in S
  <2>1. \A n \in 1 .. N : I[n] \in {I[k] : k \in 1 .. N}
    OBVIOUS
  <2> QED
    BY Zenon, <2>1
<1>4. I \in Seq(S) /\ DOMAIN I = 1 .. N
  BY <1>2, <1>3
<1>5. Len(I) \in Nat /\ DOMAIN I = 1 .. Len(I)
  BY <1>4
<1>6. Len(I) = N
  BY <1>2, <1>4, <1>5
<1> QED
  BY <1>1, <1>6

(* route() (router.cc:60-69).                                              *)
LEMMA RouteWorks ==
    ASSUME NEW r, NEW A, RouterWorks(r, A)
    PROVE  RouterWorks(route(r), A)
<1>1. PICK N : N = Len(Port) /\ N = Len(r.interfaces) /\ N \in Nat
  BY RouterLen, PortsAre DEF RouterWorks
<1>2. PICK a : IsRounds(a, r, N) /\ route(r) = a[N]
  BY Zenon, <1>1, RoundsLast
<1> DEFINE S == {k \in Nat : k <= N => RouterWorks(a[k], A)}
<1>3. 0 \in S
  <2>1. a[0] = r
    BY <1>1, <1>2 DEF IsRounds
  <2> QED
    BY <2>1
<1>4. ASSUME NEW k \in Nat, k \in S PROVE k + 1 \in S
  <2> SUFFICES ASSUME k + 1 <= N PROVE RouterWorks(a[k + 1], A)
    OBVIOUS
  <2>1. a[k + 1] = RouteQueue(a[k], k + 1)
    BY <1>1, <1>2 DEF IsRounds
  <2>2. RouterWorks(a[k], A) /\ k + 1 \in 1 .. Len(Port)
    BY <1>1, <1>4
  <2> QED
    BY Zenon, <2>1, <2>2, RouteQueueWorks
<1> HIDE DEF S
<1>5. N \in S
  BY <1>1, <1>3, <1>4, NatSetInduction
<1>6. RouterWorks(a[N], A)
  BY <1>1, <1>5 DEF S
<1> QED
  BY Zenon, <1>2, <1>6

(* add_route() leaves the interfaces alone (router.cc:17-33).              *)
LEMMA AddRouteWorks ==
    ASSUME NEW r, NEW A, RouterWorks(r, A), NEW p, NEW l, NEW hop, NEW k
    PROVE  RouterWorks(add_route(r, p, l, hop, k), A) /\ add_route(r, p, l, hop, k).interfaces = r.interfaces
<1>1. PICK T, s : s = add_route(r, p, l, hop, k) /\ s = [r EXCEPT !.routing_table = T]
  BY Zenon DEF add_route
<1>2. s.interfaces = r.interfaces /\ s = [interfaces |-> s.interfaces, routing_table |-> s.routing_table]
  BY <1>1 DEF RouterWorks, IsRouter
<1>3. RouterWorks(s, A)
  BY Zenon, <1>2 DEF RouterWorks, IsRouter
<1> QED
  BY Zenon, <1>1, <1>2, <1>3

-----------------------------------------------------------------------------
(* The network.                                                            *)

(* What an interface has to send.                                          *)
LEMMA FineFrames ==
    ASSUME NEW i, NEW A, Fine(i, A)
    PROVE  \A f \in Range(i.frames_out) :
              IsFrame(f) /\ (IsRequest(f) => \A q \in A : q.ip # Target(f))
BY Zenon DEF Fine, Works, Orderly, Typed, AsksNew

(* Requests that no longer count.                                          *)
LEMMA FineLess ==
    ASSUME NEW i, NEW A, Fine(i, A), NEW B, B \subseteq A
    PROVE  Fine(i, B)
BY Zenon DEF Fine, Works, Orderly, Remembers, AsksNew

(* The wire has taken out[x] from each x.                                  *)
Emitted(out) ==
    /\ \A c \in wire' : IsFrame(c.frame)
    /\ early' = FALSE
    /\ \A q \in recent' : q = [by |-> q.by, ip |-> q.ip, ms |-> q.ms]
    /\ \A q \in recent' : \/ q \in recent
                          \/ /\ q.by \in DOMAIN out /\ q.ms = 0
                             /\ \E f \in Range(out[q.by]) : IsRequest(f) /\ Target(f) = q.ip

(* Nobody has asked for an address that it had asked for.                  *)
LEMMA EmitFacts ==
    ASSUME IInv, NEW out, NEW left, left \subseteq wire, Emit(out, left),
           \A x \in DOMAIN out : \A f \in Range(out[x]) :
              IsFrame(f) /\ (IsRequest(f) => \A q \in RequestsOf(x, recent) : q.ip # Target(f))
    PROVE  Emitted(out)
<1> DEFINE Heard(x) == {c \in [to : Neighbours(x), frame : Range(out[x])] :
                          Heeds(Members(c.to), c.frame)}
           Asked(x) == {[by |-> x, ip |-> f.payload.target_ip_address, ms |-> 0] :
                          f \in {g \in Range(out[x]) : IsRequest(g)}}
           AskedNow == UNION {Asked(x) : x \in DOMAIN out}
           Again == \E q \in AskedNow, p \in recent : q.by = p.by /\ q.ip = p.ip
<1>1. /\ wire' = left \cup UNION {Heard(x) : x \in DOMAIN out}
      /\ early' = (early \/ Again)
      /\ recent' = recent \cup AskedNow
  BY Zenon DEF Emit
<1>2. /\ \A q \in recent : q = [by |-> q.by, ip |-> q.ip, ms |-> q.ms]
      /\ \A c \in wire : IsFrame(c.frame)
      /\ early = FALSE
  BY Zenon DEF IInv, Holds
<1>3. ASSUME NEW q \in AskedNow
      PROVE  /\ q = [by |-> q.by, ip |-> q.ip, ms |-> q.ms]
             /\ q.by \in DOMAIN out /\ q.ms = 0
             /\ \E f \in Range(out[q.by]) : IsRequest(f) /\ Target(f) = q.ip
  <2>1. PICK x \in DOMAIN out : q \in Asked(x)
    BY Zenon
  <2>2. PICK f \in Range(out[x]) :
          IsRequest(f) /\ q = [by |-> x, ip |-> f.payload.target_ip_address, ms |-> 0]
    BY Zenon, <2>1
  <2>3. /\ q.by = x /\ q.ip = f.payload.target_ip_address /\ q.ms = 0
        /\ q = [by |-> q.by, ip |-> q.ip, ms |-> q.ms]
    BY <2>2
  <2> QED
    BY Zenon, <2>2, <2>3 DEF Target
<1>4. ASSUME NEW c \in wire' PROVE IsFrame(c.frame)
  <2>1. CASE c \in left
    BY Zenon, <1>2, <2>1
  <2>2. CASE c \notin left
    <3>1. PICK x \in DOMAIN out : c \in Heard(x)
      BY Zenon, <1>1, <2>2
    <3>2. c.frame \in Range(out[x])
      BY <3>1
    <3> QED
      BY Zenon, <3>2
  <2> QED
    BY Zenon, <2>1, <2>2
<1>5. ~Again
  <2> SUFFICES ASSUME NEW q \in AskedNow, NEW p \in recent, q.by = p.by, q.ip = p.ip PROVE FALSE
    BY Zenon
  <2>1. PICK f \in Range(out[q.by]) : IsRequest(f) /\ Target(f) = q.ip /\ q.by \in DOMAIN out
    BY Zenon, <1>3
  <2>2. p \in RequestsOf(q.by, recent)
    BY Zenon DEF RequestsOf
  <2> QED
    BY Zenon, <2>1, <2>2
<1>6. early' = FALSE
  <2> HIDE DEF Again
  <2> QED
    BY <1>1, <1>2, <1>5
<1> HIDE DEF AskedNow, Again
<1>7. \A q \in recent' : q \in recent \/ q \in AskedNow
  BY Zenon, <1>1
<1> QED
  BY Zenon, <1>2, <1>3, <1>4, <1>6, <1>7 DEF Emitted

(* The requests of one interface.                                          *)
LEMMA NewRequests ==
    ASSUME NEW out, Emitted(out), NEW x
    PROVE  /\ x \notin DOMAIN out => RequestsOf(x, recent') \subseteq RequestsOf(x, recent)
           /\ \A q \in RequestsOf(x, recent') :
                 \/ q \in RequestsOf(x, recent)
                 \/ q.ms = 0 /\ \E f \in Range(out[x]) : IsRequest(f) /\ Target(f) = q.ip
BY Zenon DEF Emitted, RequestsOf

(* A call of a host's interface, and the frames it sends.                  *)
LEMMA HostCallHolds ==
    ASSUME IInv, NEW h \in Host, NEW result, Fine(result, RequestsOf(h, recent)),
           NEW left, left \subseteq wire, HostCall(h, result, left)
    PROVE  IInv'
<1>1. PICK out : out = [x \in {h} |-> result.frames_out]
  OBVIOUS
<1>2. DOMAIN out = {h} /\ out[h] = result.frames_out
  BY <1>1
<1>3. /\ host' = [host EXCEPT ![h] = Taken(result)]
      /\ Emit(out, left)
      /\ router' = router
  BY Zenon, <1>1 DEF HostCall
<1>4. Emitted(out)
  <2>1. \A x \in DOMAIN out : \A f \in Range(out[x]) :
           IsFrame(f) /\ (IsRequest(f) => \A q \in RequestsOf(x, recent) : q.ip # Target(f))
    BY Zenon, <1>2, FineFrames
  <2> QED
    BY Zenon, <1>3, <2>1, EmitFacts
<1>5. /\ host = [g \in Host |-> host[g]]
      /\ \A g \in Host : Fine(host[g], RequestsOf(g, recent)) /\ host[g].frames_out = <<>>
      /\ RouterWorks(router, PortRequests(recent))
      /\ \A n \in 1 .. Len(Port) : router.interfaces[n].frames_out = <<>>
  BY Zenon DEF IInv, Holds
<1>6. host' = [g \in Host |-> host'[g]] /\ \A g \in Host : host'[g] = IF g = h THEN Taken(result) ELSE host[g]
  BY <1>3, <1>5
<1>7. ASSUME NEW g \in Host
      PROVE  Fine(host'[g], RequestsOf(g, recent')) /\ host'[g].frames_out = <<>>
  <2>1. CASE g = h
    <3>1. \A q \in RequestsOf(h, recent') :
             \/ q \in RequestsOf(h, recent)
             \/ q.ms = 0 /\ \E f \in Range(result.frames_out) : IsRequest(f) /\ Target(f) = q.ip
      BY Zenon, <1>2, <1>4, NewRequests
    <3>2. PICK B : B = RequestsOf(h, recent')
      OBVIOUS
    <3>3. Fine(Taken(result), B) /\ Taken(result).frames_out = <<>>
      BY Zenon, <3>1, <3>2, TakenFine
    <3> QED
      BY Zenon, <1>6, <2>1, <3>2, <3>3
  <2>2. CASE g # h
    <3>1. RequestsOf(g, recent') \subseteq RequestsOf(g, recent)
      BY Zenon, <1>2, <1>4, <2>2, NewRequests
    <3>2. PICK B : B = RequestsOf(g, recent')
      OBVIOUS
    <3>3. Fine(host[g], B)
      BY Zenon, <1>5, <3>1, <3>2, FineLess
    <3> QED
      BY Zenon, <1>5, <1>6, <2>2, <3>2, <3>3
  <2> QED
    BY Zenon, <2>1, <2>2
<1>8. RouterWorks(router', PortRequests(recent'))
  <2>1. ASSUME NEW n \in 1 .. Len(Port) PROVE Fine(router.interfaces[n], PortRequests(recent')[n])
    <3>1. Port[n] \notin {h}
      BY Zenon, PortsAre, NetworkAssumption
    <3>2. RequestsOf(Port[n], recent') \subseteq RequestsOf(Port[n], recent)
      BY Zenon, <1>2, <1>4, <3>1, NewRequests
    <3>3. PortRequests(recent)[n] = RequestsOf(Port[n], recent) /\ PortRequests(recent')[n] = RequestsOf(Port[n], recent')
      BY Zenon DEF PortRequests
    <3>4. PICK B : B = PortRequests(recent')[n]
      OBVIOUS
    <3>5. Fine(router.interfaces[n], PortRequests(recent)[n])
      BY Zenon, <1>5 DEF RouterWorks
    <3>6. Fine(router.interfaces[n], B)
      BY Zenon, <3>2, <3>3, <3>4, <3>5, FineLess
    <3> QED
      BY Zenon, <3>4, <3>6
  <2> QED
    BY Zenon, <1>3, <1>5, <2>1 DEF RouterWorks
<1> QED
  BY Zenon, <1>3, <1>4, <1>5, <1>6, <1>7, <1>8 DEF IInv, Holds, Emitted

(* A call of the router, and the frames that its interfaces send.          *)
LEMMA RouterCallHolds ==
    ASSUME IInv, NEW result, RouterWorks(result, PortRequests(recent)),
           NEW left, left \subseteq wire, RouterCall(result, left)
    PROVE  IInv'
<1>1. PICK out : out = [x \in Range(Port) |-> result.interfaces[PortNo(x)].frames_out]
  OBVIOUS
<1>2. DOMAIN out = Range(Port) /\ \A x \in Range(Port) : out[x] = result.interfaces[PortNo(x)].frames_out
  BY Zenon, <1>1
<1>3. /\ router' = [result EXCEPT !.interfaces = [n \in DOMAIN Port |-> Taken(result.interfaces[n])]]
      /\ Emit(out, left)
      /\ host' = host
  BY Zenon, <1>1 DEF RouterCall
<1>4. \A n \in 1 .. Len(Port) : /\ Fine(result.interfaces[n], RequestsOf(Port[n], recent))
                                /\ out[Port[n]] = result.interfaces[n].frames_out
  BY Zenon, <1>2, PortsAre DEF RouterWorks, PortRequests
<1>5. Emitted(out)
  <2>1. ASSUME NEW x \in DOMAIN out
        PROVE  \A f \in Range(out[x]) :
           IsFrame(f) /\ (IsRequest(f) => \A q \in RequestsOf(x, recent) : q.ip # Target(f))
    <3>1. PICK n \in 1 .. Len(Port) : Port[n] = x
      BY Zenon, <1>2, PortsAre
    <3>2. Fine(result.interfaces[n], RequestsOf(x, recent)) /\ out[x] = result.interfaces[n].frames_out
      BY Zenon, <1>4, <3>1
    <3> QED
      BY Zenon, <3>2, FineFrames
  <2> QED
    BY Zenon, <1>3, <2>1, EmitFacts
<1>6. \A g \in Host : Fine(host[g], RequestsOf(g, recent)) /\ host[g].frames_out = <<>>
  BY Zenon DEF IInv, Holds
<1>7. ASSUME NEW g \in Host PROVE Fine(host'[g], RequestsOf(g, recent'))
  <2>1. g \notin DOMAIN out
    BY Zenon, <1>2, NetworkAssumption
  <2>2. RequestsOf(g, recent') \subseteq RequestsOf(g, recent)
    BY Zenon, <1>5, <2>1, NewRequests
  <2>3. PICK B : B = RequestsOf(g, recent')
    OBVIOUS
  <2>4. Fine(host[g], B)
    BY Zenon, <1>6, <2>2, <2>3, FineLess
  <2> QED
    BY Zenon, <1>3, <2>3, <2>4
<1>8. /\ IsRouter(router')
      /\ \A n \in 1 .. Len(Port) : router'.interfaces[n] = Taken(result.interfaces[n])
  <2>1. result = [interfaces |-> result.interfaces, routing_table |-> result.routing_table]
    BY Zenon DEF RouterWorks, IsRouter
  <2>2. PICK I : I = [n \in 1 .. Len(Port) |-> Taken(result.interfaces[n])]
    OBVIOUS
  <2>3. router' = [result EXCEPT !.interfaces = I]
    BY Zenon, <1>3, <2>2, PortsAre
  <2>4. router'.interfaces = I /\ router' = [interfaces |-> router'.interfaces, routing_table |-> router'.routing_table]
    BY <2>1, <2>3
  <2>5. I = [n \in 1 .. Len(Port) |-> I[n]] /\ \A n \in 1 .. Len(Port) : I[n] = Taken(result.interfaces[n])
    BY <2>2
  <2> QED
    BY Zenon, <2>4, <2>5 DEF IsRouter
<1>9. ASSUME NEW n \in 1 .. Len(Port)
      PROVE  Fine(router'.interfaces[n], PortRequests(recent')[n]) /\ router'.interfaces[n].frames_out = <<>>
  <2>1. PICK B : B = RequestsOf(Port[n], recent')
    OBVIOUS
  <2>2. PICK i : i = result.interfaces[n]
    OBVIOUS
  <2>3. Fine(i, RequestsOf(Port[n], recent)) /\ out[Port[n]] = i.frames_out
    BY Zenon, <1>4, <2>2
  <2>4. \A q \in B :
           \/ q \in RequestsOf(Port[n], recent)
           \/ q.ms = 0 /\ \E f \in Range(i.frames_out) : IsRequest(f) /\ Target(f) = q.ip
    <3>1. \A q \in RequestsOf(Port[n], recent') :
           \/ q \in RequestsOf(Port[n], recent)
           \/ q.ms = 0 /\ \E f \in Range(out[Port[n]]) : IsRequest(f) /\ Target(f) = q.ip
      BY Zenon, <1>5, NewRequests
    <3> QED
      BY Zenon, <2>1, <2>3, <3>1
  <2>5. Fine(Taken(i), B) /\ Taken(i).frames_out = <<>>
    BY Zenon, <2>3, <2>4, TakenFine
  <2>6. PortRequests(recent')[n] = B
    BY Zenon, <2>1 DEF PortRequests
  <2> QED
    BY Zenon, <1>8, <2>2, <2>5, <2>6
<1>10. host' = [g \in Host |-> host'[g]]
  BY Zenon, <1>3 DEF IInv, Holds
<1> QED
  BY Zenon, <1>3, <1>5, <1>6, <1>7, <1>8, <1>9, <1>10 DEF IInv, Holds, Emitted, RouterWorks

(* What arrives.                                                           *)
LEMMA ReceiveHolds ==
    ASSUME IInv, NEW c \in wire, NEW left, left \subseteq wire, Receive(c, left)
    PROVE  IInv'
<1>1. IsFrame(c.frame)
  BY Zenon DEF IInv, Holds
<1>2. CASE c.to \in Host /\ HostCall(c.to, recv_frame(host[c.to], c.frame), left)
  <2>1. Fine(host[c.to], RequestsOf(c.to, recent))
    BY Zenon, <1>2 DEF IInv, Holds
  <2>2. PICK i : i = recv_frame(host[c.to], c.frame)
    OBVIOUS
  <2>3. Fine(i, RequestsOf(c.to, recent))
    BY Zenon, <1>1, <2>1, <2>2, RecvFine
  <2> QED
    BY Zenon, <1>2, <2>2, <2>3, HostCallHolds
<1>3. CASE c.to \notin Host
  <2>1. PICK k : k = PortNo(c.to)
    OBVIOUS
  <2>2. PICK j : j = recv_frame(router.interfaces[k], c.frame)
    OBVIOUS
  <2>3. PICK r : r = [router EXCEPT !.interfaces[k] = j]
    OBVIOUS
  <2>4. RouterCall(route(r), left)
    BY Zenon, <1>3, <2>1, <2>2, <2>3 DEF Receive
  <2>5. RouterWorks(router, PortRequests(recent))
    BY Zenon DEF IInv, Holds
  <2>6. k \in 1 .. Len(Port) => Fine(j, PortRequests(recent)[k])
    BY Zenon, <1>1, <2>2, <2>5, RecvFine DEF RouterWorks
  <2>7. RouterWorks(r, PortRequests(recent))
    BY Zenon, <2>3, <2>5, <2>6, PortFine
  <2>8. RouterWorks(route(r), PortRequests(recent))
    BY Zenon, <2>7, RouteWorks
  <2> QED
    BY Zenon, <2>4, <2>8, RouterCallHolds
<1> QED
  BY Zenon, <1>2, <1>3 DEF Receive

(* The requests that count a millisecond later.                            *)
LEMMA TickRequests ==
    ASSUME IInv, Tick
    PROVE  /\ \A q \in recent' : q = [by |-> q.by, ip |-> q.ip, ms |-> q.ms]
           /\ \A x : \A q \in RequestsOf(x, recent') : \E p \in RequestsOf(x, recent) :
                 q.ip = p.ip /\ q.ms = p.ms + 1 /\ p.ms < MSG_EXPIRY
<1>1. \A q \in recent : q = [by |-> q.by, ip |-> q.ip, ms |-> q.ms]
  BY Zenon DEF IInv, Holds
<1>2. ASSUME NEW q \in recent'
      PROVE  /\ q = [by |-> q.by, ip |-> q.ip, ms |-> q.ms]
             /\ \E p \in recent : q.by = p.by /\ q.ip = p.ip /\ q.ms = p.ms + 1 /\ p.ms < MSG_EXPIRY
  <2>1. PICK p \in recent : p.ms < MSG_EXPIRY /\ q = [p EXCEPT !.ms = p.ms + 1]
    BY Zenon DEF Tick
  <2>2. q.by = p.by /\ q.ip = p.ip /\ q.ms = p.ms + 1 /\ q = [by |-> q.by, ip |-> q.ip, ms |-> q.ms]
    BY <1>1, <2>1
  <2> QED
    BY Zenon, <2>1, <2>2
<1>3. ASSUME NEW x, NEW q \in RequestsOf(x, recent')
      PROVE  \E p \in RequestsOf(x, recent) : q.ip = p.ip /\ q.ms = p.ms + 1 /\ p.ms < MSG_EXPIRY
  <2>1. q \in recent' /\ q.by = x
    BY Zenon, <1>3 DEF RequestsOf
  <2>2. PICK p \in recent : q.by = p.by /\ q.ip = p.ip /\ q.ms = p.ms + 1 /\ p.ms < MSG_EXPIRY
    BY Zenon, <1>2, <2>1
  <2>3. p \in RequestsOf(x, recent)
    BY Zenon, <2>1, <2>2 DEF RequestsOf
  <2> QED
    BY Zenon, <2>2, <2>3
<1> QED
  BY Zenon, <1>2, <1>3

(* Time passes.                                                            *)
LEMMA TickHolds ==
    ASSUME IInv, Tick
    PROVE  IInv'
<1>1. /\ host' = [h \in Host |-> tick_interface(host[h], 1)]
      /\ router' = [router EXCEPT !.interfaces =
                      [n \in DOMAIN Port |-> tick_interface(router.interfaces[n], 1)]]
      /\ wire' = wire /\ early' = early
  BY Zenon DEF Tick
<1>2. /\ \A h \in Host : Fine(host[h], RequestsOf(h, recent)) /\ host[h].frames_out = <<>>
      /\ RouterWorks(router, PortRequests(recent))
      /\ \A n \in 1 .. Len(Port) : router.interfaces[n].frames_out = <<>>
      /\ \A c \in wire : IsFrame(c.frame)
      /\ early = FALSE
  BY Zenon DEF IInv, Holds
<1>3. host' = [h \in Host |-> host'[h]] /\ \A h \in Host : host'[h] = tick_interface(host[h], 1)
  BY <1>1
<1>4. ASSUME NEW h \in Host PROVE Fine(host'[h], RequestsOf(h, recent')) /\ host'[h].frames_out = <<>>
  <2>1. PICK i : i = host[h]
    OBVIOUS
  <2>2. PICK A, B : A = RequestsOf(h, recent) /\ B = RequestsOf(h, recent')
    OBVIOUS
  <2>3. /\ Fine(i, A) /\ i.frames_out = <<>>
        /\ \A q \in B : \E p \in A : q.ip = p.ip /\ q.ms = p.ms + 1 /\ p.ms < MSG_EXPIRY
    BY Zenon, <1>2, <2>1, <2>2, TickRequests
  <2>4. Fine(tick_interface(i, 1), B) /\ tick_interface(i, 1).frames_out = <<>>
    BY Zenon, <2>3, TickFine
  <2> QED
    BY Zenon, <1>3, <2>1, <2>2, <2>4
<1>5. /\ IsRouter(router')
      /\ \A n \in 1 .. Len(Port) : router'.interfaces[n] = tick_interface(router.interfaces[n], 1)
  <2>1. router = [interfaces |-> router.interfaces, routing_table |-> router.routing_table]
    BY Zenon, <1>2 DEF RouterWorks, IsRouter
  <2>2. PICK I : I = [n \in 1 .. Len(Port) |-> tick_interface(router.interfaces[n], 1)]
    OBVIOUS
  <2>3. router' = [router EXCEPT !.interfaces = I]
    BY Zenon, <1>1, <2>2, PortsAre
  <2>4. router'.interfaces = I /\ router' = [interfaces |-> router'.interfaces, routing_table |-> router'.routing_table]
    BY <2>1, <2>3
  <2>5. I = [n \in 1 .. Len(Port) |-> I[n]] /\ \A n \in 1 .. Len(Port) : I[n] = tick_interface(router.interfaces[n], 1)
    BY <2>2
  <2> QED
    BY Zenon, <2>4, <2>5 DEF IsRouter
<1>6. ASSUME NEW n \in 1 .. Len(Port)
      PROVE  Fine(router'.interfaces[n], PortRequests(recent')[n]) /\ router'.interfaces[n].frames_out = <<>>
  <2>1. PICK i : i = router.interfaces[n]
    OBVIOUS
  <2>2. PICK A, B : A = RequestsOf(Port[n], recent) /\ B = RequestsOf(Port[n], recent')
    OBVIOUS
  <2>3. PortRequests(recent)[n] = A /\ PortRequests(recent')[n] = B
    BY Zenon, <2>2 DEF PortRequests
  <2>4. /\ Fine(i, A) /\ i.frames_out = <<>>
        /\ \A q \in B : \E p \in A : q.ip = p.ip /\ q.ms = p.ms + 1 /\ p.ms < MSG_EXPIRY
    BY Zenon, <1>2, <2>1, <2>2, <2>3, TickRequests DEF RouterWorks
  <2>5. Fine(tick_interface(i, 1), B) /\ tick_interface(i, 1).frames_out = <<>>
    BY Zenon, <2>4, TickFine
  <2> QED
    BY Zenon, <1>5, <2>1, <2>3, <2>5
<1> QED
  BY Zenon, <1>1, <1>2, <1>3, <1>4, <1>5, <1>6, TickRequests DEF IInv, Holds, RouterWorks

(* Every step keeps the invariant.                                         *)
LEMMA NextHolds ==
    ASSUME IInv, [Next]_vars
    PROVE  IInv'
<1>1. CASE AddRoute
  <2>1. PICK rt \in Routes \ configured :
          /\ router' = add_route(router, rt.prefix, rt.length, rt.next_hop, rt.interface)
          /\ UNCHANGED <<host, wire, sent, recent, early, faults>>
    BY Zenon, <1>1 DEF AddRoute
  <2>2. host' = host /\ wire' = wire /\ recent' = recent /\ early' = early
    BY <2>1
  <2>3. RouterWorks(router, PortRequests(recent))
    BY Zenon DEF IInv, Holds
  <2>4. RouterWorks(router', PortRequests(recent)) /\ router'.interfaces = router.interfaces
    <3>1. PICK p, l, hop, k : router' = add_route(router, p, l, hop, k)
      BY Zenon, <2>1
    <3>2. PICK r, A : r = router /\ A = PortRequests(recent)
      OBVIOUS
    <3>3. RouterWorks(add_route(r, p, l, hop, k), A) /\ add_route(r, p, l, hop, k).interfaces = r.interfaces
      BY <2>3, <3>2, AddRouteWorks
    <3> QED
      BY Zenon, <3>1, <3>2, <3>3
  <2> QED
    BY Zenon, <2>2, <2>4 DEF IInv, Holds
<1>2. CASE SendDatagram
  <2>1. PICK d \in Datagrams :
          HostCall(d.from, send_datagram(host[d.from], [id |-> d.id, dst |-> d.dst, ttl |-> d.ttl],
                                         Gateway[d.from]), wire)
    BY Zenon, <1>2 DEF SendDatagram
  <2>2. PICK h \in Host : h = d.from
    BY Zenon, NetworkAssumption
  <2>3. PICK x : x = [id |-> d.id, dst |-> d.dst, ttl |-> d.ttl]
    OBVIOUS
  <2>4. PICK i : i = send_datagram(host[h], x, Gateway[h])
    OBVIOUS
  <2>5. Fine(i, RequestsOf(h, recent))
    BY Zenon, <2>4, SendFine DEF IInv, Holds
  <2>6. HostCall(h, i, wire) /\ wire \subseteq wire
    BY Zenon, <2>1, <2>2, <2>3, <2>4
  <2> QED
    BY Zenon, <2>5, <2>6, HostCallHolds
<1>3. CASE Deliver
  <2>1. PICK c \in wire : Receive(c, wire \ {c})
    BY Zenon, <1>3 DEF Deliver
  <2>2. PICK left : left = wire \ {c}
    OBVIOUS
  <2>3. Receive(c, left) /\ left \subseteq wire
    BY Zenon, <2>1, <2>2
  <2> QED
    BY Zenon, <2>3, ReceiveHolds
<1>4. CASE Repeat
  <2>1. PICK c \in wire : Receive(c, wire) /\ wire \subseteq wire
    BY Zenon, <1>4 DEF Repeat
  <2> QED
    BY Zenon, <2>1, ReceiveHolds
<1>5. CASE Lose
  <2>1. PICK c \in wire : wire' = wire \ {c} /\ UNCHANGED <<host, router, configured, standing, sent, recent, early>>
    BY Zenon, <1>5 DEF Lose
  <2>2. host' = host /\ router' = router /\ recent' = recent /\ early' = early /\ wire' \subseteq wire
    BY <2>1
  <2> QED
    BY Zenon, <2>2 DEF IInv, Holds
<1>6. CASE Tick
  BY Zenon, <1>6, TickHolds
<1>7. CASE UNCHANGED vars
  <2>1. host' = host /\ router' = router /\ recent' = recent /\ early' = early /\ wire' = wire
    BY <1>7 DEF vars
  <2> QED
    BY Zenon, <2>1 DEF IInv, Holds
<1> QED
  BY Zenon, <1>1, <1>2, <1>3, <1>4, <1>5, <1>6, <1>7 DEF Next

(* A new interface: nothing is known, asked for or waiting                 *)
(* (network_interface.cc:20-24).                                           *)
LEMMA NewFine ==
    ASSUME NEW eth, NEW ip
    PROVE  Fine(NewInterface(eth, ip), {}) /\ NewInterface(eth, ip).frames_out = <<>>
<1>1. PICK i : i = NewInterface(eth, ip)
  OBVIOUS
<1>2. PICK f : f = <<>>
  OBVIOUS
<1>3. PICK t : t = EmptyMap
  OBVIOUS
<1>4. Is(i, eth, ip, f, t, t, t, f)
  BY Zenon, <1>1, <1>2, <1>3 DEF NewInterface, Is
<1>5. PICK A, X : A = {} /\ X = {}
  OBVIOUS
<1>6. Orderly(f, t, t, t, f, X, A)
  <2>1. Len(f) = 0 /\ f = [k \in 1 .. Len(f) |-> f[k]] /\ Range(f) = {} /\ DOMAIN t = {}
    BY <1>2, <1>3 DEF EmptyMap, Range
  <2>2. IsList(f)
    BY <2>1 DEF IsList
  <2> QED
    BY Zenon, <1>5, <2>1, <2>2 DEF Orderly, Typed, NoneWaits, Younger, Remembers, AsksNew
<1>7. /\ i.ethernet_address = eth /\ i.ip_address = ip /\ i.frames_out = f /\ i.forwarding_table = t
      /\ i.outstanding_msg = t /\ i.unsent_datagrams = t /\ i.datagrams_out = f
  BY <1>4 DEF Is
<1>8. Works(i, X, A)
  BY Zenon, <1>4, <1>6, <1>7 DEF Works
<1> QED
  BY Zenon, <1>1, <1>2, <1>5, <1>7, <1>8 DEF Fine

(* The invariant holds at the beginning.                                   *)
LEMMA InitHolds ==
    ASSUME Init
    PROVE  IInv
<1>1. /\ host = [h \in Host |-> NewInterface(h, IpOf[h])]
      /\ router = NewRouter([n \in DOMAIN Port |-> NewInterface(Port[n], IpOf[Port[n]])])
      /\ recent = {} /\ wire = {} /\ early = FALSE
  BY Zenon DEF Init
<1>2. host = [h \in Host |-> host[h]] /\ \A h \in Host : host[h] = NewInterface(h, IpOf[h])
  BY <1>1
<1>3. /\ IsRouter(router)
      /\ \A n \in 1 .. Len(Port) : router.interfaces[n] = NewInterface(Port[n], IpOf[Port[n]])
  <2>1. PICK I : I = [n \in 1 .. Len(Port) |-> NewInterface(Port[n], IpOf[Port[n]])]
    OBVIOUS
  <2>2. router = NewRouter(I)
    BY Zenon, <1>1, <2>1, PortsAre
  <2>3. router.interfaces = I /\ router = [interfaces |-> router.interfaces, routing_table |-> router.routing_table]
    BY <2>2 DEF NewRouter
  <2>4. I = [n \in 1 .. Len(Port) |-> I[n]] /\ \A n \in 1 .. Len(Port) : I[n] = NewInterface(Port[n], IpOf[Port[n]])
    BY <2>1
  <2> QED
    BY Zenon, <2>3, <2>4 DEF IsRouter
<1>4. \A x : RequestsOf(x, recent) = {}
  BY Zenon, <1>1 DEF RequestsOf
<1>5. \A n \in 1 .. Len(Port) : PortRequests(recent)[n] = {}
  BY Zenon, <1>4 DEF PortRequests
<1>6. \A h \in Host : Fine(host[h], RequestsOf(h, recent)) /\ host[h].frames_out = <<>>
  <2> SUFFICES ASSUME NEW h \in Host PROVE Fine(host[h], RequestsOf(h, recent)) /\ host[h].frames_out = <<>>
    OBVIOUS
  <2>1. PICK i : i = NewInterface(h, IpOf[h])
    OBVIOUS
  <2>2. Fine(i, {}) /\ i.frames_out = <<>>
    BY Zenon, <2>1, NewFine
  <2> QED
    BY Zenon, <1>2, <1>4, <2>1, <2>2
<1>7. \A n \in 1 .. Len(Port) : Fine(router.interfaces[n], PortRequests(recent)[n]) /\ router.interfaces[n].frames_out = <<>>
  <2> SUFFICES ASSUME NEW n \in 1 .. Len(Port)
               PROVE  Fine(router.interfaces[n], PortRequests(recent)[n]) /\ router.interfaces[n].frames_out = <<>>
    OBVIOUS
  <2>1. PICK i : i = NewInterface(Port[n], IpOf[Port[n]])
    OBVIOUS
  <2>2. Fine(i, {}) /\ i.frames_out = <<>>
    BY Zenon, <2>1, NewFine
  <2> QED
    BY Zenon, <1>3, <1>5, <2>1, <2>2
<1> QED
  BY Zenon, <1>1, <1>2, <1>3, <1>6, <1>7 DEF IInv, Holds, RouterWorks

-----------------------------------------------------------------------------
(* The theorems.                                                           *)

(* IInv holds always, whatever is sent, lost, repeated and delayed.        *)
THEOREM AlwaysHolds == Spec => []IInv
<1>1. Init => IInv
  BY InitHolds
<1>2. IInv /\ [Next]_vars => IInv'
  BY NextHolds
<1> QED
  BY <1>1, <1>2, PTL DEF Spec

(* A datagram never waits for an address that is known                     *)
(* (network_interface.cc:40-66, 112-127).                                  *)
THEOREM KnownMeansSentHolds == Spec => []KnownMeansSent
<1>1. ASSUME IInv PROVE KnownMeansSent
  <2>1. ASSUME NEW i, NEW A, Fine(i, A), NEW ip \in DOMAIN i.forwarding_table PROVE Queue(i, ip) = <<>>
    BY Zenon, <2>1 DEF Fine, Works, Orderly, NoneWaits, WaitsFor, Queue
  <2>2. ASSUME NEW x \in Interface PROVE \E A : Fine(Members(x), A)
    <3>1. CASE x \in Host
      BY Zenon, <1>1, <3>1 DEF IInv, Holds, Members
    <3>2. CASE x \notin Host
      BY Zenon, <1>1, <2>2, <3>2, PortsAre DEF IInv, Holds, Members, RouterWorks, Interface
    <3> QED
      BY Zenon, <3>1, <3>2
  <2> QED
    BY Zenon, <2>1, <2>2 DEF KnownMeansSent
<1>2. IInv => KnownMeansSent
  BY <1>1
<1> QED
  BY <1>2, AlwaysHolds, PTL

(* An interface does not repeat a request within MSG_EXPIRY, also when a   *)
(* reply ended the first one and the mapping has expired again             *)
(* (network_interface.cc:50-58, 129-160).                                  *)
THEOREM RequestsSpacedHolds == Spec => []RequestsSpaced
<1>1. IInv => RequestsSpaced
  BY Zenon DEF IInv, Holds, RequestsSpaced
<1> QED
  BY <1>1, AlwaysHolds, PTL
=============================================================================
