----------------------------- MODULE EventLoop -----------------------------
(***************************************************************************)
(* libsponge/util/eventloop.{hh,cc}.  A loop is the set of its rules,      *)
(* numbered in the order in which they were added, and what the last       *)
(* poll(2) said of them and has not been acted on yet.  wait_next_event()  *)
(* is cut where another thread can get in between: SetUp and Polled are    *)
(* the first half up to and including poll(), then one step per rule.      *)
(* Its user evaluates Rule::interest and knows the descriptors, and passes *)
(* sets of rules: the interested, the readable or writable, the hung up.   *)
(***************************************************************************)
EXTENDS FiniteSets, Integers

add_rules(n) == [rules |-> 1 .. n, ready |-> {}, hung |-> {}]

(* Rules whose descriptor is at eof (if they read) or closed are erased.   *)
SetUp(loop, defunct) == [loop EXCEPT !.rules = @ \ defunct]

(* Result::Exit: nothing to poll.                                          *)
Exits(interested) == interested = {}

(* poll() reports a hangup also of descriptors it was asked nothing about; *)
(* those only make it return at once.                                      *)
Polled(loop, interested, able, hup) ==
    [loop EXCEPT !.ready = interested \cap able, !.hung = (interested \ able) \cap hup]

Pending(loop) == loop.ready \cup loop.hung
Turn(loop) == CHOOSE r \in Pending(loop) : \A q \in Pending(loop) : r <= q

(* A rule whose only news is a hangup is cancelled and erased, any other   *)
(* one is called, whether it is still interested or not.                   *)
Handled(loop, r) ==
    [rules |-> loop.rules \ (loop.hung \cap {r}),
     ready |-> loop.ready \ {r},
     hung  |-> loop.hung \ {r}]

(* "callback did not read/write fd and is still interested"                *)
BusyWait(counted, interested) == ~counted /\ interested
=============================================================================
