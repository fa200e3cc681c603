----------------------------- MODULE MCAdapters -----------------------------
(* The adapters' specification with the Ethernet addresses of the headers. *)
EXTENDS AdapterSpec

Broadcast == [i \in 1 .. 6 |-> 255]
NoEthernet == Zeros(6)
=============================================================================
