------------------------- MODULE WrappingCheckpoint -------------------------
(***************************************************************************)
(* wrap and unwrap checked over every initial sequence number and every    *)
(* checkpoint of a small instance.  The state is what one side of a        *)
(* connection fixes (its ISN) and what moves (the checkpoint: _abs_ackno   *)
(* for a sender, bytes_written() + 1 for a receiver).                      *)
(***************************************************************************)
EXTENDS WrappingIntegers

VARIABLES isn, checkpoint

CheckpointInit ==
    /\ isn \in WrappingInt32
    /\ checkpoint = 0

(* The stream moves on: bytes are acknowledged or reassembled.             *)
Advance ==
    /\ checkpoint < U64 - 1
    /\ checkpoint' = checkpoint + 1
    /\ UNCHANGED isn

CheckpointSpec == CheckpointInit /\ [][Advance]_<<isn, checkpoint>>

(* At every checkpoint a connection can reach, unwrap() returns the number *)
(* "that wraps to n and is closest to checkpoint" (wrapping_integers.cc:27)*)
(* even where one of its two candidates overflows.                         *)
UnwrapIsClosest == \A n \in WrappingInt32 : ClosestCandidate(n, isn, checkpoint)

(* What the sender and the receiver rely on: the number another endpoint   *)
(* sent as wrap(m) is read back as m near the checkpoint.                  *)
RoundTrip == \A m \in UInt64 : RoundTripAt(m, isn, checkpoint)

=============================================================================
