-------------------------- MODULE WrappingIntegers --------------------------
(***************************************************************************)
(* libsponge/wrapping_integers.{hh,cc}: the conversion between the 64-bit  *)
(* "absolute" sequence numbers a TCP endpoint counts with and the 32-bit   *)
(* WrappingInt32 that a segment carries.                                   *)
(*                                                                         *)
(* Wrap is 2^32 in the program and Wraps is the number of times 2^32 fits  *)
(* in a uint64_t (2^32 as well), so that U64 is 2^64.  Both are parameters *)
(* because TLC's integers are 32 bits wide; every place where the C++      *)
(* arithmetic is modulo 2^64 keeps its "% U64".                            *)
(***************************************************************************)
EXTENDS Integers

CONSTANTS
    Wrap,   \* 2^32: how many values a WrappingInt32 has
    Wraps   \* 2^32: how many times Wrap fits in a uint64_t

ASSUME WrapAssumption ==
    /\ Wrap \in Nat \ {0}
    /\ Wraps \in Nat \ {0}

U64 == Wrap * Wraps

WrappingInt32 == 0 .. Wrap - 1
UInt64 == 0 .. U64 - 1

wrap(n, isn) == ((n + isn) % U64) % Wrap

diff(a, b) == IF a < b THEN b - a ELSE a - b

(* abs_n of unwrap(): how far n lies after isn on the circle.  The C++     *)
(* subtracts in int32_t and stores the result in a uint32_t, which is      *)
(* reduction modulo 2^32 on both branches.                                 *)
Offset(n, isn) == IF n >= isn THEN n - isn ELSE Wrap - (isn - n)

(* Mutants of unwrap: the second candidate always above the checkpoint;    *)
(* the checkpoint's own wrap without a second candidate.                   *)
unwrap_only_up(n, isn, checkpoint) ==
    LET a == Offset(n, isn) + (checkpoint \div Wrap) * Wrap
        b == (a + Wrap) % U64
    IN  IF diff(checkpoint, a) > diff(checkpoint, b) THEN b ELSE a

unwrap_same_wrap(n, isn, checkpoint) ==
    Offset(n, isn) + (checkpoint \div Wrap) * Wrap

unwrap(n, isn, checkpoint) ==
    LET abs_n  == Offset(n, isn)
        wraps0 == checkpoint \div Wrap
        a      == abs_n + wraps0 * Wrap
        wraps1 == (wraps0 + (IF a < checkpoint THEN 1 ELSE -1)) % U64
        b      == (abs_n + wraps1 * Wrap) % U64
    IN  IF diff(checkpoint, a) > diff(checkpoint, b) THEN b ELSE a

-----------------------------------------------------------------------------
(* unwrap() returns a 64-bit number that wraps to n, and no other number   *)
(* that wraps to n is nearer to the checkpoint c.                          *)
ClosestCandidate(n, i, c) ==
    LET u == unwrap(n, i, c)
    IN  /\ u \in UInt64
        /\ wrap(u, i) = n
        /\ \A m \in UInt64 : wrap(m, i) = n => diff(c, u) <= diff(c, m)

(* unwrap() undoes wrap() for m less than half a wrap from c.              *)
RoundTripAt(m, i, c) == 2 * diff(c, m) < Wrap => unwrap(wrap(m, i), i, c) = m
=============================================================================
