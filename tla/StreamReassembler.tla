------------------------- MODULE StreamReassembler -------------------------
(***************************************************************************)
(* libsponge/stream_reassembler.{hh,cc}: the reassembler's members as a    *)
(* record and the pieces of push_substring() as operators, an iteration of *)
(* the loop of merge() among them; push_substring() is the whole call.     *)
(*                                                                         *)
(* A byte is its position in the peer's stream, so a chunk whose bytes are *)
(* not where they belong is seen.                                          *)
(***************************************************************************)
EXTENDS Streams, FiniteSets

CONSTANT recv_capacity      \* TCPConfig::recv_capacity

ASSUME CapacityAssumption == recv_capacity \in Nat \ {0}

NewReassembler ==
    [output       |-> EmptyStream,
     unasmb       |-> <<>>,         \* the list of chunks [data, index]
     first_unasmb |-> 0,
     n_unasmb     |-> 0,            \* n_unasmb_bytes
     eof_set      |-> FALSE,
     last_byte    |-> 0]

End(c) == c.index + Len(c.data)

unassembled_bytes(r) == r.n_unasmb
first_unacceptable(r) == r.first_unasmb + recv_capacity - buffer_size(r.output)

-----------------------------------------------------------------------------
(* push_substring(), up to the call of merge().                            *)

NoteEof(r, last, is_eof) ==
    IF is_eof THEN [r EXCEPT !.eof_set = TRUE, !.last_byte = last] ELSE r

Acceptable(r, c) == End(c) >= r.first_unasmb /\ c.index < first_unacceptable(r)

(* Mutant: the back is not chopped off.                                    *)
Chop_front_only(r, c) ==
    LET front == IF c.index < r.first_unasmb THEN r.first_unasmb - c.index ELSE 0
    IN  [data |-> SubSeq(c.data, front + 1, Len(c.data)), index |-> c.index + front]

(* Chop the back to the window, then the front to what is missing.         *)
Chop(r, c) ==
    LET len   == MinOf(Len(c.data), first_unacceptable(r) - c.index)
        front == IF c.index < r.first_unasmb THEN r.first_unasmb - c.index ELSE 0
    IN  [data |-> SubSeq(c.data, front + 1, len), index |-> c.index + front]

-----------------------------------------------------------------------------
(* merge().  A call m has the range [new0, new1) of the chunk it was given,*)
(* the chunk as merged so far and the place of the iterator in unasmb.     *)

Merging(c) == [chunk |-> c, new0 |-> c.index, new1 |-> End(c), it |-> 1]

AtEnd(r, m) == m.it > Len(r.unasmb)
Cur(r, m) == r.unasmb[m.it]

(* Mutant: a chunk that begins inside another is taken to lie in it.       *)
Contained_begin(m, cur) == cur.index <= m.new0 /\ m.new0 < End(cur)

Contained(m, cur) == cur.index <= m.new0 /\ m.new1 <= End(cur)
Encapsulates(m, cur) == m.new0 <= cur.index /\ End(cur) <= m.new1
OverlapsEnd(m, cur) == cur.index <= m.new0 /\ m.new0 <= End(cur)
OverlapsBegin(m, cur) == m.new0 <= cur.index /\ cur.index <= m.new1

(* The new chunk with what cur has in front of it or behind it.            *)
Absorb(m, cur) ==
    CASE Encapsulates(m, cur) -> m.chunk
      [] ~Encapsulates(m, cur) /\ OverlapsEnd(m, cur) ->
            [data  |-> SubSeq(cur.data, 1, m.new0 - cur.index) \o m.chunk.data,
             index |-> cur.index]
      [] OTHER ->
            [m.chunk EXCEPT !.data = @ \o SubSeq(cur.data, m.new1 - cur.index + 1, Len(cur.data))]

(* Mutant: chunks that only touch are left apart.                          *)
Overlaps_strict(m, cur) ==
    \/ Encapsulates(m, cur)
    \/ cur.index <= m.new0 /\ m.new0 < End(cur)
    \/ m.new0 <= cur.index /\ cur.index < m.new1

Overlaps(m, cur) ==
    Encapsulates(m, cur) \/ OverlapsEnd(m, cur) \/ OverlapsBegin(m, cur)

(* Mutant: the merged bytes are not taken off the count.                   *)
Erase_uncounted(r, i) ==
    [r EXCEPT !.unasmb = SubSeq(@, 1, i - 1) \o SubSeq(@, i + 1, Len(@))]

Erase(r, i) ==
    [r EXCEPT
        !.unasmb = SubSeq(@, 1, i - 1) \o SubSeq(@, i + 1, Len(@)),
        !.n_unasmb = @ - Len(r.unasmb[i].data)]

(* One iteration; x holds the reassembler, the call and its verdict.       *)
MergeStep(x) ==
    CASE x.contained \/ AtEnd(x.r, x.m) -> x
      [] ~x.contained /\ ~AtEnd(x.r, x.m) /\ Contained(x.m, Cur(x.r, x.m)) ->
            [x EXCEPT !.contained = TRUE]
      [] OTHER ->
            IF Overlaps(x.m, Cur(x.r, x.m))
            THEN [x EXCEPT !.r = Erase(x.r, x.m.it), !.m.chunk = Absorb(x.m, Cur(x.r, x.m))]
            ELSE [x EXCEPT !.m.it = @ + 1]

(* merge() as a whole: every iteration erases an element or goes past one. *)
merge(r, c) ==
    LET After[i \in 0 .. Len(r.unasmb)] ==
            IF i = 0 THEN [r |-> r, m |-> Merging(c), contained |-> FALSE]
                     ELSE MergeStep(After[i - 1])
    IN  After[Len(r.unasmb)]

-----------------------------------------------------------------------------
(* push_substring(), after merge().                                        *)

Place(r, c) ==
    IF c.index = r.first_unasmb
    THEN [r EXCEPT !.output = write(@, c.data, recv_capacity), !.first_unasmb = @ + Len(c.data)]
    ELSE [r EXCEPT !.n_unasmb = @ + Len(c.data), !.unasmb = Append(@, c)]

(* Mutant: the end of the stream is announced when the FIN arrives.        *)
CheckEof_early(r) ==
    IF r.eof_set THEN [r EXCEPT !.output = end_input(@)] ELSE r

(* Mutant: one byte more than the stream has is waited for.                *)
CheckEof_late(r) ==
    IF r.eof_set /\ r.last_byte < r.first_unasmb
    THEN [r EXCEPT !.output = end_input(@)]
    ELSE r

CheckEof(r) ==
    IF r.eof_set /\ r.last_byte <= r.first_unasmb
    THEN [r EXCEPT !.output = end_input(@)]
    ELSE r

-----------------------------------------------------------------------------
(* push_substring() as a whole.                                            *)
push_substring(r, c, is_eof) ==
    LET r1 == NoteEof(r, End(c), is_eof)
        x  == merge(r1, Chop(r1, c))
    IN  CASE input_ended(r.output) -> r
          [] ~input_ended(r.output) /\ ~Acceptable(r1, c) -> CheckEof(r1)
          [] OTHER -> IF x.contained THEN x.r ELSE CheckEof(Place(x.r, x.m.chunk))
=============================================================================
