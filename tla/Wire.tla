-------------------------------- MODULE Wire --------------------------------
(***************************************************************************)
(* Octets: libsponge/util/{parser,buffer}.{hh,cc} and the InternetChecksum *)
(* of util/util.cc.  A Buffer is a sequence of octets, a BufferList a      *)
(* sequence of Buffers.  8- and 16-bit integers are numbers, a 32-bit one  *)
(* is the pair of its halves, and an Ethernet address its six octets.      *)
(***************************************************************************)
EXTENDS Integers, Sequences, SequencesExt

U8 == 256
U16 == 65536
Zeros(n) == [i \in 1 .. n |-> 0]

-----------------------------------------------------------------------------
(* NetUnparser and NetParser: network byte order.                          *)
u8(val) == <<val>>
u16(val) == <<val \div U8, val % U8>>
u32(val) == u16(val[1]) \o u16(val[2])

parse_int(octets) ==
    LET half(i) == octets[i] * U8 + octets[i + 1]
    IN  CASE Len(octets) = 1 -> octets[1]
          [] Len(octets) = 2 -> half(1)
          [] Len(octets) = 4 -> <<half(1), half(3)>>
          [] OTHER -> octets

NetParser(buffer) == [buffer |-> buffer, error |-> "NoError"]

remove_prefix(p, n) ==
    IF n > Len(p.buffer) THEN [p EXCEPT !.error = "PacketTooShort"]
    ELSE IF p.error # "NoError" THEN p
    ELSE [p EXCEPT !.buffer = SubSeq(@, n + 1, Len(@))]

(* The integer of the given width after the first `at' octets of a parser  *)
(* without error.  One that does not fit is 0, and so is all after it.     *)
field(p, at, width) ==
    parse_int(IF at + width <= Len(p.buffer) THEN SubSeq(p.buffer, at + 1, at + width) ELSE Zeros(width))

-----------------------------------------------------------------------------
(* BufferList.  The conversion to one Buffer is only made of a list with   *)
(* at most one; any other throws.                                          *)
append(list, other) == list \o other
concatenate(list) == FlattenSeq(list)
size(list) == Len(concatenate(list))
as_buffer(list) == CASE Len(list) = 0 -> <<>> [] Len(list) = 1 -> list[1]

-----------------------------------------------------------------------------
(* InternetChecksum; the parity goes on from one piece of data to the      *)
(* next.                                                                   *)
InternetChecksum(initial_sum) == [sum |-> initial_sum, parity |-> 0]

words[data \in Seq(0 .. U8 - 1)] ==
    CASE Len(data) = 0 -> 0
      [] Len(data) = 1 -> data[1] * U8
      [] Len(data) > 1 -> data[1] * U8 + data[2] + words[SubSeq(data, 3, Len(data))]

add(check, data) ==
    [sum    |-> check.sum + words[IF check.parity = 0 THEN data ELSE <<0>> \o data],
     parity |-> (check.parity + Len(data)) % 2]

(* Folding the carries leaves the residue modulo 2^16 - 1, of which a sum  *)
(* that is not 0 keeps the representative that is not 0.                   *)
value(check) == U16 - 1 - (IF check.sum = 0 THEN 0 ELSE ((check.sum - 1) % (U16 - 1)) + 1)
=============================================================================
