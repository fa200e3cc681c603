---------------------- MODULE StreamReassemblerProofs ----------------------
(***************************************************************************)
(* What push_substring() does, for every capacity, every stream and every  *)
(* list of waiting chunks, and what the receiver's segment_received() does *)
(* with it.                                                                *)
(*                                                                         *)
(* The loop of merge() is a recursive function; an invariant of its        *)
(* iterations is proved with NatSetInduction, induction on natural numbers *)
(* for a set of them.  The stream is a function at from places to bytes,   *)
(* so a chunk is faithful if it holds the bytes of its place.              *)
(***************************************************************************)
EXTENDS CommonProofs, FiniteSetTheorems

USE SMTT(30)

(* A set that holds 0 and with a number its successor holds all of them:   *)
(* otherwise there were a least number outside.                            *)
LEMMA NatSetInduction ==
    ASSUME NEW S, 0 \in S, \A i \in Nat : i \in S => i + 1 \in S
    PROVE  Nat \subseteq S
<1> DEFINE T == Nat \ S
           R == OpToRel(<, Nat)
<1> SUFFICES ASSUME T # {} PROVE FALSE
  OBVIOUS
<1>1. IsWellFoundedOn(R, Nat)
  BY Zenon, NatLessThanWellFounded
<1>2. PICK x \in T : \A y \in T : ~(<<y, x>> \in R)
  <2> HIDE DEF R
  <2> QED
    BY Zenon, <1>1, WFMin
<1>3. \A y \in T : ~(y < x)
  BY Zenon, <1>2 DEF OpToRel
<1>4. x \in Nat /\ x # 0 /\ x - 1 \in Nat /\ x - 1 < x
  OBVIOUS
<1>5. x - 1 \in S
  BY <1>3, <1>4
<1> QED
  BY <1>4, <1>5

(* The list without its k-th chunk.                                        *)
Without(u, k) == SubSeq(u, 1, k - 1) \o SubSeq(u, k + 1, Len(u))

(* The elements of a list without its k-th.                                *)
LEMMA WithoutFacts ==
    ASSUME NEW S, NEW u \in Seq(S), NEW k \in 1 .. Len(u)
    PROVE  /\ Without(u, k) \in Seq(S) /\ Len(Without(u, k)) = Len(u) - 1
           /\ \A i \in 1 .. k - 1 : Without(u, k)[i] = u[i]
           /\ \A i \in k .. Len(u) - 1 : Without(u, k)[i] = u[i + 1]
<1> DEFINE a == SubSeq(u, 1, k - 1)
           b == SubSeq(u, k + 1, Len(u))
<1>1. Len(u) \in Nat /\ k \in Nat
  OBVIOUS
<1>2. a \in Seq(S) /\ Len(a) = k - 1 /\ \A i \in 1 .. k - 1 : a[i] = u[i]
  BY <1>1
<1>3. b \in Seq(S) /\ Len(b) = Len(u) - k /\ \A i \in 1 .. Len(u) - k : b[i] = u[k + i]
  BY <1>1
<1> HIDE DEF a, b
<1>4. /\ a \o b \in Seq(S) /\ Len(a \o b) = Len(a) + Len(b)
      /\ \A i \in 1 .. Len(a) : (a \o b)[i] = a[i]
      /\ \A i \in Len(a) + 1 .. Len(a) + Len(b) : (a \o b)[i] = b[i - Len(a)]
  BY Zenon, <1>2, <1>3, ConcatFacts
<1>5. ASSUME NEW i \in k .. Len(u) - 1 PROVE (a \o b)[i] = u[i + 1]
  <2>1. (a \o b)[i] = b[i - (k - 1)] /\ i - (k - 1) \in 1 .. Len(u) - k
    BY <1>1, <1>2, <1>3, <1>4
  <2>2. b[i - (k - 1)] = u[k + (i - (k - 1))]
    BY <2>1, <1>3
  <2>3. k + (i - (k - 1)) = i + 1
    BY <1>1
  <2> QED
    BY <2>1, <2>2, <2>3
<1>6. Without(u, k) = a \o b
  BY DEF Without, a, b
<1>7. Len(a \o b) = Len(u) - 1 /\ \A i \in 1 .. k - 1 : (a \o b)[i] = u[i]
  BY <1>1, <1>2, <1>3, <1>4
<1> QED
  BY <1>4, <1>5, <1>6, <1>7

(* The places held are between lo and hi, so they can be counted.          *)
LEMMA HeldFinite ==
    ASSUME NEW u, NEW at, NEW lo \in Nat, NEW hi \in Nat, Spaced(u, at, lo, hi)
    PROVE  /\ Held(u) \subseteq lo + 1 .. hi - 1
           /\ IsFiniteSet(Held(u)) /\ Cardinality(Held(u)) \in Nat
<1>1. ASSUME NEW p \in Held(u) PROVE p \in lo + 1 .. hi - 1
  <2>1. PICK i \in 1 .. Len(u) : p \in Places(u[i])
    BY HeldIs
  <2>2. u[i] \in Chunk /\ lo < u[i].index /\ End(u[i]) <= hi
    BY DEF Spaced, Faithful
  <2> QED
    BY <2>1, <2>2, ChunkFacts DEF Places
<1>2. IsFiniteSet(lo + 1 .. hi - 1)
  BY FS_Interval
<1> QED
  BY <1>1, <1>2, FS_Subset, FS_CardinalityType

(* Taking a chunk out keeps the rest as it is.                             *)
LEMMA ErasedList ==
    ASSUME NEW u, NEW at, NEW lo \in Nat, NEW hi \in Nat, Spaced(u, at, lo, hi),
           NEW k \in 1 .. Len(u)
    PROVE  /\ Spaced(Without(u, k), at, lo, hi)
           /\ Held(Without(u, k)) = Held(u) \ Places(u[k])
           /\ Cardinality(Held(Without(u, k))) = Cardinality(Held(u)) - Len(u[k].data)
<1> DEFINE v == Without(u, k)
           old(i) == IF i < k THEN i ELSE i + 1
<1>1. u \in Seq(Chunk) /\ Len(u) \in Nat
  BY DEF Spaced
<1>2. /\ v \in Seq(Chunk) /\ Len(v) = Len(u) - 1
      /\ \A i \in 1 .. Len(v) : v[i] = u[old(i)] /\ old(i) \in 1 .. Len(u) /\ old(i) # k
  <2>1. /\ v \in Seq(Chunk) /\ Len(v) = Len(u) - 1
        /\ \A i \in 1 .. k - 1 : v[i] = u[i]
        /\ \A i \in k .. Len(u) - 1 : v[i] = u[i + 1]
    BY <1>1, WithoutFacts
  <2> HIDE DEF v
  <2>2. ASSUME NEW i \in 1 .. Len(v) PROVE v[i] = u[old(i)] /\ old(i) \in 1 .. Len(u) /\ old(i) # k
    <3>1. PICK n \in Nat : n = Len(u)
      BY <1>1
    <3>2. i \in 1 .. n - 1 /\ k \in 1 .. n
      BY <2>1, <3>1
    <3>3. CASE i < k
      <4>1. i \in 1 .. k - 1 /\ old(i) = i /\ i \in 1 .. n
        BY <3>2, <3>3
      <4> QED
        BY <2>1, <3>1, <3>3, <4>1
    <3>4. CASE ~(i < k)
      <4>1. i \in k .. n - 1 /\ old(i) = i + 1 /\ i + 1 \in 1 .. n /\ i + 1 # k
        BY <3>2, <3>4
      <4> QED
        BY <2>1, <3>1, <4>1
    <3> QED
      BY <3>3, <3>4
  <2> QED
    BY <2>1, <2>2
<1>3. \A i, j \in 1 .. Len(v) : i # j => old(i) # old(j)
  BY <1>1, <1>2
<1>4. \A i \in 1 .. Len(u) : i # k => \E j \in 1 .. Len(v) : old(j) = i
  <2> SUFFICES ASSUME NEW i \in 1 .. Len(u), i # k PROVE \E j \in 1 .. Len(v) : old(j) = i
    OBVIOUS
  <2>1. CASE i < k
    <3>1. old(i) = i /\ i \in 1 .. Len(v)
      BY <2>1, <1>1, <1>2
    <3> QED
      BY Zenon, <3>1
  <2>2. CASE i > k
    <3>1. old(i - 1) = i /\ i - 1 \in 1 .. Len(v)
      BY <2>2, <1>1, <1>2
    <3> QED
      BY Zenon, <3>1
  <2> QED
    BY <2>1, <2>2, <1>1
<1> HIDE DEF v, old
<1>5. Spaced(v, at, lo, hi)
  BY <1>2, <1>3 DEF Spaced
<1>6. ASSUME NEW i \in 1 .. Len(u), i # k PROVE Places(u[i]) \cap Places(u[k]) = {}
  <2>1. u[i] \in Chunk /\ u[k] \in Chunk /\ Apart(u[i], u[k])
    BY <1>6 DEF Spaced, Faithful
  <2>2. PICK a \in Nat, b \in Nat, c \in Nat, d \in Nat :
           a = u[i].index /\ b = End(u[i]) /\ c = u[k].index /\ d = End(u[k])
    BY <2>1, ChunkFacts
  <2>3. b < c \/ d < a
    BY Zenon, <2>1, <2>2 DEF Apart
  <2>4. (a .. b - 1) \cap (c .. d - 1) = {}
    BY <2>3
  <2> QED
    BY Zenon, <2>2, <2>4 DEF Places
<1>7. ASSUME NEW p PROVE p \in Held(v) <=> p \in Held(u) /\ p \notin Places(u[k])
  <2>1. p \in Held(v) <=> \E i \in 1 .. Len(u) : i # k /\ p \in Places(u[i])
    <3>1. p \in Held(v) <=> \E i \in 1 .. Len(v) : p \in Places(v[i])
      BY HeldIs
    <3> QED
      BY Zenon, <3>1, <1>2, <1>4
  <2>2. p \in Held(u) <=> \E i \in 1 .. Len(u) : p \in Places(u[i])
    BY HeldIs
  <2> QED
    BY <2>1, <2>2, <1>6
<1>8. Held(v) = Held(u) \ Places(u[k])
  BY <1>7
<1>9. Places(u[k]) \subseteq Held(u)
  BY HeldIs
<1>10. Cardinality(Places(u[k])) = Len(u[k].data)
  <2>1. u[k] \in Chunk
    BY DEF Spaced, Faithful
  <2>2. u[k].index \in Int /\ End(u[k]) - 1 \in Int /\ Len(u[k].data) \in Nat
        /\ End(u[k]) = u[k].index + Len(u[k].data)
    BY <2>1, ChunkFacts
  <2>3. Cardinality(u[k].index .. End(u[k]) - 1) =
            IF u[k].index > End(u[k]) - 1 THEN 0 ELSE End(u[k]) - 1 - u[k].index + 1
    BY Zenon, <2>2, FS_Interval
  <2> QED
    BY <2>2, <2>3 DEF Places
<1>11. Cardinality(Held(v)) = Cardinality(Held(u)) - Cardinality(Places(u[k]))
  <2>1. Held(u) \cap Places(u[k]) = Places(u[k])
    BY <1>9
  <2>2. IsFiniteSet(Held(u))
    BY Zenon, HeldFinite
  <2> QED
    BY Zenon, <1>8, <2>1, <2>2, FS_Difference
<1> QED
  BY <1>5, <1>8, <1>10, <1>11 DEF v

(***************************************************************************)
(* The loop of merge().                                                    *)
(***************************************************************************)
MergeCall(d, e, k) == [chunk |-> e, new0 |-> d.index, new1 |-> End(d), it |-> k]
Conf(r, d, u, n, e, k, b) == [r |-> With(r, u, n), m |-> MergeCall(d, e, k), contained |-> b]

(* The four ways an iteration can go.                                      *)
StepsTo(x, y) == MergeStep(x) = y

(* Past the end of the list, or once the chunk is contained, nothing       *)
(* happens.                                                                *)
LEMMA StepOver ==
    ASSUME NEW x, x.contained = TRUE
    PROVE  StepsTo(x, x)
BY DEF MergeStep, StepsTo

(* A chunk that lies in the current one ends the loop.                     *)
LEMMA StepContained ==
    ASSUME NEW r, NEW d, NEW u, NEW n, NEW e, NEW k, ~(k > Len(u)),
           Contained(MergeCall(d, e, k), u[k])
    PROVE  StepsTo(Conf(r, d, u, n, e, k, FALSE), Conf(r, d, u, n, e, k, TRUE))
BY Zenon DEF StepsTo, MergeStep, Conf, AtEnd, Cur, With, MergeCall

(* A chunk that overlaps or touches the current one takes it in.           *)
LEMMA StepAbsorb ==
    ASSUME NEW r, NEW d, NEW u, NEW n, NEW e, NEW k, ~(k > Len(u)),
           ~Contained(MergeCall(d, e, k), u[k]), Overlaps(MergeCall(d, e, k), u[k])
    PROVE  StepsTo(Conf(r, d, u, n, e, k, FALSE),
                   Conf(r, d, Without(u, k), n - Len(u[k].data), Absorb(MergeCall(d, e, k), u[k]), k, FALSE))
<1> DEFINE x == Conf(r, d, u, n, e, k, FALSE)
<1>1. /\ x.contained = FALSE /\ x.m = MergeCall(d, e, k) /\ x.r = With(r, u, n) /\ x.m.it = k
      /\ ~AtEnd(x.r, x.m) /\ Cur(x.r, x.m) = u[k]
  BY DEF Conf, AtEnd, Cur, With, MergeCall
<1>2. Erase(With(r, u, n), k) = With(r, Without(u, k), n - Len(u[k].data))
  <2> DEFINE w == With(r, u, n)
  <2>1. w.unasmb = u /\ w.n_unasmb = n
    BY DEF With
  <2>2. Erase(w, k) = [w EXCEPT !.unasmb = Without(u, k), !.n_unasmb = n - Len(u[k].data)]
    BY Zenon, <2>1 DEF Erase, Without
  <2> QED
    BY Zenon, <2>2 DEF With
<1>3. MergeStep(x) = [x EXCEPT !.r = Erase(x.r, x.m.it), !.m.chunk = Absorb(x.m, Cur(x.r, x.m))]
  BY Zenon, <1>1 DEF MergeStep
<1> QED
  BY Zenon, <1>1, <1>2, <1>3 DEF Conf, MergeCall, StepsTo

(* A chunk that lies apart from the current one goes past it.              *)
LEMMA StepPast ==
    ASSUME NEW r, NEW d, NEW u, NEW n, NEW e, NEW k, ~(k > Len(u)),
           ~Contained(MergeCall(d, e, k), u[k]), ~Overlaps(MergeCall(d, e, k), u[k])
    PROVE  StepsTo(Conf(r, d, u, n, e, k, FALSE), Conf(r, d, u, n, e, k + 1, FALSE))
<1> DEFINE x == Conf(r, d, u, n, e, k, FALSE)
<1>1. /\ x.contained = FALSE /\ x.m = MergeCall(d, e, k) /\ x.r = With(r, u, n) /\ x.m.it = k
      /\ ~AtEnd(x.r, x.m) /\ Cur(x.r, x.m) = u[k]
  BY DEF Conf, AtEnd, Cur, With, MergeCall
<1>2. MergeStep(x) = [x EXCEPT !.m.it = @ + 1]
  BY Zenon, <1>1 DEF MergeStep
<1> QED
  BY Zenon, <1>1, <1>2 DEF Conf, MergeCall, StepsTo

(* Two chunks that meet or overlap: the first with the second behind it,   *)
(* and with the rest of the second behind it.                              *)
LEMMA JoinFront ==
    ASSUME NEW at, NEW a \in Nat, NEW b \in Nat, NEW s, NEW t, Run(s, a, at), Run(t, b, at),
           a <= b, b <= a + Len(s)
    PROVE  LET q == SubSeq(s, 1, b - a) \o t IN Run(q, a, at) /\ Len(q) = b - a + Len(t)
<1> DEFINE h == SubSeq(s, 1, b - a)
<1>1. b - a \in Nat /\ b - a <= Len(s) /\ a + (b - a) = b
  BY DEF Run
<1>2. Run(h, a, at) /\ Len(h) = b - a
  BY <1>1, RunPrefix
<1> HIDE DEF h
<1>3. Run(t, a + Len(h), at)
  BY <1>1, <1>2
<1>4. Run(h \o t, a, at) /\ Len(h \o t) = Len(h) + Len(t)
  BY <1>2, <1>3, RunsConcat
<1> QED
  BY <1>2, <1>4 DEF h

(* s and what t has from its n-th byte on.                                 *)
Behind(s, t, n) == s \o SubSeq(t, n + 1, Len(t))
RunTo(s, a, b, at) == Run(s, a, at) /\ a + Len(s) = b

(* What lies behind is joined to the back.                                 *)
LEMMA JoinBack ==
    ASSUME NEW at, NEW a \in Nat, NEW b \in Nat, NEW s, NEW t, Run(s, a, at), Run(t, b, at),
           NEW m, m = a + Len(s), b <= m, m <= b + Len(t)
    PROVE  RunTo(Behind(s, t, m - b), a, b + Len(t), at)
<1> DEFINE n == m - b
           h == SubSeq(t, n + 1, Len(t))
           q == Behind(s, t, n)
<1>0. Len(s) \in Nat /\ Len(t) \in Nat
  BY DEF Run
<1>1. n \in Nat /\ n <= Len(t) /\ b + n = a + Len(s) /\ Len(t) <= Len(t)
  BY <1>0
<1> HIDE DEF n
<1>2. Run(h, b + n, at) /\ Len(h) = Len(t) - n
  BY <1>0, <1>1, RunPart
<1> HIDE DEF h
<1>3. Run(h, a + Len(s), at)
  BY <1>1, <1>2
<1>4. Run(s \o h, a, at) /\ Len(s \o h) = Len(s) + Len(h)
  BY <1>3, RunsConcat
<1>5. q = s \o h
  BY DEF Behind, h
<1> HIDE DEF q
<1>6. Run(q, a, at) /\ Len(q) = Len(s) + Len(h)
  BY <1>4, <1>5
<1>7. a + Len(q) = b + Len(t)
  BY <1>0, <1>1, <1>2, <1>6
<1> QED
  BY <1>6, <1>7 DEF q, n, RunTo

(* Two intervals that overlap or touch join to one.                        *)
LEMMA RunsJoin ==
    ASSUME NEW a \in Int, NEW b \in Int, NEW c \in Int, NEW d \in Int, a <= b, b <= c, c <= d
    PROVE  a .. d - 1 = (b .. d - 1) \cup (a .. c - 1)
OBVIOUS

(* The same for chunks: their hull is faithful and holds the places of     *)
(* both.                                                                   *)
GrownFront(c, e) ==
    [data |-> SubSeq(c.data, 1, e.index - c.index) \o e.data, index |-> c.index]
GrownBack(c, e, m) ==
    [data |-> Behind(e.data, c.data, m - c.index), index |-> e.index]

(* The places after a join at the front.                                   *)
LEMMA HullFront ==
    ASSUME NEW at, NEW c, NEW e, Faithful(c, at), Faithful(e, at),
           c.index <= e.index, e.index <= End(c), End(c) <= End(e),
           NEW f, f = GrownFront(c, e)
    PROVE  /\ Faithful(f, at) /\ f.index = c.index /\ End(f) = End(e)
           /\ Places(f) = Places(e) \cup Places(c)
<1> DEFINE q == SubSeq(c.data, 1, e.index - c.index) \o e.data
<1>1. c \in Chunk /\ e \in Chunk /\ Run(c.data, c.index, at) /\ Run(e.data, e.index, at)
  BY DEF Faithful
<1>2. /\ c.index \in Nat /\ e.index \in Nat /\ Len(c.data) \in Nat /\ Len(e.data) \in Nat
      /\ End(c) = c.index + Len(c.data) /\ End(e) = e.index + Len(e.data)
  BY <1>1, ChunkFacts
<1>3. Run(q, c.index, at) /\ Len(q) = e.index - c.index + Len(e.data)
  BY <1>1, <1>2, JoinFront
<1> HIDE DEF q
<1>4. f.data = q /\ f.index = c.index /\ f \in Chunk
  BY Zenon, <1>2, <1>3 DEF q, Chunk, Run, GrownFront
<1>5. Faithful(f, at)
  BY <1>3, <1>4 DEF Faithful
<1>6. End(f) = End(e)
  BY <1>2, <1>3, <1>4 DEF End
<1>7. c.index .. End(e) - 1 = (e.index .. End(e) - 1) \cup (c.index .. End(c) - 1)
  <2>1. c.index \in Int /\ e.index \in Int /\ End(c) \in Int /\ End(e) \in Int
    BY <1>2
  <2> QED
    BY <2>1, RunsJoin
<1> QED
  BY <1>4, <1>5, <1>6, <1>7 DEF Places

(* The places after a join at the back.                                    *)
LEMMA HullBack ==
    ASSUME NEW at, NEW c, NEW e, Faithful(c, at), Faithful(e, at),
           NEW m, m = End(e), e.index <= c.index, c.index <= m, m <= End(c),
           NEW f, f = GrownBack(c, e, m)
    PROVE  /\ Faithful(f, at) /\ f.index = e.index /\ End(f) = End(c)
           /\ Places(f) = Places(e) \cup Places(c)
<1> DEFINE q == Behind(e.data, c.data, m - c.index)
<1>1. c \in Chunk /\ e \in Chunk /\ Run(c.data, c.index, at) /\ Run(e.data, e.index, at)
  BY DEF Faithful
<1>2. /\ c.index \in Nat /\ e.index \in Nat /\ Len(c.data) \in Nat /\ Len(e.data) \in Nat
      /\ End(c) = c.index + Len(c.data) /\ End(e) = e.index + Len(e.data)
  BY <1>1, ChunkFacts
<1>3. Run(q, e.index, at) /\ e.index + Len(q) = c.index + Len(c.data)
  <2>1. m = e.index + Len(e.data) /\ m <= c.index + Len(c.data)
    BY <1>2
  <2>3. c.index \in Nat /\ e.index \in Nat
    BY <1>2
  <2>4. RunTo(q, e.index, c.index + Len(c.data), at)
    BY Zenon, <2>1, <2>3, <1>1, JoinBack
  <2> QED
    BY <2>4 DEF RunTo
<1> HIDE DEF q
<1>4. f = [data |-> q, index |-> e.index]
  BY DEF q, GrownBack
<1>5. f.data = q /\ f.index = e.index
  BY <1>4
<1>6. f \in Chunk
  BY <1>2, <1>3, <1>4, <1>5 DEF Chunk, Run
<1>7. Faithful(f, at)
  BY <1>3, <1>4, <1>5, <1>6 DEF Faithful
<1>8. End(f) = End(c)
  BY <1>2, <1>3, <1>4, <1>5 DEF End
<1>9. e.index .. End(c) - 1 = (c.index .. End(c) - 1) \cup (e.index .. End(e) - 1)
  <2>1. c.index \in Int /\ e.index \in Int /\ End(c) \in Int /\ End(e) \in Int
    BY <1>2
  <2> QED
    BY <2>1, RunsJoin
<1> QED
  BY <1>5, <1>7, <1>8, <1>9 DEF Places

(* c leaves room for the sides on which the merged chunk e has outgrown d. *)
RoomFor(c, d, e) ==
    /\ e.index < d.index => End(c) < e.index \/ d.index < c.index
    /\ End(d) < End(e) => End(c) < End(d) \/ End(e) < c.index

(* f is e grown by c, a chunk that meets d.                                *)
GrownBy(f, d, e, c, at) ==
    /\ Faithful(f, at)
    /\ f.index = e.index \/ (f.index = c.index /\ c.index < d.index /\ d.index <= End(c))
    /\ End(f) = End(e) \/ (End(f) = End(c) /\ c.index <= End(d) /\ End(d) < End(c))
    /\ f.index <= e.index /\ f.index <= c.index
    /\ End(e) <= End(f) /\ End(c) <= End(f)
    /\ Places(f) = Places(e) \cup Places(c)

(* What a chunk that is absorbed adds: the merged chunk grows to its hull  *)
(* with the absorbed one and still holds the right bytes, because it had   *)
(* not grown on that side before.                                          *)
LEMMA AbsorbFacts ==
    ASSUME NEW at, NEW d \in Chunk, NEW e, NEW c, NEW k, Faithful(e, at), Faithful(c, at),
           e.index <= d.index, End(d) <= End(e),
           ~Contained(MergeCall(d, e, k), c), Overlaps(MergeCall(d, e, k), c), RoomFor(c, d, e)
    PROVE  GrownBy(Absorb(MergeCall(d, e, k), c), d, e, c, at)
<1> DEFINE f == Absorb(MergeCall(d, e, k), c)
           N == d.index
           M == End(d)
<1>1. e \in Chunk /\ c \in Chunk
  BY DEF Faithful
<1>2. /\ N \in Nat /\ M \in Nat /\ N <= M
      /\ e.index \in Nat /\ Len(e.data) \in Nat
      /\ End(e) \in Nat /\ End(e) = e.index + Len(e.data)
      /\ c.index \in Nat /\ Len(c.data) \in Nat
      /\ End(c) \in Nat /\ End(c) = c.index + Len(c.data)
  <2>1. N \in Nat /\ M \in Nat /\ N <= M
    BY ChunkFacts
  <2>2. e.index \in Nat /\ Len(e.data) \in Nat /\ End(e) \in Nat /\ End(e) = e.index + Len(e.data)
    BY <1>1, ChunkFacts
  <2>3. c.index \in Nat /\ Len(c.data) \in Nat /\ End(c) \in Nat /\ End(c) = c.index + Len(c.data)
    BY <1>1, ChunkFacts
  <2> QED
    BY <2>1, <2>2, <2>3
<1>0. e.index \in Nat /\ c.index \in Nat
  BY <1>2
<1>3. /\ MergeCall(d, e, k).new0 = N /\ MergeCall(d, e, k).new1 = M /\ MergeCall(d, e, k).chunk = e
  BY DEF MergeCall
<1>4. ~(c.index <= N /\ M <= End(c))
  BY <1>3 DEF Contained
<1>5. /\ e.index <= N /\ M <= End(e)
      /\ e.index < N => End(c) < e.index \/ N < c.index
      /\ M < End(e) => End(c) < M \/ End(e) < c.index
  BY DEF RoomFor
<1>6. Run(c.data, c.index, at) /\ Run(e.data, e.index, at)
  BY DEF Faithful
<1> SUFFICES /\ Faithful(f, at)
             /\ f.index = e.index \/ (f.index = c.index /\ c.index < N /\ N <= End(c))
             /\ End(f) = End(e) \/ (End(f) = End(c) /\ c.index <= M /\ M < End(c))
             /\ f.index <= e.index /\ f.index <= c.index
             /\ End(e) <= End(f) /\ End(c) <= End(f)
             /\ Places(f) = Places(e) \cup Places(c)
  BY DEF GrownBy
<1> HIDE DEF N, M
<1>7. CASE N <= c.index /\ End(c) <= M
  <2>1. f = e
    BY <1>3, <1>7 DEF Absorb, Encapsulates
  <2> HIDE DEF f
  <2> QED
    BY <2>1, <1>2, <1>5, <1>7 DEF Places
<1>8. CASE ~(N <= c.index /\ End(c) <= M) /\ c.index <= N /\ N <= End(c)
  <2>1. c.index < N /\ End(c) < M /\ e.index = N
    BY <1>2, <1>4, <1>5, <1>8
  <2>2. f = GrownFront(c, e)
    BY <1>3, <1>8, <2>1 DEF Absorb, Encapsulates, OverlapsEnd, GrownFront
  <2>3. c.index <= e.index /\ e.index <= End(c) /\ End(c) <= End(e)
    BY <2>1, <1>2, <1>5, <1>8
  <2> HIDE DEF f
  <2>4. /\ Faithful(f, at) /\ f.index = c.index /\ End(f) = End(e)
        /\ Places(f) = Places(e) \cup Places(c)
    BY <2>2, <2>3, HullFront
  <2> QED
    BY <2>1, <2>3, <2>4, <1>2, <1>8
<1>9. CASE ~(N <= c.index /\ End(c) <= M) /\ ~(c.index <= N /\ N <= End(c))
  <2>1. N < c.index /\ c.index <= M /\ M < End(c) /\ End(e) = M
    BY <1>2, <1>3, <1>4, <1>5, <1>9 DEF Overlaps, Encapsulates, OverlapsEnd, OverlapsBegin
  <2>2. f = GrownBack(c, e, M)
    <3>1. ~Encapsulates(MergeCall(d, e, k), c) /\ ~OverlapsEnd(MergeCall(d, e, k), c)
      BY <1>3, <1>9 DEF Encapsulates, OverlapsEnd
    <3> DEFINE g == Behind(e.data, c.data, M - c.index)
    <3>2. f = [e EXCEPT !.data = g]
      BY <3>1, <1>3 DEF Absorb, Behind
    <3>3. GrownBack(c, e, M) = [data |-> g, index |-> e.index]
      BY DEF GrownBack
    <3>4. e = [data |-> e.data, index |-> e.index]
      BY <1>1 DEF Chunk
    <3> HIDE DEF f, g
    <3> QED
      BY <3>2, <3>3, <3>4
  <2>3. e.index <= c.index /\ c.index <= M /\ M <= End(c)
    BY <2>1, <1>2, <1>5
  <2> HIDE DEF f
  <2>4. /\ Faithful(f, at) /\ f.index = e.index /\ End(f) = End(c)
        /\ Places(f) = Places(e) \cup Places(c)
    BY <2>1, <2>2, <2>3, HullBack
  <2> QED
    BY <2>1, <2>3, <2>4, <1>2
<1> QED
  BY <1>7, <1>8, <1>9

Covers(c, d) == c.index <= d.index /\ End(d) <= End(c)

(* The loop's invariant.  u is the list with n bytes in it, e the merged   *)
(* chunk and k the iterator's place after i iterations of merge() on r     *)
(* with the chunk d: the iterator has N - i chunks before it, nothing is   *)
(* held that was not, nothing is lost, what the iterator has passed does   *)
(* not touch d, and once a chunk is absorbed no other covers d.            *)
Loop(r, d, at, lo, hi, i, u, n, e, k) ==
    /\ Spaced(u, at, lo, hi)
    /\ k \in 1 .. Len(u) + 1
    /\ Len(r.unasmb) - i = Len(u) - k + 1
    /\ n = Cardinality(Held(u))
    /\ Faithful(e, at) /\ lo <= e.index /\ e.index <= d.index /\ End(d) <= End(e) /\ End(e) <= hi
    /\ Held(u) \cup Places(e) = Held(r.unasmb) \cup Places(d)
    /\ \A j \in 1 .. k - 1 : Apart(u[j], d)
    /\ \A j \in 1 .. Len(u) : RoomFor(u[j], d, e)
    /\ u = r.unasmb \/ \A j \in 1 .. Len(u) : ~Covers(u[j], d)

(* The iterator goes past a chunk that is apart from d.                    *)
LEMMA LoopPast ==
    ASSUME NEW r, NEW d \in Chunk, NEW at, NEW lo \in Nat, NEW hi \in Nat, NEW i \in Nat,
           NEW u, NEW n, NEW e, NEW k, Loop(r, d, at, lo, hi, i, u, n, e, k),
           Len(r.unasmb) \in Nat, k <= Len(u), ~Overlaps(MergeCall(d, e, k), u[k])
    PROVE  Loop(r, d, at, lo, hi, i + 1, u, n, e, k + 1)
<1>1. u \in Seq(Chunk) /\ Len(u) \in Nat /\ k \in 1 .. Len(u)
  BY DEF Loop, Spaced
<1>2. u[k] \in Chunk
  BY <1>1
<1>3. /\ d.index \in Nat /\ End(d) \in Nat /\ d.index <= End(d)
      /\ u[k].index \in Nat /\ End(u[k]) \in Nat /\ u[k].index <= End(u[k])
  <2>1. d.index \in Nat /\ End(d) \in Nat /\ d.index <= End(d)
    BY ChunkFacts
  <2>2. u[k].index \in Nat /\ End(u[k]) \in Nat /\ u[k].index <= End(u[k])
    BY <1>2, ChunkFacts
  <2> QED
    BY <2>1, <2>2
<1>4. Apart(u[k], d)
  BY <1>3 DEF Overlaps, Encapsulates, OverlapsEnd, OverlapsBegin, MergeCall, Apart
<1>5. k + 1 \in 1 .. Len(u) + 1 /\ Len(r.unasmb) - (i + 1) = Len(u) - (k + 1) + 1
  BY <1>1 DEF Loop
<1>6. \A j \in 1 .. (k + 1) - 1 : Apart(u[j], d)
  <2>1. \A j \in 1 .. k - 1 : Apart(u[j], d)
    BY DEF Loop
  <2>2. \A j \in 1 .. (k + 1) - 1 : j \in 1 .. k - 1 \/ j = k
    BY <1>1
  <2> QED
    BY <1>4, <2>1, <2>2
<1> QED
  BY <1>5, <1>6 DEF Loop

(* An absorbed chunk leaves the others room and does not let them cover d, *)
(* because they are apart from it.                                         *)
LEMMA RoomKept ==
    ASSUME NEW d \in Chunk, NEW e \in Chunk, NEW f \in Chunk, NEW a \in Chunk, NEW c \in Chunk,
           Apart(c, a), RoomFor(c, d, e), e.index <= d.index, End(d) <= End(e),
           a.index <= End(d), d.index <= End(a),
           f.index = e.index \/ (f.index = a.index /\ a.index < d.index /\ d.index <= End(a)),
           End(f) = End(e) \/ (End(f) = End(a) /\ a.index <= End(d) /\ End(d) < End(a))
    PROVE  RoomFor(c, d, f) /\ ~Covers(c, d)
<1>1. /\ d.index \in Nat /\ End(d) \in Nat /\ d.index <= End(d)
      /\ a.index \in Nat /\ End(a) \in Nat /\ a.index <= End(a)
      /\ c.index \in Nat /\ End(c) \in Nat /\ c.index <= End(c)
      /\ e.index \in Nat /\ End(e) \in Nat
  <2>1. \A x \in Chunk : x.index \in Nat /\ End(x) \in Nat /\ x.index <= End(x)
    BY ChunkFacts
  <2> QED
    BY <2>1
<1> QED
  BY <1>1 DEF Apart, RoomFor, Covers

(* A chunk that meets d is taken out of the list and into e.               *)
LEMMA LoopAbsorb ==
    ASSUME NEW r, NEW d \in Chunk, NEW at, NEW lo \in Nat, NEW hi \in Nat, NEW i \in Nat,
           NEW u, NEW n, NEW e, NEW k, Loop(r, d, at, lo, hi, i, u, n, e, k),
           Len(r.unasmb) \in Nat, k <= Len(u),
           ~Contained(MergeCall(d, e, k), u[k]), Overlaps(MergeCall(d, e, k), u[k])
    PROVE  Loop(r, d, at, lo, hi, i + 1, Without(u, k), n - Len(u[k].data),
                Absorb(MergeCall(d, e, k), u[k]), k)
<1> DEFINE a == u[k]
           v == Without(u, k)
           f == Absorb(MergeCall(d, e, k), a)
<1>1. /\ Spaced(u, at, lo, hi) /\ u \in Seq(Chunk) /\ Len(u) \in Nat /\ k \in 1 .. Len(u)
      /\ Faithful(e, at) /\ e \in Chunk /\ e.index <= d.index /\ End(d) <= End(e)
      /\ RoomFor(a, d, e)
  BY DEF Loop, Spaced, Faithful
<1>2. Faithful(a, at) /\ a \in Chunk /\ lo < a.index /\ End(a) <= hi
  BY <1>1 DEF Spaced, Faithful
<1>3. /\ Spaced(v, at, lo, hi) /\ Held(v) = Held(u) \ Places(a)
      /\ Cardinality(Held(v)) = Cardinality(Held(u)) - Len(a.data)
  BY Zenon, <1>1, ErasedList
<1>4. /\ Len(v) = Len(u) - 1
      /\ \A j \in 1 .. k - 1 : v[j] = u[j]
      /\ \A j \in k .. Len(u) - 1 : v[j] = u[j + 1]
  BY <1>1, WithoutFacts
<1>5. /\ Faithful(f, at)
      /\ f.index = e.index \/ (f.index = a.index /\ a.index < d.index /\ d.index <= End(a))
      /\ End(f) = End(e) \/ (End(f) = End(a) /\ a.index <= End(d) /\ End(d) < End(a))
      /\ f.index <= e.index /\ f.index <= a.index
      /\ End(e) <= End(f) /\ End(a) <= End(f)
      /\ Places(f) = Places(e) \cup Places(a)
  <2>1. GrownBy(f, d, e, a, at)
    BY <1>1, <1>2, AbsorbFacts
  <2> HIDE DEF f, a
  <2> QED
    BY <2>1 DEF GrownBy
<1>6. a.index <= End(d) /\ d.index <= End(a)
  <2>1. /\ d.index \in Nat /\ End(d) \in Nat /\ d.index <= End(d)
        /\ a.index \in Nat /\ End(a) \in Nat /\ a.index <= End(a)
    <3> HIDE DEF a
    <3>1. d.index \in Nat /\ End(d) \in Nat /\ d.index <= End(d)
      BY ChunkFacts
    <3>2. a.index \in Nat /\ End(a) \in Nat /\ a.index <= End(a)
      BY <1>2, ChunkFacts
    <3> QED
      BY <3>1, <3>2
  <2> HIDE DEF a
  <2> QED
    BY <2>1 DEF a, Overlaps, Encapsulates, OverlapsEnd, OverlapsBegin, MergeCall
<1> HIDE DEF a, v, f
<1>7. ASSUME NEW j \in 1 .. Len(u), j # k PROVE RoomFor(u[j], d, f) /\ ~Covers(u[j], d)
  <2>1. u[j] \in Chunk /\ Apart(u[j], a) /\ RoomFor(u[j], d, e)
    BY <1>1, <1>7 DEF Loop, Spaced, a
  <2>2. f \in Chunk
    BY <1>5 DEF Faithful
  <2> QED
    BY <1>1, <1>2, <1>5, <1>6, <2>1, <2>2, RoomKept
<1>8. \A j \in 1 .. Len(v) : \E g \in 1 .. Len(u) : g # k /\ v[j] = u[g]
  <2> SUFFICES ASSUME NEW j \in 1 .. Len(v) PROVE \E g \in 1 .. Len(u) : g # k /\ v[j] = u[g]
    OBVIOUS
  <2>1. CASE j < k
    BY <2>1, <1>1, <1>4
  <2>2. CASE j >= k
    BY <2>2, <1>1, <1>4, j + 1 \in 1 .. Len(u)
  <2> QED
    BY <2>1, <2>2, <1>1
<1>9. \A j \in 1 .. Len(v) : RoomFor(v[j], d, f) /\ ~Covers(v[j], d)
  BY <1>7, <1>8
<1>10. \A j \in 1 .. k - 1 : Apart(v[j], d)
  BY <1>4 DEF Loop
<1>11. k \in 1 .. Len(v) + 1 /\ Len(r.unasmb) - (i + 1) = Len(v) - k + 1
  <2>1. k \in 1 .. Len(u) + 1 /\ Len(r.unasmb) - i = Len(u) - k + 1
    BY Zenon DEF Loop
  <2> QED
    BY <1>1, <1>4, <2>1
<1>12. lo <= f.index /\ f.index <= d.index /\ End(d) <= End(f) /\ End(f) <= hi
  <2>1. /\ d.index \in Nat /\ End(d) \in Nat /\ a.index \in Nat /\ End(a) \in Nat
        /\ e.index \in Nat /\ End(e) \in Nat
    BY <1>1, <1>2, ChunkFacts
  <2>2. lo <= e.index /\ End(e) <= hi
    BY Zenon DEF Loop
  <2>3. f.index \in Nat /\ End(f) \in Nat
    BY <1>5, <2>1
  <2>4. e.index <= d.index /\ End(d) <= End(e) /\ lo < a.index /\ End(a) <= hi
    BY Zenon, <1>1, <1>2
  <2>5. /\ f.index = e.index \/ (f.index = a.index /\ a.index < d.index)
        /\ End(f) = End(e) \/ (End(f) = End(a) /\ End(d) < End(a))
    BY Zenon, <1>5
  <2> QED
    BY <2>1, <2>2, <2>3, <2>4, <2>5
<1>13. Held(v) \cup Places(f) = Held(r.unasmb) \cup Places(d)
  <2>1. Places(a) \subseteq Held(u)
    BY <1>1, HeldIs DEF a
  <2>2. Held(u) \cup Places(e) = Held(r.unasmb) \cup Places(d)
    BY DEF Loop
  <2> QED
    BY Zenon, <1>3, <1>5, <2>1, <2>2
<1>14. n - Len(a.data) = Cardinality(Held(v))
  BY Zenon, <1>3 DEF Loop
<1>15. Loop(r, d, at, lo, hi, i + 1, v, n - Len(a.data), f, k)
  BY Zenon, <1>3, <1>5, <1>9, <1>10, <1>11, <1>12, <1>13, <1>14 DEF Loop
<1> QED
  BY <1>15 DEF a, v, f

(* The state of the call after i iterations: d was found to be covered, or *)
(* the loop goes on.                                                       *)
CoveredAt(r, d, x) ==
    /\ \E e, k : x = Conf(r, d, r.unasmb, r.n_unasmb, e, k, TRUE)
    /\ Places(d) \subseteq Held(r.unasmb)
GoingAt(r, d, at, lo, hi, i, x) ==
    \E u, n, e, k : x = Conf(r, d, u, n, e, k, FALSE) /\ Loop(r, d, at, lo, hi, i, u, n, e, k)

(* One iteration, whichever way it goes.                                   *)
LEMMA Iterate ==
    ASSUME NEW r, NEW d \in Chunk, NEW at, NEW lo \in Nat, NEW hi \in Nat, NEW i \in Nat,
           Len(r.unasmb) \in Nat, i < Len(r.unasmb), r.n_unasmb = Cardinality(Held(r.unasmb)),
           NEW x, CoveredAt(r, d, x) \/ GoingAt(r, d, at, lo, hi, i, x)
    PROVE  CoveredAt(r, d, MergeStep(x)) \/ GoingAt(r, d, at, lo, hi, i + 1, MergeStep(x))
<1>1. CASE CoveredAt(r, d, x)
  <2>1. PICK e, k : x = Conf(r, d, r.unasmb, r.n_unasmb, e, k, TRUE)
    BY Zenon, <1>1 DEF CoveredAt
  <2>2. x.contained = TRUE
    BY <2>1 DEF Conf
  <2>3. MergeStep(x) = x
    BY Zenon, <2>2, StepOver DEF StepsTo
  <2> QED
    BY <1>1, <2>3
<1>2. CASE GoingAt(r, d, at, lo, hi, i, x)
  <2>1. PICK u, n, e, k : x = Conf(r, d, u, n, e, k, FALSE) /\ Loop(r, d, at, lo, hi, i, u, n, e, k)
    BY Zenon, <1>2 DEF GoingAt
  <2>2. Len(u) \in Nat /\ k \in 1 .. Len(u) /\ k <= Len(u) /\ ~(k > Len(u))
    BY <2>1 DEF Loop, Spaced
  <2>3. CASE Contained(MergeCall(d, e, k), u[k])
    <3>1. MergeStep(x) = Conf(r, d, u, n, e, k, TRUE)
      BY Zenon, <2>1, <2>2, <2>3, StepContained DEF StepsTo
    <3>2. Covers(u[k], d)
      BY <2>3 DEF Contained, Covers, MergeCall
    <3>3. u = r.unasmb /\ n = r.n_unasmb
      BY <2>1, <2>2, <3>2 DEF Loop
    <3>4. Places(d) \subseteq Places(u[k])
      <4>1. u[k] \in Chunk
        BY <2>1, <2>2 DEF Loop, Spaced
      <4>2. d.index \in Nat /\ End(d) \in Nat
        BY ChunkFacts
      <4>3. u[k].index \in Nat /\ End(u[k]) \in Nat
        BY <4>1, ChunkFacts
      <4> QED
        BY <3>2, <4>2, <4>3 DEF Covers, Places
    <3>5. Places(u[k]) \subseteq Held(u)
      BY <2>2, HeldIs
    <3> QED
      BY Zenon, <3>1, <3>3, <3>4, <3>5 DEF CoveredAt
  <2>4. CASE ~Contained(MergeCall(d, e, k), u[k]) /\ Overlaps(MergeCall(d, e, k), u[k])
    <3>1. MergeStep(x) = Conf(r, d, Without(u, k), n - Len(u[k].data),
                              Absorb(MergeCall(d, e, k), u[k]), k, FALSE)
      <4>1. StepsTo(Conf(r, d, u, n, e, k, FALSE),
                    Conf(r, d, Without(u, k), n - Len(u[k].data), Absorb(MergeCall(d, e, k), u[k]), k, FALSE))
        BY Zenon, <2>2, <2>4, StepAbsorb
      <4> QED
        BY Zenon, <2>1, <4>1 DEF StepsTo
    <3>2. Loop(r, d, at, lo, hi, i + 1, Without(u, k), n - Len(u[k].data),
               Absorb(MergeCall(d, e, k), u[k]), k)
      BY <2>1, <2>2, <2>4, LoopAbsorb
    <3> QED
      BY Zenon, <3>1, <3>2 DEF GoingAt
  <2>5. CASE ~Contained(MergeCall(d, e, k), u[k]) /\ ~Overlaps(MergeCall(d, e, k), u[k])
    <3>1. MergeStep(x) = Conf(r, d, u, n, e, k + 1, FALSE)
      BY Zenon, <2>1, <2>2, <2>5, StepPast DEF StepsTo
    <3>2. Loop(r, d, at, lo, hi, i + 1, u, n, e, k + 1)
      BY Zenon, <2>1, <2>2, <2>5, LoopPast
    <3> QED
      BY Zenon, <3>1, <3>2 DEF GoingAt
  <2> QED
    BY <2>3, <2>4, <2>5
<1> QED
  BY <1>1, <1>2

(* f is the function that merge() reads its result from.                   *)
IsLoop(f, r, c, n) ==
    f = [i \in 0 .. n |->
            IF i = 0 THEN [r |-> r, m |-> Merging(c), contained |-> FALSE] ELSE MergeStep(f[i - 1])]

(* The iterations of the loop as a function on the numbers up to N.        *)
LEMMA LoopExists ==
    ASSUME NEW r, NEW c
    PROVE  \A n \in Nat : \E f : IsLoop(f, r, c, n)
<1> DEFINE x0 == [r |-> r, m |-> Merging(c), contained |-> FALSE]
           S == {n \in Nat : \E f : IsLoop(f, r, c, n)}
<1>1. 0 \in S
  <2> DEFINE f == [i \in 0 .. 0 |-> x0]
  <2> HIDE DEF x0
  <2>1. IsLoop(f, r, c, 0)
    BY DEF IsLoop, x0
  <2> QED
    BY <2>1
<1>2. ASSUME NEW n \in Nat, n \in S PROVE n + 1 \in S
  <2>1. PICK f : IsLoop(f, r, c, n)
    BY <1>2
  <2> HIDE DEF x0
  <2>2. f = [i \in 0 .. n |-> IF i = 0 THEN x0 ELSE MergeStep(f[i - 1])]
    BY Zenon, <2>1 DEF IsLoop, x0
  <2> DEFINE g == [i \in 0 .. n + 1 |-> IF i <= n THEN f[i] ELSE MergeStep(f[n])]
  <2>3. ASSUME NEW i \in 0 .. n + 1 PROVE g[i] = IF i = 0 THEN x0 ELSE MergeStep(g[i - 1])
    <3>1. CASE i = 0
      <4>1. g[0] = f[0] /\ f[0] = x0
        BY <2>2
      <4> QED
        BY <3>1, <4>1
    <3>2. CASE i \in 1 .. n
      <4>1. i \in 0 .. n /\ i - 1 \in 0 .. n /\ i # 0 /\ i <= n /\ i - 1 <= n /\ i - 1 \in 0 .. n + 1
        BY <3>2
      <4>2. g[i] = f[i] /\ g[i - 1] = f[i - 1]
        BY <4>1
      <4>3. f[i] = MergeStep(f[i - 1])
        BY <2>2, <4>1
      <4> QED
        BY Zenon, <4>1, <4>2, <4>3
    <3>3. CASE i = n + 1
      <4>1. g[n + 1] = MergeStep(f[n]) /\ g[n] = f[n] /\ i - 1 = n /\ i # 0
        BY <3>3
      <4> QED
        BY Zenon, <3>3, <4>1
    <3> QED
      BY <3>1, <3>2, <3>3
  <2>4. IsLoop(g, r, c, n + 1)
    BY Zenon, <2>3 DEF IsLoop, x0
  <2> QED
    BY <2>4
<1> HIDE DEF S
<1>3. Nat \subseteq S
  BY <1>1, <1>2, NatSetInduction
<1> QED
  BY <1>3 DEF S

(* merge() is the last of its iterations.                                  *)
LEMMA MergeIsLoop ==
    ASSUME NEW r, NEW c, Len(r.unasmb) \in Nat
    PROVE  \E f : IsLoop(f, r, c, Len(r.unasmb)) /\ merge(r, c) = f[Len(r.unasmb)]
<1> DEFINE After[i \in 0 .. Len(r.unasmb)] ==
               IF i = 0 THEN [r |-> r, m |-> Merging(c), contained |-> FALSE]
                        ELSE MergeStep(After[i - 1])
<1>1. merge(r, c) = After[Len(r.unasmb)]
  BY Zenon DEF merge
<1>2. \E f : IsLoop(f, r, c, Len(r.unasmb))
  BY Zenon, LoopExists
<1>3. IsLoop(After, r, c, Len(r.unasmb))
  BY Zenon, <1>2 DEF IsLoop
<1> QED
  BY Zenon, <1>1, <1>3

(* Where the loop ends, nothing that is left touches the merged chunk.     *)
LEMMA LoopEnds ==
    ASSUME NEW r, NEW d \in Chunk, NEW at, NEW lo \in Nat, NEW hi \in Nat,
           NEW u, NEW n, NEW e, NEW k, Loop(r, d, at, lo, hi, Len(r.unasmb), u, n, e, k),
           Len(r.unasmb) \in Nat
    PROVE  \A j \in 1 .. Len(u) : Apart(u[j], e)
<1> SUFFICES ASSUME NEW j \in 1 .. Len(u) PROVE Apart(u[j], e)
  OBVIOUS
<1>1. Len(u) \in Nat /\ k = Len(u) + 1
  BY DEF Loop, Spaced
<1>2. /\ Apart(u[j], d) /\ RoomFor(u[j], d, e) /\ u[j] \in Chunk /\ e \in Chunk
      /\ e.index <= d.index /\ End(d) <= End(e)
  BY <1>1 DEF Loop, Spaced, Faithful
<1>3. /\ d.index \in Nat /\ End(d) \in Nat /\ d.index <= End(d)
      /\ e.index \in Nat /\ End(e) \in Nat
      /\ u[j].index \in Nat /\ End(u[j]) \in Nat /\ u[j].index <= End(u[j])
  <2>1. \A x \in Chunk : x.index \in Nat /\ End(x) \in Nat /\ x.index <= End(x)
    BY ChunkFacts
  <2> QED
    BY <1>2, <2>1
<1> QED
  BY <1>2, <1>3 DEF Apart, RoomFor

(* What merge() returns: either d is covered and nothing changed, or the   *)
(* list is left with the chunks apart from the merged one, and together    *)
(* they hold what was held and what d brings.                              *)
MergedWell(r, d, at, lo, hi, x) ==
    \E u, e :
        /\ x.contained = FALSE /\ x.r = With(r, u, Cardinality(Held(u))) /\ x.m.chunk = e
        /\ Spaced(u, at, lo, hi)
        /\ Faithful(e, at) /\ lo <= e.index /\ e.index <= d.index /\ End(d) <= End(e) /\ End(e) <= hi
        /\ Held(u) \cup Places(e) = Held(r.unasmb) \cup Places(d)
        /\ \A j \in 1 .. Len(u) : Apart(u[j], e)

(* merge() finds that the chunk is contained, and then has changed         *)
(* nothing, or joins it with every chunk it meets.                         *)
LEMMA MergeResult ==
    ASSUME NEW r, NEW d, NEW at, NEW lo \in Nat, NEW hi \in Nat,
           Sound(r), Spaced(r.unasmb, at, lo, hi),
           r.n_unasmb = Cardinality(Held(r.unasmb)),
           Faithful(d, at), lo <= d.index, End(d) <= hi
    PROVE  \/ /\ merge(r, d).contained = TRUE /\ merge(r, d).r = r
              /\ Places(d) \subseteq Held(r.unasmb)
           \/ MergedWell(r, d, at, lo, hi, merge(r, d))
<1> DEFINE N == Len(r.unasmb)
<1>1. N \in Nat /\ d \in Chunk
  BY DEF Spaced, Faithful
<1>2. PICK f : IsLoop(f, r, d, N) /\ merge(r, d) = f[N]
  BY <1>1, MergeIsLoop
<1> DEFINE Good(i) == CoveredAt(r, d, f[i]) \/ GoingAt(r, d, at, lo, hi, i, f[i])
           S == {i \in Nat : i <= N => Good(i)}
<1>3. 0 \in S
  <2>1. f[0] = [r |-> r, m |-> Merging(d), contained |-> FALSE]
    BY <1>1, <1>2 DEF IsLoop
  <2>2. f[0] = Conf(r, d, r.unasmb, r.n_unasmb, d, 1, FALSE)
    BY Zenon, <2>1 DEF Conf, MergeCall, Merging, Sound
  <2>3. Loop(r, d, at, lo, hi, 0, r.unasmb, r.n_unasmb, d, 1)
    <3>1. d.index \in Nat /\ End(d) \in Nat
      BY <1>1, ChunkFacts
    <3>2. \A j \in 1 .. N : RoomFor(r.unasmb[j], d, d)
      BY <3>1 DEF RoomFor
    <3>3. 1 \in 1 .. N + 1 /\ N - 0 = N - 1 + 1 /\ d.index <= d.index /\ End(d) <= End(d)
      BY <1>1, <3>1
    <3> QED
      BY <3>2, <3>3 DEF Loop
  <2> QED
    BY Zenon, <2>2, <2>3 DEF GoingAt
<1>4. ASSUME NEW i \in Nat, i \in S PROVE i + 1 \in S
  <2> SUFFICES ASSUME i + 1 <= N PROVE Good(i + 1)
    OBVIOUS
  <2>1. f[i + 1] = MergeStep(f[i])
    <3>1. i + 1 \in 0 .. N /\ i + 1 # 0 /\ (i + 1) - 1 = i
      BY <1>1
    <3> QED
      BY Zenon, <3>1, <1>2 DEF IsLoop
  <2>2. i < N /\ Good(i)
    BY <1>1, <1>4
  <2> QED
    BY <1>1, <2>1, <2>2, Iterate
<1> HIDE DEF S
<1>5. Nat \subseteq S
  BY <1>3, <1>4, NatSetInduction
<1>6. Good(N)
  BY <1>1, <1>5 DEF S
<1>7. CASE CoveredAt(r, d, f[N])
  <2>1. PICK e, k : f[N] = Conf(r, d, r.unasmb, r.n_unasmb, e, k, TRUE)
    BY Zenon, <1>7 DEF CoveredAt
  <2> QED
    BY <1>2, <1>7, <2>1 DEF CoveredAt, Conf, Sound
<1>8. CASE GoingAt(r, d, at, lo, hi, N, f[N])
  <2>1. PICK u, n, e, k : f[N] = Conf(r, d, u, n, e, k, FALSE) /\ Loop(r, d, at, lo, hi, N, u, n, e, k)
    BY Zenon, <1>8 DEF GoingAt
  <2>2. \A j \in 1 .. Len(u) : Apart(u[j], e)
    BY Zenon, <1>1, <2>1, LoopEnds
  <2>3. f[N].contained = FALSE /\ f[N].r = With(r, u, n) /\ f[N].m.chunk = e
    BY <2>1 DEF Conf, MergeCall
  <2>4. MergedWell(r, d, at, lo, hi, f[N])
    BY Zenon, <2>1, <2>2, <2>3 DEF MergedWell, Loop
  <2> QED
    BY <1>2, <2>4
<1> QED
  BY Zenon, <1>6, <1>7, <1>8

(***************************************************************************)
(* push_substring() around merge().                                        *)
(***************************************************************************)

(* A chunk put behind the others.                                          *)
Appended(v, u, e, at, lo, hi) ==
    /\ Spaced(v, at, lo, hi) /\ Held(v) = Held(u) \cup Places(e)
    /\ Cardinality(Held(v)) = Cardinality(Held(u)) + Len(e.data)

(* The list stays spaced, and the places of the chunk are new.             *)
LEMMA AppendedList ==
    ASSUME NEW u, NEW at, NEW lo \in Nat, NEW hi \in Nat, Spaced(u, at, lo, hi),
           NEW e, Faithful(e, at), lo < e.index, End(e) <= hi,
           \A j \in 1 .. Len(u) : Apart(u[j], e), NEW v, v = Append(u, e)
    PROVE  Appended(v, u, e, at, lo, hi)
<1> DEFINE L == Len(u) + 1
<1>1. u \in Seq(Chunk) /\ Len(u) \in Nat /\ e \in Chunk
  BY DEF Spaced, Faithful
<1>2. v \in Seq(Chunk) /\ Len(v) = L /\ v[L] = e /\ \A i \in 1 .. Len(u) : v[i] = u[i]
  BY <1>1
<1>3. \A i \in 1 .. L : i \in 1 .. Len(u) \/ i = L
  BY <1>1
<1>4. Spaced(v, at, lo, hi)
  <2>1. ASSUME NEW i \in 1 .. Len(v)
        PROVE  Faithful(v[i], at) /\ lo < v[i].index /\ End(v[i]) <= hi
    BY <1>2, <1>3 DEF Spaced
  <2>2. ASSUME NEW i \in 1 .. Len(v), NEW j \in 1 .. Len(v), i # j PROVE Apart(v[i], v[j])
    <3>1. CASE i \in 1 .. Len(u) /\ j \in 1 .. Len(u)
      BY <1>2, <2>2, <3>1 DEF Spaced
    <3>2. CASE i = L /\ j \in 1 .. Len(u)
      BY <1>2, <3>2 DEF Apart
    <3>3. CASE j = L /\ i \in 1 .. Len(u)
      BY <1>2, <3>3 DEF Apart
    <3> QED
      BY <1>2, <1>3, <2>2, <3>1, <3>2, <3>3
  <2> QED
    BY <1>2, <2>1, <2>2 DEF Spaced
<1>5. ASSUME NEW p PROVE p \in Held(v) <=> p \in Held(u) \/ p \in Places(e)
  <2>1. p \in Held(v) <=> \E i \in 1 .. Len(v) : p \in Places(v[i])
    BY Zenon, HeldIs
  <2>2. p \in Held(u) <=> \E i \in 1 .. Len(u) : p \in Places(u[i])
    BY HeldIs
  <2>3. L \in 1 .. Len(v) /\ \A i \in 1 .. Len(u) : i \in 1 .. Len(v)
    BY <1>1, <1>2
  <2> QED
    BY <1>2, <1>3, <2>1, <2>2, <2>3
<1>6. Held(v) = Held(u) \cup Places(e)
  BY <1>5
<1>7. Without(v, L) = u
  <2>1. L \in 1 .. Len(v)
    BY <1>1, <1>2
  <2>2. /\ Without(v, L) \in Seq(Chunk) /\ Len(Without(v, L)) = Len(v) - 1
        /\ \A i \in 1 .. L - 1 : Without(v, L)[i] = v[i]
    BY Zenon, <1>2, <2>1, WithoutFacts
  <2>3. L - 1 = Len(u) /\ Len(v) - 1 = Len(u)
    BY <1>1, <1>2
  <2> DEFINE w == Without(v, L)
  <2> HIDE DEF w
  <2>4. w \in Seq(Chunk) /\ Len(w) = Len(u) /\ \A i \in 1 .. Len(u) : w[i] = u[i]
    BY <1>2, <2>2, <2>3 DEF w
  <2>5. w = u
    BY <1>1, <2>4
  <2> QED
    BY <2>5 DEF w
<1>8. Cardinality(Held(u)) = Cardinality(Held(v)) - Len(e.data)
  <2>1. L \in 1 .. Len(v)
    BY <1>1, <1>2
  <2>2. Cardinality(Held(Without(v, L))) = Cardinality(Held(v)) - Len(v[L].data)
    BY Zenon, <1>4, <2>1, ErasedList
  <2> QED
    BY <1>2, <1>7, <2>2
<1>9. Cardinality(Held(v)) \in Nat /\ Len(e.data) \in Nat
  BY Zenon, <1>1, <1>4, HeldFinite, ChunkFacts
<1> QED
  BY <1>4, <1>6, <1>8, <1>9 DEF Appended

(* A list that lies above a new lower bound, too.                          *)
LEMMA RaisedList ==
    ASSUME NEW u, NEW at, NEW lo, NEW hi, Spaced(u, at, lo, hi), NEW x,
           \A j \in 1 .. Len(u) : x < u[j].index
    PROVE  Spaced(u, at, x, hi)
BY DEF Spaced

(* An interval cut to another.                                             *)
LEMMA CutRun ==
    ASSUME NEW a \in Int, NEW b \in Int, NEW x \in Int, NEW y \in Int, NEW lo \in Int, NEW hi \in Int,
           a <= x, y <= b, lo <= x, y <= hi, x = a \/ x = lo, y = b \/ y = hi
    PROVE  x .. y - 1 = (a .. b - 1) \cap (lo .. hi - 1)
OBVIOUS

(* Chop() leaves the part of the chunk that lies inside the window.        *)
LEMMA ChopFacts ==
    ASSUME NEW r, NEW at, NEW P, NEW F, InOrder(r, at, P, F), NEW c, Faithful(c, at), Acceptable(r, c)
    PROVE  /\ Faithful(Chop(r, c), at)
           /\ r.first_unasmb <= Chop(r, c).index /\ End(Chop(r, c)) <= first_unacceptable(r)
           /\ Places(Chop(r, c)) = Places(c) \cap r.first_unasmb .. first_unacceptable(r) - 1
<1> DEFINE lo == r.first_unasmb
           hi == first_unacceptable(r)
           len == MinOf(Len(c.data), hi - c.index)
           front == IF c.index < lo THEN lo - c.index ELSE 0
           q == SubSeq(c.data, front + 1, len)
           d == Chop(r, c)
<1>1. lo \in Nat /\ hi \in Nat /\ lo <= hi
  BY WindowFacts
<1>2. c \in Chunk /\ Run(c.data, c.index, at)
  BY DEF Faithful
<1>3. c.index \in Nat /\ Len(c.data) \in Nat /\ End(c) = c.index + Len(c.data)
  BY <1>2, ChunkFacts
<1>4. lo <= End(c) /\ c.index < hi
  <2> HIDE DEF lo, hi
  <2> QED
    BY <1>1, <1>3 DEF Acceptable, lo, hi
<1> HIDE DEF lo, hi
<1>5. /\ len \in Nat /\ front \in Nat /\ front <= len /\ len <= Len(c.data)
      /\ lo <= c.index + front /\ c.index + len <= hi
      /\ front = 0 \/ c.index + front = lo
      /\ len = Len(c.data) \/ c.index + len = hi
  BY <1>1, <1>3, <1>4 DEF MinOf
<1>6. d = [data |-> q, index |-> c.index + front]
  BY DEF Chop, lo, hi
<1> HIDE DEF len, front
<1>7. Run(q, c.index + front, at) /\ Len(q) = len - front
  BY <1>2, <1>3, <1>5, RunPart
<1> HIDE DEF q, d
<1>8. d.data = q /\ d.index = c.index + front /\ d \in Chunk
  BY <1>3, <1>5, <1>6, <1>7 DEF Chunk, Run
<1>9. Faithful(d, at)
  BY <1>7, <1>8 DEF Faithful
<1>10. End(d) = c.index + len
  BY <1>3, <1>5, <1>7, <1>8 DEF End
<1>11. lo <= d.index /\ End(d) <= hi
  BY <1>5, <1>8, <1>10
<1>12. Places(d) = Places(c) \cap lo .. hi - 1
  <2>1. PICK a \in Nat, n \in Nat : a = c.index /\ n = Len(c.data)
    BY <1>3
  <2>2. End(c) = a + n /\ d.index = a + front /\ End(d) = a + len
    BY <1>3, <1>8, <1>10, <2>1
  <2>3. /\ len \in Nat /\ front \in Nat /\ front <= len /\ len <= n
        /\ lo <= a + front /\ a + len <= hi
        /\ front = 0 \/ a + front = lo
        /\ len = n \/ a + len = hi
    BY Zenon, <1>5, <2>1
  <2>4. a + front .. (a + len) - 1 = (a .. (a + n) - 1) \cap (lo .. hi - 1)
    BY <1>1, <2>3
  <2>5. Places(d) = d.index .. End(d) - 1 /\ Places(c) = c.index .. End(c) - 1
    BY DEF Places
  <2> QED
    BY Zenon, <2>1, <2>2, <2>4, <2>5
<1> QED
  BY <1>9, <1>11, <1>12 DEF d, lo, hi

(* NoteEof() sets the two fields of the end.                               *)
LEMMA NoteEofIs ==
    ASSUME NEW r, Sound(r), NEW last
    PROVE  Rec(NoteEof(r, last, TRUE), r.output, r.unasmb, r.first_unasmb, r.n_unasmb, TRUE, last)
<1>1. ASSUME NEW b, NEW s, s = [r EXCEPT !.eof_set = b, !.last_byte = last]
      PROVE  Rec(s, r.output, r.unasmb, r.first_unasmb, r.n_unasmb, b, last)
  <2> DEFINE w == With(r, r.unasmb, r.n_unasmb)
  <2>1. s = [w EXCEPT !.eof_set = b, !.last_byte = last]
    BY Zenon, <1>1 DEF Sound
  <2> QED
    BY Zenon, <2>1 DEF With, Rec
<1> QED
  BY Zenon, <1>1 DEF NoteEof

(* Ending the input changes the output only.                               *)
LEMMA EndIs ==
    ASSUME NEW r, Sound(r)
    PROVE  Rec([r EXCEPT !.output = end_input(@)], end_input(r.output), r.unasmb,
               r.first_unasmb, r.n_unasmb, r.eof_set, r.last_byte)
<1>1. ASSUME NEW q PROVE Rec([r EXCEPT !.output = q], q, r.unasmb,
                             r.first_unasmb, r.n_unasmb, r.eof_set, r.last_byte)
  BY DEF Sound, With, Rec
<1> QED
  BY Zenon, <1>1

(* Writing changes the output and what is assembled.                       *)
LEMMA WrittenIs ==
    ASSUME NEW r, Sound(r), NEW q, NEW n, NEW s, s = [r EXCEPT !.output = q, !.first_unasmb = n]
    PROVE  Rec(s, q, r.unasmb,
               n, r.n_unasmb, r.eof_set, r.last_byte)
<1> DEFINE w == With(r, r.unasmb, r.n_unasmb)
<1>1. s = [w EXCEPT !.output = q, !.first_unasmb = n]
  BY Zenon DEF Sound
<1> QED
  BY Zenon, <1>1 DEF With, Rec

(* Storing changes the list and the count.                                 *)
LEMMA StoredIs ==
    ASSUME NEW r, Sound(r), NEW v, NEW n, NEW s, s = [r EXCEPT !.n_unasmb = n, !.unasmb = v]
    PROVE  Rec(s, r.output, v,
               r.first_unasmb, n, r.eof_set, r.last_byte)
<1> DEFINE w == With(r, r.unasmb, r.n_unasmb)
<1>1. s = [w EXCEPT !.n_unasmb = n, !.unasmb = v]
  BY Zenon DEF Sound
<1> QED
  BY Zenon, <1>1 DEF With, Rec

(* merge() changes the list and the count.                                 *)
LEMMA WithIs ==
    ASSUME NEW r, NEW u, NEW n
    PROVE  Rec(With(r, u, n), r.output, u, r.first_unasmb, n, r.eof_set, r.last_byte)
BY Zenon DEF Rec, With

(* The list, what is assembled and the window are the same.                *)
Alike(s, r) ==
    /\ s.unasmb = r.unasmb /\ s.first_unasmb = r.first_unasmb
    /\ first_unacceptable(s) = first_unacceptable(r)
    /\ r.output.ended => s.output.ended
    /\ s.output.error = r.output.error

(* NoteEof(): the end that is noted has arrived.                           *)
LEMMA NoteEofFacts ==
    ASSUME NEW r, NEW at, NEW P, NEW F, InOrder(r, at, P, F), r.output.ended = FALSE,
           NEW last \in Nat, NEW is_eof \in BOOLEAN, is_eof => last \in F
    PROVE  LET s == NoteEof(r, last, is_eof)
           IN  InOrder(s, at, P, F) /\ Alike(s, r) /\ s.output = r.output
<1> DEFINE s == NoteEof(r, last, is_eof)
<1>1. CASE is_eof = FALSE
  <2>1. s = r
    BY <1>1 DEF NoteEof
  <2> QED
    BY <2>1 DEF Alike
<1>2. CASE is_eof = TRUE
  <2>1. s = NoteEof(r, last, TRUE) /\ last \in F
    BY <1>2
  <2>2. Sound(r)
    BY DEF InOrder
  <2> HIDE DEF s
  <2>3. /\ Sound(s) /\ s.output = r.output /\ s.unasmb = r.unasmb
        /\ s.first_unasmb = r.first_unasmb /\ s.n_unasmb = r.n_unasmb
        /\ s.eof_set = TRUE /\ s.last_byte = last
    <3>1. PICK b : b = TRUE
      OBVIOUS
    <3>2. Rec(s, r.output, r.unasmb, r.first_unasmb, r.n_unasmb, b, last)
      BY Zenon, <2>1, <2>2, <3>1, NoteEofIs
    <3>3. /\ Sound(s) /\ s.output = r.output /\ s.unasmb = r.unasmb
          /\ s.first_unasmb = r.first_unasmb /\ s.n_unasmb = r.n_unasmb
          /\ s.eof_set = b /\ s.last_byte = last
      BY <3>2, RecFields
    <3> QED
      BY Zenon, <3>1, <3>3
  <2>4. first_unacceptable(s) = first_unacceptable(r)
    BY <2>3 DEF first_unacceptable
  <2>5. InOrder(s, at, P, F)
    BY Zenon, <2>1, <2>3, <2>4 DEF InOrder
  <2> QED
    BY <2>3, <2>4, <2>5 DEF s, Alike
<1> QED
  BY Zenon, <1>1, <1>2

(* CheckEof(): the stream is ended where everything before the end has     *)
(* been written, because nothing lies behind the end.                      *)
LEMMA CheckEofFacts ==
    ASSUME NEW r, NEW at, NEW P, NEW F, InOrder(r, at, P, F), \A p \in P, f \in F : p < f
    PROVE  InOrder(CheckEof(r), at, P, F) /\ Alike(CheckEof(r), r)
<1> DEFINE s == CheckEof(r)
<1>1. CASE ~(r.eof_set /\ r.last_byte <= r.first_unasmb)
  <2>1. s = r
    BY <1>1 DEF CheckEof
  <2> QED
    BY <2>1 DEF Alike
<1>2. CASE r.eof_set /\ r.last_byte <= r.first_unasmb
  <2>1. s = [r EXCEPT !.output = end_input(@)]
    BY <1>2 DEF CheckEof
  <2>2. Sound(r)
    BY DEF InOrder
  <2> HIDE DEF s
  <2>3. /\ Sound(s) /\ s.output = end_input(r.output) /\ s.unasmb = r.unasmb
        /\ s.first_unasmb = r.first_unasmb /\ s.n_unasmb = r.n_unasmb
        /\ s.eof_set = r.eof_set /\ s.last_byte = r.last_byte
    <3>1. Rec(s, end_input(r.output), r.unasmb, r.first_unasmb, r.n_unasmb, r.eof_set, r.last_byte)
      BY Zenon, <2>1, <2>2, EndIs
    <3> QED
      BY <3>1, RecFields
  <2>4. /\ s.output \in Stream(Int) /\ s.output.buf = r.output.buf
        /\ s.output.written = r.output.written /\ s.output.ended
        /\ s.output.error = r.output.error
    <3>1. r.output \in Stream(Int)
      BY DEF InOrder
    <3> QED
      BY Zenon, <2>3, <3>1 DEF end_input, Stream
  <2>5. first_unacceptable(s) = first_unacceptable(r) /\ bytes_read(s.output) = bytes_read(r.output)
    BY <2>3, <2>4 DEF first_unacceptable, buffer_size, bytes_read
  <2>6. r.first_unasmb = r.last_byte
    <3>1. /\ r.first_unasmb \in Nat /\ r.last_byte \in Nat /\ r.last_byte \in F
          /\ 0 .. r.first_unasmb - 1 \subseteq P
      BY <1>2 DEF InOrder
    <3>2. ASSUME r.last_byte < r.first_unasmb PROVE FALSE
      <4>1. r.last_byte \in 0 .. r.first_unasmb - 1
        BY <3>1, <3>2
      <4> QED
        BY <3>1, <4>1
    <3> QED
      BY <1>2, <3>1, <3>2
  <2>7. InOrder(s, at, P, F)
    BY Zenon, <1>2, <2>3, <2>4, <2>5, <2>6 DEF InOrder
  <2> QED
    BY <2>3, <2>4, <2>5, <2>7 DEF s, Alike
<1> QED
  BY <1>1, <1>2

(* Place(): the merged chunk is written if it is next, and waits if not.   *)
Placed(s, r, u, e, at, P, F) ==
    /\ InOrder(s, at, P, F) /\ s.output.ended = FALSE /\ s.output.error = r.output.error
    /\ r.first_unasmb <= s.first_unasmb /\ first_unacceptable(s) = first_unacceptable(r)
    /\ Held(u) \cup Places(e) \subseteq Held(s.unasmb) \cup 0 .. s.first_unasmb - 1

(* The chunk that is next is written, and the window stays where it is.    *)
LEMMA PlaceWrites ==
    ASSUME NEW r, NEW at, NEW P, NEW F, InOrder(r, at, P, F), r.output.ended = FALSE, NEW u,
           Spaced(u, at, r.first_unasmb, first_unacceptable(r)), Held(u) \subseteq P,
           NEW e, Faithful(e, at), e.index = r.first_unasmb, End(e) <= first_unacceptable(r),
           Places(e) \subseteq P, \A j \in 1 .. Len(u) : Apart(u[j], e)
    PROVE  Placed(Place(With(r, u, Cardinality(Held(u))), e), r, u, e, at, P, F)
<1> DEFINE lo == r.first_unasmb
           hi == first_unacceptable(r)
           w == With(r, u, Cardinality(Held(u)))
           s == Place(w, e)
           q == write(r.output, e.data, recv_capacity)
           b == Len(r.output.buf)
           d == Len(e.data)
<1>1. /\ lo \in Nat /\ hi \in Nat /\ lo <= hi /\ b \in Nat /\ recv_capacity \in Nat
      /\ hi = lo + recv_capacity - b
  BY WindowFacts, CapacityAssumption
<1>15. b <= lo /\ r.output.written = lo
  BY DEF InOrder
<1>2. /\ Sound(w) /\ w.output = r.output /\ w.unasmb = u /\ w.first_unasmb = lo
      /\ w.n_unasmb = Cardinality(Held(u)) /\ w.eof_set = r.eof_set /\ w.last_byte = r.last_byte
  <2> HIDE DEF w
  <2>1. Rec(w, r.output, u, lo, Cardinality(Held(u)), r.eof_set, r.last_byte)
    BY Zenon, WithIs DEF w
  <2> QED
    BY Zenon, <2>1, RecFields
<1>3. e \in Chunk /\ Run(e.data, e.index, at)
  BY DEF Faithful
<1>4. d \in Nat /\ End(e) \in Nat /\ End(e) = lo + d /\ End(e) <= hi
  BY <1>3, ChunkFacts
<1>16. b + d <= recv_capacity
  <2> HIDE DEF b, d, lo, hi
  <2> QED
    BY <1>1, <1>4
<1> HIDE DEF w
<1>5. s = [w EXCEPT !.output = q, !.first_unasmb = End(e)]
  <2>1. s = [w EXCEPT !.output = write(w.output, e.data, recv_capacity),
                      !.first_unasmb = w.first_unasmb + Len(e.data)]
    BY Zenon, <1>2 DEF Place
  <2> QED
    BY Zenon, <1>2, <1>4, <2>1
<1> HIDE DEF s, hi
<1>6. /\ Sound(s) /\ s.output = q /\ s.unasmb = u /\ s.first_unasmb = End(e)
      /\ s.n_unasmb = Cardinality(Held(u)) /\ s.eof_set = r.eof_set /\ s.last_byte = r.last_byte
  <2> HIDE DEF q
  <2>1. /\ Sound(s) /\ s.output = q /\ s.unasmb = w.unasmb
        /\ s.first_unasmb = End(e) /\ s.n_unasmb = w.n_unasmb
        /\ s.eof_set = w.eof_set /\ s.last_byte = w.last_byte
    <3>1. Rec(s, q, w.unasmb, End(e), w.n_unasmb, w.eof_set, w.last_byte)
      BY Zenon, <1>2, <1>5, WrittenIs
    <3> QED
      BY <3>1, RecFields
  <2> QED
    BY Zenon, <1>2, <1>5, <2>1
<1>7. /\ q \in Stream(Int) /\ q.written = lo + d
      /\ Len(q.buf) = b + d /\ Run(q.buf, bytes_read(q), at)
      /\ q.ended = FALSE /\ q.error = r.output.error
  <2>1. /\ r.output \in Stream(Int) /\ Len(r.output.buf) <= r.output.written
        /\ Run(r.output.buf, bytes_read(r.output), at) /\ r.output.written = lo
    BY DEF InOrder
  <2>2. Len(r.output.buf) + Len(e.data) <= recv_capacity
    BY Zenon, <1>16
  <2>3. Run(e.data, r.output.written, at)
    BY <1>3, <2>1
  <2>4. q = write(r.output, e.data, recv_capacity)
    OBVIOUS
  <2> HIDE DEF q
  <2>5. Wrote(q, r.output, e.data, at)
    BY Zenon, <1>1, <2>1, <2>2, <2>3, <2>4, WriteContinues
  <2> QED
    BY <2>1, <2>5 DEF Wrote
<1> HIDE DEF q
<1>14. PICK z : z = Len(q.buf)
  BY Zenon
<1>17. q.written = lo + d /\ z = b + d
  BY <1>7, <1>14
<1> HIDE DEF b, d, lo
<1>8. first_unacceptable(s) = hi
  <2>1. first_unacceptable(s) = End(e) + recv_capacity - z
    BY <1>6, <1>14 DEF first_unacceptable, buffer_size
  <2> QED
    BY <1>1, <1>4, <1>17, <2>1
<1>9. Spaced(u, at, End(e), hi)
  <2>1. ASSUME NEW j \in 1 .. Len(u) PROVE End(e) < u[j].index
    <3>1. u[j] \in Chunk /\ lo < u[j].index /\ Apart(u[j], e)
      BY DEF Spaced, Faithful, lo
    <3>2. u[j].index \in Nat /\ End(u[j]) \in Nat /\ u[j].index <= End(u[j])
      BY <3>1, ChunkFacts
    <3>3. e.index = lo
      BY DEF lo
    <3> QED
      BY <1>1, <1>4, <3>1, <3>2, <3>3 DEF Apart
  <2> QED
    BY <2>1, RaisedList DEF hi
<1>10. 0 .. End(e) - 1 \subseteq P
  <2>1. \A p \in 0 .. End(e) - 1 : p \in 0 .. lo - 1 \/ p \in Places(e)
    <3>1. e.index = lo
      BY DEF lo
    <3> QED
      BY <1>1, <1>4, <3>1 DEF Places
  <2> QED
    BY <2>1 DEF InOrder, lo
<1>11. InOrder(s, at, P, F)
  <2>4. z <= recv_capacity /\ z <= q.written
    BY <1>1, <1>4, <1>15, <1>16, <1>17
  <2>1. Len(q.buf) <= recv_capacity /\ Len(q.buf) <= q.written
    BY <1>14, <2>4
  <2>2. r.eof_set \in BOOLEAN /\ r.last_byte \in Nat /\ (r.eof_set => r.last_byte \in F)
    BY Zenon DEF InOrder
  <2>3. q.written = End(e)
    BY <1>4, <1>17
  <2> QED
    BY Zenon, <1>4, <1>6, <1>7, <1>8, <1>9, <1>10, <2>1, <2>2, <2>3 DEF InOrder
<1>12. Held(u) \cup Places(e) \subseteq Held(s.unasmb) \cup 0 .. s.first_unasmb - 1
  <2>1. Places(e) \subseteq 0 .. End(e) - 1
    <3>1. e.index = lo
      BY DEF lo
    <3> QED
      BY <1>1, <1>4, <3>1 DEF Places
  <2> QED
    BY <1>6, <2>1
<1>13. Placed(s, r, u, e, at, P, F)
  <2>1. lo <= End(e)
    BY <1>1, <1>4
  <2> QED
    BY Zenon, <1>6, <1>7, <1>8, <1>11, <1>12, <2>1 DEF Placed, hi, lo
<1> QED
  BY Zenon, <1>13 DEF s, w

(* A chunk with a gap before it is stored.                                 *)
LEMMA PlaceStores ==
    ASSUME NEW r, NEW at, NEW P, NEW F, InOrder(r, at, P, F), r.output.ended = FALSE, NEW u,
           Spaced(u, at, r.first_unasmb, first_unacceptable(r)), Held(u) \subseteq P,
           NEW e, Faithful(e, at), r.first_unasmb < e.index, End(e) <= first_unacceptable(r),
           Places(e) \subseteq P, \A j \in 1 .. Len(u) : Apart(u[j], e)
    PROVE  Placed(Place(With(r, u, Cardinality(Held(u))), e), r, u, e, at, P, F)
<1> DEFINE lo == r.first_unasmb
           hi == first_unacceptable(r)
           w == With(r, u, Cardinality(Held(u)))
           s == Place(w, e)
           v == Append(u, e)
           n == Cardinality(Held(u)) + Len(e.data)
<1>1. lo \in Nat /\ hi \in Nat
  BY WindowFacts
<1>2. /\ Sound(w) /\ w.output = r.output /\ w.unasmb = u /\ w.first_unasmb = lo
      /\ w.n_unasmb = Cardinality(Held(u)) /\ w.eof_set = r.eof_set /\ w.last_byte = r.last_byte
  <2> HIDE DEF w
  <2>1. Rec(w, r.output, u, lo, Cardinality(Held(u)), r.eof_set, r.last_byte)
    BY Zenon, WithIs DEF w
  <2> QED
    BY <2>1, RecFields
<1>3. Spaced(v, at, lo, hi) /\ Held(v) = Held(u) \cup Places(e) /\ Cardinality(Held(v)) = n
  <2>1. v = Append(u, e) /\ lo < e.index /\ End(e) <= hi /\ Spaced(u, at, lo, hi)
    OBVIOUS
  <2> HIDE DEF v, lo, hi
  <2>2. Appended(v, u, e, at, lo, hi)
    BY Zenon, <1>1, <2>1, AppendedList
  <2> QED
    BY Zenon, <2>2 DEF Appended
<1> HIDE DEF w, v, n
<1>4. s = [w EXCEPT !.n_unasmb = n, !.unasmb = v]
  <2>1. e.index # w.first_unasmb
    <3>1. e.index \in Nat
      BY ChunkFacts DEF Faithful
    <3> QED
      BY <1>1, <1>2, <3>1
  <2>2. s = [w EXCEPT !.n_unasmb = w.n_unasmb + Len(e.data), !.unasmb = Append(w.unasmb, e)]
    BY Zenon, <2>1 DEF Place
  <2> QED
    BY Zenon, <1>2, <2>2 DEF n, v
<1> HIDE DEF s
<1>5. /\ Sound(s) /\ s.output = r.output /\ s.unasmb = v /\ s.first_unasmb = lo
      /\ s.n_unasmb = n /\ s.eof_set = r.eof_set /\ s.last_byte = r.last_byte
  <2>1. /\ Sound(s) /\ s.output = w.output /\ s.unasmb = v
        /\ s.first_unasmb = w.first_unasmb /\ s.n_unasmb = n
        /\ s.eof_set = w.eof_set /\ s.last_byte = w.last_byte
    <3>1. Rec(s, w.output, v, w.first_unasmb, n, w.eof_set, w.last_byte)
      BY Zenon, <1>2, <1>4, StoredIs
    <3> QED
      BY <3>1, RecFields
  <2> QED
    BY Zenon, <1>2, <1>4, <2>1
<1>6. first_unacceptable(s) = hi
  BY <1>5 DEF first_unacceptable
<1> HIDE DEF hi
<1>7. InOrder(s, at, P, F)
  BY Zenon, <1>3, <1>5, <1>6 DEF InOrder
<1>8. Placed(s, r, u, e, at, P, F)
  <2>1. lo <= s.first_unasmb
    <3>1. s.first_unasmb = lo
      BY Zenon, <1>5
    <3> HIDE DEF lo
    <3> QED
      BY <1>1, <3>1
  <2>2. Held(u) \cup Places(e) \subseteq Held(s.unasmb) \cup 0 .. s.first_unasmb - 1
    BY Zenon, <1>3, <1>5
  <2> QED
    BY Zenon, <1>5, <1>6, <1>7, <2>1, <2>2 DEF Placed, hi
<1> QED
  BY <1>8 DEF s, w

(***************************************************************************)
(* The whole call.                                                         *)
(***************************************************************************)

(* The places of c that are inside the window are held or assembled.       *)
Pushed(s, r, c, at, P, F) ==
    /\ InOrder(s, at, P, F) /\ Follows(s, r)
    /\ Places(c) \cap 0 .. first_unacceptable(r) - 1
           \subseteq Held(s.unasmb) \cup 0 .. s.first_unasmb - 1

(* A reassembler with the same list and window follows the old one.        *)
LEMMA AlikeFollows ==
    ASSUME NEW r, NEW at, NEW P, NEW F, InOrder(r, at, P, F), NEW s, Alike(s, r)
    PROVE  Follows(s, r)
<1>1. r.first_unasmb \in Nat /\ first_unacceptable(r) \in Nat
  BY WindowFacts
<1> QED
  BY <1>1 DEF Follows, Alike

(* A chunk that is stored or written leaves the reassembler in order.      *)
LEMMA PlaceFacts ==
    ASSUME NEW r, NEW at, NEW P, NEW F, InOrder(r, at, P, F), r.output.ended = FALSE, NEW u,
           Spaced(u, at, r.first_unasmb, first_unacceptable(r)), Held(u) \subseteq P,
           NEW e, Faithful(e, at), r.first_unasmb <= e.index, End(e) <= first_unacceptable(r),
           Places(e) \subseteq P, \A j \in 1 .. Len(u) : Apart(u[j], e)
    PROVE  Placed(Place(With(r, u, Cardinality(Held(u))), e), r, u, e, at, P, F)
<1>1. e.index \in Nat /\ r.first_unasmb \in Nat
  BY ChunkFacts, WindowFacts DEF Faithful
<1>2. CASE e.index = r.first_unasmb
  BY Zenon, <1>2, PlaceWrites
<1>3. CASE r.first_unasmb < e.index
  BY Zenon, <1>3, PlaceStores
<1> QED
  BY <1>1, <1>2, <1>3

(* push_substring(), from the call of merge() on.                          *)
Kept(s, r, d, at, P, F) ==
    /\ InOrder(s, at, P, F) /\ Follows(s, r)
    /\ Places(d) \subseteq Held(s.unasmb) \cup 0 .. s.first_unasmb - 1

(* What merge() has joined is placed, and nothing is lost.                 *)
LEMMA MergedIn ==
    ASSUME NEW r, NEW at, NEW P, NEW F, InOrder(r, at, P, F), \A p \in P, f \in F : p < f,
           r.output.ended = FALSE, NEW d, Faithful(d, at), r.first_unasmb <= d.index,
           End(d) <= first_unacceptable(r), Places(d) \subseteq P,
           MergedWell(r, d, at, r.first_unasmb, first_unacceptable(r), merge(r, d)),
           NEW s, s = CheckEof(Place(merge(r, d).r, merge(r, d).m.chunk))
    PROVE  Kept(s, r, d, at, P, F)
<1> DEFINE x == merge(r, d)
<1>1. PICK u, e :
        /\ x.contained = FALSE /\ x.r = With(r, u, Cardinality(Held(u))) /\ x.m.chunk = e
        /\ Spaced(u, at, r.first_unasmb, first_unacceptable(r))
        /\ Faithful(e, at) /\ r.first_unasmb <= e.index /\ End(e) <= first_unacceptable(r)
        /\ Held(u) \cup Places(e) = Held(r.unasmb) \cup Places(d)
        /\ \A j \in 1 .. Len(u) : Apart(u[j], e)
  BY Zenon DEF MergedWell
<1> DEFINE w == Place(With(r, u, Cardinality(Held(u))), e)
<1>2. Held(u) \subseteq P /\ Places(e) \subseteq P
  <2>1. Held(r.unasmb) \subseteq P
    BY Zenon DEF InOrder
  <2> QED
    BY <1>1, <2>1
<1>3. Placed(w, r, u, e, at, P, F)
  BY Zenon, <1>1, <1>2, PlaceFacts
<1>4. s = CheckEof(w)
  BY Zenon, <1>1
<1> HIDE DEF w, x
<1>5. /\ InOrder(w, at, P, F) /\ r.first_unasmb <= w.first_unasmb
      /\ first_unacceptable(w) = first_unacceptable(r) /\ w.output.error = r.output.error
      /\ Held(u) \cup Places(e) \subseteq Held(w.unasmb) \cup 0 .. w.first_unasmb - 1
  BY Zenon, <1>3 DEF Placed
<1>6. InOrder(s, at, P, F) /\ Alike(s, w)
  BY Zenon, <1>4, <1>5, CheckEofFacts
<1>7. Held(r.unasmb) \cup Places(d) \subseteq Held(s.unasmb) \cup 0 .. s.first_unasmb - 1
  BY Zenon, <1>1, <1>5, <1>6 DEF Alike
<1>8. first_unacceptable(r) \in Nat
  BY WindowFacts
<1>9. r.first_unasmb <= s.first_unasmb /\ first_unacceptable(r) <= first_unacceptable(s)
  BY <1>5, <1>6, <1>8 DEF Alike
<1>10. s.output.error = r.output.error
  BY Zenon, <1>5, <1>6 DEF Alike
<1> QED
  BY <1>6, <1>7, <1>9, <1>10 DEF Follows, Kept

(* push_substring() keeps the reassembler in order and loses nothing,      *)
(* whatever chunk of the stream arrives: above, below, inside, around or   *)
(* across the chunks that wait, again or for the first time, with the end  *)
(* of the stream or without (stream_reassembler.cc:27-115).                *)
THEOREM PushInOrder ==
    ASSUME NEW r, NEW at, NEW P, NEW F, InOrder(r, at, P, F), \A p \in P, f \in F : p < f,
           NEW c \in Chunk,
           c.index < first_unacceptable(r) => Faithful(c, at) /\ Places(c) \subseteq P,
           NEW is_eof \in BOOLEAN, is_eof => End(c) \in F
    PROVE  Pushed(push_substring(r, c, is_eof), r, c, at, P, F)
<1> DEFINE lo == r.first_unasmb
           hi == first_unacceptable(r)
           r1 == NoteEof(r, End(c), is_eof)
           x == merge(r1, Chop(r1, c))
           s == push_substring(r, c, is_eof)
<1>1. lo \in Nat /\ hi \in Nat
  BY WindowFacts
<1>2. c.index \in Nat /\ End(c) \in Nat
  BY ChunkFacts
<1>3. ASSUME NEW p, p \in Places(c) \cap 0 .. hi - 1
      PROVE  p \in Nat /\ c.index <= p /\ p < End(c) /\ p < hi /\ p \in P
  <2>1. p \in Nat /\ c.index <= p /\ p < End(c) /\ p < hi
    BY <1>1, <1>2, <1>3 DEF Places
  <2>2. c.index < hi
    BY <1>1, <1>2, <2>1
  <2> QED
    BY <1>3, <2>1, <2>2
<1>4. s = CASE r.output.ended -> r
            [] ~r.output.ended /\ ~Acceptable(r1, c) -> CheckEof(r1)
            [] OTHER -> IF x.contained THEN x.r ELSE CheckEof(Place(x.r, x.m.chunk))
  BY DEF push_substring, input_ended
<1>5. CASE r.output.ended = TRUE
  <2> HIDE DEF s, x, r1
  <2>1. s = r
    BY <1>4, <1>5
  <2>2. Follows(s, r)
    BY <2>1, AlikeFollows DEF Alike
  <2>3. lo \in F
    BY <1>5 DEF InOrder
  <2>4. Places(c) \cap 0 .. hi - 1 \subseteq 0 .. lo - 1
    <3>1. ASSUME NEW p, p \in Places(c) \cap 0 .. hi - 1 PROVE p \in 0 .. lo - 1
      <4>1. p \in Nat /\ p \in P
        BY <1>3, <3>1
      <4>2. p < lo
        BY <2>3, <4>1
      <4> HIDE DEF lo
      <4> QED
        BY <1>1, <4>1, <4>2
    <3> QED
      BY <3>1
  <2>5. Pushed(s, r, c, at, P, F)
    BY <2>1, <2>2, <2>4 DEF Pushed
  <2> QED
    BY <2>5 DEF s
<1>6. CASE r.output.ended = FALSE
  <2>1. InOrder(r1, at, P, F) /\ Alike(r1, r) /\ r1.output = r.output
    BY Zenon, <1>2, <1>6, NoteEofFacts
  <2> HIDE DEF r1
  <2>2. /\ r1.first_unasmb = lo /\ first_unacceptable(r1) = hi
        /\ r1.unasmb = r.unasmb /\ r1.output.ended = FALSE
    BY <1>6, <2>1 DEF Alike
  <2>3. CASE ~Acceptable(r1, c)
    <3> HIDE DEF s, x
    <3>1. s = CheckEof(r1)
      BY <1>4, <1>6, <2>3
    <3>2. InOrder(s, at, P, F) /\ Alike(s, r1)
      BY Zenon, <2>1, <3>1, CheckEofFacts
    <3>3. Alike(s, r) /\ s.first_unasmb = lo
      BY <2>1, <3>2 DEF Alike
    <3>4. Follows(s, r)
      BY <3>3, AlikeFollows
    <3>5. End(c) < lo \/ c.index >= hi
      BY <1>1, <1>2, <2>2, <2>3 DEF Acceptable
    <3>6. Places(c) \cap 0 .. hi - 1 \subseteq 0 .. lo - 1
      <4> HIDE DEF lo, hi
      <4>1. ASSUME NEW p, p \in Places(c) \cap 0 .. hi - 1 PROVE p \in 0 .. lo - 1
        <5>1. p \in Nat /\ c.index <= p /\ p < End(c) /\ p < hi
          BY <1>3, <4>1
        <5> QED
          BY <1>1, <1>2, <3>5, <5>1
      <4> QED
        BY <4>1
    <3>7. Pushed(s, r, c, at, P, F)
      BY <3>2, <3>3, <3>4, <3>6 DEF Pushed
    <3> QED
      BY <3>7 DEF s
  <2>4. CASE Acceptable(r1, c)
    <3> DEFINE d == Chop(r1, c)
    <3>1. Faithful(c, at) /\ Places(c) \subseteq P
      BY <2>2, <2>4 DEF Acceptable
    <3>2. /\ Faithful(d, at) /\ lo <= d.index /\ End(d) <= hi
          /\ Places(d) = Places(c) \cap lo .. hi - 1
      BY <2>1, <2>2, <2>4, <3>1, ChopFacts
    <3> HIDE DEF d
    <3>3. /\ Sound(r1) /\ Spaced(r1.unasmb, at, lo, hi)
          /\ r1.n_unasmb = Cardinality(Held(r1.unasmb))
      BY Zenon, <2>1, <2>2 DEF InOrder
    <3>4. \/ x.contained = TRUE /\ x.r = r1 /\ Places(d) \subseteq Held(r1.unasmb)
          \/ MergedWell(r1, d, at, lo, hi, x)
      BY Zenon, <1>1, <3>2, <3>3, MergeResult DEF d
    <3>5. ASSUME InOrder(s, at, P, F), Follows(s, r1),
                 Places(d) \subseteq Held(s.unasmb) \cup 0 .. s.first_unasmb - 1
          PROVE  Pushed(s, r, c, at, P, F)
      <4> HIDE DEF s, lo, hi
      <4>1. Follows(s, r)
        BY <2>1, <3>5 DEF Follows, Alike
      <4>2. lo <= s.first_unasmb /\ s.first_unasmb \in Nat
        BY Zenon, <2>2, <3>5 DEF Follows, InOrder
      <4>3. ASSUME NEW p, p \in Places(c) \cap 0 .. hi - 1
            PROVE  p \in Places(d) \/ p \in 0 .. s.first_unasmb - 1
        <5>1. p \in Nat /\ p < hi
          BY <1>3, <4>3
        <5>2. CASE p < lo
          BY <1>1, <4>2, <5>1, <5>2
        <5>3. CASE p >= lo
          <6>1. p \in lo .. hi - 1
            BY <1>1, <5>1, <5>3
          <6> QED
            BY <3>2, <4>3, <6>1
        <5> QED
          BY <1>1, <5>1, <5>2, <5>3
      <4>4. Places(c) \cap 0 .. hi - 1 \subseteq Held(s.unasmb) \cup 0 .. s.first_unasmb - 1
        BY <3>5, <4>3
      <4> QED
        BY <3>5, <4>1, <4>4 DEF Pushed, hi
    <3>6. CASE x.contained = TRUE /\ x.r = r1 /\ Places(d) \subseteq Held(r1.unasmb)
      <4>1. s = r1
        BY <1>4, <1>6, <2>4, <3>6
      <4>2. Follows(r1, r1)
        BY <2>1, AlikeFollows DEF Alike
      <4> HIDE DEF s
      <4>3. Places(d) \subseteq Held(s.unasmb) \cup 0 .. s.first_unasmb - 1
        BY <3>6, <4>1
      <4>4. Pushed(s, r, c, at, P, F)
        BY <2>1, <3>5, <4>1, <4>2, <4>3
      <4> QED
        BY <4>4 DEF s
    <3>7. CASE MergedWell(r1, d, at, lo, hi, x)
      <4>1. x.contained = FALSE
        BY Zenon, <3>7 DEF MergedWell
      <4>2. s = CheckEof(Place(merge(r1, d).r, merge(r1, d).m.chunk))
        BY <1>4, <1>6, <2>4, <4>1 DEF d
      <4>3. MergedWell(r1, d, at, r1.first_unasmb, first_unacceptable(r1), merge(r1, d))
        BY Zenon, <2>2, <3>7 DEF d
      <4>4. Places(d) \subseteq P
        BY <3>1, <3>2
      <4>5. /\ InOrder(s, at, P, F) /\ Follows(s, r1)
            /\ Places(d) \subseteq Held(s.unasmb) \cup 0 .. s.first_unasmb - 1
        <5>1. r1.first_unasmb <= d.index /\ End(d) <= first_unacceptable(r1)
          BY Zenon, <2>2, <3>2
        <5> HIDE DEF s, x
        <5>2. Kept(s, r1, d, at, P, F)
          BY Zenon, <2>1, <2>2, <3>2, <4>2, <4>3, <4>4, <5>1, MergedIn
        <5> QED
          BY Zenon, <5>2 DEF Kept
      <4> QED
        BY <3>5, <4>5
    <3> QED
      BY Zenon, <3>4, <3>6, <3>7
  <2> QED
    BY <2>3, <2>4
<1>7. r.output.ended \in BOOLEAN
  BY DEF InOrder, Stream
<1> QED
  BY Zenon, <1>5, <1>6, <1>7
(***************************************************************************)
(* The rest of what a user of the reassembler needs.                       *)
(***************************************************************************)

(* A new reassembler is in order.                                          *)
LEMMA NewInOrder ==
    ASSUME NEW at, NEW P, NEW F
    PROVE  InOrder(NewReassembler, at, P, F)
<1> DEFINE r == NewReassembler
<1>1. Rec(r, EmptyStream, <<>>, 0, 0, FALSE, 0)
  BY Zenon DEF Rec, NewReassembler
<1>2. EmptyStream \in Stream(Int) /\ EmptyStream.buf = <<>> /\ EmptyStream.written = 0
      /\ EmptyStream.ended = FALSE
  BY DEF EmptyStream, Stream
<1> HIDE DEF r
<1>3. /\ Sound(r) /\ r.output = EmptyStream /\ r.unasmb = <<>> /\ r.first_unasmb = 0
      /\ r.n_unasmb = 0 /\ r.eof_set = FALSE /\ r.last_byte = 0
  <2>1. PICK b : b = FALSE
    BY Zenon
  <2>2. Rec(r, EmptyStream, <<>>, 0, 0, b, 0)
    BY Zenon, <1>1, <2>1
  <2>3. /\ Sound(r) /\ r.output = EmptyStream /\ r.unasmb = <<>> /\ r.first_unasmb = 0
        /\ r.n_unasmb = 0 /\ r.eof_set = b /\ r.last_byte = 0
    BY Zenon, <2>2, RecFields
  <2> QED
    BY Zenon, <2>1, <2>3
<1>4. Run(<<>>, 0, at)
  <2>1. <<>> \in Seq(Int) /\ Len(<<>>) = 0 /\ 1 .. 0 = {}
    OBVIOUS
  <2> QED
    BY <2>1 DEF Run
<1>8. ASSUME NEW hi PROVE Spaced(<<>>, at, 0, hi)
  <2>1. <<>> \in Seq(Chunk) /\ Len(<<>>) = 0 /\ 1 .. 0 = {}
    OBVIOUS
  <2> QED
    BY <2>1 DEF Spaced
<1>5. Held(<<>>) = {} /\ Cardinality({}) = 0
  BY FS_EmptySet DEF Held
<1>6. /\ Len(EmptyStream.buf) = 0 /\ bytes_read(EmptyStream) = 0
      /\ 0 .. 0 - 1 = {} /\ recv_capacity \in Nat
  <2>1. Len(<<>>) = 0 /\ 0 .. 0 - 1 = {} /\ recv_capacity \in Nat
    BY CapacityAssumption
  <2>2. Len(EmptyStream.buf) = 0
    BY Zenon, <1>2, <2>1
  <2>3. bytes_read(EmptyStream) = 0 - 0
    BY Zenon, <1>2, <2>2 DEF bytes_read
  <2> QED
    BY <2>1, <2>2, <2>3
<1> DEFINE hi == first_unacceptable(r)
<1>9. Spaced(<<>>, at, 0, hi)
  BY <1>8
<1>10. /\ Len(EmptyStream.buf) <= recv_capacity /\ Len(EmptyStream.buf) <= EmptyStream.written
       /\ Run(EmptyStream.buf, bytes_read(EmptyStream), at)
  BY <1>2, <1>4, <1>6
<1>11. /\ EmptyStream.written = 0 /\ 0 \in Nat /\ FALSE \in BOOLEAN
       /\ 0 .. 0 - 1 \subseteq P /\ Held(<<>>) \subseteq P /\ 0 = Cardinality(Held(<<>>))
  BY Zenon, <1>2, <1>5, <1>6
<1> HIDE DEF hi
<1>7. InOrder(r, at, P, F)
  BY Zenon, <1>2, <1>3, <1>9, <1>10, <1>11 DEF InOrder, hi
<1> QED
  BY <1>7 DEF r

(* What is stored and what waits to be read fits into the capacity.        *)
LEMMA WithinRoom ==
    ASSUME NEW r, NEW at, NEW P, NEW F, InOrder(r, at, P, F)
    PROVE  /\ Cardinality(Held(r.unasmb)) \in Nat
           /\ Len(r.output.buf) + Cardinality(Held(r.unasmb)) <= recv_capacity
<1> DEFINE lo == r.first_unasmb
           hi == first_unacceptable(r)
           b == Len(r.output.buf)
           H == Held(r.unasmb)
<1>1. /\ lo \in Nat /\ hi \in Nat /\ lo <= hi /\ b \in Nat /\ recv_capacity \in Nat
      /\ hi = lo + recv_capacity - b
  BY WindowFacts, CapacityAssumption
<1>2. Spaced(r.unasmb, at, lo, hi)
  BY DEF InOrder
<1> HIDE DEF lo, hi, b
<1>3. H \subseteq lo .. hi - 1
  <2>1. ASSUME NEW p \in H PROVE p \in lo .. hi - 1
    <3>1. PICK i \in 1 .. Len(r.unasmb) : p \in Places(r.unasmb[i])
      BY HeldIs
    <3>2. r.unasmb[i] \in Chunk /\ lo < r.unasmb[i].index /\ End(r.unasmb[i]) <= hi
      BY <1>2 DEF Spaced, Faithful
    <3>3. r.unasmb[i].index \in Nat /\ End(r.unasmb[i]) \in Nat
      BY <3>2, ChunkFacts
    <3> QED
      BY <1>1, <3>1, <3>2, <3>3 DEF Places
  <2> QED
    BY <2>1
<1> HIDE DEF H
<1>4. IsFiniteSet(lo .. hi - 1) /\ Cardinality(lo .. hi - 1) = hi - lo
  BY <1>1, FS_Interval
<1>5. Cardinality(H) \in Nat /\ Cardinality(H) <= hi - lo
  BY Zenon, <1>3, <1>4, FS_Subset, FS_CardinalityType
<1>6. b + Cardinality(H) <= recv_capacity
  BY <1>1, <1>5
<1> QED
  BY <1>5, <1>6 DEF b, H

(***************************************************************************)
(* segment_received() on any receiver.                                     *)
(***************************************************************************)
Received(w, v, seg, isn, q) ==
    \/ v.syn_received = FALSE /\ seg.syn = FALSE /\ w = v
    \/ IsReceiver(w, TRUE, isn, q)

(* seg comes from that peer, and m is its absolute number.                 *)
FromPeer(v, seg, isn, m) ==
    /\ IsReceiver(v, v.syn_received, v.isn, v.reassembler)
    /\ v.syn_received \in BOOLEAN /\ (v.syn_received => v.isn = isn)
    /\ seg.syn \in BOOLEAN /\ (seg.syn => seg.seqno = isn)
    /\ unwrap(seg.seqno, isn, bytes_written(stream_out(v)) + 1) = m

(* With the SYN or after it the chunk is pushed; before it nothing is.     *)
LEMMA ReceiveIs ==
    ASSUME NEW v, NEW seg, NEW isn, NEW m, FromPeer(v, seg, isn, m)
    PROVE  Received(receive(v, seg), v, seg, isn,
                    push_substring(v.reassembler, ChunkOf(seg, m), seg.fin))
<1> DEFINE r1 == IF seg.syn THEN [v EXCEPT !.syn_received = TRUE, !.isn = seg.seqno] ELSE v
           n == unwrap(seg.seqno, r1.isn, bytes_written(stream_out(v)) + 1)
           c == [data |-> seg.payload, index |-> StreamIndex(n, seg)]
           w == receive(v, seg)
<1> USE DEF FromPeer
<1>1. w = IF r1.syn_received
          THEN [r1 EXCEPT !.reassembler = push_substring(r1.reassembler, c, seg.fin)]
          ELSE v
  BY Zenon DEF receive
<1>2. CASE v.syn_received = FALSE /\ seg.syn = FALSE
  BY Zenon, <1>1, <1>2 DEF Received
<1>3. ASSUME IsReceiver(r1, TRUE, isn, v.reassembler)
      PROVE  IsReceiver(w, TRUE, isn, push_substring(v.reassembler, ChunkOf(seg, m), seg.fin))
  <2> HIDE DEF r1, w
  <2>1. r1.syn_received = TRUE /\ r1.isn = isn /\ r1.reassembler = v.reassembler
    <3>1. PICK b : b = TRUE
      OBVIOUS
    <3>2. IsReceiver(r1, b, isn, v.reassembler)
      BY Zenon, <1>3, <3>1
    <3>3. r1.syn_received = b /\ r1.isn = isn /\ r1.reassembler = v.reassembler
      BY Zenon, <3>2, ReceiverFields
    <3> QED
      BY Zenon, <3>1, <3>3
  <2>2. n = m
    BY <2>1
  <2>3. c = ChunkOf(seg, m)
    BY Zenon, <2>2 DEF ChunkOf
  <2>4. PICK q : q = push_substring(v.reassembler, ChunkOf(seg, m), seg.fin)
    OBVIOUS
  <2>5. w = [r1 EXCEPT !.reassembler = q]
    BY Zenon, <1>1, <2>1, <2>3, <2>4
  <2> HIDE DEF c, n
  <2>6. IsReceiver(w, TRUE, isn, q)
    <3>1. PICK b : b = TRUE
      OBVIOUS
    <3>2. r1 = [syn_received |-> b, isn |-> isn, reassembler |-> v.reassembler]
      BY Zenon, <1>3, <3>1 DEF IsReceiver
    <3>3. w = [syn_received |-> b, isn |-> isn, reassembler |-> q]
      BY <2>5, <3>2
    <3> QED
      BY Zenon, <3>1, <3>3 DEF IsReceiver
  <2> QED
    BY Zenon, <2>4, <2>6
<1>4. CASE seg.syn = TRUE
  <2>1. ASSUME NEW b, NEW t, t = [v EXCEPT !.syn_received = b, !.isn = isn]
        PROVE  IsReceiver(t, b, isn, v.reassembler)
    <3> DEFINE z == [syn_received |-> v.syn_received, isn |-> v.isn, reassembler |-> v.reassembler]
    <3>1. t = [z EXCEPT !.syn_received = b, !.isn = isn]
      BY Zenon, <2>1 DEF IsReceiver
    <3> QED
      BY Zenon, <3>1 DEF IsReceiver
  <2>2. r1 = [v EXCEPT !.syn_received = TRUE, !.isn = isn]
    BY Zenon, <1>4
  <2>3. IsReceiver(r1, TRUE, isn, v.reassembler)
    BY Zenon, <2>1, <2>2
  <2> QED
    BY Zenon, <1>3, <2>3 DEF Received
<1>5. CASE seg.syn = FALSE /\ v.syn_received = TRUE
  <2>1. r1 = v /\ v.isn = isn
    BY Zenon, <1>5
  <2>2. IsReceiver(r1, TRUE, isn, v.reassembler)
    BY Zenon, <1>5, <2>1
  <2> QED
    BY Zenon, <1>3, <2>2 DEF Received
<1> QED
  BY Zenon, <1>2, <1>4, <1>5

(* segment_received() leaves the receiver listening                        *)
(* (tcp_receiver.cc:13-24).                                                *)
LEMMA ReceiveFacts ==
    ASSUME NEW v, NEW isn, NEW at, NEW P, NEW F, Listens(v, isn, at, P, F),
           \A p \in P, f \in F : p < f,
           NEW seg, NEW m, Genuine(v, seg, m, isn, at, P, F)
    PROVE  Heard(receive(v, seg), v, seg, isn, at, P, F)
<1> DEFINE w == receive(v, seg)
           c == ChunkOf(seg, m)
           r == v.reassembler
           q == push_substring(r, c, seg.fin)
<1> USE DEF Genuine
<1>1. /\ IsReceiver(v, v.syn_received, v.isn, v.reassembler) /\ v.syn_received \in BOOLEAN
      /\ v.syn_received => v.isn = isn
      /\ InOrder(r, at, P, F)
  BY Zenon DEF Listens
<1>2. \/ v.syn_received = FALSE /\ seg.syn = FALSE /\ w = v
      \/ IsReceiver(w, TRUE, isn, q)
  <2>1. FromPeer(v, seg, isn, m)
    BY Zenon, <1>1 DEF FromPeer
  <2>2. Received(w, v, seg, isn, q)
    BY Zenon, <2>1, ReceiveIs
  <2> QED
    BY Zenon, <2>2 DEF Received
<1>3. CASE v.syn_received = FALSE /\ seg.syn = FALSE /\ w = v
  <2>1. Follows(r, r)
    BY Zenon, <1>1, AlikeFollows DEF Alike
  <2>2. w.syn_received = (v.syn_received \/ seg.syn)
    BY Zenon, <1>3
  <2> QED
    BY Zenon, <1>3, <2>1, <2>2 DEF Heard
<1>4. CASE IsReceiver(w, TRUE, isn, q) /\ (v.syn_received = TRUE \/ seg.syn = TRUE)
  <2> HIDE DEF w
  <2>1. Pushed(q, r, c, at, P, F)
    BY Zenon, <1>1, PushInOrder
  <2> HIDE DEF q, c
  <2>2. /\ IsReceiver(w, w.syn_received, w.isn, w.reassembler)
        /\ w.syn_received = TRUE /\ w.isn = isn /\ w.reassembler = q
    <3>1. PICK b : b = TRUE
      OBVIOUS
    <3>2. IsReceiver(w, b, isn, q)
      BY Zenon, <1>4, <3>1
    <3>3. /\ IsReceiver(w, w.syn_received, w.isn, w.reassembler)
          /\ w.syn_received = b /\ w.isn = isn /\ w.reassembler = q
      BY Zenon, <3>2, ReceiverFields
    <3> QED
      BY Zenon, <3>1, <3>3
  <2>3. InOrder(q, at, P, F) /\ Follows(q, r)
    BY Zenon, <2>1 DEF Pushed
  <2>4. Listens(w, isn, at, P, F)
    BY Zenon, <2>2, <2>3 DEF Listens
  <2>5. w.syn_received = (v.syn_received \/ seg.syn)
    BY Zenon, <1>4, <2>2
  <2>6. Heard(w, v, seg, isn, at, P, F)
    BY Zenon, <2>2, <2>3, <2>4, <2>5 DEF Heard
  <2> QED
    BY Zenon, <2>6 DEF w
<1>5. CASE IsReceiver(w, TRUE, isn, q) /\ v.syn_received = FALSE /\ seg.syn = FALSE
  <2>1. w = v
    BY Zenon, <1>5 DEF receive
  <2> QED
    BY Zenon, <1>3, <1>5, <2>1
<1> QED
  BY Zenon, <1>1, <1>2, <1>3, <1>4, <1>5
=============================================================================
