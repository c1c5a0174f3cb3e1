------------------------------- MODULE Track -------------------------------
(***************************************************************************)
(* A track: sectors in the order of their offsets on a ring of TrackLen    *)
(* bits (src/src/Track.cpp).  Readings place the same sector a little      *)
(* differently each time, so an addition merges into the first sector of   *)
(* the same header that lies within a tolerance, and operations that move  *)
(* sectors have to keep their order.                                       *)
(*                                                                         *)
(* A sector is its header (id), its offset and its data; its data is a     *)
(* sequence of copies, one alone once a good one was read (module Sector    *)
(* has the detail).  Offset 0 means that the position is unknown.          *)
(***************************************************************************)
EXTENDS Integers, Sequences, SequencesExt, FiniteSets, FiniteSetsExt, Functions

CONSTANTS
    Ids,          \* headers of sectors
    Orphan,       \* the header of data without header
    Misread,      \* headers that belong to a neighbour cylinder
    Bad,          \* contents of bad copies
    Goods,        \* contents of good copies
    MaxBadCopies, \* bad copies kept of a sector
    TrackLen,     \* bits of one revolution
    Tolerance,    \* distance within which two offsets are the same place
    Almost0,      \* offsets below this become 0 in some files
    Overhead,     \* bits of a sector before its data
    DataBits,     \* bits of the data of a sector
    NextMin,      \* least distance of two sectors that do not overlap
    DetectFirst   \* unhide_first_sector_by_track_end_sector

Headers == Ids \cup {Orphan}
At(id, off, data) == [id |-> id, off |-> off, data |-> data]

Abs(n) == IF n < 0 THEN -n ELSE n

\* Are two offsets the same place on a ring of len bits?
Near(o, p, len) ==
    LET d == Abs(o - p) IN Min({d, len - d}) <= Tolerance

NearUnwrapped(o, p) == Abs(o - p) <= Tolerance

Same(s, r, len) == s.id = r.id /\ Near(s.off, r.off, len)

\* The way from s on to r around the ring.
Distance(s, r, len) == (r.off - s.off) % len

FirstIndex(t, Test(_)) == SelectInSeq(t, Test)

IsGood(data) == data # << >> /\ data[1] \in Goods

HasGood(s) == IsGood(s.data)

(***************************************************************************)
(* Merging data                                                            *)
(***************************************************************************)

\* A good copy replaces the bad ones and refuses more; a new bad one is added
\* while there is place.
AddCopy(data, c) ==
    CASE IsGood(data) \/ c \in Range(data) -> data
      [] ~IsGood(data) /\ c \in Goods      -> <<c>>
      [] ~IsGood(data) /\ c \in Bad \ Range(data) /\ Len(data) < MaxBadCopies -> Append(data, c)
      [] OTHER                             -> data

MergeData(data, more) ==
    LET merged[k \in 0..Len(more)] == IF k = 0 THEN data ELSE AddCopy(merged[k - 1], more[k])
    IN  merged[Len(more)]

\* Nothing is known about data without header: every copy counts as a bad one.
AddRaw(data, c) == IF c \in Range(data) \/ Len(data) >= MaxBadCopies THEN data ELSE Append(data, c)

MergeRaw(data, more) ==
    LET merged[k \in 0..Len(more)] == IF k = 0 THEN data ELSE AddRaw(merged[k - 1], more[k])
    IN  merged[Len(more)]

WithData(t, i, data) == [t EXCEPT ![i].data = data]

\* The next sector with a header after the i-th one, around the ring.
NextWithHeader(t, i) ==
    LET n == Len(t)
        step == Min({k \in 1..n : t[((i - 1 + k) % n) + 1].id # Orphan})
    IN  ((i - 1 + step) % n) + 1

\* Does the next header begin before the data of the i-th sector can end?
DataOverlap(t, i) ==
    LET j == NextWithHeader(t, i)
        bits == IF j > i THEN t[j].off - t[i].off ELSE t[j].off + TrackLen - t[i].off
    IN  t[i].off # 0 /\ t[i].id # Orphan /\ Max({0, bits - Overhead}) < DataBits

\* Only one copy is kept of data that runs into the next sector.
MergeAt(t, i, s) ==
    LET data == IF s.id = Orphan THEN MergeRaw(t[i].data, s.data) ELSE MergeData(t[i].data, s.data)
        merged == WithData(t, i, data)
    IN  IF merged # t /\ t[i].id # Orphan /\ DataOverlap(merged, i) /\ data # << >>
        THEN WithData(t, i, <<data[1]>>)
        ELSE merged

(***************************************************************************)
(* Adding                                                                  *)
(***************************************************************************)

\* Before the first sector that lies behind it.
InsertionPoint(t, s) ==
    LET behind == FirstIndex(t, LAMBDA r : s.off < r.off)
    IN  IF behind = 0 THEN Len(t) + 1 ELSE behind

\* On a ring of len bits.
AddOnRing(t, s, len) ==
    LET i == FirstIndex(t, LAMBDA r : Same(s, r, len))
    IN  CASE s.off = 0 -> Append(t, s)
          [] s.off # 0 /\ i # 0 -> MergeAt(t, i, s)
          [] OTHER -> InsertAt(t, InsertionPoint(t, s), s)

AddSector(t, s) == AddOnRing(t, s, TrackLen)

AddAllOnRing(t, ss, len) ==
    LET added[k \in 0..Len(ss)] == IF k = 0 THEN t ELSE AddOnRing(added[k - 1], ss[k], len)
    IN  added[Len(ss)]

AddAll(t, ss) == AddAllOnRing(t, ss, TrackLen)

\* The sectors at some places, in their order.
Chosen(t, places) ==
    LET chosen[k \in 0..Len(t)] ==
            IF k = 0 THEN << >>
            ELSE IF k \in places THEN Append(chosen[k - 1], t[k]) ELSE chosen[k - 1]
    IN  chosen[Len(t)]

(***************************************************************************)
(* Moving                                                                  *)
(***************************************************************************)

\* Mutant: a sector that gets another offset stays where it stands.
NewIndex_Stays(t, i, off) == i

\* Where the i-th sector comes to stand when it gets another offset: before those
\* that lie behind it, or behind those that lie before it.
NewIndex(t, i, off) ==
    LET Behind == {j \in 1..i-1 : \A k \in j..i-1 : t[k].off > off}
        Before == {j \in i+1..Len(t) : \A k \in i+1..j : t[k].off < off}
    IN  CASE off < t[i].off -> i - Cardinality(Behind)
          [] off > t[i].off -> i + Cardinality(Before)
          [] OTHER -> i

SetSectorOffsetAt(t, i, off) ==
    InsertAt(RemoveAt(t, i), NewIndex(t, i, off), [t[i] EXCEPT !.off = off])

NotZero(s) == IF s.off = 0 THEN [s EXCEPT !.off = 1] ELSE s

\* The sectors below Almost0 move up by what the first one lacks.
EnsureNotAlmost0Offset(t) ==
    LET shift == Almost0 - t[1].off
        low == {i \in DOMAIN t : i = 1 \/ \A k \in 2..i : t[k].off < Almost0}
    IN  IF t = << >> \/ shift <= 0 THEN t
        ELSE [i \in DOMAIN t |-> IF i \in low THEN [t[i] EXCEPT !.off = @ + shift] ELSE t[i]]

\* Two readings of the same track: matched sectors both take the lesser offset.
\* State of the walk: both tracks and the place in each.
TuneStep(w) ==
    LET s == w.this[w.i]
        r == w.other[w.j]
        reach == {m \in w.j..Len(w.other) :
                     \A n \in w.j..m : NearUnwrapped(s.off, w.other[n].off)}
        match == {m \in reach : w.other[m].id = s.id}
        m == Min(match)
        low == w.other[m].off
    IN  IF w.i > Len(w.this) \/ w.j > Len(w.other) THEN w
        ELSE IF ~NearUnwrapped(s.off, r.off)
        THEN IF s.off < r.off THEN [w EXCEPT !.i = @ + 1] ELSE [w EXCEPT !.j = @ + 1]
        ELSE IF match = {} THEN [w EXCEPT !.i = @ + 1]
        ELSE IF s.off < low
        THEN [w EXCEPT !.other = SetSectorOffsetAt(@, m, s.off), !.i = @ + 1,
                       !.j = NewIndex(w.other, m, s.off) + 1]
        ELSE [w EXCEPT !.this = SetSectorOffsetAt(@, w.i, low), !.j = m + 1,
                       !.i = NewIndex(w.this, w.i, low) + 1]

TuneOffsetsToEachOtherByMin(t, u) ==
    LET steps == (Len(t) + 1) * (Len(u) + 1)
        tuned[k \in 0..steps] ==
            IF k = 0 THEN [this |-> t, other |-> u, i |-> 1, j |-> 1] ELSE TuneStep(tuned[k - 1])
    IN  tuned[steps]

(***************************************************************************)
(* The same header at several places                                       *)
(***************************************************************************)

Places(t, id) == SelectSeq([i \in DOMAIN t |-> i], LAMBDA i : t[i].id = id)

\* The offsets of the first two sectors of a header, for each header not yet known
\* to be repeated.
CollectRepeatedSectorIds(t, repeated) ==
    LET twice == {id \in Ids : Len(Places(t, id)) > 1} \ DOMAIN repeated
    IN  [id \in DOMAIN repeated \cup twice |->
            IF id \in twice THEN {t[Places(t, id)[1]].off, t[Places(t, id)[2]].off}
            ELSE repeated[id]]

Known(repeated, s) ==
    s.id \in DOMAIN repeated /\ \E off \in repeated[s.id] : Near(s.off, off, TrackLen)

\* What is wrong at the i-th sector.
Problem(t, repeated, i) ==
    LET s == t[i]
        j == NextWithHeader(t, i)
        r == t[j]
        d == Distance(s, r, TrackLen)
        twin == j # i /\ r.id = s.id
    IN  CASE s.off = 0 -> "zero"
          [] i < Len(t) /\ t[i + 1].off < s.off -> "order"
          [] s.id = Orphan \/ j = i -> "none"
          [] twin /\ d <= Tolerance -> "close"
          [] twin /\ d < NextMin /\ ~Known(repeated, r) -> "overlapped"
          [] twin /\ d < 2 * NextMin /\ ~Known(repeated, r) -> "repeated"
          [] \E k \in j..Len(t) : /\ r.off >= s.off /\ t[k].id = s.id
                                  /\ ~Known(repeated, t[k]) -> "repeated"
          [] OTHER -> "none"

\* The walk goes from header to header; data without header is seen before the
\* first header only.
Walked(t) == {i \in DOMAIN t : t[i].id # Orphan \/ \A k \in 1..i : t[k].id = Orphan}

Validate(t, repeated) ==
    LET wrong == {i \in Walked(t) : Problem(t, repeated, i) # "none"}
    IN  IF Len(t) < 2 \/ wrong = {} THEN "none" ELSE Problem(t, repeated, Min(wrong))

\* Of overlapping sectors the later one stays, of others the former.
Survivor(t, id) ==
    LET places == Places(t, id)
    IN  FoldLeft(LAMBDA i, j : IF Distance(t[i], t[j], TrackLen) < NextMin THEN j ELSE i,
                 Head(places), Tail(places))

FindToleratedSame(t, s) == FirstIndex(t, LAMBDA r : Same(r, s, TrackLen))

\* A duplicate that lies where no sector of its header was left is dropped.
MergeDuplicate(t, s) ==
    LET i == FindToleratedSame(t, s)
    IN  IF i = 0 THEN t ELSE WithData(t, i, MergeData(t[i].data, s.data))

MergeByAvoidingRepeatedSectors(t, duplicates) ==
    LET merged[k \in 0..Len(duplicates)] ==
            IF k = 0 THEN t ELSE MergeDuplicate(merged[k - 1], duplicates[k])
    IN  merged[Len(duplicates)]

MergeRepeatedSectors(t) ==
    LET stay == {i \in DOMAIN t : t[i].id = Orphan \/ Survivor(t, t[i].id) = i}
    IN  IF Len(t) < 2 THEN t
        ELSE MergeByAvoidingRepeatedSectors(Chosen(t, stay), AddAll(<< >>, Chosen(t, DOMAIN t \ stay)))

DropSectorsFromNeighborCyls(t) == Chosen(t, {i \in DOMAIN t : t[i].id \notin Misread})

WithoutData(t) == [i \in DOMAIN t |-> [t[i] EXCEPT !.data = << >>]]

FirstOf(t, id) == FirstIndex(t, LAMBDA r : r.id = id)

\* The first place in u of each sector of t that is not known to be repeated.
FindMatchingSectors(t, u, repeated) ==
    LET bases == {i \in DOMAIN t : /\ t[i].id # Orphan /\ t[i].id \notin DOMAIN repeated
                                   /\ FirstOf(u, t[i].id) # 0}
    IN  [i \in bases |-> FirstOf(u, t[i].id)]

(***************************************************************************)
(* The first sector                                                        *)
(***************************************************************************)

NoSector == [index |-> 0, id |-> Orphan, off |-> 0]

\* The last sector lies right before the first one, which could not be read.
FindCloseSectorPrecedingUnreadableFirstSector(t) ==
    IF /\ DetectFirst /\ Len(t) >= 2
       /\ Distance(t[Len(t)], t[1], TrackLen) <= Tolerance
       /\ t[1].data = << >>
    THEN [index |-> Len(t), id |-> t[1].id, off |-> t[1].off]
    ELSE NoSector

\* The data of the found sector is also that of the first one.
MakeVisibleFirstSector(t, found) ==
    LET carrier == At(found.id, found.off, t[found.index].data)
    IN  CASE t = << >> \/ found = NoSector -> t
          [] t # << >> /\ t[1].id = found.id /\ t[1].off = found.off ->
                [t EXCEPT ![1].data = MergeData(@, carrier.data)]
          [] OTHER -> AddSector(t, carrier)
=============================================================================
