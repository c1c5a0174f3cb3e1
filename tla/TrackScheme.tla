----------------------------- MODULE TrackScheme -----------------------------
(***************************************************************************)
(* What a normal disk allows to guess about a track: sectors of one size   *)
(* lie at an even distance, so the distance can be measured, headers that  *)
(* were not read leave holes of that width, and an offset that does not    *)
(* fit can be put right (src/src/Track.cpp).                               *)
(*                                                                         *)
(* Distances are kept as fractions: Unit times the distance for the single *)
(* ones, a sum and a count for the average, so that nothing is rounded     *)
(* where the code computes with doubles.                                   *)
(***************************************************************************)
EXTENDS Track

CONSTANTS
    NextMax,      \* distance of two sectors with a full gap
    IdOverhead    \* bits of a header

SchemeIds == INSTANCE TrackSectorIds

Unit == 12   \* holes of up to four sectors divide it

\* The nearest integer to a fraction of positive denominator; halves away from zero.
Round(num, den) ==
    IF num >= 0 THEN (2 * num + den) \div (2 * den) ELSE -((den - 2 * num) \div (2 * den))

\* d as a number of sectors, by the pitch that comes closer to an integer.
SectorsBetween(d) ==
    LET Off(p) == Min({d % p, p - (d % p)})
        p == IF Off(NextMin) * NextMax <= Off(NextMax) * NextMin THEN NextMin ELSE NextMax
    IN  Round(d, p)

NoInfo == [sum |-> 0, n |-> 0, least |-> 0, ignored |-> {}, far |-> {}]

IsEmpty(info) == info.n = 0

\* The average distance in bits.
Average(info) == Round(info.sum, info.n * Unit)

DistanceToNext(t, i) == Distance(t[i], t[NextWithHeader(t, i)], TrackLen)

\* Distances in units of one sector.
Single(t, i) == (Unit * DistanceToNext(t, i)) \div SectorsBetween(DistanceToNext(t, i))

Deviation(t, info, i) == Abs(info.n * Single(t, i) - info.sum)

\* The one that is farthest from the average is left out until both ends are about
\* equally far from it, or one is left; of equals the later goes.
Trim(t, info, left) ==
    LET worst == Max({i \in left : \A j \in left : Deviation(t, info, j) <= Deviation(t, info, i)})
        ends == Min({Single(t, i) : i \in left}) + Max({Single(t, i) : i \in left})
    IN  IF info.n = 1 \/ 10 * Abs(info.n * ends - 2 * info.sum) <= Tolerance * Unit * info.n THEN info
        ELSE [info EXCEPT !.sum = @ - Single(t, worst), !.n = @ - 1, !.far = @ \cup {worst}]

Trimmed(t, all, used) ==
    LET trimmed[k \in 0..Len(t)] ==
            IF k = 0 THEN all ELSE Trim(t, trimmed[k - 1], used \ trimmed[k - 1].far)
    IN  trimmed[Len(t)]

SumOfSingles(t, used) ==
    LET sum[k \in 0..Len(t)] ==
            IF k = 0 THEN 0 ELSE sum[k - 1] + (IF k \in used THEN Single(t, k) ELSE 0)
    IN  sum[Len(t)]

WithLeast(t, info, used) ==
    [info EXCEPT !.least = Min({Single(t, i) : i \in used \ info.far})]

Averaged(t, used, ignored) ==
    WithLeast(t, Trimmed(t, [NoInfo EXCEPT !.sum = SumOfSingles(t, used), !.n = Cardinality(used),
                                           !.ignored = ignored], used), used)

\* Only what is read once tells the distance.
Measurable(t, repeated, i) == t[i].id # Orphan /\ t[i].id \notin DOMAIN repeated

\* The sectors whose distance to the next is measured.
Measured(t, repeated) ==
    {i \in DOMAIN t : /\ Measurable(t, repeated, i)
                      /\ NextWithHeader(t, i) # i
                      /\ Measurable(t, repeated, NextWithHeader(t, i))}

\* What was measured before is kept, whatever was done to the track since.
DetermineOffsetDistanceMinMaxAverage(t, repeated, info) ==
    LET measured == Measured(t, repeated)
        tooNear == {i \in measured : SectorsBetween(DistanceToNext(t, i)) = 0}
        used == measured \ tooNear
        ignored == info.ignored \cup tooNear
    IN  IF ~IsEmpty(info) THEN info
        ELSE IF Len(t) < 2 \/ used = {} THEN [info EXCEPT !.ignored = ignored]
        ELSE Averaged(t, used, ignored)

(***************************************************************************)
(* Holes                                                                   *)
(***************************************************************************)

Place(id, start, end) == [id |-> id, start |-> start, end |-> end]

Wrap(off) == IF off >= TrackLen THEN off - TrackLen ELSE off

\* The places of all sectors with their numbers, << >> when they cannot be told.
DiscoverTrackSectorScheme(t, info) ==
    LET \* The places in the hole behind the i-th sector.
        Holes(i) ==
            LET next == IF i < Len(t) THEN t[i + 1].off ELSE TrackLen + t[1].off
                from == t[i].off + Average(info)
                hole == next - from
                least == Round(info.least, Unit)
                count == (hole + Tolerance) \div Average(info)
                rest == Max({0, hole - count * least})
                start(k) == Wrap(from + (k - 1) * least)
            IN  IF hole <= Tolerance THEN << >>
                ELSE [k \in 1..Max({0, count}) |->
                        Place(SchemeIds!Unknown, start(k), Wrap(start(k) + rest))]
        used == SelectSeq([i \in DOMAIN t |-> i],
                          LAMBDA i : t[i].id # Orphan /\ i \notin info.ignored)
        pairs == FlattenSeq([k \in DOMAIN used |->
                    <<Place(t[used[k]].id, t[used[k]].off, t[used[k]].off)>>
                        \o Holes(used[k])])
    IN  IF t = << >> \/ IsEmpty(info) \/ pairs = << >> THEN << >>
        ELSE SchemeIds!ReplaceMissingIdsByFindingTrackSectorIds(pairs)

TriedWithout(rest, i, info) ==
    [info |-> info, index |-> i, scheme |-> DiscoverTrackSectorScheme(rest, info)]

Candidates(t) ==
    SelectSeq([i \in DOMAIN t |-> i], LAMBDA i :
        /\ t[i].id # Orphan
        /\ t[i].off >= TrackLen - Tolerance \/ t[i].off <= Tolerance)

TryDetectors(t, repeated, whole) ==
    LET \* One candidate is taken out and the scheme of the others is looked for; a distance
        \* measured meanwhile is kept for the next candidate.
        TryDetector(state, i) ==
            IF state.scheme # << >> THEN state
            ELSE TriedWithout(RemoveAt(t, i), i,
                       DetermineOffsetDistanceMinMaxAverage(RemoveAt(t, i), repeated, state.info))
    IN  FoldLeft(LAMBDA s, i : TryDetector(s, i), whole, Candidates(t))

Detected(whole, state, at) ==
    [sector |-> IF whole.scheme # << >> \/ state.scheme = << >> \/ at = 0 THEN NoSector
                ELSE [index |-> state.index, id |-> state.scheme[at].id,
                      off |-> state.scheme[at].end - 1],
     info |-> state.info, scheme |-> state.scheme]

DetectedIn(t, repeated, whole) ==
    LET DetectedBy(state) ==
            Detected(whole, state,
                     SchemeIds!FindSectorIdByOffset(state.scheme, t[state.index].off + IdOverhead))
    IN  DetectedBy(TryDetectors(t, repeated, whole))

\* A sector at the seam of the track that is in the way of the scheme shows that
\* there is an invisible one: the scheme of the others tells its number.  The
\* distances were measured with the sector in place.  A scheme once found stays.
FindSectorDetectingInvisibleFirstSector(t, repeated, info, known) ==
    IF ~DetectFirst \/ t = << >> \/ known # << >>
    THEN [sector |-> NoSector, info |-> info, scheme |-> known]
    ELSE DetectedIn(t, repeated,
                    TriedWithout(t, 0, DetermineOffsetDistanceMinMaxAverage(t, repeated, info)))

(***************************************************************************)
(* Suspicious offsets                                                      *)
(***************************************************************************)

PreviousWithHeader(t, i) ==
    LET n == Len(t)
        step == Min({k \in 1..n : t[((i - 1 - k) % n) + 1].id # Orphan})
    IN  ((i - 1 - step) % n) + 1

\* A walk over the headers: w.i is the sector, w.before its distance from the last
\* one (-1 when not known).  A sector too near the next is moved away from it when
\* there is place before it; when balancing, the next one of the others is moved.
AdjustStep(w, info, balance) ==
    LET t == w.track
        j == NextWithHeader(t, w.i)
        d == Distance(t[w.i], t[j], TrackLen)
        more == Round(info.sum - d * info.n * Unit, info.n * Unit)
        before == IF w.before < 0
                  THEN Distance(t[PreviousWithHeader(t, w.i)], t[w.i], TrackLen) ELSE w.before
        place == before >= Round(info.sum + more * info.n * Unit, info.n * Unit)
        one == Round(d * info.n * Unit, info.sum) = 1
        moved == CASE one /\ w.i \in info.far /\ more > 0 /\ place ->
                        SetSectorOffsetAt(t, w.i, t[w.i].off - more)
                   [] one /\ w.i \notin info.far /\ balance ->
                        SetSectorOffsetAt(t, j, t[j].off + more)
                   [] OTHER -> t
    IN  IF w.i > Len(t) THEN w
        ELSE IF t[w.i].id = Orphan \/ w.i \in info.ignored THEN [w EXCEPT !.i = @ + 1]
        ELSE IF j <= w.i THEN [w EXCEPT !.i = Len(t) + 1]
        ELSE [track |-> moved, i |-> j, before |-> d]

AdjustSuspiciousOffsets(t, info, balance) ==
    IF t = << >> \/ IsEmpty(info) THEN t
    ELSE LET adjusted[k \in 0..Len(t)] ==
                 IF k = 0 THEN [track |-> t, i |-> 1, before |-> -1]
                 ELSE AdjustStep(adjusted[k - 1], info, balance)
         IN  adjusted[Len(t)].track
=============================================================================
