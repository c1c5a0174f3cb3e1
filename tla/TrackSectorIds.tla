--------------------------- MODULE TrackSectorIds ---------------------------
(***************************************************************************)
(* Guessing the sector numbers of a track of which only some were read     *)
(* (src/src/TrackSectorIds.cpp).  A normal track carries the numbers 1..n  *)
(* in steps of an interleave, rotated to where the index is.  Unknown is   *)
(* the number of a place where no header was read.                         *)
(***************************************************************************)
EXTENDS Integers, Sequences, SequencesExt, FiniteSets, FiniteSetsExt

Unknown == -1

Known(ids) == {i \in DOMAIN ids : ids[i] # Unknown}

GetIds(cyl, n, interleave, skew, offset, base) ==
    LET \* Number s takes the first free place at or after the place the interleave gives it.
        PlaceNext(places, s, skewed) ==
            LET from == (skewed + s * interleave) % n
                free == {k \in 0..n-1 : places[((from + k) % n) + 1] = Unknown}
            IN  [places EXCEPT ![((from + Min(free)) % n) + 1] = base + s]
    IN  FoldLeft(LAMBDA places, s : PlaceNext(places, s, offset + skew * cyl),
                 [i \in 1..n |-> Unknown], [i \in 1..n |-> i - 1])

GetTrackSectorIds(n, interleave) == GetIds(0, n, interleave, 0, 0, 1)

Rotated(ids, by) == [i \in DOMAIN ids |-> ids[((i - 1 - by) % Len(ids)) + 1]]

NoMatch == -1

\* How far ids has to be rotated to agree with what is known; the first known
\* number decides.
MatchSectorIds(ids, incomplete) ==
    LET first == Min(Known(incomplete))
        at == SelectInSeq(ids, LAMBDA id : id = incomplete[first])
        by == (first - at) % Len(ids)
        Agrees(i) == incomplete[i] = ids[((i - 1 - by) % Len(ids)) + 1]
    IN  IF Known(incomplete) # {} /\ at # 0 /\ \A i \in Known(incomplete) : Agrees(i)
        THEN by ELSE NoMatch

ExtendableTo(ids, more) == IsPrefix(ids, more)

\* The numbers of sectors and the interleaves tried, in this order.
Tried(least, sup) ==
    FlattenSeq([k \in 1..Max({0, sup - least}) |->
        [interleave \in 1..Max({0, least + k - 2}) |-> <<least + k - 1, interleave>>]])

\* The complete numbers of a track, << >> when there is no answer.
FindCompleteTrackSectorIdsFor(incomplete) ==
    LET \* A later match replaces the one found if it extends it, otherwise there is no
        \* answer; what was found is rotated already, what it is compared with is not.
        TryNext(state, trial) ==
            LET ids == GetTrackSectorIds(trial[1], trial[2])
                by == MatchSectorIds(ids, incomplete)
            IN  CASE state.ambiguous \/ by = NoMatch -> state
                  [] state.found # << >> /\ ~ExtendableTo(state.found, ids) ->
                        [found |-> << >>, ambiguous |-> TRUE]
                  [] OTHER -> [found |-> Rotated(ids, by), ambiguous |-> FALSE]
        least == Max({Max(Known(incomplete)), Max(Range(incomplete))})
        trials == Tried(least, Len(incomplete) + 1)
    IN  IF Known(incomplete) = {} THEN << >>
        ELSE FoldLeft(LAMBDA state, trial : TryNext(state, trial),
                      [found |-> << >>, ambiguous |-> FALSE], trials).found

\* Unknown places beyond the complete numbers are dropped.
ReplaceMissingSectorIdsFrom(pairs, complete) ==
    LET kept == SelectSeq([i \in DOMAIN pairs |-> i],
                          LAMBDA i : pairs[i].id # Unknown \/ i <= Len(complete))
    IN  [k \in DOMAIN kept |->
            IF pairs[kept[k]].id = Unknown
            THEN [pairs[kept[k]] EXCEPT !.id = complete[kept[k]]]
            ELSE pairs[kept[k]]]

GetSectorIds(pairs) == [i \in DOMAIN pairs |-> pairs[i].id]

\* << >> when the missing numbers cannot be found.
ReplaceMissingIdsByFindingTrackSectorIds(pairs) ==
    LET complete == FindCompleteTrackSectorIdsFor(GetSectorIds(pairs))
    IN  IF complete = << >> THEN << >> ELSE ReplaceMissingSectorIdsFrom(pairs, complete)

\* Is an offset in an interval that may run over the index?
IsRingedWithin(start, end, x) ==
    IF start <= end THEN start <= x /\ x <= end ELSE start <= x \/ x <= end

IsRingedIntersecting(s1, e1, s2, e2) ==
    CASE s1 <= e1 /\ s2 <= e2 -> s1 <= e2 /\ s2 <= e1
      [] s1 > e1 /\ s2 > e2   -> TRUE
      [] OTHER                -> s1 <= e2 \/ s2 <= e1

\* The only place that an interval meets, 0 when there is none or two.
FindByInterval(pairs, start, end) ==
    LET hits == {i \in DOMAIN pairs :
                    IsRingedIntersecting(start, end, pairs[i].start, pairs[i].end)}
    IN  IF Cardinality(hits) = 1 THEN Max(hits) ELSE 0

FindSectorIdByOffset(pairs, off) == FindByInterval(pairs, off, off)

(***************************************************************************)
(* What an answer promises.                                                *)
(***************************************************************************)

\* The arrangements of at most n sectors that agree with what is known.
Arrangements(incomplete) ==
    LET least == Max({Max(Known(incomplete)), Max(Range(incomplete))})
        Numbers(x) == GetTrackSectorIds(x[1], x[2])
        By(x) == MatchSectorIds(Numbers(x), incomplete)
    IN  {Rotated(Numbers(x), By(x)) :
            x \in {y \in (least..Len(incomplete)) \X (1..Len(incomplete)) :
                    y[2] < y[1] /\ By(y) # NoMatch}}
=============================================================================
