----------------------------- MODULE OrphanTrack -----------------------------
(***************************************************************************)
(* Tracks with data whose header was not read (the "orphans"), and how     *)
(* data and headers find each other: src/src/OrphanDataCapableTrack.cpp,   *)
(* PhysicalTrackMFM.cpp (the marks of a track read at once) and            *)
(* TimedAndPhysicalDualTrack.cpp (bringing such a reading, which begins    *)
(* anywhere and lasts more than one revolution, into one revolution by the *)
(* headers that were timed).                                               *)
(*                                                                         *)
(* A track with orphans is a record [track, orphans].  A mark of a reading *)
(* is [kind, id, off, data]; the data after a data mark is one copy.       *)
(***************************************************************************)
EXTENDS TrackScheme

CONSTANTS
    IdData,                \* distance of a header and its data
    IdDataMin, IdDataMax,  \* the least and greatest that is accepted
    ByteBits,              \* bits of the medium for a byte
    Short                  \* content of data cut off before its end

Copies == Goods \cup Bad \cup {Short}

\* What a reading of the whole track holds: headers, and data below no header yet.
Marks ==
    {m \in [kind : {"id", "data"}, id : Headers, off : Int, data : Seq(Copies)] :
        m.kind = "id" => m.id \in Ids}

NoTrack == [track |-> << >>, orphans |-> << >>]

IsEmptyTrack(odc) == odc.track = << >> /\ odc.orphans = << >>

\* Headers, data below a header, good data, orphans.
Score(odc) ==
    FoldLeft(LAMBDA n, s : n + 1 + (IF s.data # << >> THEN 2 ELSE 0) + (IF HasGood(s) THEN 1 ELSE 0),
             0, odc.track) + Len(odc.orphans)

(***************************************************************************)
(* Data without header meets a header                                      *)
(***************************************************************************)

\* Mutant: any data behind a header belongs to it.
Cohere_Unbounded(idOff, dataOff, len) == (dataOff - idOff) % len >= IdDataMin

\* May the data at dataOff belong to the header at idOff on a ring of len bits?
Cohere(idOff, dataOff, len) ==
    LET d == dataOff - idOff
        wrapped == d % len
    IN  IF d < IdDataMax THEN IdDataMin <= wrapped /\ wrapped <= IdDataMax
        ELSE d = IdDataMax

\* The first header that coheres, of any data: 0 when there is none.
FindSectorForData(t, off) ==
    FirstIndex(t, LAMBDA s : s.id # Orphan /\ Cohere(s.off, off, TrackLen))

SuitableParent(orphan, off) ==
    SchemeIds!IsRingedWithin((orphan.off - IdDataMax) % TrackLen,
                             (orphan.off - IdDataMin) % TrackLen, off)

\* The place of the scheme where the header of an orphan has to lie.
FindParentSectorIdByOffset(pairs, off) ==
    SchemeIds!FindByInterval(pairs, (off - IdDataMax) % TrackLen, (off - IdDataMin) % TrackLen)

\* Data that is cut off is taken only where there is none.
OrphanDataMerged(data, orphans) ==
    IF data # << >> /\ Range(orphans) \subseteq {Short} THEN data ELSE MergeData(data, orphans)

\* The first header within reach whose successor is not within reach too.
ParentOf(orphan, parents, considered) ==
    FirstIndex([i \in DOMAIN parents |-> i], LAMBDA i :
        /\ parents[i].id \in considered
        /\ SuitableParent(orphan, parents[i].off)
        /\ ~(i < Len(parents) /\ SuitableParent(orphan, parents[i + 1].off)))

MergeOrphan(w, orphan, remove, considered) ==
    LET i == ParentOf(orphan, w.parents, considered)
    IN  [parents |-> IF i = 0 THEN w.parents
                     ELSE WithData(w.parents, i, OrphanDataMerged(w.parents[i].data, orphan.data)),
         orphans |-> IF i # 0 /\ remove THEN w.orphans ELSE Append(w.orphans, orphan)]

MergeOrphansIntoParents(orphans, parents, remove, considered) ==
    LET merged[k \in 0..Len(orphans)] ==
            IF k = 0 THEN [parents |-> parents, orphans |-> << >>]
            ELSE MergeOrphan(merged[k - 1], orphans[k], remove, considered)
    IN  merged[Len(orphans)]

\* Into a track that is kept elsewhere; the headers that are not considered do not
\* take part.
MergeInto(odc, target, considered) ==
    MergeOrphansIntoParents(odc.orphans, AddAll(target, Chosen(odc.track, {i \in DOMAIN odc.track : odc.track[i].id \in considered})),
                            FALSE, considered).parents

(***************************************************************************)
(* The marks of a reading                                                  *)
(***************************************************************************)

\* The reading holds Len bits; its ring is made twice as long so that nothing
\* meets over the end.
MarksOf(marks, kind, len) ==
    LET ofKind == Chosen(marks, {i \in DOMAIN marks : marks[i].kind = kind})
    IN  AddAllOnRing(<< >>, [i \in DOMAIN ofKind |-> At(ofKind[i].id, ofKind[i].off, ofKind[i].data)], 2 * len)

\* Data without header ends where the next mark begins.
RawData(w, len) ==
    LET ends == {len} \cup (IF w.i <= Len(w.track) THEN {w.track[w.i].off} ELSE {})
                      \cup (IF w.j < Len(w.orphans) THEN {w.orphans[w.j + 1].off} ELSE {})
    IN  IF Min(ends) - w.orphans[w.j].off < DataBits THEN <<Short>> ELSE w.orphans[w.j].data

\* Both lists are walked together.  A header that does not cohere with the data at
\* hand is passed, wherever the two lie.  Data that the reading does not hold to its
\* end is given to nobody.
DataRefStep(w, len) ==
    LET s == w.track[w.i]
        o == w.orphans[w.j]
        coheres == w.i <= Len(w.track) /\ Cohere(s.off, o.off, 2 * len)
        nextCoheres == w.i < Len(w.track) /\ Cohere(w.track[w.i + 1].off, o.off, 2 * len)
        whole == o.off + DataBits <= len
    IN  CASE w.j > Len(w.orphans) -> w
          [] w.j <= Len(w.orphans) /\ coheres /\ nextCoheres -> [w EXCEPT !.i = @ + 1]
          [] w.j <= Len(w.orphans) /\ coheres /\ ~nextCoheres /\ ~whole ->
                [w EXCEPT !.i = @ + 1, !.j = @ + 1, !.orphans = WithData(@, w.j, << >>)]
          [] w.j <= Len(w.orphans) /\ coheres /\ ~nextCoheres /\ whole ->
                [w EXCEPT !.i = @ + 1, !.track = WithData(@, w.i, MergeData(s.data, o.data)),
                          !.orphans = RemoveAt(@, w.j)]
          [] w.j <= Len(w.orphans) /\ ~coheres /\ w.i <= Len(w.track) -> [w EXCEPT !.i = @ + 1]
          [] OTHER -> [w EXCEPT !.j = @ + 1, !.orphans = WithData(@, w.j, RawData(w, len)),
                                !.open = w.j = Len(w.orphans) /\ w.i > Len(w.track)]

\* "open" when the data of the last orphan runs to the end of the reading.
ProcessSectorDataRefs(track, orphans, len) ==
    LET steps == Len(track) + Len(orphans)
        walked[k \in 0..steps] ==
            IF k = 0 THEN [track |-> track, orphans |-> orphans, i |-> 1, j |-> 1, open |-> FALSE]
            ELSE DataRefStep(walked[k - 1], len)
        w == walked[steps]
    IN  IF track = << >> \/ orphans = << >>
        THEN [track |-> track, orphans |-> WithoutData(orphans), open |-> FALSE]
        ELSE [track |-> w.track, orphans |-> w.orphans, open |-> w.open]

\* Headers of bad checksum are not marks; those of another cylinder are left out.
DecodeTrack(marks, len) ==
    ProcessSectorDataRefs(MarksOf(marks, "id", len), MarksOf(marks, "data", len), len)

(***************************************************************************)
(* One revolution of a reading                                             *)
(***************************************************************************)

\* The distance in sectors of two places of the reading: by the measured average.
\* Without one the bits are divided by the bytes of a sector.
SectorsApart(p, q, info) ==
    LET d == Abs(p - q)
    IN  IF IsEmpty(info) THEN Round(d * ByteBits, Overhead + DataBits)
        ELSE Round(d * info.n * Unit, info.sum)

\* The base of a header is the last one before it, or the next one behind it when
\* looking backward, that is in the timed track; of an orphan too, but there has
\* to be another base on its other side.  At most three sectors away.
BaseOf(m, bases, info, off, between, forward) ==
    LET before == {b \in bases : m.track[b].off <= off}
        behind == {b \in bases : m.track[b].off >= off}
        base == IF forward THEN Max(before) ELSE Min(behind)
    IN  IF \/ (IF forward THEN before ELSE behind) = {}
           \/ between /\ (before = {} \/ behind = {})
           \/ SectorsApart(off, m.track[base].off, info) > 3
        THEN 0 ELSE base

Moved(m, ref, matching, s, base) ==
    NotZero([s EXCEPT !.off = (@ - (m.track[base].off - ref[matching[base]].off)) % TrackLen])

\* Each header and orphan goes where its base goes: first those with a base before
\* them, in order, then the others, from the end.
Demultied(m, ref, matching, info, ss, between) ==
    LET before == [k \in DOMAIN ss |-> BaseOf(m, DOMAIN matching, info, ss[k].off, between, TRUE)]
        behind == [k \in DOMAIN ss |-> BaseOf(m, DOMAIN matching, info, ss[k].off, between, FALSE)]
        places == [k \in DOMAIN ss |-> k]
        first == Chosen(places, {k \in DOMAIN ss : before[k] # 0})
        others == Reverse(Chosen(places, {k \in DOMAIN ss : before[k] = 0 /\ behind[k] # 0}))
    IN  [k \in DOMAIN first |-> Moved(m, ref, matching, ss[first[k]], before[first[k]])]
            \o [k \in DOMAIN others |-> Moved(m, ref, matching, ss[others[k]], behind[others[k]])]

AsTrack(merged) == [track |-> merged.parents, orphans |-> merged.orphans]

MergedDemultied(physical, m, ref, matching, info) ==
    IF DOMAIN matching = {} THEN physical
    ELSE AsTrack(MergeOrphansIntoParents(
            AddAll(physical.orphans, Demultied(m, ref, matching, info, m.orphans, TRUE)),
            AddAll(physical.track, Demultied(m, ref, matching, info, m.track, FALSE)), TRUE, Ids))

\* Data that runs to the end of the reading can be broken.
DropBrokenLast(m) == [track |-> m.track, orphans |-> IF m.open THEN Front(m.orphans) ELSE m.orphans]

\* The answer: the physical track after the reading was merged into it.
SyncDemultiMergePhysicalUsingTimed(physical, reading, ref, info, repeated) ==
    MergedDemultied(physical, DropBrokenLast(reading), ref,
                    FindMatchingSectors(reading.track, ref, repeated), info)
=============================================================================
