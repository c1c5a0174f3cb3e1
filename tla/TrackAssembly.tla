---------------------------- MODULE TrackAssembly ----------------------------
(***************************************************************************)
(* How a track of a damaged disk is put together: FdrawSysDevDisk::        *)
(* RescueTrack (src/src/types/fdrawsys_dev.cpp) with the tracks it works   *)
(* on.  Module RescueTrack has its loops and counters; here are the        *)
(* sectors, their places and their data.                                   *)
(*                                                                         *)
(*   timed     headers with the time they passed the head, of all scans    *)
(*   middle    those and the headers of the readings, and the data the     *)
(*             controller read (timedIdDataAndPhysicalIdTrack)             *)
(*   physical  the readings of the whole track in one revolution, with     *)
(*             data (lastPhysicalTrackSingle)                              *)
(*   final     all of it (finalAllInTrack)                                 *)
(*                                                                         *)
(* A sector below another cylinder's header ("Misread") is dropped.        *)
(***************************************************************************)
EXTENDS OrphanTrack

CONSTANTS
    Scans,        \* what a timed scan can give: sequences of headers
    Readings,     \* what a reading of the whole track can give: sequences of marks
    ReadingLen,   \* bits of a reading
    DataOf(_),    \* the content of the sector with a header
    PlaceOf(_),   \* where the sector with a header lies
    MaxScans, MaxReadings, MaxTries   \* rounds; the code tries a track 3 times

VARIABLES
    stage, timed, middle, physical, final,
    found,        \* offsets of repeated headers (repeatedSectorIds, a member)
    marks,        \* what was derived of middle and final: info, scheme
    rounds

\* What the drive can give: headers, offsets from the index on, data of the sector.
InputsFit ==
    /\ TrackLen \in Nat \ {0} /\ NextMin \in Nat \ {0} /\ NextMax \in Nat \ {0}
    /\ Scans \subseteq Seq([id : Ids, off : Nat, data : {<< >>}])
    /\ Readings \subseteq Seq(Marks)
    /\ \A id \in Ids : DataOf(id) \in Goods

assemblyVars == <<stage, timed, middle, physical, final, found, marks, rounds>>

NoMarks == [info |-> NoInfo, scheme |-> << >>]

Fresh == /\ timed = << >> /\ middle = << >> /\ physical = NoTrack /\ final = << >>
         /\ marks = NoMarks

AssemblyInit ==
    /\ stage = "scan" /\ Fresh /\ found = << >>
    /\ rounds = [scans |-> 0, readings |-> 0, tries |-> 1]

(***************************************************************************)
(* Scans                                                                   *)
(***************************************************************************)

\* The headers of a scan in one revolution.
DecodeResult(scan) ==
    AddAll(<< >>, [k \in DOMAIN scan |->
                      NotZero(At(scan[k].id, scan[k].off % TrackLen, << >>))])

\* Where an exception leads: repeated sectors make the track start over, twice; a
\* wrong offset is passed on.
Thrown(problem) ==
    CASE problem \in {"overlapped", "repeated"} /\ rounds.tries < MaxTries -> "again"
      [] problem \in {"overlapped", "repeated"} /\ rounds.tries >= MaxTries -> "skipped"
      [] OTHER -> "failed"

Scan ==
    /\ stage = "scan" /\ rounds.scans < MaxScans
    /\ \E scan \in Scans :
        \E new \in {DecodeResult(scan)} :
        \E seen \in {CollectRepeatedSectorIds(new, found)},
           tuned \in {TuneOffsetsToEachOtherByMin(timed, new)} :
        \E all \in {AddAll(tuned.this, tuned.other)} :
        \E seenAll \in {CollectRepeatedSectorIds(all, seen)} :
        \E bad \in {Validate(new, seen)}, badAll \in {Validate(all, seenAll)} :
            /\ IF bad # "none" THEN found' = seen /\ UNCHANGED timed
               ELSE found' = seenAll /\ timed' = all
            /\ stage' = CASE bad # "none" -> Thrown(bad)
                          [] bad = "none" /\ badAll # "none" -> Thrown(badAll)
                          [] OTHER -> stage
    /\ rounds' = [rounds EXCEPT !.scans = @ + 1]
    /\ UNCHANGED <<middle, physical, final, marks>>

Prepare ==
    /\ stage = "scan" /\ timed # << >>
    /\ \E dropped \in {DropSectorsFromNeighborCyls(timed)} :
       \E info \in {DetermineOffsetDistanceMinMaxAverage(dropped, found, NoInfo)} :
            /\ middle' = AdjustSuspiciousOffsets(dropped, info, FALSE)
            /\ marks' = [NoMarks EXCEPT !.info = info]
    /\ stage' = "read"
    /\ UNCHANGED <<timed, physical, final, found, rounds>>

(***************************************************************************)
(* Readings                                                                *)
(***************************************************************************)

\* The whole track is read at once, then the headers found are added.
ReadPhysical ==
    /\ stage = "read" /\ rounds.readings < MaxReadings
    /\ \E reading \in Readings :
        \E info \in {DetermineOffsetDistanceMinMaxAverage(middle, found, marks.info)},
           m \in {DecodeTrack(reading, ReadingLen)} :
        \E used \in {middle # << >> /\ m.track # << >>} :
        \E new \in {IF used THEN SyncDemultiMergePhysicalUsingTimed(physical, m, middle, info, found)
                     ELSE physical} :
            /\ physical' = new
            /\ middle' = IF IsEmptyTrack(new) THEN middle
                         ELSE MergeRepeatedSectors(AddAll(middle, WithoutData(new.track)))
            /\ marks' = IF used THEN [marks EXCEPT !.info = info] ELSE marks
    /\ rounds' = [rounds EXCEPT !.readings = @ + 1]
    /\ UNCHANGED <<stage, timed, final, found>>

\* The controller finds a sector by its header.  Sectors read before are not read
\* again, and of a repeated header only the first one is.
Unread(t) == {i \in DOMAIN t : t[i].data = << >> /\ i = FirstOf(t, t[i].id)}

WithRead(t, answers) ==
    [i \in DOMAIN t |->
        IF i \in answers THEN [t[i] EXCEPT !.data = MergeData(@, <<DataOf(t[i].id)>>)] ELSE t[i]]

\* Mutant: the data of the readings is not used.
WithPhysical_Unused(t) == t

WithPhysical(t) ==
    IF IsEmptyTrack(physical) THEN t
    ELSE MergeRepeatedSectors(MergeInto(physical, t, Ids))

ReadSectors ==
    /\ stage = "read" /\ middle # << >>
    /\ \E answers \in SUBSET Unread(middle) :
        /\ middle' = WithRead(middle, answers)
        /\ final' = WithPhysical(WithRead(middle, answers))
    /\ stage' \in {"read", "finish"}
    /\ UNCHANGED <<timed, physical, found, marks, rounds>>

(***************************************************************************)
(* Finishing                                                               *)
(***************************************************************************)

GuessedAt(w, scheme, at, off) ==
    [w EXCEPT !.scheme = scheme,
              !.track = IF at = 0 THEN @ ELSE AddSector(@, At(scheme[at].id, off, << >>))]

\* Mutant: the guessed header lies where the data lies.
GuessBy_AtData(w, orphan, info, scheme) ==
    IF scheme = << >> THEN [w EXCEPT !.stopped = TRUE, !.info = info]
    ELSE GuessedAt(w, scheme, FindParentSectorIdByOffset(scheme, orphan.off), orphan.off)

GuessBy(w, orphan, info, scheme) ==
    IF scheme = << >> THEN [w EXCEPT !.stopped = TRUE, !.info = info]
    ELSE GuessedAt(w, scheme, FindParentSectorIdByOffset(scheme, orphan.off),
                   (orphan.off - IdData) % TrackLen)

GuessFor(w, orphan, info) ==
    LET SchemeOf == IF w.scheme = << >> THEN DiscoverTrackSectorScheme(w.track, info) ELSE w.scheme
    IN  GuessBy(w, orphan, info, SchemeOf)

\* An orphan that no header coheres with gets the header the scheme has there.
Guess(w, orphan) ==
    IF w.stopped \/ FindSectorForData(w.track, orphan.off) # 0 THEN w
    ELSE GuessFor(w, orphan, DetermineOffsetDistanceMinMaxAverage(w.track, found, w.info))

WithGuessed(t, w) ==
    IF ~w.stopped /\ Len(w.track) > Len(t) THEN MergeRepeatedSectors(w.track) ELSE w.track

GuessAndAddSectorIdsOfOrphans(t, info, scheme) ==
    WithGuessed(t, FoldLeft(Guess, [track |-> t, info |-> info, scheme |-> scheme, stopped |-> FALSE],
                            physical.orphans))

\* The sector that shows an invisible one is read first if it was not read yet.
DetectFirstSector(t, detected, answered) ==
    LET MadeVisible(hit) ==
            IF hit = NoSector THEN t
            ELSE MakeVisibleFirstSector(IF answered /\ t[hit.index].data = << >>
                                        THEN WithPhysical(WithRead(t, {hit.index})) ELSE t, hit)
    IN  MadeVisible(IF detected.sector # NoSector THEN detected.sector
                       ELSE FindCloseSectorPrecedingUnreadableFirstSector(t))

Finish ==
    /\ stage = "finish"
    /\ \E answered \in BOOLEAN :
        \E detected \in {FindSectorDetectingInvisibleFirstSector(final, found, marks.info, marks.scheme)} :
        \E dropped \in {DropSectorsFromNeighborCyls(DetectFirstSector(final, detected, answered))} :
        \E info \in {DetermineOffsetDistanceMinMaxAverage(dropped, found, NoInfo)} :
        \E adjusted \in {AdjustSuspiciousOffsets(dropped, info, TRUE)} :
        \E done \in {EnsureNotAlmost0Offset(
                        GuessAndAddSectorIdsOfOrphans(adjusted, info, detected.scheme))} :
        \E bad \in {Validate(done, found)} :
            /\ final' = done
            /\ marks' = [info |-> info, scheme |-> detected.scheme]
            /\ stage' = IF bad = "none" THEN "done" ELSE Thrown(bad)
    /\ UNCHANGED <<timed, middle, physical, found, rounds>>

\* Nothing but the repeated headers is kept of a try that failed.
Again ==
    /\ stage = "again"
    /\ stage' = "scan"
    /\ timed' = << >> /\ middle' = << >> /\ physical' = NoTrack /\ final' = << >>
    /\ marks' = NoMarks
    /\ rounds' = [scans |-> 0, readings |-> 0, tries |-> rounds.tries + 1]
    /\ UNCHANGED found

AssemblyNext == Scan \/ Prepare \/ ReadPhysical \/ ReadSectors \/ Finish \/ Again

AssemblySpec == AssemblyInit /\ [][AssemblyNext]_assemblyVars

(***************************************************************************)
(* Properties                                                              *)
(***************************************************************************)

Tracks == {timed, middle, final, physical.track}

Ordered(t) == \A i, j \in DOMAIN t : i < j => t[i].off <= t[j].off

PastIndex(t) == \A i \in DOMAIN t : t[i].off > 0

\* The sectors of a track lie in the order of their offsets, whatever was added, tuned,
\* adjusted or merged (Track::add, setSectorOffsetAt); of a scan and of a reading none
\* lies at 0.  The last step of Finish can pass a sector by another one: see Placed.
InOrder ==
    /\ Ordered(timed) /\ PastIndex(timed)
    /\ Ordered(physical.track) /\ PastIndex(physical.track)
    /\ Ordered(middle)
    /\ stage \in {"scan", "read", "finish"} => Ordered(final)

\* Good data is never attached to the header of another sector, on whatever way it
\* came to it: the mark of a reading, an orphan, a parent of the scheme, the
\* invisible first sector (ProcessSectorDataRefs, MergeOrphansIntoParents).
DataMeetsItsId ==
    \A t \in Tracks : \A i \in DOMAIN t : HasGood(t[i]) => t[i].data[1] = DataOf(t[i].id)

\* What was read well on the way, by the controller or from a reading, is in the
\* track that is delivered, unless the sector belongs to another cylinder or a header
\* was seen at two places (MergeRepeatedSectors drops one of them).
NothingGoodIsLost ==
    stage = "done" /\ DOMAIN found = {} =>
        \A t \in {middle, physical.track} : \A i \in DOMAIN t :
            HasGood(t[i]) /\ t[i].id \notin Misread =>
                \E j \in DOMAIN final : final[j].id = t[i].id /\ HasGood(final[j])

\* Nothing is moved before the index.  As long as no header was seen at two places,
\* each header is delivered once, in order and where it lies on the disk: tuning,
\* averaging, guessing and EnsureNotAlmost0Offset do not drift.
Placed ==
    /\ PastIndex(middle) /\ PastIndex(final)
    /\ stage = "done" => Ordered(final)
    /\ stage = "done" /\ DOMAIN found = {} =>
        \A i \in DOMAIN final :
            /\ Near(final[i].off, PlaceOf(final[i].id), TrackLen)
            /\ \A j \in DOMAIN final : final[i].id = final[j].id => i = j
=============================================================================
