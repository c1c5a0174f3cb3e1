----------------------------- MODULE DemandDisk -----------------------------
(***************************************************************************)
(* A disk whose tracks are loaded when they are first asked for (class     *)
(* DemandDisk).  Readers are the threads of Disk::preload and, afterwards, *)
(* the main thread.  A read of a track that is not cached loads it, then   *)
(* rescans it while the two retry counters allow, keeping the better of    *)
(* the kept and the new track, and stores the kept one.                    *)
(***************************************************************************)
EXTENDS RetryPolicy, FiniteSets

CONSTANTS
    Readers,         \* threads that read
    Cyls,            \* cylinders; a track is a cylinder and a head
    Ids,             \* sectors a track can have
    Skippable,       \* sectors the caller needs no more
    Rescans,         \* option rescans
    Retries,         \* option retries
    Revs,            \* revolutions a load stands for: 5 with flux, else 1
    Loads,           \* the sectors a load can find, a set of tracks
    Flip,            \* option flip: the sides are swapped after opening
    Nothing          \* a track that is not there

\* How well a sector of a track was read.
BadId == "badid"
Bad == "bad"
Good == "good"
Stable == "stable"

Heads == {0, 1}

CylHeads == Cyls \X Heads

\* The same cylinder on the other side.
OtherSide(c) == <<c[1], 1 - c[2]>>

\* A track as its loading sees it: which sectors there are and how good they are.
Sectors == UNION {[ids -> {BadId, Bad, Good, Stable}] : ids \in SUBSET Ids}

\* A track of the disk: where on the medium it was read and what was found.
Track == [from : CylHeads, sectors : Sectors]

ASSUME DemandDiskAssumption ==
    /\ Rescans \in Int /\ Retries \in Int
    /\ Revs \in Nat \ {0}
    /\ IsFiniteSet(Ids) /\ Skippable \subseteq Ids
    /\ Loads \subseteq Sectors
    /\ Flip \in BOOLEAN
    /\ Nothing \notin Track

SectorsIn(sectors, qualities) ==
    Cardinality({i \in DOMAIN sectors : sectors[i] \in qualities})

HasAllStableData(sectors) ==
    \A i \in DOMAIN sectors :
        sectors[i] = Stable \/ (sectors[i] # BadId /\ i \in Skippable)

\* Mutant: a track with fewer sectors can be better.
Better_GoodFirst(new, old) ==
    SectorsIn(new, {Good, Stable}) > SectorsIn(old, {Good, Stable})

\* More sectors, then more good ones, then more stable ones.
Better(new, old) ==
    LET Size(t) == Cardinality(DOMAIN t)
        Goods(t) == SectorsIn(t, {Good, Stable})
        Stables(t) == SectorsIn(t, {Stable})
    IN  \/ Size(new) > Size(old)
        \/ Size(new) = Size(old) /\ Goods(new) > Goods(old)
        \/ Size(new) = Size(old) /\ Goods(new) = Goods(old) /\ Stables(new) > Stables(old)

-----------------------------------------------------------------------------
VARIABLES
    trackdata,   \* the tracks the disk holds
    loaded,      \* m_loaded: the tracks that were loaded
    reading,     \* per reader: what it is doing
    flipped,     \* the sides were swapped
    history      \* per reader: the loads of its current read, for the properties

vars == <<trackdata, loaded, reading, flipped, history>>

Steps == {"idle", "load", "ask", "rescan", "store", "fetch"}

Reading ==
    [step : Steps, track : CylHeads \cup {Nothing}, kept : Loads \cup {Nothing},
     rescans : Policy, retries : Policy]

NoRead == [step |-> "idle", track |-> Nothing, kept |-> Nothing,
           rescans |-> OptionPolicy(Rescans), retries |-> OptionPolicy(Retries)]

\* Revolutions are counted until no amount can grant more of them.
Enough ==
    LET rescans == OptionPolicy(Rescans).initial
        retries == OptionPolicy(Retries).initial
    IN  (IF rescans > retries THEN rescans ELSE retries) + Revs

Spent(h) == IF h.spent + Revs < Enough THEN h.spent + Revs ELSE Enough

NoHistory == [seen |-> {}, spent |-> 0]

Init ==
    /\ trackdata = [c \in CylHeads |-> Nothing]
    /\ loaded = {}
    /\ reading = [r \in Readers |-> NoRead]
    /\ flipped = FALSE
    /\ history = [r \in Readers |-> NoHistory]

Busy == {r \in Readers : reading[r].step # "idle"}

AllIdle == Busy = {}

\* A reader asks for a track.  Range::each hands every track to one reader only.
Ask(r) ==
    /\ reading[r].step = "idle"
    /\ \E c \in CylHeads, uncached \in BOOLEAN :
        /\ \A o \in Busy : reading[o].track # c
        /\ reading' = [reading EXCEPT ![r] =
              [@ EXCEPT !.step = IF uncached \/ c \notin loaded THEN "load" ELSE "fetch",
                        !.track = c]]
    /\ UNCHANGED <<trackdata, loaded, flipped, history>>

\* The quick first read.  Sectors found count as a change for the rescans.
FirstLoad(r) ==
    /\ reading[r].step = "load"
    /\ \E t \in Loads :
        /\ reading' = [reading EXCEPT ![r] =
              [@ EXCEPT !.step = "ask",
                        !.kept = t,
                        !.rescans = [OptionPolicy(Rescans) EXCEPT !.wasChange = DOMAIN t # {}],
                        !.retries = OptionPolicy(Retries)]]
        /\ history' = [history EXCEPT ![r] = [seen |-> {t}, spent |-> 0]]
    /\ UNCHANGED <<trackdata, loaded, flipped>>

\* The loop's condition; the retries are asked only when no rescan is left.
GoesOn(b) ==
    \/ HasMoreRetry(b.rescans)
    \/ HasMoreRetry(b.retries) /\ ~HasAllStableData(b.kept)

AskMore(r) ==
    /\ reading[r].step = "ask"
    /\ LET b == reading[r] IN
        reading' = [reading EXCEPT ![r] =
            [b EXCEPT !.step = IF GoesOn(b) THEN "rescan" ELSE "store",
                      !.rescans = Asked(b.rescans),
                      !.retries = IF HasMoreRetry(b.rescans) THEN b.retries
                                  ELSE Asked(b.retries)]]
    /\ UNCHANGED <<trackdata, loaded, flipped, history>>

Rescan(r) ==
    /\ reading[r].step = "rescan"
    /\ \E t \in Loads :
        LET b == reading[r]
            better == Better(t, b.kept)
        IN  /\ reading' = [reading EXCEPT ![r] =
                  [b EXCEPT !.step = "ask",
                            !.kept = IF better THEN t ELSE b.kept,
                            !.rescans = Minus(IF better THEN Changed(b.rescans) ELSE b.rescans,
                                              Revs),
                            !.retries = Minus(b.retries, Revs)]]
            /\ history' = [history EXCEPT ![r] =
                  [seen |-> @.seen \cup {t}, spent |-> Spent(@)]]
    /\ UNCHANGED <<trackdata, loaded, flipped>>

\* A load throws: the read ends, nothing is stored.
LoadFails(r) ==
    /\ reading[r].step \in {"load", "rescan"}
    /\ reading' = [reading EXCEPT ![r] = NoRead]
    /\ history' = [history EXCEPT ![r] = NoHistory]
    /\ UNCHANGED <<trackdata, loaded, flipped>>

\* The kept track is moved into the track data of its cylinder and head.
Stored(r) == [from |-> reading[r].track, sectors |-> reading[r].kept]

\* Under the lock of the track data: the track and its mark.
Store(r) ==
    /\ reading[r].step = "store"
    /\ trackdata' = [trackdata EXCEPT ![reading[r].track] = Stored(r)]
    /\ loaded' = loaded \cup {reading[r].track}
    /\ reading' = [reading EXCEPT ![r].step = "fetch"]
    /\ UNCHANGED <<flipped, history>>

\* Disk::readNC hands the stored track out.
Fetch(r) ==
    /\ reading[r].step = "fetch"
    /\ reading' = [reading EXCEPT ![r] = NoRead]
    /\ history' = [history EXCEPT ![r] = NoHistory]
    /\ UNCHANGED <<trackdata, loaded, flipped>>

\* Mutant: the clearing of the marks is forgotten.
Unmarked_Kept(range) == loaded

Unmarked(range) == loaded \ range

\* The main thread, while no other thread reads: the copying loops forget what
\* was loaded, a track is written, the disk is emptied.
ClearCache ==
    /\ AllIdle
    /\ \E range \in SUBSET CylHeads : loaded' = Unmarked(range)
    /\ UNCHANGED <<trackdata, reading, flipped, history>>

Write ==
    /\ AllIdle
    /\ \E c \in CylHeads, t \in Loads :
        /\ loaded' = loaded \cup {c}
        /\ trackdata' = [trackdata EXCEPT ![c] = [from |-> c, sectors |-> t]]
    /\ UNCHANGED <<reading, flipped, history>>

Clear ==
    /\ AllIdle
    /\ trackdata' = [c \in CylHeads |-> Nothing]
    /\ loaded' = Unmarked(CylHeads)
    /\ UNCHANGED <<reading, flipped, history>>

\* ReadImage swaps the sides of the disk it has opened; the marks stay.
FlipSides ==
    /\ Flip /\ ~flipped
    /\ AllIdle
    /\ trackdata' = [c \in CylHeads |-> trackdata[OtherSide(c)]]
    /\ flipped' = TRUE
    /\ UNCHANGED <<loaded, reading, history>>

\* One turn of a reader; a failing load is a choice of the medium.
Proceed(r) == FirstLoad(r) \/ AskMore(r) \/ Rescan(r) \/ Store(r) \/ Fetch(r)

Next ==
    \/ \E r \in Readers : Ask(r) \/ Proceed(r) \/ LoadFails(r)
    \/ ClearCache \/ Write \/ Clear \/ FlipSides

Spec == Init /\ [][Next]_vars

\* A thread that reads is not stopped; asking for tracks is up to the caller.
FairSpec == Spec /\ \A r \in Readers : WF_vars(Proceed(r))

-----------------------------------------------------------------------------
(* Properties.                                                             *)

\* Every variable has its type.
TypeOK ==
    /\ trackdata \in [CylHeads -> Track \cup {Nothing}]
    /\ loaded \subseteq CylHeads
    /\ reading \in [Readers -> Reading]
    /\ flipped \in BOOLEAN
    /\ history \in [Readers -> [seen : SUBSET Loads, spent : Nat]]

\* What is marked as loaded is there, and is what was read at that place: with
\* several readers, failing loads, forgotten and written tracks, as long as the
\* sides are not swapped.
CachedIsLoaded ==
    ~flipped => \A c \in loaded : trackdata[c] # Nothing /\ trackdata[c].from = c

\* A sector more counts for more than all the qualities, a good one for more than
\* all that is stable.
Score(t) ==
    LET base == Cardinality(Ids) + 1
    IN  Cardinality(DOMAIN t) * base * base
            + SectorsIn(t, {Good, Stable}) * base + SectorsIn(t, {Stable})

\* The stored track is the best of everything the read has loaded: no load of
\* this read was better than the track that is kept at the end.
BestIsKept ==
    \A r \in Readers :
        reading[r].step \in {"ask", "store"} =>
            \A t \in history[r].seen : Score(t) <= Score(reading[r].kept)

\* A read gives up on unstable data only after the revolutions of all retries;
\* an amount below zero grants one retry less before the first change.
RetriesAreMade ==
    \A r \in Readers :
        reading[r].step = "store" /\ ~HasAllStableData(reading[r].kept)
            => history[r].spent >= OptionPolicy(Retries).retryTimes

\* Rescans are made even when all data is stable, and a change starts them over:
\* a read that found sectors makes as many as the amount, whatever its sign.
RescansAreMade ==
    \A r \in Readers :
        reading[r].step = "store" /\ DOMAIN reading[r].kept # {}
            => history[r].spent >= OptionPolicy(Rescans).initial

\* With amounts that do not start over the larger of the two bounds the read.
LoadsAreBounded ==
    \A r \in Readers :
        Rescans >= 0 /\ Retries >= 0
            => history[r].spent < (IF Rescans > Retries THEN Rescans ELSE Retries) + Revs

\* Every read ends, also when each change for the better starts the rescans over.
ReadEnds ==
    \A r \in Readers : reading[r].step # "idle" ~> reading[r].step = "idle"

-----------------------------------------------------------------------------
(* What comments and docs promise and the code does not keep.              *)

\* Disk.cpp:208 "Move tracks to the new head position": after the sides were
\* swapped every track that is loaded is the one of the other side.
FlipMovesTracks ==
    flipped => \A c \in loaded : trackdata[c] # Nothing /\ trackdata[c].from = OtherSide(c)

=============================================================================
