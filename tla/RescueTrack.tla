----------------------------- MODULE RescueTrack -----------------------------
(***************************************************************************)
(* The rescuing method of the floppy controller (BlindReadHeaders112 and   *)
(* RescueTrack of FdrawSysDevDisk).  Timed scans collect the headers of a  *)
(* track until no counter grants another or all wanted ones are found.     *)
(* Then rounds of reading the whole track physically and, in the last      *)
(* round or when all wanted headers are known, of reading single sectors   *)
(* make the result.  A sector read by the controller and in the physical   *)
(* track has the good reads of both (Sector); headers are error free and   *)
(* all different.                                                          *)
(***************************************************************************)
EXTENDS RetryPolicy, ReadingPolicy, Functions

CONSTANTS
    Requests,      \* the policies callers come with
    Amounts,       \* values of the options rescans and retries, as pairs
    Strays,        \* sectors misread from a neighbor cylinder
    NormalDisk,    \* option normal_disk
    Limit,         \* numbers allowed by the options base and sectors
    UnhideFirst,   \* option unhide-first-sector-by-track-end-sector
    Level,         \* good reads that make a sector stable
    \* How well a sector is known from the physical track: 0 not at all, 1 its
    \* header, 2 its data with errors, 2 + n its data with n good reads.
    Levels

ASSUME RescueTrackAssumption ==
    /\ Requests \subseteq {p \in DeviceReadingPolicy : RemembersTruth(p)}
    /\ Amounts \subseteq Int \X Int
    /\ Strays \subseteq Sites
    /\ NormalDisk \in BOOLEAN /\ UnhideFirst \in BOOLEAN
    /\ Level \in Nat \ {0}
    /\ {0} \subseteq Levels /\ Levels \subseteq 0..Level + 2

GoodReads(level) == IF level > 2 THEN level - 2 ELSE 0

\* OrphanDataCapableTrack::Score, a point for the header, two for data, one for
\* every good read.
Points(level) == IF level > 1 THEN level + 1 ELSE level

\* The order of the counters, by what is left only.
Below(p, q) ==
    \/ p.retryTimes < q.retryTimes
    \/ p.retryTimes = q.retryTimes /\ ~p.sinceLastChange /\ q.sinceLastChange

MaxTries == 3

-----------------------------------------------------------------------------
VARIABLES
    step,          \* what comes next
    request,       \* deviceReadingPolicy
    amounts,       \* the options rescans and retries
    tries,         \* the loop of BlindReadHeaders112
    detected,      \* encoding of the track in m_trackInfo
    scanPolicy,    \* deviceReadingPolicyForScanning
    rescans,       \* timedTrackRescans, then physicalTrackRescans
    timed,         \* timedIdTrack
    ids,           \* timedIdDataAndPhysicalIdTrack
    tried,         \* its sectors with read attempts
    good,          \* good reads by the controller
    physical,      \* lastPhysicalTrackSingle
    final,         \* finalAllInTrack
    kept,          \* the good reads its sectors are counted with
    outcome,       \* how the loops ended
    history        \* what was done, for the properties

local == <<scanPolicy, rescans, timed, ids, tried, good, physical, final, kept>>

vars == <<step, request, amounts, tries, detected, local, outcome, history>>

Steps == {"idle", "scan", "more", "prepare", "round", "physical", "final"}

RescansOption == OptionPolicy(amounts[1])
RetriesOption == OptionPolicy(amounts[2])

PhysicalRescansInit ==
    IF Below(RescansOption, RetriesOption) THEN RetriesOption ELSE RescansOption

\* Scans and physical reads made, those since one brought something new, and the
\* sectors whose reading was commanded.
NoHistory == [scans |-> 0, quiet |-> 0, asked |-> {}]

\* The counts of the history stop here, beyond what any amount grants.
MaxCount ==
    LET scans == RescansOption.initial
        readings == RetriesOption.initial
    IN  (IF scans > readings THEN scans ELSE readings) + 2

NextCount(n) == IF n < MaxCount THEN n + 1 ELSE n

Counted(new) == [history EXCEPT !.scans = NextCount(@),
                                !.quiet = IF new THEN 0 ELSE NextCount(@)]

NoReads == [s \in Sites |-> 0]

\* RescueTrack is entered, or left: what it does not return is gone.
Locals(req) ==
    /\ scanPolicy' = req
    /\ rescans' = RescansOption
    /\ timed' = {} /\ ids' = {} /\ tried' = {}
    /\ good' = NoReads /\ physical' = NoReads
    /\ history' = NoHistory

NoResult == final' = {} /\ kept' = NoReads

Fresh(req) == Locals(req) /\ NoResult

Init ==
    /\ step = "idle"
    /\ request \in Requests
    /\ amounts \in Amounts
    /\ tries = 0
    /\ detected = "unknown"
    /\ scanPolicy = request
    /\ rescans = RescansOption
    /\ timed = {} /\ ids = {} /\ tried = {} /\ final = {}
    /\ good = NoReads /\ kept = NoReads /\ physical = NoReads
    /\ outcome = "none"
    /\ history = NoHistory

\* A track is to be loaded; an earlier load may have detected its encoding.
Begin ==
    /\ step = "idle"
    /\ step' = "scan"
    /\ tries' = 1
    /\ outcome' = "none"
    /\ detected' \in {"unknown", "MFM", "FM"}
    /\ request' \in Requests
    /\ UNCHANGED amounts
    /\ Fresh(request')

-----------------------------------------------------------------------------
(* The scanning loop.                                                      *)

Ends(how) == step' = "idle" /\ outcome' = how

\* The encoding is not detected, or is one that only the other method reads.
ScanWithoutResult ==
    /\ step = "scan"
    /\ \/ detected = "unknown" /\ detected' \in {"unknown", "FM"}
       \/ detected = "FM" /\ UNCHANGED detected
    /\ Ends("empty")
    /\ Fresh(request)
    /\ UNCHANGED <<request, amounts, tries>>

\* Headers are found, none if the track is known to be encoded.
Scan ==
    /\ step = "scan"
    /\ detected # "FM"
    /\ \E found \in SUBSET Sites :
        /\ found = {} => detected = "MFM"
        /\ detected' = "MFM"
        /\ timed' = timed \cup found
        /\ LET grown == timed' # timed
           IN  /\ scanPolicy' = IF grown THEN AddSkippableSectors(request, timed') ELSE scanPolicy
               /\ rescans' = IF grown THEN Changed(rescans) ELSE rescans
               /\ history' = Counted(grown)
    /\ step' = "more"
    /\ UNCHANGED <<request, amounts, tries, ids, tried, good, physical, final, kept, outcome>>

\* The condition of the loop; whether more is wanted is asked if there is a retry.
ScanAgain ==
    /\ step = "more"
    /\ LET granted == HasMoreRetry(rescans)
       IN  /\ step' = IF granted /\ WantMoreSectors(scanPolicy) THEN "scan" ELSE "prepare"
           /\ scanPolicy' = IF granted THEN Wondered(scanPolicy) ELSE scanPolicy
    /\ rescans' = Minus(Asked(rescans), 1)
    /\ UNCHANGED <<request, amounts, tries, detected, timed, ids, tried, good, physical,
                   final, kept, outcome, history>>

Dropped == IF NormalDisk THEN Strays ELSE {}

\* The reading loop starts from the headers found; the counter is the larger one.
Prepare ==
    /\ step = "prepare"
    /\ IF timed = {}
       THEN Ends("empty") /\ Fresh(request)
       ELSE /\ step' = "round"
            /\ ids' = timed \ Dropped
            /\ rescans' = Minus(PhysicalRescansInit, -1)
            /\ history' = [history EXCEPT !.scans = 0, !.quiet = 0]
            /\ UNCHANGED <<scanPolicy, timed, tried, good, physical, final, kept, outcome>>
    /\ UNCHANGED <<request, amounts, tries, detected>>

-----------------------------------------------------------------------------
(* The reading loop.                                                       *)

\* sectorFilterPredicate
Passes(policy, s) ==
    /\ s \notin policy.skippable
    /\ policy.wanted = {} \/ IdOf[s] \in policy.wanted
    /\ NormalDisk => IdOf[s] \in Limit

\* Of the sectors of one number the one that was read, or else the first one.
IsMain(track, attempted, s) ==
    LET same == {t \in track : IdOf[t] = IdOf[s]}
    IN  IF same \cap attempted # {} THEN s \in attempted ELSE \A t \in same : s <= t

Selected(policy, track, attempted) ==
    {s \in track \ attempted : IsMain(track, attempted, s) /\ Passes(policy, s)}

PhysicalSites == {s \in Sites : physical[s] > 0}

\* The physical track adds the sectors that pass to the result.
FromPhysical(policy) == {s \in PhysicalSites : Passes(policy, s)}

\* A track with these good reads, with the physical track merged into it.
Merged(policy, counts, track) ==
    [s \in Sites |->
        IF s \notin track \cup FromPhysical(policy) THEN 0
        ELSE counts[s] + IF s \in FromPhysical(policy) THEN GoodReads(physical[s]) ELSE 0]

\* What the commands of the selected sectors yield; some attempts are not counted.
Readings(selected) ==
    UNION {[counted -> 0..Level] : counted \in SUBSET selected}

Updated(counts, n) == [s \in Sites |-> IF s \in DOMAIN n THEN n[s] ELSE counts[s]]

ReadIds(policy) ==
    \E n \in Readings(Selected(policy, ids, tried)) :
        /\ tried' = tried \cup DOMAIN n
        /\ good' = Updated(good, n)
        /\ history' = [history EXCEPT !.asked = @ \cup Selected(policy, ids, tried)]
        /\ final' = ids \cup FromPhysical(policy)
        /\ kept' = Merged(policy, good', ids)

StableSectors == {s \in final : kept[s] >= Level}

\* Mutant: the policy of the scanning is passed on.
ReadingRequest_Scanning == scanPolicy

ReadingRequest == request

\* Mutant: the precheck costs a physical reading.
EndingRound_Early == rescans.retryTimes <= 1

EndingRound == rescans.retryTimes <= 0

ReadsNow == EndingRound \/ ~WantMoreSectors(scanPolicy)

\* Headers are still looked for.
RoundWithoutReading ==
    /\ step = "round"
    /\ ~ReadsNow
    /\ step' = "physical"
    /\ scanPolicy' = Wondered(scanPolicy)
    /\ UNCHANGED <<request, amounts, tries, detected, rescans, timed, ids, tried, good,
                   physical, final, kept, outcome, history>>

RoundWithReading ==
    /\ step = "round"
    /\ ReadsNow
    /\ scanPolicy' = IF EndingRound THEN scanPolicy ELSE Wondered(scanPolicy)
    /\ IF ids = {}
       THEN UNCHANGED <<tried, good, final, kept, history>>
       ELSE ReadIds(ReadingRequest)
    /\ IF ~WantMoreSectors(AddSkippableSectors(request, StableSectors'))
       THEN step' = "final" /\ outcome' = "complete"
       ELSE IF EndingRound
       THEN step' = "final" /\ outcome' = "spent"
       ELSE step' = "physical" /\ UNCHANGED outcome
    /\ UNCHANGED <<request, amounts, tries, detected, rescans, timed, ids, physical>>

\* Mutant: as good as before counts as better.
Better_AsGood(new) ==
    SumFunction([s \in Sites |-> Points(new[s])]) >= SumFunction([s \in Sites |-> Points(physical[s])])

Better(new) ==
    SumFunction([s \in Sites |-> Points(new[s])]) > SumFunction([s \in Sites |-> Points(physical[s])])

\* What another physical reading makes of the one before; it is placed by the
\* headers it shares with those known.
PhysicalReadings ==
    IF ids = {} THEN {physical}
    ELSE {new \in [Sites -> Levels] : \A s \in Sites : new[s] >= physical[s]}

\* ReadAndMergePhysicalTracks; the headers found go to those of the timed scans.
Physical ==
    /\ step = "physical"
    /\ HasMoreRetry(rescans)
    /\ \E new \in PhysicalReadings :
        /\ physical' = new
        /\ rescans' = LET counter == Minus(Asked(rescans), 1)
                      IN  IF Better(new) THEN Changed(counter) ELSE counter
        /\ history' = Counted(Better(new))
    /\ ids' = ids \cup PhysicalSites'
    /\ scanPolicy' = IF ids' # ids THEN AddSkippableSectors(request, ids') ELSE scanPolicy
    /\ step' = "round"
    /\ UNCHANGED <<request, amounts, tries, detected, timed, tried, good, final, kept, outcome>>

-----------------------------------------------------------------------------
(* After the loops.                                                        *)

\* A sector of the result is to be read that is not wanted or could be skipped.
Detecting(d) == SetWantedSectors(RemoveSkippableSector(request, d), {})

\* Headers of the neighbor are dropped, data without a header gets a guessed one.
Completed(track) ==
    \E guessed \in SUBSET (Sites \ track) :
        /\ track = {} => guessed = {}
        /\ final' = (track \ Dropped) \cup guessed

Finish ==
    /\ step = "final"
    /\ Completed(final)
    /\ kept' = [s \in Sites |-> IF s \in final' THEN kept[s] ELSE 0]
    /\ step' = "idle"
    /\ Locals(request)
    /\ UNCHANGED <<request, amounts, tries, detected, outcome>>

FirstOf(track) == {s \in track : \A t \in track : s <= t}
LastOf(track) == {s \in track : \A t \in track : t <= s}

\* The sectors of the result with read attempts, of data of the physical track too.
Attempted == tried \cup {s \in FromPhysical(request) : physical[s] > 1}

\* Before, the data of a sector d at an end of the track is made that of the first
\* sector m, which may be new; d is read into the result if it was not, and the
\* physical track is merged in once more.
Unhide ==
    /\ step = "final"
    /\ UnhideFirst
    /\ \E d \in FirstOf(final) \cup LastOf(final) :
       \E m \in (FirstOf(final) \cup (Sites \ final)) \ {d} :
        \E n \in Readings(IF d \in Attempted THEN {}
                       ELSE Selected(Detecting(d), final, Attempted)) :
            LET read == [s \in Sites |-> kept[s] + IF s \in DOMAIN n THEN n[s] ELSE 0]
                merged == IF d \in Attempted THEN kept ELSE Merged(Detecting(d), read, final)
                track == IF d \in Attempted THEN final ELSE final \cup FromPhysical(Detecting(d))
            IN  /\ Completed(track \cup {m})
                /\ kept' = [s \in Sites |->
                      IF s \notin final' THEN 0
                      ELSE IF s = m THEN merged[m] + merged[d] ELSE merged[s]]
    /\ step' = "idle"
    /\ Locals(request)
    /\ UNCHANGED <<request, amounts, tries, detected, outcome>>

TriesLeft == tries < MaxTries

\* Headers repeated close to each other: all is thrown away, up to three times.
Repeated ==
    /\ step \in {"more", "final"}
    /\ IF TriesLeft
       THEN step' = "scan" /\ tries' = tries + 1 /\ UNCHANGED outcome
       ELSE Ends("empty") /\ UNCHANGED tries
    /\ Fresh(request)
    /\ UNCHANGED <<request, amounts, detected>>

\* Another exception, of the device or of the drive's speed, ends the loading.
Throw ==
    /\ step \in {"scan", "round", "physical", "final"}
    /\ Ends("thrown")
    /\ Fresh(request)
    /\ UNCHANGED <<request, amounts, tries, detected>>

Proceed ==
    \/ ScanWithoutResult \/ Scan \/ ScanAgain \/ Prepare
    \/ RoundWithoutReading \/ RoundWithReading \/ Physical
    \/ Finish \/ Unhide \/ Repeated \/ Throw

Next == Begin \/ Proceed

Spec == Init /\ [][Next]_vars

\* A load that has begun runs on.
FairSpec == Spec /\ WF_vars(Proceed)

-----------------------------------------------------------------------------
(* Properties.                                                             *)

\* Every variable has its type.
TypeOK ==
    /\ step \in Steps
    /\ request \in Requests /\ amounts \in Amounts
    /\ tries \in 0..MaxTries
    /\ detected \in {"unknown", "MFM", "FM"}
    /\ scanPolicy \in DeviceReadingPolicy
    /\ rescans \in Policy
    /\ {timed, ids, tried, final, history.asked} \subseteq SUBSET Sites
    /\ good \in [Sites -> 0..Level] /\ kept \in [Sites -> Nat]
    /\ physical \in [Sites -> Levels]
    /\ outcome \in {"none", "empty", "complete", "spent", "thrown"}
    /\ history.scans \in Nat /\ history.quiet \in Nat

\* The answer the scanning policy remembers is the one its sets give, though the
\* policy is copied, extended and asked at other times.
RememberedAnswerIsTrue == RemembersTruth(scanPolicy)

\* The scanning loop stops with sectors wanted only after all the rescans, since
\* the last new header if the amount is below zero.
RescansAreMade ==
    step = "prepare" /\ WantMoreSectors(scanPolicy) =>
        IF RescansOption.sinceLastChange
        THEN history.quiet >= RescansOption.initial
        ELSE history.scans = RescansOption.initial + 1

LoopsLeft == step = "final" /\ outcome \in {"complete", "spent"}

\* The reading loop gives up only after the physical readings of the larger amount.
PhysicalReadsAreMade ==
    step = "final" /\ outcome = "spent" =>
        history.scans >= PhysicalRescansInit.initial
            + (IF PhysicalRescansInit.sinceLastChange THEN 0 ELSE 1)

\* Of every number found, timed or physically, that the caller needs, a sector was
\* tried by a command of its own, in whichever round its header appeared.
FoundIsAsked ==
    LoopsLeft => \A s \in ids :
        Passes(request, s) => \E t \in history.asked : IdOf[t] = IdOf[s]

\* The result of the loops has all headers found and its sectors are stable only by
\* good reads that were made, however often the result was made anew.
ResultIsEarned ==
    LoopsLeft =>
        /\ timed \ Dropped \subseteq final
        /\ ids # {} => PhysicalSites \subseteq final
        /\ \A s \in Sites : kept[s] <= good[s] + GoodReads(physical[s])

\* Every load ends, though new headers and better readings start counters over.
RescueEnds == step # "idle" ~> step = "idle"

-----------------------------------------------------------------------------
(* What the documentation promises and the code does not keep.             *)

\* ReadMe.md:72: an amount below zero starts over when read data is improved, so
\* the loop ends only when the amount's readings brought nothing better.
RestartsWhenImproved ==
    step = "final" /\ outcome = "spent" /\ PhysicalRescansInit.sinceLastChange
        => history.quiet >= PhysicalRescansInit.initial

=============================================================================
