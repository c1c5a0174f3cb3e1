------------------------------ MODULE DiskCopy ------------------------------
(***************************************************************************)
(* Copying a disk into an image file: the rounds over the disk             *)
(* (ImageToImage), the rounds over a track (Disk::TransferTrack), the      *)
(* repair of a track by another reading of it (RepairTrack), and the       *)
(* replacement of the image file by way of a temporary one.  The process   *)
(* may be stopped at any point; the files stay.                            *)
(*                                                                         *)
(* Of a sector only its quality is modelled: it is missing, bad, or good   *)
(* and read a number of times.  Two good readings of a sector agree.       *)
(***************************************************************************)
EXTENDS RetryPolicy, FiniteSets

CONSTANTS
    Sup,              \* number of cylinders in the range
    Step,             \* option step: cylinders of the medium per cylinder of the range
    Ids,              \* sectors a track can have
    DiskRetries,      \* option disk-retries
    TrackRetries,     \* option track-retries
    Paranoia,         \* option paranoia
    StabilityLevel,   \* option stability_level
    Constant,         \* the source is an image, not a device
    LookForPossible,  \* sectors beyond the wanted ones are looked for
    Nothing,          \* a file or a cached track that is not there
    Torn              \* a file whose writing was cut short

ASSUME DiskCopyAssumption ==
    /\ Sup \in Nat
    /\ Step \in Nat \ {0}
    /\ DiskRetries \in Int /\ TrackRetries \in Int
    /\ {Paranoia, Constant, LookForPossible} \subseteq BOOLEAN
    /\ StabilityLevel \in Nat \ {0}

\* The cylinders of the range, and those of the medium the steps lead to.
Cyls == 0..Sup - 1

SourceCyls == 0..Sup * Step

\* The quality of a sector; a read count above the stability level tells nothing.
Missing == -1
Bad == 0
Quality == Missing..(IF Paranoia THEN StabilityLevel ELSE 1)

Track == [Ids -> Quality]
Disk == [Cyls -> Track]

\* What is not a disk can be told from one.
ASSUME DiskAssumption == {Nothing, Torn} \cap Disk = {} /\ Nothing # Torn

BlankDisk == [c \in Cyls |-> [i \in Ids |-> Missing]]

\* What one reading of a track can find.
Reading == [Ids -> {Missing, Bad, 1}]

\* A sector that was read well and, with paranoia, often enough.
IsStable(q) == q >= (IF Paranoia THEN StabilityLevel ELSE 1)

-----------------------------------------------------------------------------
VARIABLES
    phase,           \* where the run is; "idle" between runs
    mode,            \* transferUniteMode of the round
    skipStable,      \* option skip_stable_sectors of the run
    pos,             \* the track that is transferred
    dst,             \* the destination disk in memory
    work,            \* dst_data of TransferTrack
    fixed,           \* trackFixesNumber is not zero
    retried,         \* is_track_retried
    trackRetries, diskRetries,
    changed,         \* the round repaired something
    cache,           \* per cylinder of the medium: the cached reading and its number
    file, tmp,       \* the destination file and the temporary one
    used,            \* per cylinder: the last reading that was taken in, for the properties
    safe             \* what the user had before the write, for the properties

vars == <<phase, mode, skipStable, pos, dst, work, fixed, retried, trackRetries, diskRetries, changed,
          cache, file, tmp, used, safe>>

Files == <<file, tmp, safe>>
Rounds == <<diskRetries, mode, skipStable>>
Transfer == <<dst, work, fixed, retried, trackRetries, changed, cache, used>>

\* The sectors that are not to be read or repaired any more.
Skippable(track) == IF skipStable THEN {i \in Ids : IsStable(track[i])} ELSE {}

\* All ids are wanted ones: a track is left when none is to be read.
WantMoreSectors(track) == LookForPossible \/ Skippable(track) # Ids

-----------------------------------------------------------------------------
(* RepairTrack                                                             *)

\* Mutant: a bad reading takes the place of a good one.
Merged_Overwrites(old, new) == IF new = Missing THEN old ELSE new

\* Adding a missing sector, repairing a bad one, counting another good reading.
Merged(old, new) ==
    IF old < 1 THEN (IF new > old THEN new ELSE old)
    ELSE IF new < 1 \/ ~Paranoia \/ IsStable(old) THEN old
    ELSE old + 1

Repaired(track, reading) ==
    [i \in Ids |-> IF i \in Skippable(track) THEN track[i] ELSE Merged(track[i], reading[i])]

\* Mutant: bad sectors read again count as a change.
Improves_Bad(track, reading) == \E i \in Ids : reading[i] # Missing

\* Added sectors count, and so do those that were made good or, with paranoia,
\* matched another good reading.
Improves(track, reading) ==
    \E i \in Ids \ Skippable(track) :
        \/ track[i] = Missing /\ reading[i] # Missing
        \/ track[i] = Bad /\ reading[i] > Bad
        \/ Paranoia /\ track[i] > Bad /\ reading[i] > Bad

-----------------------------------------------------------------------------
Modes == {"copy", "merge", "repair"}
Phases == {"idle", "round", "begin", "turn", "again", "store", "write", "remove",
           "rename", "check"}

\* Two readings of a cylinder that follow each other have different numbers.
Numbers == {1, 2}

Cached == [number : Numbers, foreign : BOOLEAN, track : Reading]

\* What a reading of number n can return; nothing matters of a foreign one.
Found(n) ==
    {r \in [number : {n}, foreign : BOOLEAN, track : Reading] :
        r.foreign => \A i \in Ids : r.track[i] = Bad}

NoCache == [c \in SourceCyls |-> Nothing]

Init ==
    /\ phase = "idle"
    /\ mode = "copy"
    /\ skipStable \in BOOLEAN
    /\ pos = 0
    /\ dst = BlankDisk
    /\ work = [i \in Ids |-> Missing]
    /\ fixed = FALSE
    /\ retried = FALSE
    /\ trackRetries = OptionPolicy(0)
    /\ diskRetries = OptionPolicy(0)
    /\ changed = FALSE
    /\ cache = NoCache
    /\ file = Nothing
    /\ tmp = Nothing
    /\ used = [c \in Cyls |-> 0]
    /\ safe = Nothing

\* A run: copying starts from nothing, merging and repairing from the image file,
\* which must be there.  Merging an image and merging at all are not retried.
Start ==
    /\ phase = "idle"
    /\ \E m \in Modes :
        /\ m # "copy" => file \notin {Nothing, Torn}
        /\ mode' = m
        /\ dst' = IF m = "copy" THEN BlankDisk ELSE file
        /\ safe' = IF m = "copy" THEN Nothing ELSE file
        /\ diskRetries' = OptionPolicy(IF m = "merge" \/ Constant THEN 0 ELSE DiskRetries)
    /\ skipStable' \in BOOLEAN
    /\ phase' = "round"
    /\ cache' = NoCache
    /\ used' = [c \in Cyls |-> 0]
    /\ UNCHANGED <<pos, work, fixed, retried, trackRetries, changed, file, tmp>>

\* The cache is cleared for the cylinders of the range, as they are numbered there.
RoundCache ==
    IF Constant THEN cache
    ELSE [c \in SourceCyls |-> IF c \in Cyls THEN Nothing ELSE cache[c]]

Round ==
    /\ phase = "round"
    /\ phase' = "begin"
    /\ pos' = 0
    /\ changed' = FALSE
    /\ cache' = RoundCache
    /\ UNCHANGED <<dst, work, fixed, retried, trackRetries, used, Rounds, Files>>

\* What TransferTrack keeps of a track is gone.
NoTrack ==
    /\ work' = [i \in Ids |-> Missing]
    /\ fixed' = FALSE /\ retried' = FALSE
    /\ trackRetries' = OptionPolicy(0)

\* The program ends, and what it kept in memory is gone.
Ends ==
    /\ phase' = "idle"
    /\ NoTrack
    /\ pos' = 0
    /\ changed' = FALSE
    /\ diskRetries' = OptionPolicy(0)
    /\ cache' = NoCache
    /\ used' = [c \in Cyls |-> 0]
    /\ UNCHANGED <<dst, mode, skipStable>>

\* The next track, or the end of the range.
Begin ==
    /\ phase = "begin"
    /\ IF pos = Sup THEN phase' = "write" /\ NoTrack
       ELSE /\ phase' = "turn"
            /\ work' = dst[pos]
            /\ fixed' = FALSE
            /\ retried' = FALSE
            /\ trackRetries' =
                  OptionPolicy(IF mode # "repair" \/ Constant THEN 0 ELSE TrackRetries)
    /\ UNCHANGED <<pos, dst, changed, cache, used, Rounds, Files>>

\* The track is to be read: more is wanted of it, or stable sectors are not left out.
Wanted == phase = "turn" /\ ~(mode = "repair" /\ skipStable /\ ~WantMoreSectors(work))

\* Repairing with skipped stable sectors: nothing more is wanted of this track.
Skip ==
    /\ phase = "turn" /\ ~Wanted
    /\ phase' = "store"
    /\ UNCHANGED <<pos, Transfer, Rounds, Files>>

\* Where the head is sent.
Source == pos * Step

\* Mutant: the first reading of a retried track is used again.
FromCache_Retried == cache[Source] # Nothing

\* The first reading may be cached, a retry reads the medium.
FromCache == cache[Source] # Nothing /\ ~retried

\* The reading is taken in.
TakeIn(r) ==
    /\ ~r.foreign
    /\ IF mode = "repair"
       THEN /\ work' = Repaired(work, r.track)
            /\ trackRetries' = IF Improves(work, r.track) THEN Changed(trackRetries)
                               ELSE trackRetries
            /\ fixed' = (fixed \/ Improves(work, r.track))
       ELSE /\ work' = r.track
            /\ UNCHANGED <<trackRetries, fixed>>
    /\ used' = [used EXCEPT ![pos] = r.number]
    /\ phase' = "again"
    /\ UNCHANGED pos

\* The headers belong to another cylinder: the whole track is left out, and what
\* was repaired of it so far.
LeaveOut(r) ==
    /\ r.foreign
    /\ phase' = "begin"
    /\ pos' = pos + 1
    /\ UNCHANGED <<work, trackRetries, fixed, used>>

ReadCached ==
    /\ Wanted
    /\ FromCache
    /\ TakeIn(cache[Source]) \/ LeaveOut(cache[Source])
    /\ UNCHANGED <<dst, retried, changed, cache, Rounds, Files>>

Read ==
    /\ Wanted
    /\ ~FromCache
    /\ \E n \in Numbers \ {used[pos]} : \E r \in Found(n) :
        /\ cache' = [cache EXCEPT ![Source] = r]
        /\ TakeIn(r) \/ LeaveOut(r)
    /\ UNCHANGED <<dst, retried, changed, Rounds, Files>>

\* HasMoreRetryMinusMinus of the track.
Again ==
    /\ phase = "again"
    /\ phase' = IF HasMoreRetry(trackRetries) THEN "turn" ELSE "store"
    /\ retried' = TRUE
    /\ trackRetries' = Minus(Asked(trackRetries), 1)
    /\ UNCHANGED <<pos, dst, work, fixed, changed, cache, used, Rounds, Files>>

Store ==
    /\ phase = "store"
    /\ phase' = "begin"
    /\ dst' = [dst EXCEPT ![pos] = work]
    /\ changed' = (changed \/ fixed)
    /\ pos' = pos + 1
    /\ UNCHANGED <<work, fixed, retried, trackRetries, cache, used, Rounds, Files>>

-----------------------------------------------------------------------------
(* The image file.                                                         *)

\* Mutant: the destination file itself is overwritten.
ByTmp_Never == FALSE

\* Merging and repairing write a temporary file first.
ByTmp == mode # "copy"

Write ==
    /\ phase = "write"
    /\ IF ByTmp THEN tmp' = dst /\ phase' = "remove" /\ UNCHANGED <<file, safe>>
       ELSE file' = dst /\ phase' = "check" /\ safe' = dst /\ UNCHANGED tmp
    /\ UNCHANGED <<pos, Transfer, Rounds>>

\* Writing throws and the run ends: the file could not be opened, or what was begun of
\* it is removed.
WriteFails ==
    /\ phase = "write"
    /\ Ends
    /\ \/ UNCHANGED <<file, tmp>>
       \/ ByTmp /\ tmp' = Nothing /\ UNCHANGED file
       \/ ~ByTmp /\ file' = Nothing /\ UNCHANGED tmp
    /\ UNCHANGED safe

\* The destination file is removed, if it is there; failing ends the run.
Remove ==
    /\ phase = "remove"
    /\ \/ file' = Nothing /\ phase' = "rename"
       \/ UNCHANGED file /\ phase' = "idle"
    /\ UNCHANGED <<pos, Transfer, Rounds, tmp, safe>>

Rename ==
    /\ phase = "rename"
    /\ \/ file' = tmp /\ tmp' = Nothing /\ phase' = "check" /\ safe' = dst
       \/ phase' = "idle" /\ UNCHANGED <<file, tmp, safe>>
    /\ UNCHANGED <<pos, Transfer, Rounds>>

\* After a copying round the next ones repair; HasMoreRetryMinusMinus of the disk.
Check ==
    /\ phase = "check"
    /\ LET counter == IF mode = "copy" \/ changed THEN Changed(diskRetries) ELSE diskRetries
       IN  /\ diskRetries' = Minus(Asked(counter), 1)
           /\ phase' = IF HasMoreRetry(counter) THEN "round" ELSE "idle"
    /\ mode' = IF mode = "copy" THEN "repair" ELSE mode
    /\ UNCHANGED <<pos, skipStable, Transfer, Files>>

-----------------------------------------------------------------------------
\* The medium throws, or the process is stopped: while a file is written, it stays
\* as far as it was written.
Stop ==
    /\ phase # "idle"
    /\ Ends
    /\ \/ UNCHANGED <<file, tmp>>
       \/ phase = "write" /\ ByTmp /\ tmp' = Torn /\ UNCHANGED file
       \/ phase = "write" /\ ~ByTmp /\ file' = Torn /\ UNCHANGED tmp
    /\ UNCHANGED safe

Proceed ==
    \/ Round \/ Begin \/ Skip \/ ReadCached \/ Read \/ Again \/ Store
    \/ Write \/ Remove \/ Rename \/ Check

Next == Start \/ Proceed \/ WriteFails \/ Stop

Spec == Init /\ [][Next]_vars

\* A run that was started goes on.
FairSpec == Spec /\ WF_vars(Proceed)

-----------------------------------------------------------------------------
(* Properties.                                                             *)

\* Every variable has its type.
TypeOK ==
    /\ phase \in Phases
    /\ mode \in Modes
    /\ skipStable \in BOOLEAN
    /\ pos \in 0..Sup
    /\ dst \in Disk
    /\ work \in Track
    /\ fixed \in BOOLEAN
    /\ retried \in BOOLEAN
    /\ trackRetries \in Policy
    /\ diskRetries \in Policy
    /\ changed \in BOOLEAN
    /\ cache \in [SourceCyls -> Cached \cup {Nothing}]
    /\ file \in Disk \cup {Nothing, Torn}
    /\ tmp \in Disk \cup {Nothing, Torn}
    /\ used \in [Cyls -> Numbers \cup {0}]
    /\ safe \in Disk \cup {Nothing}

AtLeast(disk, than) == \A c \in Cyls, i \in Ids : disk[c][i] >= than[c][i]

Complete(f) == f \notin {Nothing, Torn}

\* What the user had before a merge or a repair, or what an earlier round of this
\* run has written, is always in one of the two files, wherever the run is stopped;
\* repaired it is at least as good as before.
SomeCopySurvives ==
    safe # Nothing =>
        \E f \in {file, tmp} :
            Complete(f) /\ (mode = "repair" => AtLeast(f, safe))

TakesNew(c) == phase = "turn" /\ phase' = "again" /\ pos = c => used'[c] # used[c]

\* Every reading of a track is taken in once, in all rounds over the disk and all
\* retries of the track: a reading merged twice would make a sector look stable that
\* was read once.  This is said of the cylinders whose cache is cleared.
ClearedCountsOnce == [][\A c \in Cyls : c * Step \in Cyls => TakesNew(c)]_vars

\* Repairing never makes a sector of the disk worse, in whatever order good, bad and
\* missing readings come.
RepairNeverLoses ==
    [][mode = "repair" /\ phase # "idle" => AtLeast(dst', dst)]_vars

\* With paranoia, a sector that is stable already and not skipped is read well once
\* more: that counts as an improvement, though nothing is left to improve.
StableMatched ==
    /\ Read \/ ReadCached
    /\ phase' = "again" /\ mode = "repair" /\ Paranoia
    /\ \E i \in Ids \ Skippable(work) : IsStable(work[i]) /\ cache'[Source].track[i] > Bad

\* A run ends, though every improvement starts the retries below zero over, unless
\* stable sectors that are not to be skipped are read well again and again.
RunEnds ==
    \/ phase # "idle" ~> phase = "idle"
    \/ []<><<StableMatched>>_vars

-----------------------------------------------------------------------------
(* What a comment promises and the code does not keep.                     *)

\* cmd_copy.cpp:192 clearing the cache is "Required for determining stability of
\* sectors in the requested range": no reading of any cylinder is taken in twice.
EveryReadingCountsOnce == [][\A c \in Cyls : TakesNew(c)]_vars

=============================================================================
