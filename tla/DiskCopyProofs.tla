--------------------------- MODULE DiskCopyProofs ---------------------------
(***************************************************************************)
(* Theorems about DiskCopy: types, the disk is always in one of the two    *)
(* files (SomeCopySurvives), repairing never makes a sector worse          *)
(* (RepairNeverLoses), and no reading counts twice where the cache is      *)
(* cleared (ClearedCountsOnce), for any tracks, sectors, options and       *)
(* readings.                                                               *)
(***************************************************************************)
EXTENDS DiskCopy, RetryPolicyProofs, TLAPS

USE DiskCopyAssumption, DiskAssumption

InTrack == phase \in {"turn", "again", "store"}

Reads == phase \in {"round", "begin", "turn", "again", "store", "write"}

\* A track is worked on only within the range.
PosInv == InTrack => pos \in Cyls

\* Which file holds the disk: none that must survive while a copy is made; the old
\* one until it is removed; the temporary one after it was written.
FilesInv ==
    /\ mode = "copy" /\ Reads => safe = Nothing
    /\ mode # "copy" /\ (Reads \/ phase = "remove") => safe # Nothing /\ file = safe
    /\ phase \in {"remove", "rename"} => mode # "copy" /\ tmp = dst
    /\ phase = "check" => file = dst /\ safe = dst

\* Repairing only improves the disk that was read from the file.
BetterInv ==
    mode = "repair" /\ phase # "idle" =>
        /\ safe # Nothing => AtLeast(dst, safe)
        /\ InTrack => \A i \in Ids : work[i] >= dst[pos][i]

IInv == TypeOK /\ PosInv /\ FilesInv /\ BetterInv /\ SomeCopySurvives

-----------------------------------------------------------------------------
(* Quality.                                                                *)

\* A merged sector is not worse than before, and is a sector.
LEMMA MergedBetter ==
    ASSUME NEW old \in Quality, NEW new \in {Missing, Bad, 1}
    PROVE  Merged(old, new) \in Quality /\ Merged(old, new) >= old
BY DEF Merged, Quality, Missing, Bad, IsStable

\* A repaired track is not worse than before, and is a track.
LEMMA RepairedBetter ==
    ASSUME NEW track \in Track, NEW reading \in Reading
    PROVE  /\ Repaired(track, reading) \in Track
           /\ \A i \in Ids : Repaired(track, reading)[i] >= track[i]
<1>1. ASSUME NEW i \in Ids
      PROVE  Merged(track[i], reading[i]) \in Quality /\ Merged(track[i], reading[i]) >= track[i]
  <2>1. track[i] \in Quality /\ reading[i] \in {Missing, Bad, 1}
    BY DEF Track, Reading
  <2> QED  BY <2>1, MergedBetter
<1>2. \A i \in Ids : track[i] \in Quality /\ track[i] >= track[i]
  BY DEF Track, Quality, Missing
<1> QED  BY <1>1, <1>2 DEF Repaired, Track

\* What was read is a track, and so is nothing read yet.
LEMMA TrackTypes ==
    /\ Reading \subseteq Track
    /\ BlankDisk \in Disk
    /\ [i \in Ids |-> Missing] \in Track
<1>1. {Missing, Bad, 1} \subseteq Quality
  BY DEF Missing, Bad, Quality
<1> QED  BY <1>1 DEF Reading, Track, BlankDisk, Disk

\* A disk is as good as itself.
LEMMA AtLeastItself ==
    ASSUME NEW d \in Disk
    PROVE  AtLeast(d, d)
BY DEF AtLeast, Disk, Track, Quality, Missing

-----------------------------------------------------------------------------
(* Types.                                                                  *)

LEMMA TypeInit == Init => TypeOK /\ PosInv
<1> SUFFICES ASSUME Init PROVE TypeOK /\ PosInv
  OBVIOUS
<1>1. OptionPolicy(0) \in Policy
  BY PolicyTypes
<1>2. pos \in 0..Sup /\ phase \in Phases /\ mode \in Modes /\ PosInv /\ skipStable \in BOOLEAN
  BY DEF Init, Phases, Modes, PosInv, InTrack
<1>3. cache \in [SourceCyls -> Cached \cup {Nothing}] /\ used \in [Cyls -> Numbers \cup {0}]
  BY DEF Init, NoCache
<1>4. dst \in Disk /\ work \in Track
  BY TrackTypes DEF Init
<1> QED  BY <1>1, <1>2, <1>3, <1>4 DEF Init, TypeOK

\* The places of the range, and a step to the next one.
LEMMA Places ==
    /\ \A c \in Cyls : c \in Nat /\ c \in 0..Sup /\ c + 1 \in 0..Sup
    /\ \A c \in 0..Sup : c # Sup => c \in Cyls
    /\ 0 \in 0..Sup
BY DEF Cyls

\* The steps of the range stay on the medium.
LEMMA PlaceOfStep ==
    ASSUME NEW n \in Nat, n <= Sup
    PROVE  n * Step \in 0..Sup * Step
<1>1. Sup - n \in Nat /\ (Sup - n) * Step \in Nat
  OBVIOUS
<1>2. Sup * Step = n * Step + (Sup - n) * Step
  OBVIOUS
<1> QED  BY <1>1, <1>2

\* What is cached is a reading.
LEMMA CachedIsReading ==
    ASSUME TypeOK, PosInv, Wanted, FromCache
    PROVE  cache[Source] \in Cached
<1>1. pos \in Cyls
  BY DEF Wanted, PosInv, InTrack
<1>2. pos \in Nat /\ pos <= Sup
  BY <1>1 DEF Cyls
<1>3. Source \in SourceCyls
  BY <1>2, PlaceOfStep DEF Source, SourceCyls
<1> QED  BY <1>3 DEF FromCache, TypeOK

\* A reading that is taken in or left out keeps the types.
LEMMA TypeReading ==
    ASSUME TypeOK, PosInv, Wanted, NEW r \in Cached, TakeIn(r) \/ LeaveOut(r)
    PROVE  /\ work' \in Track /\ fixed' \in BOOLEAN /\ trackRetries' \in Policy
           /\ used' \in [Cyls -> Numbers \cup {0}]
           /\ phase' \in Phases /\ pos' \in 0..Sup
           /\ phase' \in {"turn", "again", "store"} => pos' \in Cyls
<1>1. pos \in Cyls /\ pos \in 0..Sup /\ pos + 1 \in 0..Sup
  BY Places DEF PosInv, InTrack, Wanted
<1>2. r.track \in Reading /\ r.number \in Numbers
  BY DEF Cached
<1>3. work \in Track /\ fixed \in BOOLEAN /\ trackRetries \in Policy /\ used \in [Cyls -> Numbers \cup {0}]
  BY DEF TypeOK
<1>4. CASE TakeIn(r)
  <2>1. work' \in Track
    BY <1>2, <1>3, <1>4, RepairedBetter, TrackTypes DEF TakeIn
  <2>2. trackRetries' \in Policy
    BY <1>3, <1>4, PolicyTypes DEF TakeIn
  <2>3. Improves(work, r.track) \in BOOLEAN
    BY DEF Improves
  <2>4. fixed' \in BOOLEAN
    BY <1>3, <1>4, <2>3, Zenon DEF TakeIn
  <2>5. used' \in [Cyls -> Numbers \cup {0}] /\ phase' \in Phases /\ pos' = pos
    BY <1>1, <1>2, <1>3, <1>4 DEF TakeIn, Phases
  <2> QED  BY <1>1, <2>1, <2>2, <2>4, <2>5
<1>5. CASE LeaveOut(r)
  BY <1>1, <1>3, <1>5 DEF LeaveOut, Phases
<1> QED  BY <1>4, <1>5

\* What the end of the program leaves.
LEMMA TypeEnds ==
    ASSUME TypeOK, Ends, file' \in Disk \cup {Nothing, Torn}, tmp' \in Disk \cup {Nothing, Torn},
           UNCHANGED safe
    PROVE  TypeOK' /\ PosInv'
<1>1. OptionPolicy(0) \in Policy
  BY PolicyTypes
<1>2. work' \in Track
  BY TrackTypes DEF Ends, NoTrack
<1>3. cache' \in [SourceCyls -> Cached \cup {Nothing}] /\ used' \in [Cyls -> Numbers \cup {0}]
  BY DEF Ends, NoCache
<1>4. phase' = "idle" /\ PosInv' /\ pos' \in 0..Sup
  BY Places DEF Ends, PosInv, InTrack
<1> QED  BY <1>1, <1>2, <1>3, <1>4 DEF Ends, NoTrack, TypeOK, Phases

LEMMA TypeStep == TypeOK /\ PosInv /\ [Next]_vars => TypeOK' /\ PosInv'
<1> SUFFICES ASSUME TypeOK, PosInv, [Next]_vars PROVE TypeOK' /\ PosInv'
  OBVIOUS
<1>1. CASE Start
  <2>1. PICK m \in Modes :
          /\ m # "copy" => file \notin {Nothing, Torn}
          /\ mode' = m
          /\ dst' = IF m = "copy" THEN BlankDisk ELSE file
          /\ safe' = IF m = "copy" THEN Nothing ELSE file
          /\ diskRetries' = OptionPolicy(IF m = "merge" \/ Constant THEN 0 ELSE DiskRetries)
    BY <1>1 DEF Start
  <2>2. dst' \in Disk /\ safe' \in Disk \cup {Nothing}
    BY <2>1, TrackTypes DEF TypeOK
  <2>3. diskRetries' \in Policy
    BY <2>1, PolicyTypes
  <2>4. phase' \in Phases /\ PosInv'
    BY <1>1 DEF Start, Phases, PosInv, InTrack
  <2>5. cache' \in [SourceCyls -> Cached \cup {Nothing}] /\ skipStable' \in BOOLEAN
        /\ used' \in [Cyls -> Numbers \cup {0}]
    BY <1>1 DEF Start, NoCache
  <2>6. UNCHANGED <<pos, work, fixed, retried, trackRetries, changed, file, tmp>>
    BY <1>1 DEF Start
  <2> QED  BY <2>1, <2>2, <2>3, <2>4, <2>5, <2>6 DEF TypeOK
<1>2. CASE Round
  <2>1. RoundCache \in [SourceCyls -> Cached \cup {Nothing}]
    BY DEF RoundCache, TypeOK
  <2> QED  BY <1>2, <2>1, Places DEF Round, TypeOK, PosInv, InTrack, Phases, Rounds, Files
<1>3. CASE Begin
  <2>1. OptionPolicy(IF mode # "repair" \/ Constant THEN 0 ELSE TrackRetries) \in Policy
    BY PolicyTypes
  <2>2. pos # Sup => dst[pos] \in Track /\ pos \in Cyls
    BY Places DEF TypeOK, Disk
  <2>3. CASE pos = Sup
    <3>1. OptionPolicy(0) \in Policy
      BY PolicyTypes
    <3>2. work' \in Track /\ fixed' = FALSE /\ retried' = FALSE /\ trackRetries' = OptionPolicy(0)
      BY <1>3, <2>3, TrackTypes DEF Begin, NoTrack
    <3> QED  BY <1>3, <2>3, <3>1, <3>2 DEF Begin, TypeOK, PosInv, InTrack, Phases, Rounds, Files
  <2>4. CASE pos # Sup
    BY <1>3, <2>1, <2>2, <2>4 DEF Begin, TypeOK, PosInv, InTrack, Phases, Rounds, Files
  <2> QED  BY <2>3, <2>4
<1>4. CASE Skip
  BY <1>4 DEF Skip, Wanted, TypeOK, PosInv, InTrack, Phases, Transfer, Rounds, Files
<1>5. CASE ReadCached
  <2>2. cache[Source] \in Cached
    BY <1>5, CachedIsReading DEF ReadCached
  <2>3. Wanted /\ (TakeIn(cache[Source]) \/ LeaveOut(cache[Source]))
    BY <1>5 DEF ReadCached
  <2> QED  BY <1>5, <2>2, <2>3, TypeReading DEF ReadCached, TypeOK, PosInv, InTrack, Rounds, Files
<1>6. CASE Read
  <2>0. PICK n \in Numbers \ {used[pos]} :
          \E r \in Found(n) :
             /\ cache' = [cache EXCEPT ![Source] = r]
             /\ TakeIn(r) \/ LeaveOut(r)
    BY <1>6 DEF Read
  <2>1. PICK r \in Found(n) :
          /\ cache' = [cache EXCEPT ![Source] = r]
          /\ TakeIn(r) \/ LeaveOut(r)
    BY <2>0
  <2>2. r \in Cached
    BY DEF Found, Cached, TypeOK
  <2>3. cache' \in [SourceCyls -> Cached \cup {Nothing}]
    <3>1. cache \in [SourceCyls -> Cached \cup {Nothing}]
      BY DEF TypeOK
    <3>3. ASSUME NEW S, NEW T, NEW f \in [S -> T], NEW x, NEW y \in T
          PROVE  [f EXCEPT ![x] = y] \in [S -> T]
      OBVIOUS
    <3>4. r \in Cached \cup {Nothing}
      BY <2>2
    <3>5. cache' = [cache EXCEPT ![Source] = r]
      BY <2>1
    <3> QED  BY <3>1, <3>3, <3>4, <3>5, Zenon
  <2>4. Wanted /\ UNCHANGED <<dst, retried, changed, Rounds, Files>>
    BY <1>6 DEF Read
  <2> QED  BY <2>1, <2>2, <2>3, <2>4, TypeReading DEF TypeOK, PosInv, InTrack, Rounds, Files
<1>7. CASE Again
  <2>1. Minus(Asked(trackRetries), 1) \in Policy
    BY PolicyTypes DEF TypeOK
  <2>2. phase' \in {"turn", "store"}
    BY <1>7, Zenon DEF Again
  <2> QED  BY <1>7, <2>1, <2>2 DEF Again, TypeOK, PosInv, InTrack, Phases, Rounds, Files
<1>8. CASE Store
  <2>1. pos \in Cyls /\ pos + 1 \in 0..Sup
    BY <1>8, Places DEF Store, PosInv, InTrack
  <2>2. [dst EXCEPT ![pos] = work] \in Disk
    BY <2>1 DEF TypeOK, Disk
  <2>3. (changed \/ fixed) \in BOOLEAN
    BY DEF TypeOK
  <2> QED  BY <1>8, <2>1, <2>2, <2>3 DEF Store, TypeOK, PosInv, InTrack, Phases, Rounds, Files
<1>9. CASE Write
  BY <1>9 DEF Write, ByTmp, TypeOK, PosInv, InTrack, Phases, Transfer, Rounds
<1>10. CASE WriteFails
  BY <1>10, TypeEnds DEF WriteFails, TypeOK
<1>11. CASE Remove
  BY <1>11 DEF Remove, TypeOK, PosInv, InTrack, Phases, Transfer, Rounds
<1>12. CASE Rename
  BY <1>12 DEF Rename, TypeOK, PosInv, InTrack, Phases, Transfer, Rounds
<1>13. CASE Check
  <2> DEFINE counter ==
          IF mode = "copy" \/ changed THEN Changed(diskRetries) ELSE diskRetries
  <2>1. counter \in Policy
    BY PolicyTypes DEF TypeOK
  <2>2. diskRetries' = Minus(Asked(counter), 1)
    BY <1>13 DEF Check
  <2>3. phase' \in {"round", "idle"}
    BY <1>13, Zenon DEF Check
  <2> HIDE DEF counter
  <2>4. diskRetries' \in Policy
    BY <2>1, <2>2, PolicyTypes
  <2>5. mode' \in Modes
    BY <1>13 DEF Check, TypeOK, Modes
  <2>6. UNCHANGED <<pos, skipStable, Transfer, Files>>
    BY <1>13 DEF Check
  <2> QED  BY <2>3, <2>4, <2>5, <2>6 DEF TypeOK, PosInv, InTrack, Phases, Transfer, Files
<1>14. CASE Stop
  BY <1>14, TypeEnds DEF Stop, TypeOK
<1>15. CASE UNCHANGED vars
  BY <1>15 DEF vars, TypeOK, PosInv, InTrack
<1> QED
  BY <1>1, <1>2, <1>3, <1>4, <1>5, <1>6, <1>7, <1>8, <1>9, <1>10, <1>11, <1>12, <1>13,
     <1>14, <1>15 DEF Next, Proceed

-----------------------------------------------------------------------------
(* Where the disk is, and how good it is.                                  *)

\* What the files do not notice.
Quiet ==
    /\ UNCHANGED <<mode, file, tmp, safe>>
    /\ phase \in {"round", "begin", "turn", "again", "store"}
    /\ phase' \in {"round", "begin", "turn", "again", "store", "write"}

LEMMA QuietKeeps ==
    ASSUME TypeOK, FilesInv, SomeCopySurvives, Quiet
    PROVE  FilesInv' /\ SomeCopySurvives'
BY DEF Quiet, FilesInv, SomeCopySurvives, Reads, AtLeast, Complete

\* A disk in a file is a copy of itself.
LEMMA DiskIsCopy ==
    ASSUME NEW d \in Disk
    PROVE  d # Nothing /\ Complete(d) /\ AtLeast(d, d)
BY AtLeastItself DEF Complete

\* Nothing happens to the files, or the temporary file or the copy is spoiled, which
\* must not survive yet; the run ends.
LEMMA EndKeeps ==
    ASSUME TypeOK, FilesInv, SomeCopySurvives, phase' = "idle", UNCHANGED <<mode, safe>>,
           \/ UNCHANGED <<file, tmp>>
           \/ phase = "write" /\ mode # "copy" /\ UNCHANGED file
           \/ phase = "write" /\ mode = "copy"
    PROVE  FilesInv' /\ SomeCopySurvives'
<1>1. FilesInv'
  BY DEF FilesInv, Reads
<1>2. CASE UNCHANGED <<file, tmp>>
  BY <1>1, <1>2 DEF SomeCopySurvives, AtLeast, Complete
<1>3. CASE phase = "write" /\ mode = "copy"
  BY <1>3 DEF FilesInv, SomeCopySurvives, Reads
<1>4. CASE phase = "write" /\ mode # "copy" /\ UNCHANGED file
  <2>1. safe # Nothing /\ file = safe
    BY <1>4 DEF FilesInv, Reads
  <2>2. Complete(safe) /\ AtLeast(safe, safe)
    BY <2>1, DiskIsCopy DEF TypeOK
  <2>3. file' = safe' /\ safe' = safe
    BY <1>4, <2>1
  <2> QED  BY <1>1, <2>2, <2>3 DEF SomeCopySurvives, Complete, AtLeast
<1> QED  BY <1>1, <1>2, <1>3, <1>4

LEMMA FilesStep ==
    TypeOK /\ FilesInv /\ BetterInv /\ SomeCopySurvives /\ [Next]_vars
        => FilesInv' /\ SomeCopySurvives'
<1> SUFFICES ASSUME TypeOK, FilesInv, BetterInv, SomeCopySurvives, [Next]_vars
             PROVE  FilesInv' /\ SomeCopySurvives'
  OBVIOUS
<1>1. CASE Start
  <2>1. CASE mode' = "copy"
    BY <1>1, <2>1 DEF Start, FilesInv, SomeCopySurvives, Reads, Modes
  <2>2. CASE mode' # "copy"
    <3>1. file \in Disk /\ safe' = file /\ file' = file /\ phase' = "round"
      BY <1>1, <2>2 DEF Start, TypeOK
    <3>2. safe' # Nothing /\ Complete(file') /\ AtLeast(file', safe')
      BY <3>1, DiskIsCopy
    <3> QED  BY <2>2, <3>1, <3>2 DEF FilesInv, SomeCopySurvives, Reads, Complete, AtLeast
  <2> QED  BY <2>1, <2>2
<1>2. CASE Round \/ Begin \/ Skip
  BY <1>2, QuietKeeps DEF Round, Begin, Skip, Wanted, Quiet, Transfer, Rounds, Files
<1>3. CASE ReadCached
  BY <1>3, QuietKeeps DEF ReadCached, Wanted, TakeIn, LeaveOut, Quiet, Rounds, Files
<1>4. CASE Read
  BY <1>4, QuietKeeps DEF Read, Wanted, TakeIn, LeaveOut, Quiet, Rounds, Files
<1>5. CASE Again
  <2>1. phase' \in {"turn", "store"}
    BY <1>5, Zenon DEF Again
  <2> QED  BY <1>5, <2>1, QuietKeeps DEF Again, Quiet, Rounds, Files
<1>6. CASE Store
  BY <1>6, QuietKeeps DEF Store, Quiet, Rounds, Files
<1>7. CASE Write
  <2>1. UNCHANGED <<dst, mode>>
    BY <1>7 DEF Write, Transfer, Rounds
  <2>2. CASE mode = "copy"
    <3>1. file' = dst /\ safe' = dst /\ phase' = "check"
      BY <1>7, <2>2 DEF Write, ByTmp
    <3>2. Complete(dst) /\ AtLeast(dst, dst)
      BY DiskIsCopy DEF TypeOK
    <3> QED  BY <2>1, <2>2, <3>1, <3>2 DEF FilesInv, SomeCopySurvives, Reads, Complete, AtLeast
  <2>3. CASE mode # "copy"
    <3>1. tmp' = dst /\ UNCHANGED <<file, safe>> /\ phase' = "remove"
      BY <1>7, <2>3 DEF Write, ByTmp
    <3>2. safe # Nothing /\ file = safe
      BY <1>7, <2>3 DEF Write, FilesInv, Reads
    <3>3. Complete(safe) /\ AtLeast(safe, safe)
      BY <3>2, DiskIsCopy DEF TypeOK
    <3> QED  BY <2>1, <2>3, <3>1, <3>2, <3>3
             DEF FilesInv, SomeCopySurvives, Reads, Complete, AtLeast
  <2> QED  BY <2>2, <2>3
<1>8. CASE WriteFails
  BY <1>8, EndKeeps DEF WriteFails, ByTmp, Ends
<1>9. CASE Remove
  <2>1. UNCHANGED <<dst, mode, tmp, safe>>
    BY <1>9 DEF Remove, Transfer, Rounds
  <2>2. CASE phase' = "idle" /\ UNCHANGED file
    BY <2>1, <2>2, EndKeeps
  <2>3. CASE phase' = "rename" /\ file' = Nothing
    <3>1. mode # "copy" /\ tmp = dst /\ safe # Nothing
      BY <1>9 DEF Remove, FilesInv
    <3>2. Complete(dst)
      BY DiskIsCopy DEF TypeOK
    <3>3. mode = "repair" => AtLeast(dst, safe)
      BY <1>9, <3>1 DEF Remove, BetterInv
    <3> QED  BY <2>1, <2>3, <3>1, <3>2, <3>3
             DEF FilesInv, SomeCopySurvives, Reads, Complete, AtLeast
  <2> QED  BY <1>9, <2>2, <2>3 DEF Remove
<1>10. CASE Rename
  <2>1. UNCHANGED <<dst, mode>>
    BY <1>10 DEF Rename, Transfer, Rounds
  <2>2. CASE phase' = "idle" /\ UNCHANGED <<file, tmp, safe>>
    BY <2>1, <2>2, EndKeeps
  <2>3. CASE phase' = "check" /\ file' = tmp /\ safe' = dst
    <3>1. mode # "copy" /\ tmp = dst
      BY <1>10 DEF Rename, FilesInv
    <3>2. Complete(dst) /\ AtLeast(dst, dst)
      BY DiskIsCopy DEF TypeOK
    <3> QED  BY <2>1, <2>3, <3>1, <3>2
             DEF FilesInv, SomeCopySurvives, Reads, Complete, AtLeast
  <2> QED  BY <1>10, <2>2, <2>3 DEF Rename
<1>11. CASE Check
  <2>1. UNCHANGED <<dst, file, tmp, safe>> /\ mode' # "copy"
    BY <1>11 DEF Check, Transfer, Files
  <2>2. phase' \in {"round", "idle"}
    BY <1>11, Zenon DEF Check
  <2>3. file = dst /\ safe = dst
    BY <1>11 DEF Check, FilesInv
  <2>4. dst # Nothing /\ Complete(dst) /\ AtLeast(dst, dst)
    BY DiskIsCopy DEF TypeOK
  <2> QED  BY <2>1, <2>2, <2>3, <2>4 DEF FilesInv, SomeCopySurvives, Reads, Complete, AtLeast
<1>12. CASE Stop
  BY <1>12, EndKeeps DEF Stop, ByTmp, Ends
<1>13. CASE UNCHANGED vars
  BY <1>13 DEF vars, FilesInv, SomeCopySurvives, Reads, AtLeast, Complete
<1> QED
  BY <1>1, <1>2, <1>3, <1>4, <1>5, <1>6, <1>7, <1>8, <1>9, <1>10, <1>11, <1>12, <1>13
     DEF Next, Proceed

\* The track that is stored is not worse than the one it replaces.
LEMMA StoreBetter ==
    ASSUME TypeOK, PosInv, BetterInv, mode = "repair", Store
    PROVE  AtLeast(dst', dst)
<1>1. pos \in Cyls /\ dst' = [dst EXCEPT ![pos] = work]
  BY DEF Store, PosInv, InTrack
<1>2. \A i \in Ids : work[i] >= dst[pos][i]
  BY DEF Store, BetterInv, InTrack
<1>3. \A c \in Cyls, i \in Ids : dst[c][i] >= dst[c][i]
  BY DEF TypeOK, Disk, Track, Quality, Missing
<1>4. \A c \in Cyls : dst'[c] = IF c = pos THEN work ELSE dst[c]
  BY <1>1 DEF TypeOK, Disk
<1> QED  BY <1>2, <1>3, <1>4 DEF AtLeast

LEMMA BetterStep ==
    TypeOK /\ PosInv /\ FilesInv /\ BetterInv /\ [Next]_vars => BetterInv'
<1> SUFFICES ASSUME TypeOK, PosInv, FilesInv, BetterInv, [Next]_vars,
                    mode' = "repair", phase' # "idle"
             PROVE  /\ safe' # Nothing => AtLeast(dst', safe')
                    /\ InTrack' => \A i \in Ids : work'[i] >= dst'[pos'][i]
  BY DEF BetterInv
<1>1. CASE Start
  <2>1. safe' = dst' /\ dst' \in Disk /\ ~InTrack'
    BY <1>1 DEF Start, TypeOK, InTrack
  <2> QED  BY <2>1, DiskIsCopy
<1>2. ASSUME UNCHANGED <<mode, dst, safe>>, phase # "idle"
      PROVE  safe' # Nothing => AtLeast(dst', safe')
  BY <1>2 DEF BetterInv, AtLeast
<1>3. CASE Round
  BY <1>2, <1>3 DEF Round, InTrack, Rounds, Files
<1>4. CASE Begin
  <2>1. UNCHANGED <<mode, dst, safe, pos>> /\ phase # "idle"
    BY <1>4 DEF Begin, Rounds, Files
  <2>2. CASE InTrack'
    <3>1. pos # Sup /\ work' = dst[pos]
      BY <1>4, <2>2 DEF Begin, InTrack
    <3>2. dst[pos] \in Track
      BY <3>1, Places DEF TypeOK, Disk
    <3>3. \A i \in Ids : dst[pos][i] >= dst[pos][i]
      BY <3>2 DEF Track, Quality, Missing
    <3> QED  BY <1>2, <2>1, <3>1, <3>3
  <2> QED  BY <1>2, <2>1, <2>2
<1>5. CASE Skip
  BY <1>2, <1>5 DEF Skip, Wanted, BetterInv, InTrack, Transfer, Rounds, Files
<1>6. ASSUME Wanted, NEW r \in Cached, TakeIn(r) \/ LeaveOut(r),
             UNCHANGED <<mode, dst, safe>>
      PROVE  /\ safe' # Nothing => AtLeast(dst', safe')
             /\ InTrack' => \A i \in Ids : work'[i] >= dst'[pos'][i]
  <2>1. phase = "turn" /\ mode = "repair"
    BY <1>6 DEF Wanted
  <2>2. CASE TakeIn(r)
    <3>1. work' = Repaired(work, r.track) /\ pos' = pos
      BY <2>1, <2>2 DEF TakeIn
    <3>2. work \in Track /\ r.track \in Reading /\ pos \in Cyls
      BY <1>6, <2>1 DEF TypeOK, Cached, PosInv, InTrack
    <3>3. Repaired(work, r.track) \in Track
          /\ \A i \in Ids : Repaired(work, r.track)[i] >= work[i]
      BY <3>2, RepairedBetter
    <3>4. \A i \in Ids : work[i] >= dst[pos][i]
      BY <2>1 DEF BetterInv, InTrack
    <3>5. \A i \in Ids : work[i] \in Int /\ Repaired(work, r.track)[i] \in Int
                         /\ dst[pos][i] \in Int
      BY <3>2, <3>3 DEF TypeOK, Disk, Track, Quality, Missing
    <3>6. \A i \in Ids : work'[i] >= dst'[pos'][i]
      BY <1>6, <3>1, <3>3, <3>4, <3>5
    <3> QED  BY <1>2, <1>6, <2>1, <3>6
  <2>3. CASE LeaveOut(r)
    BY <1>2, <1>6, <2>1, <2>3 DEF LeaveOut, InTrack
  <2> QED  BY <1>6, <2>2, <2>3
<1>7. CASE ReadCached
  <2>1. cache[Source] \in Cached
    BY <1>7, CachedIsReading DEF ReadCached
  <2> QED  BY <1>6, <1>7, <2>1 DEF ReadCached, Rounds, Files
<1>8. CASE Read
  <2>0. PICK n \in Numbers \ {used[pos]} : \E r \in Found(n) : TakeIn(r) \/ LeaveOut(r)
    BY <1>8 DEF Read
  <2>1. PICK r \in Found(n) : TakeIn(r) \/ LeaveOut(r)
    BY <2>0
  <2>2. r \in Cached
    BY DEF Found, Cached, TypeOK
  <2> QED  BY <1>6, <1>8, <2>1, <2>2 DEF Read, Rounds, Files
<1>9. CASE Again
  BY <1>2, <1>9 DEF Again, BetterInv, InTrack, Rounds, Files
<1>10. CASE Store
  <2>1. UNCHANGED <<mode, safe>> /\ ~InTrack'
    BY <1>10 DEF Store, InTrack, Rounds, Files
  <2>2. AtLeast(dst', dst)
    BY <1>10, StoreBetter DEF Store, Rounds
  <2>3. ASSUME safe' # Nothing PROVE AtLeast(dst', safe')
    <3>1. safe \in Disk /\ dst \in Disk /\ dst' \in Disk /\ AtLeast(dst, safe)
      BY <1>10, <2>1, <2>3, TypeStep DEF Store, TypeOK, BetterInv
    <3> QED  BY <2>1, <2>2, <3>1 DEF AtLeast, Disk, Track, Quality, Missing
  <2> QED  BY <2>1, <2>3
<1>11. CASE Write
  BY <1>2, <1>11 DEF Write, ByTmp, InTrack, Transfer, Rounds
<1>12. CASE WriteFails \/ Stop
  BY <1>12 DEF WriteFails, Stop, Ends
<1>13. CASE Remove
  BY <1>2, <1>13 DEF Remove, InTrack, Transfer, Rounds
<1>14. CASE Rename
  <2>1. safe' = dst' /\ dst' \in Disk /\ ~InTrack'
    BY <1>14 DEF Rename, TypeOK, InTrack, Transfer
  <2> QED  BY <2>1, DiskIsCopy
<1>15. CASE Check
  <2>1. phase' \in {"round", "idle"}
    BY <1>15, Zenon DEF Check
  <2>2. safe' = dst' /\ dst' \in Disk /\ ~InTrack'
    BY <1>15, <2>1 DEF Check, FilesInv, TypeOK, InTrack, Transfer, Files
  <2> QED  BY <2>2, DiskIsCopy
<1>16. CASE UNCHANGED vars
  BY <1>2, <1>16 DEF vars, BetterInv, InTrack
<1> QED
  BY <1>1, <1>3, <1>4, <1>5, <1>7, <1>8, <1>9, <1>10, <1>11, <1>12, <1>13, <1>14, <1>15,
     <1>16 DEF Next, Proceed

-----------------------------------------------------------------------------
(* The theorems.                                                           *)

LEMMA Inductive == Spec => []IInv
<1>1. Init => IInv
  BY TypeInit DEF Init, IInv, FilesInv, BetterInv, SomeCopySurvives, Reads
<1>2. IInv /\ [Next]_vars => IInv'
  BY TypeStep, FilesStep, BetterStep DEF IInv
<1> QED  BY <1>1, <1>2, PTL DEF Spec

\* Every variable has its type, whatever the options and however many tracks and
\* sectors there are.
THEOREM DiskCopyTypeOK == Spec => []TypeOK
BY Inductive, PTL DEF IInv

\* What the user had before a merge or a repair, or what an earlier round has written,
\* is in one of the two files in every state, so wherever the process is stopped.
THEOREM DiskCopySurvives == Spec => []SomeCopySurvives
BY Inductive, PTL DEF IInv

\* No reading makes a sector of the repaired disk worse.
THEOREM DiskCopyNeverLoses == Spec => RepairNeverLoses
<1>1. IInv /\ [Next]_vars => [mode = "repair" /\ phase # "idle" => AtLeast(dst', dst)]_vars
  <2> SUFFICES ASSUME IInv, [Next]_vars, mode = "repair", phase # "idle"
               PROVE  AtLeast(dst', dst)
    OBVIOUS
  <2>1. CASE Store
    BY <2>1, StoreBetter DEF IInv, Store
  <2>2. CASE UNCHANGED dst
    BY <2>2, DiskIsCopy DEF IInv, TypeOK, AtLeast
  <2> QED
    BY <2>1, <2>2 DEF Next, Proceed, Start, Round, Begin, Skip, ReadCached, Read, Again, Write,
       WriteFails, Ends, Remove, Rename, Check, Stop, Transfer, vars
<1> QED  BY <1>1, Inductive, PTL DEF Spec, RepairNeverLoses

-----------------------------------------------------------------------------
(* Every reading counts once.                                              *)

\* The cylinders of the range that the round has still to read.
Ahead(c) ==
    /\ phase \in {"begin", "turn", "again", "store"}
    /\ c > pos \/ (c = pos /\ (phase = "begin" \/ (phase = "turn" /\ ~retried)))

\* A source that is not a device is copied in one round.
OneRound ==
    Constant /\ phase # "idle" =>
        /\ ~diskRetries.sinceLastChange /\ diskRetries.retryTimes <= 0
        /\ phase = "round" => cache = NoCache

\* Nothing is cached of a cylinder that the round has still to read.
FreshInv ==
    /\ OneRound
    /\ \A c \in Cyls : c * Step \in Cyls /\ Ahead(c) => cache[c * Step] = Nothing

\* Different cylinders lie at different places of the medium.
LEMMA StepsDiffer ==
    ASSUME NEW a \in Nat, NEW b \in Nat, a * Step = b * Step
    PROVE  a = b
<1>1. Step \in Nat \ {0}
  BY DiskCopyAssumption
<1>2. (a - b) * Step = 0
  BY <1>1
<1> DEFINE d == a - b
<1>3. d \in Int /\ d * Step = 0
  BY <1>2
<1>4. a = b <=> d = 0
  OBVIOUS
<1> HIDE DEF d
<1>5. d > 0 => d * Step > 0
  BY <1>1, <1>3
<1>6. d < 0 => d * Step < 0
  BY <1>1, <1>3
<1> QED  BY <1>3, <1>4, <1>5, <1>6

LEMMA ZeroIsNotLess == (0 < 0) = FALSE /\ (IF 0 < 0 THEN -0 ELSE 0) = 0
OBVIOUS

LEMMA FreshInit == Init => FreshInv
BY DEF Init, FreshInv, OneRound, Ahead, NoCache

\* Only asking and telling change the counter of the rounds.
LEMMA SameRound ==
    ASSUME OneRound, phase # "idle", phase' # "round", UNCHANGED diskRetries
    PROVE  OneRound'
BY DEF OneRound

LEMMA FreshStep == TypeOK /\ PosInv /\ FreshInv /\ [Next]_vars => FreshInv'
<1> SUFFICES ASSUME TypeOK, PosInv, FreshInv, [Next]_vars PROVE FreshInv'
  OBVIOUS
<1>0. /\ pos \in 0..Sup
      /\ cache \in [SourceCyls -> Cached \cup {Nothing}] /\ diskRetries \in Policy
      /\ Cyls \subseteq Nat
  BY Places DEF TypeOK
<1>a. Cyls \subseteq SourceCyls
  <2>1. Sup \in Nat /\ Step \in Nat \ {0}
    BY DiskCopyAssumption
  <2>2. Sup * Step >= Sup
    BY <2>1
  <2>3. Sup * Step \in Nat
    BY <2>1
  <2> QED  BY <2>1, <2>2, <2>3 DEF Cyls, SourceCyls
<1>q. ASSUME OneRound, phase # "idle", phase' # "round", UNCHANGED diskRetries,
             UNCHANGED cache,
             \A c \in Cyls : Ahead(c)' => Ahead(c)
      PROVE  FreshInv'
  BY <1>q, SameRound DEF FreshInv
<1>o. OneRound
  BY DEF FreshInv
<1>1. CASE Start
  <2>1. PICK m \in Modes :
          diskRetries' = OptionPolicy(IF m = "merge" \/ Constant THEN 0 ELSE DiskRetries)
    BY <1>1 DEF Start
  <2>2. Constant => ~diskRetries'.sinceLastChange /\ diskRetries'.retryTimes <= 0
    <3>1. ~OptionPolicy(0).sinceLastChange /\ OptionPolicy(0).retryTimes <= 0
      <4>1. OptionPolicy(0) = PolicyOf(0, FALSE)
        BY Zenon, ZeroIsNotLess DEF OptionPolicy
      <4> QED  BY <4>1 DEF PolicyOf
    <3> QED  BY <2>1, <3>1
  <2>3. phase' = "round" /\ cache' = NoCache
    BY <1>1 DEF Start
  <2>4. OneRound'
    BY <2>2, <2>3 DEF OneRound, NoCache, SourceCyls
  <2> QED  BY <2>3, <2>4 DEF FreshInv, Ahead, NoCache
<1>2. CASE Round
  <2>1. ASSUME NEW c \in Cyls, c * Step \in Cyls
        PROVE  cache'[c * Step] = Nothing
    <3>1. c * Step \in SourceCyls
      BY <1>a, <2>1
    <3>2. CASE Constant
      <4>1. cache' = NoCache
        BY <1>2, <1>o, <3>2 DEF Round, OneRound, RoundCache
      <4> QED  BY <3>1, <4>1 DEF NoCache
    <3>3. CASE ~Constant
      <4>1. cache' = [x \in SourceCyls |-> IF x \in Cyls THEN Nothing ELSE cache[x]]
        BY <1>2, <3>3 DEF Round, RoundCache
      <4> QED  BY <2>1, <3>1, <4>1
    <3> QED  BY <3>2, <3>3
  <2>2. OneRound'
    BY <1>2, <1>o, SameRound DEF Round, Rounds
  <2> QED  BY <1>2, <2>1, <2>2 DEF FreshInv, Round
<1>3. CASE Begin
  <2>1. \A c \in Cyls : Ahead(c)' => Ahead(c)
    BY <1>0, <1>3 DEF Begin, Ahead
  <2> QED  BY <1>3, <1>o, <1>q, <2>1 DEF Begin, Rounds
<1>4. CASE Skip
  <2>1. \A c \in Cyls : Ahead(c)' => Ahead(c)
    BY <1>0, <1>4 DEF Skip, Ahead
  <2> QED  BY <1>4, <1>o, <1>q, <2>1 DEF Skip, Rounds, Transfer
\* Taking in or leaving out leaves only the cylinders behind pos ahead.
<1>t. ASSUME NEW r, TakeIn(r) \/ LeaveOut(r), phase = "turn"
      PROVE  /\ phase' \in {"again", "begin"}
             /\ \A c \in Cyls : Ahead(c)' => c > pos /\ Ahead(c)
  BY <1>0, <1>t DEF TakeIn, LeaveOut, Ahead
<1>5. CASE ReadCached
  <2>1. Wanted /\ phase = "turn" /\ (TakeIn(cache[Source]) \/ LeaveOut(cache[Source]))
        /\ UNCHANGED <<cache, diskRetries>>
    BY <1>5 DEF ReadCached, Wanted, Rounds
  <2>2. phase' \in {"again", "begin"} /\ \A c \in Cyls : Ahead(c)' => Ahead(c)
    BY <1>t, <2>1
  <2> QED  BY <1>o, <1>q, <2>1, <2>2
<1>6. CASE Read
  <2>0. PICK n \in Numbers \ {used[pos]} :
          \E r \in Found(n) :
             /\ cache' = [cache EXCEPT ![Source] = r]
             /\ TakeIn(r) \/ LeaveOut(r)
    BY <1>6 DEF Read
  <2>1. PICK r \in Found(n) :
          /\ cache' = [cache EXCEPT ![Source] = r]
          /\ TakeIn(r) \/ LeaveOut(r)
    BY <2>0
  <2>2. phase = "turn" /\ UNCHANGED diskRetries
    BY <1>6 DEF Read, Wanted, Rounds
  <2>3. /\ phase' \in {"again", "begin"}
        /\ \A c \in Cyls : Ahead(c)' => c > pos /\ Ahead(c)
    BY <1>t, <2>1, <2>2
  <2>5. ASSUME NEW c \in Cyls, c * Step \in Cyls, Ahead(c)'
        PROVE  cache'[c * Step] = Nothing
    <3>1. c > pos /\ Ahead(c) /\ c \in Nat /\ pos \in Nat
      BY <1>0, <2>2, <2>3, <2>5
    <3>2. c * Step # Source
      BY <3>1, StepsDiffer DEF Source
    <3>3. cache[c * Step] = Nothing
      BY <2>5, <3>1 DEF FreshInv
    <3> QED  BY <1>0, <1>a, <2>1, <2>5, <3>2, <3>3
  <2>6. OneRound'
    BY <1>o, <2>2, <2>3, SameRound
  <2> QED  BY <2>5, <2>6 DEF FreshInv
<1>7. CASE Again
  <2>1. phase = "again" /\ phase' \in {"turn", "store"} /\ retried' = TRUE
        /\ UNCHANGED <<pos, cache, diskRetries>>
    BY <1>7, Zenon DEF Again, Rounds
  <2>2. \A c \in Cyls : Ahead(c)' => Ahead(c)
    BY <1>0, <2>1 DEF Ahead
  <2> QED  BY <1>o, <1>q, <2>1, <2>2
<1>8. CASE Store
  <2>1. \A c \in Cyls : Ahead(c)' => Ahead(c)
    BY <1>0, <1>8 DEF Store, Ahead
  <2> QED  BY <1>8, <1>o, <1>q, <2>1 DEF Store, Rounds
<1>9. CASE Write \/ Remove \/ Rename
  <2>1. /\ phase # "idle" /\ phase' \in {"idle", "write", "check", "remove", "rename"}
        /\ UNCHANGED <<cache, diskRetries>>
    BY <1>9 DEF Write, Remove, Rename, Transfer, Rounds
  <2>2. \A c \in Cyls : ~Ahead(c)'
    BY <2>1 DEF Ahead
  <2> QED  BY <1>o, <1>q, <2>1, <2>2
<1>12. CASE WriteFails \/ Stop
  <2>1. phase' = "idle"
    BY <1>12 DEF WriteFails, Stop, Ends
  <2> QED  BY <2>1 DEF FreshInv, OneRound, Ahead
<1>10. CASE Check
  <2> DEFINE counter ==
          IF mode = "copy" \/ changed THEN Changed(diskRetries) ELSE diskRetries
  <2>1. /\ phase = "check" /\ UNCHANGED cache
        /\ phase' = IF HasMoreRetry(counter) THEN "round" ELSE "idle"
    BY <1>10 DEF Check, Transfer
  <2>2. phase' \in {"round", "idle"}
    <3> HIDE DEF counter
    <3> QED  BY <2>1
  <2>3. Constant => phase' = "idle"
    <3>1. Constant => ~diskRetries.sinceLastChange /\ diskRetries.retryTimes <= 0
      BY <1>o, <2>1 DEF OneRound
    <3>2. Constant => ~HasMoreRetry(counter)
      <4>1. CASE ~(mode = "copy" \/ changed)
        BY <1>0, <3>1, <4>1, PlainCounters DEF Policy
      <4>2. CASE mode = "copy" \/ changed
        <5>1. Changed(diskRetries) \in Policy
          BY <1>0, PolicyTypes
        <5>2. Constant => /\ ~Changed(diskRetries).sinceLastChange
                          /\ Changed(diskRetries).retryTimes <= 0
          BY <1>0, <3>1, PlainCounters
        <5> QED  BY <4>2, <5>1, <5>2, PlainCounters DEF Policy
      <4> QED  BY <4>1, <4>2
    <3> QED  BY <2>1, <3>2
  <2>4. OneRound'
    BY <2>3 DEF OneRound
  <2> QED  BY <2>1, <2>2, <2>4 DEF FreshInv, Ahead
<1>11. CASE UNCHANGED vars
  BY <1>11 DEF vars, FreshInv, OneRound, Ahead
<1> QED
  BY <1>1, <1>2, <1>3, <1>4, <1>5, <1>6, <1>7, <1>8, <1>9, <1>10, <1>11, <1>12
  DEF Next, Proceed

\* Of a cylinder whose cache was cleared only new readings are taken in.
LEMMA TakesNewStep ==
    ASSUME TypeOK, PosInv, FreshInv, [Next]_vars, NEW c \in Cyls, c * Step \in Cyls
    PROVE  TakesNew(c)
<1> SUFFICES ASSUME phase = "turn", phase' = "again", pos = c
             PROVE  used'[c] # used[c]
  BY DEF TakesNew
<1>1. CASE ReadCached
  <2>1. cache[c * Step] # Nothing /\ ~retried
    BY <1>1 DEF ReadCached, FromCache, Source
  <2> QED  BY <2>1 DEF FreshInv, Ahead
<1>2. CASE Read
  <2>0. PICK n \in Numbers \ {used[pos]} : \E r \in Found(n) : TakeIn(r)
    BY <1>2 DEF Read, LeaveOut
  <2>1. PICK r \in Found(n) : TakeIn(r)
    BY <2>0
  <2>2. r.number # used[c] /\ used' = [used EXCEPT ![c] = r.number]
    BY <2>1 DEF Found, TakeIn
  <2> QED  BY <2>2 DEF TypeOK, FreshInv
<1> QED
  BY <1>1, <1>2 DEF Next, Proceed, Start, Round, Begin, Skip, Again, Store, Write, WriteFails,
     Ends, Remove, Rename, Check, Stop, vars

\* However often a round over the disk or over a track is retried, a reading of a
\* cylinder whose cache is cleared counts once, for any range, step and counters.
THEOREM DiskCopyCountsOnce == Spec => ClearedCountsOnce
<1>1. IInv /\ FreshInv /\ [Next]_vars
        => [\A c \in Cyls : c * Step \in Cyls => TakesNew(c)]_vars
  BY TakesNewStep DEF IInv
<1>2. IInv /\ FreshInv /\ [Next]_vars => FreshInv'
  BY FreshStep DEF IInv
<1> QED  BY <1>1, <1>2, FreshInit, Inductive, PTL DEF Spec, ClearedCountsOnce

=============================================================================
