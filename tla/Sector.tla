------------------------------- MODULE Sector -------------------------------
(***************************************************************************)
(* One sector of a disk while it is read, read again and merged with other *)
(* readings of the same sector (class Sector of samdisk_plus).             *)
(*                                                                         *)
(* A sector keeps up to MaxCopies different versions of its data and, in a *)
(* second list, how often each version was read.  The two lists are only   *)
(* kept in step by the order of the calls that change them.  Data is a     *)
(* short sequence of bytes, because the code compares prefixes, truncates  *)
(* and pads.  A merge of another sector is a loop over that sector's       *)
(* copies; here every turn of the loop is one step.                        *)
(***************************************************************************)
EXTENDS Integers, SequencesExt

CONSTANTS
    Reads,            \* what reading the sector can return: data, CRC state, DAM
    Others,           \* the sectors of other readings that may be merged in
    Size,             \* natural size of the data, header.sector_size()
    CrcSize,          \* bytes of the CRC that follows the data
    Is8KFormat,       \* the track is 250Kbps MFM and the size code is 6
    CompleteSize8K,   \* size from which an 8K sector counts as complete (6K)
    Recognised,       \* data in which ChecksumMethods finds a checksum
    MaxCopies,        \* option maxcopies
    Paranoia,         \* option paranoia
    NormalDisk,       \* option normal_disk
    StabilityLevel,   \* option stability_level
    Fill,             \* the byte option fill pads short data with
    MaxAttempts       \* bound on read attempts in the model

Byte == Nat
Data == Seq(Byte)

\* The data address marks the code tells apart (Other is every other mark).
Normal == "normal"
Deleted == "deleted"
OtherDam == "other"
Dams == {Normal, Deleted, OtherDam}

Merge == {"Unchanged", "Matched", "Improved", "NewData", "NewDataOverLimit"}

SectorType ==
    [copies : Seq(Data), stats : Seq(Int), badDataCrc : BOOLEAN,
     badIdCrc : BOOLEAN, dam : Dams, readAttempts : Nat, constantDisk : BOOLEAN]

ReadType == [data : Data, bad : BOOLEAN, dam : Dams]

\* A sector whose header was found and whose data was not read yet.
NewSector(constant) ==
    [copies |-> << >>, stats |-> << >>, badDataCrc |-> FALSE, badIdCrc |-> FALSE,
     dam |-> Normal, readAttempts |-> 0, constantDisk |-> constant]

-----------------------------------------------------------------------------
(* What the code asks of a sector.                                         *)

HasData(s) == s.copies # << >>

DataSize(s) == IF HasData(s) THEN Len(s.copies[1]) ELSE 0

HasGapData(s) == DataSize(s) > Size

Is8K(s) == Is8KFormat /\ HasData(s)

IsChecksummable8K(s) == Is8K(s) /\ s.copies[1] \in Recognised

HasGoodNormalData(s) == HasData(s) /\ ~s.badDataCrc /\ DataSize(s) = Size

HasGoodData(s) == HasData(s) /\ ~s.badDataCrc /\ ~HasGapData(s)

IsStable(count) == count >= StabilityLevel

\* The default call: 8K sectors are not accepted by their checksum alone.
HasStableData(s) ==
    /\ IF NormalDisk THEN HasGoodNormalData(s) ELSE HasGoodData(s)
    /\ Paranoia => \E i \in DOMAIN s.stats : IsStable(s.stats[i])

\* m_data and m_data_read_stats are indexed with the same index everywhere.
Aligned(s) == Len(s.copies) = Len(s.stats)

\* data_size() asks the first copy and speaks for all.
SameSize(s) == \A i, j \in DOMAIN s.copies : Len(s.copies[i]) = Len(s.copies[j])

WithinLimit(s) == Len(s.copies) <= MaxCopies

\* A sector with a bad header has no data; a count belongs to a read.
NoDataUnderBadId(s) == s.badIdCrc => s.copies = << >>

WellFormed(s) == Aligned(s) /\ SameSize(s) /\ WithinLimit(s) /\ NoDataUnderBadId(s)

ASSUME SectorAssumption ==
    /\ Size \in Nat /\ CrcSize \in Nat /\ Fill \in Byte
    /\ CompleteSize8K \in Nat
    /\ MaxCopies \in Nat \ {0}
    /\ Reads \subseteq ReadType
    /\ \A o \in Others : o \in SectorType /\ WellFormed(o)
    /\ {Is8KFormat, Paranoia, NormalDisk} \subseteq BOOLEAN
    /\ StabilityLevel \in Int
    /\ MaxAttempts \in Nat

-----------------------------------------------------------------------------
(* Changing the two lists.                                                 *)

Resize(d, n) == [k \in 1..n |-> IF k <= Len(d) THEN d[k] ELSE 0]

ResizeAll(ds, n) == [i \in DOMAIN ds |-> Resize(ds[i], n)]

EraseData(s, n) ==
    [s EXCEPT !.copies = RemoveAt(@, n), !.stats = RemoveAt(@, n)]

RemoveData(s) ==
    [s EXCEPT !.copies = << >>, !.stats = << >>, !.badDataCrc = FALSE, !.dam = Normal]

\* Mutant: the read counts of the dropped copies stay.
LimitCopies_DataOnly(s, n) ==
    IF Len(s.copies) > n THEN [s EXCEPT !.copies = SubSeq(@, 1, n)] ELSE s

LimitCopies(s, n) ==
    IF Len(s.copies) > n
    THEN [s EXCEPT !.copies = SubSeq(@, 1, n), !.stats = SubSeq(@, 1, n)]
    ELSE s

RemoveGapData(s, keepCrc) ==
    IF HasGapData(s)
    THEN [s EXCEPT !.copies = [i \in DOMAIN @ |->
              Resize(@[i], IF keepCrc /\ s.badDataCrc /\ Len(@[i]) >= Size + CrcSize
                           THEN Size + CrcSize ELSE Size)]]
    ELSE s

SetBadIdCrc(s, bad) ==
    LET flagged == [s EXCEPT !.badIdCrc = bad]
    IN  IF bad THEN RemoveData(flagged) ELSE flagged

\* Clearing the flag makes the data good: one copy unless paranoia, padded.
SetBadDataCrc(s, bad) ==
    LET single == IF ~bad /\ ~Paranoia THEN LimitCopies(s, 1) ELSE s
        Padded(d) == [k \in 1..Size |-> IF k <= Len(d) THEN d[k] ELSE Fill]
    IN  IF ~bad /\ DataSize(single) < Size
        THEN [single EXCEPT !.badDataCrc = bad,
                            !.copies = [i \in DOMAIN @ |-> Padded(@[i])]]
        ELSE [single EXCEPT !.badDataCrc = bad]

-----------------------------------------------------------------------------
(* Sector::add_original: what one read does to the copies.                 *)

\* Mutant: good data is added to bad copies instead of replacing them.
Supersedes_Only8K(s, d, bad) == Is8K(s) /\ d \in Recognised

\* The new data replaces everything: good after bad, or a known 8K checksum.
Supersedes(s, d, bad) ==
    \/ ~bad /\ s.badDataCrc
    \/ Is8K(s) /\ d \in Recognised

\* Mutant: bad data is taken although there is good data.
Refuses_NoGoodTest(s, d, bad) ==
    \/ s.badIdCrc
    \/ ~Supersedes(s, d, bad) /\ Len(s.copies) = 1 /\ IsChecksummable8K(s)

\* The new data is refused before it is compared with the copies.
Refuses(s, d, bad) ==
    \/ s.badIdCrc
    \/ bad /\ HasGoodData(s)
    \/ /\ ~Supersedes(s, d, bad)
       /\ Len(s.copies) = 1
       /\ IsChecksummable8K(s)

CompleteSize(s, d) == IF Is8K(s) THEN CompleteSize8K ELSE Len(d)

\* The copies whose contents agree with the new data over their common size.
Agreeing(s, d) ==
    {i \in DOMAIN s.copies :
        LET common == Min({Len(s.copies[i]), Len(d), CompleteSize(s, d)})
        IN  \A k \in 1..common : s.copies[i][k] = d[k]}

\* The stored copy has the better size: the new data only counts for it.
KeepsStored(stored, d, complete) ==
    \/ Len(d) = Len(stored)
    \/ Len(d) < Len(stored) /\ Len(d) < complete
    \/ Len(d) > Len(stored) /\ Len(stored) >= complete

PrefersStoredDam(stored, new) ==
    /\ stored # new
    /\ stored = Normal \/ (stored = Deleted /\ new # Normal)

Outcome(s, status, at, improved) ==
    [sector |-> s, status |-> status, at |-> at, improved |-> improved]

\* Mutant: all copies are padded to the longest.
Store_ToLongest(s, d, bad, dam, status, improved) ==
    LET size == IF HasData(s) THEN Max({Len(d), DataSize(s)}) ELSE Len(d)
        grown == [s EXCEPT !.copies = ResizeAll(@, size)]
        stored == IF Len(s.copies) >= MaxCopies THEN LimitCopies(grown, MaxCopies)
                  ELSE [grown EXCEPT !.copies = Append(@, Resize(d, size))]
    IN  IF HasData(s) /\ (PrefersStoredDam(s.dam, dam) \/ (~s.badDataCrc /\ ~Paranoia))
        THEN Outcome(s, "Unchanged", 0, 0)
        ELSE Outcome([stored EXCEPT !.badDataCrc = bad, !.dam = dam],
                     IF Len(s.copies) >= MaxCopies THEN "NewDataOverLimit" ELSE status,
                     0, improved)

\* The new data becomes a copy of its own, all copies cut to the shortest.
Store(s, d, bad, dam, status, improved) ==
    LET size == IF HasData(s) THEN Min({Len(d), DataSize(s)}) ELSE Len(d)
        cut == [s EXCEPT !.copies = ResizeAll(@, size)]
        full == Len(s.copies) >= MaxCopies
        stored == IF full THEN LimitCopies(cut, MaxCopies)
                  ELSE [cut EXCEPT !.copies = Append(@, Resize(d, size))]
    IN  IF /\ HasData(s)
           /\ PrefersStoredDam(s.dam, dam) \/ (~s.badDataCrc /\ ~Paranoia)
        THEN Outcome(s, "Unchanged", 0, 0)
        ELSE Outcome([stored EXCEPT !.badDataCrc = bad, !.dam = dam],
                     IF full THEN "NewDataOverLimit" ELSE status, 0, improved)

AddOriginal(s, d, bad, dam) ==
    LET base == IF Supersedes(s, d, bad) THEN RemoveData(s) ELSE s
        first == Min(Agreeing(base, d))
    IN  IF Refuses(s, d, bad) THEN Outcome(s, "Unchanged", 0, 0)
        ELSE IF Agreeing(base, d) = {} THEN Store(base, d, bad, dam, "NewData", 0)
        ELSE IF KeepsStored(base.copies[first], d, CompleteSize(base, d))
             THEN Outcome(base, "Matched", first, 0)
             ELSE Store(EraseData(base, first), d, bad, dam, "Improved", base.stats[first])

-----------------------------------------------------------------------------
(* Sector::add: the read counts that go with the copies.                   *)

\* Two independent readings with c1 of a1 and c2 of a2 reads: the rate at which
\* at least one of them succeeds, as a rounded count of a1 + a2 attempts.
PercentCombined(c1, a1, c2, a2) ==
    LET num == (c1 * a2 + c2 * a1 - c1 * c2) * (a1 + a2)
        den == a1 * a2
    IN  (2 * num + den) \div (2 * den)

\* Mutant: a matching read replaces the count instead of adding to it.
ProcessMergeResult_Replaces(out, attempts, count, counterMode) ==
    LET s == out.sector
    IN  CASE out.status = "NewData" -> [s EXCEPT !.stats = Append(@, count)]
          [] out.status = "Matched" -> [s EXCEPT !.stats[out.at] = count]
          [] out.status = "Improved" -> [s EXCEPT !.stats = Append(@, count)]
          [] OTHER -> s

ProcessMergeResult(out, attempts, count, counterMode) ==
    LET s == out.sector
        Combined(old) ==
            IF counterMode THEN old + count
            ELSE PercentCombined(old, s.readAttempts, count, attempts)
    IN  CASE out.status = "NewData"  -> [s EXCEPT !.stats = Append(@, count)]
          [] out.status = "Matched"  -> [s EXCEPT !.stats[out.at] = Combined(@)]
          [] out.status = "Improved" -> [s EXCEPT !.stats = Append(@, Combined(out.improved))]
          [] OTHER -> s

\* Counted attempts and counts of the new data; a read is one attempt, one count.
Add(s, d, bad, dam, attempts, count, counterMode) ==
    LET out == AddOriginal(s, d, bad, dam)
    IN  [sector |-> ProcessMergeResult(out, attempts, count, counterMode),
         status |-> out.status]

AddRead(s, r) ==
    LET added == Add(s, r.data, r.bad, r.dam, 1, 1, TRUE)
    IN  [added EXCEPT !.sector.readAttempts = @ + 1]

-----------------------------------------------------------------------------
VARIABLES
    sector,     \* the sector
    merging,    \* the merge in progress: the other sector, its next copy, result
    status      \* what the last add or merge returned

vars == <<sector, merging, status>>

Idle == [active |-> FALSE, from |-> NewSector(FALSE), next |-> 1, ret |-> "Unchanged"]

MergingType ==
    [active : BOOLEAN, from : SectorType, next : Nat \ {0}, ret : Merge]

\* The header of the sector was found, with an error in it or without.
Init ==
    /\ sector \in {SetBadIdCrc(NewSector(c), bad) : c \in BOOLEAN, bad \in BOOLEAN}
    /\ merging = Idle
    /\ status = "Unchanged"

Within(s) == s.readAttempts <= MaxAttempts

\* The device or a decoder delivered the data of this sector once more.
AddData ==
    /\ ~merging.active
    /\ \E r \in Reads :
        LET added == AddRead(sector, r)
        IN  /\ Within(added.sector)
            /\ sector' = added.sector
            /\ status' = added.status
    /\ UNCHANGED merging

\* Reading failed: the attempt counts, there is no data.
AddReadAttempts ==
    /\ ~merging.active
    /\ sector' = [sector EXCEPT !.readAttempts = @ + 1]
    /\ Within(sector')
    /\ UNCHANGED <<merging, status>>

MergeStart(o, ret) == [active |-> TRUE, from |-> o, next |-> 1, ret |-> ret]

\* Sector::merge up to its loop.  A bad id of the other sector ends it at once,
\* a bad id of this one is repaired, and good data is not mixed with bad.
BeginMerge ==
    /\ ~merging.active
    /\ \E o \in Others :
        LET repaired == SetBadIdCrc(sector, FALSE)
            ret == IF sector.badIdCrc THEN "Improved" ELSE "Unchanged"
            counted == [repaired EXCEPT !.readAttempts = @ + o.readAttempts]
        IN  /\ Within(counted)
            /\ IF o.badIdCrc
               THEN status' = "Unchanged" /\ UNCHANGED <<sector, merging>>
               ELSE IF HasData(sector) /\ ~sector.badDataCrc /\ o.badDataCrc
               THEN sector' = counted /\ status' = ret /\ UNCHANGED merging
               ELSE /\ sector' = repaired
                    /\ merging' = MergeStart(o, ret)
                    /\ UNCHANGED status

\* The more important of the results so far and of the next copy.
MoreImportant(ret, add) ==
    IF \/ add = "Unchanged"
       \/ ret \in {"NewData", "NewDataOverLimit"}
       \/ ret = "Improved" /\ add \notin {"NewData", "NewDataOverLimit"}
    THEN ret ELSE add

\* A rate of zero attempts is not a number; converting it throws and the run ends.
Combinable(s, o) == o.constantDisk => s.readAttempts > 0 /\ o.readAttempts > 0

Combines(s, o, i) ==
    AddOriginal(s, o.copies[i], o.badDataCrc, o.dam).status \in {"Matched", "Improved"}

MergeCopy ==
    /\ merging.active
    /\ merging.next <= Len(merging.from.copies)
    /\ Combines(sector, merging.from, merging.next) => Combinable(sector, merging.from)
    /\ LET o == merging.from
           added == Add(sector, o.copies[merging.next], o.badDataCrc, o.dam,
                        o.readAttempts, o.stats[merging.next], ~o.constantDisk)
       IN  /\ sector' = added.sector
           /\ merging' = [merging EXCEPT !.next = @ + 1,
                                         !.ret = MoreImportant(@, added.status)]
    /\ UNCHANGED status

EndMerge ==
    /\ merging.active
    /\ merging.next > Len(merging.from.copies)
    /\ sector' = [sector EXCEPT !.readAttempts = @ + merging.from.readAttempts]
    /\ status' = merging.ret
    /\ merging' = Idle

\* Track::merge keeps one copy of a sector whose data overlaps the next header.
LimitOverlappingCopies ==
    /\ ~merging.active
    /\ status \in {"Improved", "NewData"}
    /\ sector' = LimitCopies(sector, 1)
    /\ UNCHANGED <<merging, status>>

\* NormaliseTrack removes the gap behind the data, keeping or dropping its CRC.
DropGapData ==
    /\ ~merging.active
    /\ \E keepCrc \in BOOLEAN : sector' = RemoveGapData(sector, keepCrc)
    /\ UNCHANGED <<merging, status>>

\* The data read is declared bad afterwards: a bad block of a block device, an
\* image that ends within the sector, a weak sector stored as good.
MarkDataBad ==
    /\ ~merging.active
    /\ HasData(sector)
    /\ sector' = SetBadDataCrc(sector, TRUE)
    /\ UNCHANGED <<merging, status>>

Next ==
    \/ AddData
    \/ AddReadAttempts
    \/ BeginMerge
    \/ MergeCopy
    \/ EndMerge
    \/ LimitOverlappingCopies
    \/ DropGapData
    \/ MarkDataBad

Spec == Init /\ [][Next]_vars

-----------------------------------------------------------------------------
(* What devices keep to, which the properties of good and stable data need. *)

\* No data of a reading or of another sector is longer than its natural size.
NoGapRead ==
    /\ \A r \in Reads : Len(r.data) <= Size
    /\ \A o \in Others : \A i \in DOMAIN o.copies : Len(o.copies[i]) <= Size

\* 8K sectors are judged by their checksums.
Not8K == Is8KFormat = FALSE

\* Every reading has the natural size, what is merged was counted, and no other
\* sector has two copies that are equal.
NaturalSizes ==
    /\ Not8K
    /\ \A r \in Reads : Len(r.data) = Size
    /\ \A o \in Others : \A i \in DOMAIN o.copies :
          /\ Len(o.copies[i]) = Size
          /\ o.stats[i] \in 0..o.readAttempts
          /\ \A k \in DOMAIN o.copies : o.copies[i] = o.copies[k] => i = k

-----------------------------------------------------------------------------
(* Properties.                                                             *)

\* Every variable has its type.
TypeOK ==
    /\ sector \in SectorType
    /\ merging \in MergingType
    /\ status \in Merge

\* Through reads, failed reads, merges of other readings and the trims of later
\* passes the copies and their counts stay aligned, of one size and limited.
CopiesInv == WellFormed(sector)

Sources(bad) ==
    {r.data : r \in {x \in Reads : x.bad \in bad}}
        \cup UNION {ToSet(o.copies) : o \in {x \in Others : x.badDataCrc \in bad}}

\* Every copy is the beginning of something that was really read: cutting copies
\* to a common size never pads one of them.
NoPhantomData ==
    \A i \in DOMAIN sector.copies :
        \E d \in Sources(BOOLEAN) : IsPrefix(sector.copies[i], d)

\* The one CRC flag of the sector covers all its copies: when it says good, no
\* copy comes from a read with a CRC error.
GoodFlagIsHonest ==
    ~sector.badDataCrc =>
        \A i \in DOMAIN sector.copies :
            \E d \in Sources({FALSE}) : IsPrefix(sector.copies[i], d)

Reading == AddData \/ AddReadAttempts \/ BeginMerge \/ MergeCopy \/ EndMerge

\* No later read or merge takes good data away.
GoodDataSurvives ==
    [][Reading /\ HasGoodData(sector) => HasGoodData(sector')]_vars

\* No later read or merge makes a stable sector unstable: the copying loops stop
\* reading a sector at the moment it becomes stable.
StableStaysStable ==
    [][Reading /\ HasStableData(sector) => HasStableData(sector')]_vars

=============================================================================
