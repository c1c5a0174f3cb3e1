------------------------------- MODULE Fat12 -------------------------------
(***************************************************************************)
(* The filesystem of a disk saved as an Atari ST image, whose boot sector  *)
(* is made up when it has no data and gets a new BIOS parameter block when *)
(* the disk has a filesystem of another kind or an imperfect one           *)
(* (Fat12FileSystem.cpp, types/st.cpp): sectors per FAT, entries of the    *)
(* root directory and sectors per cluster are guessed from the sectors the *)
(* disk still has.                                                         *)
(*                                                                         *)
(* Sectors are short: SectorBytes bytes, which hold PerSector directory    *)
(* entries of three bytes (the first of the name, start, size).            *)
(***************************************************************************)
EXTENDS Integers, Sequences, FiniteSets, SequencesExt

CONSTANTS
    Volumes,       \* disks: [fmt, bpb, store, system, made], made being as they were
    SectorBytes, PerSector,
    NormalDirs,    \* the two usual sizes of the root directory in sectors, and
    MaxDirSectors  \* the largest that is looked for

VARIABLES
    volume,     \* the disk as it was when it was in order
    store,      \* its sectors in memory, by cylinder, head and number
    system,     \* the filesystem found, or NoSystem
    saved,      \* the image: its format and its sectors in order, or NoImageYet
    verdict,    \* what the last operation said
    fresh       \* the parameter block made by the last saving, or NoBlock

fatVars == <<volume, store, system, saved, verdict, fresh>>

NoSystem == [name |-> "none"]
NoBlock == [fats |-> 0]
NoImageYet == [fmt |-> "none"]
Nowhere == [state |-> "gone"]

-----------------------------------------------------------------------------
\* The first byte of a directory entry's name tells deleted ones and the end; the
\* attributes tell labels and subdirectories, here by values of their own.
EndEntry == 0
DeletedEntry == 229
LabelEntry == 76
DirectoryEntry == 68

\* What empty and made up sectors are filled with, and the sign of lost sectors.
Filling == 229
LostSign == 77
BadSign == 83

TotalOf(fmt) == fmt.cyls * fmt.heads * fmt.sectors
BlockFmt(b) ==
    [cyls |-> IF b.sectors > 0 /\ b.heads > 0 THEN b.total \div (b.sectors * b.heads) ELSE 0,
     heads |-> b.heads, sectors |-> b.sectors]

SystemOf(b, name) ==
    LET Perfect == TotalOf(BlockFmt(b)) = b.total
        \* The parameter block is sensible, so that its geometry is taken: its medium
        \* byte and its bytes per sector, which are tested too, are right here.
        Sensible ==
            /\ b.perCluster >= 1 /\ b.reserved >= 1 /\ b.fats \in 1 .. 2
            /\ b.root # 0 /\ b.root % PerSector = 0
            /\ b.fatSectors >= 1
            /\ BlockFmt(b).cyls \in 1 .. 128 /\ b.heads \in 1 .. 2
            /\ b.sectors \in 1 .. 144
    IN  IF Sensible THEN [name |-> name, block |-> b, fmt |-> BlockFmt(b), perfect |-> Perfect]
        ELSE NoSystem

Readable(s) == s.state \in {"good", "bad"}

\* A disk is approved by its boot sector, if that is good. The filesystem of the
\* Atari ST is tried first, and takes what the other would take.
BootPlace == <<0, 0, 1>>

Approved(disks) ==
    IF disks[BootPlace].state = "good" THEN SystemOf(disks[BootPlace].block, "STFAT12")
    ELSE NoSystem

\* Logical sectors. The test of the index lets one too many pass.
InRange(fmt, i) == i >= 0 /\ i <= TotalOf(fmt)

Physical(fmt, i) ==
    <<(i \div fmt.sectors) \div fmt.heads, (i \div fmt.sectors) % fmt.heads, (i % fmt.sectors) + 1>>

LogicalSector(disks, fmt, i) ==
    IF Physical(fmt, i) \in DOMAIN disks THEN disks[Physical(fmt, i)] ELSE Nowhere

-----------------------------------------------------------------------------
\* What the entries of a FAT mean.
IsEof(x) == x \in 4088 .. 4095
IsBad(x) == x \in 4080 .. 4087
IsNext(x) == x \in 2 .. 4079
IsUsed(x) == IsEof(x) \/ IsNext(x)

\* ReadFATSectors: the two copies, and which sectors of them were there.
FatCopy(disks, fmt, start, n) ==
    [has |-> [k \in 1 .. n |-> Readable(LogicalSector(disks, fmt, start + k - 1))],
     bytes |-> FlattenSeq([k \in 1 .. n |->
        LET s == LogicalSector(disks, fmt, start + k - 1)
        IN  IF Readable(s) THEN s.bytes ELSE [b \in 1 .. SectorBytes |-> 0]])]

FatPair(disks, fmt, b, n) ==
    <<FatCopy(disks, fmt, b.reserved, n), FatCopy(disks, fmt, b.reserved + n, n)>>

\* The first byte an entry is read from, and the entry.
FirstByte(cluster) ==
    (((cluster - (cluster % 2)) * 3) \div 2) + (cluster % 2)

HasEntry(copy, cluster) ==
    \A at \in {FirstByte(cluster), FirstByte(cluster) + 1} :
        at \div SectorBytes < Len(copy.has) /\ copy.has[at \div SectorBytes + 1]

EntryIn(copy, cluster) ==
    LET low == copy.bytes[FirstByte(cluster) + 1]
        high == copy.bytes[FirstByte(cluster) + 2]
    IN  IF cluster % 2 = 0 THEN (high % 16) * 256 + low ELSE low \div 16 + high * 16

\* Of two readable entries the second is taken if only it goes on, or is used.
Favoured(one, two) ==
    IF (~IsNext(one) /\ IsNext(two)) \/ (~IsUsed(one) /\ IsUsed(two)) THEN two ELSE one

\* Mutant: a copy is taken whether or not its sector was there.
Next12_FirstCopy(fat, cluster, sup) ==
    IF sup <= 0 \/ cluster >= sup THEN -1 ELSE EntryIn(fat[1], cluster)

Next12(fat, cluster, sup) ==
    IF sup <= 0 \/ cluster >= sup THEN -1
    ELSE CASE HasEntry(fat[1], cluster) /\ HasEntry(fat[2], cluster) ->
                Favoured(EntryIn(fat[1], cluster), EntryIn(fat[2], cluster))
           [] HasEntry(fat[1], cluster) /\ ~HasEntry(fat[2], cluster) -> EntryIn(fat[1], cluster)
           [] ~HasEntry(fat[1], cluster) /\ HasEntry(fat[2], cluster) -> EntryIn(fat[2], cluster)
           [] OTHER -> 4095

ClustersOf(n) == (n * SectorBytes * 2) \div 3

Chain(fat, start, sup) ==
    LET \* The clusters of a chain, one after the other, -1 behind its end.
        Link(c) == IF c # -1 /\ IsNext(Next12(fat, c, sup)) THEN Next12(fat, c, sup) ELSE -1
        link[k \in 0 .. sup + 1] == IF k = 0 THEN start ELSE Link(link[k - 1])
    IN  [k \in 1 .. sup + 2 |-> link[k - 1]]

ClusterAmount(fat, start, sup) ==
    Cardinality({k \in 1 .. sup + 1 : LET c == Chain(fat, start, sup)[k]
                                      IN  c # -1 /\ IsUsed(Next12(fat, c, sup))})

\* A chain that comes back to itself is followed for ever.
NeverEnds(fat, start, sup) == Chain(fat, start, sup)[sup + 2] # -1

-----------------------------------------------------------------------------
\* The most sectors a FAT may have, assuming clusters of one sector.
CeilDiv(a, b) == -((-a) \div b)
Larger(a, b) == IF a > b THEN a ELSE b

MaxFatSectors(fmt) == CeilDiv((TotalOf(fmt) - 2) * 3, 2 * SectorBytes)

TotalOver(s) == FoldLeft(LAMBDA x, y : x + y, 0, s)
StepBetween(a, b) == IF a > b THEN a - b ELSE b - a

\* How much two sectors agree, and how little monotonous the first is.
Likeness(one, two) ==
    Cardinality({i \in DOMAIN one : one[i] = two[i]})
      * TotalOver([i \in DOMAIN one |-> StepBetween(one[i], TotalOver(SubSeq(one, 1, i)) \div i)])

\* A thousand times the roots of the first numbers.
Roots == <<1000, 1414, 1732, 2000>>

\* The match of sectors at a distance: the mean of those there are, in favour of
\* long distances.
ScoreAt(disks, fmt, distance) ==
    LET At(i) == LogicalSector(disks, fmt, i)
        pairs == SelectSeq([k \in 1 .. distance |-> k],
                           LAMBDA i : Readable(At(i)) /\ Readable(At(i + distance)))
    IN  IF pairs = << >> THEN 0
        ELSE (TotalOver([k \in DOMAIN pairs |-> Likeness(At(pairs[k]).bytes, At(pairs[k] + distance).bytes)])
                * Roots[distance]) \div Len(pairs)

\* The first distance with the best match, 0 if nothing matches.
FatDistance(disks, fmt) ==
    LET score == [d \in 1 .. MaxFatSectors(fmt) |-> ScoreAt(disks, fmt, d)]
        best == {d \in DOMAIN score : score[d] > 0 /\ \A e \in DOMAIN score : score[e] <= score[d]}
    IN  IF best = {} THEN 0 ELSE CHOOSE d \in best : \A e \in best : d <= e

-----------------------------------------------------------------------------
\* The entries of the sectors from the first of the directory on that are there,
\* in order: [sector, entry, first, start, size].
EntriesFrom(disks, fmt, first, count) ==
    FlattenSeq([k \in 1 .. count |->
        LET s == LogicalSector(disks, fmt, first + k - 1)
        IN  IF ~Readable(s) THEN << >>
            ELSE [e \in 1 .. PerSector |->
                    [sector |-> first + k - 1, entry |-> e, first |-> s.bytes[3 * e - 2],
                     start |-> s.bytes[3 * e - 1], size |-> s.bytes[3 * e]]]])

\* Files, as far as the directory is looked at for the size of clusters.
IsFile(e) == e.first > 32 /\ e.first \notin {DeletedEntry, LabelEntry, DirectoryEntry}

FirstWhere(list, Test(_)) ==
    LET found == {i \in DOMAIN list : Test(list[i])}
    IN  IF found = {} THEN 0 ELSE CHOOSE i \in found : \A j \in found : i <= j

\* AnalyseDirEntries: the directory ends with the last sector before one that has
\* an entry behind the first unused one. A usual size is preferred if the
\* directory may have it.
UnusedIn(list) == FirstWhere(list, LAMBDA e : e.first = EndEntry)

BehindIn(list) ==
    LET unused == UnusedIn(list)
    IN  IF unused = 0 THEN << >>
        ELSE SelectSeq(SubSeq(list, unused + 1, Len(list)), LAMBDA e : e.first # EndEntry)

\* Mutant: the end of the directory is not looked for.
DirSectorsIn_Usual(list, first) == NormalDirs[1]

DirSectorsIn(list, first) ==
    LET LeastIn ==
            LET unused == UnusedIn(list)
            IN  IF unused = 0 THEN 0
                ELSE list[unused].sector - first + (IF list[unused].entry > 1 THEN 1 ELSE 0)
        MostIn ==
            IF BehindIn(list) = << >> THEN MaxDirSectors ELSE BehindIn(list)[1].sector - first
        possible == Larger(1, LeastIn) .. Larger(1, MostIn)
    IN  IF NormalDirs[1] \in possible THEN NormalDirs[1]
        ELSE IF NormalDirs[2] \in possible THEN NormalDirs[2] ELSE Larger(1, MostIn)

\* The files before the first unused entry that have more than one cluster tell
\* the sectors of a cluster.
FilesBefore(list) ==
    LET unused == UnusedIn(list)
    IN  SelectSeq(IF unused = 0 THEN list ELSE SubSeq(list, 1, unused - 1), LAMBDA e : IsFile(e))

PerClusterOf(files, fat, sup) ==
    LET long == SelectSeq(files, LAMBDA e : ClusterAmount(fat, e.start, sup) > 1)
        each == [k \in DOMAIN long |->
                    CeilDiv(long[k].size, SectorBytes * ClusterAmount(fat, long[k].start, sup))]
    IN  IF long = << >> THEN 0 ELSE (2 * TotalOver(each) + Len(long)) \div (2 * Len(long))

\* DetermineSectorsPerCluster, rounded up to a power of two. Without a FAT this is
\* a shift by the logarithm of 0: any result, or too large a one.
PowerOf2From(n) == CHOOSE p \in {1, 2, 4, 8, 16, 32, 64, 128, 256} :
                      p >= n /\ (p = 1 \/ p \div 2 < n)

SectorsPerCluster(fmt, n, byFiles) ==
    LET data == TotalOf(fmt) - 1 - 2 * n - 1
        indices == ((n * SectorBytes) \div 3) * 2
    IN  IF n = 0 THEN {1, 4, 256}
        ELSE {PowerOf2From(Larger(CeilDiv(data, indices - 2), byFiles))}

\* ReconstructBpb: the outcomes.
BlockWith(b, fmt, n, dirSectors, perCluster) ==
    [b EXCEPT !.total = TotalOf(fmt), !.sectors = fmt.sectors, !.heads = fmt.heads, !.reserved = 1,
              !.fats = 2, !.fatSectors = n, !.root = dirSectors * PerSector, !.perCluster = perCluster]

ReconstructedIn(b, fmt, n, list, files, fat) ==
    IF \E k \in DOMAIN files : NeverEnds(fat, files[k].start, ClustersOf(n))
    THEN {[said |-> "hangs"]}
    ELSE {IF p > 255 THEN [said |-> "throws"]
          ELSE [said |-> "yes", block |-> BlockWith(b, fmt, n, DirSectorsIn(list, 1 + 2 * n), p)] :
            p \in SectorsPerCluster(fmt, n, PerClusterOf(files, fat, ClustersOf(n)))}

Reconstructed(disks, b, fmt) ==
    LET n == FatDistance(disks, fmt)
        first == 1 + 2 * n
        list == EntriesFrom(disks, fmt, first, MaxDirSectors)
    IN  IF \/ ~InRange(fmt, 2 * MaxFatSectors(fmt))
           \/ BehindIn(list) = << >> /\ ~InRange(fmt, first + MaxDirSectors - 1)
        THEN {[said |-> "throws"]}
        ELSE ReconstructedIn(b, fmt, n, list, FilesBefore(list),
                             FatPair(disks, fmt, [reserved |-> 1], n))

-----------------------------------------------------------------------------
\* The format of a disk without a filesystem of the Atari ST: the extent of its
\* tracks and their most sectors, numbered without a gap.
Present(disks) == {p \in DOMAIN disks : disks[p].state # "gone"}

RawFormatOf(disks) ==
    LET Top(S) == CHOOSE x \in S : \A y \in S : y <= x
        numbers == {p[3] : p \in Present(disks)}
        perTrack == {Cardinality({q \in Present(disks) : q[1] = p[1] /\ q[2] = p[2]}) : p \in Present(disks)}
        base == CHOOSE x \in numbers : \A y \in numbers : x <= y
    IN  IF Present(disks) = {} THEN [said |-> "throws"]
        ELSE IF base + Top(perTrack) <= Top(numbers) \/ base # 1 THEN [said |-> "throws"]
        ELSE [said |-> "yes", fmt |-> [cyls |-> Top({p[1] : p \in Present(disks)}) + 1,
                                       heads |-> Top({p[2] : p \in Present(disks)}) + 1,
                                       sectors |-> Top(perTrack)]]

FormatOf(disks, sys) ==
    IF sys.name # "STFAT12" THEN RawFormatOf(disks)
    ELSE IF \E p \in Present(disks) : p[3] <= sys.fmt.sectors THEN [said |-> "yes", fmt |-> sys.fmt]
    ELSE [said |-> "throws"]

\* EnsureBootSector: a boot sector without data is made up, signed as lost, and
\* stays bad.
MadeUpBlock ==
    [fats |-> Filling, perCluster |-> Filling, reserved |-> 257 * Filling, root |-> 257 * Filling,
     total |-> 257 * Filling, fatSectors |-> 257 * Filling, sectors |-> 257 * Filling,
     heads |-> 257 * Filling]

EnsureBoot(disks) ==
    IF Readable(disks[BootPlace]) THEN disks
    ELSE [disks EXCEPT ![BootPlace] = [state |-> "bad", block |-> MadeUpBlock]]

\* WriteRegularDisk: the sectors in order, lost and bad ones with their signs.
Image(disks, fmt) ==
    [fmt |-> fmt, block |-> disks[BootPlace].block,
     sectors |-> [i \in 1 .. TotalOf(fmt) - 1 |->
        LET s == LogicalSector(disks, fmt, i)
        IN  CASE s.state = "good" -> s.bytes
              [] s.state = "bad" -> [s.bytes EXCEPT ![SectorBytes] = BadSign]
              [] OTHER -> [b \in 1 .. SectorBytes |-> IF b = 1 THEN LostSign ELSE Filling]]]

WithBlock(disks, b) == [disks EXCEPT ![BootPlace].block = b]

\* The outcome of the repair of the filesystem before the disk is written.
Repaired(disks, sys, repair, fmt) ==
    LET \* Whether the parameter block is made again.
        NeedsBlock ==
            \/ sys # NoSystem /\ sys.name # "STFAT12"
            \/ ~Readable(disks[BootPlace])
            \/ repair /\ sys # NoSystem /\ ~sys.perfect
    IN  IF NeedsBlock
        THEN Reconstructed(EnsureBoot(disks), EnsureBoot(disks)[BootPlace].block, fmt)
        ELSE {[said |-> "yes", block |-> NoBlock]}

FatInit ==
    \E v \in Volumes :
        /\ volume = v.made
        /\ store = v.store
        /\ system = IF v.system = "none" THEN NoSystem ELSE SystemOf(v.store[BootPlace].block, v.system)
        /\ saved = NoImageYet
        /\ verdict = "ready"
        /\ fresh = NoBlock

\* WriteST. A throw in the middle leaves the made up boot sector on the disk.
SaveST(repair) ==
    /\ verdict = "ready"
    /\ \E sys \in {IF system = NoSystem THEN Approved(store) ELSE system} :
       \E form \in {FormatOf(store, sys)} :
        IF form.said = "throws"
        THEN verdict' = "throws" /\ system' = sys /\ UNCHANGED <<store, saved, fresh>>
        ELSE \E done \in Repaired(store, sys, repair, form.fmt) :
            /\ verdict' = IF done.said = "yes" THEN "saved" ELSE done.said
            /\ IF done.said # "yes"
               THEN /\ store' = EnsureBoot(store)
                    /\ system' = sys /\ UNCHANGED <<saved, fresh>>
               ELSE /\ fresh' = done.block
                    /\ store' = IF done.block = NoBlock THEN store
                                ELSE WithBlock(EnsureBoot(store), done.block)
                    /\ system' = IF done.block = NoBlock THEN sys
                                 ELSE [name |-> "STFAT12", block |-> done.block, fmt |-> form.fmt,
                                       perfect |-> TRUE]
                    /\ saved' = Image(store', form.fmt)
    /\ UNCHANGED volume

\* ReadST: the image is opened again, every sector of it is good.
OpenST ==
    /\ verdict = "saved"
    /\ store' = [p \in {Physical(saved.fmt, i) : i \in 0 .. TotalOf(saved.fmt) - 1} |->
                    IF p = BootPlace THEN [state |-> "good", block |-> saved.block]
                    ELSE LET i == CHOOSE k \in DOMAIN saved.sectors : Physical(saved.fmt, k) = p
                         IN  [state |-> "good", bytes |-> saved.sectors[i]]]
    /\ system' = SystemOf(saved.block, "STFAT12")
    /\ verdict' = "opened"
    /\ UNCHANGED <<volume, saved, fresh>>

FatNext == (\E repair \in BOOLEAN : SaveST(repair)) \/ OpenST

FatSpec == FatInit /\ [][FatNext]_fatVars

-----------------------------------------------------------------------------
\* Dir: where the files of the root directory begin, and the bad clusters.
ClusterAt(b, cluster) ==
    (cluster - 2) * b.perCluster + b.reserved + b.fats * b.fatSectors + b.root \div PerSector

FilesListed(disks, sys) ==
    LET b == sys.block
        list == EntriesFrom(disks, sys.fmt, b.reserved + b.fats * b.fatSectors, b.root \div PerSector)
        unused == UnusedIn(list)
    IN  {[start |-> e.start, at |-> ClusterAt(b, e.start)] :
            e \in ToSet(SelectSeq(IF unused = 0 THEN list ELSE SubSeq(list, 1, unused - 1),
                                  LAMBDA x : x.first > 32 /\ x.first \notin {DeletedEntry, LabelEntry}))}

BadClusters(disks, sys) ==
    LET b == sys.block
        sup == ClustersOf(b.fatSectors)
        fat == FatPair(disks, sys.fmt, b, b.fatSectors)
    IN  {c \in 2 .. sup - 1 : IsBad(Next12(fat, c, sup))}

\* What is left of the two copies of a FAT: a sector that has entries, in both.
FatSector(k) == LogicalSector(store, volume.fmt, k)

FatLeft ==
    \E k \in 1 .. volume.block.fatSectors : \A i \in {k, k + volume.block.fatSectors} :
        FatSector(i).state = "good" /\ \E x \in DOMAIN FatSector(i).bytes : FatSector(i).bytes[x] # 0

\* No sector of the FATs and of the directory was read badly.
Unspoiled ==
    \A k \in 1 .. 2 * volume.block.fatSectors + volume.block.root \div PerSector :
        FatSector(k).state # "bad"

\* A copy of each sector of the FAT is there.
FatCovered ==
    \A k \in 1 .. volume.block.fatSectors :
        Readable(FatSector(k)) \/ Readable(FatSector(k + volume.block.fatSectors))

\* The entries of the directory that are left. They tell its size if it is the
\* smaller usual one, or the larger and a place behind the smaller is in use, and
\* the size of clusters if there is a file of several and its chain is.
EntriesLeft ==
    ToSet(EntriesFrom(store, volume.fmt, 1 + 2 * volume.block.fatSectors,
                      volume.block.root \div PerSector))

DirTold ==
    \/ volume.block.root = NormalDirs[1] * PerSector
    \/ volume.block.root = NormalDirs[2] * PerSector
         /\ \E e \in EntriesLeft : /\ e.first # EndEntry
                                   /\ e.sector > 2 * volume.block.fatSectors + NormalDirs[1]

ClusterTold ==
    FatCovered /\ \E e \in EntriesLeft : IsFile(e) /\ e.size > SectorBytes * volume.block.perCluster

\* The parameter block made for a disk whose boot sector is lost, or that has
\* another or an imperfect filesystem, has the values the disk had as far as they
\* can be told, so that files and bad clusters are listed where they are. An image
\* made without FATs to go by is opened without a filesystem.
RebuiltSystem ==
    /\ verdict = "saved" /\ fresh # NoBlock /\ saved.fmt = volume.fmt /\ FatLeft /\ Unspoiled =>
        /\ fresh.fatSectors = volume.block.fatSectors
        /\ DirTold => fresh.root = volume.block.root
        /\ ClusterTold => fresh.perCluster = volume.block.perCluster
        /\ DirTold /\ ClusterTold =>
            \A e \in EntriesLeft : IsFile(e) =>
                \E f \in FilesListed(store, system) :
                    f.start = e.start /\ f.at = ClusterAt(volume.block, e.start)
    /\ verdict = "opened" /\ fresh # NoBlock => (system = NoSystem <=> fresh.fatSectors = 0)

\* Whichever sectors of the two FATs are lost, every cluster of which an entry is
\* left has the successor it had, and is bad if it was. They are followed for ever
\* only if a chain of the disk comes back to itself.
ChainsHold ==
    /\ verdict = "saved" /\ system # NoSystem /\ Unspoiled
         /\ system.block.fatSectors = volume.block.fatSectors =>
        LET n == volume.block.fatSectors
            fat == FatPair(store, system.fmt, system.block, n)
            left == {c \in 2 .. Len(volume.entries) - 1 : HasEntry(fat[1], c) \/ HasEntry(fat[2], c)}
        IN  /\ \A c \in left : Next12(fat, c, ClustersOf(n)) = volume.entries[c + 1]
            /\ BadClusters(store, system) = {c \in left : IsBad(volume.entries[c + 1])}
    /\ verdict = "hangs" /\ FatLeft /\ Unspoiled =>
        \E loop \in SUBSET (2 .. Len(volume.entries) - 1) \ {{}} :
            \A c \in loop : volume.entries[c + 1] \in loop
=============================================================================
