------------------------------ MODULE ImagesMC ------------------------------
(***************************************************************************)
(* Small instances of the modules about images, one unit in each           *)
(* behaviour: images in their files, tracks as bits and flux, images that  *)
(* hold tracks, and filesystems.                                           *)
(***************************************************************************)
EXTENDS ImageWriters, BitTracks, BitInputs, ContainersMC, Fat12

VARIABLE unit    \* what is at work

Holding(kind, fmt) ==
    [kind |-> kind, cyls |-> fmt.cyls, heads |-> fmt.heads, sectors |-> fmt.sectors,
     size |-> fmt.size]

Tokens(fmt) == [i \in 1 .. fmt.cyls * fmt.heads |->
                   LET t == TrackAt(fmt, FALSE, i) IN 2 * t.cyl + t.head]

Medium(fmt, kind) ==
    {[fmt |-> fmt, tracks |-> Tokens(fmt), holds |-> Holding(kind, fmt), type |-> "device",
      damage |-> damage] : damage \in {"none", "bad", "missing"}}

Ace == [NoFormat EXCEPT !.cyls = 40, !.sectors = 1, !.size = 5, !.base = 0, !.rate = "250K",
                        !.enc = "Ace"]
ThomsonOf(cyls, heads) == [OtherFormats.TO_640K_MFM EXCEPT !.cyls = cyls, !.heads = heads]

MCMedia ==
    UNION {Medium(HomeFormats.MGT, "SAM"), Medium(HomeFormats.ProDos, "CPM"),
           Medium(HomeFormats.D80, "D80"), Medium(HomeFormats.OPD, "OPD"),
           Medium([HomeFormats.OPD EXCEPT !.cyls = 40, !.heads = 1], "OPD"),
           Medium(HomeFormats.MBD820, "MBD"), Medium(HomeFormats.MBD1804, "MBD"),
           Medium(HomeFormats.QDOS, "QDOS"), Medium(OtherFormats.AmigaDOS, "DOS"),
           Medium(OtherFormats.AmigaDOSHD, "DOS"), Medium(OtherFormats.LIF, "LIF"),
           Medium(ThomsonOf(80, 2), "TO"), Medium(ThomsonOf(80, 1), "TO"),
           Medium(ThomsonOf(40, 2), "TO"),
           Medium(OtherFormats.TO_160K_FM, "TO"), Medium(Ace, "Ace"),
           Medium(PcFormats.PC720, "BPB"), Medium(PcFormats.PC1440, "BPB"),
           Medium(Plain(82, 2, 10, 2), "ST"), Medium(OtherFormats.DO, "Apple")}

Foreign(ext, sig, kind, fmt, headFirst) ==
    [ext |-> ext, sig |-> sig, says |-> Holding(sig, fmt), holds |-> Holding(kind, fmt),
     body |-> [i \in 1 .. fmt.cyls * fmt.heads |->
                  LET t == TrackAt(fmt, headFirst, i) IN 2 * t.cyl + t.head],
     unit |-> TrackBytes(fmt), size |-> DiskBytes(fmt), state |-> "whole", sign |-> "none"]

Reversed(f) == [f EXCEPT !.body = [i \in DOMAIN @ |-> IF i % 2 = 1 THEN @[i + 1] ELSE @[i - 1]]]
CutTo(f, n) == [f EXCEPT !.body = SubSeq(@, 1, n), !.size = n * f.unit]
S24 == [Foreign("s24", "none", "none", Plain(80, 2, 1, 2), TRUE) EXCEPT !.unit = 12032,
            !.size = 160 * 12032]
Trdos == OtherFormats.LIF
BigTrd == [Trdos EXCEPT !.cyls = 100]

MCFound ==
    LET trd == Foreign("trd", "none", "TRD", [Trdos EXCEPT !.cyls = 80], FALSE)
        big == Foreign("trd", "none", "TRD", BigTrd, FALSE)
        bpb == Foreign("img", "none", "BPB", PcFormats.PC720, FALSE)
        scl == Foreign("scl", "SCL", "TRD", [Trdos EXCEPT !.cyls = 80], FALSE)
        one == [HomeFormats.MGT EXCEPT !.heads = 1]
        side == Foreign("dsk", "none", "SAM", one, FALSE)
    IN  {Foreign("sad", "SAD", "SAM", HomeFormats.MGT, TRUE),
         Foreign("img", "none", "SAM", HomeFormats.MGT, TRUE),
         Foreign("mgt", "none", "empty", HomeFormats.MGT, FALSE),
         Foreign("msa", "MSA", "ST", OtherFormats.AtariST, FALSE),
         [Foreign("msa", "MSA", "ST", OtherFormats.AtariST, FALSE) EXCEPT !.state = "short"],
         CutTo(Foreign("d80", "none", "D80", HomeFormats.D80, FALSE), 158),
         trd, [big EXCEPT !.holds = [@ EXCEPT !.cyls = 80, !.sectors = 2600]],
         [scl EXCEPT !.body = Tail(@)], bpb, CutTo(bpb, 120),
         [bpb EXCEPT !.ext = "cfi", !.sig = "CFI"],
         CutTo(Foreign("st", "none", "none", Plain(81, 2, 11, 2), FALSE), 160),
         Foreign("st", "none", "none", Plain(81, 2, 11, 2), FALSE),
         Foreign("st", "none", "ST", Plain(82, 1, 9, 2), FALSE),
         Reversed(Foreign("d81", "none", "D81", HomeFormats.D81, FALSE)),
         Reversed(Foreign("d2m", "none", "D2M", HomeFormats.D2M, FALSE)),
         Reversed(Foreign("d4m", "none", "D4M", HomeFormats.D4M, FALSE)),
         Foreign("2d", "none", "none", OtherFormats.P2D, FALSE),
         Foreign("cpm", "none", "CPM", HomeFormats.ProDos, FALSE),
         Foreign("fd", "none", "TO", OtherFormats.TO_640K_MFM, TRUE),
         [side EXCEPT !.says = [other |-> [i \in 1 .. 80 |-> 2 * i - 1]]],
         [side EXCEPT !.state = "alone"], S24,
         [Foreign("sbt", "BOOT", "none", one, FALSE) EXCEPT
             !.body = [i \in 1 .. 20 |-> 2 * (i + DirTracks - 1)], !.size = 20 * 5120 - 9],
         Foreign("dat", "none", "none", PcFormats.PC360, FALSE),
         Foreign("dat", "none", "none", Plain(70, 2, 7, 2), FALSE),
         [Foreign("dat", "none", "none", PcFormats.PC360, FALSE) EXCEPT !.body = <<>>, !.size = 0]}

Plainly == [cyls |-> 0, heads |-> 0, sectors |-> -1, size |-> -1, base |-> -1,
            cylsFirst |-> -1, fix |-> 0, enc |-> "any", layers |-> <<>>]

MCOptions ==
    {Plainly, [Plainly EXCEPT !.fix = 1], [Plainly EXCEPT !.enc = "FM"],
     [Plainly EXCEPT !.cyls = 70, !.heads = 2, !.sectors = 7],
     [Plainly EXCEPT !.heads = 1]} \cup
    {[Plainly EXCEPT !.layers = l] : l \in {<<"zip">>, <<"gzip">>, <<"bzip2">>, <<"xz">>,
        <<"gzip", "zip">>, <<"zip", "gzip">>, <<"gzip", "gzip", "bzip2">>, <<"bzip2", "bzip2">>}}

MCSaveExts == {"opd", "mbd", "adf", "qdos", "mgt", "cpm", "lif", "sad", "fd", "sap", "dti", "do",
               "raw", "st", "trd"}

MCCylHead == [cyl |-> 1, head |-> 0]

(***************************************************************************)
(* Filesystems                                                             *)
(***************************************************************************)
\* A FAT packed to sectors
FatBytes(entries, n) ==
    LET E(k) == IF k <= Len(entries) THEN entries[k] ELSE 0
    IN  [b \in 1 .. n * SectorBytes |->
            LET pair == 2 * ((b - 1) \div 3) + 1
            IN  CASE b % 3 = 1 -> E(pair) % 256
                  [] b % 3 = 2 -> E(pair) \div 256 + 16 * (E(pair + 1) % 16)
                  [] b % 3 = 0 -> E(pair + 1) \div 16]

PieceOf(bytes, k) == SubSeq(bytes, (k - 1) * SectorBytes + 1, k * SectorBytes)

BlockOn(fmt, n, dirs, per) ==
    [fats |-> 2, perCluster |-> per, reserved |-> 1, root |-> dirs * PerSector,
     total |-> TotalOf(fmt), fatSectors |-> n, sectors |-> fmt.sectors, heads |-> fmt.heads]

\* A disk in order: entries of the FAT, files as first byte, start and size.
InOrderDisk(fmt, n, dirs, per, fat, files) ==
    LET b == BlockOn(fmt, n, dirs, per)
        dir == FlattenSeq(files) \o [k \in 1 .. dirs * SectorBytes - 3 * Len(files) |-> 0]
        Bytes(i) == IF i <= n THEN PieceOf(FatBytes(fat, n), i)
                    ELSE IF i <= 2 * n THEN PieceOf(FatBytes(fat, n), i - n)
                    ELSE IF i <= 2 * n + dirs THEN PieceOf(dir, i - 2 * n)
                    ELSE [k \in 1 .. SectorBytes |-> 100 + i + k]
    IN  [block |-> b, entries |-> fat,
         fmt |-> fmt,
         store |-> [p \in (0 .. fmt.cyls - 1) \X (0 .. fmt.heads - 1) \X (1 .. fmt.sectors) |->
            IF p = BootPlace THEN [state |-> "good", block |-> b]
            ELSE [state |-> "good", bytes |-> Bytes((p[1] * fmt.heads + p[2]) * fmt.sectors + p[3] - 1)]]]

FatFmt(c, h, s) == [cyls |-> c, heads |-> h, sectors |-> s]
FileEntry(start, size) == <<65, start, size>>


SmallDisk(n, dirs, per, fat, files) == InOrderDisk(FatFmt(3, 2, 3), n, dirs, per, fat, files)
OrderlyDisks ==
    {SmallDisk(2, 2, 1, <<4089, 4095, 3, 4, 4095, 6, 4095, 4087, 4095>>,
           <<<<76, 0, 0>>, FileEntry(2, 30), FileEntry(5, 20), FileEntry(8, 4)>>),
     InOrderDisk(FatFmt(2, 2, 4), 1, 2, 2, <<4089, 4095, 3, 4, 4095, 6, 4095>>,
                 <<FileEntry(2, 60), <<229, 5, 5>>, FileEntry(5, 30)>>),
     SmallDisk(2, 4, 1, <<4089, 4095, 3, 4, 4095, 6, 4095, 4095, 9, 4095>>,
                 <<FileEntry(2, 30), FileEntry(5, 20), FileEntry(7, 4), FileEntry(8, 22), FileEntry(0, 0), FileEntry(0, 0), FileEntry(0, 0), <<229, 0, 0>>, FileEntry(0, 0)>>),
     SmallDisk(2, 4, 1, <<4089, 4095, 3, 4, 4095, 6, 4095, 4095, 9, 4095>>, <<FileEntry(2, 30), FileEntry(5, 20), FileEntry(7, 4)>>),
     SmallDisk(2, 2, 2, <<4089, 4095, 3, 4, 4095, 6, 4095, 0, 0, 4095>>, <<FileEntry(2, 60), FileEntry(5, 30)>>),
     SmallDisk(2, 2, 1, <<4089, 4095, 3, 4, 2, 6, 4095, 4087, 4095>>, <<FileEntry(2, 30), FileEntry(5, 20)>>)}

DamagedStore(d, lost, how) ==
    [p \in DOMAIN d.store |->
        IF \A i \in lost : p # Physical(d.fmt, i) THEN d.store[p]
        ELSE IF how = "bad" /\ p # BootPlace
        THEN [state |-> "bad", bytes |-> [k \in 1 .. SectorBytes |-> IF k > 6 THEN 17 ELSE d.store[p].bytes[k]]]
        ELSE [state |-> IF how = "bad" THEN "none" ELSE how]]

Claiming(d, total) == [d.store EXCEPT ![BootPlace].block.total = total]

MCVolumes ==
    UNION {{[made |-> d, store |-> DamagedStore(d, {0, i, j}, how), system |-> "none"] :
                i \in 0 .. 5, j \in {0, 3, 6, 9}, how \in {"none", "gone", "bad"}} \cup
           {[made |-> d, store |-> DamagedStore(d, {i}, "none"), system |-> "FAT12"] : i \in {1, 2, 4, 6, 16}} \cup
           {[made |-> d, store |-> Claiming(d, t), system |-> "none"] : t \in {12, 17, 20, 30}} : d \in OrderlyDisks}
MCNormalDirs == <<2, 4>>

\* The media and the files found are of the kinds the theorem about them is for.
ASSUME MediaTellTheirDamage == DamageIsKnown

(***************************************************************************)
(* All units                                                               *)
(***************************************************************************)

\* What a unit that is not at work has for its variables.
NoFiles ==
    disk = NoDisk /\ file = NoFile /\ source = NoDisk /\ lastSaid = "nothing" /\ options = << >>
NoTracks ==
    from = << >> /\ track = << >> /\ medium = << >> /\ written = << >> /\ buf = << >>
        /\ overflowed = << >> /\ generation = << >>

NoContainers ==
    held = << >> /\ image = << >> /\ origin = << >> /\ outcome = << >> /\ way = << >> /\ given = << >>

NoVolumes ==
    volume = << >> /\ store = << >> /\ system = << >> /\ saved = << >> /\ verdict = << >> /\ fresh = << >>

UnitInit ==
    \/ unit = "files" /\ Init /\ NoTracks /\ NoContainers /\ NoVolumes
    \/ unit = "tracks" /\ BitsInit /\ NoFiles /\ NoContainers /\ NoVolumes
    \/ unit = "containers" /\ ImagesInit /\ NoFiles /\ NoTracks /\ NoVolumes
    \/ unit = "filesystems" /\ FatInit /\ NoFiles /\ NoTracks /\ NoContainers

InFiles == unit = "files" /\ UNCHANGED <<unit, bitsVars, imageVars, fatVars>>
InTracks == unit = "tracks" /\ UNCHANGED <<unit, vars, imageVars, fatVars>>
InContainers == unit = "containers" /\ UNCHANGED <<unit, vars, bitsVars, fatVars>>
InSystems == unit = "filesystems" /\ UNCHANGED <<unit, vars, bitsVars, imageVars>>

UnitNext ==
    \/ InFiles /\ ReadADevice
    \/ InFiles /\ FindAFile
    \/ InFiles /\ SaveAs
    \/ InFiles /\ Open
    \/ InTracks /\ Encode
    \/ InTracks /\ ScanBits
    \/ InTracks /\ ScanMedium
    \/ InContainers /\ HoldADisk
    \/ InContainers /\ SaveAsTracks
    \/ InContainers /\ MeetAFile
    \/ InContainers /\ OpenTracks
    \/ InContainers /\ LoadTrack
    \/ InSystems /\ \E repair \in BOOLEAN : SaveST(repair)
    \/ InSystems /\ OpenST

UnitSpec == UnitInit /\ [][UnitNext]_<<unit, bitsVars, vars, imageVars, fatVars>>

\* What is saved is read back as it was: disks in files (ImageWriters), and tracks
\* with their sectors, bits or flux, which make the same file again (TrackImages).
FilesReadBack ==
    /\ unit = "files" => ReadBack
    /\ unit = "containers" => TracksReturn /\ SavedAgain

\* Tracks of found files lie where their types say (ImageWriters), with what the
\* medium had (TrackImages).
FilesArePlaced ==
    /\ unit = "files" => ForeignIsPlaced
    /\ unit = "containers" => MediaAreRead

\* A filesystem whose boot sector is made again is the one the disk had (Fat12).
FilesystemHolds == unit = "filesystems" => RebuiltSystem /\ ChainsHold

\* Good data is found with the header it was written for (BitTracks).
DataInTracks == unit = "tracks" => DataMeetsHeader

\* A track written as bits is read again as it was (BitTracks).
TracksReadBack == unit = "tracks" => RoundTrip

\* No view of a flux is forgotten (BitTracks).
ViewsOfTracks == unit = "tracks" => ViewsAddUp
=============================================================================
