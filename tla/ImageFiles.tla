----------------------------- MODULE ImageFiles -----------------------------
(***************************************************************************)
(* The sector images of regular formats (src/types/*.cpp): how a file is   *)
(* unpacked and recognised, where each reader looks for the tracks, and    *)
(* where each writer puts them.                                            *)
(*                                                                         *)
(* The data of an original track (cyl, head) is the token 2 * cyl + head.  *)
(* A file is [ext, sig, says, holds, body, unit, size, state, sign]: its   *)
(* extension, the signature and geometry of a header of its own, what the  *)
(* medium holds about itself in its tracks (a boot sector, a directory),   *)
(* the tracks in the order of the file, the bytes of each, its size, its   *)
(* state ("whole", "short", "wrong") and how damage is signed in it.       *)
(* A disk is [fmt, tracks, holds, damage, type]: tracks in cylinder order. *)
(***************************************************************************)
EXTENDS RegularFormats

Fill  == -1    \* the fill byte of the format
Miss  == -2    \* sectors signed with MISS
Mixed == -3    \* pieces of several tracks, or part of one
Gone  == -4    \* sectors without data
Built == -5    \* a track the reader makes up
Shifted == 1000    \* added to a token whose data begins a byte too early

Nothing == [kind |-> "nothing", cyls |-> 0, heads |-> 0, sectors |-> 0, size |-> 0]

\* What a reader finds in the first track of the file.
Boot(f) == IF f.sig = "none" /\ f.body # <<>> /\ f.body[1] = 0 THEN f.holds ELSE Nothing

\* The token at a place of the file (from 1).
TokenAt(f, place) ==
    IF f.sig = "none" /\ place <= Len(f.body) THEN f.body[place] ELSE Mixed

\* A format with the geometry a header or boot sector states.
With(fmt, says) ==
    [fmt EXCEPT !.cyls = says.cyls, !.heads = says.heads, !.sectors = says.sectors]

-----------------------------------------------------------------------------
\* Outcomes of a reader: the file is not of this type, is refused with an
\* error, or is read.
No == [said |-> "no"]
Throws == [said |-> "throws"]
Took(disk) == [said |-> "yes", disk |-> disk]

\* Disk::format with data: the tracks of the format take the data of the file
\* in its order; what the data does not reach keeps the fill byte, or is
\* removed when incomplete data is signed.
Populated(f, fmt, headFirst, signIncomplete) ==
    [i \in 1 .. fmt.cyls * fmt.heads |->
        LET track == TrackAt(fmt, FALSE, i)
            place == Position(fmt, headFirst, track.cyl, track.head)
        IN  IF TrackBytes(fmt) # f.unit THEN Mixed
            ELSE IF place <= Len(f.body) THEN f.body[place]
            ELSE IF signIncomplete THEN Gone ELSE Fill]

Made(f, fmt, tracks, type) ==
    [fmt |-> fmt, tracks |-> tracks, holds |-> f.holds, type |-> type,
     damage |-> IF f.sign = "crc" THEN "bad"
                ELSE IF f.sign \in {"none", "lost"} THEN f.sign ELSE "signed"]

Formatted(f, fmt, headFirst, type) ==
    Took(Made(f, fmt, Populated(f, fmt, headFirst, FALSE), type))

\* Mutant: the sides stay as they are in the file.
Unflipped(tracks) == tracks

\* Disk::flip_sides
Flipped(tracks) ==
    [i \in DOMAIN tracks |-> IF i % 2 = 1 THEN tracks[i + 1] ELSE tracks[i - 1]]

-----------------------------------------------------------------------------
\* Readers of types with a header of their own.

ReadSAD(f, opt) ==
    LET fmt == [With(HomeFormats.MGT, f.says) EXCEPT !.size = f.says.size] IN
    IF f.sig # "SAD" THEN No
    ELSE IF ~Valid(fmt) THEN Throws
    ELSE Formatted(f, fmt, TRUE, "SAD")

ReadMSA(f, opt) ==
    LET fmt == Override(With(OtherFormats.AtariST, f.says), opt, FALSE) IN
    IF f.sig # "MSA" \/ f.says.heads > MaxSides \/ f.says.sectors > MaxSectors THEN No
    ELSE IF f.state # "whole" THEN Throws
    ELSE Formatted(f, fmt, FALSE, "MSA")

\* The cylinders of a TR-DOS image of so many bytes.
SizeToCylsTRD(bytes) ==
    LET cyl == 16 * 256 * 2 IN
    IF bytes <= 80 * cyl THEN 80
    ELSE IF bytes > 128 * cyl THEN MaxTracks
    ELSE (bytes + cyl - 1) \div cyl

\* The directory track is made up from the file headers, the other tracks
\* follow cylinder by cylinder.
ReadSCL(f, opt) ==
    LET fmt == Override([OtherFormats.LIF EXCEPT
                            !.cyls = SizeToCylsTRD((Len(f.body) + 1) * f.unit)], opt, FALSE)
    IN  IF f.sig # "SCL" THEN No
        ELSE IF f.state # "whole" THEN Throws
        ELSE Formatted([f EXCEPT !.body = <<Built>> \o @], fmt, FALSE, "SCL")

\* The data of each track is taken from two bytes after the start of its
\* block, where the three bytes of its header have not ended.
ReadDTI(f, opt) ==
    LET fmt == [With(NoFormat, f.says) EXCEPT !.sectors = 1, !.size = 5, !.base = 0,
                                              !.rate = "250K", !.enc = "Ace"]
        read == [f EXCEPT !.body = [i \in DOMAIN @ |-> @[i] + Shifted], !.unit = TrackBytes(fmt)]
    IN  IF f.sig # "DTI" THEN No
        ELSE IF f.state # "whole" \/ ~Valid(fmt) THEN Throws
        ELSE Formatted(read, fmt, TRUE, "DTI")

\* Sectors of the expected kind make a regular disk, in the order of the
\* format; otherwise the tracks are kept as bitstreams.
ReadSAP(f, opt) ==
    LET said == [With(OtherFormats.TO_640K_MFM, f.says) EXCEPT
                    !.size = f.says.size,
                    !.enc = IF f.says.size = 1 THEN "MFM" ELSE "FM"]
        fmt == Override(said, opt, FALSE)
        regular == f.sign # "crc"
    IN  IF f.sig # "SAP" THEN No
        ELSE IF f.state # "whole" THEN Throws
        ELSE Formatted(f, fmt, IF regular THEN fmt.cylsFirst ELSE TRUE, "SAP")

ReadQDOS(f, opt) ==
    IF Boot(f).kind # "QDOS" THEN No
    ELSE Formatted(f, With(HomeFormats.QDOS, f.holds), FALSE, "QDOS")

\* A bootable SAM file: the reader lays it behind the directory tracks of a
\* disk of the SAM Coupe, head 0 first, and makes up the directory.
DirTracks == 4
MaxSamFileTracks == 80 * 2 - DirTracks

ReadSBT(f, opt) ==
    LET directory == [i \in 1 .. DirTracks |-> Built] IN
    IF Len(f.body) > MaxSamFileTracks THEN No
    ELSE IF f.sig # "BOOT" /\ f.ext # "sbt" THEN No
    ELSE Formatted([f EXCEPT !.body = directory \o @], HomeFormats.MGT, TRUE, "SBT")

-----------------------------------------------------------------------------
\* Readers of types with distinctive fields.

\* With the option fix the number of cylinders follows the size of the file.
ReadD80(f, opt) ==
    LET fmt == With(HomeFormats.D80, f.holds)
        cyl == fmt.heads * TrackBytes(fmt)
        correct == opt.fix # 0 /\ f.size # DiskBytes(fmt) /\ f.size % cyl = 0
    IN  IF Boot(f).kind # "D80" THEN No
        ELSE IF ~Valid(fmt) THEN Throws
        ELSE Formatted(f, IF correct THEN [fmt EXCEPT !.cyls = (f.size \div cyl) % 256] ELSE fmt,
                       FALSE, "D80")

\* Fat12FileSystem::SetFormatByBPB: the geometry of a BIOS parameter block is
\* accepted when its fields are sensible and the geometry is valid.
BpbFormat(holds) == [With(PcFormats.PC720, holds) EXCEPT !.size = holds.size]

HasBpb(holds) == holds.kind \in {"BPB", "ST"} /\ Valid(BpbFormat(holds))

\* Images cut short are accepted; the sectors that are missing have no data.
ReadBPB(f, opt) ==
    LET fmt == BpbFormat(f.holds) IN
    IF ~HasBpb(Boot(f)) \/ DiskBytes(fmt) < f.size THEN No
    ELSE Took(Made(f, fmt, Populated(f, fmt, FALSE, TRUE), "BPB"))

\* An Atari ST disk: a bootable first sector or the extension. The format is
\* the one of its filesystem unless the size of the file or the geometry says
\* otherwise; then the known geometries are searched for the size.
StFormats(f) ==
    LET UnexpectedST(fmt, allowMoreCyls) ==
            \/ fmt.cyls < 80
            \/ ~allowMoreCyls /\ fmt.cyls > 84
            \/ fmt.sectors \notin 8 .. 11 \cup 18 .. 21
        \* The geometries of double density disks the search goes through, the first
        \* that has the size of the file wins.
        BestST(bytes) ==
            LET fits == {fmt \in {Plain(c, h, s, 2) : c \in 80 .. 84, h \in 1 .. 2, s \in 8 .. 11} :
                            DiskBytes(fmt) = bytes}
                Before(a, b) ==
                    \/ a.cyls > b.cyls
                    \/ a.cyls = b.cyls /\ a.heads > b.heads
                    \/ a.cyls = b.cyls /\ a.heads = b.heads /\ a.sectors >= b.sectors
            IN  {a \in fits : \A b \in fits : Before(a, b)}
        fmt == BpbFormat(f.holds)
        found == HasBpb(Boot(f)) /\ fmt.size = 2
        moreCyls == found /\ f.size # DiskBytes(fmt) /\ ~UnexpectedST(fmt, TRUE)
                          /\ f.size % (fmt.heads * TrackBytes(fmt)) = 0
        search == ~found \/ (~moreCyls /\ (f.size # DiskBytes(fmt) \/ UnexpectedST(fmt, FALSE)))
    IN  IF search THEN BestST(f.size) ELSE {fmt}

ReadST(f, opt) ==
    IF (Boot(f).kind # "ST" /\ f.ext # "st") \/ StFormats(f) = {} THEN No
    ELSE Formatted(f, CHOOSE fmt \in StFormats(f) : TRUE, FALSE, "ST")

\* Amiga images are read head 0 first.
ReadADF(f, opt) ==
    LET fits == {fmt \in {OtherFormats.AmigaDOS, OtherFormats.AmigaDOSHD} : DiskBytes(fmt) = f.size}
    IN  IF Boot(f).kind # "DOS" \/ fits = {} THEN No
        ELSE Formatted(f, CHOOSE fmt \in fits : TRUE, TRUE, "ADF")

\* The geometry the bytes of a boot sector state at the places where an Opus
\* disk has its own, whatever disk they are of.
OpusFormat(boot) == [With(HomeFormats.OPD, boot) EXCEPT !.size = boot.size]

\* Images of the Opus Discovery are read head 0 first. The extension alone makes
\* any file one of them whose bytes state a geometry.
ReadOPD(f, opt) ==
    LET boot == Boot(f)
        fmt == OpusFormat(boot)
        named == f.ext \in {"opd", "opu"}
    IN  IF ~named /\ (boot.kind # "OPD" \/ f.size # DiskBytes(fmt)) THEN No
        ELSE IF ~Valid(fmt) THEN Throws
        ELSE Formatted(f, fmt, TRUE, "OPD")

MbdFormat(holds) ==
    With(IF holds.sectors <= HomeFormats.MBD820.sectors THEN HomeFormats.MBD820
                                                        ELSE HomeFormats.MBD1804, holds)

ReadMBD(f, opt) ==
    IF Boot(f).kind # "MBD" \/ f.size # DiskBytes(MbdFormat(f.holds)) THEN No
    ELSE IF ~Valid(MbdFormat(f.holds)) THEN Throws
    ELSE Formatted(f, MbdFormat(f.holds), FALSE, "MBD")

-----------------------------------------------------------------------------
\* Readers of types identified by size or extension.

ReadSized(f, ext, fmt, type) ==
    IF f.ext # ext \/ f.size # DiskBytes(fmt) THEN No ELSE Formatted(f, fmt, FALSE, type)

Read2D(f, opt)  == ReadSized(f, "2d", OtherFormats.P2D, "2D")
ReadLIF(f, opt) == ReadSized(f, "lif", OtherFormats.LIF, "LIF")
ReadCPM(f, opt) == ReadSized(f, "cpm", HomeFormats.ProDos, "Pro-DOS")

\* The directory states the number of cylinders and heads, and how many sectors
\* the files take: the disk grows when they reach beyond 640K.
ReadTRD(f, opt) ==
    IF f.ext # "trd" \/ Boot(f).kind # "TRD" THEN No
    ELSE LET long == f.holds.cyls = 80 /\ f.holds.heads = 2 /\ f.holds.sectors > 80 * 2 * 16
             cyls == IF long THEN SizeToCylsTRD(f.size) ELSE f.holds.cyls
         IN  Formatted(f, [OtherFormats.LIF EXCEPT !.cyls = cyls, !.heads = f.holds.heads],
                       FALSE, "TRD")

\* A packed image is expanded and must be one with a BIOS parameter block.
ReadCFI(f, opt) ==
    LET packed == ReadBPB([f EXCEPT !.sig = "none", !.ext = "cfi"], opt) IN
    IF f.ext # "cfi" THEN No
    ELSE IF f.sig # "CFI" \/ f.state # "whole" \/ packed.said # "yes" THEN Throws
    ELSE Took([packed.disk EXCEPT !.type = "CFI"])

S24Bytes == {80 * 2 * 11520, 80 * 2 * 12032}

\* Sectors of several sizes in a track, which no regular format has: size 7
\* stands for them here. Head 0 first.
ReadS24(f, opt) ==
    LET fmt == At("500K", Plain(80, 2, IF f.unit = 11520 THEN 7 ELSE 6, 7))
        read == [f EXCEPT !.unit = TrackBytes(fmt)]
    IN  IF f.size \notin S24Bytes THEN No ELSE Formatted(read, fmt, TRUE, "S24")

\* Commodore images hold the sides the other way round: they are formatted in
\* the order of the file and then flipped. The signature lies in the first
\* track of a cylinder of the file.
ReadReversed(f, fmt, kind, signCyl) ==
    LET read == Populated(f, fmt, FALSE, FALSE) IN
    IF f.size # DiskBytes(fmt) \/ f.holds.kind # kind
         \/ TokenAt(f, Position(fmt, FALSE, signCyl, 0)) # 2 * signCyl + 1
    THEN No
    ELSE Took(Made(f, fmt, Flipped(read), kind))

ReadD2M(f, opt) == ReadReversed(f, HomeFormats.D2M, "D2M", 80)
ReadD4M(f, opt) == ReadReversed(f, HomeFormats.D4M, "D4M", 80)
ReadD81(f, opt) == ReadReversed(f, HomeFormats.D81, "D81", 39)

\* The first sector of a file behind the directory tracks of a SAM disk links
\* to the second one: where it lies tells the order of the tracks.
ReadMGT(f, opt) ==
    LET sam == f.holds.kind = "SAM"
        firstFile == 2 * DirTracks
        mgt == sam /\ TokenAt(f, Position(HomeFormats.MGT, FALSE, DirTracks, 0)) = firstFile
        img == sam /\ TokenAt(f, Position(HomeFormats.MGT, TRUE, DirTracks, 0)) = firstFile
    IN  IF f.size # DiskBytes(HomeFormats.MGT) \/ ~(mgt \/ img \/ f.ext = "mgt") THEN No
        ELSE Formatted(f, HomeFormats.MGT, img, IF img THEN "IMG" ELSE "MGT")

\* Two files with a side each.
ReadDS2(f, opt) ==
    IF f.size # DiskBytes(HomeFormats.MGT) \div 2 \/ f.ext # "dsk" \/ f.state = "alone" THEN No
    ELSE IF f.state # "whole" THEN Throws
    ELSE Formatted([f EXCEPT !.body = @ \o f.says.other], HomeFormats.MGT, TRUE, "DS2")

ReadFD(f, opt) ==
    LET thomson == {OtherFormats.TO_640K_MFM, OtherFormats.TO_320K_MFM, OtherFormats.TO_80K_FM,
                    IF opt.enc = "FM" THEN OtherFormats.TO_160K_FM ELSE OtherFormats.TO_160K_MFM}
        fits == {fmt \in thomson : DiskBytes(fmt) = f.size}
    IN  IF f.ext # "fd" \/ fits = {} THEN No
        ELSE LET fmt == CHOOSE x \in fits : TRUE IN Formatted(f, fmt, fmt.cylsFirst, "FD")

-----------------------------------------------------------------------------
\* The size code of sectors of so many bytes: they are halved until a sector of
\* code 0 is not exceeded.
SizeCode(bytes) ==
    CHOOSE z \in 0 .. 16 : bytes \div 2 ^ z <= 128 /\ (z = 0 \/ bytes \div 2 ^ (z - 1) > 128)

ReadRAW(f, opt) ==
    LET AdjustedSectors(fmt, guess) ==
            LET all == fmt.cyls * fmt.heads IN
            IF fmt.size # guess.size /\ opt.sectors < 0
            THEN [fmt EXCEPT !.sectors = f.size \div (all * SectorSize(fmt))]
            ELSE IF fmt.sectors # guess.sectors /\ opt.size < 0
            THEN [fmt EXCEPT !.size = SizeCode(f.size \div (all * fmt.sectors))]
            ELSE fmt
        AdjustedSides(fmt, guess) ==
            IF fmt.cyls # guess.cyls /\ opt.heads = 0
            THEN [fmt EXCEPT !.heads = f.size \div (opt.cyls * TrackBytes(fmt))]
            ELSE IF fmt.heads # guess.heads /\ opt.cyls = 0
            THEN [fmt EXCEPT !.cyls = f.size \div (opt.heads * TrackBytes(fmt))]
            ELSE fmt
        \* Raw images are the last resort. Whatever the order the command line asks
        \* for, the tracks are read cylinder by cylinder.
        AsRaw(fmt) ==
            IF DiskBytes(fmt) # f.size \/ ~Valid(fmt) THEN Throws
            ELSE Formatted(f, fmt, FALSE, "RAW")
        \* The geometry of a raw image: by size, overridden by the command line; when
        \* only one of cylinders and heads, or of sectors and sector size, is given
        \* the other one follows from the size of the file. A file smaller than one
        \* track leaves no cylinder or no head: then the division for the sectors ends
        \* the program, and when none is made the size of the file is refused.
        AdjustedRaw(fmt, guess) ==
            LET sides == AdjustedSides(fmt, guess) IN
            IF ~Valid(fmt) THEN Throws
            ELSE IF sides.cyls * sides.heads = 0 THEN Throws
            ELSE AsRaw(AdjustedSectors(sides, guess))
        GuessedRaw(guess) ==
            LET customised == opt.cyls > 0 \/ opt.heads > 0 \/ opt.sectors > 0 \/ opt.size >= 0
            IN  IF guess.sectors = 0 /\ ~customised THEN No
                ELSE AdjustedRaw(Override(guess, opt, TRUE), guess)
    IN  IF f.size = 0 THEN Throws
        ELSE GuessedRaw([FromSize(f.size) EXCEPT !.enc = IF @ = "unknown" THEN "MFM" ELSE @])
=============================================================================
