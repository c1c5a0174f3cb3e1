---------------------------- MODULE ImageWriters ----------------------------
(***************************************************************************)
(* Opening and saving image files (Image.cpp, MemFile.cpp, the writers of  *)
(* src/types): a disk is opened from a file, saved as a file of some type, *)
(* and the file is opened again.                                           *)
(***************************************************************************)
EXTENDS ImageFiles, SequencesExt

CONSTANTS Found,     \* files that exist before, as records of ImageFiles
          Media,     \* disks read from a device
          Options,   \* the command lines, with the archive layers files are packed in
          SaveExts   \* the extensions files are saved with

VARIABLES disk,      \* the disk in memory, or NoDisk
          file,      \* the file last found or saved, or NoFile
          source,    \* the disk the file was saved from, or NoDisk
          lastSaid,  \* the outcome of the last operation
          options

vars == <<disk, file, source, lastSaid, options>>

NoDisk == [type |-> "none"]
NoFile == [ext |-> "none"]

\* What is kept of a file.
FileFields(f) ==
    DOMAIN f = {"ext", "sig", "says", "holds", "body", "unit", "size", "state", "sign"}

-----------------------------------------------------------------------------
\* The token of a track of the disk for a writer that asks for its sectors by
\* the numbers and the size of the format of the file.
TokenFor(d, fmt, cyl, head) ==
    LET have == d.fmt.base .. d.fmt.base + d.fmt.sectors - 1
        want == fmt.base .. fmt.base + fmt.sectors - 1
    IN  IF cyl >= d.fmt.cyls \/ head >= d.fmt.heads \/ d.fmt.size # fmt.size
             \/ have \cap want = {} THEN Miss
        ELSE IF d.fmt.sectors = 0 THEN Miss
        ELSE IF have \cap want # want THEN Mixed
        ELSE LET token == d.tracks[Position(d.fmt, FALSE, cyl, head)]
             IN  IF token = Gone THEN Miss
                 ELSE IF have = want THEN token ELSE Mixed

\* How damage of a sector shows in a written file: a sector without data is
\* signed at its start ("missing"), one with bad data at its end ("bad").
\* Mutant: bad data is not signed.
SignOfMissing(d) == IF d.damage = "bad" THEN "lost" ELSE d.damage

SignOf(d) == d.damage

\* Mutant: the order of the format is not asked for.
BodyByCylinders(d, fmt) ==
    [i \in 1 .. fmt.cyls * fmt.heads |->
        LET track == TrackAt(fmt, FALSE, i)
        IN  TokenFor(d, fmt, track.cyl, track.head)]

Body(d, fmt) ==
    [i \in 1 .. fmt.cyls * fmt.heads |->
        LET track == TrackAt(fmt, fmt.cylsFirst, i)
        IN  TokenFor(d, fmt, track.cyl, track.head)]

\* WriteRegularDisk: the sectors of the format, track by track.
Regular(d, fmt, ext) ==
    [ext |-> ext, sig |-> "none", says |-> Nothing, holds |-> d.holds,
     body |-> Body(d, fmt), unit |-> TrackBytes(fmt), size |-> DiskBytes(fmt),
     state |-> "whole", sign |-> SignOf(d)]

\* A file with a header: its signature and the geometry it states.
Headed(d, fmt, ext, sig, overhead) ==
    [Regular(d, fmt, ext) EXCEPT
        !.sig = sig,
        !.says = [kind |-> sig, cyls |-> fmt.cyls, heads |-> fmt.heads,
                  sectors |-> fmt.sectors, size |-> fmt.size],
        !.size = @ + overhead]

\* Outcomes of a writer.
Unsuitable == [said |-> "unsuitable"]
Wrote(f) == [said |-> "yes", file |-> f]

\* What a writer finds in the boot sector of the disk: a sector of number base
\* and the given size on the first track.
BootOf(d, fmt) ==
    IF d.fmt.sectors > 0 /\ fmt.base \in d.fmt.base .. d.fmt.base + d.fmt.sectors - 1
         /\ d.fmt.size = fmt.size /\ d.tracks[1] = 0
    THEN d.holds ELSE Nothing

-----------------------------------------------------------------------------
WriteFixed(d, fmt, ext) == Wrote(Regular(d, fmt, ext))

\* The geometry of an Opus disk is the one its boot sector states. Any sector of
\* that place and size is taken for one; only its geometry may be refused. The
\* tracks are written cylinder by cylinder.
WriteOPD(d, opt) ==
    LET boot == BootOf(d, HomeFormats.OPD)
        fmt == Override(OpusFormat(boot), opt, TRUE)
    IN  IF boot = Nothing THEN Unsuitable
        ELSE IF ~Valid(fmt) THEN Throws
        ELSE WriteFixed(d, fmt, "opd")

WriteMBD(d, opt) ==
    LET boot == BootOf(d, HomeFormats.MBD820) IN
    IF boot.kind # "MBD" THEN Unsuitable
    ELSE IF ~Valid(MbdFormat(boot)) THEN Throws
    ELSE WriteFixed(d, MbdFormat(boot), "mbd")

\* The density decides between the two Amiga formats; a first sector of
\* number 0 must exist.
WriteADF(d, opt) ==
    IF d.fmt.base # 0 \/ d.fmt.size # 2 \/ d.fmt.sectors = 0 THEN Throws
    ELSE WriteFixed(d, IF d.fmt.rate # "500K" THEN OtherFormats.AmigaDOS
                                              ELSE OtherFormats.AmigaDOSHD, "adf")

WriteQDOS(d, opt) ==
    LET boot == BootOf(d, HomeFormats.QDOS)
        fmt == With(HomeFormats.QDOS, boot)
    IN  IF boot.kind # "QDOS" THEN Unsuitable
        ELSE IF ~Valid(fmt) THEN Throws
        ELSE WriteFixed(d, fmt, "qdos")

WriteMGT(d, opt) == WriteFixed(d, HomeFormats.MGT, "mgt")
WriteCPM(d, opt) == WriteFixed(d, HomeFormats.ProDos, "cpm")
WriteLIF(d, opt) == WriteFixed(d, OtherFormats.LIF, "lif")

\* Head 0 first, whatever the order of the disk was.
WriteSAD(d, opt) ==
    LET fmt == Override([HeadFirst(HomeFormats.MGT) EXCEPT
                            !.cyls = d.fmt.cyls, !.heads = d.fmt.heads,
                            !.sectors = d.fmt.sectors, !.size = d.fmt.size], opt, TRUE)
    IN  IF ~Valid(fmt) THEN Throws ELSE Wrote(Headed(d, fmt, "sad", "SAD", 22))

\* Thomson disks: 40 or 80 cylinders and one or two heads, by the tracks the
\* disk has.
ThomsonCyls(d) == IF d.fmt.cyls <= 40 THEN 40 ELSE 80

WriteFD(d, opt) ==
    LET fmt == [OtherFormats.TO_640K_MFM EXCEPT !.cyls = ThomsonCyls(d), !.heads = d.fmt.heads,
                                                !.size = d.fmt.size, !.enc = d.fmt.enc]
    IN  IF d.fmt.sectors # 16 \/ d.fmt.size \notin {0, 1} THEN Unsuitable
        ELSE WriteFixed(d, fmt, "fd")

\* Every track needs its 16 sectors with data, of the size of its encoding.
\* A sector with bad data gets a wrong checksum.
WriteSAP(d, opt) ==
    LET fmt == [OtherFormats.TO_640K_MFM EXCEPT !.cyls = ThomsonCyls(d), !.heads = d.fmt.heads,
                                                !.size = d.fmt.size, !.enc = d.fmt.enc]
        tracks == 16 * fmt.cyls * fmt.heads
        saved == Headed(d, [fmt EXCEPT !.base = d.fmt.base], "sap", "SAP", 66 + 6 * tracks)
    IN  IF d.fmt.sectors # 16 THEN Unsuitable
        ELSE IF d.fmt.cyls < fmt.cyls \/ d.damage = "missing" \/ Gone \in {d.tracks[i] : i \in DOMAIN d.tracks}
                  \/ <<d.fmt.enc, d.fmt.size>> \notin {<<"MFM", 1>>, <<"FM", 0>>} THEN Throws
        ELSE Wrote([saved EXCEPT !.sign = IF d.damage = "bad" THEN "crc" ELSE @])

\* A Deep Thought disk: blocks of 2304 bytes, head 0 first.
WriteDTI(d, opt) ==
    IF d.fmt.enc # "Ace" \/ d.fmt.cyls \notin {40, 80} THEN Throws
    ELSE LET f == Headed(d, HeadFirst(d.fmt), "dti", "DTI", 8)
             tracks == d.fmt.cyls * d.fmt.heads
         IN  Wrote([f EXCEPT !.unit = 2304, !.size = tracks * 2304 + 8])

\* WriteAppleDODisk: sectors without good data are not signed.
WriteDO(d, opt) ==
    LET f == Regular(d, OtherFormats.DO, "do")
    IN  Wrote([f EXCEPT !.sign = IF d.damage \in {"bad", "missing"} THEN "lost" ELSE @])

\* CheckBeforeWriteRAW: the format is what the tracks of the disk have in
\* common, unless the command line says otherwise; sectors outside of it, or
\* of another size, are refused.
RawFormat(d, opt) ==
    LET seen == [d.fmt EXCEPT !.cylsFirst = FALSE]
        asked == Override(seen, opt, TRUE)
    IN  IF opt.base # NotGiven /\ opt.sectors = NotGiven
        THEN [asked EXCEPT !.sectors = @ - (asked.base - seen.base)] ELSE asked

RawRefused(d, fmt, opt) ==
    LET ids == {s \in d.fmt.base .. d.fmt.base + d.fmt.sectors - 1 :
                    /\ opt.base # NotGiven => s >= fmt.base
                    /\ opt.sectors # NotGiven => s < fmt.base + fmt.sectors}
    IN  \/ ids = {}
        \/ \E s \in ids : s >= fmt.base + fmt.sectors
        \/ \A s \in ids : s < fmt.base
        \/ fmt.size # d.fmt.size

WriteRAW(d, opt) ==
    IF d.fmt.sectors = 0 \/ RawRefused(d, RawFormat(d, opt), opt) THEN Throws
    ELSE WriteFixed(d, RawFormat(d, opt), "raw")

\* The disk has the filesystem of the Atari ST: it was read so, or its boot
\* sector is good enough, which the ST's filesystem claims before any other.
HasStFileSystem(d) ==
    /\ d.type \notin {"BPB", "CFI"}
    /\ d.type \in {"ST", "MSA"} \/ HasBpb(BootOf(d, PcFormats.PC720))

WriteSTIn(d, preset, fmt, opt) ==
    LET \* An Atari ST image is a raw image, in the format of the filesystem if the
        \* disk has one. A boot sector without data is made up, and a filesystem of
        \* another kind gets a new BIOS parameter block.
        Rebuilt(f) ==
            IF d.tracks[1] = Gone \/ d.type \in {"BPB", "CFI"}
            THEN [f EXCEPT !.holds = [kind |-> "BPB", cyls |-> fmt.cyls, heads |-> fmt.heads,
                                      sectors |-> fmt.sectors, size |-> fmt.size]]
            ELSE f
    IN  IF \/ d.fmt.sectors = 0 \/ fmt.base # 1
           \/ IF preset THEN fmt.size # d.fmt.size ELSE RawRefused(d, fmt, opt)
        THEN Throws ELSE Wrote(Rebuilt(Regular(d, fmt, "st")))

WriteST(d, opt) ==
    LET boot == BootOf(d, PcFormats.PC720)
    IN  IF HasStFileSystem(d) /\ HasBpb(boot)
        THEN WriteSTIn(d, TRUE, Override(BpbFormat(boot), opt, TRUE), opt)
        ELSE WriteSTIn(d, FALSE, RawFormat(d, opt), opt)

-----------------------------------------------------------------------------
\* ReadImage: the types are tried in the order of types.h; the first one that
\* takes the file or refuses it with an error decides. The types whose own
\* signature none of these files carries are left out of the row.
Reading(f, opt) ==
    LET answers ==
            <<ReadSAD(f, opt), ReadSCL(f, opt), ReadDTI(f, opt), ReadMSA(f, opt),
              ReadSBT(f, opt), ReadQDOS(f, opt), ReadSAP(f, opt), ReadD80(f, opt),
              ReadST(f, opt), ReadBPB(f, opt), ReadADF(f, opt), ReadMBD(f, opt),
              ReadOPD(f, opt), Read2D(f, opt), ReadTRD(f, opt), ReadLIF(f, opt),
              ReadCFI(f, opt), ReadS24(f, opt), ReadD2M(f, opt), ReadD4M(f, opt),
              ReadD81(f, opt), ReadMGT(f, opt), ReadDS2(f, opt), ReadCPM(f, opt),
              ReadFD(f, opt), ReadRAW(f, opt)>>
        takers == {i \in DOMAIN answers : answers[i].said # "no"}
    IN  IF takers = {} THEN Throws ELSE answers[Min(takers)]

\* The layers MemFile::open takes off: zip or gzip first, then once each gzip,
\* bzip2 and xz. A zip inside of a gzip is an error.
Off(layer, layers) == IF layers # <<>> /\ layers[1] = layer THEN Tail(layers) ELSE layers

Unpacked(layers) ==
    LET first == IF layers # <<>> /\ layers[1] = "zip" THEN Tail(layers) ELSE Off("gzip", layers)
    IN  IF first # <<>> /\ first[1] = "zip" THEN <<"bad">>
        ELSE Off("xz", Off("bzip2", Off("gzip", first)))

\* The extensions by which a zip archive's member is chosen; another member is
\* taken for its size, and the file then goes by the name of the archive.
KnownInZip == {"raw", "dsk", "mgt", "sad", "trd", "d2m", "d81", "mbd", "opd", "s24",
               "cpm", "lif", "ds2", "qdos"}

NameSeen(layers, ext) ==
    IF layers # <<>> /\ layers[1] = "zip" /\ ext \notin KnownInZip THEN "zip" ELSE ext

-----------------------------------------------------------------------------
Init ==
    /\ disk = NoDisk /\ file = NoFile /\ source = NoDisk
    /\ lastSaid = "nothing"
    /\ options \in Options

\* A disk is read from a device, or a file is found.
ReadDevice(d) ==
    /\ disk' = d
    /\ lastSaid' = "yes"
    /\ UNCHANGED <<file, source, options>>

Find(f) ==
    /\ file' = f
    /\ lastSaid' = "found"
    /\ UNCHANGED <<disk, source, options>>

\* The disk is written as an image of the type of the extension; when the
\* writer fails no file is left.
Save(ext) ==
    LET \* WriteImage: the writer is chosen by the extension. The other types throw:
        \* unknown, read only, or not implemented.
        Writing(d, opt) ==
            CASE ext = "opd" -> WriteOPD(d, opt)
              [] ext = "mbd" -> WriteMBD(d, opt)
              [] ext = "adf" -> WriteADF(d, opt)
              [] ext = "qdos" -> WriteQDOS(d, opt)
              [] ext = "mgt" -> WriteMGT(d, opt)
              [] ext = "cpm" -> WriteCPM(d, opt)
              [] ext = "lif" -> WriteLIF(d, opt)
              [] ext = "sad" -> WriteSAD(d, opt)
              [] ext = "fd" -> WriteFD(d, opt)
              [] ext = "sap" -> WriteSAP(d, opt)
              [] ext = "dti" -> WriteDTI(d, opt)
              [] ext = "do" -> WriteDO(d, opt)
              [] ext = "raw" -> WriteRAW(d, opt)
              [] ext = "st" -> WriteST(d, opt)
              [] OTHER -> Throws
    IN  /\ disk # NoDisk /\ source = NoDisk
        /\ \E result \in {Writing(disk, options)} :
            /\ lastSaid' = result.said
            /\ file' = IF result.said = "yes" THEN result.file ELSE NoFile
            /\ source' = IF result.said = "yes" THEN disk ELSE NoDisk
        /\ disk' = NoDisk
        /\ UNCHANGED options

\* The file is opened out of the archives it was packed in.
Open ==
    /\ file # NoFile /\ disk = NoDisk /\ lastSaid \in {"yes", "found"}
    /\ \E result \in {IF Unpacked(options.layers) = <<>>
                      THEN Reading([file EXCEPT !.ext = NameSeen(options.layers, @)], options)
                      ELSE Throws} :
        /\ lastSaid' = result.said
        /\ disk' = IF result.said = "yes" THEN result.disk ELSE NoDisk
    /\ UNCHANGED <<file, source, options>>

ReadADevice == disk = NoDisk /\ file = NoFile /\ \E d \in Media : ReadDevice(d)
FindAFile == disk = NoDisk /\ file = NoFile /\ \E f \in Found : Find(f)
SaveAs == \E ext \in SaveExts : Save(ext)

Next == ReadADevice \/ FindAFile \/ SaveAs \/ Open

Spec == Init /\ [][Next]_vars

\* No medium and no file that is found has damage whose mark was lost before:
\* nothing shows it, and a disk with it is one without damage.
DamageIsKnown ==
    /\ \A d \in Media : d.damage # "lost"
    /\ \A f \in Found : FileFields(f) /\ f.sign # "lost"

-----------------------------------------------------------------------------
\* Everything the disk had is in the file: no track was dropped, cut or signed
\* as missing by the format of the type.
Complete(f, d) ==
    /\ Len(f.body) = Len(d.tracks)
    /\ {f.body[i] : i \in DOMAIN f.body} = {d.tracks[i] : i \in DOMAIN d.tracks}
    /\ Miss \notin {f.body[i] : i \in DOMAIN f.body}
    /\ f.unit = TrackBytes(d.fmt)

\* The types whose geometry is fixed by the type, by a header or by a boot
\* sector, and whose reader keeps to it.
KeepsGeometry == {"mbd", "qdos", "mgt", "cpm", "lif", "sad", "sap", "do", "opd"}

\* The types whose reader expects the tracks of two heads in another order than
\* their writer puts them, and the type whose reader shifts the data.
Permuting == {"ADF", "OPD"}
Shifting  == {"DTI"}

\* A disk that was completely saved is read back with every track in its place
\* whenever its geometry is recognised, and in a type that states its geometry
\* it is: reader and writer agree on the order of the tracks, and no other type
\* claims the file with another order.
ReadBack ==
    disk # NoDisk /\ source # NoDisk /\ Complete(file, source) =>
        /\ (/\ SameGeometry(disk.fmt, source.fmt)
            /\ disk.type \notin Permuting \/ disk.fmt.heads = 1
            /\ disk.type \notin Shifting)
           => disk.tracks = source.tracks
        /\ file.ext \in KeepsGeometry => SameGeometry(disk.fmt, source.fmt)

\* A sector that could not be read is never saved as if it were good: the file
\* carries a sign of it, or a wrong checksum, or there is no file. Only images
\* of Apple disks have no sign.
DamageIsMarked ==
    file # NoFile /\ source # NoDisk /\ file.ext # "do" =>
        /\ source.damage # "none" => file.sign # "lost"
        /\ disk # NoDisk => disk.damage # "none" \/ source.damage = "none"

\* A file of foreign origin is read with every track where the medium had it,
\* unless the command line claims another geometry or the file lost its name in
\* an archive.
ForeignIsPlaced ==
    disk # NoDisk /\ source = NoDisk /\ file # NoFile /\ options.heads = 0
      /\ NameSeen(options.layers, file.ext) = file.ext =>
        \A i \in DOMAIN disk.tracks :
            disk.tracks[i] >= 0 =>
                LET track == TrackAt(disk.fmt, FALSE, i)
                IN  disk.tracks[i] = 2 * track.cyl + track.head
=============================================================================
