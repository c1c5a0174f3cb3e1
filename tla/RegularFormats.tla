--------------------------- MODULE RegularFormats ---------------------------
(***************************************************************************)
(* The regular formats the program knows, how a format is chosen by the    *)
(* size of an image, how the command line overrides one, and the order in  *)
(* which the tracks of a format lie in an image (Format.cpp, Range.cpp).   *)
(* Gaps, interleave, skew, fill bytes and head numbers are left out.       *)
(***************************************************************************)
EXTENDS Integers, Sequences

MaxTracks  == 128
MaxSides   == 2
MaxSectors == 144

\* An integer option that is not given on the command line.
NotGiven == -1

\* The defaults of the fields of Format: 80 cylinders, 2 heads, no sectors,
\* sectors of 512 bytes numbered from 1, heads alternating.
NoFormat == [cyls |-> 80, heads |-> 2, sectors |-> 0, size |-> 2, base |-> 1,
             rate |-> "unknown", enc |-> "unknown", cylsFirst |-> FALSE]

Plain(cyls, heads, sectors, size) ==
    [NoFormat EXCEPT !.cyls = cyls, !.heads = heads, !.sectors = sectors,
                     !.size = size, !.rate = "250K", !.enc = "MFM"]

At(rate, fmt) == [fmt EXCEPT !.rate = rate]
From0(fmt)    == [fmt EXCEPT !.base = 0]
In(enc, fmt)  == [fmt EXCEPT !.enc = enc]
HeadFirst(fmt) == [fmt EXCEPT !.cylsFirst = TRUE]

\* The formats of the Spectrum, SAM Coupe, QL and Commodore families.
HomeFormats ==
    [MGT     |-> Plain(80, 2, 10, 2),
     ProDos  |-> Plain(80, 2, 9, 2),
     D80     |-> Plain(80, 2, 9, 2),
     OPD     |-> From0(Plain(80, 2, 18, 1)),
     MBD820  |-> Plain(82, 2, 5, 3),
     MBD1804 |-> At("500K", Plain(82, 2, 11, 3)),
     TRDOS   |-> Plain(80, 2, 16, 1),
     QDOS    |-> Plain(80, 2, 9, 2),
     D2M     |-> At("500K", Plain(81, 2, 10, 3)),
     D4M     |-> At("1M", Plain(81, 2, 20, 3)),
     D81     |-> Plain(80, 2, 10, 2)]

PcFormats ==
    [PC320  |-> Plain(40, 2, 8, 2),
     PC360  |-> Plain(40, 2, 9, 2),
     PC640  |-> Plain(80, 2, 8, 2),
     PC720  |-> Plain(80, 2, 9, 2),
     PC1200 |-> At("500K", Plain(80, 2, 15, 2)),
     PC1232 |-> At("500K", Plain(77, 2, 8, 3)),
     PC1440 |-> At("500K", Plain(80, 2, 18, 2)),
     PC2880 |-> At("1M", Plain(80, 2, 36, 2))]

\* The formats of other machines; the Thomson formats are the only ones whose
\* images hold all of head 0 before head 1.
OtherFormats ==
    [P2D         |-> Plain(40, 2, 16, 1),
     AmigaDOS    |-> In("Amiga", From0(Plain(80, 2, 11, 2))),
     AmigaDOSHD  |-> At("500K", In("Amiga", From0(Plain(80, 2, 22, 2)))),
     LIF         |-> Plain(77, 2, 16, 1),
     AtariST     |-> Plain(80, 2, 9, 2),
     TO_640K_MFM |-> HeadFirst(Plain(80, 2, 16, 1)),
     TO_320K_MFM |-> HeadFirst(Plain(80, 1, 16, 1)),
     TO_160K_MFM |-> HeadFirst(Plain(40, 1, 16, 1)),
     TO_160K_FM  |-> In("FM", HeadFirst(Plain(80, 1, 16, 0))),
     TO_80K_FM   |-> In("FM", HeadFirst(Plain(40, 1, 16, 0))),
     DO          |-> In("Apple", From0(Plain(35, 1, 16, 1)))]

-----------------------------------------------------------------------------
SectorSize(fmt) == 2 ^ (fmt.size + 7)
TrackBytes(fmt) == fmt.sectors * SectorSize(fmt)
DiskBytes(fmt)  == fmt.cyls * fmt.heads * TrackBytes(fmt)

SameGeometry(a, b) ==
    /\ a.cyls = b.cyls
    /\ a.heads = b.heads
    /\ a.sectors = b.sectors
    /\ a.size = b.size

\* Format::TryValidate: the geometry lies within the limits of the program.
Valid(fmt) ==
    /\ fmt.cyls \in 1 .. MaxTracks
    /\ fmt.heads \in 1 .. MaxSides
    /\ fmt.sectors \in 1 .. MaxSectors

\* Format::FromSize: the format an image of this size is taken to have; the
\* default format is left when none has the size.
FromSize(bytes) ==
    LET SizedFormats ==
            LET \* Variants of the 1.44 MB format with more sectors or cylinders.
                Dense(cyls, sectors) == [PcFormats.PC1440 EXCEPT !.cyls = cyls, !.sectors = sectors]
            IN  {OtherFormats.DO, HomeFormats.MGT,
                 [PcFormats.PC320 EXCEPT !.heads = 1], [PcFormats.PC360 EXCEPT !.heads = 1],
                 PcFormats.PC320, PcFormats.PC360, PcFormats.PC640, PcFormats.PC720,
                 PcFormats.PC1200, PcFormats.PC1232, PcFormats.PC1440, PcFormats.PC2880,
                 Dense(80, 20), Dense(80, 21), Dense(82, 21), Dense(83, 21), Dense(80, 22),
                 Dense(80, 23), Dense(80, 24)}
        fits == {fmt \in SizedFormats : DiskBytes(fmt) = bytes}
    IN  IF fits = {} THEN NoFormat ELSE CHOOSE fmt \in fits : TRUE

\* Format::Override: what the command line says about the geometry (with full
\* control), the first sector number and the order of the tracks. opt holds
\* the options, NotGiven (0 for cyls and heads) when absent.
Override(fmt, opt, full) ==
    [fmt EXCEPT
        !.cyls = IF full /\ opt.cyls > 0 THEN opt.cyls ELSE @,
        !.heads = IF full /\ opt.heads > 0 THEN opt.heads ELSE @,
        !.sectors = IF full /\ opt.sectors # NotGiven THEN opt.sectors ELSE @,
        !.size = IF full /\ opt.size \in 0 .. 7 THEN opt.size ELSE @,
        !.rate = IF full /\ @ = "unknown" THEN "250K" ELSE @,
        !.enc = IF full /\ @ = "unknown" THEN "MFM" ELSE @,
        !.base = IF opt.base # NotGiven THEN opt.base ELSE @,
        !.cylsFirst = IF opt.cylsFirst # NotGiven THEN opt.cylsFirst # 0 ELSE @]

\* Range::each: the place (from 1) of a track among the tracks of the format,
\* cylinder by cylinder or, for headFirst and two heads, head by head.
Position(fmt, headFirst, cyl, head) ==
    IF headFirst /\ fmt.heads > 1 THEN head * fmt.cyls + cyl + 1
                                  ELSE cyl * fmt.heads + head + 1

\* The cylinder and head of the track at a place.
TrackAt(fmt, headFirst, place) ==
    IF headFirst /\ fmt.heads > 1
    THEN [cyl |-> (place - 1) % fmt.cyls, head |-> (place - 1) \div fmt.cyls]
    ELSE [cyl |-> (place - 1) \div fmt.heads, head |-> (place - 1) % fmt.heads]
=============================================================================
