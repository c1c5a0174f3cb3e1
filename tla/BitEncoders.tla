---------------------------- MODULE BitEncoders ----------------------------
(***************************************************************************)
(* Sectors written as the bits of a track (src/src/TrackBuilder.cpp,       *)
(* BitstreamTrackBuilder.cpp, BitBuffer.cpp, BitstreamEncoder.cpp,         *)
(* IBMPC.cpp, SpecialFormat.cpp).                                          *)
(*                                                                         *)
(* A builder call is a sequence of pieces: filler, bytes that are no       *)
(* filler ("block"), an address mark, a CRC over what lies before, or a    *)
(* move to the offset of a sector.  Pieces are laid out one after the      *)
(* other; of the bits only the address marks, what follows them, and the   *)
(* stretches that are not filler are kept.  A data field is told apart by  *)
(* whose data it is, how many bytes it has, after how many of them a valid *)
(* CRC stands ("sum", -1 for none), and what it says (texts by which       *)
(* protections are recognised).                                            *)
(***************************************************************************)
EXTENDS Integers, Sequences, SequencesExt

SizeMask == 7
MaxGap3 == 82
Revolution == 200000    \* microseconds of a turn at 300 RPM

NoHeader == [cyl |-> 0, head |-> 0, sector |-> 0, size |-> 0]
NoData == [is |-> 0, bytes |-> 0, sum |-> -1, says |-> {}]

SizeCodeToRealSizeCode(size) == IF size <= 7 THEN size ELSE 8
SizeCodeToLength(size) == 128 * 2 ^ SizeCodeToRealSizeCode(size)

HasData(s) == s.data # NoData
HasGapData(s) == s.data.bytes > SizeCodeToLength(s.header.size)
HasGoodData(s) == HasData(s) /\ ~s.bad /\ ~HasGapData(s)

\* What stands for a bad CRC before data that is valid elsewhere.
SumOf(data, size, bad) ==
    CASE data.bytes > SizeCodeToLength(size) -> data.sum
      [] data.bytes <= SizeCodeToLength(size) /\ bad -> -1
      [] OTHER -> SizeCodeToLength(size)

(***************************************************************************)
(* Lengths                                                                 *)
(***************************************************************************)

\* RX02 data and Amiga sectors are written as MFM.
Bits(enc, bytes) == bytes * (IF enc = "FM" THEN 32 ELSE 16)

SyncLength(enc, short) == IF enc = "FM" THEN 6 ELSE IF short THEN 3 ELSE 12
IdamSync(enc) == IF enc = "FM" THEN 0 ELSE 3     \* A1A1A1
Gap2Length(enc, rate) == IF enc = "FM" THEN 11 ELSE IF rate = 1000 THEN 41 ELSE 22
SectorOverhead(enc) == IF enc = "FM" THEN 33 ELSE 62
TrackOverhead(enc) == IF enc = "FM" THEN 73 ELSE 146

BitcellNs(rate) == CASE rate = 250 -> 2000 [] rate = 300 -> 1667 [] rate = 500 -> 1000 [] rate = 1000 -> 500

TrackCapacity(enc, rate) ==
    LET raw == (rate * Revolution) \div 8000
    IN  ((IF enc = "FM" THEN raw \div 2 ELSE raw) * 1995) \div 2000

(***************************************************************************)
(* Pieces                                                                  *)
(***************************************************************************)

Filler(enc, bytes) == <<[does |-> "fill", bits |-> Bits(enc, bytes)]>>
AddBlock(enc, bytes) == <<[does |-> "block", bits |-> Bits(enc, bytes)]>>
AddCrc(bytes) == <<[does |-> "crc", bits |-> Bits("MFM", 2), over |-> Bits("MFM", bytes)]>>
Important == <<[does |-> "important"]>>
Adjust(s, gap3, short) ==
    <<[does |-> "adjust", enc |-> s.enc, offset |-> s.offset, gap3 |-> gap3, short |-> short]>>

\* 4E or FF; FF passes for the clock bits of 00 when gaps are recognised.
AddGap(enc, bytes) == Filler(enc, bytes)

IdMark(enc, header, good) ==
    [kind |-> "id", enc |-> enc, header |-> header, good |-> good, dam |-> "FE", data |-> NoData]
DataMark(enc, dam, data) ==
    [kind |-> "data", enc |-> enc, header |-> NoHeader, good |-> TRUE, dam |-> dam, data |-> data]

\* An address mark with so many bits that belong to it.
AddAM(mark, short, body) ==
    Filler(mark.enc, SyncLength(mark.enc, short) + IdamSync(mark.enc))
        \o <<[does |-> "mark", head |-> Bits(mark.enc, 1), body |-> body, mark |-> mark]>> \o Important

AddIAM(enc) == Filler(enc, SyncLength(enc, FALSE)) \o AddBlock(enc, IdamSync(enc) + 1) \o Important

AddTrackStart(enc, short) ==
    CASE enc = "MFM" /\ short -> AddGap(enc, 20)
      [] enc = "MFM" /\ ~short -> AddGap(enc, 80) \o AddIAM(enc) \o AddGap(enc, 50)
      [] enc = "FM" -> AddGap(enc, 40) \o AddIAM(enc) \o AddGap(enc, 26)
      [] enc = "RX02" -> AddGap("FM", 32) \o AddIAM("FM") \o AddGap("FM", 27)
      [] enc = "Amiga" -> Filler(enc, 60)

AddSectorHeader(enc, header, crcError, short) ==
    AddAM(IdMark(enc, header, ~crcError), short, Bits(enc, 6))

\* Data that is longer than the sector brings its own CRC, shorter data is padded.
AddSectorData(enc, data, size, dam, crcError) ==
    AddAM(DataMark(enc, dam, [data EXCEPT !.sum = SumOf(data, size, crcError)]), FALSE,
          Bits(enc, IF data.bytes > SizeCodeToLength(size) THEN data.bytes ELSE SizeCodeToLength(size) + 2))

\* Header and mark without data, for weak sectors.
AddSectorUpToData(s) ==
    AddSectorHeader(s.enc, s.header, FALSE, FALSE) \o AddGap(s.enc, Gap2Length(s.enc, s.rate))
        \o AddAM(DataMark(s.enc, s.dam, [s.data EXCEPT !.sum = -1]), FALSE, 0)

\* FM up to the data mark, MFM after it, always with a valid CRC.
AddRX02Sector(header, data, gap3) ==
    AddSectorHeader("FM", header, FALSE, FALSE) \o AddGap("FM", 11)
        \o AddAM(DataMark("FM", "FD", [data EXCEPT !.sum = data.bytes]), FALSE, Bits("MFM", data.bytes + 2))
        \o AddGap("MFM", gap3)

\* Header and data in one, after a sync of two bytes; both checksums are always valid.
AddAmigaSector(header, data) ==
    Filler("Amiga", 3)
        \o <<[does |-> "mark", head |-> 0, body |-> Bits("Amiga", 540),
              mark |-> [kind |-> "amiga", enc |-> "Amiga", header |-> header, good |-> TRUE, dam |-> "00",
                        data |-> [data EXCEPT !.sum = 512]]]>>
        \o Important \o Filler("Amiga", 1)

AddSector(s, gap3, short) ==
    CASE s.enc \in {"MFM", "FM"} ->
            Adjust(s, gap3, short) \o AddSectorHeader(s.enc, s.header, FALSE, short)
                \o AddGap(s.enc, Gap2Length(s.enc, s.rate))
                \o (IF HasData(s) THEN AddSectorData(s.enc, s.data, s.header.size, s.dam, s.bad) ELSE << >>)
                \o (IF HasGapData(s) THEN << >> ELSE AddGap(s.enc, gap3))
      [] s.enc = "RX02" -> AddRX02Sector(s.header, s.data, gap3)
      [] s.enc = "Amiga" -> AddAmigaSector(s.header, s.data)

(***************************************************************************)
(* Laying out                                                              *)
(***************************************************************************)

NoBits == [pos |-> 0, size |-> 0, prev |-> 0, important |-> 0, marks |-> << >>, used |-> {},
           overflowed |-> FALSE]

\* The marks left when the bits from b.pos to end are written: those inside are gone,
\* what reaches into them is damaged.
MarksAfter(b, end) ==
    LET Reach(m) ==
            CASE m.kind = "id" -> m.at + Bits(m.enc, 7)
              [] m.kind = "data" -> m.at + Bits(m.enc, 1) + Bits("MFM", m.data.sum + 2)
              [] m.kind = "amiga" -> m.at + Bits(m.enc, 540)
        Hurt(m) ==
            IF m.at < b.pos /\ Reach(m) > b.pos THEN [m EXCEPT !.good = m.kind # "id", !.data.sum = -1] ELSE m
        Left == SelectSeq(b.marks, LAMBDA m : m.at < b.pos \/ m.at >= end)
    IN  IF b.pos = b.size THEN b.marks ELSE [i \in DOMAIN Left |-> Hurt(Left[i])]

UsedAfter(b, end) ==
    IF b.pos = b.size THEN b.used
    ELSE {u \in UNION {{<<u[1], IF u[2] < b.pos THEN u[2] ELSE b.pos>>, <<IF u[1] > end THEN u[1] ELSE end, u[2]>>} :
                u \in b.used} : u[1] < u[2]}

Written(b, bits) ==
    LET end == b.pos + bits
    IN  [b EXCEPT !.pos = end, !.size = IF end > b.size THEN end ELSE b.size,
                  !.marks = MarksAfter(b, end), !.used = UsedAfter(b, end)]

PutMark(b, at, mark) ==
    [b EXCEPT !.marks = SelectSeq(b.marks, LAMBDA m : m.at < at) \o <<[at |-> at] @@ mark>>
                            \o SelectSeq(b.marks, LAMBDA m : m.at > at)]

\* A CRC makes the data valid that begins where it begins to count: A1A1A1 and the mark
\* lie before the data.
PutCrc(b, from) ==
    [b EXCEPT !.marks = [i \in DOMAIN b.marks |->
        IF b.marks[i].kind = "data" /\ b.marks[i].at = from + Bits("MFM", 3)
        THEN [b.marks[i] EXCEPT !.data.sum = ((b.pos - from) \div 16) - 6] ELSE b.marks[i]]]

Used(b, from, to) == [b EXCEPT !.used = @ \cup {<<from, to>>}]

AdjustBefore_Always(b, p) ==
    LET wanted == p.offset - Bits(p.enc, SyncLength(p.enc, p.short) + IdamSync(p.enc))
        protected == b.prev + Bits(p.enc, 7 + p.gap3)
        back == IF wanted > protected THEN wanted ELSE protected
    IN  [b EXCEPT !.pos = IF back < b.size THEN back ELSE b.size, !.prev = p.offset]

\* adjustDataBitsBeforeOffset: fill up to the offset of a sector or step back to it, but
\* not over the header before.
AdjustBefore(b, p) ==
    LET \* The rounds of the loop that fills up to a sector's offset: each round subtracts what
        \* is missing still.  When nothing is missing too early it runs until the counter
        \* overflows, after about 2^16 rounds.
        RunAway == 65537
        \* Mutant: sectors without an offset are moved as well.
        FillRounds(missing, step, gap3) ==
            LET After(k) == missing - k * missing + (step * k * (k + 1)) \div 2
            IN  IF After(1) <= gap3 THEN 1 ELSE IF After(2) <= gap3 THEN 2 ELSE RunAway
        wanted == p.offset - Bits(p.enc, SyncLength(p.enc, p.short) + IdamSync(p.enc))
        protected == b.prev + Bits(p.enc, 7 + p.gap3)
        missing == wanted - b.pos
        room == missing \div Bits(p.enc, 1)
        gap3 == Bits(p.enc, IF room < p.gap3 THEN room ELSE p.gap3)
        step == IF p.enc = "FM" THEN 2 ELSE 1
        back == IF wanted > protected THEN wanted ELSE protected
        moved ==
            CASE missing <= 0 -> [b EXCEPT !.pos = IF back < b.size THEN back ELSE b.size]
              [] missing > 0 /\ missing = gap3 -> Written(b, gap3)
              [] missing > gap3 ->
                    LET rounds == FillRounds(missing, step, gap3)
                    IN  [Written(b, step * rounds) EXCEPT !.overflowed = @ \/ rounds = RunAway]
    IN  IF p.offset <= b.prev THEN b ELSE [moved EXCEPT !.prev = p.offset]

Put(b, piece) ==
    CASE piece.does = "fill" -> Written(b, piece.bits)
      [] piece.does = "block" -> Used(Written(b, piece.bits), b.pos, b.pos + piece.bits)
      [] piece.does = "mark" ->
            LET body == b.pos + piece.head
            IN  Used(PutMark(Written(b, piece.head + piece.body), b.pos, piece.mark), body, body + piece.body)
      [] piece.does = "crc" -> PutCrc(Written(b, piece.bits), b.pos - piece.over)
      [] piece.does = "important" -> [b EXCEPT !.important = b.pos]
      [] piece.does = "adjust" -> AdjustBefore(b, piece)

\* One step after the other, each from the finished result of the one before.
InTurn(Step(_, _), base, seq) ==
    FoldLeft(LAMBDA w, x : CHOOSE r \in {Step(v, x) : v \in {w}} : TRUE, base, seq)

\* Parts, each a sequence of pieces.
Layout(parts) == InTurn(LAMBDA b, pieces : InTurn(Put, b, pieces), NoBits, parts)

\* cutExcessUnimportantDataBitsAtTheEnd
CutExcess(b, trackLen) ==
    LET excess == b.pos - (IF b.important > trackLen THEN b.important ELSE trackLen)
    IN  IF b.pos > trackLen /\ b.important < b.pos THEN [b EXCEPT !.pos = @ - excess, !.size = b.pos - excess] ELSE b

(***************************************************************************)
(* A track of ordinary sectors                                             *)
(***************************************************************************)

FormatGap(rate, enc, sectors, size) ==
    LET chunk == (TrackCapacity(enc, rate) - TrackOverhead(enc)) \div sectors
        overhead == SizeCodeToLength(size) + SectorOverhead(enc)
        gap3 == IF chunk > overhead THEN chunk - overhead ELSE 0
        Standard == [r \in {<<1000, "MFM", 36, 2>>, <<500, "MFM", 18, 2>>, <<250, "MFM", 9, 2>>} |->
                        CASE r[1] = 1000 -> 83 [] r[1] = 500 -> 101 [] r[1] = 250 -> 80]
    IN  CASE <<rate, enc, sectors, size>> \in DOMAIN Standard -> Standard[<<rate, enc, sectors, size>>]
          [] OTHER -> IF gap3 > MaxGap3 THEN MaxGap3 ELSE gap3

\* The size codes that count, real ones or only those of good sectors (-1 for the others).
SizesOf(track, real) ==
    [i \in DOMAIN track |-> IF real \/ HasGoodData(track[i]) THEN SizeCodeToRealSizeCode(track[i].header.size) ELSE -1]

\* Units that the sectors take, by size code; counts are those of the sizes.
Counts(sizes) == [z \in {sizes[i] : i \in DOMAIN sizes} |-> Cardinality({i \in DOMAIN sizes : sizes[i] = z})]
UnitsOf(sizes, Need(_)) == LET counts == Counts(sizes) IN MapThenSumSet(LAMBDA z : counts[z] * Need(z), DOMAIN counts)

\* Sectors of several units each, at a gap that a controller could use.
SimpleFits(track, sizes, all) ==
    LET units(code) == UnitsOf(sizes, LAMBDA z : IF z < code THEN 1 ELSE SizeCodeToLength(z) \div SizeCodeToLength(code))
        max == IF all THEN SizeMask ELSE Max({0} \cup {sizes[i] : i \in DOMAIN sizes})
    IN  {f \in {[code |-> c, units |-> units(c),
                gap3 |-> FormatGap(track[1].rate, track[1].enc, units(c), c)] : c \in 0..max} : f.gap3 > 0}

\* Units whose bounds the sectors do not keep.
ClippedFits(track, sizes) ==
    LET overhead == SectorOverhead(track[1].enc)
        min == Min({SizeMask} \cup ({sizes[i] : i \in DOMAIN sizes} \ {-1}))
        Length(code, gap3) == overhead + SizeCodeToLength(code) + gap3
        Need(code, gap3, z) ==
            (overhead + SizeCodeToLength(IF z < 0 THEN code ELSE z) + Length(code, gap3) - 1) \div Length(code, gap3)
    IN  {f \in {[code |-> c, gap3 |-> g, units |-> UnitsOf(sizes, LAMBDA z : Need(c, g, z))] : c \in 0..min, g \in 1..255} :
            f.units * Length(f.code, f.gap3) < TrackCapacity(track[1].enc, track[1].rate)}

Largest(fits) ==
    CHOOSE f \in fits : \A g \in fits : f.code > g.code \/ (f.code = g.code /\ f.gap3 >= g.gap3)

FitTrackIBMPC(track) ==
    LET \* The errors are taken as real at first; then sectors without good data may be of any size.
        FitsWith(real) ==
            LET sizes == SizesOf(track, real)
                counted == {i \in DOMAIN track : real \/ HasGoodData(track[i])}
                simple == SimpleFits(track, sizes, \A i \in counted : ~HasGoodData(track[i]))
                clipped == ClippedFits(track, sizes)
            IN  CASE simple # {} -> {[fit |-> Largest(simple), real |-> real]}
                  [] simple = {} /\ clipped # {} -> {[fit |-> Largest(clipped), real |-> real]}
                  [] OTHER -> {}
    IN  CASE track = << >> \/ \E i \in DOMAIN track : track[i].enc # track[1].enc -> {}
          [] track # << >> /\ track[1].enc \notin {"MFM", "FM"} -> {}
          [] OTHER -> LET real == FitsWith(TRUE) IN IF real # {} THEN real ELSE FitsWith(FALSE)

Gap3Of(track, s, fits) ==
    CASE fits # {} -> IF \E f \in fits : f.fit.units = Len(track) THEN (CHOOSE f \in fits : TRUE).fit.gap3 ELSE 10
      [] fits = {} /\ s.gap3 # 0 -> s.gap3
      [] OTHER -> 25

\* Bad data whose size is only a pretence is written without an end.
SimpleSector(track, s, fits) ==
    CASE s.badId -> AddSectorHeader(s.enc, s.header, TRUE, FALSE)
      [] ~s.badId /\ s.bad /\ (\E f \in fits : ~f.real) ->
            LET fake == SizeCodeToLength((CHOOSE f \in fits : TRUE).fit.code)
            IN  AddSectorUpToData(s)
                    \o AddBlock(s.enc, IF s.data.bytes > fake THEN fake ELSE s.data.bytes)
      [] OTHER -> AddSector(s, Gap3Of(track, s, fits), FALSE)

\* generate_simple: without --force what takes more than 205 ms is refused.  The time is
\* a product of 32 bits, beyond them negative.
TooLong(bits, rate) ==
    bits <= 2147483647 \div BitcellNs(rate) /\ (bits * BitcellNs(rate)) \div 1000000 > 205

SimpleTrack(track) ==
    LET fits == FitTrackIBMPC(track)
        b == Layout(<<AddTrackStart(track[1].enc, FALSE)>>
                        \o [i \in DOMAIN track |-> SimpleSector(track, track[i], fits)])
    IN  IF (\E i \in DOMAIN track : track[i].enc \notin {"MFM", "FM", "RX02", "Amiga"}) \/ TooLong(b.size, track[1].rate)
        THEN {} ELSE {b}

(***************************************************************************)
(* Protections (SpecialFormat.cpp)                                         *)
(***************************************************************************)

MfmAt(s, rate) == s.enc = "MFM" /\ s.rate = rate
Length(s) == SizeCodeToLength(s.header.size)
Says(s, text) == text \in s.data.says
Weak(s) == MfmAt(s, 250) /\ s.bad

\* The duplicate of a weak sector has other bytes where the sector is weak.
Weakened(s) == [s EXCEPT !.data.is = @ + 100, !.offset = 0, !.bad = TRUE]

\* Sectors given to a builder by header and data have no offset.
AsGiven(s) == [s EXCEPT !.offset = 0, !.rate = 250, !.enc = "MFM"]

Kbi19Ids == <<0, 1, 4, 7, 10, 13, 16, 2, 5, 8, 11, 14, 17, 3, 6, 9, 12, 15, 18, 19>>

IsKBI19Track(track) ==
    /\ Len(track) \in {19, 20}
    /\ \A i \in DOMAIN track :
        /\ MfmAt(track[i], 250)
        /\ track[i].header.sector = Kbi19Ids[i] /\ Length(track[i]) = 512
        /\ HasGoodData(track[i]) \/ track[i].header.sector = 19

KBI19Track(track) ==
    LET \* Of three sectors two are cut short, their CRCs stand within the third.
        KBI19Sector(s, index) ==
            LET short == AddBlock("MFM", 61)
                whole == AddBlock("MFM", 512) \o AddCrc(516)
                meshed == AddBlock("MFM", 270) \o AddCrc(516) \o AddBlock("MFM", 119) \o AddCrc(516)
                            \o AddBlock("MFM", 119) \o AddCrc(516) \o AddGap("MFM", 80)
                gap2 == IF s.header.sector = 0 THEN AddGap("MFM", 17) \o AddBlock("MFM", 5)
                        ELSE AddGap("MFM", 8) \o AddBlock("MFM", 5) \o AddGap("MFM", 9)
            IN  AddSectorHeader("MFM", s.header, FALSE, FALSE) \o gap2
                    \o AddAM(DataMark("MFM", s.dam, [s.data EXCEPT !.sum = -1]), FALSE, 0)
                    \o (CASE index % 3 # 0 -> short
                          [] index % 3 = 0 /\ s.header.sector = 0 -> whole
                          [] OTHER -> meshed)
    IN  <<AddGap("MFM", 64) \o AddIAM("MFM") \o AddGap("MFM", 50)>>
            \o [i \in DOMAIN track |-> KBI19Sector(track[i], i - 1)] \o <<AddGap("MFM", 90)>>

IsSystem24Track(track) ==
    /\ Len(track) = 7
    /\ \A i \in 1..7 : MfmAt(track[i], 500) /\ HasData(track[i])
                        /\ track[i].header.size = <<4, 4, 4, 4, 4, 3, 1>>[i]

System24Track(track) ==
    [i \in DOMAIN track |-> AddSector(track[i], IF track[i].header.sector < 6 THEN 52 ELSE 41, FALSE)]

\* Two sectors of 512 bytes, the second of them weak.
Speedlocked(signed, weak) ==
    /\ MfmAt(signed, 250) /\ Weak(weak)
    /\ \A s \in {signed, weak} : Length(s) = 512 /\ s.data.bytes >= 512

IsSpectrumSpeedlockTrack(track) ==
    Len(track) = 9 /\ Speedlocked(track[1], track[2])
        /\ (Says(track[1], "SPEEDLOCK at 304") \/ Says(track[1], "SPEEDLOCK at 176"))

IsCpcSpeedlockTrack(track) ==
    Len(track) = 9 /\ Speedlocked(track[1], track[8])
        /\ (Says(track[1], "SPEEDLOCK at 257") \/ Says(track[1], "SPEEDLOCK at 129") \/ Says(track[1], "code at 208"))

IsRainbowArtsTrack(track) ==
    Len(track) = 9 /\ Speedlocked(track[4], track[2])
        /\ track[2].header.sector = 198 /\ Says(track[4], "code at 0")

IsKBIWeakSectorTrack(track) ==
    LET n == Len(track)
        code == IF n = 3 THEN 4 ELSE 2
    IN  /\ n \in {3, 10}
        /\ Weak(track[n]) /\ track[n].header.size = 1 /\ track[n].data.bytes >= 256 /\ Says(track[n], "Kxx")
        /\ \A i \in 1..(n - 1) : /\ MfmAt(track[i], 250) /\ track[i].header.size = code
                                  /\ track[i].data.bytes >= SizeCodeToLength(code)

\* The weak sector is bad, and a duplicate of it follows the sector "after".
WeakTrack(track, weak, after, gap3) ==
    <<AddTrackStart("MFM", FALSE)>> \o
        [i \in DOMAIN track |->
            AddSector([AsGiven(track[i]) EXCEPT !.bad = i = weak], gap3, FALSE)
                \o (IF i = after THEN AddSector(Weakened(AsGiven(track[weak])), gap3, FALSE) ELSE << >>)]

SpectrumSpeedlockTrack(track) == WeakTrack(track, 2, 6, 46)
CpcSpeedlockTrack(track) == WeakTrack(track, 8, 2, 46)
RainbowArtsTrack(track) == WeakTrack(track, 2, 6, 46)
KBIWeakSectorTrack(track) == WeakTrack(track, Len(track), (Len(track) - 1) \div 2, 1)

\* Ten sectors from 2 on that begin late, or after a placeholder with a bad header.
IsLogoProfTrack(track) ==
    LET Placeholder(s) == Len(track) = 11 /\ s.header.sector = 1
        real == SelectSeq(track, LAMBDA s : ~Placeholder(s))
    IN  /\ Len(track) \in {10, 11}
        /\ \A i \in DOMAIN track : Placeholder(track[i]) => track[i].badId
        /\ \A i \in DOMAIN real : /\ MfmAt(real[i], 250) /\ real[i].header.sector = i + 1
                                  /\ Length(real[i]) = 512 /\ HasGoodData(real[i])
        /\ Len(track) = 10 => track[1].offset >= (256 + 62) * 16

LogoProfTrack(track) ==
    <<AddTrackStart("MFM", FALSE) \o AddGap("MFM", 600)>>
        \o [i \in DOMAIN track |-> IF track[i].header.sector # 1 THEN AddSector(track[i], 32, FALSE) ELSE << >>]

IsOperaSoftTrack(track) ==
    /\ Len(track) = 9
    /\ \A i \in 1..9 : MfmAt(track[i], 250) /\ track[i].header.size = IF i = 9 THEN 8 ELSE 1
    /\ {track[i].header.sector : i \in 1..9} = 0..8

\* The data of the 32K sector 8 has a CRC after 256 bytes and the data of sector 7 in it.
OperaSoftTrack(track) ==
    <<AddTrackStart("MFM", FALSE)>> \o
        [i \in DOMAIN track |->
            IF track[i].header.sector # 8 THEN AddSector(track[i], 240, FALSE)
            ELSE AddSectorUpToData(track[9]) \o AddBlock("MFM", 256) \o AddCrc(260)
                    \o AddBlock("MFM", 1298 - 256 - 2) \o AddBlock("MFM", track[8].data.bytes)]

Is8KSectorTrack(track) ==
    Len(track) = 1 /\ MfmAt(track[1], 250) /\ Length(track[1]) = 8192 /\ HasData(track[1])

EightKSectorTrack(track) ==
    LET max == 6307
        bytes == IF track[1].data.bytes > max THEN max ELSE track[1].data.bytes
    IN  <<AddGap("MFM", 16) \o AddIAM("MFM") \o AddGap("MFM", 16) \o AddSectorUpToData(track[1])
            \o AddBlock("MFM", bytes) \o AddGap("MFM", max - bytes)>>

\* The last sector that is written is the signed one, always bad.
PrehistorikTrack(track) ==
    LET last == CHOOSE i \in DOMAIN track : track[i].header.sector = 12 /\ \A k \in 1..(i - 1) : track[k].header.sector # 12
        gap3 == IF Len(track) = 11 THEN 106 ELSE 30
    IN  <<AddTrackStart("MFM", FALSE)>> \o
            [i \in 1..last |-> AddSector(IF i = last THEN [AsGiven(track[i]) EXCEPT !.bad = TRUE] ELSE track[i], gap3, FALSE)]

\* At least eleven sectors, or one of number 11; at most eleven of them good.
Is11SectorTrack(track) ==
    /\ track # << >>
    /\ Len(track) >= 11 \/ \E i \in DOMAIN track : track[i].header = [track[1].header EXCEPT !.sector = 11]
    /\ \A i \in DOMAIN track : MfmAt(track[i], 250) /\ Length(track[i]) = 512
    /\ Len(SelectSeq(track, LAMBDA s : HasGoodData(s))) <= 11

ElevenSectorTrack(track, trackLen) ==
    CutExcess(Layout(<<AddTrackStart("MFM", TRUE)>> \o [i \in DOMAIN track |-> AddSector(track[i], 1, TRUE)]),
              trackLen)

\* The formats are tried in this order (generate_special, generate_bitstream).
SpecialTrack(track, trackLen) ==
    IF track = << >> THEN {Layout(<<AddBlock("MFM", 6250)>>)}
    ELSE IF IsKBI19Track(track) THEN {Layout(KBI19Track(track))}
    ELSE IF IsSystem24Track(track) THEN {Layout(System24Track(track))}
    ELSE IF IsSpectrumSpeedlockTrack(track) THEN {Layout(SpectrumSpeedlockTrack(track))}
    ELSE IF IsCpcSpeedlockTrack(track) THEN {Layout(CpcSpeedlockTrack(track))}
    ELSE IF IsRainbowArtsTrack(track) THEN {Layout(RainbowArtsTrack(track))}
    ELSE IF IsKBIWeakSectorTrack(track) THEN {Layout(KBIWeakSectorTrack(track))}
    ELSE IF IsLogoProfTrack(track) THEN {Layout(LogoProfTrack(track))}
    ELSE IF IsOperaSoftTrack(track) THEN {Layout(OperaSoftTrack(track))}
    ELSE IF Is8KSectorTrack(track) THEN {Layout(EightKSectorTrack(track))}
    ELSE IF Is11SectorTrack(track) THEN {ElevenSectorTrack(track, trackLen)}
    ELSE {}

Encoded(track, trackLen) ==
    LET special == SpecialTrack(track, trackLen) IN IF special # {} THEN special ELSE SimpleTrack(track)
=============================================================================
