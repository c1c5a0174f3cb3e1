------------------------------ MODULE BuiltIns ------------------------------
(***************************************************************************)
(* The disks built into the program (src/src/types/builtin.cpp): tracks of *)
(* sectors, bits and flux, normal ones and famous protections.  Every      *)
(* definition is a track, or the tracks, of one disk.  Header cylinders    *)
(* that are those of the track are 1; data n is that of sector n.  Left    *)
(* out are the 130 sectors of 128 bytes, too many for TLC's recursion.     *)
(***************************************************************************)
EXTENDS BitEncoders

(***************************************************************************)
(* Tracks of sectors                                                       *)
(***************************************************************************)

SectorAt(rate, id, size) ==
    [header |-> [cyl |-> 1, head |-> 0, sector |-> id, size |-> size], enc |-> "MFM", rate |-> rate, offset |-> 0,
     badId |-> FALSE, data |-> NoData, bad |-> FALSE, dam |-> "FB", gap3 |-> 0, copies |-> 0]

\* A sector that got data; copies that differ count, the last data stands for them.
Given(s, bytes, bad) ==
    [s EXCEPT !.data = [is |-> s.header.sector, bytes |-> bytes, sum |-> IF bad THEN -1 ELSE bytes, says |-> {}],
              !.bad = bad, !.copies = @ + 1]
Bad(s) == Given(s, SizeCodeToLength(s.header.size), TRUE)
Deleted(s) == [Given(s, SizeCodeToLength(s.header.size), FALSE) EXCEPT !.dam = "F8"]
Empty(s) == [s EXCEPT !.copies = 1]
Telling(s, text) == [Given(s, SizeCodeToLength(s.header.size), FALSE) EXCEPT !.data.says = {text}]

\* complete: test data for the sectors that lack it, none for those with empty data.
Finished(track) ==
    LET Done(s) == CASE s.copies = 0 /\ ~s.badId -> Given(s, SizeCodeToLength(s.header.size), FALSE)
                     [] s.copies > 0 /\ s.data.bytes = 0 -> [s EXCEPT !.copies = 0]
                     [] OTHER -> s
    IN  [i \in DOMAIN track |-> Done(track[i])]

From(first, n) == [i \in 1..n |-> first + i - 1]

\* Sectors of these numbers and size codes.
Row(rate, ids, sizes) == [i \in DOMAIN ids |-> SectorAt(rate, ids[i], sizes[i])]
Alike(rate, ids, size) == Row(rate, ids, [i \in DOMAIN ids |-> size])
InFm(track) == [i \in DOMAIN track |-> [track[i] EXCEPT !.enc = "FM"]]
BadAt(track, places) == [i \in DOMAIN track |-> IF i \in places THEN Bad(track[i]) ELSE track[i]]
DeletedAt(track, places) == [i \in DOMAIN track |-> IF i \in places THEN Deleted(track[i]) ELSE track[i]]
EmptyAt(track, places) == [i \in DOMAIN track |-> IF i \in places THEN Empty(track[i]) ELSE track[i]]

\* 500 and 300 Kbps examples
MissingData500 == EmptyAt(Alike(500, From(1, 18), 2), {1, 11})
DataErrors500 == BadAt(Alike(500, From(1, 18), 2), {6, 16})
Small500 == Alike(500, From(1, 65), 0)
BbcFm == InFm(Alike(300, From(1, 10), 1))

\* 250 Kbps examples
Weakly(s) == [Bad(s) EXCEPT !.copies = 3]
ArcticFox ==
    [DeletedAt(Alike(250, From(1, 9), 2), 3..8) EXCEPT ![1] = Telling(@, "SPEEDLOCK at 304"), ![2] = Weakly(@)]
Robocop ==
    [DeletedAt(Alike(250, From(1, 9), 2), 3..8) EXCEPT ![1] = Telling(@, "SPEEDLOCK at 304"), ![2] = Weakly(@)]
CpcSpeedlock == [Alike(250, From(64, 9), 2) EXCEPT ![1] = Telling(@, "SPEEDLOCK at 257"), ![8] = Weakly(@)]
RainbowArts ==
    [Alike(250, <<193, 198, 194, 109, 195, 200, 196, 201, 197>>, 2) EXCEPT
        ![1] = Telling(@, "SPEEDLOCK at 9"), ![2] = Weakly(@), ![4] = Telling(@, "code at 0")]
KbiSizes == [i \in 1..10 |-> IF i = 10 THEN 1 ELSE 2]
KbiWeak(s) == [Weakly(s) EXCEPT !.data.says = {"Kxx"}]
Kbi10 == [Row(250, <<193, 198, 194, 109, 195, 200, 196, 201, 197, 202>>, KbiSizes) EXCEPT ![10] = KbiWeak(@)]
Kbi10Alt == [Row(250, <<65, 70, 66, 71, 67, 72, 68, 73, 69, 74>>, KbiSizes) EXCEPT ![10] = KbiWeak(@)]
MissingData250 == EmptyAt(Alike(250, From(1, 10), 2), {1, 6})
IdErrors250 == [i \in 1..10 |-> [SectorAt(250, i, 2) EXCEPT !.badId = i \in {1, 6}]]
DataErrors250 == BadAt(Alike(250, From(1, 10), 2), {1, 6})
JimPower == [Alike(250, From(1, 10), 2) EXCEPT ![1] = [Given(@, 524, FALSE) EXCEPT !.data.sum = 512]]
GapData == <<[Given(SectorAt(250, 1, 0), 6144, FALSE) EXCEPT !.data.sum = 128]>>
LeNecromancien ==
    LET ids == <<1, 1, 6, 2, 7, 3, 8, 4, 9, 5>>
    IN  [Row(250, ids, [i \in 1..10 |-> IF i = 1 THEN 1 ELSE 2]) EXCEPT
            ![1] = Given(@, 512, TRUE), ![2] = Deleted([@ EXCEPT !.header.head = 4])]
DefendersOfTheEarth ==
    [i \in 1..10 |-> Bad([SectorAt(250, 196, 191) EXCEPT !.header.cyl = 206, !.header.head = 201])]
WorldGames ==
    EmptyAt(Row(250, Append(From(129, 8), 121), [i \in 1..9 |-> IF i = 9 THEN 0 ELSE 2]), {9})
Sp6 ==
    LET t == Row(250, From(1, 9), [i \in 1..9 |-> IF i = 9 THEN 0 ELSE 2])
    IN  BadAt([t EXCEPT ![8].header = [cyl |-> 203, head |-> 253, sector |-> 188, size |-> 221]], {8, 9})
Tomahawk == [i \in 1..9 |-> Deleted([SectorAt(250, 0, 2) EXCEPT !.header.cyl = 0])]
Sector8K == <<[Bad(SectorAt(250, 193, 6)) EXCEPT !.dam = "F8"]>>
LogoProfessor ==
    [i \in 1..10 |-> [SectorAt(250, 1 + i, 2) EXCEPT
        !.offset = (TrackOverhead("MFM") + (SectorOverhead("MFM") + 512 + 25) * i) * 16]]
EddTheDuck ==
    BadAt(Row(250, <<193, 65, 70, 66, 71, 67, 72, 68, 73, 69, 74>>, [i \in 1..11 |-> IF i = 1 THEN 6 ELSE 2]), {1})
KbiTwice ==
    LET ids == <<193, 198, 194, 199, 202, 195, 200, 196, 201, 197, 202>>
        t == BadAt(Row(250, ids, [i \in 1..11 |-> IF ids[i] = 202 THEN 1 ELSE 2]), {5, 11})
    IN  [t EXCEPT ![4] = [Given(@, 512, FALSE) EXCEPT !.data.says = {"Kxx"}]]
Titan == Alike(250, SubSeq(Kbi19Ids, 1, 19), 2)
Cal2Boot ==
    LET t == [i \in 1..5 |-> [SectorAt(250, <<1, 8, 17, 9, 18>>[i], 2) EXCEPT !.header.cyl = 39]]
    IN  BadAt([t EXCEPT ![1].header = [cyl |-> 20, head |-> 0, sector |-> 1, size |-> 3]], {1, 5})
Protected(s, cyl) ==
    [Given([s EXCEPT !.header.cyl = cyl, !.header.size = 5], 128, TRUE) EXCEPT !.data.says = {"Titus at 27"}]
OnCyl(track, cyl) == [i \in DOMAIN track |-> [track[i] EXCEPT !.header.cyl = cyl]]
TitusTheFox == [OnCyl(Alike(250, <<193, 198, 194, 199, 195, 202, 12>>, 2), 40) EXCEPT ![7] = Protected(@, 90)]
Prehistoric ==
    [OnCyl(Alike(250, <<193, 198, 194, 199, 195, 200, 196, 201, 197, 202, 12>>, 2), 39) EXCEPT ![11] = Protected(@, 89)]
Prehistoric2 ==
    BadAt(Alike(250, <<1, 193, 2, 194, 3, 195, 4, 196, 5, 197, 6, 198, 7, 199>>, 2), {i \in 1..13 : i % 2 = 1})
Tetris == BadAt([i \in 1..16 |-> [SectorAt(250, i - 1, i - 1) EXCEPT !.header.cyl = i - 1, !.header.head = i - 1]], 2..16)
TerreEtConquerants == BadAt(Row(250, From(0, 30), [i \in 1..30 |-> IF i = 30 THEN 2 ELSE 5]), 1..29)
Nineteen == Alike(250, From(1, 19), 1)
OperaSoft == BadAt(Row(250, From(0, 9), [i \in 1..9 |-> IF i = 9 THEN 8 ELSE 1]), {9})
SportsHero ==
    LET ids == <<7, 14, 3, 10, 17, 6, 13, 2, 9, 16, 5, 12, 1, 8, 15, 4, 11, 0>>
    IN  BadAt(Row(250, ids, [i \in 1..18 |-> IF i = 1 THEN 0 ELSE 1]), {1, 9})
Mirage == Row(250, From(1, 6), <<3, 3, 3, 3, 3, 2>>)
Prophet == DeletedAt(Row(250, From(0, 6), <<3, 3, 3, 3, 3, 1>>), {4, 5})
Lemmings == Row(250, From(1, 6), <<2, 3, 3, 3, 3, 3>>)
PuffysSaga == Row(250, From(65, 4), <<2, 3, 4, 4>>)
Small250 == Alike(250, From(1, 32), 0)
Hp == Row(250, From(0, 18), [i \in 1..18 |-> IF i = 18 THEN 0 ELSE 1])

\* 1 Mbps examples and size tests
Ed == Alike(1000, From(1, 36), 2)
Siemens == Alike(1000, From(0, 20), 3)
Sizes500 == {Alike(500, From(1, 7 - size), size) : size \in 0..6}
SizesFm500 == {InFm(Alike(500, From(1, 6 - size), size)) : size \in 0..5}
Sizes250 == {Alike(250, From(1, 6 - size), size) : size \in 0..5}
SizesFm250 == {InFm(Alike(250, From(1, 5 - size), size)) : size \in 0..4}

BuiltInTracks ==
    {Finished(t) : t \in
        {MissingData500, DataErrors500, Small500, BbcFm, ArcticFox, Robocop, CpcSpeedlock, RainbowArts, Kbi10, Kbi10Alt,
         MissingData250, IdErrors250, DataErrors250, JimPower, GapData, LeNecromancien, DefendersOfTheEarth, WorldGames,
         Sp6, Tomahawk, Sector8K, LogoProfessor, EddTheDuck, KbiTwice, Cal2Boot, Prehistoric2, Tetris,
         TerreEtConquerants, Nineteen, OperaSoft, SportsHero, Mirage, Prophet, Lemmings, PuffysSaga, Small250, Hp,
         Ed, Siemens} \cup Sizes500 \cup SizesFm500 \cup Sizes250 \cup SizesFm250}

(***************************************************************************)
(* Tracks of bits and flux: what is written, and the sectors it holds      *)
(***************************************************************************)

\* Sectors written one after the other by a builder, without a capacity to fit.
Laid(track, gap3) ==
    [sectors |-> track,
     parts |-> <<AddTrackStart(track[1].enc, FALSE)>> \o [i \in DOMAIN track |-> AddSector(track[i], gap3, FALSE)]]

InAmiga(track) == [i \in DOMAIN track |-> [track[i] EXCEPT !.enc = "Amiga"]]
Of(track, parts) == [sectors |-> Finished(track), parts |-> parts]

Bits500 == Laid(Finished(Alike(500, From(1, 18), 2)), 84)
Bits250 == Laid(Finished(Alike(250, From(1, 9), 2)), 84)
Kbi19Bits == Of(Titan, KBI19Track(Finished(Titan)))
OperaBits ==
    LET t == Row(250, From(0, 9), [i \in 1..9 |-> IF i = 9 THEN 8 ELSE 1]) IN Of(t, OperaSoftTrack(Finished(t)))
BitsFm250 == Laid(Finished(InFm(Alike(250, From(1, 8), 1))), 78)
Amiga500 == Laid(Finished(InAmiga(Alike(500, From(0, 22), 2))), 0)
Amiga250 == Laid(Finished(InAmiga(Alike(250, From(0, 11), 2))), 0)
Rx02 == Laid([i \in 1..26 |-> [Given(SectorAt(250, i, 0), 256, FALSE) EXCEPT !.enc = "RX02"]], 56)
TitusBits == Of(TitusTheFox, PrehistorikTrack(Finished(TitusTheFox)))
PrehistoricBits == Of(Prehistoric, PrehistorikTrack(Finished(Prehistoric)))

BuiltInBits ==
    {Bits500, Bits250, Kbi19Bits, OperaBits, BitsFm250, Amiga500, Amiga250, Rx02, TitusBits, PrehistoricBits}

Flux500 == Laid(Finished(Alike(500, From(1, 18), 2)), 84)
Flux250 == Laid(Finished(Alike(250, From(1, 9), 2)), 84)
SpeedlockFlux ==
    LET t == [DeletedAt(Alike(250, From(1, 9), 2), 3..8) EXCEPT ![1] = Telling(@, "SPEEDLOCK at 304"), ![2] = Bad(@)]
    IN  Of(t, SpectrumSpeedlockTrack(Finished(t)))
CpcFlux ==
    LET t == [Alike(250, From(64, 9), 2) EXCEPT ![1] = Telling(@, "SPEEDLOCK at 257"), ![8] = Bad(@)]
    IN  Of(t, CpcSpeedlockTrack(Finished(t)))
RainbowFlux ==
    LET t == [Alike(250, <<193, 198, 194, 109, 195, 200, 196, 201, 197>>, 2) EXCEPT
                ![2] = Bad(@), ![4] = Telling(@, "code at 0")]
    IN  Of(t, RainbowArtsTrack(Finished(t)))
KbiFlux ==
    LET t == [Row(250, <<193, 198, 194, 199, 195, 200, 196, 201, 197, 202>>, KbiSizes) EXCEPT
                ![10] = [Bad(@) EXCEPT !.data.says = {"Kxx"}]]
    IN  Of(t, KBIWeakSectorTrack(Finished(t)))
LogoFlux == Of(LogoProfessor, LogoProfTrack(Finished(LogoProfessor)))
System24Flux ==
    LET t == Row(500, From(1, 7), <<4, 4, 4, 4, 4, 3, 1>>) IN Of(t, System24Track(Finished(t)))
Flux8K == Of(Sector8K, EightKSectorTrack(Finished(Sector8K)))
FluxFm250 == Laid(Finished(InFm(Alike(250, From(1, 8), 1))), 78)

BuiltInFlux ==
    {Flux500, Flux250, SpeedlockFlux, CpcFlux, RainbowFlux, KbiFlux, LogoFlux, System24Flux, Flux8K, FluxFm250}
=============================================================================
