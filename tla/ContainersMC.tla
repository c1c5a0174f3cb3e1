---------------------------- MODULE ContainersMC ----------------------------
EXTENDS TrackImages
(***************************************************************************)
(* The disks that are saved and the files that are read by the run of the  *)
(* images: one list per type of image, each with the cases its limits,     *)
(* flags and refusals tell apart.                                          *)
(***************************************************************************)

\* Sectors of media, their contents told apart by number and copy.
Contents(id, i) == ToString(id) \o "." \o ToString(i)
GoodOf(id, size) == WithData(SectorNamed(<<0, 0, id>>, size), Contents(id, 0), Natural(size))
BadOf(id, size, len, n) ==
    [SectorNamed(<<0, 0, id>>, size) EXCEPT
        !.bad = TRUE, !.copies = [i \in 1..n |-> CopyOf(Contents(id, i), len, i)]]
Rated(s, rate, enc) == [s EXCEPT !.rate = rate, !.enc = enc]
TrackWith(sectors) == TrackOf(100000, [i \in DOMAIN sectors |-> [sectors[i] EXCEPT !.offset = 16 * i]])
GoodTrack(n, size) == TrackWith([i \in 1..n |-> GoodOf(i, size)])
DiskWith(cyls, heads, tracks) == [kind |-> "sectors", cyls |-> cyls, heads |-> heads, tracks |-> tracks]
One(t) == DiskWith(1, 1, <<t>>)

Flags == TrackWith(<<GoodOf(1, 2), BadHeader(GoodOf(2, 2)), WithoutData(GoodOf(3, 2)),
    WithDam(GoodOf(4, 2), "deleted"), WithDam(GoodOf(5, 2), "other"), BadOf(6, 2, 512, 1), BadOf(7, 2, 512, 3),
    BadOf(8, 2, 600, 1), BadOf(9, 2, 1024, 1), BadOf(10, 2, 100, 1), BadOf(11, 2, 600, 2)>>)
WithData1 == TrackWith(<<GoodOf(1, 2), WithDam(GoodOf(4, 2), "deleted"), BadOf(6, 2, 512, 1),
    BadOf(7, 2, 512, 3), Rated(GoodOf(8, 1), "250K", "MFM")>>)
Exact == TrackWith([i \in 1..13 |-> BadOf(i, 2, 512, IF i = 13 THEN 7 ELSE 10)])
Over == TrackWith([i \in 1..13 |-> BadOf(i, 2, 512, 10)])
Long == TrackWith([i \in 1..15 |-> BadOf(i, 2, 6000, 1)])
TooMuch == TrackWith([i \in 1..9 |-> BadOf(i, 6, 8192, 2)])

MCDisks ==
    {One(Flags), One(WithData1), One(Exact), One(Over), One(Long), One(TooMuch),
     One(TrackWith(<<BadOf(1, 6, 8192, 8)>>)), One(TrackWith(<<BadOf(1, 6, 6200, 2)>>)),
     One(TrackWith(<<GoodOf(1, 6)>>)), One(TrackOf(100000, <<[GoodOf(1, 2) EXCEPT !.offset = 5],
         [GoodOf(2, 2) EXCEPT !.offset = 4999]>>)),
     One(TrackWith(<<GoodOf(1, 2), BadOf(2, 8, 20000, 1)>>)),
     One(TrackWith(<<Rated(GoodOf(1, 2), "300K", "FM"), Rated(GoodOf(2, 2), "300K", "FM")>>)),
     One(TrackWith(<<Rated(GoodOf(1, 2), "250K", "MFM"), Rated(GoodOf(2, 2), "250K", "FM")>>)),
     DiskWith(2, 1, <<Blank, GoodTrack(2, 2)>>), DiskWith(1, 2, <<GoodTrack(2, 2), WithData1>>),
     DiskWith(43, 1, [i \in 1..43 |-> IF i = 1 THEN TrackWith(<<Rated(GoodOf(1, 3), "500K", "MFM")>>) ELSE Blank]),
     DiskWith(84, 1, [i \in 1..84 |-> IF i % 40 = 0 THEN GoodTrack(1, 2) ELSE Blank])}

Way(paranoia, readstats, legacy, copies, fix) ==
    [paranoia |-> paranoia, readstats |-> readstats, legacy |-> legacy, maxcopies |-> copies, fix |-> fix]
MCWays == {Way(FALSE, FALSE, FALSE, 10, FALSE), Way(TRUE, TRUE, FALSE, 10, FALSE),
           Way(FALSE, TRUE, FALSE, 10, FALSE), Way(FALSE, FALSE, TRUE, 10, FALSE)}
MCReadWays == MCWays \cup {Way(FALSE, FALSE, FALSE, 10, FALSE), Way(TRUE, TRUE, FALSE, 10, TRUE), Way(FALSE, TRUE, FALSE, 2, TRUE)}

(***************************************************************************)
(* Bits and flux to be saved.                                              *)
(***************************************************************************)
BitSide(rate, len, data) == [rate |-> rate, len |-> len, data |-> data]
Flux(revs) == [kind |-> "flux", cyls |-> Len(revs), heads |-> 1,
               tracks |-> [i \in DOMAIN revs |-> Loaded(<<i - 1, 0>>, << revs[i] >>)]]

MCOtherDisks ==
    {[kind |-> "bits", cyls |-> 2, heads |-> 2, tracks |->
         <<BitSide("250K", 6250, "a"), BitSide("250K", 6200, "b"), BitSide("250K", 6000, "c"),
           BitSide("250K", 6300, "d")>>],
     [kind |-> "bits", cyls |-> 1, heads |-> 1, tracks |-> <<BitSide("500K", 12500, "a")>>],
     Flux(<< <<4, 6, 8, 4>>, <<7, 5, 9>> >>), Flux(<< <<5, 5, 10>> >>)}

(***************************************************************************)
(* Images of other programs.                                               *)
(***************************************************************************)
MediumOf(cyls, heads, tracks) ==
    [kind |-> "medium", cyls |-> cyls, heads |-> heads, tracks |-> tracks, fixed |-> tracks,
     whole |-> TRUE]
Broken(f, part) == [f EXCEPT !.file = part, !.medium.whole = FALSE]
File(type, f, medium) == [type |-> type, file |-> f, medium |-> medium]

Ats(n, heads) == [i \in 1..n |-> <<(i - 1) \div heads, (i - 1) % heads>>]

\* Two tracks of a medium whose sectors are addressed by their track.
Addr(s, at) == [s EXCEPT !.id = <<at[1], at[2], s.id[3]>>]
Mixture(at) == << Addr(GoodOf(1, 2), at), Addr(WithDam(GoodOf(2, 2), "deleted"), at),
                  Addr([GoodOf(3, 1) EXCEPT !.bad = TRUE], at) >>
Mixtures(at) == Mixture(at) \o << Addr(WithoutData(GoodOf(4, 2)), at) >>
TwoSides(sectors(_)) == MediumOf(1, 2, <<TrackOf(0, sectors(<<0, 0>>)), TrackOf(0, sectors(<<0, 1>>))>>)

\* Of the sectors of a track the entries of its list, by what one is for a sector.
Listed(m, entry(_)) ==
    [i \in DOMAIN m.tracks |->
        [at |-> <<(i - 1) \div m.heads, (i - 1) % m.heads>>, whole |-> TRUE, enc |-> "MFM", mode |-> 5,
         list |-> [k \in DOMAIN m.tracks[i].sectors |-> entry(m.tracks[i].sectors[k])]]]

\* DSK
DskEntry(s) ==
    [id |-> s.id, size |-> s.size, st1 |-> s.badId \/ s.bad, missing |-> ~s.badId /\ s.copies = << >>,
     st2 |-> s.bad, deleted |-> s.dam = "deleted", len |-> Total(s.copies)]
DskBlock(t, rate) ==
    LET pieces == LaidOut(FlattenSeq([k \in DOMAIN t.sectors |->
            [c \in DOMAIN t.sectors[k].copies |->
                [mark |-> FALSE] @@ Piece(t.sectors[k].copies[c].data, t.sectors[k].copies[c].len)]]))
    IN  [info |-> TRUE, rate |-> rate, enc |-> 0, misplaced |-> 0, gap3 |-> 78, size |-> 2, short |-> FALSE,
         list |-> [k \in DOMAIN t.sectors |-> DskEntry(t.sectors[k])], area |-> pieces,
         bytes |-> RoundedUp(ListBytes(Len(t.sectors)) + Total(pieces))]
DskOf(sig, m) ==
    LET blocks == [i \in DOMAIN m.tracks |-> DskBlock(m.tracks[i], 1)]
    IN  [sig |-> sig, creator |-> "other", cyls |-> m.cyls, heads |-> m.heads, fixed |-> blocks[1].bytes,
         index |-> [i \in DOMAIN blocks |-> IF m.tracks[i] = Blank THEN 0 ELSE blocks[i].bytes],
         blocks |-> SelectSeq(blocks, LAMBDA b : b.list # << >>), offsets |-> << >>, stats |-> << >>]

NineSectors == TrackOf(0, [i \in 1..9 |-> GoodOf(i, 2)])
Dsk1 == MediumOf(2, 1, <<NineSectors, NineSectors>>)
Gappy == MediumOf(3, 1, <<NineSectors, Blank, TrackOf(0, Mixtures(<<0, 0>>))>>)
Late == MediumOf(41, 1, [i \in 1..41 |-> IF i \in {1, 2} THEN NineSectors ELSE Blank])

Fast(t) == [t EXCEPT !.sectors = [i \in DOMAIN @ |-> [@[i] EXCEPT !.rate = "500K"]]]
FirstReads(t) == [t EXCEPT !.sectors =
    [i \in DOMAIN @ |-> [@[i] EXCEPT !.copies = [c \in DOMAIN @ |-> [@[c] EXCEPT !.reads = 1]]]]]
Huge == MediumOf(2, 1, <<FirstReads(TrackOf(0, [i \in 1..9 |-> BadOf(i, 7, 16384, 1)])), NineSectors>>)
Thrice == MediumOf(1, 1, <<FirstReads(TrackOf(0, <<BadOf(1, 8, 16384, 3)>>))>>)
Excess == [MediumOf(1, 1, <<TrackOf(0, <<WithData(GoodOf(1, 2), "1.0", 1024), GoodOf(2, 2)>>)>>)
              EXCEPT !.fixed = <<TrackOf(0, <<GoodOf(1, 2), GoodOf(2, 2)>>)>>]
Short == MediumOf(2, 1, <<NineSectors, Blank>>)

DskFilesFound ==
    LET huge == DskOf("EDSK", Huge)
        plain == DskOf("DSK", Dsk1)
        extended == DskOf("EDSK", Dsk1)
        gappy == DskOf("EDSK", Gappy)
        late == DskOf("EDSK", Late)
    IN  {File("dsk", plain, Dsk1), File("dsk", extended, Dsk1), File("rdsk", extended, Dsk1),
         File("dsk", gappy, Gappy),
         File("dsk", [late EXCEPT !.index = [i \in 1..41 |-> IF i \in {1, 2, 41} THEN late.index[1] ELSE 0]],
              Late),
         Broken(File("dsk", extended, Dsk1), [extended EXCEPT !.blocks = SubSeq(@, 1, 1)]),
         File("dsk", [extended EXCEPT !.blocks[1].rate = 0, !.blocks[1].misplaced = 1], Dsk1),
         Broken(File("dsk", plain, Dsk1), [plain EXCEPT !.heads = 3]),
         Broken(File("dsk", plain, Dsk1), [plain EXCEPT !.sig = "RDSK"]),
         File("dsk", [extended EXCEPT !.blocks = [b \in DOMAIN @ |-> [@[b] EXCEPT !.rate = 0, !.misplaced = 2]]],
              [Dsk1 EXCEPT !.tracks = <<Fast(NineSectors), Fast(NineSectors)>>, !.fixed = <<Fast(NineSectors), Fast(NineSectors)>>]),
         File("dsk", [huge EXCEPT !.index[1] = @ % 65536], Huge),
         File("dsk", DskOf("EDSK", Thrice), Thrice),
         File("dsk", [DskOf("EDSK", Excess) EXCEPT !.creator = "CPD"], Excess),
         File("dsk", [DskOf("EDSK", Short) EXCEPT !.index[2] = 256, !.blocks = Append(@,
                  [@[1] EXCEPT !.list = << >>, !.area = << >>, !.short = TRUE, !.bytes = 24])], Short)}

\* D88 with the other order of bytes in the counts.
D88Found ==
    LET d == DiskWith(1, 2, <<GoodTrack(2, 2), GoodTrack(3, 1)>>)
        f == WriteD88(Addressed(d), 1, 2, "d88", "zeros").file
        swapped(p) == IF p.head = << >> THEN p
                      ELSE [p EXCEPT !.head[1].low = 0, !.head[1].high = p.head[1].low]
        m == MediumOf(1, 2, d.tracks)
    IN  {File("d88", [f EXCEPT !.pieces = [i \in DOMAIN @ |-> swapped(@[i])]], m),
         Broken(File("d88", f, m), [f EXCEPT !.pieces = SubSeq(@, 1, 6)])}

\* TD0
Td0Entry(s) ==
    [id |-> s.id, size |-> s.size, data |-> IF s.copies = << >> THEN "none" ELSE s.copies[1].data,
     flags |-> (IF s.copies = << >> THEN {"none"} ELSE {}) \cup (IF s.bad THEN {"bad"} ELSE {})
               \cup (IF s.dam = "deleted" THEN {"deleted"} ELSE {}),
     blocks |-> IF s.size = 2 THEN << [kind |-> "copy", count |-> 100, unit |-> 1],
                                      [kind |-> "repeat", count |-> 206, unit |-> 2] >>
                ELSE << [kind |-> "repeat", count |-> DataLen(s) \div 2, unit |-> 2] >>]
Td0Of(m) == [whole |-> TRUE, volume |-> 0, ended |-> TRUE, density |-> 0, tracks |-> Listed(m, Td0Entry)]
Td0Found ==
    LET m == TwoSides(Mixtures)
        f == Td0Of(m)
        fifteen == [i \in 1..15 |-> GoodOf(1 + ((i - 1) % 8), 2)]
        r == [MediumOf(1, 1, <<TrackOf(0, fifteen)>>) EXCEPT
                 !.fixed = <<TrackOf(0, SubSeq(fifteen, 1, 8))>>]
    IN  {File("td0", f, m), File("td0", Td0Of(r), r), Broken(File("td0", f, m), [f EXCEPT !.volume = 1]),
         Broken(File("td0", f, m), [f EXCEPT !.tracks[1].list[1].blocks[2].count = 207]),
         Broken(File("td0", f, m), [f EXCEPT !.tracks[1].list[1].blocks[2].count = 205]),
         Broken(File("td0", f, m), [f EXCEPT !.whole = FALSE]),
         File("td0", [f EXCEPT !.tracks[2].list[1].flags = {"filler"}],
              [m EXCEPT !.tracks[2].sectors[1].copies[1].data = "e5",
                        !.fixed[2].sectors[1].copies[1].data = "e5"])}

\* IMD
ImdEntry(s) ==
    [type |-> IF s.copies = << >> THEN 0
              ELSE 1 + (IF s.id[3] = 1 THEN 1 ELSE 0) + (IF s.dam = "deleted" THEN 2 ELSE 0)
                     + (IF s.bad THEN 4 ELSE 0),
     sector |-> s.id[3], size |-> s.size, map |-> IF s.id[1] = 0 THEN << >> ELSE <<s.id[1], s.id[2]>>,
     data |-> IF s.copies = << >> THEN "none" ELSE s.copies[1].data]
ImdFound ==
    LET m == TwoSides(Mixtures)
        other == MediumOf(1, 1, <<TrackOf(0, Mixtures(<<7, 1>>))>>)
        f == [commented |-> TRUE, tracks |-> Listed(m, ImdEntry)]
    IN  {File("imd", f, m), File("imd", [f EXCEPT !.tracks = Listed(other, ImdEntry)], other),
         Broken(File("imd", f, m), [f EXCEPT !.tracks[1].list[1].type = 9]),
         Broken(File("imd", f, m), [f EXCEPT !.tracks[2].whole = FALSE]),
         Broken(File("imd", f, m), [f EXCEPT !.commented = FALSE])}

\* FDI: of a sector with a large size code the bytes of a smaller size are kept,
\* with the checksum that is good for them.
FdiEntry(s) ==
    [id |-> s.id, size |-> s.size, none |-> FALSE, deleted |-> s.dam = "deleted", data |-> s.copies[1].data,
     goodSizes |-> IF s.bad /\ s.size <= 3 THEN {} ELSE {s.size % 4}]
FdiFound ==
    LET m == TwoSides(Mixture)
        f == [short |-> FALSE, tracks |-> Listed(m, FdiEntry)]
        odd == [GoodOf(1, 2) EXCEPT !.size = 6, !.bad = TRUE, !.copies[1].len = 514]
        o == MediumOf(1, 1, <<TrackOf(0, <<odd>>)>>)
    IN  {File("fdi", f, m), File("fdi", [f EXCEPT !.tracks = Listed(o, FdiEntry)], o),
         Broken(File("fdi", f, m), [f EXCEPT !.short = TRUE])}

\* SDF and DSC
SdfEntry(s) ==
    [id |-> s.id, size |-> s.size, badId |-> s.badId, none |-> s.copies = << >>, bad |-> s.bad,
     deleted |-> s.dam = "deleted", data |-> IF s.copies = << >> THEN "none" ELSE s.copies[1].data]
DscEntry(s) == [id |-> s.id, size |-> s.size, filler |-> s.copies[1].data = "filler"]
Filled(at) == << Addr(GoodOf(1, 2), at), Addr(WithData(GoodOf(2, 2), "filler", 512), at), Addr(GoodOf(3, 1), at) >>
SdfFound ==
    LET m == TwoSides(Mixtures)
        f == [cyls |-> 80, tracks |-> Listed(m, SdfEntry)]
        d == TwoSides(Filled)
        kept == SelectSeq(FlattenSeq([i \in DOMAIN d.tracks |-> d.tracks[i].sectors]),
                          LAMBDA s : s.copies[1].data # "filler")
        h == [ext |-> "hdr", companion |-> TRUE, tracks |-> Listed(d, DscEntry),
              pieces |-> LaidOut([k \in DOMAIN kept |-> Piece(kept[k].copies[1].data, DataLen(kept[k]))])]
    IN  {File("sdf", f, m), Broken(File("sdf", f, m), [f EXCEPT !.cyls = 79]), File("dsc", h, d),
         Broken(File("dsc", h, d), [h EXCEPT !.companion = FALSE]),
         Broken(File("dsc", h, d), [h EXCEPT !.pieces = SubSeq(@, 1, 3)])}

\* CQM and PDI
PdiPacked == << 5, 7, 7, 7, 2, 1, 3, 3, 3, 0, 8, 0, 69, 78, 68, 0 >>
PackedFound ==
    LET q == [summed |-> TRUE, whole |-> TRUE, unit |-> 4608, used |-> 2, cyls |-> 3, heads |-> 2,
              blocks |-> [i \in 1..3 |-> [len |-> 9216]]]
        m == MediumOf(3, 2, [i \in 1..6 |-> IF i <= 4 THEN "data" ELSE "fill"])
        p == [version |-> 1, headed |-> TRUE, bytes |-> PdiPacked]
        n == MediumOf(1, 1, << 5, 7, 7, 7, 7, 7, 1, 3, 3, 3, 8 >>)
    IN  {File("cqm", q, m), Broken(File("cqm", q, m), [q EXCEPT !.blocks = SubSeq(@, 1, 1)]),
         File("pdi", p, n), Broken(File("pdi", p, n), [p EXCEPT !.bytes = SubSeq(@, 1, 4)]),
         Broken(File("pdi", p, n), [p EXCEPT !.version = 2])}

\* DMK and UDI: the marks of a track, of which those that are not at their place
\* belong to the data.
MarkAt(kind, pos, enc) == [kind |-> kind, pos |-> pos, enc |-> enc]
ByteFound ==
    LET t == [enc |-> "MFM", bytes |-> << MarkAt("index", 80, "MFM"), MarkAt("header", 150, "MFM"),
                 MarkAt("data", 155, "MFM"), MarkAt("data", 194, "MFM"), MarkAt("data", 200, "MFM"),
                 MarkAt("index", 300, "MFM"), MarkAt("header", 800, "MFM"), MarkAt("data", 870, "MFM"), MarkAt("index", 900, "MFM") >>]
        u == [enc |-> "FM", bytes |-> << MarkAt("header", 100, "FM"), MarkAt("data", 110, "FM"),
                 MarkAt("data", 130, "FM"), MarkAt("data", 190, "FM") >>]
        f == [real |-> FALSE, mixed |-> FALSE, cyls |-> 1, len |-> 6400, exact |-> TRUE, ext |-> "dmk",
              single |-> FALSE, tracks |-> <<t, u>>]
        m == MediumOf(1, 2, << <<80, 150, 194, 800>>, <<100, 130>> >>)
        v == [packed |-> FALSE, old |-> FALSE, tracks |-> <<
                [format |-> 0, len |-> 6250, bytes |-> << [clock |-> TRUE, byte |-> "A1"],
                    [clock |-> FALSE, byte |-> "A1"], [clock |-> TRUE, byte |-> "4E"] >>],
                [format |-> 1, len |-> 3125, bytes |-> << [clock |-> TRUE, byte |-> "FE"] >>] >>]
        n == MediumOf(1, 2, << [rate |-> "250K", bytes |-> <<"mark", "data", "data">>],
                             [rate |-> "250K", bytes |-> <<"mark">>] >>)
    IN  {File("dmk", f, m), Broken(File("dmk", f, m), [f EXCEPT !.real = TRUE]),
         Broken(File("dmk", f, m), [f EXCEPT !.len = 16384]),
         File("udi", v, n), Broken(File("udi", v, n), [v EXCEPT !.tracks[1].format = 2])}

\* Flux in the words of its formats.
Times == << <<40, 60, 300, 80>>, <<41, 60, 299, 80>> >>

RECURSIVE ScpWords(_)
ScpWords(ticks) == IF ticks > 65536 THEN <<0>> \o ScpWords(ticks - 65536) ELSE <<ticks>>

ScpFound ==
    LET revs == << <<4000, 6000, 70000, 8000>>, <<4001, 6000, 141072, 8000>> >>
        words == [r \in 1..2 |-> FlattenSeq([k \in 1..4 |-> ScpWords(revs[r][k])])]
        entry(n) == << [number |-> n, words |-> words] >>
        f(table, heads) == [heads |-> heads, extended |-> FALSE, revolutions |-> 2, table |-> table]
        ns == [r \in 1..2 |-> [k \in 1..4 |-> revs[r][k] * 25]]
        m == MediumOf(1, 2, <<ns, ns>>)
        both == f(<<entry(0), entry(1)>>, 0)
    IN  {File("scp", both, m), File("scp", f(<<entry(0), << >>, entry(2)>>, 1), m),
         Broken(File("scp", both, m), [both EXCEPT !.table[2][1].number = 0]),
         Broken(File("scp", both, m), [both EXCEPT !.revolutions = 0])}

FluxCode(value) == [kind |-> "flux", bytes |-> 1, value |-> value]
Index(pos) == [kind |-> "index", bytes |-> 0, value |-> pos]
StreamFound ==
    LET codes == << FluxCode(9), Index(1), FluxCode(40), [kind |-> "carry", bytes |-> 1, value |-> 0],
                    FluxCode(60), [kind |-> "nop", bytes |-> 2, value |-> 0], FluxCode(80), Index(7),
                    FluxCode(41), FluxCode(61), Index(9), [kind |-> "end", bytes |-> 0, value |-> 0],
                    FluxCode(1) >>
        f == [numbered |-> TRUE, outOfBand |-> TRUE, tracks |-> << [at |-> <<0, 0>>, codes |-> codes] >>]
        early == [f EXCEPT !.tracks[1].codes = << Index(0) >> \o SubSeq(codes, 1, 8)]
        e == MediumOf(1, 1, << Loaded(<<0, 0>>, << <<40, 65596, 80>> >>) >>)
        m == MediumOf(1, 1, << Loaded(<<0, 0>>, << <<40, 65596, 80>>, <<41, 61>> >>) >>)
    IN  {File("stream", f, m), File("stream", early, e), Broken(File("stream", f, m), [f EXCEPT !.outOfBand = FALSE])}

DfiFound ==
    LET bytes == <<127, 127, 127, 20, 60, 128, 127, 127, 127, 19, 60, 128>>
        f == [old |-> FALSE, hard |-> FALSE, short |-> FALSE, tracks |-> << Loaded(<<0, 0>>, <<bytes>>) >>]
        m == MediumOf(1, 1, << << <<401 * 40, 60 * 40>>, <<400 * 40, 60 * 40>> >> >>)
    IN  {File("dfi", f, m), Broken(File("dfi", f, m), [f EXCEPT !.hard = TRUE]),
         Broken(File("dfi", f, m), [f EXCEPT !.tracks[1].revs[1] = <<20, 128>>])}

A2rFound ==
    LET c(location, type, data) ==
            [location |-> location, type |-> type, loop |-> 300, header |-> [i \in 1..10 |-> 1], data |-> data]
        data == [i \in 1..16 |-> 20 + i]
        f == [whole |-> TRUE, captures |-> <<c(0, 2, data), c(0, 1, data), c(0, 3, <<9>>), c(2, 1, data)>>]
        m == MediumOf(1, 1, << << [i \in 1..16 |-> 125 * (20 + i)] >> >>)
    IN  {File("a2r", f, m), Broken(File("a2r", f, m), [f EXCEPT !.whole = FALSE])}

WozFound ==
    LET f == [whole |-> TRUE, small |-> TRUE,
              map |-> <<0, 0, 255, 1, 1, 1, 255, 2, 2, 2>>,
              stored |-> [k \in 1..3 |-> [consistent |-> TRUE, data |-> ToString(k - 1)]]]
        m == MediumOf(3, 1, [k \in 1..3 |-> [at |-> <<k - 1, 0>>, data |-> ToString(k - 1)]])
    IN  {File("woz", f, m), Broken(File("woz", f, m), [f EXCEPT !.stored[2].consistent = FALSE])}

CwFound ==
    LET t(number, bytes) == [number |-> number, plain |-> TRUE, clock |-> 0, indexed |-> TRUE,
                             aligned |-> TRUE, bytes |-> bytes]
        f == [raw |-> TRUE, version |-> 3,
              tracks |-> <<t(0, <<50, 60>>), t(1, <<40, 50, 189, 190, 50, 188>>), t(0, <<50, 70>>)>>]
        ns(ticks) == [k \in DOMAIN ticks |-> (ticks[k] * 141232) \div 1000]
        m == MediumOf(2, 1, << Loaded(<<1, 0>>, << ns(<<40, 50>>), ns(<<61, 62, 50>>), ns(<<60>>) >>),
                             Loaded(<<0, 0>>, << ns(<<50, 70>>) >>) >>)
    IN  {File("cwtool", f, m), Broken(File("cwtool", f, m), [f EXCEPT !.version = 2])}

IpfFound ==
    LET rev(kind, data) == [kind |-> kind, data |-> data]
        t(at, weak, revs) == [at |-> at, weak |-> weak, revs |-> revs]
        f == [library |-> TRUE, locked |-> TRUE, cyls |-> 2, raw |-> FALSE, tracks |->
                <<t(<<0, 0>>, TRUE, <<rev("bits", "a"), rev("bits", "b"), rev("bits", "c")>>),
                  t(<<0, 1>>, FALSE, <<rev("noise", "x")>>),
                  t(<<1, 0>>, FALSE, <<rev("bits", "d"), rev("bits", "d")>>),
                  t(<<1, 1>>, FALSE, <<rev("bits", "e"), rev("fails", "x")>>)>>]
        m == MediumOf(2, 2, <<Loaded(<<0, 0>>, <<"a", "b">>), Loaded(<<0, 1>>, << >>),
                            Loaded(<<1, 0>>, <<"d">>), Loaded(<<1, 1>>, <<"e">>)>>)
        other == [f EXCEPT !.tracks[4].revs[1].kind = "noise"]
        n == [m EXCEPT !.tracks[4].revs = << >>, !.fixed = <<m.tracks[1], m.tracks[3]>>]
    IN  {File("ipf", other, n), File("ipf", f, m), Broken(File("ipf", f, m), [f EXCEPT !.library = FALSE])}

MCForeign ==
    UNION {DskFilesFound, D88Found, Td0Found, ImdFound, FdiFound, SdfFound, PackedFound, ByteFound, ScpFound,
           StreamFound, DfiFound, A2rFound, WozFound, CwFound, IpfFound}
MCAllDisks == MCDisks \cup MCOtherDisks
=============================================================================
