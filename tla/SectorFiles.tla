---------------------------- MODULE SectorFiles ----------------------------
(***************************************************************************)
(* Images that keep the sectors of a track with their flags: D88 and 1DD   *)
(* (read and written), TD0, IMD, FDI, SDF and DSC (src/src/types/*.cpp),   *)
(* the packed regular images CQM and PDI, and the images of the bytes of a *)
(* track, DMK and UDI, which become bits with address marks.               *)
(*                                                                         *)
(* Tracks are read at their addresses: [at |-> <<cyl, head>>, track].      *)
(***************************************************************************)
EXTENDS StoredTracks

Gives(tracks) == [said |-> "yes", tracks |-> tracks]

Located(at, sectors) == [at |-> at, track |-> TrackOf(0, sectors)]

\* A sector of the given rate with what its flags say of its data.
Flagged(e, rate, enc, badId, missing, data, len, bad, deleted) ==
    LET s == [SectorNamed(e.id, e.size) EXCEPT !.rate = rate, !.enc = enc, !.badId = badId]
        full == IF bad THEN WithBad(s, data, len) ELSE WithData(s, data, len)
    IN  IF badId \/ missing THEN s ELSE WithDam(full, IF deleted THEN "deleted" ELSE "normal")

-----------------------------------------------------------------------------
(* D88: every sector has a header that says how many bytes of data follow  *)
(* it and how many sectors the track has.                                  *)

D88Cyls == 82
D88TableStart == 32
D88DataStart == D88TableStart + 4 * 2 * D88Cyls
D88HeaderBytes == 16

\* A piece of a D88 is a header or data.
D88Head(e) == [head |-> <<e>>, data |-> "header", len |-> D88HeaderBytes]
\* Header and data of one sector. What is read for the data of a sector without
\* any is undefined: some stale memory.
D88Sector(s, n, stale) ==
    LET D88Status ==
            CASE s.badId -> "no id"
              [] ~s.badId /\ s.copies = << >> -> "no data"
              [] s.copies # << >> /\ s.bad -> "bad"
              [] OTHER -> IF s.dam = "deleted" THEN "deleted" ELSE "good"
        D88Data(data, len) == [head |-> << >>, data |-> data, len |-> len]
        len == IF s.size >= 8 THEN 256 ELSE SizeOf(s)
    IN  << D88Head([id |-> s.id, size |-> s.size, fm |-> s.enc = "FM", low |-> n, high |-> 0,
                    deleted |-> s.dam = "deleted", len |-> len, status |-> D88Status]),
           D88Data(IF s.copies = << >> THEN stale ELSE s.copies[1].data, len) >>

D88Track(t, stale) ==
    FlattenSeq([i \in DOMAIN t.sectors |-> D88Sector(t.sectors[i], Len(t.sectors), stale)])

\* Double density turns into high density at the first sector of that rate; the
\* other types cannot.
D88TypeAfter(type, s) == IF type = "2DD" /\ s.rate = "500K" THEN "2HD" ELSE type

D88RateFits(type, s) ==
    IF type = "2HD" THEN s.rate = "500K" ELSE s.rate \in {"250K", "300K"}

\* WriteD88. Data of no bytes is an error when it is written.
WriteD88(tracks, cyls, heads, ext, stale) ==
    LET alone == ext = "1dd"
        kept == IF cyls > D88Cyls THEN D88Cyls ELSE cyls
        sides == IF alone THEN 1 ELSE 2
        first == IF alone THEN (IF kept <= 42 THEN "1D" ELSE "1DD")
                 ELSE IF kept <= 42 THEN "2D" ELSE "2DD"
        here == SelectSeq(tracks, LAMBDA t : t.at[1] < kept /\ t.track.sectors # << >>)
        sectors == FlattenSeq([i \in DOMAIN here |-> here[i].track.sectors])
        typed == FoldLeft(LAMBDA acc, s :
                     LET type == D88TypeAfter(acc.type, s)
                     IN  [type |-> type, fits |-> acc.fits /\ D88RateFits(type, s)],
                     [type |-> first, fits |-> TRUE], sectors)
        at(i) == D88DataStart +
                 Total(FlattenSeq([k \in 1 .. i - 1 |-> D88Track(here[k].track, stale)]))
        placed(i) == {k \in DOMAIN here : here[k].at[1] * sides + here[k].at[2] = i - 1}
        empty == \E i \in DOMAIN sectors : sectors[i].copies # << >> /\ DataLen(sectors[i]) = 0
    IN  IF (alone /\ heads = 2) \/ ~typed.fits \/ empty THEN Fails
        ELSE [said |-> "yes",
              file |-> [sig |-> "D88", ext |-> ext, type |-> typed.type, titled |-> TRUE,
                        exact |-> TRUE,
                        table |-> [i \in 1 .. 2 * D88Cyls |->
                                      IF placed(i) = {} THEN 0
                                      ELSE at(CHOOSE k \in placed(i) : TRUE)],
                        pieces |-> LaidOut(FlattenSeq([i \in DOMAIN here |-> D88Track(here[i].track, stale)]))]]

D88Size(f) == D88DataStart + Total(f.pieces)

\* The size says nothing of the data of a sector that is marked as having none,
\* and its data is not passed over.

D88HasData(e) == e.status \notin {"no id", "no data"}

\* The next sector of a track; zeros, and a header that counts none, end it.
D88Take(acc, e, count, f) ==
    LET sectors == Append(acc.sectors,
            Flagged(e, IF f.type = "2HD" THEN "500K" ELSE "250K", IF e.fm THEN "FM" ELSE "MFM",
                    e.status = "no id", e.status = "no data",
                    Taken(f.pieces, acc.pos + D88HeaderBytes - D88DataStart, e.len), e.len,
                    e.status = "bad", e.deleted \/ e.status = "deleted"))
    IN  [pos |-> acc.pos + D88HeaderBytes + IF D88HasData(e) THEN e.len ELSE 0,
         sectors |-> sectors, said |-> acc.said, done |-> Len(sectors) >= count]

D88Count(e) == IF e.low = 0 THEN e.high ELSE e.low

\* Data is read as a header, too, if it was not passed over: zeros count no
\* sectors, other bytes too many.
D88At(acc, head, data, f) ==
    CASE head = << >> -> [acc EXCEPT !.done = TRUE, !.said = IF data = "zeros" THEN @ ELSE "throws"]
      [] head # << >> /\ D88Count(head[1]) = 0 -> [acc EXCEPT !.done = TRUE]
      [] head # << >> /\ (\/ D88Count(head[1]) > 144
                          \/ D88HasData(head[1]) /\ head[1].len > Natural(head[1].size)) ->
            [acc EXCEPT !.said = "throws", !.done = TRUE]
      [] OTHER -> D88Take(acc, head[1], D88Count(head[1]), f)

D88Next(acc, f) ==
    CASE acc.done -> acc
      [] ~acc.done /\ acc.pos + D88HeaderBytes > D88Size(f) ->
            [acc EXCEPT !.said = "throws", !.done = TRUE]
      [] OTHER -> LET i == CHOOSE i \in DOMAIN f.pieces : D88DataStart + f.pieces[i].at = acc.pos
                  IN  D88At(acc, f.pieces[i].head, f.pieces[i].data, f)

D88ReadTrack(f, pos) ==
    FoldLeft(LAMBDA acc, i : D88Next(acc, f),
             [pos |-> pos, sectors |-> << >>, said |-> "yes", done |-> FALSE],
             [i \in 1 .. Len(f.pieces) |-> i])

D88Entry(acc, i, f, heads) ==
    LET \* One entry of the table: nothing there, or a track behind all before; else it
        \* is the end.
        D88Entered(got) ==
            [last |-> f.table[i], stop |-> got.said # "yes", said |-> got.said,
             tracks |-> Append(acc.tracks,
                               Located(<<(i - 1) \div heads, (i - 1) % heads>>, got.sectors))]
    IN  CASE acc.stop -> acc
          [] ~acc.stop /\ (f.table[i] <= acc.last \/ f.table[i] > D88Size(f)) ->
                [acc EXCEPT !.stop = TRUE]
          [] OTHER -> D88Entered(D88ReadTrack(f, f.table[i]))

D88Tracks(f, used, heads) ==
    LET \* Where the first track is tells how long the table is.
        D88CylsOf ==
            LET inTable == IF used = << >> THEN D88Cyls
                           ELSE ((f.table[used[1]] - D88TableStart) \div 8) % 256
            IN  IF inTable < D88Cyls THEN inTable ELSE D88Cyls
    IN  FoldLeft(LAMBDA acc, i : D88Entry(acc, i, f, heads),
                 [last |-> 0, stop |-> FALSE, said |-> "yes", tracks |-> << >>],
                 SelectSeq(used, LAMBDA i : i <= D88CylsOf * heads))

D88Result(read) == IF read.said # "yes" THEN Fails ELSE Gives(read.tracks)

ReadD88(f) ==
    IF f.type = "other" \/ ~f.titled \/ (~f.exact /\ f.ext \notin {"d88", "1dd"}) THEN Declines
    ELSE D88Result(D88Tracks(f,
            SelectSeq([i \in DOMAIN f.table |-> i], LAMBDA i : f.table[i] \notin {0, D88Size(f)}),
            IF f.type \in {"1D", "1DD"} THEN 1 ELSE 2))

-----------------------------------------------------------------------------
(* TD0                                                                     *)

\* UnpackData: how many bytes the blocks of a sector make, -1 when one does not
\* fit. Pairs and repeated fragments are tested against the end, copied bytes
\* are as many as there are.
Td0Bytes(blocks, size) ==
    FoldLeft(LAMBDA n, b :
                 CASE n = -1 -> -1
                   [] b.kind = "raw" -> n + size
                   [] b.kind = "copy" -> n + b.count
                   [] OTHER -> IF b.count = 0 \/ n + b.unit * b.count > size THEN -1
                               ELSE n + b.unit * b.count, 0, blocks)

Td0HasData(e) == "none" \notin e.flags /\ e.size < 8

\* The contents have their own checksum, so what was unpacked is whole.
Td0Whole(e) == "filler" \in e.flags \/ Td0Bytes(e.blocks, Natural(e.size)) = Natural(e.size)

Td0Sector(e, rate, enc) ==
    Flagged(e, rate, enc, FALSE, ~Td0HasData(e), IF "filler" \in e.flags THEN "e5" ELSE e.data,
            Natural(e.size), "bad" \in e.flags, "deleted" \in e.flags)

\* Of a track with more data than there is room for, repeated sectors go, the
\* last ones first, until each is there once.
WithoutRepeats(sectors) ==
    LET firsts == SelectSeq([i \in DOMAIN sectors |-> i], LAMBDA i :
                      \A k \in 1 .. i - 1 : sectors[k].id # sectors[i].id)
    IN  [n \in DOMAIN firsts |-> sectors[firsts[n]]]

Td0Track(t, rate, opt) ==
    LET kept == SelectSeq([i \in DOMAIN t.list |-> i], LAMBDA i :
                    ~(opt.fix /\ i = 1 /\ "no id" \in t.list[i].flags))
        sectors == [n \in DOMAIN kept |-> Td0Sector(t.list[kept[n]], rate, t.enc)]
        stored == FoldLeft(LAMBDA n, s : n + DataLen(s), 0, sectors)
    IN  Located(t.at, IF opt.fix /\ stored > Capacity(rate, t.enc) THEN WithoutRepeats(sectors)
                     ELSE sectors)

ReadTD0(f, opt) ==
    LET Td0Rate(density) == CASE density = 0 -> "250K" [] density = 1 -> "300K" [] OTHER -> "500K"
        whole == \A i \in DOMAIN f.tracks :
            /\ f.tracks[i].whole
            /\ \A k \in DOMAIN f.tracks[i].list :
                   LET e == f.tracks[i].list[k] IN Td0HasData(e) => Td0Whole(e)
    IN  CASE ~f.whole -> Declines
          [] f.whole /\ (f.volume # 0 \/ ~whole \/ ~f.ended) -> Fails
          [] OTHER -> Gives([i \in DOMAIN f.tracks |->
                                Td0Track(f.tracks[i], Td0Rate(f.density), opt)])

-----------------------------------------------------------------------------
(* IMD: a sector has a type of 0..8: nothing, or data that is one byte     *)
(* repeated, deleted, bad.                                                 *)

ImdMode(rate, enc) ==
    CASE rate = "500K" -> IF enc = "FM" THEN 0 ELSE 3
      [] rate = "300K" -> IF enc = "FM" THEN 1 ELSE 4
      [] rate = "250K" -> IF enc = "FM" THEN 2 ELSE 5
      [] OTHER -> IF enc = "FM" THEN 6 ELSE 7

ImdSector(e, mode, at) ==
    LET rate == CHOOSE r \in {"250K", "300K", "500K", "1M"} : \E c \in {"FM", "MFM"} :
                    ImdMode(r, c) = mode
        enc == CHOOSE c \in {"FM", "MFM"} : ImdMode(rate, c) = mode
        bits == e.type - 1
        id == << IF e.map = << >> THEN at[1] ELSE e.map[1],
                 IF e.map = << >> THEN at[2] ELSE e.map[2], e.sector >>
    IN  Flagged([id |-> id, size |-> e.size], rate, enc, FALSE, e.type = 0, e.data,
                Natural(e.size), (bits \div 4) % 2 = 1, (bits \div 2) % 2 = 1)

ReadIMD(f) ==
    CASE ~f.commented -> Declines
      [] f.commented /\ \E i \in DOMAIN f.tracks : \/ f.tracks[i].mode > 7
                                                   \/ ~f.tracks[i].whole
                                                   \/ \E k \in DOMAIN f.tracks[i].list :
                                                         f.tracks[i].list[k].type > 8 -> Fails
      [] OTHER -> Gives([i \in DOMAIN f.tracks |->
                      LET t == f.tracks[i]
                      IN  Located(t.at, [k \in DOMAIN t.list |-> ImdSector(t.list[k], t.mode, t.at)])])

-----------------------------------------------------------------------------
(* FDI: flags for the sizes with which the checksum is good. A sector      *)
(* without a data field is given what bytes there are, as bad data.        *)

ReadFDI(f) ==
    LET FdiSector(e) ==
            LET read == e.size % 4
                good == ~e.none /\ e.size \in e.goodSizes /\ e.size <= 3
                crc == ~e.none /\ e.size > 3 /\ read \in e.goodSizes
            IN  Flagged(e, "250K", "MFM", FALSE, FALSE, e.data,
                        IF crc THEN Natural(read) + 2 ELSE Natural(read), ~good, e.deleted)
    IN  IF f.short \/ \E i \in DOMAIN f.tracks : Len(f.tracks[i].list) > 144 THEN Fails
        ELSE Gives([i \in DOMAIN f.tracks |->
                      LET t == f.tracks[i]
                      IN  Located(t.at, [k \in DOMAIN t.list |-> FdiSector(t.list[k])])])

-----------------------------------------------------------------------------
(* SDF and DSC                                                             *)

\* Taken for its size if the first header is plausible.
ReadSDF(f) ==
    LET SdfSector(e) ==
            Flagged(e, "250K", "MFM", e.badId, e.none, e.data, Natural(e.size), e.bad, e.deleted)
    IN  IF f.cyls \notin 80..83 \/ f.tracks[1].list[1].id[1] >= f.cyls
             \/ f.tracks[1].list[1].id[2] >= 2 \/ f.tracks[1].list[1].size > 7
        THEN Declines
        ELSE Gives([i \in DOMAIN f.tracks |->
                      Located(f.tracks[i].at, [k \in DOMAIN f.tracks[i].list |->
                                                 SdfSector(f.tracks[i].list[k])])])

ReadDSC(f) ==
    LET \* DSC: headers in one file, data in another, read in the order of the headers
        \* whatever the headers say of where it is.
        DscSector(acc, e, data) ==
            LET size == Natural(e.size)
                read == IF e.filler THEN "filler" ELSE Taken(data, acc.pos, size)
            IN  [pos |-> IF e.filler THEN acc.pos ELSE acc.pos + size,
                 sectors |-> Append(acc.sectors,
                     Flagged(e, "250K", "MFM", FALSE, FALSE, read, size, FALSE, FALSE))]
        all == FlattenSeq([i \in DOMAIN f.tracks |-> f.tracks[i].list])
        read == FoldLeft(LAMBDA acc, e : DscSector(acc, e, f.pieces),
                         [pos |-> 0, sectors |-> << >>], all)
        before(i) == Len(FlattenSeq([k \in 1 .. i - 1 |-> f.tracks[k].list]))
    IN  CASE f.ext \notin {"hdr", "dsc"} -> Declines
          [] f.ext \in {"hdr", "dsc"} /\ (~f.companion \/ read.pos > Total(f.pieces)) -> Fails
          [] OTHER -> Gives([i \in DOMAIN f.tracks |->
                 Located(f.tracks[i].at,
                        SubSeq(read.sectors, before(i) + 1, before(i) + Len(f.tracks[i].list)))])

-----------------------------------------------------------------------------
(* CQM and PDI: regular images, packed.                                    *)

\* The tracks that were used come in blocks, stored or one byte repeated; the
\* others are filled.
ReadCQM(f) ==
    LET wanted == f.unit * f.used * f.heads
        enough == SelectSeq([i \in DOMAIN f.blocks |-> i], LAMBDA i :
                      Total(SubSeq(f.blocks, 1, i)) >= wanted)
        size == Total(SubSeq(f.blocks, 1, IF enough = << >> THEN 0 ELSE enough[1]))
    IN  IF ~f.summed \/ (wanted > 0 /\ enough = << >>) \/ ~f.whole THEN Fails
        ELSE [said |-> "yes",
              tracks |-> [i \in 1 .. f.cyls * f.heads |->
                             IF i * f.unit <= size THEN "data" ELSE "fill"]]

ReadPDI(f) ==
    LET PdiUnpacked(bytes) ==
            LET \* After three equal bytes comes how many more there are.
                PdiByte(acc, b) ==
                    IF acc.counting THEN [acc EXCEPT !.out = @ \o [i \in 1..b |-> acc.last[1]],
                                                     !.last = <<-1, -2>>, !.counting = FALSE]
                    ELSE [out |-> Append(acc.out, b), last |-> <<b, acc.last[1]>>,
                          counting |-> acc.last = <<b, b>>]
            IN  FoldLeft(PdiByte, [out |-> << >>, last |-> <<-1, -2>>, counting |-> FALSE], bytes)
        read == PdiUnpacked(f.bytes)
        end == <<0, 69, 78, 68, 0>>
        ends == Len(read.out) >= 5 /\ SubSeq(read.out, Len(read.out) - 4, Len(read.out)) = end
    IN  IF f.version # 1 \/ ~f.headed \/ read.counting THEN Fails
        ELSE [said |-> "yes",
              tracks |-> IF ends THEN SubSeq(read.out, 1, Len(read.out) - 5) ELSE read.out]

-----------------------------------------------------------------------------
(* DMK and UDI: bytes of tracks, and which of them are address marks.      *)

\* Is a data mark here as far behind its header as one can be? The first one is.
\* Mutant: a mark in the header itself may be taken.
DmkInWindow_FromStart(distance, enc, step) ==
    distance <= (IF enc = "MFM" THEN 57 ELSE 37) * step

DmkInWindow(distance, enc, step) ==
    /\ distance >= (IF enc = "MFM" THEN 14 ELSE 7) * step
    /\ distance <= (IF enc = "MFM" THEN 57 ELSE 37) * step

DmkTrack(t, single) ==
    LET DmkStep(enc) == IF enc = "MFM" \/ single THEN 1 ELSE 2
        \* A byte that may be a mark. Headers are where the index of the track says.
        DmkMark(acc, m) ==
            LET step == DmkStep(acc.enc)
                isHeader == m.kind = "header"
                isIndex == m.kind = "index" /\ acc.id = 0 /\ ~acc.index
                isData == /\ m.kind = "data" /\ acc.id # 0 /\ ~acc.found
                          /\ DmkInWindow(m.pos - acc.id, acc.enc, step)
            IN  CASE isHeader -> [acc EXCEPT !.id = m.pos, !.enc = m.enc, !.found = FALSE,
                                             !.marks = Append(@, m.pos)]
                  [] isIndex -> [acc EXCEPT !.index = TRUE, !.marks = Append(@, m.pos)]
                  [] isData -> [acc EXCEPT !.found = TRUE, !.marks = Append(@, m.pos)]
                  [] OTHER -> acc
    IN  FoldLeft(LAMBDA acc, m : DmkMark(acc, m),
                 [id |-> 0, enc |-> t.enc, found |-> FALSE, index |-> FALSE, marks |-> << >>],
                 t.bytes).marks

ReadDMK(f) ==
    CASE f.real \/ f.mixed -> Fails
      [] ~f.real /\ (f.cyls = 0 \/ f.len \notin 1..16383 \/ (~f.exact /\ f.ext \notin {"dmk", "dsk"})) ->
            Declines
      [] OTHER -> Gives([i \in DOMAIN f.tracks |-> DmkTrack(f.tracks[i], f.single)])

ReadUDI(f) ==
    LET \* UDI: a mark in MFM is a byte whose clock bits are not regular and that is one
        \* of the two marks; in FM it is any such byte.
        UdiByte(b, format) ==
            IF b.clock /\ (format = 1 \/ b.byte \in {"A1", "C2"}) THEN "mark" ELSE "data"
    IN  CASE f.packed \/ f.old -> Fails
          [] ~f.packed /\ \E i \in DOMAIN f.tracks : \/ f.tracks[i].format >= 2
                                                     \/ f.tracks[i].len > 8192 -> Fails
          [] OTHER -> Gives([i \in DOMAIN f.tracks |->
                          [rate |-> IF f.tracks[i].len > 6400 THEN "500K" ELSE "250K",
                           bytes |-> [k \in DOMAIN f.tracks[i].bytes |->
                                         UdiByte(f.tracks[i].bytes[k], f.tracks[i].format)]]])
=============================================================================
