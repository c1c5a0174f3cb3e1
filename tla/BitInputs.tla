----------------------------- MODULE BitInputs -----------------------------
(***************************************************************************)
(* Tracks and media on which BitTracks is checked: they stand for what     *)
(* image files and disks hold, without modelling code.                     *)
(***************************************************************************)
EXTENDS BitDecoders

(***************************************************************************)
(* Tracks of sectors                                                       *)
(***************************************************************************)

IdOf(n, size) == [cyl |-> 1, head |-> 0, sector |-> n, size |-> size]
Good(n, bytes) == [is |-> n, bytes |-> bytes, sum |-> bytes, says |-> {}]

SectorOf(kind, n, enc, size) ==
    LET len == SizeCodeToLength(size)
        plain == [header |-> IdOf(n, size), enc |-> enc, rate |-> 250, offset |-> 0, badId |-> FALSE,
                  data |-> Good(n, len), bad |-> FALSE, dam |-> "FB", gap3 |-> 0, copies |-> 1]
    IN  CASE kind = "good" -> plain
          [] kind = "bad" -> [plain EXCEPT !.bad = TRUE, !.data.sum = -1]
          [] kind = "none" -> [plain EXCEPT !.data = NoData, !.copies = 0]
          [] kind = "noId" -> [plain EXCEPT !.data = NoData, !.copies = 0, !.badId = TRUE]
          [] kind = "gap" -> [plain EXCEPT !.data.bytes = len + 40]
          [] kind = "short" -> [plain EXCEPT !.data.bytes = len - 20]
          [] kind = "rx02" -> [plain EXCEPT !.header.size = 0]

Kinds == {"good", "bad", "none", "noId", "gap", "short"}

Placed(t, first, apart) == [i \in DOMAIN t |-> [t[i] EXCEPT !.offset = first + apart * (i - 1)]]

TracksOf(n, kinds, enc, size) == {[i \in 1..n |-> SectorOf(k[i], i, enc, size)] : k \in [1..n -> kinds]}

PlainTracks ==
    UNION {TracksOf(n, Kinds, "MFM", 1) : n \in 1..3} \cup UNION {TracksOf(n, {"good", "bad", "none"}, "FM", 0) : n \in 1..2}

MixedTracks ==
    UNION {TracksOf(2, {"good", "bad"}, "MFM", size) : size \in {3, 5, 6, 7}}
        \cup {<<SectorOf(k, 1, "MFM", 2), SectorOf(l, 2, "FM", 0)>> : k, l \in {"good", "bad"}}
        \cup {[i \in 1..2 |-> [SectorOf(k, i, "Amiga", 2) EXCEPT !.header.sector = i]] : k \in {"good", "bad"}}

\* Tracks of nine or more sectors that are protections.
Nine(size, odd, s) == [i \in 1..9 |-> IF i = odd THEN s ELSE SectorOf("good", i, "MFM", size)]
Saying(t, i, what) == [t EXCEPT ![i].data.says = {what}]
Speedlock(odd, at, what) == Saying(Nine(2, odd, SectorOf("bad", odd, "MFM", 2)), at, what)
Kbi == Append([i \in 1..9 |-> SectorOf("good", i, "MFM", 2)], [SectorOf("bad", 10, "MFM", 1) EXCEPT !.data.says = {"Kxx"}])
Kbi19 == [i \in 1..20 |-> [SectorOf("good", i, "MFM", 2) EXCEPT !.header.sector = Kbi19Ids[i], !.data.is = Kbi19Ids[i]]]
System24 == [i \in 1..7 |-> [SectorOf("good", i, "MFM", <<4, 4, 4, 4, 4, 3, 1>>[i]) EXCEPT !.rate = 500]]
Opera == [i \in 1..9 |->
            [SectorOf(IF i = 9 THEN "bad" ELSE "good", i - 1, "MFM", IF i = 9 THEN 8 ELSE 1) EXCEPT !.data.bytes = IF i = 9 THEN 1298 ELSE 256]]
EightK(says, bytes) == <<[SectorOf("bad", 1, "MFM", 6) EXCEPT !.data.says = says, !.data.bytes = bytes]>>
Eleven(kind) == [i \in 1..11 |-> SectorOf(IF i = 4 THEN kind ELSE "good", i, "MFM", 2)]
Logo == [i \in 1..10 |-> [SectorOf("good", i + 1, "MFM", 2) EXCEPT !.offset = 6000 + 9500 * (i - 1)]]

ProtectedTracks ==
    {Speedlock(2, 1, "SPEEDLOCK at 304"), Speedlock(8, 1, "SPEEDLOCK at 257"), Kbi, Kbi19, System24, Opera,
     [Speedlock(2, 4, "code at 0") EXCEPT ![2].header.sector = 198, ![2].data.is = 198],
     EightK({"checksum"}, 6144), EightK({}, 6400), Eleven("good"), Eleven("bad"), Logo}

SomeTracks ==
    PlainTracks \cup MixedTracks \cup ProtectedTracks
        \cup {Placed(t, first, apart) : t \in TracksOf(3, {"good", "bad", "none"}, "MFM", 1), first \in {3000, 3200},
                apart \in {2000, 6000}}

(***************************************************************************)
(* Media                                                                   *)
(***************************************************************************)

\* A sector as a controller formats it: gaps, and what of it is damaged.
Damaged(n, enc, gap2, gap3, harm) ==
    AddSectorHeader(enc, IdOf(n, 1), "id" \in harm, FALSE) \o AddGap(enc, gap2)
        \o (IF "data" \in harm THEN << >> ELSE AddSectorData(enc, Good(n, 256), 1, "FB", "crc" \in harm))
        \o AddGap(enc, gap3)

Harms == {{}, {"id"}, {"data"}, {"crc"}}

Disk(enc, gap2, gap3, harms) ==
    Layout(<<AddTrackStart(enc, FALSE)>>
            \o [n \in DOMAIN harms |-> Damaged(n, enc, gap2, gap3, harms[n])] \o <<AddGap(enc, 200)>>)

Turned(m, b, r) == [m EXCEPT !.at = (@ - r + b.size) % b.size]
Turns(b, r, turns) ==
    LET once == SortSeq([i \in DOMAIN b.marks |-> Turned(b.marks[i], b, r)], LAMBDA m, n : m.at < n.at)
        Spans(u) == LET f == (u[1] - r + b.size) % b.size IN
                    IF f + u[2] - u[1] <= b.size THEN {<<f, f + u[2] - u[1]>>}
                    ELSE {<<f, b.size>>, <<0, f + u[2] - u[1] - b.size>>}
        spans == UNION {Spans(u) : u \in b.used}
    IN  [Buffer(b, 250) EXCEPT !.size = turns * b.size, !.trackLen = b.size,
            !.marks = FlattenSeq([k \in 1..turns |-> [i \in DOMAIN once |-> [once[i] EXCEPT !.at = @ + (k - 1) * b.size]]]),
            !.used = UNION {{<<u[1] + k * b.size, u[2] + k * b.size>> : u \in spans} : k \in 0..(turns - 1)}]

\* What the views of a flux do not show: nothing, single marks, or nearly everything.
AllViews == {<<pll, scale>> : pll \in {2, 4, 8, 16}, scale \in {98, 100, 102}}
Losses ==
    {{},
     {<<v[1], v[2], IF v[2] = 100 THEN 2 ELSE 4>> : v \in AllViews},
     {<<2, 100, n>> : n \in 1..9},
     {<<v[1], v[2], 2>> : v \in AllViews \ {<<16, 102>>}} \cup {<<2, 100, 3>>, <<4, 100, 4>>}}

DiskMedia ==
    {[buf |-> Turns(Disk(enc, gap2, 30, harms), at[1], at[2]), rate |-> 250, lost |-> {}] :
        enc \in {"MFM", "FM"}, gap2 \in {22, 34}, harms \in [1..3 -> Harms], at \in {<<0, 1>>, <<2600, 2>>}}
    \cup {[buf |-> Turns(Disk("MFM", 22, 30, harms), 0, 1), rate |-> rate, lost |-> lost] :
        harms \in [1..3 -> {{}, {"id"}, {"crc"}}], rate \in {250, 500, 1000}, lost \in Losses}

\* Marks at places of a track of so many bits.
Marked(size, turns, marks) ==
    Turns([NoBits EXCEPT !.size = size, !.marks = marks], 0, turns)

Mark(kind, enc, at, n, good, data) ==
    [at |-> at, kind |-> kind, enc |-> enc, header |-> IdOf(n, 1), good |-> good, dam |-> "FB", data |-> data]

DataOf(n, bytes, bad) == [Good(n, bytes) EXCEPT !.sum = IF bad THEN -1 ELSE bytes]

\* Headers and data fields in turn, the data so many bits behind the header.
GroupMedia ==
    {[buf |-> Marked(9000, turns,
        <<Mark("id", enc, 600, 1, TRUE, NoData), Mark("data", enc, 600 + behind, 0, TRUE, DataOf(1, 256, bad)),
          Mark("id", enc, 600 + apart, 2, good, NoData),
          Mark("data", enc, 600 + apart + behind, 0, TRUE, DataOf(2, 256, FALSE))>>),
      rate |-> 250, lost |-> {}] :
        enc \in {"Apple", "GCR", "Agat", "Victor"}, turns \in {1, 2}, behind \in {130, 200, 500},
        apart \in {2300, 4000, 5400, 6500, 8300}, bad \in BOOLEAN, good \in BOOLEAN}

WholeMedia ==
    {[buf |-> Marked(30000, turns,
        <<[Mark("amiga", "Amiga", 100, 1, TRUE, DataOf(1, 512, bad)) EXCEPT !.header.size = 2],
          [Mark("amiga", "Amiga", at, 2, good, DataOf(2, 512, FALSE)) EXCEPT !.header.size = 2]>>),
      rate |-> 250, lost |-> lost] :
        turns \in {1, 2}, at \in {9000, 22000}, bad \in BOOLEAN, good \in BOOLEAN,
        lost \in {{}, {<<4, 100, 1>>}, {<<4, s, 1>> : s \in {98, 100, 102}}, {<<4, 98, 1>>, <<4, 100, 2>>}}}
    \cup {[buf |-> Marked(20000, turns, <<Mark("ace", "Ace", at, 0, good, [is |-> 0, bytes |-> 4096, sum |-> 4096, says |-> {}])>>),
           rate |-> 250, lost |-> {}] : turns \in {1, 2}, at \in {100, 17000}, good \in BOOLEAN}
    \cup {[buf |-> Marked(100000, turns,
                <<Mark("mx", "MX", at, 0, TRUE, DataOf(-1, 256, FALSE)) @@
                    [sums |-> [n \in 1..11 |-> IF n = odd THEN sum ELSE IF n = 8 THEN "zero" ELSE "right"]]>>),
           rate |-> 300, lost |-> {}] :
            turns \in {1, 2}, at \in {100, 40000}, odd \in {2, 9}, sum \in {"wrong", "zero, wrong", "zero"}}
    \cup {[buf |-> Marked(30000, turns,
        <<[Mark("vista", "Vista", 100, 1, TRUE, DataOf(1, 512, bad)) EXCEPT !.header.cyl = cyl],
          Mark("vista", "Vista", at, 2, TRUE, DataOf(2, 512, FALSE))>>),
      rate |-> 250, lost |-> {}] : turns \in {1, 2}, at \in {9000, 28000}, bad \in BOOLEAN, cyl \in {1, 2}}

\* A sector whose data after an FM header is as long as one of the next size.
RX02Media ==
    {[buf |-> Marked(20000, turns,
        <<[Mark("id", "FM", 600, 1, TRUE, NoData) EXCEPT !.header.size = 0],
          [Mark("data", "FM", 600 + behind, 0, TRUE, DataOf(1, 256, bad)) EXCEPT !.dam = "FD"]>>),
      rate |-> 250, lost |-> {}] : turns \in {1, 2}, behind \in {500, 768}, bad \in BOOLEAN}

SomeMedia == DiskMedia \cup GroupMedia \cup WholeMedia \cup RX02Media
=============================================================================
