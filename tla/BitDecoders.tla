---------------------------- MODULE BitDecoders ----------------------------
(***************************************************************************)
(* Sectors found in the bits of a track (src/src/BitstreamDecoder.cpp,     *)
(* BitBuffer.cpp).  A buffer holds one or more turns of a track, from its  *)
(* index on; its marks are those of BitEncoders, and it says whether the   *)
(* bits go on at its start when they are read over its end ("seamless").   *)
(* Each scanner collects headers and data fields first, then looks for     *)
(* every header for a data field at the right distance; how far the field  *)
(* reaches follows from the next header or data field.                     *)
(*                                                                         *)
(* Options have their defaults: no --idcrc, gaps are removed when clean,   *)
(* overlapping sectors are cut.                                            *)
(***************************************************************************)
EXTENDS BitEncoders, FiniteSets

Tolerance == 64    \* COMPARE_TOLERANCE_BYTES

(***************************************************************************)
(* Bit buffers                                                             *)
(***************************************************************************)

\* The bits of a builder as a buffer of one turn, which goes on at its start.
Buffer(b, rate) ==
    [size |-> b.size, trackLen |-> b.size, rate |-> rate, seamless |-> TRUE, splice |-> 0,
     marks |-> b.marks, used |-> b.used]

NoBuffer == Buffer(NoBits, 250)
\* A medium: the bits that its flux shows at its rate, and what single views do not show.
NoMedium == [buf |-> NoBuffer, rate |-> 0, lost |-> {}]

TrackOffset(buf, pos) == pos % buf.trackLen
Remaining(buf, splice, pos) == buf.size - pos + splice

\* Are n bits read from pos on as they were written?
Intact(buf, pos, n) == pos + n <= buf.size \/ (buf.seamless /\ pos + n <= 2 * buf.size)

\* Nothing but filler from one position to another, or so few other bits in between that
\* they pass for the splice of two writes.
Clean(buf, from, to, splice) ==
    LET In(u, turn) ==
            LET first == IF u[1] + turn > from THEN u[1] + turn ELSE from
                last == IF u[2] + turn < to THEN u[2] + turn ELSE to
            IN  last - first
    IN  \A u \in buf.used : \A turn \in {0, buf.size} : In(u, turn) <= splice

\* The marks of encodings that a scanner sees: with their sync of so many bits in the
\* buffer, and none when there is no header in the first turn.
Seen(buf, encs, kinds, lead) ==
    LET In(m) == m.enc \in encs /\ m.at >= (IF m.enc = "FM" THEN 0 ELSE lead) /\ m.at < buf.size
        marks == SelectSeq(buf.marks, In)
    IN  IF \E i \in DOMAIN marks : marks[i].kind \in {"id", "amiga"} /\ marks[i].good /\ marks[i].at <= buf.trackLen
        THEN SelectSeq(marks, LAMBDA m : m.kind \in kinds) ELSE << >>

SeenInAnyTurn(buf, encs, kinds, lead) ==
    SelectSeq(buf.marks, LAMBDA m : m.enc \in encs /\ m.kind \in kinds /\ m.at >= lead /\ m.at < buf.size)

(***************************************************************************)
(* Headers                                                                 *)
(***************************************************************************)

NewSector(header, enc, rate, offset) ==
    [header |-> header, enc |-> enc, rate |-> rate, offset |-> offset, badId |-> FALSE,
     data |-> NoData, bad |-> FALSE, dam |-> "FB", gap3 |-> 0, copies |-> 0]

SameSector(buf, s, t) ==
    LET far == IF s.offset > t.offset THEN s.offset - t.offset ELSE t.offset - s.offset
        near == IF buf.trackLen - far < far THEN buf.trackLen - far ELSE far
    IN  s.header = t.header /\ near <= Bits(s.enc, Tolerance)

\* Another reading of data: good data replaces bad, bad data is kept as one more copy.
AddData(s, data, bad, dam) ==
    CASE HasData(s) /\ ~s.bad /\ bad -> s
      [] HasData(s) /\ s.bad = bad -> [s EXCEPT !.copies = @ + 1]
      [] OTHER -> [s EXCEPT !.data = data, !.bad = bad, !.dam = dam, !.copies = 1]

\* Track::add
AddTo(buf, track, s) ==
    LET Same(i) == SameSector(buf, s, track[i])
        Before(t) == t.offset <= s.offset
        Merged(i) == IF HasData(s) THEN AddData(track[i], s.data, s.bad, s.dam) ELSE track[i]
    IN  IF s.offset = 0 THEN Append(track, s)
        ELSE IF \E i \in DOMAIN track : Same(i)
        THEN LET at == CHOOSE i \in DOMAIN track : Same(i) /\ \A k \in 1..(i - 1) : ~Same(k)
             IN  [track EXCEPT ![at] = Merged(at)]
        ELSE LET later == {i \in DOMAIN track : ~Before(track[i])}
                 n == IF later = {} THEN Len(track) ELSE Min(later) - 1
             IN  SubSeq(track, 1, n) \o <<s>> \o SubSeq(track, n + 1, Len(track))

Headers(buf, marks) ==
    InTurn(LAMBDA track, m : AddTo(buf, track, NewSector(m.header, m.enc, buf.rate, TrackOffset(buf, m.at))),
             << >>, SelectSeq(marks, LAMBDA m : m.kind = "id" /\ m.good))

(***************************************************************************)
(* Data fields                                                             *)
(***************************************************************************)

\* From one place of the track on to another; the place itself is a turn away when
\* "whole".
Ahead(from, to, turn, whole) == (IF to < from \/ (whole /\ to = from) THEN turn ELSE 0) + to - from

\* What a scanner knows of the field j of the sector i: the distance from its header, and
\* the bits to the next header and the next data field.
Place(buf, track, i, fields, j, whole) ==
    LET at == TrackOffset(buf, fields[j].at)
        next == (j % Len(fields)) + 1
        nextId == track[(i % Len(track)) + 1].offset
    IN  [distance |-> Ahead(track[i].offset, at, buf.trackLen, FALSE),
         toId |-> Ahead(at, nextId, buf.trackLen, whole),
         toData |-> Ahead(fields[j].at, fields[next].at, buf.size, whole)]

\* A scanner: bits of a byte and of the shift by which it counts bytes, bytes of a mark,
\* least and greatest distance, bytes read beyond the sector, whether a distance to itself
\* is a turn, whether it reads at least a sector.
Agat == [bits |-> 16, shift |-> 16, mark |-> 2, min |-> 176, max |-> 432, sum |-> 1, whole |-> TRUE, least |-> FALSE]
Apple == [bits |-> 8, shift |-> 8, mark |-> 3, min |-> 142, max |-> 392, sum |-> 87, whole |-> FALSE, least |-> TRUE]
Gcr == [bits |-> 10, shift |-> 8, mark |-> 1, min |-> 104, max |-> 232, sum |-> 1, whole |-> FALSE, least |-> FALSE]
Victor == [bits |-> 10, shift |-> 8, mark |-> 1, min |-> 104, max |-> 232, sum |-> 0, whole |-> FALSE, least |-> FALSE]

\* One data field for the sector i, unless good data was found for it already.
FieldOf(rules, buf, track, i, fields, s, j) ==
    LET p == Place(buf, track, i, fields, j, rules.whole)
        normal == Length(s) + rules.sum
        extent == (p.toData \div rules.shift) - rules.mark
        start == fields[j].at + rules.bits * rules.mark
        truncated == Remaining(buf, 0, start) \div rules.shift < normal
        got == fields[j].data
        bytes == IF rules.least \/ extent >= Length(s) THEN Length(s) ELSE extent
        good == /\ got.sum = Length(s) /\ bytes = Length(s) /\ (rules.least \/ extent >= normal)
                /\ Intact(buf, start, rules.bits * (normal + 2))
    IN  IF (HasData(s) /\ ~s.bad) \/ p.distance < rules.min \/ p.distance > rules.max \/ (truncated /\ s.copies > 0)
        THEN s ELSE AddData(s, [got EXCEPT !.bytes = bytes], ~good, "FB")

\* Every sector in turn with all data fields.
WithFields(rules, buf, track, fields) ==
    [i \in DOMAIN track |->
        InTurn(LAMBDA s, j : FieldOf(rules, buf, track, i, fields, s, j), track[i], [j \in DOMAIN fields |-> j])]

Scanned(rules, buf, marks) ==
    WithFields(rules, buf, Headers(buf, marks), SelectSeq(marks, LAMBDA m : m.kind = "data"))

ScanApple(buf) == Scanned(Apple, buf, Seen(buf, {"Apple"}, {"id", "data"}, 24))
ScanGcr(buf) == Scanned(Gcr, buf, SeenInAnyTurn(buf, {"GCR"}, {"id", "data"}, 24))
ScanAgat(buf) == Scanned(Agat, buf, Seen(buf, {"Agat"}, {"id", "data"}, 32))

\* A track without good data is none.
ScanVictor(buf) ==
    LET track == Scanned(Victor, buf, SeenInAnyTurn(buf, {"Victor"}, {"id", "data"}, 10))
    IN  IF \E i \in DOMAIN track : HasGoodData(track[i]) THEN track ELSE << >>

(***************************************************************************)
(* MFM and FM sectors of PCs, and those of RX02                            *)
(***************************************************************************)

\* An FM data mark counts only when the FM mark before it was a good header.
AfterId(marks, j) ==
    LET before == {i \in 1..(j - 1) : marks[i].enc = "FM" /\ (marks[i].kind = "data" \/ marks[i].good)}
    IN  before # {} /\ marks[CHOOSE i \in before : \A k \in before : k <= i].kind = "id"

MinDistance(s) == Bits(s.enc, 7 + Gap2Length(s.enc, s.rate))

\* Mutant: no data field is too far away.
MaxDistance_None(s) == 8000

MaxDistance(s) == Bits(s.enc, 7 + Gap2Length(s.enc, s.rate) + SyncLength(s.enc, FALSE) + IdamSync(s.enc) + 8)

\* A data mark FD after an FM header makes it a sector of RX02, twice as long.
AsRX02(s, field) ==
    IF field.enc = "FM" /\ field.dam = "FD" THEN [s EXCEPT !.enc = "RX02", !.header.size = @ + 1] ELSE s

\* How far a data field reaches: bytes to the next header, and to what ends it.
Reach(buf, s, p, final) ==
    LET unit == Bits(s.enc, 1)
        ids == (p.toId \div unit) - 1
        ends == IF final THEN ids ELSE (p.toData \div unit) - 1
    IN  [unit |-> unit, ids |-> ids, aligned |-> p.toId % unit = 0, normal |-> Length(s) + 2,
         extent |-> IF ends >= 3 /\ s.enc = "MFM" THEN ends - 3 ELSE ends]

\* The bytes kept at first: all that was read for the CRC and up to the next mark.
ReadBytes(s, r) ==
    IF r.extent < Length(s) THEN r.extent ELSE IF r.extent > r.normal THEN r.extent ELSE r.normal

\* Nothing but filler in the field from one of its bytes to another.
MaxSplice == 9     \* bytes
CleanBytes(buf, field, unit, from, to) ==
    LET At(byte) == field.at + Bits(field.enc, 1) + unit * byte
    IN  from >= to \/ Clean(buf, At(from), At(to), unit * MaxSplice)

\* Gap 2 lies behind the next header.
RemovesGap2(buf, field, r, bytes) ==
    \/ ~r.aligned
    \/ \A m \in Range(buf.marks) : m.kind = "id" => m.at # (field.at + r.unit * (r.ids + 1)) % buf.size
    \/ CleanBytes(buf, field, r.unit, r.ids + 7, bytes)

\* Gap 3 lies between the data and the next mark; of gap 4b only the first run counts.
RemovesGap3(buf, field, r, bytes, final) ==
    final \/ CleanBytes(buf, field, r.unit, r.normal, IF r.ids > r.normal /\ r.ids < bytes THEN r.ids ELSE bytes)

\* The bytes that stay when gaps are removed.
KeptBytes(buf, s, field, r, final) ==
    LET bytes == ReadBytes(s, r)
        hasGap2 == bytes >= r.ids + 7
        removeGap2 == hasGap2 /\ RemovesGap2(buf, field, r, bytes)
        removeGap3 == bytes >= r.normal /\ RemovesGap3(buf, field, r, bytes, final)
    IN  IF removeGap3 /\ (~hasGap2 \/ removeGap2) THEN Length(s)
        ELSE IF removeGap2 THEN r.ids - (IF s.enc = "MFM" THEN 3 ELSE 0)
        ELSE bytes

Is8K(s) == s.rate = 250 /\ s.enc = "MFM" /\ s.header.size = 6

\* The data field read for a sector.  The search is over when it is good, or when it is
\* an 8K sector with a checksum of its own.
ReadField(buf, w, s, field, r, final) ==
    LET start == field.at + Bits(field.enc, 1)
        left == Remaining(buf, w.splice, start) \div r.unit
        bytes == KeptBytes(buf, s, field, r, final)
        bad == field.data.sum # Length(s) \/ ~Intact(buf, start, r.unit * r.normal)
        summed == Is8K(s) /\ Says(field, "checksum")
        end == start + r.unit * r.normal
        overhang == IF final /\ ~bad /\ TrackOffset(buf, end) < field.at THEN TrackOffset(buf, end) ELSE 0
    IN  IF left < r.normal /\ s.copies > 0 /\ (~Is8K(s) \/ left < 6146) THEN [w EXCEPT !.s = s]
        ELSE [s |-> IF summed /\ s.copies > 0 THEN [s EXCEPT !.data = [field.data EXCEPT !.bytes = bytes], !.bad = bad]
                    ELSE AddData(s, [field.data EXCEPT !.bytes = bytes], bad, field.dam),
              splice |-> IF overhang > w.splice THEN overhang ELSE w.splice,
              over |-> ~bad \/ summed]

PcField(buf, track, i, fields, w, j) ==
    LET p == Place(buf, track, i, fields, j, TRUE)
        s == AsRX02(w.s, fields[j])
        final == i = Len(track)
    IN  IF w.over \/ fields[j].enc # w.s.enc \/ p.distance < MinDistance(w.s) \/ p.distance > MaxDistance(w.s) THEN w
        ELSE ReadField(buf, w, s, fields[j], Reach(buf, s, p, final), final)

\* The splice position found with the last sector stays with the buffer.
PcSector(buf, track, fields, i) ==
    InTurn(LAMBDA w, j : PcField(buf, track, i, fields, w, j), [s |-> track[i], splice |-> buf.splice, over |-> FALSE],
             [j \in DOMAIN fields |-> j])

ScanMfmFm(buf) ==
    LET DataFields(marks) ==
            LET IsField(j) == marks[j].kind = "data" /\ (marks[j].enc = "FM" => AfterId(marks, j))
                fields == SelectSeq([j \in DOMAIN marks |-> j], IsField)
            IN  [n \in DOMAIN fields |-> marks[fields[n]]]
        PcMarks == Seen(buf, {"MFM", "FM"}, {"id", "data"}, 48)
        marks == PcMarks
        track == Headers(buf, marks)
        fields == DataFields(marks)
    IN  [i \in DOMAIN track |-> PcSector(buf, track, fields, i).s]

(***************************************************************************)
(* Headers and data in one                                                 *)
(***************************************************************************)

Whole(m, rate, offset, bad) ==
    AddData(NewSector(m.header, m.enc, rate, offset), m.data, bad, "00")

AddAll(buf, sectors) == InTurn(LAMBDA track, s : AddTo(buf, track, s), << >>, sectors)

\* Amiga sectors of this track; one that begins before the end of the buffer and goes on
\* behind it is left out.
ScanAmiga(buf, cylhead) ==
    LET Here(m) == m.good /\ m.header.cyl = cylhead.cyl /\ m.header.head = cylhead.head
                    /\ m.header.sector < (IF buf.rate = 500 THEN 22 ELSE 11) /\ m.at + Bits("Amiga", 540) <= buf.size
        marks == SelectSeq(Seen(buf, {"Amiga"}, {"amiga"}, 32), Here)
    IN  AddAll(buf, [i \in DOMAIN marks |-> Whole(marks[i], buf.rate, TrackOffset(buf, marks[i].at), marks[i].data.sum # 512)])

\* A cassette-like block: the first one on the track is its only sector.
ScanAce(buf, cylhead) ==
    LET blocks == SelectSeq(buf.marks, LAMBDA m : m.kind = "ace")
        header == [cyl |-> cylhead.cyl, head |-> cylhead.head, sector |-> 0, size |-> 5]
        Block(m) == AddData(NewSector(header, "Ace", 250, TrackOffset(buf, m.at)), m.data,
                            ~m.good \/ ~Intact(buf, m.at, m.data.bytes), "00")
    IN  IF blocks = << >> THEN << >> ELSE AddAll(buf, <<Block(blocks[1])>>)

\* Eleven sectors after one sync.  A stored checksum of zero is no longer believed once
\* it was wrong: lost bits read as zeros, whose sum is zero too.
MxSectors(buf, m, head) ==
    LET Lost(n) == \E k \in 1..n : m.sums[k] = "zero, wrong"
        Bad(n) == m.sums[n] \in {"wrong", "zero, wrong"} \/ (m.sums[n] = "zero" /\ Lost(n))
        Header(n) == [cyl |-> m.header.cyl, head |-> head, sector |-> n - 1, size |-> 1]
    IN  [n \in 1..11 |->
            AddData(NewSector(Header(n), "MX", buf.rate, TrackOffset(buf, m.at + 64 + Bits("FM", 258) * (n - 1))),
                    [m.data EXCEPT !.is = @ + n], Bad(n), "00")]

ScanMx(buf, cylhead) ==
    LET syncs == SelectSeq(buf.marks, LAMBDA m : m.kind = "mx")
    IN  IF syncs = << >> \/ syncs[1].at > buf.trackLen THEN << >>
        ELSE AddAll(buf, MxSectors(buf, syncs[1], cylhead.head))

\* What is damaged and not of this cylinder was no sector.
VistaCounts(m, bad, cylhead) == ~bad \/ m.header.cyl = cylhead.cyl

\* The place of a Vista sector is not reduced to the track.
ScanVista(buf, cylhead) ==
    LET Bad(m) == m.data.sum # 512 \/ ~Intact(buf, m.at, Bits("MFM", 518))
        marks == SelectSeq(buf.marks, LAMBDA m : m.kind = "vista" /\ VistaCounts(m, Bad(m), cylhead))
    IN  AddAll(buf, [i \in DOMAIN marks |->
                        Whole([marks[i] EXCEPT !.header.head = cylhead.head, !.header.size = 2], 250, marks[i].at, Bad(marks[i]))])

(***************************************************************************)
(* All scanners                                                            *)
(***************************************************************************)

Scan(enc, buf, cylhead) ==
    CASE enc \in {"MFM", "FM", "RX02"} -> ScanMfmFm(buf)
      [] enc = "Amiga" -> ScanAmiga(buf, cylhead)
      [] enc = "Apple" -> ScanApple(buf)
      [] enc = "GCR" -> ScanGcr(buf)
      [] enc = "Ace" -> ScanAce(buf, cylhead)
      [] enc = "MX" -> ScanMx(buf, cylhead)
      [] enc = "Agat" -> ScanAgat(buf)
      [] enc = "Victor" -> ScanVictor(buf)
      [] enc = "Vista" -> ScanVista(buf, cylhead)

(***************************************************************************)
(* Scanning flux                                                           *)
(***************************************************************************)

\* Track::has_all_good_data: an empty track has no bad data.
AllGood(track) == \A i \in DOMAIN track : HasGoodData(track[i])

AddTrack(buf, track, sectors) == InTurn(LAMBDA t, s : AddTo(buf, t, s), track, sectors)

\* Rates and views in the order in which a flux scanner decodes: a view is [rate, pll,
\* scale].
Plls == <<2, 4, 8, 16>>
Scales == <<100, 98, 102>>
RatesTried(enc, last) ==
    LET rates == CASE enc = "MFM" -> <<250, 500, 300, 1000>> [] enc \in {"MX", "Agat"} -> <<250, 300>> [] OTHER -> <<250>>
    IN  IF last \in Range(rates) THEN <<last>> \o SelectSeq(rates, LAMBDA r : r # last) ELSE rates

ViewsTried(enc, rate) ==
    CASE enc = "MFM" -> [n \in 1..12 |-> [rate |-> rate, pll |-> Plls[((n - 1) \div 3) + 1], scale |-> Scales[((n - 1) % 3) + 1]]]
      [] enc = "Amiga" -> [n \in 1..3 |-> [rate |-> rate, pll |-> 4, scale |-> Scales[n]]]
      [] OTHER -> <<[rate |-> rate, pll |-> 4, scale |-> 100]>>

\* Mutant: the scan ends as soon as it finds anything.
EndsViews_Found(track) == track # << >>

\* Other views of the same rate are of no use when everything is good.
EndsViews(track) == AllGood(track)

\* What a decoder makes of the medium: bits at the medium's rate only, with the marks
\* lost that this view does not show.
View(medium, v) ==
    LET seen == SelectSeq([i \in DOMAIN medium.buf.marks |-> [n |-> i, mark |-> medium.buf.marks[i]]],
                          LAMBDA e : v.rate = medium.rate /\ <<v.pll, v.scale, e.n>> \notin medium.lost)
    IN  [medium.buf EXCEPT !.rate = v.rate, !.marks = [i \in DOMAIN seen |-> seen[i].mark]]

\* The views of one rate: what each shows is added to what was found before.
ScanView(medium, enc, cylhead, w, v) ==
    LET buf == View(medium, v)
        track == AddTrack(buf, w.track, Scan(enc, buf, cylhead))
    IN  IF w.over THEN w ELSE [track |-> track, over |-> EndsViews(track), bits |-> buf]

ScanRate(medium, enc, cylhead, w, rate) ==
    IF w.track # << >> THEN w
    ELSE InTurn(LAMBDA x, v : ScanView(medium, enc, cylhead, x, v), [w EXCEPT !.over = FALSE], ViewsTried(enc, rate))

ScanFlux(medium, enc, cylhead, last) ==
    InTurn(LAMBDA w, rate : ScanRate(medium, enc, cylhead, w, rate),
             [track |-> << >>, over |-> FALSE, bits |-> medium.buf], RatesTried(enc, last))
=============================================================================
