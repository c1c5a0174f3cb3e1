------------------------------ MODULE DskFiles ------------------------------
(***************************************************************************)
(* DSK, EDSK and RDSK images (src/src/types/dsk.cpp, rdsk.cpp).  A track   *)
(* has a list of its sectors and then the data of all of them, one behind  *)
(* the other; only the sizes in the list say where one ends.  A track of   *)
(* an EDSK has less than 64K, so the writer tries with less and less until *)
(* the track fits.                                                         *)
(***************************************************************************)
EXTENDS StoredTracks

EdskTrackBytes == 65280
RdskTrackBytes == 67108864

TrackBytesOf(version) == IF version = 2 THEN RdskTrackBytes ELSE EdskTrackBytes

\* The list of n sectors, to the next 256 bytes.
ListBytes(n) == ((24 + 8 * n + 255) \div 256) * 256

RoundedUp(n) == ((n + 255) \div 256) * 256

UnformattedSize(rate) ==
    CASE rate \in {"250K", "300K"} -> Natural(6)
      [] rate = "500K" -> Natural(7)
      [] OTHER -> 128 * 2 ^ 8

RateCode(rate) ==
    CASE rate \in {"250K", "300K"} -> 1 [] rate = "500K" -> 2 [] rate = "1M" -> 3 [] OTHER -> 0

RateOf(code) == CASE code = 2 -> "500K" [] code = 3 -> "1M" [] OTHER -> "250K"

EncodingOf(code) == IF code = 1 THEN "FM" ELSE "MFM"

DefaultGaps == {78, 82}

-----------------------------------------------------------------------------
(* Writing                                                                 *)

\* What is tried: fewer copies, less gap data, less and less of it, and at last
\* what the first EDSK images could hold.
Pass(copies, size, fit, legacy) ==
    [oneCopy |-> copies, cutGaps |-> size, fit |-> fit, legacy |-> legacy]

Passes(rate, legacy) ==
    LET full == UnformattedSize(rate)
        halvings == CHOOSE n \in 0..8 : 128 * 2 ^ n = full
        less == [n \in 1..halvings |-> Pass(TRUE, TRUE, full \div 2 ^ n, legacy)]
    IN  << Pass(FALSE, FALSE, full, legacy), Pass(TRUE, FALSE, full, legacy),
           Pass(TRUE, TRUE, full, legacy) >> \o less
          \o (IF legacy THEN << >> ELSE << Pass(TRUE, TRUE, 128, TRUE) >>)

\* Only normal and deleted data marks have a place in the flags.
Markable(s) == IF s.dam \in {"normal", "deleted"} THEN s ELSE WithoutData(s)

CutLen(s, len, pass) == IF pass.cutGaps /\ s.bad /\ len > pass.fit THEN pass.fit ELSE len

\* The sizes the first EDSK images could hold.
LegacyLen(s, len) ==
    CASE s.size >= 7 -> 0
      [] s.size = 6 /\ len > 6144 -> 6144
      [] s.size < 6 /\ len > SizeOf(s) -> SizeOf(s)
      [] OTHER -> len

\* Mutant: the byte is never added.
NeedsMark_Never(s, size) == FALSE

\* One bad copy whose size would be taken for several copies has a byte more.
NeedsMark(s, size) ==
    /\ size > 0 /\ Len(s.copies) = 1 /\ s.bad
    /\ size # SizeOf(s) /\ size % SizeOf(s) = 0

\* The data of a sector goes where there is room; what room is left is tested
\* later. Its entry in the list has room for the low bits of its size only.
Stored(acc, s, n, len, mark, room) ==
    [start |-> acc.start, bytes |-> acc.bytes + n * len,
     area |-> acc.area \o SelectSeq([k \in 1..n |->
         [data |-> CASE len = 0 -> "nothing"
                     [] len # 0 /\ acc.bytes + k * (IF mark THEN len - 1 ELSE len) >= room -> "stale"
                     [] OTHER -> s.copies[k].data,
          at |-> acc.bytes - acc.start + (k - 1) * len, len |-> len, mark |-> mark]],
         LAMBDA p : TRUE),
     list |-> Append(acc.list,
         [id |-> s.id, size |-> s.size, st1 |-> s.badId \/ s.bad,
          missing |-> ~s.badId /\ s.copies = << >>,
          st2 |-> s.bad, deleted |-> s.dam = "deleted", len |-> (n * len) % 65536]),
     stats |-> Append(acc.stats, [k \in 1..n |-> s.copies[k].reads])]

PutCopies(acc, s, n, len, room) ==
    LET mark == NeedsMark(s, len) /\ n = 1 /\ acc.bytes + len < room
    IN  Stored(acc, s, n, IF mark THEN len + 1 ELSE len, mark, room)

PutForm(acc, s, n, len, pass, several, room) ==
    LET FormLen ==
            LET cut == CutLen(s, IF Len(s.copies) > 1 THEN SizeOf(s) ELSE len, pass)
            IN  IF pass.legacy THEN LegacyLen(s, cut) ELSE cut
        \* With fewer copies and less gap data, as the pass says.
        FewerCopies ==
            IF (pass.legacy \/ (pass.oneCopy /\ s.bad)) /\ n > 1 THEN 1 ELSE n
    IN  PutCopies(acc, s, IF ~s.bad /\ ~several /\ n > 1 THEN 1 ELSE FewerCopies,
                  FormLen, room)

PutTrack(t, pass, several, room) ==
    LET PutSector(acc, s, is8k) ==
            LET CopiesOf(len) ==
                    IF len > Capacity(s.rate, s.enc) /\ ~is8k /\ Len(s.copies) > 0
                         /\ (Len(s.copies) = 1 \/ len = SizeOf(s))
                    THEN 1 ELSE Len(s.copies)
                \* How long the copies of a sector are written, and how many of them: with
                \* several, all have the natural size. What is longer than a track is kept once.
                Extended ==
                    IF Len(s.copies) > 1 /\ is8k THEN SizeOf(s)
                    ELSE IF s.size > 7 /\ DataLen(s) > pass.fit THEN pass.fit ELSE DataLen(s)
                len == Extended
            IN  PutForm(acc, s, CopiesOf(len), len, pass, several, room)
    IN  FoldLeft(LAMBDA acc, s : PutSector(acc, Markable(s), Is8KTrack(t)),
                 [start |-> ListBytes(Len(t.sectors)), bytes |-> ListBytes(Len(t.sectors)),
                  area |-> << >>, list |-> << >>, stats |-> << >>], t.sectors)

Fitting(put, room) == put.bytes <= room

\* The first way of writing the track that fits.
FirstFit(t, passes, several, room) ==
    SelectInSeq(passes, LAMBDA pass : Fitting(PutTrack(t, pass, several, room), room))

Fitted(t, passes, several, room) ==
    LET PutAs(i) ==
            IF i = 0 THEN Fails ELSE [said |-> "yes"] @@ PutTrack(t, passes[i], several, room)
    IN  PutAs(FirstFit(t, passes, several, room))

NoPieces == [start |-> 0, bytes |-> 0, area |-> << >>, list |-> << >>, stats |-> << >>]

\* The index and the blocks, with the offsets if there are any, and the read
\* counts if they are asked for.
DskFile(tracks, puts, cyls, heads, version, opt) ==
    LET BlockOf(t, put) ==
            [info |-> TRUE, rate |-> IF t.sectors = << >> THEN 0 ELSE RateCode(t.sectors[1].rate),
             enc |-> IF t.sectors # << >> /\ t.sectors[1].enc = "FM" THEN 1 ELSE 0,
             misplaced |-> 0,
             gap3 |-> LET gaps == [i \in DOMAIN t.sectors |-> t.sectors[i].gap3]
                          usual == MostFrequent(gaps, 0)
                      IN  IF usual = 0 THEN 78 ELSE usual,
             size |-> MostFrequent([i \in DOMAIN t.sectors |-> t.sectors[i].size], 2),
             list |-> put.list, area |-> put.area, bytes |-> RoundedUp(put.bytes), short |-> FALSE]
        written == SelectSeq([i \in DOMAIN tracks |-> i], LAMBDA i : tracks[i].sectors # << >>)
        placed == \A i \in DOMAIN tracks : \A k \in DOMAIN tracks[i].sectors :
                      tracks[i].sectors[k].offset # 0
    IN  [sig |-> IF version = 2 THEN "RDSK" ELSE "EDSK", creator |-> "SAMdisk",
         cyls |-> cyls, heads |-> heads, fixed |-> 0,
         index |-> [i \in DOMAIN tracks |-> RoundedUp(puts[i].bytes)],
         blocks |-> [k \in DOMAIN written |-> BlockOf(tracks[written[k]], puts[written[k]])],
         offsets |-> IF placed /\ ~(opt.legacy /\ version = 1)
                     THEN [i \in DOMAIN tracks |->
                              [len |-> tracks[i].len \div 16,
                               at |-> [k \in DOMAIN tracks[i].sectors |->
                                          tracks[i].sectors[k].offset \div 16]]]
                     ELSE << >>,
         stats |-> IF opt.readstats /\ version = 2
                   THEN [i \in DOMAIN tracks |-> puts[i].stats] ELSE << >>]

DskOrNone(tracks, puts, cyls, heads, version, opt) ==
    IF \E i \in DOMAIN tracks : MixedEncoding(tracks[i]) \/ puts[i].said # "yes"
    THEN Fails
    ELSE [said |-> "yes", file |-> DskFile(tracks, puts, cyls, heads, version, opt)]

\* WriteDSK. A track without sectors has no block: its size is 0.
WriteDsk(tracks, cyls, heads, version, opt) ==
    DskOrNone(tracks,
        [i \in DOMAIN tracks |->
            IF tracks[i].sectors = << >> THEN [said |-> "yes"] @@ NoPieces
            ELSE Fitted(tracks[i],
                        Passes(tracks[i].sectors[1].rate, opt.legacy /\ version = 1),
                        opt.paranoia /\ opt.readstats /\ version = 2, TrackBytesOf(version))],
        cyls, heads, version, opt)

-----------------------------------------------------------------------------
(* Reading                                                                 *)

\* How many copies the stored bytes of a sector are, and how long each is.

\* One copy out of the data area; what is there in excess goes.
GetCopy(b, pos, size, native, e, cpd) ==
    LET trimmed == cpd /\ size > native /\ ~e.st2 /\ size % native = 0
        dummy == /\ e.st2 /\ size % native = 1
                 /\ \E i \in DOMAIN b.area : /\ b.area[i].at = pos
                                             /\ b.area[i].len = size /\ b.area[i].mark
    IN  CopyOf(Taken(b.area, pos, size),
               IF trimmed THEN native ELSE IF dummy THEN size - 1 ELSE size, 1)

\* One entry of the list and its data.
GetSector(acc, i, b, f, opt) ==
    LET Copies(e, native, size) ==
            IF e.missing THEN 0
            ELSE IF size > native /\ (e.st2 \/ opt.paranoia) /\ (size % native = 0 \/ size = 49152)
                 THEN IF size = 49152 THEN 3 ELSE size \div native
            ELSE 1
        e == b.list[i]
        native == Natural(e.size)
        extended == f.sig # "DSK"
        size == IF extended THEN e.len ELSE Natural(b.size)
        n == Copies(e, native, size)
        each == IF n > 1 THEN size \div n ELSE size
        badId == e.st1 /\ ~e.st2
        rate == RateOf(IF b.rate = 0 THEN b.misplaced ELSE b.rate)
        clean == [SectorNamed(e.id, e.size) EXCEPT
                     !.badId = badId, !.rate = rate, !.enc = EncodingOf(b.enc),
                     !.gap3 = IF i < Len(b.list) /\ b.gap3 \notin DefaultGaps THEN b.gap3
                              ELSE 0]
        copies == [k \in 1..n |->
                      GetCopy(b, acc.pos + (k - 1) * each, each, native, e,
                              opt.fix /\ f.creator = "CPD")]
        read == FoldLeft(LAMBDA s, c :
                    IF badId \/ e.missing THEN s
                    ELSE AddCopyTo(s, c, e.st2, IF e.deleted THEN "deleted" ELSE "normal",
                                   opt.maxcopies, opt.paranoia),
                    clean, copies)
    IN  [pos |-> acc.pos + n * each, sectors |-> Append(acc.sectors, read)]

GetTrack(b, f, opt) ==
    FoldLeft(LAMBDA acc, i : GetSector(acc, i, b, f, opt), [pos |-> 0, sectors |-> << >>],
             [i \in DOMAIN b.list |-> i])

FileBytes(f) == FoldLeft(LAMBDA n, b : n + b.bytes, 0, f.blocks)

BlockAt(f, pos) ==
    LET at(i) == FoldLeft(LAMBDA n, b : n + b.bytes, 0, SubSeq(f.blocks, 1, i - 1))
        here == {i \in DOMAIN f.blocks : at(i) = pos /\ f.blocks[i].info}
    IN  IF here = {} THEN << >> ELSE << f.blocks[CHOOSE i \in here : TRUE] >>

NextPos(size, used, f) == IF f.sig # "DSK" /\ used # size /\ used % 65536 = size THEN used ELSE size

TakeTrack(acc, i, got, b, f) ==
    LET \* The track at a place, whose sectors end somewhere: the one behind it is looked
        \* for at the end of the size in the index, or of the track if only the low bits
        \* of its size were in there.
        EndOf == ListBytes(Len(b.list)) + got.pos
    IN  IF ~b.short /\ FileBytes(f) - acc.pos < EndOf THEN [acc EXCEPT !.said = "throws"]
        ELSE [acc EXCEPT !.tracks = [t \in {i} |-> TrackOf(0, got.sectors)] @@ @,
                         !.pos = @ + NextPos(IF f.sig = "DSK" THEN f.fixed ELSE f.index[i],
                                             RoundedUp(EndOf), f)]

\* Behind the 40th cylinder the file may end.
NextTrack(acc, i, f, opt) ==
    LET FoundTrack(found) ==
            IF found = << >> THEN [acc EXCEPT !.said = "throws"]
            ELSE TakeTrack(acc, i, GetTrack(found[1], f, opt), found[1], f)
    IN  IF acc.said # "yes" \/ ((i - 1) \div f.heads >= 40 /\ acc.pos = FileBytes(f)) THEN acc
        ELSE FoundTrack(BlockAt(f, acc.pos))

Offsetted(tracks, offsets) ==
    LET \* The offsets at the end of the file, with those near the index moved on.
        Offset(word) == IF word * 16 < 16 THEN 16 ELSE word * 16
    IN  [i \in DOMAIN tracks |->
            [len |-> offsets[i].len * 16,
             sectors |-> [k \in DOMAIN tracks[i].sectors |->
                             [tracks[i].sectors[k] EXCEPT !.offset = Offset(offsets[i].at[k])]]]]

\* The read counts of a sector belong to its copies, of which some may have been
\* dropped.
StatsFit(s, counts, opt) ==
    Len(counts) # Len(s.copies) =>
        \/ opt.paranoia
        \/ Len(s.copies) = opt.maxcopies /\ ~GoodData(s)

Counted(tracks, stats) ==
    [i \in DOMAIN tracks |->
        [tracks[i] EXCEPT !.sectors =
            [k \in DOMAIN @ |-> [@[k] EXCEPT !.copies =
                [c \in DOMAIN @ |-> IF i \in DOMAIN stats /\ c <= Len(stats[i][k])
                                    THEN [@[c] EXCEPT !.reads = stats[i][k][c]] ELSE @[c]]]]]]

TracksAsRead(read, n) ==
    SelectSeq([i \in 1..n |-> IF i \in DOMAIN read.tracks THEN read.tracks[i] ELSE Blank],
              LAMBDA t : TRUE)

WithTail(tracks, f, version, opt) ==
    LET WithStats == f.stats # << >> /\ version = 2
    IN  IF WithStats /\ ~(\A i \in DOMAIN f.stats : \A k \in DOMAIN f.stats[i] :
                                          StatsFit(tracks[i].sectors[k], f.stats[i][k], opt))
        THEN Fails
        ELSE [said |-> "yes",
              tracks |-> Counted(IF f.offsets # << >> THEN Offsetted(tracks, f.offsets) ELSE tracks,
                                 IF WithStats THEN f.stats ELSE << >>)]

DskTracks(read, f, version, opt) ==
    IF read.said # "yes" THEN Fails
    ELSE WithTail(TracksAsRead(read, f.cyls * f.heads), f, version, opt)

\* ReadDSK. The type that is tried first does not know the signature of RDSK.
ReadDsk(f, version, opt) ==
    CASE f.sig \notin {"DSK", "EDSK"} /\ ~(version = 2 /\ f.sig = "RDSK") -> Declines
      [] f.sig = "RDSK" /\ version = 1 -> Declines
      [] f.heads > 2 \/ f.cyls > (IF version = 2 THEN 128 ELSE 102) -> Fails
      [] OTHER ->
            DskTracks(FoldLeft(LAMBDA acc, i : NextTrack(acc, i, f, opt),
                               [said |-> "yes", pos |-> 0, tracks |-> << >>],
                               SelectSeq([i \in 1 .. f.cyls * f.heads |-> i],
                                         LAMBDA i : f.sig = "DSK" \/ f.index[i] # 0)),
                      f, version, opt)
=============================================================================
