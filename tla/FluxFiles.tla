----------------------------- MODULE FluxFiles -----------------------------
(***************************************************************************)
(* Images of bits and of flux (src/src/types): HFE and MFI, read and       *)
(* written, and SCP, KryoFlux streams, DFI, A2R, WOZ, CWTool and IPF.      *)
(* A revolution is the sequence of its times between reversals; the files  *)
(* keep them in words of their own with a carry.  Of MFI, SCP, DFI and A2R *)
(* a track is decoded when it is first asked for, and again when it is     *)
(* read again.                                                             *)
(***************************************************************************)
EXTENDS StoredTracks

CONSTANTS
    MfiWhole,   \* times of a revolution in an MFI file add up to this (200000000)
    DfiMinute   \* ticks of one MHz in a minute (60000000)

ASSUME FluxAssumption == MfiWhole \in Nat \ {0} /\ DfiMinute \in Nat \ {0}

TimeIn(times) == FoldLeft(LAMBDA a, b : a + b, 0, times)

Loaded(at, revs) == [at |-> at, revs |-> revs]

\* Words to times: a word that is a carry adds to the time, any other ends it.
\* What is left behind the last one is dropped.
FromWords(words, IsCarry(_), Value(_), unit) ==
    FoldLeft(LAMBDA acc, w :
                 IF IsCarry(w) THEN [acc EXCEPT !.time = @ + Value(w)]
                 ELSE [time |-> 0, out |-> Append(acc.out, (acc.time + Value(w)) * unit)],
             [time |-> 0, out |-> << >>], words).out

-----------------------------------------------------------------------------
(* HFE: the two sides of a cylinder in turns of 256 bytes, under one length*)

HfeRate(rate) == CASE rate = "250K" -> 250 [] rate = "300K" -> 300 [] rate = "500K" -> 500
                   [] OTHER -> 1000

\* The tracks of a cylinder have the length of the longer one.

HfeLength(sides) ==
    CHOOSE n \in {sides[h].len : h \in DOMAIN sides} :
        \A h \in DOMAIN sides : sides[h].len <= n

\* Behind the end of a shorter side come filler bytes to the end of the turn, and
\* then what the buffer held of other cylinders.
HfeTail(len, whole) ==
    LET UpTo256(n) == ((n + 255) \div 256) * 256
    IN  IF len = whole THEN "none" ELSE IF whole <= UpTo256(len) THEN "filler" ELSE "stale"

WriteHFE(sides, heads) ==
    LET cyls == Len(sides) \div heads
        of(c) == SubSeq(sides, heads * (c - 1) + 1, heads * c)
    IN  [said |-> "yes",
         file |-> [sig |-> "HFE", revision |-> 0, cyls |-> cyls, heads |-> heads,
                   kbps |-> IF sides[1].len = 0 THEN 250 ELSE HfeRate(sides[1].rate),
                   lens |-> [c \in 1..cyls |-> (2 * HfeLength(of(c))) % 65536],
                   sides |-> sides]]

ReadHFE(f) ==
    LET rate == CASE f.kbps \in 240..260 -> "250K" [] f.kbps \in 290..310 -> "300K"
                  [] f.kbps \in 490..510 -> "500K" [] OTHER -> "none"
        whole(i) == f.lens[((i - 1) \div f.heads) + 1] \div 2
    IN  IF f.revision # 0 \/ rate = "none" THEN Fails
        ELSE [said |-> "yes",
              tracks |-> [i \in DOMAIN f.sides |->
                  LET s == f.sides[i]
                      used == IF s.len < whole(i) THEN s.len ELSE whole(i)
                  IN  [rate |-> rate, len |-> used, data |-> s.data,
                       tail |-> HfeTail(used, whole(i))]]]

-----------------------------------------------------------------------------
(* MFI                                                                     *)

\* The times scaled to add up to the whole, what is left over as one more.
\* Mutant: what is left over is dropped.
MfiScaled_NoRest(times) ==
    LET total == TimeIn(times) IN [i \in DOMAIN times |-> (MfiWhole * times[i]) \div total]

MfiScaled(times) ==
    LET total == TimeIn(times)
        scaled == SelectSeq([i \in DOMAIN times |-> (MfiWhole * times[i]) \div total],
                            LAMBDA t : TRUE)
        rest == MfiWhole - TimeIn(scaled)
    IN  IF rest > 0 THEN Append(scaled, rest) ELSE scaled

\* One entry more than there were times is stored: when nothing was left over,
\* the word behind the last one.
WriteMFI(tracks, cyls, heads, beyond) ==
    [said |-> "yes",
     file |-> [sig |-> "MFI", cyls |-> cyls, heads |-> heads, fine |-> FALSE, packed |-> TRUE,
               tracks |-> [i \in DOMAIN tracks |->
                   LET scaled == MfiScaled(tracks[i].revs[1])
                   IN  Loaded(tracks[i].at,
                              IF Len(scaled) = Len(tracks[i].revs[1])
                              THEN << Append(scaled, beyond) >> ELSE << scaled >>)]]]

ReadMFI(f) ==
    CASE f.fine -> Fails
      [] ~f.fine /\ (f.cyls > 84 \/ f.heads > 2 \/ ~f.packed) -> Declines
      [] OTHER -> [said |-> "yes", tracks |-> f.tracks]

LoadMFI(t) ==
    IF t.revs = << >> THEN [said |-> "yes", track |-> t]
    ELSE IF TimeIn(t.revs[1]) # MfiWhole THEN Fails ELSE [said |-> "yes", track |-> t]

-----------------------------------------------------------------------------
(* SCP                                                                     *)

ScpTimes(words) ==
    FromWords(words, LAMBDA w : w = 0, LAMBDA w : IF w = 0 THEN 65536 ELSE w, 25)

\* Older images of one side have its tracks one behind the other.
ScpTable(f, opt) ==
    LET \* Are the entries of the side that is not there empty? Index 0 is the first one
        \* looked at, which for side 1 is the second of the table.
        ScpValidTable(table, heads) ==
            LET match == IF heads = 1 THEN 0 ELSE 1
            IN  \A i \in match + 1 .. Len(table) :
                    (i - match - 1) % 2 = match \/ table[i] = << >>
        match == IF f.heads = 1 THEN 0 ELSE 1
        rebuild == f.heads > 0 /\ ~ScpValidTable(f.table, f.heads) /\ opt.fix
    IN  IF rebuild
        THEN [times |-> 2, table |-> [i \in 1 .. 2 * Len(f.table) |->
                 IF (i - 1) % 2 = match THEN f.table[(i - 1 - match) \div 2 + 1] ELSE << >>]]
        ELSE [times |-> 1, table |-> f.table]

ReadSCP(f, opt) ==
    LET fixed == ScpTable(f, opt)
        used == SelectSeq([i \in DOMAIN fixed.table |-> i], LAMBDA i : fixed.table[i] # << >>)
        entry(n) == fixed.table[used[n]][1]
    IN  IF \/ f.extended \/ f.revolutions \notin 1..10 \/ f.heads > 2
           \/ \E n \in DOMAIN used : entry(n).number * fixed.times # used[n] - 1
        THEN Fails
        ELSE [said |-> "yes",
              tracks |-> [n \in DOMAIN used |->
                  Loaded(<<(used[n] - 1) \div 2, (used[n] - 1) % 2>>, entry(n).words)]]

LoadSCP(t) == [said |-> "yes", track |-> Loaded(t.at, [r \in DOMAIN t.revs |-> ScpTimes(t.revs[r])])]

-----------------------------------------------------------------------------
(* KryoFlux streams, a file for each track                                 *)

StreamCode(acc, c) ==
    LET \* A code of the stream: a flux of one to three bytes, some bytes of nothing, a
        \* carry, or one out of band, which takes no place in the stream.
        StreamBytes ==
            CASE c.kind = "flux" -> c.bytes [] c.kind = "nop" -> c.bytes [] c.kind = "carry" -> 1
              [] OTHER -> 0
        counts == [k \in {acc.pos} |-> Len(acc.times)] @@ acc.counts
        next == acc.pos + StreamBytes
    IN  CASE acc.ended -> acc
          [] ~acc.ended /\ c.kind = "flux" ->
                [acc EXCEPT !.counts = counts, !.pos = next, !.time = 0,
                            !.times = Append(@, acc.time + c.value)]
          [] ~acc.ended /\ c.kind = "carry" ->
                [acc EXCEPT !.counts = counts, !.pos = next, !.time = @ + 65536]
          [] ~acc.ended /\ c.kind = "index" ->
                [acc EXCEPT !.counts = counts, !.indexes = Append(@, c.value)]
          [] ~acc.ended /\ c.kind = "end" -> [acc EXCEPT !.ended = TRUE]
          [] OTHER -> [acc EXCEPT !.counts = counts, !.pos = next]

\* DecodeStream: the revolutions between two indexes, without what comes before
\* the first one.
Between(times, at) ==
    LET whole == SelectSeq([i \in DOMAIN at |-> i], LAMBDA i : i > 1 /\ at[i - 1] # 0)
    IN  [n \in DOMAIN whole |-> SubSeq(times, at[whole[n] - 1] + 1, at[whole[n]])]

RevolutionsOf(read) ==
    LET \* The number of times before the position of an index, or before the last
        \* position where some were counted.
        CountAt(counts, pos) ==
            LET known == {p \in DOMAIN counts : p <= pos /\ counts[p] > 0}
            IN  IF known = {} THEN 0
                ELSE counts[CHOOSE p \in known : \A q \in known : q <= p]
    IN  Between(read.times, [i \in DOMAIN read.indexes |-> CountAt(read.counts, read.indexes[i])])

Revolutions(codes) ==
    RevolutionsOf(FoldLeft(StreamCode,
        [pos |-> 0, time |-> 0, times |-> << >>, counts |-> << >>, indexes |-> << >>,
         ended |-> FALSE], codes))

\* All files of the same name with the numbers of a cylinder and a head.
ReadSTREAM(f) ==
    IF ~f.numbered \/ ~f.outOfBand THEN Declines
    ELSE [said |-> "yes",
          tracks |-> [i \in DOMAIN f.tracks |->
                         Loaded(f.tracks[i].at, Revolutions(f.tracks[i].codes))]]

-----------------------------------------------------------------------------
(* DFI                                                                     *)

DfiTicksToIndex(bytes) ==
    LET ends == SelectSeq([i \in DOMAIN bytes |-> i], LAMBDA i : bytes[i] >= 128)
        last == IF ends = << >> THEN Len(bytes) ELSE ends[1]
    IN  TimeIn([i \in 1..last |-> bytes[i] % 128])

\* The clock of the device, of which 285 to 380 revolutions a minute come out.
DfiTick(bytes) ==
    LET fits == SelectSeq(<<25, 50, 100>>, LAMBDA mhz :
                    (DfiMinute * mhz) \div DfiTicksToIndex(bytes) \in 285..380)
    IN  IF fits = << >> THEN 0 ELSE 1000 \div fits[1]

ReadDFI(f) ==
    LET tick == DfiTick(f.tracks[1].revs[1])
    IN  IF f.old \/ f.hard \/ f.short \/ tick = 0 THEN Fails
        ELSE [said |-> "yes", tracks |-> f.tracks, tick |-> tick]

LoadDFI(t, tick) ==
    LET \* 127 is a carry, a byte with the high bit an index.
        DfiByte(acc, b) ==
            CASE b >= 128 -> [acc EXCEPT !.revs = Append(@, acc.times), !.times = << >>]
              [] b = 127 -> [acc EXCEPT !.time = @ + 127]
              [] OTHER -> [acc EXCEPT !.times = Append(@, (acc.time + b) * tick), !.time = 0]
        read == FoldLeft(LAMBDA acc, b : DfiByte(acc, b),
                         [revs |-> << >>, times |-> << >>, time |-> 0], t.revs[1])
    IN  [said |-> "yes",
         track |-> Loaded(t.at, IF t.revs[1] = << >> THEN << >>
                                ELSE IF read.times = << >> THEN read.revs
                                ELSE Append(read.revs, read.times))]

-----------------------------------------------------------------------------
(* A2R                                                                     *)

A2rHeader == 10

\* The captures of whole tracks that are not of another kind, the first of each.
\* Taken are the bytes from the header of the capture on, as many as it has data.
ReadA2R(f) ==
    LET fits == SelectSeq([i \in DOMAIN f.captures |-> i], LAMBDA i :
                    /\ f.captures[i].location % 4 = 0 /\ f.captures[i].type # 2
                    /\ \A k \in 1 .. i - 1 :
                           f.captures[k].location = f.captures[i].location =>
                               f.captures[k].type = 2)
        bytes(c) == SubSeq(c.header \o c.data, 1, Len(c.data))
    IN  IF ~f.whole THEN Declines
        ELSE [said |-> "yes",
              tracks |-> [n \in DOMAIN fits |->
                  LET c == f.captures[fits[n]]
                  IN  [at |-> <<c.location \div 4, 0>>, revs |-> << bytes(c) >>, loop |-> c.loop]]]

A2rByte(acc, b, loop) ==
    LET time == acc.time + b
        ticks == acc.ticks + time
        times == Append(acc.times, time * 125)
    IN  CASE b = 255 -> [acc EXCEPT !.time = time]
          [] b # 255 /\ ticks >= loop ->
                [time |-> 0, ticks |-> ticks - loop, times |-> << >>, revs |-> Append(acc.revs, times)]
          [] OTHER -> [acc EXCEPT !.time = 0, !.ticks = ticks, !.times = times]

LoadA2R(t) ==
    LET read == FoldLeft(LAMBDA acc, b : A2rByte(acc, b, t.loop),
                         [time |-> 0, ticks |-> 0, times |-> << >>, revs |-> << >>], t.revs[1])
    IN  [said |-> "yes",
         track |-> Loaded(t.at, IF t.revs[1] = << >> THEN << >>
                                ELSE Append(read.revs, read.times))]

-----------------------------------------------------------------------------
(* WOZ: a map of quarter tracks, or of tracks of 3.5" disks, to the tracks *)
(* that are stored; a track goes by the number of what is stored.          *)

ReadWOZ(f) ==
    LET step == IF f.small THEN 4 ELSE 1
        n == Len(f.stored)
        used == SelectSeq([i \in DOMAIN f.map |-> i - 1], LAMBDA i :
                    i % step = 0 /\ f.map[i + 1] < n)
    IN  IF ~f.whole THEN Declines
        ELSE IF \E k \in DOMAIN f.stored : ~f.stored[k].consistent THEN Fails
        ELSE [said |-> "yes",
              tracks |-> [k \in DOMAIN used |->
                  [at |-> <<f.map[used[k] + 1], (used[k] \div step) \div n>>,
                   data |-> f.stored[f.map[used[k] + 1] + 1].data]]]

-----------------------------------------------------------------------------
(* CWTool                                                                  *)

CwTrack(t) ==
    LET CwTime(b, plain, clock) ==
            LET CwClock == 14161 * 2 ^ clock
                picoseconds == 2000000000 \div CwClock
            IN  ((b + (IF plain THEN 0 ELSE 1)) * picoseconds) \div 1000
        \* A rising index ends a revolution.
        CwByte(acc, b) ==
            LET index == b >= 128
                new == index /\ ~acc.index /\ acc.times # << >>
                time == CwTime(b % 128, t.plain, t.clock)
            IN  [index |-> index,
                 revs |-> IF new THEN Append(acc.revs, acc.times) ELSE acc.revs,
                 times |-> IF new THEN <<time>> ELSE Append(acc.times, time)]
        read == FoldLeft(LAMBDA acc, b : CwByte(acc, b),
                         [index |-> FALSE, revs |-> << >>, times |-> << >>], t.bytes)
        plain == [i \in DOMAIN t.bytes |-> CwTime(t.bytes[i], t.plain, t.clock)]
    IN  IF ~t.indexed THEN (IF plain = << >> THEN << >> ELSE << plain >>)
        ELSE IF read.times = << >> THEN read.revs ELSE Append(read.revs, read.times)

\* The number of sides is guessed from the number of tracks in the file, of which
\* one may be stored several times: the last one stays.
ReadCWTOOL(f) ==
    LET heads == IF Len(f.tracks) > 85 THEN 2 ELSE 1
        last == SelectSeq([i \in DOMAIN f.tracks |-> i], LAMBDA i :
                    \A k \in i + 1 .. Len(f.tracks) : f.tracks[k].number # f.tracks[i].number)
    IN  CASE ~f.raw -> Declines
          [] f.raw /\ (f.version # 3 \/ \E i \in DOMAIN f.tracks :
                           ~f.tracks[i].aligned \/ f.tracks[i].clock > 2) -> Fails
          [] OTHER -> [said |-> "yes",
                 tracks |-> [n \in DOMAIN last |->
                     LET t == f.tracks[last[n]]
                     IN  Loaded(<<t.number \div heads, t.number % heads>>, CwTrack(t))]]

-----------------------------------------------------------------------------
(* IPF: the library gives each revolution of a track, as bits or with the  *)
(* times of its bits, or fails.                                            *)

IpfTrack(t, raw) ==
    LET wanted == IF raw THEN 5 ELSE IF t.weak THEN 2 ELSE 1
        given == SubSeq(t.revs, 1, IF Len(t.revs) < wanted THEN Len(t.revs) ELSE wanted)
        stops == SelectSeq([i \in DOMAIN given |-> i], LAMBDA i : given[i].kind \in {"fails", "noise"})
        used == IF stops = << >> THEN given ELSE SubSeq(given, 1, stops[1] - 1)
    IN  Loaded(t.at, [i \in DOMAIN used |-> used[i].data])

ReadIPF(f, opt) ==
    LET unformatted == {i \in DOMAIN f.tracks :
            f.tracks[i].at[2] = 1 /\ f.tracks[i].revs # << >> /\ f.tracks[i].revs[1].kind = "noise"}
        oneSide == opt.fix /\ Cardinality(unformatted) = f.cyls
    IN  IF ~f.library \/ ~f.locked THEN Fails
        ELSE [said |-> "yes",
              tracks |-> LET all == [i \in DOMAIN f.tracks |-> IpfTrack(f.tracks[i], f.raw)]
                         IN  IF oneSide THEN SelectSeq(all, LAMBDA t : t.at[2] = 0) ELSE all]
=============================================================================
