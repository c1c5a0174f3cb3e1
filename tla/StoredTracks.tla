---------------------------- MODULE StoredTracks ----------------------------
(***************************************************************************)
(* What the images with tracks of their own keep of a disk: sectors with   *)
(* headers, flags and copies of data (module Sector has their rules), and  *)
(* the bytes of a file as the pieces that were put into it.                *)
(***************************************************************************)
EXTENDS Integers, Sequences, SequencesExt, FiniteSets

\* A sector: its header is a name and a size code, a copy is its contents and
\* how many bytes of them there are.
SectorNamed(id, size) ==
    [id |-> id, size |-> size, badId |-> FALSE, copies |-> << >>, bad |-> FALSE,
     dam |-> "normal", offset |-> 0, gap3 |-> 0, rate |-> "250K", enc |-> "MFM"]

CopyOf(data, len, reads) == [data |-> data, len |-> len, reads |-> reads]

\* Sector::SizeCodeToLength.
Natural(size) == 128 * 2 ^ (IF size <= 7 THEN size ELSE 8)

SizeOf(s) == Natural(s.size)
DataLen(s) == IF s.copies = << >> THEN 0 ELSE s.copies[1].len

GoodData(s) == s.copies # << >> /\ ~s.bad /\ DataLen(s) <= SizeOf(s)

WithData(s, data, len) == [s EXCEPT !.copies = << CopyOf(data, len, 1) >>]
WithBad(s, data, len) == [WithData(s, data, len) EXCEPT !.bad = TRUE]
WithDam(s, dam) == [s EXCEPT !.dam = dam]

WithoutData(s) == [s EXCEPT !.copies = << >>, !.bad = FALSE, !.dam = "normal"]
BadHeader(s) == [WithoutData(s) EXCEPT !.badId = TRUE]

\* Sector::add of a copy of the same CRC state: one that is there already, one
\* too many, and a second good one unless asked for is dropped; all are as long
\* as the shortest.
AddCopyTo(s, copy, bad, dam, max, several) ==
    LET same == \E i \in DOMAIN s.copies : s.copies[i].data = copy.data
        len == IF s.copies = << >> THEN copy.len
               ELSE IF copy.len < DataLen(s) THEN copy.len ELSE DataLen(s)
    IN  IF s.badId \/ same \/ Len(s.copies) >= max
           \/ (s.copies # << >> /\ ~s.bad /\ ~several)
        THEN s
        ELSE [s EXCEPT !.copies = [i \in 1 .. Len(@) + 1 |->
                           [(IF i <= Len(@) THEN @[i] ELSE copy) EXCEPT !.len = len]],
                       !.bad = bad, !.dam = dam]

TrackOf(len, sectors) == [len |-> len, sectors |-> sectors]
Blank == TrackOf(0, << >>)

Is8KTrack(t) ==
    /\ Len(t.sectors) = 1
    /\ t.sectors[1].rate = "250K" /\ t.sectors[1].enc = "MFM" /\ t.sectors[1].size = 6
    /\ t.sectors[1].copies # << >>

MixedEncoding(t) == \E i \in DOMAIN t.sectors : t.sectors[i].enc # t.sectors[1].enc

\* Bytes of one revolution at 300 rpm, or 360 at 300 Kbps.
Capacity(rate, enc) ==
    LET raw == CASE rate \in {"250K"} -> 6250
                 [] rate = "300K" -> 6249
                 [] rate = "500K" -> 12500
                 [] OTHER -> 25000
    IN  ((IF enc = "FM" THEN raw \div 2 ELSE raw) * 1995) \div 2000

\* The most frequent value of a field, the first one to reach the number.
MostFrequent(values, default) ==
    LET times(v) == Len(SelectSeq(values, LAMBDA w : w = v))
        best == {v \in ToSet(values) : \A w \in ToSet(values) : times(w) <= times(v)}
        firsts == SelectSeq(values, LAMBDA v : v \in best)
    IN  IF values = << >> THEN default ELSE firsts[1]

-----------------------------------------------------------------------------
\* A piece of a file: contents that take so many bytes, and where they start.
Piece(data, len) == [data |-> data, len |-> len]

Total(pieces) == FoldLeft(LAMBDA n, p : n + p.len, 0, pieces)

LaidOut(pieces) ==
    FoldLeft(LAMBDA acc, p : [at |-> acc.at + p.len,
                              pieces |-> Append(acc.pieces, [at |-> acc.at] @@ p)],
             [at |-> 0, pieces |-> << >>], pieces).pieces

\* What n bytes at a position are: the first bytes of the piece that starts
\* there, or a mixture.
Taken(pieces, pos, n) ==
    LET here == {i \in DOMAIN pieces : pieces[i].at = pos /\ n <= pieces[i].len}
    IN  IF n = 0 THEN "nothing"
        ELSE IF here # {} THEN pieces[CHOOSE i \in here : TRUE].data ELSE "mixture"

Fails == [said |-> "throws"]
Declines == [said |-> "no"]
=============================================================================
