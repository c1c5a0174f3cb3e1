------------------------------ MODULE SectorMC ------------------------------
(***************************************************************************)
(* Small instances of Sector: the reads a disk controller and a flux       *)
(* decoder deliver, and the sectors other readings can hold.               *)
(***************************************************************************)
EXTENDS Sector

Read(d, bad, dam) == [data |-> d, bad |-> bad, dam |-> dam]

\* A controller always returns the natural size.  In paranoia mode a good CRC can
\* cover wrong data (<<2, 2>>), and the same data can be read with a CRC error.
DeviceReads ==
    {Read(d, FALSE, Normal) : d \in {<<1, 1>>, <<2, 2>>}}
        \cup {Read(d, TRUE, Normal) : d \in {<<1, 1>>, <<1, 2>>, <<2, 1>>}}
        \cup {Read(<<1, 1>>, FALSE, Deleted), Read(<<1, 2>>, TRUE, Deleted)}

\* A decoder returns what lies between two marks: short data, data with the gap
\* behind it (whose CRC can still be good), and damaged address marks.
DecoderReads ==
    {Read(d, FALSE, Normal) : d \in {<<1, 1>>, <<1, 1, 3>>, <<1, 1, 4>>}}
        \cup {Read(d, TRUE, Normal) : d \in {<<1>>, <<2>>, <<1, 2>>, <<1, 1, 3>>, <<2, 2, 3>>}}
        \cup {Read(<<1, 2, 4>>, TRUE, Deleted), Read(<<2, 2>>, TRUE, OtherDam)}

NoneRecognised == {}

\* What one or two reads make of a new sector.  Copies of good data side by side
\* are kept in paranoia mode only.
OneCopy(r, count, attempts, constant) ==
    [NewSector(constant) EXCEPT !.copies = <<r.data>>, !.stats = <<count>>,
        !.badDataCrc = r.bad, !.dam = r.dam, !.readAttempts = attempts]

TwoCopies(r, q, constant) ==
    LET size == Min({Len(r.data), Len(q.data)})
    IN  [NewSector(constant) EXCEPT
            !.copies = <<SubSeq(r.data, 1, size), SubSeq(q.data, 1, size)>>,
            !.stats = <<1, 1>>, !.badDataCrc = r.bad, !.dam = r.dam, !.readAttempts = 2]

Beside(r, q) ==
    /\ r.bad = q.bad /\ r.dam = q.dam
    /\ r.bad \/ Paranoia
    /\ ~IsPrefix(r.data, q.data) /\ ~IsPrefix(q.data, r.data)

OtherSectors(reads, constant) ==
    {NewSector(constant), SetBadIdCrc(NewSector(constant), TRUE)}
        \cup {OneCopy(r, 1, m, constant) : r \in reads, m \in {1, 2}}
        \cup {OneCopy(r, 2, 2, constant) : r \in reads}
        \cup {TwoCopies(rq[1], rq[2], constant) :
                 rq \in {x \in reads \X reads : Beside(x[1], x[2])}}

DeviceOthers == OtherSectors(DeviceReads, FALSE) \cup OtherSectors(DeviceReads, TRUE)
DecoderOthers == OtherSectors(DecoderReads, FALSE)

\* What the theorems about stable data assume holds of a controller's readings.
ASSUME DeviceIsNatural == Reads = DeviceReads => NaturalSizes /\ NoGapRead

\* Readings of a disk that was made from an image count in rates, the others in
\* reads; the runs do not merge one kind into the other.
OneKind == merging.active => merging.from.constantDisk = sector.constantDisk

=============================================================================
