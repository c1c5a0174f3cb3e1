------------------------------ MODULE TracksMC ------------------------------
(***************************************************************************)
(* Small instances of the modules about tracks, one unit in each           *)
(* behaviour: the assembly of a damaged track, the representations of      *)
(* tracks, and a sector filled by decoders.                                *)
(***************************************************************************)
EXTENDS TrackAssembly, TrackData, SectorMC

VARIABLE unit    \* what is at work

(***************************************************************************)
(* A ring of 90 bits with three sectors and one of another cylinder.       *)
(***************************************************************************)

SomeIds == 1..4

SomePlaceOf(id) == <<4, 34, 64, 4>>[id]

SomeDataOf(id) == 10 + id

SomeGoods == 11..14

Seen(id, off) == At(id, off, << >>)

\* Headers seen exactly, a bit early or late, missed, at a second place, or misread.
SomeScans ==
    {[k \in DOMAIN ids |-> Seen(ids[k], SomePlaceOf(ids[k]))] :
        ids \in {<<1, 2, 3>>, <<1, 3>>, <<2, 3>>}}
        \cup {<<Seen(1, 4), Seen(2, 35), Seen(3, 63)>>, <<Seen(1, 4), Seen(2, 42), Seen(3, 64)>>,
              <<Seen(1, 4), Seen(2, 26), Seen(3, 64)>>,
              <<Seen(1, 4), Seen(4, 6), Seen(3, 64)>>, <<Seen(4, 3), Seen(2, 34), Seen(3, 64)>>}

Mark(kind, id, off) ==
    [kind |-> kind, id |-> IF kind = "id" THEN id ELSE 0, off |-> off,
     data |-> IF kind = "id" THEN << >> ELSE <<SomeDataOf(id)>>]

\* The marks of 150 bits from start on, without the headers of one sector.
MarksFrom(start, lost) ==
    LET seen == {m \in {Mark("id", i, SomePlaceOf(i) - start + 90 * r) : i \in (1..3) \ {lost}, r \in 0..2}
                       \cup {Mark("data", i, SomePlaceOf(i) + 5 - start + 90 * r) : i \in 1..3, r \in 0..2} :
                    m.off \in 1..149}
        offs == SelectSeq([o \in 1..149 |-> o], LAMBDA o : \E m \in seen : m.off = o)
    IN  [k \in DOMAIN offs |-> CHOOSE m \in seen : m.off = offs[k]]

SomeReadings == {MarksFrom(start, lost) : start \in {0, 35, 50}, lost \in 0..3}

ASSUME ScansAndReadingsFit == InputsFit

(***************************************************************************)
(* Two tracks with up to two encodings each.                               *)
(***************************************************************************)

SomeContents ==
    LET seen == [enc : {"MFM", "Amiga", "GCR", "Victor"}, good : BOOLEAN]
    IN  {c \in SUBSET seen : Cardinality(c) <= 2}

(***************************************************************************)
(* All units                                                               *)
(***************************************************************************)

\* A unit that is not at work stays as it begins.
UnitInit ==
    /\ unit \in {"assembly", "data", "sector"}
    /\ AssemblyInit /\ DataInit
    /\ IF unit = "sector" THEN Init
       ELSE sector = NewSector(FALSE) /\ merging = Idle /\ status = "Unchanged"

InAssembly == unit = "assembly" /\ UNCHANGED <<unit, dataVars, vars>>
InData == unit = "data" /\ UNCHANGED <<unit, assemblyVars, vars>>
InSector == unit = "sector" /\ UNCHANGED <<unit, assemblyVars, dataVars>>

UnitNext ==
    \/ InAssembly /\ AssemblyNext
    \/ InData /\ DataNext
    \/ InSector /\ Next

UnitSpec == UnitInit /\ [][UnitNext]_<<unit, assemblyVars, dataVars, vars>>
=============================================================================
