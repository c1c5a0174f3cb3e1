---------------------------- MODULE FdrawDiskMC -----------------------------
(***************************************************************************)
(* Small instances of the two ways the floppy driver disk reads a track,   *)
(* sector by sector or by the rescuing method, beside each other: which    *)
(* one is at work is chosen at the start, the other one stands still.      *)
(***************************************************************************)
EXTENDS FdrawReadSectors, RescueTrack

\* Reading sector by sector: a plain amount, and one that starts over after a
\* change; the smallest one that does.
PlainAndChange == {1, -2}

MinusOne == {-1}

\* Rescuing: two sectors of the track and, between them, one of the neighbor
\* cylinder with the number of the second.
ThreeSites == {1, 2, 3}

Numbers == [s \in ThreeSites |-> IF s = 1 THEN 1 ELSE 2]

MisreadSite == {2}

\* Anything on the track, the first sector is known; both numbers and no others,
\* which was asked before as Disk::TransferTrack does, also with the first one known.
SomeRequests ==
    {PolicyFor({}, {1}, TRUE), Wondered(PolicyFor({1, 2}, {}, FALSE)),
     Wondered(PolicyFor({1, 2}, {1}, FALSE))}

\* Rescans, then retries; the larger one starts over or not, the other way round.
SomeAmounts == {<<-1, 2>>, <<0, -2>>}

\* An amount that starts over, for the physical readings.
BelowZero == {<<0, -2>>}

\* A sector found in the physical track has good data; headers alone are found by
\* the timed scans, data with errors by the commands.
GoodIfFound == {0, 3}

OneAndTwo == {1, 2}

-----------------------------------------------------------------------------

VARIABLE unit    \* what is at work

allVars == <<unit, readVars, vars>>

\* The unit that stands still has one state.
DiskInit ==
    /\ ReadInit /\ Init
    /\ \/ /\ unit = "sectors"
          /\ request = PolicyFor({}, {1}, TRUE) /\ amounts = <<0, -2>>
       \/ unit = "rescue" /\ amount = 1

SectorsStep == unit = "sectors" /\ ReadNext /\ UNCHANGED <<unit, vars>>

RescueStep == unit = "rescue" /\ Next /\ UNCHANGED <<unit, readVars>>

DiskNext == SectorsStep \/ RescueStep

\* The fairness of both modules for the unit at work.
DiskSpec ==
    /\ DiskInit /\ [][DiskNext]_allVars
    /\ WF_allVars(unit = "sectors" /\ ReadOn /\ UNCHANGED <<unit, vars>>)
    /\ WF_allVars(unit = "rescue" /\ Proceed /\ UNCHANGED <<unit, readVars>>)

=============================================================================
