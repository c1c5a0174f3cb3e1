---------------------------- MODULE ReadingPolicy ----------------------------
(***************************************************************************)
(* What a caller wants of a device (class DeviceReadingPolicy): the wanted *)
(* sector numbers, the sectors that need not be read again, and whether    *)
(* sectors beyond the wanted ones are looked for.  The answer to the one   *)
(* expensive question is remembered in the policy.  A sector is known by   *)
(* its place on the track; IdOf gives the number in its header.            *)
(***************************************************************************)
EXTENDS Integers

CONSTANTS
    Sites,        \* the places of sectors on the track, in their order
    IdOf          \* the sector number in the header at a place

ASSUME ReadingPolicyAssumption ==
    /\ Sites \subseteq Int
    /\ IdOf \in [Sites -> Int]

Ids == {IdOf[s] : s \in Sites}

DeviceReadingPolicy ==
    [wanted : SUBSET Int, skippable : SUBSET Sites, lookForPossible : BOOLEAN,
     emptyValid : BOOLEAN, empty : BOOLEAN]

PolicyFor(wanted, skippable, lookForPossible) ==
    [wanted |-> wanted, skippable |-> skippable, lookForPossible |-> lookForPossible,
     emptyValid |-> FALSE, empty |-> FALSE]

\* Every wanted number is the number of a skippable sector.
NothingUnskippable(p) == p.wanted \subseteq {IdOf[s] : s \in p.skippable}

\* The remembered answer, if there is one, is right.
RemembersTruth(p) == p.emptyValid => p.empty = NothingUnskippable(p)

UnskippableWantedEmpty(p) == IF p.emptyValid THEN p.empty ELSE NothingUnskippable(p)

WantMoreSectors(p) == p.lookForPossible \/ ~UnskippableWantedEmpty(p)

\* What asking WantMoreSectors does to the policy.
Wondered(p) ==
    IF p.lookForPossible THEN p
    ELSE [p EXCEPT !.empty = UnskippableWantedEmpty(p), !.emptyValid = TRUE]

\* Mutant: the remembered answer stays when sectors are added.
AddSkippableSectors_Remembers(p, sectors) ==
    [p EXCEPT !.skippable = @ \cup sectors]

AddSkippableSectors(p, sectors) ==
    IF sectors = {} THEN p
    ELSE [p EXCEPT !.skippable = @ \cup sectors, !.emptyValid = FALSE]

\* The remembered answer stays.
RemoveSkippableSector(p, s) == [p EXCEPT !.skippable = @ \ {s}]

SetWantedSectors(p, wanted) ==
    [p EXCEPT !.wanted = wanted, !.emptyValid = FALSE,
              !.lookForPossible = @ \/ wanted = {}]

=============================================================================
