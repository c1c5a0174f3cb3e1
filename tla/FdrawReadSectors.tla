-------------------------- MODULE FdrawReadSectors --------------------------
(***************************************************************************)
(* Reading the sectors of a track with the floppy controller, one command  *)
(* per sector and turn (FdrawSysDevDisk::ReadSectors).  Every sector has a *)
(* retry counter of its own; the rounds go on until no counter grants a    *)
(* read.  The sectors were found by a scan of the headers; their data is   *)
(* kept by Sector::add, of which only good copies and their read counts    *)
(* are modelled here.                                                      *)
(***************************************************************************)
EXTENDS RetryPolicy, FiniteSets

CONSTANTS
    Sup,              \* number of sectors to read, iSup
    ReadAmounts,      \* values the option retries can have
    Versions,         \* good data the controller can deliver
    MaxCopies,        \* option maxcopies
    Paranoia,         \* option paranoia
    StabilityLevel,   \* option stability_level
    Overlapping,      \* sectors whose data overlaps the next field
    EightK            \* the track has one sector of 8K

ASSUME FdrawReadSectorsAssumption ==
    /\ Sup \in Nat /\ ReadAmounts \subseteq Int
    /\ MaxCopies \in Nat \ {0}
    /\ Paranoia \in BOOLEAN /\ EightK \in BOOLEAN
    /\ StabilityLevel \in Int

Indices == 1..Sup

\* A counter that is set to zero, whatever it was.
GivenUp == OptionPolicy(0)

\* How often each good data was read; a copy is kept of those read at all.
NoCounts == [v \in Versions |-> 0]

\* Of the read attempts it is known whether there were any.
Sector ==
    [badId : BOOLEAN, data : {"none", "bad", "good"}, counts : [Versions -> Nat],
     tried : BOOLEAN]

Scanned(badId) == [badId |-> badId, data |-> "none", counts |-> NoCounts, tried |-> FALSE]

HasStableData(s) ==
    /\ s.data = "good"
    /\ Paranoia => \E v \in Versions : s.counts[v] > 0 /\ s.counts[v] >= StabilityLevel

\* Counting a good read: a kept copy matches, there is room for a new one, or not.
CountedRead(counts, v) ==
    LET copies == {w \in Versions : counts[w] > 0}
    IN  IF v \in copies \/ Cardinality(copies) < MaxCopies
        THEN [counts EXCEPT ![v] = @ + 1]
        ELSE counts

\* Sector::add of good data, after bad data or before any the only copy.
AddGood(s, v) ==
    [s EXCEPT !.data = "good", !.tried = TRUE,
              !.counts = CountedRead(IF s.data = "good" THEN s.counts ELSE NoCounts, v)]

\* Sector::add of bad data, which good data refuses.
AddBad(s) ==
    [s EXCEPT !.data = IF s.data = "good" THEN "good" ELSE "bad", !.tried = TRUE]

-----------------------------------------------------------------------------
VARIABLES
    amount,          \* opt_retries
    stage,           \* "idle", or "turn" inside the loops
    pos,             \* the loop variable i, from 1
    thereWasRetry,   \* a counter granted a read in this round
    retries,         \* sectorRetries
    sectors,         \* the sectors of the track
    reads,           \* commands issued per sector, for the properties
    accepted         \* sectors given up on before their retries were used up

readVars == <<amount, stage, pos, thereWasRetry, retries, sectors, reads, accepted>>

\* Five reads per retry and one for the check that precedes every read.
Special ==
    PolicyOf(OptionPolicy(amount).retryTimes * 5 + 1, OptionPolicy(amount).sinceLastChange)

\* The reads of the history are counted up to here, beyond what any amount grants.
MaxReads == Special.initial + 2

NextRead(n) == IF n < MaxReads THEN n + 1 ELSE n

\* A counter that grants nothing is counted on in every round, in the model to here.
Floor == -2

ReadInit ==
    /\ amount \in ReadAmounts
    /\ stage = "idle"
    /\ pos = 1
    /\ thereWasRetry = FALSE
    /\ retries = [i \in Indices |-> Special]
    /\ sectors = [i \in Indices |-> Scanned(FALSE)]
    /\ reads = [i \in Indices |-> 0]
    /\ accepted = {}

\* A track was scanned, some headers with errors; its sectors are to be read.
BeginReading ==
    /\ stage = "idle"
    /\ stage' = "turn"
    /\ pos' = 1
    /\ thereWasRetry' = FALSE
    /\ retries' = [i \in Indices |-> Special]
    /\ \E bad \in SUBSET Indices : sectors' = [i \in Indices |-> Scanned(i \in bad)]
    /\ reads' = [i \in Indices |-> 0]
    /\ accepted' = {}
    /\ UNCHANGED amount

\* Mutant: a sector is read until its counter is used up, then the next one.
NextPos_Stays(i) == IF HasMoreRetry(Minus(Asked(retries[i]), 1)) THEN i ELSE i + 1

NextPos(i) == i + 1

\* Every turn, also one that is cut short, ends with the loop's decrement.
TurnEnds(i, counter) ==
    /\ retries' = [retries EXCEPT ![i] = Minus(counter, 1)]
    /\ pos' = NextPos(i)
    /\ UNCHANGED <<amount, stage>>

InTurn(i) == stage = "turn" /\ pos = i /\ i \in Indices

\* No retry is left for this sector.
Skip(i) ==
    /\ InTurn(i)
    /\ ~HasMoreRetry(retries[i])
    /\ IF retries[i].retryTimes > Floor
       THEN TurnEnds(i, Asked(retries[i]))
       ELSE pos' = NextPos(i) /\ UNCHANGED <<amount, stage, retries>>
    /\ UNCHANGED <<thereWasRetry, sectors, reads, accepted>>

\* Mutant: that a sector needs no read is noted as a change.
Leave_Changed(i) ==
    /\ InTurn(i)
    /\ HasMoreRetry(retries[i])
    /\ sectors[i].badId \/ HasStableData(sectors[i])
    /\ thereWasRetry' = TRUE
    /\ TurnEnds(i, Changed(Asked(retries[i])))
    /\ UNCHANGED <<sectors, reads, accepted>>

\* The sector has no readable header or no need of another read.
Leave(i) ==
    /\ InTurn(i)
    /\ HasMoreRetry(retries[i])
    /\ sectors[i].badId \/ HasStableData(sectors[i])
    /\ thereWasRetry' = TRUE
    /\ TurnEnds(i, GivenUp)
    /\ UNCHANGED <<sectors, reads, accepted>>

\* The read command is issued.
Command(i) ==
    /\ InTurn(i)
    /\ HasMoreRetry(retries[i])
    /\ ~sectors[i].badId /\ ~HasStableData(sectors[i])
    /\ reads' = [reads EXCEPT ![i] = NextRead(@)]
    /\ thereWasRetry' = TRUE

\* The header or the data field was not found.
Missing(i) ==
    /\ Command(i)
    /\ sectors' = [sectors EXCEPT ![i].tried = TRUE]
    /\ TurnEnds(i, Asked(retries[i]))
    /\ UNCHANGED accepted

\* An error in the header alone; this read is not counted.
IdError(i) ==
    /\ Command(i)
    /\ TurnEnds(i, Asked(retries[i]))
    /\ UNCHANGED <<sectors, accepted>>

\* The controller reports another sector than the one asked for.
WrongSector(i) ==
    /\ Command(i)
    /\ sectors' = [sectors EXCEPT ![i].tried = TRUE]
    /\ accepted' = accepted \cup {i}
    /\ TurnEnds(i, GivenUp)

\* The counter after a good read: used up, or with a change noted.
AfterGood(s, counter) == IF HasStableData(s) THEN GivenUp ELSE Changed(counter)

GoodData(i) ==
    /\ Command(i)
    /\ \E v \in Versions :
        LET s == AddGood(sectors[i], v)
        IN  /\ sectors' = [sectors EXCEPT ![i] = s]
            /\ TurnEnds(i, AfterGood(s, Asked(retries[i])))
    /\ UNCHANGED accepted

\* Data with an error is accepted when it overlaps the next field, or when it is
\* an 8K sector in which a checksum was found.
BadData(i) ==
    /\ Command(i)
    /\ sectors' = [sectors EXCEPT ![i] = AddBad(@)]
    /\ \E checksum \in (IF EightK THEN BOOLEAN ELSE {FALSE}) :
        IF i \in Overlapping \/ checksum
        THEN accepted' = accepted \cup {i} /\ TurnEnds(i, GivenUp)
        ELSE accepted' = accepted /\ TurnEnds(i, Asked(retries[i]))

\* The end of a round: another one if any counter granted something.
RoundEnds ==
    /\ stage = "turn" /\ pos > Sup
    /\ stage' = IF thereWasRetry THEN "turn" ELSE "idle"
    /\ pos' = IF thereWasRetry THEN 1 ELSE pos
    /\ thereWasRetry' = FALSE
    /\ UNCHANGED <<amount, retries, sectors, reads, accepted>>

\* Another error of the command, or a cylinder or head that does not match.
ReadThrows ==
    /\ \E i \in Indices : Command(i)
    /\ stage' = "idle"
    /\ pos' = 1
    /\ UNCHANGED <<amount, retries, sectors, accepted>>

Turn(i) ==
    \/ Skip(i) \/ Leave(i) \/ Missing(i) \/ IdError(i)
    \/ WrongSector(i) \/ GoodData(i) \/ BadData(i)

ReadOn == RoundEnds \/ \E i \in Indices : Turn(i)

ReadNext == BeginReading \/ ReadOn \/ ReadThrows

ReadSpec == ReadInit /\ [][ReadNext]_readVars

\* The loops run; being called is up to the caller.
ReadFairSpec == ReadSpec /\ WF_readVars(ReadOn)

-----------------------------------------------------------------------------
(* Properties.                                                             *)

\* Every variable has its type.
ReadTypeOK ==
    /\ amount \in ReadAmounts
    /\ stage \in {"idle", "turn"}
    /\ pos \in 1..Sup + 1
    /\ thereWasRetry \in BOOLEAN
    /\ retries \in [Indices -> Policy]
    /\ sectors \in [Indices -> Sector]
    /\ reads \in [Indices -> Nat]
    /\ accepted \subseteq Indices

\* The loops ended on their own: the last round granted nothing.
Done == stage = "idle" /\ pos > Sup

\* The sectors take turns: of two that may still be read, neither is more than
\* one read ahead, however their retries start over.
SectorsTakeTurns ==
    stage = "turn" =>
        \A i, j \in Indices :
            HasMoreRetry(retries[i]) /\ HasMoreRetry(retries[j])
                => reads[i] <= reads[j] + 1

\* A sector that is neither stable nor accepted as it is was read as often as its
\* amount grants: errors that are not counted as attempts do not save a retry.
RetriesAreMade ==
    Done => \A i \in Indices :
        \/ sectors[i].badId
        \/ HasStableData(sectors[i])
        \/ i \in accepted
        \/ reads[i] >= Special.retryTimes

\* A plain amount is not exceeded: the decrement is made on every path.
ReadsAreBounded ==
    amount >= 0 => \A i \in Indices : reads[i] <= amount * 5 + 1

\* A good read that finds the copies full: neither kept nor counted, yet a change.
OverLimit(i) ==
    /\ GoodData(i)
    /\ sectors[i].data = "good"
    /\ sectors'[i].counts = sectors[i].counts

\* The loops end, also when good reads that are not stable yet start over, unless
\* the controller delivers data over the limit of copies again and again.
LoopsEnd ==
    \/ stage = "turn" ~> stage = "idle"
    \/ []<><<\E i \in Indices : OverLimit(i)>>_readVars

-----------------------------------------------------------------------------
(* What comments and docs promise and the code does not keep.              *)

\* fdrawsys_dev.cpp:368 "+1 since prechecking the value in the loop": the counter
\* grants the first read of every sector whatever the amount.
FirstReadIsMade ==
    Done => \A i \in Indices : sectors[i].badId \/ reads[i] > 0

\* A reading after which the counter is to start over.
Restarts(i) ==
    /\ stage = "turn" /\ pos = i /\ pos' = i + 1
    /\ retries'[i].sinceLastChange /\ retries'[i].wasChange

\* ReadMe.md:72 "when read data is improved during the retries then the retry
\* counter is restarted": a reading that leaves the sector as it was restarts none.
RestartsWhenReadBetter ==
    [][\A i \in Indices : Restarts(i) => sectors'[i] # sectors[i]]_readVars

=============================================================================
