----------------------- MODULE FdrawReadSectorsProofs -----------------------
(***************************************************************************)
(* Theorems about FdrawReadSectors: types, the sectors take turns whatever *)
(* the controller answers (SectorsTakeTurns), and a plain amount is never  *)
(* exceeded (ReadsAreBounded), for any number of sectors and any amount.   *)
(***************************************************************************)
EXTENDS FdrawReadSectors, RetryPolicyProofs, TLAPS

\* The count of n rounds and of this one's turn, if it was made.
CountAfter(n, i) == IF i < pos THEN NextRead(n) ELSE n

\* Between two turns, sectors whose counter still grants a read were read equally
\* often in this round's part so far and in the rounds before.
TurnsInv ==
    stage = "turn" =>
        \E n \in Nat : \A i \in Indices :
            HasMoreRetry(retries[i]) => reads[i] = CountAfter(n, i)

\* What was read and what is left never exceed the amount.
BoundInv ==
    amount >= 0 => \A i \in Indices :
        /\ ~retries[i].sinceLastChange
        /\ reads[i] <= amount * 5 + 1
        /\ stage = "turn" => reads[i] + retries[i].retryTimes <= amount * 5 + 1

IInv == ReadTypeOK /\ TurnsInv /\ BoundInv

-----------------------------------------------------------------------------
(* Counters.                                                               *)

LEMMA SpecialType ==
    ASSUME amount \in Int
    PROVE  Special \in Policy
<1>1. OptionPolicy(amount) \in Policy /\ OptionPolicy(amount).retryTimes >= 0
  <2> DEFINE a == IF amount < 0 THEN -amount ELSE amount
  <2>1. a \in Nat /\ (amount < 0 => a - 1 >= 0) /\ amount \in Int
    BY FdrawReadSectorsAssumption
  <2>2. OptionPolicy(amount) = PolicyOf(a, amount < 0)
    BY DEF OptionPolicy
  <2> HIDE DEF a
  <2>3. PolicyOf(a, amount < 0).retryTimes >= 0
    BY <2>1 DEF PolicyOf
  <2> QED  BY <2>1, <2>2, <2>3, PolicyTypes
<1> DEFINE n == OptionPolicy(amount).retryTimes * 5 + 1
           s == OptionPolicy(amount).sinceLastChange
<1>2. n \in Nat /\ n - 1 \in Int /\ s \in BOOLEAN
  BY <1>1 DEF Policy
<1> HIDE DEF n, s
<1>3. PolicyOf(n, s) \in Policy
  BY <1>2 DEF PolicyOf, Policy
<1> QED  BY <1>3 DEF Special, n, s

\* The count of the history: one more, or already above what is granted.
LEMMA NextCountFacts ==
    ASSUME amount \in Int, NEW n \in Nat
    PROVE  /\ NextRead(n) \in Nat
           /\ NextRead(n) = n + 1 \/ (NextRead(n) = n /\ n >= Special.initial + 2)
<1>1. Special.initial \in Nat
  BY SpecialType DEF Policy
<1> QED  BY <1>1 DEF NextRead, MaxReads

LEMMA SpecialPlain ==
    amount \in Int /\ amount >= 0 =>
        Special.sinceLastChange = FALSE /\ Special.retryTimes = amount * 5 + 1
<1> SUFFICES ASSUME amount \in Int, amount >= 0
             PROVE  Special.sinceLastChange = FALSE /\ Special.retryTimes = amount * 5 + 1
  OBVIOUS
<1>1. \A n : PolicyOf(n, FALSE).sinceLastChange = FALSE /\ PolicyOf(n, FALSE).retryTimes = n
  BY DEF PolicyOf
<1>2. OptionPolicy(amount) = PolicyOf(amount, FALSE)
  <2>1. ~(amount < 0)
    BY FdrawReadSectorsAssumption
  <2>2. (amount < 0) = FALSE
    BY <2>1
  <2> QED  BY <2>2, Zenon DEF OptionPolicy
<1>3. Special = PolicyOf(amount * 5 + 1, FALSE)
  BY <1>1, <1>2 DEF Special
<1> QED  BY <1>1, <1>3

LEMMA GivenUpFacts ==
    /\ GivenUp \in Policy
    /\ GivenUp.sinceLastChange = FALSE /\ GivenUp.retryTimes = 0
    /\ ~HasMoreRetry(Minus(GivenUp, 1))
<1>1. GivenUp \in Policy
  BY PolicyTypes DEF GivenUp
<1>2. GivenUp.sinceLastChange = FALSE /\ GivenUp.retryTimes = 0
  <2>1. (0 < 0) = FALSE
    OBVIOUS
  <2>2. GivenUp = PolicyOf(0, FALSE)
    BY <2>1, Zenon DEF GivenUp, OptionPolicy
  <2> QED  BY <2>2 DEF PolicyOf
<1>3. ~Minus(GivenUp, 1).sinceLastChange /\ Minus(GivenUp, 1).retryTimes = 0 - 1
      /\ Minus(GivenUp, 1) \in Policy
  BY <1>1, <1>2, PlainCounters, PolicyTypes
<1>4. HasMoreRetry(Minus(GivenUp, 1)) <=> Minus(GivenUp, 1).retryTimes > 0
  BY <1>3, PlainCounters
<1> QED  BY <1>1, <1>2, <1>3, <1>4

-----------------------------------------------------------------------------
(* The shape of a turn: what it does to the counter and to the reads.      *)

\* A counter after a turn: one of the policies, and with a plain amount less by
\* one at least.
Lowered(p, q) ==
    /\ q \in Policy
    /\ ~p.sinceLastChange => ~q.sinceLastChange /\ q.retryTimes <= p.retryTimes - 1

\* A counter that was not asked for a reading has at least not grown.
NotRaised(p, q) ==
    /\ q \in Policy
    /\ ~p.sinceLastChange => ~q.sinceLastChange /\ q.retryTimes <= p.retryTimes

LEMMA LoweredIsNotRaised ==
    \A p, q \in Policy : Lowered(p, q) => NotRaised(p, q)
<1>1. \A p \in Policy : p.retryTimes \in Int
  BY DEF Policy
<1> QED  BY <1>1 DEF Lowered, NotRaised

LEMMA LoweredAsked ==
    \A p \in Policy :
        /\ Lowered(p, Minus(Asked(p), 1))
        /\ Lowered(p, Minus(Changed(Asked(p)), 1))
<1> SUFFICES ASSUME NEW p \in Policy
             PROVE  /\ Lowered(p, Minus(Asked(p), 1))
                    /\ Lowered(p, Minus(Changed(Asked(p)), 1))
  OBVIOUS
<1>1. Asked(p) \in Policy /\ Changed(Asked(p)) \in Policy
  BY PolicyTypes
<1>2. Minus(Asked(p), 1) \in Policy /\ Minus(Changed(Asked(p)), 1) \in Policy
  BY <1>1, PolicyTypes
<1>3. ASSUME ~p.sinceLastChange
      PROVE  /\ ~Minus(p, 1).sinceLastChange /\ Minus(p, 1).retryTimes = p.retryTimes - 1
             /\ ~Minus(Changed(p), 1).sinceLastChange
             /\ Minus(Changed(p), 1).retryTimes = p.retryTimes - 1
             /\ Asked(p) = p
             /\ p.retryTimes \in Int
  <2>1. Changed(p) \in Policy /\ ~Changed(p).sinceLastChange
        /\ Changed(p).retryTimes = p.retryTimes
    BY <1>3, PlainCounters, PolicyTypes
  <2> QED  BY <1>3, <2>1, PlainCounters DEF Policy
<1> QED  BY <1>2, <1>3 DEF Lowered

LEMMA LoweredGivenUp ==
    \A p \in Policy : HasMoreRetry(p) => Lowered(p, Minus(GivenUp, 1))
<1> SUFFICES ASSUME NEW p \in Policy, HasMoreRetry(p)
             PROVE  Lowered(p, Minus(GivenUp, 1))
  OBVIOUS
<1>1. Minus(GivenUp, 1) \in Policy /\ ~Minus(GivenUp, 1).sinceLastChange
      /\ Minus(GivenUp, 1).retryTimes = -1
  BY GivenUpFacts, PlainCounters, PolicyTypes
<1>2. ~p.sinceLastChange => p.retryTimes > 0
  BY PlainCounters
<1>3. p.retryTimes \in Int
  BY DEF Policy
<1> QED  BY <1>1, <1>2, <1>3 DEF Lowered

\* A turn that does not read leaves a counter that grants nothing.
TurnShape(i) ==
    /\ pos = i /\ stage = "turn" /\ stage' = "turn" /\ pos' = i + 1 /\ amount' = amount
    /\ \E q \in Policy :
        /\ retries' = [retries EXCEPT ![i] = q]
        /\ NotRaised(retries[i], q)
        /\ \/ reads' = reads /\ ~HasMoreRetry(q)
           \/ /\ reads' = [reads EXCEPT ![i] = NextRead(@)]
              /\ HasMoreRetry(retries[i]) /\ Lowered(retries[i], q)

LEMMA AttemptTypes ==
    \A s \in Sector : [s EXCEPT !.tried = TRUE] \in Sector /\ AddBad(s) \in Sector
<1> SUFFICES ASSUME NEW s \in Sector
             PROVE  [s EXCEPT !.tried = TRUE] \in Sector /\ AddBad(s) \in Sector
  OBVIOUS
<1>1. ASSUME NEW x \in {"none", "bad", "good"}
      PROVE  /\ [s EXCEPT !.data = x, !.tried = TRUE] \in Sector
             /\ [s EXCEPT !.tried = TRUE] \in Sector
  BY DEF Sector
<1>2. AddBad(s) = [s EXCEPT !.data = IF s.data = "good" THEN "good" ELSE "bad",
                            !.tried = TRUE]
  BY DEF AddBad
<1>3. (IF s.data = "good" THEN "good" ELSE "bad") \in {"none", "bad", "good"}
  OBVIOUS
<1> QED  BY <1>1, <1>2, <1>3

LEMMA GoodTypes ==
    \A s \in Sector, v \in Versions : AddGood(s, v) \in Sector
<1> SUFFICES ASSUME NEW s \in Sector, NEW v \in Versions PROVE AddGood(s, v) \in Sector
  OBVIOUS
<1>1. ASSUME NEW c \in [Versions -> Nat] PROVE CountedRead(c, v) \in [Versions -> Nat]
  BY DEF CountedRead
<1>2. NoCounts \in [Versions -> Nat] /\ s.counts \in [Versions -> Nat]
  BY DEF NoCounts, Sector
<1> DEFINE d == CountedRead(IF s.data = "good" THEN s.counts ELSE NoCounts, v)
<1>3. d \in [Versions -> Nat]
  BY <1>1, <1>2
<1> HIDE DEF d
<1>4. [s EXCEPT !.data = "good", !.tried = TRUE, !.counts = d] \in Sector
  BY <1>3 DEF Sector
<1>5. AddGood(s, v) = [s EXCEPT !.data = "good", !.tried = TRUE, !.counts = d]
  BY DEF AddGood, d
<1> QED  BY <1>4, <1>5

\* Every turn has this shape and keeps the types of the rest.
LEMMA TurnHasShape ==
    ASSUME ReadTypeOK, NEW i \in Indices, Turn(i)
    PROVE  TurnShape(i) /\ ReadTypeOK'
<1> DEFINE p == retries[i]
<1>0. amount \in Int
  BY FdrawReadSectorsAssumption DEF ReadTypeOK
<1>1. p \in Policy /\ sectors[i] \in Sector /\ reads[i] \in Nat /\ i \in Nat /\ Sup \in Nat
  BY FdrawReadSectorsAssumption DEF ReadTypeOK, Indices
<1>2. Asked(p) \in Policy /\ Minus(Asked(p), 1) \in Policy
      /\ Minus(Changed(Asked(p)), 1) \in Policy /\ Minus(GivenUp, 1) \in Policy
  BY <1>1, PolicyTypes, GivenUpFacts
<1>3. pos = i /\ stage = "turn"
  BY DEF Turn, Skip, Leave, Missing, IdError, WrongSector, GoodData, BadData, Command, InTurn
<1>4. ASSUME NEW c, TurnEnds(i, c)
      PROVE  stage' = "turn" /\ pos' = i + 1 /\ pos' \in 1..Sup + 1 /\ amount' = amount
             /\ retries' = [retries EXCEPT ![i] = Minus(c, 1)]
  BY <1>3, <1>4, <1>1 DEF TurnEnds, NextPos, Indices
<1>5. ASSUME NEW q \in Policy, retries' = [retries EXCEPT ![i] = q]
      PROVE  retries' \in [Indices -> Policy]
  BY <1>5 DEF ReadTypeOK
<1>6. ASSUME Command(i)
      PROVE  /\ HasMoreRetry(p)
             /\ reads' = [reads EXCEPT ![i] = NextRead(@)] /\ reads' \in [Indices -> Nat]
             /\ thereWasRetry' \in BOOLEAN
  <2>1. NextRead(reads[i]) \in Nat
    BY <1>1, <1>0, NextCountFacts
  <2> QED  BY <1>6, <2>1 DEF Command, ReadTypeOK
<1> HIDE DEF p
<1>7. CASE Skip(i)
  <2>1. ~HasMoreRetry(p) /\ UNCHANGED <<thereWasRetry, sectors, reads, accepted>>
        /\ \/ TurnEnds(i, Asked(p))
           \/ pos' = i + 1 /\ UNCHANGED <<amount, stage, retries>>
    BY <1>7 DEF Skip, p, NextPos
  <2>2. CASE TurnEnds(i, Asked(p))
    <3>1. ~HasMoreRetry(Minus(Asked(p), 1)) /\ NotRaised(p, Minus(Asked(p), 1))
      BY <2>1, <1>1, <1>2, AskedOnce, LoweredAsked, LoweredIsNotRaised
    <3>2. TurnShape(i)
      BY <2>1, <2>2, <3>1, <1>2, <1>3, <1>4 DEF TurnShape, p
    <3> QED  BY <2>1, <2>2, <3>2, <1>2, <1>4, <1>5 DEF ReadTypeOK
  <2>3. CASE pos' = i + 1 /\ UNCHANGED <<amount, stage, retries>>
    <3>1. NotRaised(p, p) /\ retries' = [retries EXCEPT ![i] = p]
      BY <1>1, <2>3 DEF NotRaised, ReadTypeOK, Policy, p
    <3>2. TurnShape(i)
      BY <2>1, <2>3, <3>1, <1>1, <1>3 DEF TurnShape, p
    <3>3. pos' \in 1..Sup + 1
      BY <2>3, <1>1 DEF Indices
    <3> QED  BY <2>1, <2>3, <3>2, <3>3 DEF ReadTypeOK
  <2> QED  BY <2>1, <2>2, <2>3
<1>8. CASE Leave(i)
  <2>1. HasMoreRetry(p) /\ TurnEnds(i, GivenUp) /\ thereWasRetry' = TRUE
        /\ UNCHANGED <<sectors, reads, accepted>>
    BY <1>8 DEF Leave, p
  <2>2. NotRaised(p, Minus(GivenUp, 1))
    BY <2>1, <1>1, <1>2, LoweredGivenUp, LoweredIsNotRaised
  <2>3. TurnShape(i)
    BY <2>1, <2>2, <1>2, <1>3, <1>4, GivenUpFacts DEF TurnShape, p
  <2> QED  BY <2>1, <2>3, <1>2, <1>4, <1>5 DEF ReadTypeOK
<1>9. ASSUME Command(i), NEW c, TurnEnds(i, c), Minus(c, 1) \in Policy,
             Lowered(p, Minus(c, 1)),
             sectors' \in [Indices -> Sector], accepted' \subseteq Indices
      PROVE  TurnShape(i) /\ ReadTypeOK'
  <2>1. TurnShape(i)
    <3>1. NotRaised(p, Minus(c, 1))
      BY <1>1, <1>9, LoweredIsNotRaised
    <3> QED  BY <3>1, <1>3, <1>4, <1>6, <1>9 DEF TurnShape, p
  <2> QED  BY <2>1, <1>4, <1>5, <1>6, <1>9 DEF ReadTypeOK
<1>10. ASSUME Command(i), TurnEnds(i, Asked(p)),
              sectors' \in [Indices -> Sector], accepted' \subseteq Indices
       PROVE  TurnShape(i) /\ ReadTypeOK'
  BY <1>1, <1>2, <1>9, <1>10, LoweredAsked
<1>11. ASSUME Command(i), TurnEnds(i, GivenUp),
              sectors' \in [Indices -> Sector], accepted' \subseteq Indices
       PROVE  TurnShape(i) /\ ReadTypeOK'
  BY <1>1, <1>2, <1>6, <1>9, <1>11, LoweredGivenUp
<1>12. ASSUME NEW s \in Sector PROVE [sectors EXCEPT ![i] = s] \in [Indices -> Sector]
  BY DEF ReadTypeOK
<1>13. [sectors EXCEPT ![i].tried = TRUE]
            = [sectors EXCEPT ![i] = [sectors[i] EXCEPT !.tried = TRUE]]
       /\ [sectors[i] EXCEPT !.tried = TRUE] \in Sector
       /\ AddBad(sectors[i]) \in Sector
       /\ \A v \in Versions : AddGood(sectors[i], v) \in Sector
  <2>1. AddBad(sectors[i]) \in Sector /\ [sectors[i] EXCEPT !.tried = TRUE] \in Sector
    BY <1>1, AttemptTypes
  <2>2. \A v \in Versions : AddGood(sectors[i], v) \in Sector
    BY <1>1, GoodTypes
  <2>3. [sectors EXCEPT ![i].tried = TRUE]
            = [sectors EXCEPT ![i] = [sectors[i] EXCEPT !.tried = TRUE]]
    BY DEF ReadTypeOK
  <2> QED  BY <2>1, <2>2, <2>3
<1>14. CASE Missing(i)
  <2>1. Command(i) /\ TurnEnds(i, Asked(p)) /\ accepted' = accepted
        /\ sectors' = [sectors EXCEPT ![i] = [sectors[i] EXCEPT !.tried = TRUE]]
    BY <1>14, <1>13 DEF Missing, p
  <2> QED  BY <2>1, <1>10, <1>12, <1>13 DEF ReadTypeOK
<1>15. CASE IdError(i)
  <2>1. Command(i) /\ TurnEnds(i, Asked(p)) /\ accepted' = accepted /\ sectors' = sectors
    BY <1>15 DEF IdError, p
  <2> QED  BY <2>1, <1>10 DEF ReadTypeOK
<1>16. CASE WrongSector(i)
  <2>1. Command(i) /\ TurnEnds(i, GivenUp) /\ accepted' = accepted \cup {i}
        /\ sectors' = [sectors EXCEPT ![i] = [sectors[i] EXCEPT !.tried = TRUE]]
    BY <1>16, <1>13 DEF WrongSector
  <2> QED  BY <2>1, <1>11, <1>12, <1>13 DEF ReadTypeOK
<1>17. CASE GoodData(i)
  <2>1. PICK v \in Versions :
          /\ Command(i) /\ accepted' = accepted
          /\ sectors' = [sectors EXCEPT ![i] = AddGood(sectors[i], v)]
          /\ TurnEnds(i, AfterGood(AddGood(sectors[i], v), Asked(p)))
    BY <1>17 DEF GoodData, p
  <2>2. sectors' \in [Indices -> Sector] /\ accepted' \subseteq Indices
    BY <2>1, <1>12, <1>13 DEF ReadTypeOK
  <2>3. CASE HasStableData(AddGood(sectors[i], v))
    BY <2>1, <2>2, <2>3, <1>11 DEF AfterGood
  <2>4. CASE ~HasStableData(AddGood(sectors[i], v))
    <3>1. TurnEnds(i, Changed(Asked(p)))
      BY <2>1, <2>4 DEF AfterGood
    <3> QED  BY <2>1, <2>2, <3>1, <1>1, <1>2, <1>9, LoweredAsked
  <2> QED  BY <2>3, <2>4
<1>18. CASE BadData(i)
  <2>1. Command(i) /\ sectors' = [sectors EXCEPT ![i] = AddBad(sectors[i])]
        /\ \/ accepted' = accepted \cup {i} /\ TurnEnds(i, GivenUp)
           \/ accepted' = accepted /\ TurnEnds(i, Asked(p))
    BY <1>18 DEF BadData, p
  <2>2. sectors' \in [Indices -> Sector] /\ accepted' \subseteq Indices
    BY <2>1, <1>12, <1>13 DEF ReadTypeOK
  <2> QED  BY <2>1, <2>2, <1>10, <1>11
<1> QED  BY <1>7, <1>8, <1>14, <1>15, <1>16, <1>17, <1>18 DEF Turn

-----------------------------------------------------------------------------
(* The invariant.                                                          *)

LEMMA InitIInv == ReadInit => IInv
<1> SUFFICES ASSUME ReadInit PROVE IInv
  OBVIOUS
<1>0. amount \in ReadAmounts /\ amount \in Int
  BY FdrawReadSectorsAssumption DEF ReadInit
<1>1. Scanned(FALSE) \in Sector
  BY DEF Scanned, Sector, NoCounts
<1>2. ReadTypeOK
  <2>1. sectors \in [Indices -> Sector] /\ retries \in [Indices -> Policy]
    BY <1>0, <1>1, SpecialType DEF ReadInit
  <2>2. reads \in [Indices -> Nat] /\ stage = "idle" /\ thereWasRetry = FALSE /\ accepted = {}
    BY DEF ReadInit
  <2>3. pos \in 1..Sup + 1
    BY FdrawReadSectorsAssumption DEF ReadInit
  <2> QED  BY <1>0, <2>1, <2>2, <2>3, Zenon DEF ReadTypeOK
<1>3. BoundInv
  BY <1>0, SpecialPlain DEF ReadInit, BoundInv
<1> QED  BY <1>2, <1>3 DEF ReadInit, IInv, TurnsInv

LEMMA BeginIInv == IInv /\ BeginReading => IInv'
<1> SUFFICES ASSUME IInv, BeginReading PROVE IInv'
  OBVIOUS
<1>0. amount \in ReadAmounts /\ amount \in Int /\ amount' = amount
  BY FdrawReadSectorsAssumption DEF IInv, ReadTypeOK, BeginReading
<1>1. \A b \in BOOLEAN : Scanned(b) \in Sector
  BY DEF Scanned, Sector, NoCounts
<1>2. ReadTypeOK'
  <2>1. sectors' \in [Indices -> Sector]
    <3>1. PICK bad \in SUBSET Indices : sectors' = [i \in Indices |-> Scanned(i \in bad)]
      BY DEF BeginReading
    <3>2. \A i \in Indices : (i \in bad) \in BOOLEAN
      OBVIOUS
    <3>3. \A i \in Indices : Scanned(i \in bad) \in Sector
      BY <1>1, <3>2, Zenon
    <3> QED  BY <3>1, <3>3, Zenon
  <2>2. retries' \in [Indices -> Policy] /\ reads' \in [Indices -> Nat]
        /\ stage' = "turn" /\ pos' = 1 /\ thereWasRetry' = FALSE /\ accepted' = {}
    BY <1>0, SpecialType DEF BeginReading
  <2>3. pos' \in 1..Sup + 1
    BY <2>2, FdrawReadSectorsAssumption
  <2> QED  BY <1>0, <2>1, <2>2, <2>3, Zenon DEF ReadTypeOK
<1>3. BoundInv'
  BY <1>0, SpecialPlain DEF BeginReading, BoundInv
<1>4. TurnsInv'
  <2>1. \A i \in Indices : reads'[i] = 0 /\ ~(i < pos')
    BY DEF BeginReading, Indices
  <2>2. \A i \in Indices : reads'[i] = CountAfter(0, i)'
    BY <2>1 DEF CountAfter
  <2> QED  BY <2>2 DEF TurnsInv
<1> QED  BY <1>2, <1>3, <1>4 DEF IInv

LEMMA TurnIInv ==
    ASSUME IInv, NEW i \in Indices, Turn(i)
    PROVE  IInv'
<1>1. TurnShape(i) /\ ReadTypeOK' /\ ReadTypeOK
  BY TurnHasShape DEF IInv
<1>2. PICK q \in Policy :
        /\ retries' = [retries EXCEPT ![i] = q]
        /\ NotRaised(retries[i], q)
        /\ \/ reads' = reads /\ ~HasMoreRetry(q)
           \/ /\ reads' = [reads EXCEPT ![i] = NextRead(@)]
              /\ HasMoreRetry(retries[i]) /\ Lowered(retries[i], q)
  BY <1>1 DEF TurnShape
<1>3. pos = i /\ stage = "turn" /\ pos' = i + 1 /\ amount' = amount /\ amount \in Int
  BY <1>1, FdrawReadSectorsAssumption DEF TurnShape, ReadTypeOK
<1>4. \A j \in Indices : reads[j] \in Nat /\ j \in Int /\ retries[j] \in Policy
  BY <1>1 DEF ReadTypeOK, Indices
<1>5. retries'[i] = q /\ \A j \in Indices \ {i} : retries'[j] = retries[j]
  BY <1>1, <1>2 DEF ReadTypeOK
<1>6. BoundInv'
  <2> SUFFICES ASSUME amount >= 0, NEW j \in Indices
               PROVE  /\ ~retries'[j].sinceLastChange
                      /\ reads'[j] <= amount * 5 + 1
                      /\ reads'[j] + retries'[j].retryTimes <= amount * 5 + 1
    BY <1>3 DEF BoundInv
  <2>1. /\ ~retries[j].sinceLastChange
        /\ reads[j] <= amount * 5 + 1
        /\ reads[j] + retries[j].retryTimes <= amount * 5 + 1
    BY <1>3 DEF IInv, BoundInv
  <2>2. amount \in Int /\ retries[j].retryTimes \in Int /\ q.retryTimes \in Int
    BY <1>3, <1>4 DEF Policy
  <2>3. CASE j # i
    BY <1>1, <1>2, <1>5, <2>1, <2>3 DEF ReadTypeOK
  <2>4. CASE j = i
    <3>1. ~q.sinceLastChange /\ q.retryTimes <= retries[i].retryTimes
      BY <1>2, <2>1, <2>4 DEF NotRaised
    <3>2. HasMoreRetry(retries[i]) => retries[i].retryTimes > 0
      BY <1>4, <2>1, <2>4, PlainCounters
    <3>3. \/ reads'[i] = reads[i]
          \/ /\ reads'[i] = reads[i] + 1 \/ reads'[i] = reads[i]
             /\ retries[i].retryTimes > 0
             /\ q.retryTimes <= retries[i].retryTimes - 1
      BY <1>1, <1>2, <1>3, <1>4, <2>1, <2>4, <3>2, NextCountFacts DEF ReadTypeOK, Lowered
    <3> QED  BY <1>4, <1>5, <2>1, <2>2, <2>4, <3>1, <3>3
  <2> QED  BY <2>3, <2>4
<1>7. TurnsInv'
  <2>1. PICK n \in Nat : \A j \in Indices :
            HasMoreRetry(retries[j]) => reads[j] = CountAfter(n, j)
    BY <1>3 DEF IInv, TurnsInv
  <2>2. ASSUME NEW j \in Indices, HasMoreRetry(retries'[j])
        PROVE  reads'[j] = IF j < pos' THEN NextRead(n) ELSE n
    <3>1. CASE j = i
      <4>1. reads'[j] = NextRead(reads[j]) /\ HasMoreRetry(retries[j])
        BY <1>1, <1>2, <1>5, <2>2, <3>1 DEF ReadTypeOK
      <4>2. ~(j < pos) /\ j < pos'
        BY <1>3, <1>4, <3>1
      <4> QED  BY <2>1, <4>1, <4>2 DEF CountAfter
    <3>2. CASE j # i
      <4>1. reads'[j] = reads[j] /\ HasMoreRetry(retries[j])
        BY <1>1, <1>2, <1>5, <2>2, <3>2 DEF ReadTypeOK
      <4>2. (j < pos) <=> (j < pos')
        BY <1>3, <1>4, <3>2
      <4> QED  BY <2>1, <4>1, <4>2 DEF CountAfter
    <3> QED  BY <3>1, <3>2
  <2>3. NextRead(n)' = NextRead(n)
    BY <1>3 DEF NextRead, MaxReads, Special, OptionPolicy, PolicyOf
  <2>4. \A j \in Indices : HasMoreRetry(retries[j])' => reads'[j] = CountAfter(n, j)'
    BY <2>2, <2>3 DEF CountAfter, HasMoreRetry, Asked
  <2> QED  BY <2>4 DEF TurnsInv
<1> QED  BY <1>1, <1>6, <1>7 DEF IInv

LEMMA RoundEndsIInv == IInv /\ RoundEnds => IInv'
<1> SUFFICES ASSUME IInv, RoundEnds PROVE IInv'
  OBVIOUS
<1>1. retries' = retries /\ sectors' = sectors /\ reads' = reads /\ accepted' = accepted
      /\ stage = "turn" /\ pos > Sup /\ stage' \in {"turn", "idle"}
      /\ (stage' = "turn" => pos' = 1) /\ pos' \in {1, pos} /\ thereWasRetry' = FALSE /\ amount' = amount
  BY DEF RoundEnds
<1>2. Sup \in Nat /\ pos \in 1..Sup + 1 /\ ReadTypeOK /\ BoundInv /\ TurnsInv
  BY FdrawReadSectorsAssumption DEF IInv, ReadTypeOK
<1>3. ReadTypeOK'
  <2>1. pos' \in 1..Sup + 1
    BY <1>1, <1>2
  <2> QED  BY <1>1, <1>2, <2>1 DEF ReadTypeOK
<1>4. BoundInv'
  BY <1>1, <1>2 DEF BoundInv
<1>5. TurnsInv'
  <2>1. PICK n \in Nat : \A j \in Indices :
            HasMoreRetry(retries[j]) => reads[j] = CountAfter(n, j)
    BY <1>1, <1>2 DEF TurnsInv
  <2>2. PICK m \in Nat : m = NextRead(n)
    BY <1>2, NextCountFacts, FdrawReadSectorsAssumption DEF ReadTypeOK
  <2>3. \A j \in Indices : j < pos /\ ~(j < 1)
    BY <1>1, <1>2 DEF Indices
  <2>4. ASSUME stage' = "turn", NEW j \in Indices, HasMoreRetry(retries[j])
        PROVE  reads'[j] = m /\ ~(j < pos')
    BY <1>1, <2>1, <2>2, <2>3, <2>4 DEF CountAfter
  <2>5. \A j \in Indices : HasMoreRetry(retries[j])' <=> HasMoreRetry(retries[j])
    BY <1>1 DEF HasMoreRetry, Asked
  <2>6. stage' = "turn" => \A j \in Indices :
            HasMoreRetry(retries[j])' => reads'[j] = CountAfter(m, j)'
    BY <2>4, <2>5 DEF CountAfter
  <2> QED  BY <2>2, <2>6 DEF TurnsInv
<1> QED  BY <1>3, <1>4, <1>5 DEF IInv

\* A read that throws leaves its counter as it is.
LEMMA ThrowIInv == IInv /\ ReadThrows => IInv'
<1> SUFFICES ASSUME IInv, ReadThrows PROVE IInv'
  OBVIOUS
<1>1. PICK i \in Indices : Command(i)
  BY DEF ReadThrows
<1>2. retries' = retries /\ sectors' = sectors /\ accepted' = accepted
      /\ stage' = "idle" /\ pos' = 1 /\ thereWasRetry' = TRUE
      /\ reads' = [reads EXCEPT ![i] = NextRead(@)] /\ HasMoreRetry(retries[i]) /\ amount' = amount
  BY <1>1 DEF ReadThrows, Command
<1>0. /\ NextRead(reads[i]) \in Nat
      /\ NextRead(reads[i]) \in {reads[i] + 1, reads[i]}
  BY NextCountFacts, FdrawReadSectorsAssumption DEF IInv, ReadTypeOK
<1>3. ReadTypeOK'
  BY <1>0, <1>2, FdrawReadSectorsAssumption DEF IInv, ReadTypeOK
<1>4. ASSUME amount >= 0, NEW j \in Indices
      PROVE  ~retries'[j].sinceLastChange /\ reads'[j] <= amount * 5 + 1
  <2>1. ~retries[j].sinceLastChange /\ reads[j] <= amount * 5 + 1
        /\ (j = i => reads[j] + retries[j].retryTimes <= amount * 5 + 1)
        /\ retries[j] \in Policy /\ reads[j] \in Nat /\ reads \in [Indices -> Nat]
    BY <1>1, <1>4 DEF IInv, BoundInv, ReadTypeOK, Command, InTurn
  <2>2. j = i => retries[j].retryTimes > 0 /\ retries[j].retryTimes \in Int
    BY <1>2, <2>1, PlainCounters DEF Policy
  <2>3. reads'[j] = reads[j] \/ (j = i /\ reads'[j] = reads[j] + 1)
    BY <1>0, <1>2, <2>1
  <2>4. amount \in Int
    BY FdrawReadSectorsAssumption DEF IInv, ReadTypeOK
  <2> QED  BY <1>2, <1>4, <2>1, <2>2, <2>3, <2>4
<1>5. BoundInv' /\ TurnsInv'
  BY <1>2, <1>4 DEF BoundInv, TurnsInv
<1> QED  BY <1>3, <1>5 DEF IInv

LEMMA NextIInv == IInv /\ [ReadNext]_readVars => IInv'
<1> SUFFICES ASSUME IInv, [ReadNext]_readVars PROVE IInv'
  OBVIOUS
<1>1. CASE UNCHANGED readVars
  <2>1. ReadTypeOK' /\ BoundInv'
    BY <1>1 DEF readVars, IInv, ReadTypeOK, BoundInv
  <2>2. TurnsInv'
    BY <1>1 DEF readVars, IInv, TurnsInv, CountAfter, NextRead, MaxReads, Special, OptionPolicy,
                PolicyOf, HasMoreRetry, Asked
  <2> QED  BY <2>1, <2>2 DEF IInv
<1>2. CASE ReadNext
  BY <1>2, BeginIInv, TurnIInv, RoundEndsIInv, ThrowIInv DEF ReadNext, ReadOn
<1> QED  BY <1>1, <1>2

LEMMA FdrawReadInvariant == ReadSpec => []IInv
<1>1. ReadInit => IInv
  BY InitIInv
<1>2. IInv /\ [ReadNext]_readVars => IInv'
  BY NextIInv
<1> QED  BY <1>1, <1>2, PTL DEF ReadSpec

-----------------------------------------------------------------------------
(* The theorems.                                                           *)

\* Type correctness of the reading loops, for any sectors, versions and amount.
THEOREM FdrawReadTypeOK == ReadSpec => []ReadTypeOK
<1>1. IInv => ReadTypeOK
  BY DEF IInv
<1> QED  BY <1>1, FdrawReadInvariant, PTL

\* Of any number of sectors none is read twice while another waits for its turn.
THEOREM FdrawReadTurns == ReadSpec => []SectorsTakeTurns
<1>1. IInv => SectorsTakeTurns
  <2> SUFFICES ASSUME IInv, stage = "turn", NEW i \in Indices, NEW j \in Indices,
                      HasMoreRetry(retries[i]), HasMoreRetry(retries[j])
               PROVE  reads[i] <= reads[j] + 1
    BY DEF SectorsTakeTurns
  <2>1. PICK n \in Nat : reads[i] = CountAfter(n, i) /\ reads[j] = CountAfter(n, j)
    BY DEF IInv, TurnsInv
  <2>2. NextRead(n) = n + 1 \/ NextRead(n) = n
    BY NextCountFacts, FdrawReadSectorsAssumption DEF IInv, ReadTypeOK
  <2> QED  BY <2>1, <2>2 DEF CountAfter
<1> QED  BY <1>1, FdrawReadInvariant, PTL

\* A plain amount of retries bounds the reads of every sector.
THEOREM FdrawReadBound == ReadSpec => []ReadsAreBounded
<1>1. IInv => ReadsAreBounded
  BY DEF IInv, BoundInv, ReadsAreBounded
<1> QED  BY <1>1, FdrawReadInvariant, PTL

-----------------------------------------------------------------------------
(* What the loops have done when they end.                                 *)

LEMMA SpecialFacts ==
    ASSUME amount \in Int
    PROVE  /\ Special \in Policy
           /\ Special.initial \in Int /\ Special.retryTimes \in Int
           /\ Special.retryTimes <= Special.initial
           /\ Special.wasChange = FALSE
<1> DEFINE n == OptionPolicy(amount).retryTimes * 5 + 1
           s == OptionPolicy(amount).sinceLastChange
<1>1. n \in Int /\ s \in BOOLEAN
  <2>1. OptionPolicy(amount) \in Policy
    BY PolicyTypes
  <2> QED  BY <2>1 DEF Policy
<1>2. Special = PolicyOf(n, s)
  BY DEF Special
<1> HIDE DEF n, s
<1>3. /\ PolicyOf(n, s).initial = n /\ PolicyOf(n, s).wasChange = FALSE
      /\ PolicyOf(n, s).retryTimes = IF s THEN n - 1 ELSE n
  BY DEF PolicyOf
<1> QED  BY <1>1, <1>2, <1>3, SpecialType

\* A sector that needs no more reads.
Settled(i) == sectors[i].badId \/ HasStableData(sectors[i]) \/ i \in accepted

\* What the counter of an unsettled sector has lost was read, unless it is to start
\* over.
ReadsLeft(i) ==
    \/ Settled(i)
    \/ /\ retries[i].initial = Special.initial
       /\ \/ reads[i] >= Special.retryTimes
          \/ reads[i] + retries[i].retryTimes >= Special.retryTimes
          \/ retries[i].sinceLastChange /\ retries[i].wasChange

\* A round without a retry finds all counters used up.
MadeInv ==
    /\ stage = "turn" => \A i \in Indices : ReadsLeft(i)
    /\ stage = "turn" /\ ~thereWasRetry =>
          \A i \in Indices : i < pos => ~HasMoreRetry(retries[i])
    /\ RetriesAreMade

\* What a turn does to its own sector, and that it leaves the others alone.
TurnOutcome(i) ==
    /\ \A j \in Indices \ {i} :
          /\ sectors'[j] = sectors[j] /\ retries'[j] = retries[j] /\ reads'[j] = reads[j]
          /\ j \in accepted => j \in accepted'
    /\ i \in accepted => i \in accepted'
    /\ \/ /\ ~HasMoreRetry(retries[i])
          /\ retries'[i] = Minus(Asked(retries[i]), 1) \/ retries'[i] = retries[i]
          /\ sectors'[i] = sectors[i] /\ reads'[i] = reads[i]
          /\ UNCHANGED thereWasRetry
       \/ /\ thereWasRetry'
          /\ Settled(i)'
       \/ /\ thereWasRetry'
          /\ reads'[i] = NextRead(reads[i])
          /\ ~sectors[i].badId /\ ~HasStableData(sectors[i])
          /\ \/ retries'[i] = Minus(Asked(retries[i]), 1)
             \/ retries'[i] = Minus(Changed(Asked(retries[i])), 1)

LEMMA TurnHasOutcome ==
    ASSUME ReadTypeOK, NEW i \in Indices, Turn(i)
    PROVE  TurnOutcome(i)
<1> DEFINE p == retries[i]
<1>1. /\ retries \in [Indices -> Policy] /\ reads \in [Indices -> Nat]
      /\ sectors \in [Indices -> Sector] /\ accepted \subseteq Indices
  BY DEF ReadTypeOK
<1>2. ASSUME NEW c, TurnEnds(i, c)
      PROVE  /\ retries'[i] = Minus(c, 1)
             /\ \A j \in Indices \ {i} : retries'[j] = retries[j]
  BY <1>1, <1>2 DEF TurnEnds
<1>3. ASSUME Command(i)
      PROVE  /\ reads'[i] = NextRead(reads[i]) /\ thereWasRetry'
             /\ ~sectors[i].badId /\ ~HasStableData(sectors[i])
             /\ \A j \in Indices \ {i} : reads'[j] = reads[j]
  BY <1>1, <1>3 DEF Command
<1> HIDE DEF p
<1>4. CASE Skip(i)
  <2>1. /\ ~HasMoreRetry(p) /\ UNCHANGED <<thereWasRetry, sectors, reads, accepted>>
        /\ TurnEnds(i, Asked(p)) \/ retries' = retries
    BY <1>4 DEF Skip, p
  <2>2. /\ retries'[i] = Minus(Asked(p), 1) \/ retries'[i] = p
        /\ \A j \in Indices \ {i} : retries'[j] = retries[j]
    BY <2>1, <1>2 DEF p
  <2>3. /\ sectors' = sectors /\ reads' = reads /\ accepted' = accepted
        /\ UNCHANGED thereWasRetry /\ ~HasMoreRetry(p)
    BY <2>1, Zenon
  <2> QED  BY <2>2, <2>3, Zenon DEF TurnOutcome, p
<1>5. CASE Leave(i)
  <2>1. /\ TurnEnds(i, GivenUp) /\ thereWasRetry' = TRUE
        /\ UNCHANGED <<sectors, reads, accepted>>
        /\ sectors[i].badId \/ HasStableData(sectors[i])
    BY <1>5 DEF Leave
  <2>2. Settled(i)'
    BY <2>1 DEF Settled, HasStableData
  <2> QED  BY <2>1, <2>2, <1>2 DEF TurnOutcome
<1>6. ASSUME Command(i), accepted \subseteq accepted',
             \A j \in Indices \ {i} : sectors'[j] = sectors[j],
             \/ TurnEnds(i, Asked(p)) \/ TurnEnds(i, Changed(Asked(p)))
             \/ Settled(i)' /\ \E c : TurnEnds(i, c)
      PROVE  TurnOutcome(i)
  <2>1. \A j \in Indices \ {i} :
            sectors'[j] = sectors[j] /\ retries'[j] = retries[j] /\ reads'[j] = reads[j]
    BY <1>2, <1>3, <1>6
  <2>2. \/ retries'[i] = Minus(Asked(p), 1) \/ retries'[i] = Minus(Changed(Asked(p)), 1)
        \/ Settled(i)'
    BY <1>2, <1>6
  <2> QED  BY <2>1, <2>2, <1>3, <1>6, Zenon DEF TurnOutcome, p
<1>7. CASE Missing(i)
  <2>1. Command(i) /\ TurnEnds(i, Asked(p)) /\ accepted' = accepted
        /\ \A j \in Indices \ {i} : sectors'[j] = sectors[j]
    BY <1>1, <1>7 DEF Missing, p
  <2> QED  BY <2>1, <1>6
<1>8. CASE IdError(i)
  <2>1. Command(i) /\ TurnEnds(i, Asked(p)) /\ accepted' = accepted /\ sectors' = sectors
    BY <1>8 DEF IdError, p
  <2> QED  BY <2>1, <1>6
<1>9. CASE WrongSector(i)
  <2>1. Command(i) /\ TurnEnds(i, GivenUp) /\ accepted' = accepted \cup {i}
        /\ \A j \in Indices \ {i} : sectors'[j] = sectors[j]
    BY <1>1, <1>9 DEF WrongSector
  <2>2. Settled(i)'
    BY <2>1 DEF Settled
  <2> QED  BY <2>1, <2>2, <1>6
<1>10. CASE GoodData(i)
  <2>1. PICK v \in Versions :
          /\ Command(i) /\ accepted' = accepted
          /\ sectors' = [sectors EXCEPT ![i] = AddGood(sectors[i], v)]
          /\ TurnEnds(i, AfterGood(AddGood(sectors[i], v), Asked(p)))
    BY <1>10 DEF GoodData, p
  <2>2. sectors'[i] = AddGood(sectors[i], v)
        /\ \A j \in Indices \ {i} : sectors'[j] = sectors[j]
    BY <2>1, <1>1
  <2>3. CASE HasStableData(AddGood(sectors[i], v))
    <3>1. HasStableData(sectors[i])'
      BY <2>2, <2>3 DEF HasStableData
    <3> QED  BY <2>1, <2>2, <3>1, <1>6 DEF Settled
  <2>4. CASE ~HasStableData(AddGood(sectors[i], v))
    BY <2>1, <2>2, <2>4, <1>6 DEF AfterGood
  <2> QED  BY <2>3, <2>4
<1>11. CASE BadData(i)
  <2>1. Command(i) /\ (\A j \in Indices \ {i} : sectors'[j] = sectors[j])
        /\ \/ accepted' = accepted \cup {i} /\ TurnEnds(i, GivenUp)
           \/ accepted' = accepted /\ TurnEnds(i, Asked(p))
    BY <1>1, <1>11 DEF BadData, p
  <2>2. i \in accepted' => Settled(i)'
    BY DEF Settled
  <2> QED  BY <2>1, <2>2, <1>6
<1> QED  BY <1>4, <1>5, <1>7, <1>8, <1>9, <1>10, <1>11 DEF Turn

LEMMA TurnMadeInv ==
    ASSUME ReadTypeOK, MadeInv, NEW i \in Indices, Turn(i)
    PROVE  MadeInv'
<1>1. /\ pos = i /\ stage = "turn" /\ stage' = "turn" /\ pos' = i + 1 /\ amount' = amount
      /\ TurnOutcome(i) /\ ReadTypeOK'
  BY TurnHasShape, TurnHasOutcome DEF TurnShape
<1>2. Special' = Special
  BY <1>1 DEF Special, OptionPolicy, PolicyOf
<1>3. amount \in Int /\ i \in Int
  BY FdrawReadSectorsAssumption DEF ReadTypeOK, Indices
<1>4. ASSUME NEW j \in Indices, j # i
      PROVE  ReadsLeft(j)'
  <2>1. /\ sectors'[j] = sectors[j] /\ retries'[j] = retries[j] /\ reads'[j] = reads[j]
        /\ j \in accepted => j \in accepted'
    BY <1>1, <1>4 DEF TurnOutcome
  <2>2. Settled(j) => Settled(j)'
    BY <2>1 DEF Settled, HasStableData
  <2> QED  BY <1>1, <1>2, <2>1, <2>2 DEF MadeInv, ReadsLeft
<1>5. ReadsLeft(i)'
  <2> DEFINE p == retries[i]
             a == Asked(p)
             q == retries'[i]
             g == Special.retryTimes
             n == Special.initial
  <2>1. /\ p \in Policy /\ a \in Policy /\ reads[i] \in Nat /\ g \in Int /\ n \in Int /\ g <= n
        /\ p.retryTimes \in Int /\ a.retryTimes \in Int
    BY <1>3, SpecialFacts, AskedCases DEF ReadTypeOK, Policy
  <2>2. ReadsLeft(i)
    BY <1>1 DEF MadeInv
  <2>3. CASE Settled(i)'
    BY <2>3 DEF ReadsLeft
  <2>4. ASSUME ~Settled(i)', Settled(i)
        PROVE  FALSE
    <3>1. i \in accepted => i \in accepted'
      BY <1>1 DEF TurnOutcome
    <3>2. sectors'[i] = sectors[i] => (Settled(i) => Settled(i)')
      BY <3>1 DEF Settled, HasStableData
    <3>3. sectors'[i] # sectors[i] => ~sectors[i].badId /\ ~HasStableData(sectors[i])
      BY <1>1, <2>4 DEF TurnOutcome
    <3> QED  BY <3>1, <3>2, <3>3, <2>4 DEF Settled
  <2>5. CASE ~Settled(i)' /\ ~Settled(i)
    <3>1. /\ p.initial = n
          /\ reads[i] >= g \/ reads[i] + p.retryTimes >= g \/ (p.sinceLastChange /\ p.wasChange)
      BY <2>2, <2>5 DEF ReadsLeft
    <3>2. a.initial = n /\ (a.retryTimes = n \/ a.retryTimes = p.retryTimes)
          /\ ((p.sinceLastChange /\ p.wasChange) => a.retryTimes = n)
          /\ (~(p.sinceLastChange /\ p.wasChange) => a.retryTimes = p.retryTimes)
      BY <2>1, <3>1, AskedCases
    <3>3. \/ reads'[i] = reads[i] /\ q = p
          \/ /\ q = Minus(a, 1) \/ q = Minus(Changed(a), 1)
             /\ \/ ~HasMoreRetry(p) /\ reads'[i] = reads[i]
                \/ reads'[i] = NextRead(reads[i])
      BY <1>1, <2>5 DEF TurnOutcome
    <3>4. CASE reads'[i] = reads[i] /\ q = p
      BY <1>2, <3>1, <3>4 DEF ReadsLeft
    <3>5. CASE /\ q = Minus(a, 1) \/ q = Minus(Changed(a), 1)
               /\ \/ ~HasMoreRetry(p) /\ reads'[i] = reads[i]
                  \/ reads'[i] = NextRead(reads[i])
      <4>1. q.initial = n /\ q.retryTimes = a.retryTimes - 1
        BY <2>1, <3>2, <3>5, MinusFields
      <4>2. HasMoreRetry(p) <=> a.retryTimes > 0
        BY DEF HasMoreRetry
      <4>3. /\ NextRead(reads[i]) \in Nat
            /\ NextRead(reads[i]) = reads[i] + 1
               \/ (NextRead(reads[i]) = reads[i] /\ reads[i] >= n + 2)
        BY <1>3, <2>1, NextCountFacts
      <4> HIDE DEF p, a, q, g, n
      <4>4. reads[i] >= g \/ reads[i] + a.retryTimes >= g
        BY <2>1, <3>1, <3>2
      <4>5. \/ reads'[i] = reads[i] /\ (a.retryTimes <= 0 \/ reads[i] >= g)
            \/ reads'[i] = reads[i] + 1
        BY <2>1, <3>5, <4>2, <4>3
      <4>6. reads'[i] >= g \/ reads'[i] + q.retryTimes >= g
        BY <2>1, <4>1, <4>4, <4>5
      <4> QED  BY <1>2, <4>1, <4>6 DEF ReadsLeft, q, g, n
    <3> QED  BY <3>3, <3>4, <3>5
  <2> QED  BY <2>3, <2>4, <2>5
<1>6. ASSUME ~thereWasRetry', NEW j \in Indices, j < pos'
      PROVE  ~HasMoreRetry(retries'[j])
  <2>1. /\ ~thereWasRetry /\ ~HasMoreRetry(retries[i])
        /\ retries'[i] = Minus(Asked(retries[i]), 1) \/ retries'[i] = retries[i]
        /\ j # i => retries'[j] = retries[j]
    BY <1>1, <1>6 DEF TurnOutcome
  <2>2. CASE j = i
    BY <2>1, <2>2, AskedOnce DEF ReadTypeOK
  <2>3. CASE j # i
    <3>1. j < pos
      BY <1>1, <1>3, <1>6, <2>3 DEF Indices
    <3> QED  BY <1>1, <2>1, <2>3, <3>1 DEF MadeInv
  <2> QED  BY <2>2, <2>3
<1>7. RetriesAreMade'
  BY <1>1 DEF RetriesAreMade, Done
<1>8. \A j \in Indices : ReadsLeft(j)'
  BY <1>4, <1>5
<1>9. \A j \in Indices : HasMoreRetry(retries[j])' <=> HasMoreRetry(retries'[j])
  BY DEF HasMoreRetry, Asked
<1> QED  BY <1>1, <1>6, <1>7, <1>8, <1>9 DEF MadeInv

\* When a round has granted nothing, every sector is settled or was read enough.
LEMMA RoundEndsMadeInv ==
    ASSUME ReadTypeOK, MadeInv, RoundEnds
    PROVE  MadeInv'
<1>1. retries' = retries /\ sectors' = sectors /\ reads' = reads /\ accepted' = accepted
      /\ stage = "turn" /\ pos > Sup /\ amount' = amount
      /\ stage' = (IF thereWasRetry THEN "turn" ELSE "idle")
      /\ (stage' = "turn" => pos' = 1)
  BY DEF RoundEnds
<1>2. /\ \A i \in Indices : ReadsLeft(i)
      /\ ~thereWasRetry => \A i \in Indices : i < pos => ~HasMoreRetry(retries[i])
  BY <1>1 DEF MadeInv
<1>3. \A i \in Indices : ReadsLeft(i)'
  BY <1>1, <1>2 DEF ReadsLeft, Settled, HasStableData, Special, OptionPolicy, PolicyOf
<1>4. \A i \in Indices : ~(i < 1) /\ i < pos
  BY <1>1, FdrawReadSectorsAssumption DEF Indices, ReadTypeOK
<1>5. ASSUME ~thereWasRetry, NEW i \in Indices
      PROVE  Settled(i) \/ reads[i] >= Special.retryTimes
  <2> DEFINE p == retries[i]
             g == Special.retryTimes
             n == Special.initial
  <2>1. /\ p \in Policy /\ reads[i] \in Nat /\ g \in Int /\ n \in Int /\ g <= n
        /\ p.retryTimes \in Int
    BY SpecialFacts, FdrawReadSectorsAssumption DEF ReadTypeOK, Policy
  <2>2. ~(Asked(p).retryTimes > 0)
    BY <1>2, <1>4, <1>5 DEF HasMoreRetry
  <2>3. /\ (p.sinceLastChange /\ p.wasChange) => Asked(p).retryTimes = p.initial
        /\ ~(p.sinceLastChange /\ p.wasChange) => Asked(p).retryTimes = p.retryTimes
    BY <2>1, AskedCases
  <2>4. ASSUME ~Settled(i)
        PROVE  /\ p.initial = n
               /\ reads[i] >= g \/ reads[i] + p.retryTimes >= g
                  \/ (p.sinceLastChange /\ p.wasChange)
    BY <1>2, <2>4 DEF ReadsLeft
  <2> HIDE DEF p, g, n
  <2>5. ~Settled(i) => reads[i] >= g
    BY <2>1, <2>2, <2>3, <2>4
  <2> QED  BY <2>5 DEF g
<1>6. RetriesAreMade'
  <2>1. (Done => \A i \in Indices :
            \/ sectors[i].badId \/ HasStableData(sectors[i]) \/ i \in accepted
            \/ reads[i] >= Special.retryTimes)'
    <3>1. Done' => ~thereWasRetry
      BY <1>1 DEF Done
    <3>2. ~thereWasRetry => \A i \in Indices :
              Settled(i)' \/ reads'[i] >= Special.retryTimes'
      BY <1>1, <1>5 DEF Settled, HasStableData, Special, OptionPolicy, PolicyOf
    <3> QED  BY <3>1, <3>2 DEF Settled
  <2> QED  BY <2>1 DEF RetriesAreMade
<1>7. stage' = "turn" => \A i \in Indices : ~(i < pos')
  BY <1>1, <1>4
<1> QED  BY <1>3, <1>6, <1>7 DEF MadeInv

LEMMA MadeInvNext == ReadTypeOK /\ MadeInv /\ [ReadNext]_readVars => MadeInv'
<1> SUFFICES ASSUME ReadTypeOK, MadeInv, [ReadNext]_readVars PROVE MadeInv'
  OBVIOUS
<1>1. CASE UNCHANGED readVars
  <2>1. RetriesAreMade'
    BY <1>1 DEF readVars, MadeInv, RetriesAreMade, Done, HasStableData, Special, OptionPolicy, PolicyOf
  <2>2. \A i \in Indices : ReadsLeft(i) => ReadsLeft(i)'
    BY <1>1 DEF readVars, ReadsLeft, Settled, HasStableData, Special, OptionPolicy, PolicyOf
  <2>3. \A i \in Indices : HasMoreRetry(retries[i])' <=> HasMoreRetry(retries[i])
    BY <1>1 DEF readVars, HasMoreRetry, Asked
  <2> QED  BY <1>1, <2>1, <2>2, <2>3 DEF readVars, MadeInv
<1>2. CASE BeginReading
  <2>1. /\ stage' = "turn" /\ pos' = 1 /\ retries' = [i \in Indices |-> Special]
        /\ reads' = [i \in Indices |-> 0] /\ amount' = amount
    BY <1>2 DEF BeginReading
  <2>2. Special' = Special /\ Special.retryTimes \in Int
    BY <2>1, SpecialFacts, FdrawReadSectorsAssumption
    DEF Special, OptionPolicy, PolicyOf, ReadTypeOK
  <2>3. \A i \in Indices : ReadsLeft(i)'
    BY <2>1, <2>2 DEF ReadsLeft
  <2> QED  BY <2>1, <2>3 DEF MadeInv, RetriesAreMade, Done, Indices
<1>3. CASE ReadThrows
  <2>1. stage' = "idle" /\ pos' = 1 /\ \E i \in Indices : i \in 1..Sup
    BY <1>3 DEF ReadThrows, Indices
  <2>2. ~(pos' > Sup)
    BY <2>1, FdrawReadSectorsAssumption
  <2> QED  BY <2>1, <2>2 DEF MadeInv, RetriesAreMade, Done
<1> QED  BY <1>1, <1>2, <1>3, TurnMadeInv, RoundEndsMadeInv DEF ReadNext, ReadOn

\* For any sectors, amount and answers of the controller: when the loops end, every
\* sector is settled or was read as often as its amount grants.
THEOREM FdrawReadRetries == ReadSpec => []RetriesAreMade
<1>1. ReadInit => MadeInv
  <2>1. ASSUME NEW i \in Indices PROVE ~(1 > Sup)
    BY FdrawReadSectorsAssumption DEF Indices
  <2>2. ReadInit => stage = "idle" /\ pos = 1
    BY DEF ReadInit
  <2> QED  BY <2>1, <2>2 DEF MadeInv, RetriesAreMade, Done
<1>2. MadeInv => RetriesAreMade
  BY DEF MadeInv
<1> QED  BY <1>1, <1>2, MadeInvNext, FdrawReadTypeOK, PTL DEF ReadSpec

=============================================================================
