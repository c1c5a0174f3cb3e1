-------------------------- MODULE RescueTrackProofs --------------------------
(***************************************************************************)
(* Theorems about RescueTrack, whatever the scans and the physical         *)
(* readings find: the policy that decides about scanning on never answers  *)
(* from a memory gone stale, both loops make what their counters grant,    *)
(* and the result has no good read that was not made.                      *)
(***************************************************************************)
EXTENDS RescueTrack, RetryPolicyProofs

\* Asking keeps a policy truthful: the answer noted is the one just found.
LEMMA WonderedIsTruthful ==
    ASSUME NEW p \in DeviceReadingPolicy, RemembersTruth(p)
    PROVE  Wondered(p) \in DeviceReadingPolicy /\ RemembersTruth(Wondered(p))
<1> DEFINE answer == UnskippableWantedEmpty(p)
<1>1. CASE p.lookForPossible
  BY <1>1 DEF Wondered
<1>2. CASE ~p.lookForPossible
  <2>1. answer \in BOOLEAN /\ answer = NothingUnskippable(p)
    BY DEF UnskippableWantedEmpty, RemembersTruth, DeviceReadingPolicy, NothingUnskippable
  <2> HIDE DEF answer
  <2>2. Wondered(p) = [p EXCEPT !.empty = answer, !.emptyValid = TRUE]
    BY <1>2, Zenon DEF Wondered, answer
  <2>3. ASSUME NEW b \in BOOLEAN
        PROVE  /\ [p EXCEPT !.empty = b, !.emptyValid = TRUE] \in DeviceReadingPolicy
               /\ [p EXCEPT !.empty = b, !.emptyValid = TRUE].empty = b
               /\ [p EXCEPT !.empty = b, !.emptyValid = TRUE].wanted = p.wanted
               /\ [p EXCEPT !.empty = b, !.emptyValid = TRUE].skippable = p.skippable
    BY DEF DeviceReadingPolicy
  <2>4. /\ Wondered(p) \in DeviceReadingPolicy
        /\ Wondered(p).empty = answer
        /\ Wondered(p).wanted = p.wanted
        /\ Wondered(p).skippable = p.skippable
    BY <2>1, <2>2, <2>3, Zenon
  <2>5. NothingUnskippable(Wondered(p)) = NothingUnskippable(p)
    BY <2>4, Zenon DEF NothingUnskippable
  <2> QED  BY <2>1, <2>4, <2>5, Zenon DEF RemembersTruth
<1> QED  BY <1>1, <1>2

\* Adding sectors keeps it truthful: the answer is forgotten.
LEMMA AddingIsTruthful ==
    ASSUME NEW p \in DeviceReadingPolicy, RemembersTruth(p), NEW sectors \in SUBSET Sites
    PROVE  /\ AddSkippableSectors(p, sectors) \in DeviceReadingPolicy
           /\ RemembersTruth(AddSkippableSectors(p, sectors))
<1> DEFINE longer == [p EXCEPT !.skippable = @ \cup sectors, !.emptyValid = FALSE]
<1>1. longer \in DeviceReadingPolicy /\ ~longer.emptyValid
  BY DEF DeviceReadingPolicy
<1>2. AddSkippableSectors(p, sectors) = p \/ AddSkippableSectors(p, sectors) = longer
  BY Zenon DEF AddSkippableSectors
<1> QED  BY <1>1, <1>2, Zenon DEF RemembersTruth

-----------------------------------------------------------------------------
(* The invariant: the headers known are places of the track, so that the   *)
(* policy made from them is one.                                           *)

TruthInv ==
    /\ request \in Requests
    /\ scanPolicy \in DeviceReadingPolicy
    /\ RemembersTruth(scanPolicy)
    /\ timed \subseteq Sites /\ ids \subseteq Sites

LEMMA RequestsAreTruthful ==
    ASSUME NEW p \in Requests
    PROVE  p \in DeviceReadingPolicy /\ RemembersTruth(p)
BY RescueTrackAssumption, Zenon DEF RescueTrackAssumption

\* RescueTrack is entered or left.
LEMMA FreshTruth ==
    ASSUME request' \in Requests, Locals(request')
    PROVE  TruthInv'
<1>1. scanPolicy' = request' /\ timed' = {} /\ ids' = {}
  BY DEF Locals
<1>2. request' \in DeviceReadingPolicy /\ RemembersTruth(request')
  BY RequestsAreTruthful
<1> QED  BY <1>1, <1>2 DEF TruthInv, RemembersTruth, NothingUnskippable

LEMMA TruthInit == Init => TruthInv
BY RequestsAreTruthful DEF Init, TruthInv

LEMMA TruthStep == TruthInv /\ [Next]_vars => TruthInv'
<1> SUFFICES ASSUME TruthInv, [Next]_vars PROVE TruthInv'
  OBVIOUS
<1> USE DEF TruthInv
<1>r. request \in DeviceReadingPolicy /\ RemembersTruth(request)
  BY RequestsAreTruthful
<1>w. Wondered(scanPolicy) \in DeviceReadingPolicy /\ RemembersTruth(Wondered(scanPolicy))
  BY WonderedIsTruthful
<1>k. ASSUME UNCHANGED request, scanPolicy' \in DeviceReadingPolicy,
             RemembersTruth(scanPolicy'), timed' \subseteq Sites, ids' \subseteq Sites
      PROVE  TruthInv'
  BY <1>k DEF RemembersTruth, NothingUnskippable
<1>1. CASE Begin
  BY <1>1, FreshTruth DEF Begin, Fresh
<1>2. CASE ScanWithoutResult
  BY <1>2, FreshTruth DEF ScanWithoutResult, Fresh
<1>3. CASE Scan
  <2>1. timed' \subseteq Sites
    BY <1>3 DEF Scan
  <2>2. scanPolicy' = scanPolicy \/ scanPolicy' = AddSkippableSectors(request, timed')
    BY <1>3 DEF Scan
  <2>3. scanPolicy' \in DeviceReadingPolicy /\ RemembersTruth(scanPolicy')
    BY <2>1, <2>2, <1>r, AddingIsTruthful
  <2> QED  BY <1>3, <1>k, <2>1, <2>3 DEF Scan
<1>4. CASE ScanAgain
  BY <1>4, <1>k, <1>w DEF ScanAgain
<1>5. CASE Prepare
  <2>1. CASE timed = {}
    BY <1>5, <2>1, FreshTruth DEF Prepare, Fresh
  <2>2. CASE timed # {}
    BY <1>5, <1>k, <2>2 DEF Prepare
  <2> QED  BY <2>1, <2>2
<1>6. CASE RoundWithoutReading
  BY <1>6, <1>k, <1>w DEF RoundWithoutReading
<1>7. CASE RoundWithReading
  BY <1>7, <1>k, <1>w DEF RoundWithReading
<1>8. CASE Physical
  <2>1. ids' \subseteq Sites
    BY <1>8 DEF Physical, PhysicalSites
  <2>2. scanPolicy' = scanPolicy \/ scanPolicy' = AddSkippableSectors(request, ids')
    BY <1>8 DEF Physical
  <2>3. scanPolicy' \in DeviceReadingPolicy /\ RemembersTruth(scanPolicy')
    BY <2>1, <2>2, <1>r, AddingIsTruthful
  <2> QED  BY <1>8, <1>k, <2>1, <2>3 DEF Physical
<1>9. CASE Finish
  BY <1>9, FreshTruth DEF Finish
<1>10. CASE Unhide
  BY <1>10, FreshTruth DEF Unhide
<1>11. CASE Repeated
  BY <1>11, FreshTruth DEF Repeated, Fresh
<1>12. CASE Throw
  BY <1>12, FreshTruth DEF Throw, Fresh
<1>13. CASE UNCHANGED vars
  BY <1>13, <1>k DEF vars, local
<1> QED
  BY <1>1, <1>2, <1>3, <1>4, <1>5, <1>6, <1>7, <1>8, <1>9, <1>10, <1>11, <1>12, <1>13
  DEF Next, Proceed

\* The answer remembered by the policy that decides about scanning on is the one its
\* sets give, for any sectors, callers, amounts and findings.
THEOREM RescueRemembersTruth == Spec => []RememberedAnswerIsTrue
<1>1. TruthInv => RememberedAnswerIsTrue
  BY DEF TruthInv, RememberedAnswerIsTrue
<1> QED  BY <1>1, TruthInit, TruthStep, PTL DEF Spec

-----------------------------------------------------------------------------
(* Types.  What RescueTrack keeps, what it returns and the loop around it.  *)

History == [scans : Nat, quiet : Nat, asked : SUBSET Sites]

ControlTypes ==
    /\ step \in Steps
    /\ request \in Requests /\ amounts \in Amounts
    /\ tries \in 0..MaxTries
    /\ detected \in {"unknown", "MFM", "FM"}
    /\ outcome \in {"none", "empty", "complete", "spent", "thrown"}

LocalTypes ==
    /\ scanPolicy \in DeviceReadingPolicy
    /\ rescans \in Policy
    /\ timed \subseteq Sites /\ ids \subseteq Sites /\ tried \subseteq Sites
    /\ good \in [Sites -> 0..Level]
    /\ physical \in [Sites -> Levels]
    /\ history \in History

ResultTypes == final \subseteq Sites /\ kept \in [Sites -> Nat]

TypesInv == ControlTypes /\ LocalTypes /\ ResultTypes

LEMMA TypesAreTypeOK == TypesInv => TypeOK
BY DEF TypesInv, ControlTypes, LocalTypes, ResultTypes, TypeOK, History

LEMMA AmountFacts ==
    ASSUME amounts \in Amounts
    PROVE  /\ RescansOption \in Policy /\ PhysicalRescansInit \in Policy
           /\ RescansOption.wasChange = FALSE
           /\ RescansOption.retryTimes = RescansOption.initial
                  - (IF RescansOption.sinceLastChange THEN 1 ELSE 0)
           /\ PhysicalRescansInit.retryTimes = PhysicalRescansInit.initial
                  - (IF PhysicalRescansInit.sinceLastChange THEN 1 ELSE 0)
           /\ MaxCount \in Nat
           /\ MaxCount >= RescansOption.initial + 2
           /\ MaxCount >= PhysicalRescansInit.initial + 2
<1>1. amounts[1] \in Int /\ amounts[2] \in Int
  BY RescueTrackAssumption
<1>2. ASSUME NEW n \in Int
      PROVE  /\ OptionPolicy(n) \in Policy /\ OptionPolicy(n).initial \in Nat
             /\ OptionPolicy(n).wasChange = FALSE
             /\ OptionPolicy(n).retryTimes = OptionPolicy(n).initial
                    - (IF OptionPolicy(n).sinceLastChange THEN 1 ELSE 0)
  <2>1. OptionPolicy(n) \in Policy
    BY PolicyTypes
  <2>2. OptionPolicy(n).initial \in Nat
    BY OptionFacts
  <2>3. CASE OptionPolicy(n).sinceLastChange
    BY <2>1, <2>2, <2>3, OptionFacts
  <2>4. CASE ~OptionPolicy(n).sinceLastChange
    <3>1. OptionPolicy(n).retryTimes = OptionPolicy(n).initial
      BY <2>4, OptionFacts
    <3>2. OptionPolicy(n).initial - 0 = OptionPolicy(n).initial
      BY <2>2
    <3>3. (IF OptionPolicy(n).sinceLastChange THEN 1 ELSE 0) = 0
      BY <2>4
    <3>4. OptionPolicy(n).wasChange = FALSE
      BY OptionFacts
    <3> QED  BY <2>1, <2>2, <3>1, <3>2, <3>3, <3>4
  <2> QED  BY <2>3, <2>4
<1> DEFINE a == OptionPolicy(amounts[1])
           b == OptionPolicy(amounts[2])
<1>3. /\ a \in Policy /\ a.initial \in Nat /\ a.wasChange = FALSE
      /\ a.retryTimes = a.initial - (IF a.sinceLastChange THEN 1 ELSE 0)
      /\ b \in Policy /\ b.initial \in Nat
      /\ b.retryTimes = b.initial - (IF b.sinceLastChange THEN 1 ELSE 0)
  BY <1>1, <1>2
<1>4. /\ RescansOption = a /\ PhysicalRescansInit \in {a, b}
      /\ MaxCount = (IF a.initial > b.initial THEN a.initial ELSE b.initial) + 2
  BY DEF RescansOption, RetriesOption, PhysicalRescansInit, MaxCount
<1> HIDE DEF a, b
<1>5. CASE PhysicalRescansInit = a
  BY <1>3, <1>4, <1>5
<1>6. CASE PhysicalRescansInit = b
  BY <1>3, <1>4, <1>6
<1> QED  BY <1>4, <1>5, <1>6

LEMMA NoReadsTypes ==
    NoReads \in [Sites -> 0..Level] /\ NoReads \in [Sites -> Levels] /\ NoReads \in [Sites -> Nat]
<1>1. 0 \in 0..Level /\ 0 \in Levels /\ 0 \in Nat
  BY RescueTrackAssumption
<1> QED  BY <1>1 DEF NoReads

\* RescueTrack is entered or left with everything typed.
LEMMA FreshTypes ==
    ASSUME amounts \in Amounts, request' \in Requests, Locals(request')
    PROVE  LocalTypes'
<1>1. /\ scanPolicy' = request' /\ rescans' = RescansOption
      /\ timed' = {} /\ ids' = {} /\ tried' = {}
      /\ good' = NoReads /\ physical' = NoReads
      /\ history' = [scans |-> 0, quiet |-> 0, asked |-> {}]
  BY DEF Locals, NoHistory
<1>2. request' \in DeviceReadingPolicy
  BY RequestsAreTruthful
<1> QED  BY <1>1, <1>2, NoReadsTypes, AmountFacts DEF LocalTypes, History

LEMMA NoResultTypes == NoResult => ResultTypes'
BY NoReadsTypes DEF NoResult, ResultTypes

LEMMA CountTypes ==
    ASSUME amounts \in Amounts, history \in History
    PROVE  /\ \A n \in Nat : NextCount(n) \in Nat /\ (NextCount(n) = n + 1 \/ NextCount(n) >= MaxCount)
           /\ \A new \in BOOLEAN :
                 /\ Counted(new) \in History
                 /\ Counted(new).scans = NextCount(history.scans)
                 /\ Counted(new).quiet = (IF new THEN 0 ELSE NextCount(history.quiet))
<1>1. ASSUME NEW n \in Nat
      PROVE  NextCount(n) \in Nat /\ (NextCount(n) = n + 1 \/ NextCount(n) >= MaxCount)
  BY AmountFacts DEF NextCount
<1>2. ASSUME NEW new \in BOOLEAN
      PROVE  /\ Counted(new) \in History
             /\ Counted(new).scans = NextCount(history.scans)
             /\ Counted(new).quiet = (IF new THEN 0 ELSE NextCount(history.quiet))
  <2> DEFINE scans == NextCount(history.scans)
             quiet == IF new THEN 0 ELSE NextCount(history.quiet)
  <2>1. scans \in Nat /\ quiet \in Nat
    BY <1>1 DEF History
  <2>2. Counted(new) = [history EXCEPT !.scans = scans, !.quiet = quiet]
    BY DEF Counted
  <2> HIDE DEF scans, quiet
  <2>3. /\ Counted(new) \in History
        /\ Counted(new).scans = scans /\ Counted(new).quiet = quiet
    BY <2>1, <2>2 DEF History
  <2> QED  BY <2>3 DEF scans, quiet
<1> QED  BY <1>1, <1>2

LEMMA GoodReadsTypes ==
    \A level \in Levels : GoodReads(level) \in Nat
BY RescueTrackAssumption DEF GoodReads

\* A track with its good reads, whatever policy selected them.
LEMMA MergedTypes ==
    ASSUME physical \in [Sites -> Levels], NEW policy, NEW track,
           NEW counts \in [Sites -> Nat]
    PROVE  /\ Merged(policy, counts, track) \in [Sites -> Nat]
           /\ \A s \in Sites :
                 Merged(policy, counts, track)[s] <= counts[s] + GoodReads(physical[s])
<1> SUFFICES ASSUME NEW s \in Sites
             PROVE  /\ Merged(policy, counts, track)[s] \in Nat
                    /\ Merged(policy, counts, track)[s] <= counts[s] + GoodReads(physical[s])
  BY DEF Merged
<1>1. counts[s] \in Nat /\ GoodReads(physical[s]) \in Nat
  BY GoodReadsTypes
<1>2. Merged(policy, counts, track)[s] \in
          {0, counts[s], counts[s] + 0, counts[s] + GoodReads(physical[s])}
  BY DEF Merged
<1> QED  BY <1>1, <1>2

LEMMA ReadingsTypes ==
    ASSUME NEW selected \in SUBSET Sites, NEW n \in Readings(selected)
    PROVE  /\ DOMAIN n \subseteq selected
           /\ \A s \in DOMAIN n : n[s] \in 0..Level
BY DEF Readings

\* The commands of a round leave typed reads and a typed result.
LEMMA ReadIdsTypes ==
    ASSUME LocalTypes, NEW policy, ReadIds(policy)
    PROVE  /\ tried' \subseteq Sites /\ good' \in [Sites -> 0..Level]
           /\ history' \in History /\ ResultTypes'
           /\ history'.scans = history.scans /\ history'.quiet = history.quiet
           /\ ids \subseteq final'
           /\ physical' = physical => FromPhysical(policy) \subseteq final'
           /\ \A s \in Sites : kept'[s] <= good'[s] + GoodReads(physical[s])
<1>1. PICK n \in Readings(Selected(policy, ids, tried)) :
        /\ tried' = tried \cup DOMAIN n
        /\ good' = Updated(good, n)
        /\ history' = [history EXCEPT !.asked = @ \cup Selected(policy, ids, tried)]
        /\ final' = ids \cup FromPhysical(policy)
        /\ kept' = Merged(policy, good', ids)
  BY DEF ReadIds
<1>2. Selected(policy, ids, tried) \subseteq Sites /\ FromPhysical(policy) \subseteq Sites
  BY DEF Selected, FromPhysical, PhysicalSites, LocalTypes
<1>3. DOMAIN n \subseteq Sites /\ \A s \in DOMAIN n : n[s] \in 0..Level
  BY <1>1, <1>2, ReadingsTypes
<1>4. good' \in [Sites -> 0..Level]
  BY <1>1, <1>3 DEF Updated, LocalTypes
<1>5. good' \in [Sites -> Nat]
  BY <1>4, RescueTrackAssumption
<1>6. kept' \in [Sites -> Nat] /\ \A s \in Sites : kept'[s] <= good'[s] + GoodReads(physical[s])
  BY <1>1, <1>5, MergedTypes DEF LocalTypes
<1>7. /\ history' \in History
      /\ history'.scans = history.scans /\ history'.quiet = history.quiet
  BY <1>1, <1>2 DEF History, LocalTypes
<1> QED  BY <1>1, <1>2, <1>3, <1>4, <1>6, <1>7 DEF ResultTypes, LocalTypes

\* What Unhide does with a sector, the first one and the reads that were made.
UnhiddenBy(d, m, n) ==
    LET read == [s \in Sites |-> kept[s] + IF s \in DOMAIN n THEN n[s] ELSE 0]
        merged == IF d \in Attempted THEN kept ELSE Merged(Detecting(d), read, final)
        track == IF d \in Attempted THEN final ELSE final \cup FromPhysical(Detecting(d))
    IN  /\ Completed(track \cup {m})
        /\ kept' = [s \in Sites |->
              IF s \notin final' THEN 0
              ELSE IF s = m THEN merged[m] + merged[d] ELSE merged[s]]

\* Unhiding the first sector makes counts out of counts.
LEMMA UnhideTypes ==
    ASSUME LocalTypes, ResultTypes, Unhide
    PROVE  ResultTypes'
<1>1. PICK d \in FirstOf(final) \cup LastOf(final) :
        \E m \in (FirstOf(final) \cup (Sites \ final)) \ {d} :
        \E n \in Readings(IF d \in Attempted THEN {}
                          ELSE Selected(Detecting(d), final, Attempted)) :
            UnhiddenBy(d, m, n)
  BY DEF Unhide, UnhiddenBy
<1>m. PICK m \in (FirstOf(final) \cup (Sites \ final)) \ {d},
           n \in Readings(IF d \in Attempted THEN {}
                          ELSE Selected(Detecting(d), final, Attempted)) :
        UnhiddenBy(d, m, n)
  BY <1>1
<1> DEFINE selected == IF d \in Attempted THEN {}
                       ELSE Selected(Detecting(d), final, Attempted)
           read == [s \in Sites |-> kept[s] + IF s \in DOMAIN n THEN n[s] ELSE 0]
           merged == IF d \in Attempted THEN kept ELSE Merged(Detecting(d), read, final)
           track == IF d \in Attempted THEN final ELSE final \cup FromPhysical(Detecting(d))
<1>2. d \in Sites /\ m \in Sites /\ track \subseteq Sites
  BY DEF FirstOf, LastOf, ResultTypes, FromPhysical, PhysicalSites
<1>3. selected \subseteq Sites
  BY DEF Selected, ResultTypes
<1>4. \A s \in DOMAIN n : n[s] \in Nat
  BY <1>3, ReadingsTypes, RescueTrackAssumption
<1>5. read \in [Sites -> Nat]
  BY <1>4 DEF ResultTypes
<1>6. merged \in [Sites -> Nat]
  <2> HIDE DEF read
  <2>1. Merged(Detecting(d), read, final) \in [Sites -> Nat]
    BY <1>5, MergedTypes DEF LocalTypes
  <2> QED  BY <2>1 DEF ResultTypes
<1>7. /\ Completed(track \cup {m})
      /\ kept' = [s \in Sites |->
              IF s \notin final' THEN 0
              ELSE IF s = m THEN merged[m] + merged[d] ELSE merged[s]]
  BY <1>m DEF UnhiddenBy
<1> HIDE DEF merged, track, read, selected
<1>8. final' \subseteq Sites
  BY <1>2, <1>7 DEF Completed
<1>9. merged[m] + merged[d] \in Nat
  BY <1>2, <1>6
<1>10. kept' \in [Sites -> Nat]
  BY <1>6, <1>7, <1>9
<1> QED  BY <1>8, <1>10 DEF ResultTypes

LEMMA TypesInit == Init => TypesInv
<1> SUFFICES ASSUME Init PROVE TypesInv
  OBVIOUS
<1>1. 0 \in 0..MaxTries
  BY DEF MaxTries
<1>2. ControlTypes
  BY <1>1 DEF Init, ControlTypes, Steps
<1>3. scanPolicy \in DeviceReadingPolicy
  BY RequestsAreTruthful DEF Init
<1>4. LocalTypes
  BY <1>3, NoReadsTypes, AmountFacts DEF Init, LocalTypes, NoHistory, History
<1> QED  BY <1>2, <1>4, NoReadsTypes DEF Init, TypesInv, ResultTypes

LEMMA TypesStep == TruthInv /\ TypesInv /\ [Next]_vars => TypesInv'
<1> SUFFICES ASSUME TruthInv, TypesInv, [Next]_vars PROVE TypesInv'
  OBVIOUS
<1>0. ControlTypes /\ LocalTypes /\ ResultTypes /\ TruthInv' /\ amounts \in Amounts
  BY TruthStep DEF TypesInv, ControlTypes
<1>c. ASSUME UNCHANGED <<request, amounts, tries, detected>>,
             step' \in Steps, outcome' \in {outcome, "empty", "complete", "spent", "thrown"}
      PROVE  ControlTypes'
  BY <1>0, <1>c DEF ControlTypes
<1>p. scanPolicy' \in DeviceReadingPolicy /\ request' \in Requests
      /\ timed' \subseteq Sites /\ ids' \subseteq Sites
  BY <1>0 DEF TruthInv
<1>f. ASSUME Locals(request') PROVE LocalTypes'
  BY <1>0, <1>f, <1>p, FreshTypes
<1>n. ASSUME NoResult PROVE ResultTypes'
  BY <1>n, NoResultTypes
<1>r. ASSUME UNCHANGED <<final, kept>> PROVE ResultTypes'
  BY <1>0, <1>r DEF ResultTypes
<1>1. CASE Begin
  <2>1. 1 \in 0..MaxTries
    BY DEF MaxTries
  <2>2. ControlTypes'
    BY <1>0, <1>1, <2>1 DEF Begin, ControlTypes, Steps
  <2> QED  BY <1>1, <1>f, <1>n, <2>2 DEF Begin, Fresh, TypesInv
<1>2. CASE ScanWithoutResult
  <2>1. ControlTypes'
    BY <1>0, <1>2 DEF ScanWithoutResult, Ends, ControlTypes, Steps
  <2> QED  BY <1>2, <1>f, <1>n, <2>1 DEF ScanWithoutResult, Fresh, TypesInv
<1>3. CASE Scan
  <2>1. /\ UNCHANGED <<request, amounts, tries, ids, tried, good, physical, final, kept, outcome>>
        /\ step' = "more" /\ detected' = "MFM"
        /\ rescans' = (IF timed' # timed THEN Changed(rescans) ELSE rescans)
        /\ history' = Counted(timed' # timed)
    BY <1>3 DEF Scan
  <2>2. ControlTypes'
    BY <1>0, <2>1 DEF ControlTypes, Steps
  <2>3. rescans' \in Policy
    BY <1>0, <2>1, PolicyTypes DEF LocalTypes
  <2>4. history' \in History
    <3>1. (timed' # timed) \in BOOLEAN
      OBVIOUS
    <3> QED  BY <1>0, <2>1, <3>1, CountTypes, Zenon DEF LocalTypes
  <2>5. LocalTypes'
    BY <1>0, <1>p, <2>1, <2>3, <2>4 DEF LocalTypes
  <2> QED  BY <1>r, <2>1, <2>2, <2>5 DEF TypesInv
<1>4. CASE ScanAgain
  <2>1. /\ UNCHANGED <<request, amounts, tries, detected, timed, ids, tried, good, physical,
                       final, kept, outcome, history>>
        /\ step' \in {"scan", "prepare"}
        /\ rescans' = Minus(Asked(rescans), 1)
    BY <1>4 DEF ScanAgain
  <2>2. rescans' \in Policy
    BY <1>0, <2>1, PolicyTypes DEF LocalTypes
  <2>3. LocalTypes'
    BY <1>0, <1>p, <2>1, <2>2 DEF LocalTypes
  <2> QED  BY <1>c, <1>r, <2>1, <2>3 DEF TypesInv, Steps
<1>5. CASE Prepare
  <2>1. CASE timed = {}
    <3>1. Ends("empty") /\ Fresh(request) /\ UNCHANGED <<request, amounts, tries, detected>>
      BY <1>5, <2>1 DEF Prepare
    <3> QED  BY <1>c, <1>f, <1>n, <3>1 DEF Ends, Fresh, Steps, TypesInv
  <2>2. CASE timed # {}
    <3>1. /\ step' = "round"
          /\ rescans' = Minus(PhysicalRescansInit, -1)
          /\ history' = [history EXCEPT !.scans = 0, !.quiet = 0]
          /\ UNCHANGED <<request, amounts, tries, detected, scanPolicy, timed, tried, good,
                         physical, final, kept, outcome>>
      BY <1>5, <2>2 DEF Prepare
    <3>2. rescans' \in Policy
      BY <1>0, <3>1, AmountFacts, PolicyTypes
    <3>3. history' \in History
      BY <1>0, <3>1 DEF LocalTypes, History
    <3>4. LocalTypes'
      BY <1>0, <1>p, <3>1, <3>2, <3>3 DEF LocalTypes
    <3> QED  BY <1>c, <1>r, <3>1, <3>4 DEF TypesInv, Steps
  <2> QED  BY <2>1, <2>2
<1>6. CASE RoundWithoutReading
  <2>1. /\ UNCHANGED <<request, amounts, tries, detected, rescans, timed, ids, tried, good,
                       physical, final, kept, outcome, history>>
        /\ step' = "physical"
    BY <1>6 DEF RoundWithoutReading
  <2>2. LocalTypes'
    BY <1>0, <1>p, <2>1 DEF LocalTypes
  <2> QED  BY <1>c, <1>r, <2>1, <2>2 DEF TypesInv, Steps
<1>7. CASE RoundWithReading
  <2>1. /\ UNCHANGED <<request, amounts, tries, detected, rescans, timed, ids, physical>>
        /\ step' \in {"final", "physical"} /\ outcome' \in {outcome, "complete", "spent"}
        /\ \/ UNCHANGED <<tried, good, final, kept, history>>
           \/ ReadIds(request)
    BY <1>7 DEF RoundWithReading, ReadingRequest
  <2>2. /\ tried' \subseteq Sites /\ good' \in [Sites -> 0..Level]
        /\ history' \in History /\ ResultTypes'
    BY <1>0, <1>r, <2>1, ReadIdsTypes DEF LocalTypes
  <2>3. LocalTypes'
    BY <1>0, <1>p, <2>1, <2>2 DEF LocalTypes
  <2> QED  BY <1>c, <2>1, <2>2, <2>3 DEF TypesInv, Steps
<1>8. CASE Physical
  <2>1. /\ UNCHANGED <<request, amounts, tries, detected, timed, tried, good, final, kept, outcome>>
        /\ step' = "round"
    BY <1>8 DEF Physical
  <2>2. PICK new \in PhysicalReadings :
          /\ physical' = new
          /\ rescans' = LET counter == Minus(Asked(rescans), 1)
                        IN  IF Better(new) THEN Changed(counter) ELSE counter
          /\ history' = Counted(Better(new))
    BY <1>8 DEF Physical
  <2>3. physical' \in [Sites -> Levels]
    BY <1>0, <2>2 DEF PhysicalReadings, LocalTypes
  <2>4. rescans' \in Policy
    BY <1>0, <2>2, PolicyTypes DEF LocalTypes
  <2>5. history' \in History
    <3>1. Better(new) \in BOOLEAN
      BY DEF Better
    <3> QED  BY <1>0, <2>2, <3>1, CountTypes, Zenon DEF LocalTypes
  <2>6. LocalTypes'
    BY <1>0, <1>p, <2>1, <2>3, <2>4, <2>5 DEF LocalTypes
  <2> QED  BY <1>c, <1>r, <2>1, <2>6 DEF TypesInv, Steps
<1>9. CASE Finish
  <2>1. /\ Completed(final) /\ kept' = [s \in Sites |-> IF s \in final' THEN kept[s] ELSE 0]
        /\ step' = "idle" /\ Locals(request)
        /\ UNCHANGED <<request, amounts, tries, detected, outcome>>
    BY <1>9 DEF Finish
  <2>2. ResultTypes'
    BY <1>0, <2>1 DEF Completed, ResultTypes
  <2> QED  BY <1>c, <1>f, <2>1, <2>2 DEF TypesInv, Steps
<1>10. CASE Unhide
  <2>1. /\ step' = "idle" /\ Locals(request)
        /\ UNCHANGED <<request, amounts, tries, detected, outcome>>
    BY <1>10 DEF Unhide
  <2>2. ResultTypes'
    BY <1>0, <1>10, UnhideTypes
  <2> QED  BY <1>c, <1>f, <2>1, <2>2 DEF TypesInv, Steps
<1>11. CASE Repeated
  <2>1. /\ \/ step' = "scan" /\ tries' = tries + 1 /\ TriesLeft /\ UNCHANGED outcome
           \/ Ends("empty") /\ UNCHANGED tries
        /\ Fresh(request) /\ UNCHANGED <<request, amounts, detected>>
    BY <1>11 DEF Repeated
  <2>2. ControlTypes'
    BY <1>0, <2>1 DEF Ends, ControlTypes, Steps, TriesLeft, MaxTries
  <2> QED  BY <1>f, <1>n, <2>1, <2>2 DEF Fresh, TypesInv
<1>12. CASE Throw
  <2>1. Ends("thrown") /\ Fresh(request) /\ UNCHANGED <<request, amounts, tries, detected>>
    BY <1>12 DEF Throw
  <2> QED  BY <1>c, <1>f, <1>n, <2>1 DEF Ends, Fresh, Steps, TypesInv
<1>13. CASE UNCHANGED vars
  BY <1>13 DEF vars, local, TypesInv, ControlTypes, LocalTypes, ResultTypes
<1> QED
  BY <1>1, <1>2, <1>3, <1>4, <1>5, <1>6, <1>7, <1>8, <1>9, <1>10, <1>11, <1>12, <1>13
  DEF Next, Proceed

LEMMA RescueInvariant == Spec => [](TruthInv /\ TypesInv)
BY TruthInit, TruthStep, TypesInit, TypesStep, PTL DEF Spec

\* Type correctness of the rescue, for any sectors, callers, amounts and findings.
THEOREM RescueTypeOK == Spec => []TypeOK
BY RescueInvariant, TypesAreTypeOK, PTL

-----------------------------------------------------------------------------
(* The scanning loop.  A plain counter and the scans make up the amount; of *)
(* one that starts over what is left makes it up with the quiet scans.      *)

ScansInv ==
    /\ step \in {"scan", "more"} =>
          /\ rescans.initial = RescansOption.initial
          /\ rescans.sinceLastChange = RescansOption.sinceLastChange
    /\ step = "scan" /\ ~RescansOption.sinceLastChange =>
          /\ rescans.retryTimes >= 0
          /\ history.scans + rescans.retryTimes = RescansOption.initial
    /\ step = "more" /\ ~RescansOption.sinceLastChange =>
          /\ rescans.retryTimes >= 0
          /\ history.scans + rescans.retryTimes = RescansOption.initial + 1
    /\ step = "scan" /\ RescansOption.sinceLastChange =>
          /\ ~rescans.wasChange
          /\ \/ history.quiet >= RescansOption.initial
             \/ history.quiet + rescans.retryTimes >= RescansOption.initial - 1
    /\ step = "more" /\ RescansOption.sinceLastChange =>
          \/ rescans.wasChange
          \/ history.quiet >= RescansOption.initial
          \/ history.quiet + rescans.retryTimes >= RescansOption.initial
    /\ RescansAreMade

\* Asking whether more is wanted does not change the answer.
LEMMA WonderedAnswersSame ==
    ASSUME NEW p \in DeviceReadingPolicy
    PROVE  WantMoreSectors(Wondered(p)) <=> WantMoreSectors(p)
<1>1. CASE p.lookForPossible
  BY <1>1 DEF Wondered
<1>2. CASE ~p.lookForPossible
  <2> DEFINE answer == UnskippableWantedEmpty(p)
  <2>1. answer \in BOOLEAN
    BY DEF UnskippableWantedEmpty, DeviceReadingPolicy, NothingUnskippable
  <2>2. Wondered(p) = [p EXCEPT !.empty = answer, !.emptyValid = TRUE]
    BY <1>2 DEF Wondered
  <2> HIDE DEF answer
  <2>3. /\ Wondered(p).empty = answer /\ Wondered(p).emptyValid
        /\ Wondered(p).lookForPossible = p.lookForPossible
    BY <2>2 DEF DeviceReadingPolicy
  <2>4. UnskippableWantedEmpty(Wondered(p)) = answer
    BY <2>3 DEF UnskippableWantedEmpty
  <2> QED  BY <2>3, <2>4 DEF WantMoreSectors, answer
<1> QED  BY <1>1, <1>2

LEMMA SameAmounts ==
    ASSUME [Next]_vars
    PROVE  /\ amounts' = amounts
           /\ RescansOption' = RescansOption /\ PhysicalRescansInit' = PhysicalRescansInit
<1>1. amounts' = amounts
  BY DEF Next, Proceed, vars, Begin, ScanWithoutResult, Scan, ScanAgain, Prepare,
         RoundWithoutReading, RoundWithReading, Physical, Finish, Unhide, Repeated, Throw
<1> QED  BY <1>1 DEF RescansOption, RetriesOption, PhysicalRescansInit, Below,
                     OptionPolicy, PolicyOf

\* One scan: the counter as it is, with the change noted if there was one.
LEMMA ScanShape ==
    ASSUME LocalTypes, amounts \in Amounts, Scan
    PROVE  /\ step = "scan" /\ step' = "more"
           /\ history'.scans = NextCount(history.scans)
           /\ \/ /\ rescans' = Changed(rescans)
                 /\ history'.quiet = 0
              \/ /\ rescans' = rescans
                 /\ history'.quiet = NextCount(history.quiet)
<1> DEFINE grown == timed' # timed
<1>1. /\ step = "scan" /\ step' = "more" /\ grown \in BOOLEAN
      /\ rescans' = (IF grown THEN Changed(rescans) ELSE rescans)
      /\ history' = Counted(grown)
  BY DEF Scan
<1> HIDE DEF grown
<1>2. /\ history'.scans = NextCount(history.scans)
      /\ history'.quiet = (IF grown THEN 0 ELSE NextCount(history.quiet))
  BY <1>1, CountTypes DEF LocalTypes
<1> QED  BY <1>1, <1>2

LEMMA ScansStep ==
    TruthInv /\ TypesInv /\ ScansInv /\ [Next]_vars => ScansInv'
<1> SUFFICES ASSUME TruthInv, TypesInv, ScansInv, [Next]_vars PROVE ScansInv'
  OBVIOUS
<1> DEFINE n == RescansOption.initial
           since == RescansOption.sinceLastChange
           r == rescans.retryTimes
           scans == history.scans
           quiet == history.quiet
<1>0. /\ amounts \in Amounts /\ LocalTypes /\ RescansOption' = RescansOption
      /\ scanPolicy \in DeviceReadingPolicy /\ rescans \in Policy
      /\ n \in Nat /\ since \in BOOLEAN /\ r \in Int /\ scans \in Nat /\ quiet \in Nat
      /\ MaxCount \in Nat /\ MaxCount >= n + 2
  BY SameAmounts, AmountFacts DEF TypesInv, ControlTypes, LocalTypes, History, Policy
<1>i. ASSUME step' \notin {"scan", "more", "prepare"}
      PROVE  ScansInv'
  BY <1>i DEF ScansInv, RescansAreMade
<1>f. ASSUME step' \in {"scan", "idle"}, Locals(request')
      PROVE  ScansInv'
  <2>1. rescans' = RescansOption /\ history'.scans = 0 /\ history'.quiet = 0
    BY <1>f DEF Locals, NoHistory
  <2>2. /\ RescansOption.wasChange = FALSE
        /\ RescansOption.retryTimes = n - (IF since THEN 1 ELSE 0)
    BY <1>0, AmountFacts
  <2>3. step' # "more" /\ step' # "prepare"
    BY <1>f
  <2> HIDE DEF n, since
  <2>4. ~since => RescansOption.retryTimes >= 0 /\ 0 + RescansOption.retryTimes = n
    BY <1>0, <2>2
  <2>5. since => 0 + RescansOption.retryTimes >= n - 1
    BY <1>0, <2>2
  <2> QED  BY <1>0, <2>1, <2>2, <2>3, <2>4, <2>5 DEF ScansInv, RescansAreMade, n, since
<1>1. CASE Scan
  <2>1. /\ step = "scan" /\ step' = "more"
        /\ history'.scans = NextCount(scans)
        /\ \/ rescans' = Changed(rescans) /\ history'.quiet = 0
           \/ rescans' = rescans /\ history'.quiet = NextCount(quiet)
    BY <1>0, <1>1, ScanShape
  <2>2. /\ rescans'.initial = n /\ rescans'.sinceLastChange = since
        /\ rescans'.retryTimes = r
        /\ \/ rescans'.wasChange
           \/ history'.quiet = NextCount(quiet)
    BY <1>0, <2>1 DEF ScansInv, Changed, Policy
  <2>3. /\ NextCount(scans) = scans + 1 \/ NextCount(scans) >= MaxCount
        /\ NextCount(quiet) = quiet + 1 \/ NextCount(quiet) >= MaxCount
        /\ NextCount(scans) \in Nat /\ NextCount(quiet) \in Nat
        /\ scans <= n => NextCount(scans) = scans + 1
    BY <1>0, CountTypes DEF NextCount, LocalTypes
  <2>4. /\ ~since => r >= 0 /\ scans + r = n
        /\ since => quiet >= n \/ quiet + r >= n - 1
    BY <2>1 DEF ScansInv
  <2> HIDE DEF n, since, r, scans, quiet
  <2>5. ~since => NextCount(scans) + r = n + 1 /\ r >= 0
    BY <1>0, <2>3, <2>4
  <2>6. since => NextCount(quiet) >= n \/ NextCount(quiet) + r >= n
    BY <1>0, <2>3, <2>4
  <2> QED  BY <1>0, <2>1, <2>2, <2>5, <2>6 DEF ScansInv, RescansAreMade, n, since
<1>2. CASE ScanAgain
  <2> DEFINE a == Asked(rescans)
  <2>1. /\ step = "more" /\ history' = history
        /\ step' = (IF HasMoreRetry(rescans) /\ WantMoreSectors(scanPolicy)
                    THEN "scan" ELSE "prepare")
        /\ scanPolicy' = (IF HasMoreRetry(rescans) THEN Wondered(scanPolicy) ELSE scanPolicy)
        /\ rescans' = Minus(a, 1)
    BY <1>2 DEF ScanAgain
  <2>2. /\ rescans.initial = n /\ rescans.sinceLastChange = since
        /\ ~since => r >= 0 /\ scans + r = n + 1
        /\ since => rescans.wasChange \/ quiet >= n \/ quiet + r >= n
    BY <2>1 DEF ScansInv
  <2>3. /\ a \in Policy /\ a.initial = n /\ a.sinceLastChange = since /\ a.retryTimes \in Int
        /\ since /\ rescans.wasChange => a.retryTimes = n
        /\ ~(since /\ rescans.wasChange) => a.retryTimes = r
        /\ since => ~a.wasChange
    <3>1. since => ~a.wasChange
      <4>1. CASE since /\ rescans.wasChange
        BY <1>0, <2>2, <4>1 DEF Asked, Policy
      <4>2. CASE since /\ ~rescans.wasChange
        BY <1>0, <2>2, <4>2 DEF Asked
      <4> QED  BY <4>1, <4>2
    <3> QED  BY <1>0, <2>2, <3>1, AskedCases DEF Policy
  <2>4. /\ rescans'.initial = n /\ rescans'.sinceLastChange = since
        /\ rescans'.retryTimes = a.retryTimes - 1
        /\ since => ~rescans'.wasChange
    BY <2>1, <2>3, MinusFields
  <2>5. HasMoreRetry(rescans) <=> a.retryTimes > 0
    BY DEF HasMoreRetry
  <2>6. CASE step' = "scan"
    <3>1. a.retryTimes > 0
      BY <2>1, <2>5, <2>6
    <3> HIDE DEF n, since, r, scans, quiet, a
    <3>2. ~since => a.retryTimes - 1 >= 0 /\ scans + (a.retryTimes - 1) = n
      BY <1>0, <2>2, <2>3, <3>1
    <3>3. since => quiet >= n \/ quiet + (a.retryTimes - 1) >= n - 1
      BY <1>0, <2>2, <2>3
    <3> QED  BY <1>0, <2>1, <2>4, <2>6, <3>2, <3>3
             DEF ScansInv, RescansAreMade, n, since, scans, quiet
  <2>7. CASE step' = "prepare"
    <3>1. ASSUME WantMoreSectors(scanPolicy')
          PROVE  ~(a.retryTimes > 0)
      BY <1>0, <2>1, <2>5, <2>7, <3>1, WonderedAnswersSame
    <3> HIDE DEF n, since, r, scans, quiet, a
    <3>2. ~(a.retryTimes > 0) => IF since THEN quiet >= n ELSE scans = n + 1
      BY <1>0, <2>2, <2>3
    <3>3. WantMoreSectors(scanPolicy)' <=> WantMoreSectors(scanPolicy')
      BY DEF WantMoreSectors, UnskippableWantedEmpty, NothingUnskippable
    <3>4. RescansAreMade'
      BY <1>0, <2>1, <3>1, <3>2, <3>3 DEF RescansAreMade, n, since, scans, quiet
    <3> QED  BY <2>7, <3>4 DEF ScansInv
  <2> QED  BY <2>1, <2>6, <2>7
<1>3. CASE Begin \/ ScanWithoutResult \/ Finish \/ Unhide \/ Repeated \/ Throw
  BY <1>3, <1>f DEF Begin, ScanWithoutResult, Finish, Unhide, Repeated, Throw, Ends, Fresh
<1>4. CASE Prepare \/ RoundWithoutReading \/ RoundWithReading \/ Physical
  BY <1>4, <1>i DEF Prepare, RoundWithoutReading, RoundWithReading, Physical, Ends
<1>5. CASE UNCHANGED vars
  BY <1>0, <1>5 DEF vars, local, ScansInv, RescansAreMade, WantMoreSectors,
                    UnskippableWantedEmpty, NothingUnskippable
<1> QED  BY <1>1, <1>2, <1>3, <1>4, <1>5 DEF Next, Proceed

\* For every amount: the scanning loop leaves with sectors wanted only after all the
\* rescans it grants, since the last new header if it is below zero.
THEOREM RescueRescans == Spec => []RescansAreMade
<1>1. Init => ScansInv
  BY DEF Init, ScansInv, RescansAreMade
<1>2. ScansInv => RescansAreMade
  BY DEF ScansInv
<1> QED  BY <1>1, <1>2, ScansStep, RescueInvariant, PTL DEF Spec

-----------------------------------------------------------------------------
(* The reading loop: what the counter has lost was read.                   *)

PhysicalTarget ==
    PhysicalRescansInit.initial + (IF PhysicalRescansInit.sinceLastChange THEN 0 ELSE 1)

ReadsInv ==
    /\ step \in {"round", "physical"} =>
          /\ rescans.initial = PhysicalRescansInit.initial
          /\ rescans.sinceLastChange = PhysicalRescansInit.sinceLastChange
          /\ \/ history.scans >= PhysicalTarget
             \/ history.scans + rescans.retryTimes >= PhysicalTarget
    /\ PhysicalReadsAreMade

\* One physical reading: the counter was asked, counted down and perhaps told.
LEMMA PhysicalShape ==
    ASSUME LocalTypes, amounts \in Amounts, Physical
    PROVE  /\ step = "physical" /\ step' = "round"
           /\ history'.scans = NextCount(history.scans)
           /\ \/ rescans' = Minus(Asked(rescans), 1)
              \/ rescans' = Changed(Minus(Asked(rescans), 1))
<1>1. PICK new \in PhysicalReadings :
        /\ rescans' = LET counter == Minus(Asked(rescans), 1)
                      IN  IF Better(new) THEN Changed(counter) ELSE counter
        /\ history' = Counted(Better(new))
  BY DEF Physical
<1>2. Better(new) \in BOOLEAN
  BY DEF Better
<1>3. history'.scans = NextCount(history.scans)
  BY <1>1, <1>2, CountTypes DEF LocalTypes
<1> QED  BY <1>1, <1>3 DEF Physical

LEMMA ReadsStep ==
    TypesInv /\ TypesInv' /\ ReadsInv /\ [Next]_vars => ReadsInv'
<1> SUFFICES ASSUME TypesInv, TypesInv', ReadsInv, [Next]_vars PROVE ReadsInv'
  OBVIOUS
<1> DEFINE n == PhysicalRescansInit.initial
           since == PhysicalRescansInit.sinceLastChange
           target == PhysicalTarget
           r == rescans.retryTimes
           scans == history.scans
<1>0. /\ amounts \in Amounts /\ LocalTypes /\ PhysicalRescansInit' = PhysicalRescansInit
      /\ rescans \in Policy
      /\ n \in Nat /\ since \in BOOLEAN /\ r \in Int /\ scans \in Nat
      /\ MaxCount \in Nat /\ MaxCount >= n + 2
      /\ target = n + (IF since THEN 0 ELSE 1) /\ target' = target
  BY SameAmounts, AmountFacts
  DEF TypesInv, ControlTypes, LocalTypes, History, Policy, PhysicalTarget
<1>i. ASSUME step' \notin {"round", "physical", "final"}
      PROVE  ReadsInv'
  BY <1>i DEF ReadsInv, PhysicalReadsAreMade
<1>k. ASSUME step \in {"round", "physical"}, step' \in {"round", "physical"},
             rescans' = rescans, history'.scans = scans
      PROVE  ReadsInv'
  BY <1>0, <1>k DEF ReadsInv, PhysicalReadsAreMade
<1>1. CASE Prepare
  <2>1. CASE timed = {}
    BY <1>1, <1>i, <2>1 DEF Prepare, Ends
  <2>2. CASE timed # {}
    <3>1. /\ step' = "round" /\ rescans' = Minus(PhysicalRescansInit, -1)
          /\ history' = [history EXCEPT !.scans = 0, !.quiet = 0]
      BY <1>1, <2>2 DEF Prepare
    <3>2. history'.scans = 0
      BY <1>0, <3>1 DEF LocalTypes, History
    <3>3. /\ rescans'.initial = n /\ rescans'.sinceLastChange = since
          /\ rescans'.retryTimes = PhysicalRescansInit.retryTimes - (-1)
      BY <1>0, <3>1, AmountFacts, MinusFields
    <3>4. PhysicalRescansInit.retryTimes = n - (IF since THEN 1 ELSE 0)
      BY <1>0, AmountFacts
    <3> HIDE DEF n, since, target
    <3>5. 0 + rescans'.retryTimes >= target
      BY <1>0, <3>3, <3>4
    <3> QED  BY <1>0, <3>1, <3>2, <3>3, <3>5
             DEF ReadsInv, PhysicalReadsAreMade, n, since, target
  <2> QED  BY <2>1, <2>2
<1>2. CASE RoundWithoutReading
  BY <1>2, <1>k DEF RoundWithoutReading
<1>3. CASE RoundWithReading
  <2>1. /\ step = "round" /\ rescans' = rescans
        /\ \/ UNCHANGED <<tried, good, final, kept, history>>
           \/ ReadIds(request)
        /\ \/ step' = "final" /\ outcome' = "complete"
           \/ step' = "final" /\ outcome' = "spent" /\ EndingRound
           \/ step' = "physical"
    BY <1>3 DEF RoundWithReading, ReadingRequest
  <2>2. history'.scans = scans
    BY <1>0, <2>1, ReadIdsTypes
  <2>3. CASE step' = "physical"
    BY <1>k, <2>1, <2>2, <2>3
  <2>4. CASE step' = "final" /\ outcome' = "complete"
    BY <2>4 DEF ReadsInv, PhysicalReadsAreMade
  <2>5. CASE step' = "final" /\ EndingRound
    <3>1. scans >= target \/ scans + r >= target
      BY <2>1 DEF ReadsInv
    <3>2. r <= 0
      BY <2>5 DEF EndingRound
    <3>3. target \in Nat
      BY <1>0
    <3> HIDE DEF r, scans, target
    <3>4. scans >= target
      BY <1>0, <3>1, <3>2, <3>3
    <3>5. history'.scans >= n + (IF since THEN 0 ELSE 1)
      BY <1>0, <2>2, <3>4
    <3>6. PhysicalReadsAreMade'
      BY <1>0, <3>5 DEF PhysicalReadsAreMade
    <3> QED  BY <2>5, <3>6 DEF ReadsInv
  <2> QED  BY <2>1, <2>3, <2>4, <2>5
<1>4. CASE Physical
  <2> DEFINE a == Asked(rescans)
  <2>1. /\ step = "physical" /\ step' = "round"
        /\ history'.scans = NextCount(scans)
        /\ rescans' = Minus(a, 1) \/ rescans' = Changed(Minus(a, 1))
    BY <1>0, <1>4, PhysicalShape
  <2>2. /\ rescans.initial = n /\ rescans.sinceLastChange = since
        /\ scans >= target \/ scans + r >= target
    BY <2>1 DEF ReadsInv
  <2>3. /\ a \in Policy /\ a.initial = n /\ a.sinceLastChange = since /\ a.retryTimes \in Int
        /\ (since /\ a.retryTimes = n) \/ a.retryTimes = r
    BY <1>0, <2>2, AskedCases DEF Policy
  <2>4. /\ rescans'.initial = n /\ rescans'.sinceLastChange = since
        /\ rescans'.retryTimes = a.retryTimes - 1
    BY <2>1, <2>3 DEF Minus, Changed, Policy
  <2>5. NextCount(scans) \in Nat /\ (NextCount(scans) = scans + 1 \/ NextCount(scans) >= MaxCount)
    BY <1>0, CountTypes DEF LocalTypes
  <2> HIDE DEF n, since, target, r, scans, a
  <2>6. NextCount(scans) >= target \/ NextCount(scans) + (a.retryTimes - 1) >= target
    BY <1>0, <2>2, <2>3, <2>5
  <2> QED  BY <1>0, <2>1, <2>4, <2>6 DEF ReadsInv, PhysicalReadsAreMade, n, since, target
<1>5. CASE Begin \/ ScanWithoutResult \/ Scan \/ ScanAgain \/ Finish \/ Unhide \/ Repeated \/ Throw
  BY <1>5, <1>i DEF Begin, ScanWithoutResult, Scan, ScanAgain, Finish, Unhide, Repeated, Throw, Ends
<1>6. CASE UNCHANGED vars
  BY <1>0, <1>6 DEF vars, local, ReadsInv, PhysicalReadsAreMade
<1> QED  BY <1>1, <1>2, <1>3, <1>4, <1>5, <1>6 DEF Next, Proceed

\* For every pair of amounts: the reading loop gives up only after the physical
\* readings that the larger one grants.
THEOREM RescuePhysicalReads == Spec => []PhysicalReadsAreMade
<1>1. Init => ReadsInv
  BY DEF Init, ReadsInv, PhysicalReadsAreMade
<1>2. ReadsInv => PhysicalReadsAreMade
  BY DEF ReadsInv
<1> QED  BY <1>1, <1>2, ReadsStep, RescueInvariant, PTL DEF Spec

-----------------------------------------------------------------------------
(* The result: made anew in every round from what has been read so far, and *)
(* empty as long as there are no headers.                                   *)

EarnedInv ==
    /\ step \in {"scan", "more", "prepare"} => physical = NoReads /\ kept = NoReads
    /\ step \in {"round", "physical"} =>
          /\ timed \ Dropped \subseteq ids
          /\ PhysicalSites \subseteq ids
          /\ ids = {} => kept = NoReads
    /\ ResultIsEarned

LEMMA EarnedStep ==
    TypesInv /\ TypesInv' /\ EarnedInv /\ [Next]_vars => EarnedInv'
<1> SUFFICES ASSUME TypesInv, TypesInv', EarnedInv, [Next]_vars PROVE EarnedInv'
  OBVIOUS
<1>0. /\ amounts \in Amounts /\ LocalTypes /\ LocalTypes' /\ ResultTypes /\ ResultTypes'
  BY DEF TypesInv, ControlTypes
<1>d. Dropped' = Dropped
  BY DEF Dropped
<1>i. ASSUME step' = "idle"
      PROVE  EarnedInv'
  BY <1>i DEF EarnedInv, ResultIsEarned, LoopsLeft
<1>f. ASSUME step' \in {"scan", "idle"}, Fresh(request')
      PROVE  EarnedInv'
  BY <1>f DEF Fresh, Locals, NoResult, EarnedInv, ResultIsEarned, LoopsLeft, NoReads
<1>k. ASSUME step \in {"scan", "more"}, step' \in {"scan", "more", "prepare"},
             UNCHANGED <<physical, kept>>
      PROVE  EarnedInv'
  BY <1>k DEF EarnedInv, ResultIsEarned, LoopsLeft, NoReads
<1>1. CASE Begin \/ ScanWithoutResult \/ Repeated \/ Throw
  BY <1>1, <1>f DEF Begin, ScanWithoutResult, Repeated, Throw, Ends
<1>2. CASE Scan \/ ScanAgain
  BY <1>2, <1>k DEF Scan, ScanAgain
<1>3. CASE Finish \/ Unhide
  BY <1>3, <1>i DEF Finish, Unhide
<1>4. CASE Prepare
  <2>1. CASE timed = {}
    BY <1>4, <1>i, <2>1 DEF Prepare, Ends
  <2>2. CASE timed # {}
    <3>1. /\ step = "prepare" /\ step' = "round" /\ ids' = timed \ Dropped
          /\ UNCHANGED <<timed, physical, kept>>
      BY <1>4, <2>2 DEF Prepare
    <3>2. physical = NoReads /\ kept = NoReads
      BY <3>1 DEF EarnedInv
    <3>3. PhysicalSites' = {} /\ kept' = NoReads'
      BY <3>1, <3>2 DEF PhysicalSites, NoReads
    <3> QED  BY <1>d, <3>1, <3>3 DEF EarnedInv, ResultIsEarned, LoopsLeft
  <2> QED  BY <2>1, <2>2
<1>5. CASE RoundWithoutReading
  <2>1. /\ step = "round" /\ step' = "physical"
        /\ UNCHANGED <<timed, ids, physical, kept>>
    BY <1>5 DEF RoundWithoutReading
  <2> QED  BY <1>d, <2>1 DEF EarnedInv, ResultIsEarned, LoopsLeft, PhysicalSites, NoReads
<1>6. CASE Physical
  <2>1. /\ step = "physical" /\ step' = "round"
        /\ ids' = ids \cup PhysicalSites'
        /\ UNCHANGED <<timed, kept>>
    BY <1>6 DEF Physical
  <2>2. /\ timed \ Dropped \subseteq ids
        /\ ids = {} => kept = NoReads
    BY <2>1 DEF EarnedInv
  <2> QED  BY <1>d, <2>1, <2>2 DEF EarnedInv, ResultIsEarned, LoopsLeft, NoReads
<1>7. CASE RoundWithReading
  <2>1. /\ step = "round" /\ step' \in {"physical", "final"}
        /\ UNCHANGED <<timed, ids, physical>>
        /\ IF ids = {} THEN UNCHANGED <<tried, good, final, kept, history>>
           ELSE ReadIds(request)
    BY <1>7 DEF RoundWithReading, ReadingRequest
  <2>2. /\ timed \ Dropped \subseteq ids
        /\ PhysicalSites \subseteq ids
        /\ ids = {} => kept = NoReads
    BY <2>1 DEF EarnedInv
  <2>3. PhysicalSites' = PhysicalSites /\ NoReads' = NoReads
    BY <2>1 DEF PhysicalSites, NoReads
  <2>4. ResultIsEarned'
    <3>1. CASE ids = {}
      <4>1. \A s \in Sites : kept'[s] = 0 /\ good'[s] \in Nat /\ GoodReads(physical'[s]) \in Nat
        <5>1. kept' = NoReads
          BY <2>1, <2>2, <3>1
        <5>2. \A s \in Sites : kept'[s] = 0
          BY <5>1 DEF NoReads
        <5>3. \A s \in Sites : good'[s] \in 0..Level /\ physical'[s] \in Levels
          BY <1>0 DEF LocalTypes
        <5>4. 0..Level \subseteq Nat
          BY RescueTrackAssumption
        <5> QED  BY <5>2, <5>3, <5>4, GoodReadsTypes
      <4>2. \A s \in Sites : kept'[s] <= good'[s] + GoodReads(physical'[s])
        BY <4>1
      <4>3. \A s \in Sites : GoodReads(physical[s])' = GoodReads(physical'[s])
        BY DEF GoodReads
      <4>4. timed' \ Dropped' = {} /\ ids' = {}
        BY <1>d, <2>1, <2>2, <3>1
      <4> QED  BY <4>2, <4>3, <4>4 DEF ResultIsEarned
    <3>2. CASE ids # {}
      <4>1. /\ ids \subseteq final'
            /\ \A s \in Sites : kept'[s] <= good'[s] + GoodReads(physical[s])
        BY <1>0, <2>1, <3>2, ReadIdsTypes
      <4>2. \A s \in Sites : GoodReads(physical[s])' = GoodReads(physical[s])
        BY <2>1 DEF GoodReads
      <4>3. timed' \ Dropped' \subseteq final' /\ PhysicalSites' \subseteq final'
        BY <1>d, <2>1, <2>2, <2>3, <4>1
      <4> QED  BY <4>1, <4>2, <4>3 DEF ResultIsEarned
    <3> QED  BY <3>1, <3>2
  <2>5. ids' = {} => kept' = NoReads'
    BY <2>1, <2>2, <2>3
  <2> QED  BY <1>d, <2>1, <2>2, <2>3, <2>4, <2>5 DEF EarnedInv
<1>8. CASE UNCHANGED vars
  BY <1>8 DEF vars, local, EarnedInv, ResultIsEarned, LoopsLeft, Dropped, PhysicalSites,
              NoReads, GoodReads
<1> QED  BY <1>1, <1>2, <1>3, <1>4, <1>5, <1>6, <1>7, <1>8 DEF Next, Proceed

\* The result of the loops has every header found and no good read that was not made,
\* for any findings and however often it was made anew.
THEOREM RescueResult == Spec => []ResultIsEarned
<1>1. Init => EarnedInv
  BY DEF Init, EarnedInv, ResultIsEarned, LoopsLeft
<1>2. EarnedInv => ResultIsEarned
  BY DEF EarnedInv
<1> QED  BY <1>1, <1>2, EarnedStep, RescueInvariant, PTL DEF Spec

=============================================================================
