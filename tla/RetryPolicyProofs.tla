------------------------- MODULE RetryPolicyProofs -------------------------
(* Facts about the retry counters that the proofs about their users need. *)
EXTENDS RetryPolicy, TLAPS

\* The counter of an option is a counter, and stays one.
LEMMA PolicyTypes ==
    /\ \A n \in Int : OptionPolicy(n) \in Policy
    /\ \A p \in Policy : Asked(p) \in Policy /\ Changed(p) \in Policy
    /\ \A p \in Policy, n \in Int : Minus(p, n) \in Policy
    /\ \A p \in Policy, x \in BOOLEAN : [p EXCEPT !.wasChange = x] \in Policy
<1>1. ASSUME NEW n \in Int PROVE OptionPolicy(n) \in Policy
  <2> DEFINE a == IF n < 0 THEN -n ELSE n
  <2>1. a \in Nat /\ a - 1 \in Int
    OBVIOUS
  <2> HIDE DEF a
  <2>2. PolicyOf(a, n < 0) \in Policy
    BY <2>1 DEF PolicyOf, Policy
  <2> QED  BY <2>2 DEF OptionPolicy, a
<1>2. ASSUME NEW p \in Policy, NEW n \in Int
      PROVE  Minus(p, n) \in Policy
  BY DEF Policy, Minus
<1>3. ASSUME NEW p \in Policy, NEW x \in BOOLEAN
      PROVE  [p EXCEPT !.wasChange = x] \in Policy
  BY DEF Policy
<1>4. ASSUME NEW p \in Policy
      PROVE  Changed(p) \in Policy
  BY <1>3 DEF Changed
<1>5. ASSUME NEW p \in Policy
      PROVE  Asked(p) \in Policy
  <2>1. p.initial \in Int
    BY DEF Policy
  <2>2. ASSUME NEW n \in Int
        PROVE  [p EXCEPT !.wasChange = FALSE, !.retryTimes = n] \in Policy
    BY DEF Policy
  <2> QED  BY <2>1, <2>2 DEF Asked
<1> QED  BY <1>1, <1>2, <1>3, <1>4, <1>5

\* Whether there is a retry does not depend on having asked, and a counter that
\* is used up stays so when it is asked and counted down.
LEMMA AskedOnce ==
    \A p \in Policy :
        /\ HasMoreRetry(Asked(p)) <=> HasMoreRetry(p)
        /\ ~HasMoreRetry(p) => ~HasMoreRetry(Minus(Asked(p), 1))
<1> SUFFICES ASSUME NEW p \in Policy
             PROVE  /\ HasMoreRetry(Asked(p)) <=> HasMoreRetry(p)
                    /\ ~HasMoreRetry(p) => ~HasMoreRetry(Minus(Asked(p), 1))
  OBVIOUS
<1>1. CASE p.sinceLastChange /\ p.wasChange
  <2> DEFINE q == [p EXCEPT !.wasChange = FALSE, !.retryTimes = p.initial]
  <2>1. Asked(p) = q
    BY <1>1 DEF Asked
  <2>8. p.initial \in Int /\ q.retryTimes = p.initial /\ q.wasChange = FALSE
    BY DEF Policy
  <2>9. q \in Policy
    BY <2>8 DEF Policy
  <2> HIDE DEF q
  <2>2. Asked(q) = q
    BY <2>8 DEF Asked
  <2>3. Minus(q, 1) \in Policy /\ ~Minus(q, 1).wasChange
        /\ Minus(q, 1).retryTimes = q.retryTimes - 1
    BY <2>8, <2>9 DEF Minus, Policy
  <2>4. Asked(Minus(q, 1)) = Minus(q, 1)
    BY <2>3 DEF Asked
  <2>5. q.retryTimes \in Int
    BY <2>9 DEF Policy
  <2> QED  BY <2>1, <2>2, <2>3, <2>4, <2>5 DEF HasMoreRetry
<1>2. CASE ~(p.sinceLastChange /\ p.wasChange)
  <2>1. Asked(p) = p
    BY <1>2 DEF Asked
  <2>2. Minus(p, 1).retryTimes = p.retryTimes - 1 /\ p.retryTimes \in Int
        /\ Minus(p, 1).sinceLastChange = p.sinceLastChange
        /\ Minus(p, 1).wasChange = p.wasChange
    BY DEF Minus, Policy
  <2>3. Asked(Minus(p, 1)) = Minus(p, 1)
    BY <1>2, <2>2 DEF Asked
  <2> QED  BY <2>1, <2>2, <2>3 DEF HasMoreRetry
<1> QED  BY <1>1, <1>2

\* A counter of a plain amount is counted down and never starts over.
LEMMA PlainCounters ==
    \A p \in Policy :
        ~p.sinceLastChange =>
            /\ Asked(p) = p
            /\ HasMoreRetry(p) <=> p.retryTimes > 0
            /\ ~Minus(p, 1).sinceLastChange /\ Minus(p, 1).retryTimes = p.retryTimes - 1
            /\ ~Changed(p).sinceLastChange /\ Changed(p).retryTimes = p.retryTimes
BY DEF Asked, HasMoreRetry, Minus, Changed, Policy

\* What an amount grants: as much as it says, one less until something has changed.
LEMMA OptionFacts ==
    ASSUME NEW n \in Int
    PROVE  /\ OptionPolicy(n).initial \in Nat
           /\ OptionPolicy(n).retryTimes \in Int
           /\ OptionPolicy(n).wasChange = FALSE
           /\ OptionPolicy(n).retryTimes <= OptionPolicy(n).initial
           /\ \/ OptionPolicy(n).sinceLastChange
              \/ OptionPolicy(n).retryTimes = OptionPolicy(n).initial
           /\ OptionPolicy(n).sinceLastChange =>
                 OptionPolicy(n).retryTimes = OptionPolicy(n).initial - 1
<1> DEFINE a == IF n < 0 THEN -n ELSE n
           x == n < 0
<1>1. a \in Nat /\ x \in BOOLEAN
  OBVIOUS
<1>2. OptionPolicy(n) = PolicyOf(a, x)
  BY DEF OptionPolicy
<1> HIDE DEF a, x
<1>3. /\ PolicyOf(a, x).initial = a /\ PolicyOf(a, x).wasChange = FALSE
      /\ PolicyOf(a, x).sinceLastChange = x
      /\ PolicyOf(a, x).retryTimes = IF x THEN a - 1 ELSE a
  BY DEF PolicyOf
<1> QED  BY <1>1, <1>2, <1>3

\* Asking starts a counter over or leaves it alone.
LEMMA AskedCases ==
    ASSUME NEW p \in Policy
    PROVE  /\ Asked(p) \in Policy /\ Asked(p).initial = p.initial
           /\ Asked(p).sinceLastChange = p.sinceLastChange
           /\ p.sinceLastChange /\ p.wasChange => Asked(p).retryTimes = p.initial
           /\ ~(p.sinceLastChange /\ p.wasChange) => Asked(p) = p
<1>1. CASE p.sinceLastChange /\ p.wasChange
  <2>1. Asked(p) = [p EXCEPT !.wasChange = FALSE, !.retryTimes = p.initial]
    BY <1>1 DEF Asked
  <2> QED  BY <1>1, <2>1, PolicyTypes DEF Policy
<1>2. CASE ~(p.sinceLastChange /\ p.wasChange)
  BY <1>2 DEF Asked
<1> QED  BY <1>1, <1>2

\* Counting down and noting a change.
LEMMA MinusFields ==
    ASSUME NEW p \in Policy, NEW n \in Int
    PROVE  /\ Minus(p, n).initial = p.initial
           /\ Minus(p, n).sinceLastChange = p.sinceLastChange
           /\ Minus(p, n).wasChange = p.wasChange
           /\ Minus(p, n).retryTimes = p.retryTimes - n
           /\ Minus(Changed(p), n).initial = p.initial
           /\ Minus(Changed(p), n).sinceLastChange = p.sinceLastChange
           /\ Minus(Changed(p), n).wasChange
           /\ Minus(Changed(p), n).retryTimes = p.retryTimes - n
BY DEF Minus, Changed, Policy

=============================================================================
