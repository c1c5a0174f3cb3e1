---------------------------- MODULE RetryPolicy ----------------------------
(***************************************************************************)
(* The retry counters of the options retries, rescans, track-retries and   *)
(* disk-retries (class RetryPolicy).  A positive amount counts down.  A    *)
(* negative amount counts down too, and starts over when its owner has     *)
(* noted a change since the counter was last asked.                        *)
(***************************************************************************)
EXTENDS Integers

Policy ==
    [initial : Nat, sinceLastChange : BOOLEAN, retryTimes : Int, wasChange : BOOLEAN]

\* The counter of a given amount; the first of a negative amount's retries is
\* only granted after a change.
PolicyOf(amount, sinceLastChange) ==
    [initial |-> amount, sinceLastChange |-> sinceLastChange,
     retryTimes |-> IF sinceLastChange THEN amount - 1 ELSE amount,
     wasChange |-> FALSE]

\* The counter of an amount as the user writes it, negative or not.
OptionPolicy(amount) == PolicyOf(IF amount < 0 THEN -amount ELSE amount, amount < 0)

\* What asking HasMoreRetry does to the counter.
Asked(p) ==
    IF p.sinceLastChange /\ p.wasChange
    THEN [p EXCEPT !.wasChange = FALSE, !.retryTimes = p.initial]
    ELSE p

\* Mutant: the last retry is not granted.
HasMoreRetry_NotLast(p) == Asked(p).retryTimes > 1

HasMoreRetry(p) == Asked(p).retryTimes > 0

\* Mutant: the decrement is forgotten.
Minus_Forgotten(p, n) == p

Minus(p, n) == [p EXCEPT !.retryTimes = @ - n]

Changed(p) == [p EXCEPT !.wasChange = TRUE]

=============================================================================
