------------------------------ MODULE Preload ------------------------------
(***************************************************************************)
(* What Disk::preload promises its caller: every track of the range is     *)
(* read once, in whatever order; when preload returns or throws, no        *)
(* reading is under way any more; and what it throws is the exception of   *)
(* the first track, in the order of the range, whose reading failed.       *)
(***************************************************************************)
EXTENDS Integers

CONSTANT N           \* number of tracks in the range

Tracks == 1..N

VARIABLES
    results,         \* per track: not read yet, read, or failed
    outcome          \* the call runs, has returned, or threw for a track

vars == <<results, outcome>>

Running == <<"running", 0>>
Returned == <<"returned", 0>>
Threw(t) == <<"threw", t>>

Init ==
    /\ results = [t \in Tracks |-> "none"]
    /\ outcome = Running

Read(t) ==
    /\ outcome = Running
    /\ results[t] = "none"
    /\ \E r \in {"value", "error"} : results' = [results EXCEPT ![t] = r]
    /\ UNCHANGED outcome

Return ==
    /\ outcome = Running
    /\ \A t \in Tracks : results[t] = "value"
    /\ outcome' = Returned
    /\ UNCHANGED results

Throw(t) ==
    /\ outcome = Running
    /\ \A u \in Tracks : results[u] # "none"
    /\ results[t] = "error"
    /\ \A u \in Tracks : u < t => results[u] = "value"
    /\ outcome' = Threw(t)
    /\ UNCHANGED results

\* The next disk is preloaded.
Again ==
    /\ outcome # Running
    /\ results' = [t \in Tracks |-> "none"]
    /\ outcome' = Running

Work == Return \/ \E t \in Tracks : Read(t) \/ Throw(t)

Next == Work \/ Again

Spec == Init /\ [][Next]_vars

FairSpec == Spec /\ WF_vars(Work)

=============================================================================
