----------------------------- MODULE PreloadMC ------------------------------
(***************************************************************************)
(* A small instance of preloading and what it runs: the pool with its      *)
(* tasks, and after a preload without an exception threads that read a     *)
(* disk which loads on demand.                                             *)
(***************************************************************************)
EXTENDS ThreadPool, DemandDisk, TLC

VARIABLE unit    \* what is at work

allVars == <<unit, poolVars, vars>>

\* Two sectors; fewer stable ones or more bad ones.
TwoIds == {"s1", "s2"}
TwoLoads == {"s1" :> Stable, [i \in TwoIds |-> Bad]}

\* An amount below zero starts over after a change.
MinusOne == -1

Preloaded == owner = "done" /\ thrown = 0

PreloadInit == unit = "pool" /\ PoolInit /\ Init

PoolStep == unit = "pool" /\ PoolNext /\ UNCHANGED <<unit, vars>>

ReadingStarts == unit = "pool" /\ Preloaded /\ unit' = "disk" /\ UNCHANGED <<poolVars, vars>>

DiskStep == unit = "disk" /\ Next /\ UNCHANGED <<unit, poolVars>>

PreloadNext == PoolStep \/ ReadingStarts \/ DiskStep

\* The fairness of both modules for the unit at work.
PreloadSpec ==
    /\ PreloadInit /\ [][PreloadNext]_allVars
    /\ WF_allVars(unit = "pool" /\ Preloading /\ UNCHANGED <<unit, vars>>)
    /\ \A w \in Workers : WF_allVars(unit = "pool" /\ Loop(w) /\ UNCHANGED <<unit, vars>>)
    /\ \A r \in Readers : WF_allVars(unit = "disk" /\ Proceed(r) /\ UNCHANGED <<unit, poolVars>>)

=============================================================================
