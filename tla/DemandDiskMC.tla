---------------------------- MODULE DemandDiskMC ----------------------------
(* A small instance of DemandDisk for the swap of the sides. *)
EXTENDS DemandDisk

\* A blank track, a bad one and a stable one.
FewLoads == {[i \in {} |-> Bad], [s1 |-> Bad], [s1 |-> Stable]}

TwoIds == {"s1", "s2"}

=============================================================================
