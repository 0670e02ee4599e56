------------------------------ MODULE MCPoller ------------------------------
(* Poller for TLC: four channels over three descriptors, so that the array   *)
(* has a middle to remove from and one descriptor is used twice.             *)
EXTENDS Poller, TLC

CONSTANTS chA, chB, chC, chD

MCFdOf ==
    [c \in Channels |->
        CASE c = chA -> 0 [] c \in {chB, chD} -> 1 [] c = chC -> 2]

\* The two channels of one descriptor may be taken for each other.
MCSymmetry == Permutations({chB, chD})

=============================================================================
