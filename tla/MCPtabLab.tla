------------------------------ MODULE MCPtabLab ------------------------------
(* Instance of PtabLab for TLC: two processes, three loop devices and one   *)
(* disk of more sectors than the 32-bit count of an entry can say.          *)
EXTENDS PtabLab, TLC

CONSTANTS p1, p2, l1, l2, l3, d1

MCDiskSize == d1 :> Align + Mod + 1
\* The processes are alike, and so are the loop devices.
Symmetry == Permutations(Procs) \cup Permutations(Loops)
==============================================================================
