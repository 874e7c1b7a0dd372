------------------------------ MODULE DriverLab ------------------------------
(***************************************************************************)
(* The life of five drivers, with the work of misc_echo and ramdisk while  *)
(* they are loaded.  A behaviour is about one of the drivers.              *)
(***************************************************************************)
EXTENDS MiscEcho, RamDisk

vars == <<lifeVars, echoVars, diskVars>>

Init == LifeInit /\ EchoInit /\ DiskInit

\* insmod brings the statics anew; an open has its own position.
Life == \/ Insmod /\ EchoInsmod /\ DiskInsmod
        \/ LifeStep /\ UNCHANGED <<echoVars, diskVars>>
        \/ \E u \in Users : Open(u) /\ EchoOpen(u) /\ UNCHANGED diskVars
        \/ \E u \in Users : Close(u) /\ MayClose(u) /\ UNCHANGED <<echoVars, diskVars>>

Next == \/ Life
        \/ EchoNext /\ UNCHANGED diskVars
        \/ DiskNext /\ UNCHANGED echoVars

Spec == Init /\ [][Next]_vars

TypeOK == LifeTypeOK /\ EchoTypeOK /\ DiskTypeOK
==============================================================================
