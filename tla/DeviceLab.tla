------------------------------ MODULE DeviceLab ------------------------------
(***************************************************************************)
(* The device drivers of chapters 04, 05, 06, 08 and 11 side by side: the  *)
(* life of five of them with the work of misc_echo and ramdisk             *)
(* (DriverLab), the file operations of twodev (TwoDev), and mmapbuf whole  *)
(* (MmapBuf).  They share nothing, so a behaviour is about one of the      *)
(* three and the other two stay as they start.                             *)
(***************************************************************************)
EXTENDS DriverLab, TwoDev, MmapBuf

VARIABLE on   \* the one that is at work

labVars == <<vars, tdVars, mbufVars, on>>

Devices == {"drivers", "twodev", "mmapbuf"}

LabInit ==
  /\ on \in Devices
  /\ Init /\ TdInit /\ MbufInit
  /\ on # "twodev" => node = [p \in Procs |-> 0]
  /\ on # "drivers" => driver = "misc_echo"

LabNext ==
  \/ on = "drivers" /\ Next /\ UNCHANGED <<tdVars, mbufVars, on>>
  \/ on = "twodev" /\ TdNext /\ UNCHANGED <<vars, mbufVars, on>>
  \/ on = "mmapbuf" /\ MbufNext /\ UNCHANGED <<vars, tdVars, on>>

LabSpec == LabInit /\ [][LabNext]_labVars
==============================================================================
