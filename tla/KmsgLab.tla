------------------------------- MODULE KmsgLab -------------------------------
(***************************************************************************)
(* The programs of chapter 02 on one printk ring, with the rest of the     *)
(* system logging now and then: each program is the other's noise, and     *)
(* run_console and run_pty load the same module.                           *)
(***************************************************************************)
EXTENDS RbFill, RunConsole, RunPty

CONSTANT Pairs   \* bound: which programs run together in a behaviour

ASSUME PairsAssumption == Pairs \subseteq SUBSET {"fill", "console", "pty"}

VARIABLES others,   \* records logged by anyone else
          on        \* the programs of this behaviour

vars == <<rvars, mvars, fvars, cvars, yvars, others, on>>

Init == /\ RInit /\ LoadInit /\ FInit /\ CInit /\ PInit
        /\ others = 0 /\ on \in Pairs

Others == /\ others < MaxOthers
          /\ Log("other") /\ others' = others + 1
          /\ UNCHANGED <<mvars, fvars, cvars, yvars>>

Next ==
  /\ \/ "fill" \in on /\ FillNext /\ UNCHANGED <<mvars, cvars, yvars, others>>
     \/ "console" \in on /\ ConsoleNext /\ UNCHANGED <<fvars, yvars, others>>
     \/ "pty" \in on /\ PtyNext /\ UNCHANGED <<fvars, cvars, others>>
     \/ LoadNext /\ UNCHANGED <<fvars, cvars, yvars, others>>
     \/ Others
  /\ UNCHANGED on

Spec == Init /\ [][Next]_vars

\* The state of the programs keeps its types, and the ring never holds more
\* than it can.
TypeOK ==
  /\ log \in Seq(Kinds) /\ first \in 1 .. Len(log) /\ Len(log) - first < Cap
  /\ others \in 0 .. MaxOthers
  /\ LoadTypeOK /\ FillTypeOK /\ ConsoleTypeOK /\ PtyTypeOK
==============================================================================
