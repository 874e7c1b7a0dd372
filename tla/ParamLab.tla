------------------------------ MODULE ParamLab ------------------------------
(***************************************************************************)
(* The probe at work on param_demo, while somebody writes parameters from  *)
(* a root shell and loads the module by hand, and deploy_module unloads    *)
(* and reloads it.                                                         *)
(***************************************************************************)
EXTENDS ParamProbe, Deploy

CONSTANT MaxTouches   \* bound: what the shell does

ASSUME TouchAssumption == MaxTouches \in Nat

VARIABLE touches

vars == <<pvars, probeVars, deployVars, touches>>

Init == ParamInit /\ ProbeInit /\ DeployInit /\ touches = 0

Texts == {<<>>, <<2>>, <<2, Blank>>, <<Blank>>, TooMany}

Shell ==
  /\ touches < MaxTouches /\ touches' = touches + 1
  /\ \/ \E q \in Params, text \in Texts :
          \/ MayWrite(q) /\ Store(q, text)
          \/ Insmod(q, text)
     \/ Rmmod
  /\ UNCHANGED deployVars

\* Somebody else's step disturbs the probe when it changes the module.
Disturbed == /\ quiet' = (quiet /\ pvars' = pvars)
             /\ UNCHANGED <<root, ppc, n, old, rderr, before>>

Next == \/ ProbeNext /\ UNCHANGED <<deployVars, touches>>
        \/ DeployNext /\ Disturbed /\ UNCHANGED touches
        \/ Shell /\ Disturbed

Spec == Init /\ [][Next]_vars

TypeOK == ParamTypeOK /\ ProbeTypeOK /\ DeployTypeOK
==============================================================================
