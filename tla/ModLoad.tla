------------------------------- MODULE ModLoad -------------------------------
(***************************************************************************)
(* The processes that load the module log_levels: the child of run_console *)
(* and the two insmods of run_pty.  The module logs while it is loaded, so *)
(* this stands on the ring.  A model of insmod and the loader; who forks,  *)
(* reaps and unloads is in RunConsole and RunPty.                          *)
(***************************************************************************)
EXTENDS KmsgRing

CONSTANT ModLines   \* records the module's init function logs

ASSUME LinesAssumption == ModLines \in Nat

VARIABLES ins,    \* each process: "none", "asleep", "loading" or "exited"
          lines,  \* records the module being loaded has logged
          loaded  \* who loaded the module that is in the kernel, or "none"

Loaders == {"console", "A", "B"}
mvars == <<ins, lines, loaded>>

\* Somebody may have loaded the module before.
LoadInit == /\ ins = [l \in Loaders |-> "none"] /\ lines = 0
            /\ loaded \in {"none", "before"}

Gone(l) == ins[l] \in {"none", "exited"}
Forked(l) == ins' = [ins EXCEPT ![l] = "asleep"] /\ UNCHANGED <<lines, loaded>>

\* delete_module finds the module, or does not (one that still initialises is
\* refused with EBUSY).
Rmmod == loaded' = "none" /\ UNCHANGED <<ins, lines>>

\* finit_module begins, or the process ends without: an error, a signal, or
\* the module is there already.
LoadBegins(l) ==
  /\ ins[l] = "asleep"
  /\ \/ /\ loaded = "none" /\ \A o \in Loaders : ins[o] # "loading"
        /\ ins' = [ins EXCEPT ![l] = "loading"] /\ lines' = 0
     \/ ins' = [ins EXCEPT ![l] = "exited"] /\ UNCHANGED lines
  /\ UNCHANGED <<rvars, loaded>>

\* The module's init function prints.
ModulePrints(l) ==
  /\ ins[l] = "loading" /\ lines < ModLines
  /\ Log("mod") /\ lines' = lines + 1
  /\ UNCHANGED <<ins, loaded>>

\* finit_module returns 0 and the process ends.
ModuleIsIn(l) ==
  /\ ins[l] = "loading" /\ lines = ModLines
  /\ loaded' = l /\ ins' = [ins EXCEPT ![l] = "exited"]
  /\ UNCHANGED <<rvars, lines>>

LoadNext ==
  \E l \in Loaders : LoadBegins(l) \/ ModulePrints(l) \/ ModuleIsIn(l)

LoadTypeOK ==
  /\ ins \in [Loaders -> {"none", "asleep", "loading", "exited"}]
  /\ lines \in 0 .. ModLines
  /\ loaded \in Loaders \cup {"none", "before"}
==============================================================================
