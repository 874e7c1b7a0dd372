----------------------------- MODULE RunConsole -----------------------------
(***************************************************************************)
(* run_console.c: drains /dev/kmsg, forks a child that loads a module, and *)
(* prints what the ring gets meanwhile; then it reaps the child and        *)
(* unloads the module.                                                     *)
(***************************************************************************)
EXTENDS ModLoad

VARIABLES cpc,      \* "start", "drain", "follow", "reap", "done" or "failed"
          kcur,     \* cursor of kfd
          printed   \* (history) seq of the last record drained or printed

cvars == <<cpc, kcur, printed>>

CInit == cpc = "start" /\ kcur = 0 /\ printed = 0

\* klogctl(CLEAR) moves syslog's own mark, which nobody here reads; then
\* kmsg_open_drained opens the device.
DrainOpen ==
  /\ cpc = "start"
  /\ \/ cpc' = "drain" /\ kcur' = first
     \/ cpc' = "failed" /\ UNCHANGED kcur
  /\ UNCHANGED <<rvars, mvars, printed>>

DrainRead ==
  /\ cpc = "drain" /\ Ready(kcur)
  /\ kcur' = kcur + 1
  /\ UNCHANGED <<rvars, mvars, cpc, printed>>

\* Any error ends the draining: all is read, or the reader was overtaken and
\* stands at the oldest record now.  Then the child is forked.
DrainEnd ==
  /\ cpc = "drain"
  /\ AtEnd(kcur) \/ Overtaken(kcur)
  /\ kcur' = IF Overtaken(kcur) THEN first ELSE kcur
  /\ printed' = kcur' - 1
  /\ \/ cpc' = "follow" /\ Forked("console")
     \/ cpc' = "failed" /\ UNCHANGED mvars
  /\ UNCHANGED rvars

FollowRead ==
  /\ cpc = "follow" /\ Ready(kcur)
  /\ kcur' = kcur + 1 /\ printed' = kcur
  /\ UNCHANGED <<rvars, mvars, cpc>>

\* (seeded fault: on every failed read)
RewindsAlways == Overtaken(kcur) \/ AtEnd(kcur)

\* EPIPE, and no other error: lseek to the oldest record there is.
Rewinds == Overtaken(kcur)

FollowOvertaken ==
  /\ cpc = "follow" /\ Rewinds
  /\ kcur' = first
  /\ UNCHANGED <<rvars, mvars, cpc, printed>>

\* The six seconds are over, however far the child has come.
Deadline ==
  /\ cpc = "follow" /\ cpc' = "reap"
  /\ UNCHANGED <<rvars, mvars, kcur, printed>>

\* (seeded fault: no waitpid)
NotReaped == TRUE

Reaped == Gone("console")

\* waitpid, then delete_module.
Unload ==
  /\ cpc = "reap" /\ Reaped
  /\ Rmmod /\ cpc' = "done"
  /\ UNCHANGED <<rvars, kcur, printed>>

ConsoleNext == \/ DrainOpen \/ DrainRead \/ DrainEnd
               \/ FollowRead \/ FollowOvertaken \/ Deadline \/ Unload

------------------------------------------------------------------------------
(* Properties *)

ConsoleTypeOK ==
  /\ cpc \in {"start", "drain", "follow", "reap", "done", "failed"}
  /\ kcur \in 0 .. Len(log) + 1 /\ printed \in 0 .. Len(log)

\* What the parent prints is newer than all it drained, and comes in order,
\* each record once; it leaves out none but what was overwritten before it
\* could be read (run_console.c:116-123, :203-226).
PrintedOnce ==
  [][cpc = "follow" /\ printed' # printed
       => /\ printed' > printed
          /\ \A s \in printed + 1 .. printed' - 1 : s < first]_<<rvars, cvars>>

\* When the experiment is over the module its child loads is not in the kernel,
\* nor the one it found there, though the deadline may pass before the child
\* has loaded it and run_pty loads the same module (run_console.c:200-237).
NothingLoadedAfter == cpc = "done" => loaded \notin {"console", "before"}
==============================================================================
