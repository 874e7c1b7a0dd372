------------------------------- MODULE RunPty -------------------------------
(***************************************************************************)
(* run_pty.c: unloads the module, runs insmod with its output on a pipe    *)
(* (A), then again under a shell on a pseudo terminal (B), and unloads it  *)
(* after each.  Only what the two insmods do to the kernel matters here:   *)
(* neither terminal ever gets a kernel message.                            *)
(***************************************************************************)
EXTENDS ModLoad

VARIABLES ypc,  \* "start", "forkA", "A", "reapA", "rmmodA", "forkB", "B",
                \* "reapB", "rmmodB", "done" or "failed"
          sh,   \* the shell of B: "none", "running" or "exited"
          cut   \* (history) B was not read to its end

yvars == <<ypc, sh, cut>>

PInit == ypc = "start" /\ sh = "none" /\ cut = FALSE

\* cleanup: system("rmmod ..."), before A, after A and after B.  (That a shell
\* and rmmod can be run is taken for granted, here and by the code.)
CleanupThen == [start |-> "forkA", rmmodA |-> "forkB", rmmodB |-> "done"]
cleanup ==
  /\ ypc \in DOMAIN CleanupThen /\ ypc' = CleanupThen[ypc]
  /\ Rmmod /\ UNCHANGED <<rvars, sh, cut>>

\* pipe may fail.  fork may fail too, which nobody looks at: then there is no
\* insmod, and waitpid(-1) finds no child.
ForkA ==
  /\ ypc = "forkA"
  /\ \/ ypc' = "A" /\ Forked("A")
     \/ ypc' \in {"A", "failed"} /\ UNCHANGED mvars
  /\ UNCHANGED <<rvars, sh, cut>>

\* forkpty, and a shell that starts insmod.
ForkB ==
  /\ ypc = "forkB"
  /\ \/ ypc' = "B" /\ sh' = "running" /\ Forked("B")
     \/ ypc' = "failed" /\ UNCHANGED <<mvars, sh>>
  /\ UNCHANGED <<rvars, cut>>

\* The shell goes on when insmod has ended (sleep 1, a last echo).
ShellEnds ==
  /\ sh = "running" /\ Gone("B") /\ sh' = "exited"
  /\ UNCHANGED <<rvars, mvars, ypc, cut>>

\* drain_until ends when no process has the other end open any more - or at its
\* time-out, or on an error of poll.  A's insmod is waited for all the same.
drain_untilA ==
  /\ ypc = "A" /\ ypc' = "reapA"
  /\ UNCHANGED <<rvars, mvars, sh, cut>>

\* B's ends in close(master) too, which hangs up on whoever is left: the shell
\* dies, and its insmod as soon as it comes back from the kernel.
drain_untilB ==
  /\ ypc = "B" /\ ypc' = "reapB"
  /\ sh' = "exited"
  /\ cut' = ~(sh = "exited" /\ Gone("B"))
  /\ UNCHANGED <<rvars, mvars>>

\* (seeded fault: A's child is not waited for)
WaitedNot(p) == TRUE

\* waitpid: for insmod itself in A, for the shell alone in B.
Waited(p) == IF p = "A" THEN Gone("A") ELSE sh = "exited"

Reap ==
  /\ \E p \in {"A", "B"} : /\ ypc = IF p = "A" THEN "reapA" ELSE "reapB"
                           /\ Waited(p)
                           /\ ypc' = IF p = "A" THEN "rmmodA" ELSE "rmmodB"
  /\ UNCHANGED <<rvars, mvars, sh, cut>>

PtyNext == \/ cleanup \/ ForkA \/ ForkB \/ ShellEnds
           \/ drain_untilA \/ drain_untilB \/ Reap

------------------------------------------------------------------------------
(* Properties *)

PtyTypeOK ==
  /\ ypc \in DOMAIN CleanupThen \cup
       {"forkA", "A", "reapA", "forkB", "B", "reapB", "done", "failed"}
  /\ sh \in {"none", "running", "exited"} /\ cut \in BOOLEAN

\* run_pty leaves no module behind that it loaded, in whatever order its two
\* insmods, their ends and its time-outs come, and although run_console loads
\* and unloads the same module - but for one case: B was given up, and insmod,
\* which only the shell waited for, was still at it when the last rmmod ran
\* (run_pty.c:233-242).
PtyUnloads ==
  ypc = "done" => /\ loaded # "A"
                  /\ loaded = "B" \/ ins["B"] \in {"asleep", "loading"} => cut
==============================================================================
