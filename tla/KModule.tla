------------------------------- MODULE KModule -------------------------------
(***************************************************************************)
(* What every driver of the lessons owes the kernel, whatever it does: its *)
(* code is entered only through the hooks it installed (interrupt          *)
(* handlers, work items, file operations, mappings), and its text is       *)
(* discarded - by rmmod, or by insmod after a failed init - only once no   *)
(* hook is left and nobody runs inside.                                    *)
(*                                                                         *)
(* The module loader is outside the repository: `text' follows the states  *)
(* of struct module as the init and exit functions of the drivers use them.*)
(***************************************************************************)
CONSTANT Hooks   \* the entry points the driver may hand to the kernel

VARIABLES text,    \* state of the module's text in the loader
          hooked,  \* entry points the kernel may call now
          running  \* entry points some thread is inside of

kvars == <<text, hooked, running>>

TextStates == {"absent", "coming", "live", "going"}

KTypeOK == /\ text \in TextStates
           /\ hooked \subseteq Hooks
           /\ running \subseteq Hooks

KInit == text = "absent" /\ hooked = {} /\ running = {}

\* insmod copies the text in and calls the init function.
KInsmod == /\ text = "absent" /\ text' = "coming"
           /\ UNCHANGED <<hooked, running>>

\* Code of the module runs, or the kernel calls it: only through a hook, and
\* only the module's own code (init, exit or an entered hook) installs one.
KUse == /\ text # "absent" /\ text' = text
        /\ hooked' \subseteq Hooks
        /\ running' \subseteq running \cup hooked
        /\ hooked' \subseteq hooked \/ text \in {"coming", "going"} \/ running # {}

\* The init function succeeded; its last call may still have installed a hook.
KInitDone == /\ text = "coming" /\ text' = "live"
             /\ hooked' \subseteq Hooks
             /\ UNCHANGED running

\* rmmod calls the exit function.
KRmmod == /\ text = "live" /\ text' = "going"
          /\ UNCHANGED <<hooked, running>>

\* The loader frees the text, after exit or after an init that failed.
KDiscard == /\ text \in {"coming", "going"} /\ text' = "absent"
            /\ hooked = {} /\ running = {}
            /\ UNCHANGED <<hooked, running>>

KNext == KInsmod \/ KUse \/ KInitDone \/ KRmmod \/ KDiscard

KSpec == KInit /\ [][KNext]_kvars

\* No code after free: once the text is gone the kernel holds no pointer into
\* it and no thread is executing it.
NoCodeAfterFree == text = "absent" => hooked = {} /\ running = {}
==============================================================================
