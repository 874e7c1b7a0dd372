-------------------------------- MODULE IrqBh --------------------------------
(***************************************************************************)
(* 09-irq-bottom-half/irqbh.c: a GPIO line that toggles itself, a hard     *)
(* handler that counts the edges, and a bottom half that runs later on a   *)
(* kernel thread - a work item (mode 0) or the interrupt's own thread      *)
(* (mode 1).                                                               *)
(*                                                                         *)
(* Five kinds of thread interleave: the one that runs bh_init or bh_exit   *)
(* (insmod, rmmod), the hard handler, the kworker or irq/N thread, and the *)
(* readers of /dev/irqbh.  msleep() takes no time here: every order of     *)
(* steps is allowed, the ones the 120 ms between toggles makes unlikely    *)
(* included.                                                               *)
(*                                                                         *)
(* A load works with the line its parameter gpio_num names; what a load    *)
(* whose misc_register failed left with the kernel is still there when the *)
(* module is loaded again, on the same line or on another one.             *)
(***************************************************************************)
EXTENDS Integers

CONSTANTS Lines,    \* GPIO lines that gpio_num may name
          Toggles,  \* edges bh_init produces (6 in the code)
          Readers   \* processes that may open /dev/irqbh

ASSUME TogglesAssumption == Toggles \in Nat

VARIABLES
  mode,     \* the parameter mode: 0 is "workqueue", any other "threaded"
  line,     \* the parameter gpio_num of this load
  drv,      \* the next call of bh_init or bh_exit, "unloaded" or "loaded"
  i,        \* toggles made by bh_init's loop
  taken,    \* lines the driver has requested, by this load or an earlier one
  level,    \* the value the line is driven with
  irqs,     \* lines whose interrupt has an action of the driver
  edge,     \* an edge of the line is latched and not delivered yet
  hpc,      \* where the hard handler is
  irq_hits,
  bh_done,
  pending,  \* WORK_STRUCT_PENDING (mode 0) or IRQTF_RUNTHREAD (mode 1)
  bpc,      \* where the bottom half is
  seen,     \* irq_hits as the last bottom half saw it (wq_fn's local hit)
  dev,      \* /dev/irqbh is registered
  rpc,      \* each reader: "closed", "open" or inside bh_read
  stranded  \* history: lines of the loads whose misc_register failed

irqVars == <<irqs, edge, hpc>>
bhVars  == <<pending, bpc, seen, bh_done>>
pinVars == <<taken, level, i>>
lifeVars == <<mode, line, stranded>>
vars    == <<drv, pinVars, irqVars, irq_hits, bhVars, dev, rpc, lifeVars>>

InitSteps == {"gpio_request", "request_irq", "toggle"}
ExitSteps == {"misc_deregister", "free_irq", "synchronize_irq",
              "cancel_work", "flush_work", "gpio_free"}

Modes == {"workqueue", "threaded"}

TypeOK ==
  /\ drv \in InitSteps \cup ExitSteps \cup {"unloaded", "loaded"}
  /\ i \in 0..Toggles
  /\ taken \subseteq Lines /\ level \in {0, 1}
  /\ irqs \subseteq Lines /\ edge \in BOOLEAN
  /\ hpc \in {"idle", "enter", "defer"}
  /\ irq_hits \in Nat /\ bh_done \in Nat /\ seen \in Nat
  /\ pending \in BOOLEAN
  /\ bpc \in {"idle", "entered", "counted", "slow"}
  /\ dev \in BOOLEAN
  /\ rpc \in [Readers -> {"closed", "open", "reading"}]
  /\ mode \in Modes /\ line \in Lines /\ stranded \subseteq Lines

Init ==
  /\ drv = "unloaded"
  /\ i = 0 /\ taken = {} /\ level = 0
  /\ irqs = {} /\ edge = FALSE /\ hpc = "idle"
  /\ irq_hits = 0 /\ bh_done = 0 /\ seen = 0
  /\ pending = FALSE /\ bpc = "idle"
  /\ dev = FALSE /\ rpc = [r \in Readers |-> "closed"]
  /\ mode \in Modes /\ line \in Lines /\ stranded = {}

------------------------------------------------------------------------------
(* bh_init, on insmod's thread *)

\* The loader gives the module fresh statics, insmod its parameters; INIT_WORK
\* makes bh_work idle.
Insmod ==
  /\ drv = "unloaded" /\ drv' = "gpio_request"
  /\ mode' \in Modes /\ line' \in Lines
  /\ irq_hits' = 0 /\ bh_done' = 0 /\ seen' = 0 /\ i' = 0
  /\ pending' = FALSE
  /\ UNCHANGED <<taken, level, irqVars, bpc, dev, rpc, stranded>>

\* (seeded fault: a line that is taken is driven all the same)
GpioRequestShared ==
  /\ drv = "gpio_request"
  /\ taken' = taken \cup {line} /\ level' = 0 /\ drv' = "request_irq"
  /\ UNCHANGED <<i, irqVars, irq_hits, bhVars, dev, rpc, lifeVars>>

\* gpio_request_one: fails when the line is taken - by an earlier load that
\* never gave it back, or by somebody else - or is no line at all.
GpioRequest ==
  /\ drv = "gpio_request"
  /\ \/ /\ line \notin taken
        /\ taken' = taken \cup {line} /\ level' = 0 /\ drv' = "request_irq"
     \/ drv' = "unloaded" /\ UNCHANGED <<taken, level>>
  /\ UNCHANGED <<i, irqVars, irq_hits, bhVars, dev, rpc, lifeVars>>

\* request_irq or request_threaded_irq, of an interrupt that is not shared;
\* its failure gives the line back.
RequestIrq ==
  /\ drv = "request_irq"
  /\ \/ /\ line \notin irqs
        /\ irqs' = irqs \cup {line} /\ drv' = "toggle" /\ UNCHANGED taken
     \/ taken' = taken \ {line} /\ drv' = "unloaded" /\ UNCHANGED irqs
  /\ UNCHANGED <<level, i, edge, hpc, irq_hits, bhVars, dev, rpc, lifeVars>>

\* (seeded fault: the counter itself is written to the line)
ToggleUnmasked ==
  /\ drv = "toggle" /\ i < Toggles
  /\ i' = i + 1 /\ level' = i'
  /\ edge' = (edge \/ level' # level)
  /\ UNCHANGED <<drv, taken, irqs, hpc, irq_hits, bhVars, dev, rpc, lifeVars>>

\* One turn of the loop: gpio_set_value(gpio_num, i & 1).  Both directions
\* trigger; an edge that finds one latched merges with it.
Toggle ==
  /\ drv = "toggle" /\ i < Toggles
  /\ i' = i + 1 /\ level' = i' % 2
  /\ edge' = (edge \/ level' # level)
  /\ UNCHANGED <<drv, taken, irqs, hpc, irq_hits, bhVars, dev, rpc, lifeVars>>

\* return misc_register(): a failure makes insmod discard the module with
\* its line requested and its interrupt installed.  Its statics go with the
\* text: what the kernel still calls there (for an edge that was latched, a
\* bh_work that was queued or running) works on freed memory, touches nothing
\* a later load has, and is not followed any further.
MiscRegister ==
  /\ drv = "toggle" /\ i = Toggles
  /\ \/ /\ drv' = "loaded" /\ dev' = TRUE
        /\ UNCHANGED <<edge, hpc, pending, bpc, stranded>>
     \/ /\ drv' = "unloaded" /\ stranded' = stranded \cup {line}
        /\ edge' = FALSE /\ hpc' = "idle" /\ pending' = FALSE /\ bpc' = "idle"
        /\ UNCHANGED dev
  /\ UNCHANGED <<pinVars, irqs, irq_hits, seen, bh_done, rpc, mode, line>>

------------------------------------------------------------------------------
(* bh_exit, on rmmod's thread *)

\* delete_module: refused while a file of the device is open (.owner).
Rmmod ==
  /\ drv = "loaded" /\ \A r \in Readers : rpc[r] = "closed"
  /\ drv' = "misc_deregister"
  /\ UNCHANGED <<pinVars, irqVars, irq_hits, bhVars, dev, rpc, lifeVars>>

MiscDeregister ==
  /\ drv = "misc_deregister" /\ drv' = "free_irq"
  /\ dev' = FALSE
  /\ UNCHANGED <<pinVars, irqVars, irq_hits, bhVars, rpc, lifeVars>>

\* (seeded fault: free_irq is forgotten)
FreeIrqForgotten ==
  /\ drv = "free_irq" /\ drv' = "synchronize_irq"
  /\ UNCHANGED <<pinVars, irqVars, irq_hits, bhVars, dev, rpc, lifeVars>>

\* free_irq takes the action off the line, and with it the latched edge ...
FreeIrq ==
  /\ drv = "free_irq" /\ drv' = "synchronize_irq"
  /\ irqs' = irqs \ {line} /\ edge' = FALSE
  /\ UNCHANGED <<pinVars, hpc, irq_hits, bhVars, dev, rpc, lifeVars>>

\* ... then waits for the handler on other CPUs and, in mode 1, for the
\* thread to have run whatever it was woken for.
SynchronizeIrq ==
  /\ drv = "synchronize_irq" /\ drv' = "cancel_work"
  /\ hpc = "idle"
  /\ mode = "threaded" => ~pending /\ bpc = "idle"
  /\ UNCHANGED <<pinVars, irqVars, irq_hits, bhVars, dev, rpc, lifeVars>>

\* cancel_work_sync takes a queued bh_work off the queue ...
CancelWork ==
  /\ drv = "cancel_work" /\ drv' = "flush_work"
  /\ pending' = (pending /\ mode # "workqueue")
  /\ UNCHANGED <<pinVars, irqVars, irq_hits, bpc, seen, bh_done, dev, rpc, lifeVars>>

\* (seeded fault: cancel_work instead of cancel_work_sync)
FlushWorkNoWait ==
  /\ drv = "flush_work" /\ drv' = "gpio_free"
  /\ UNCHANGED <<pinVars, irqVars, irq_hits, bhVars, dev, rpc, lifeVars>>

\* (seeded fault: wait until every hit has been handled)
FlushWorkForAll ==
  /\ drv = "flush_work" /\ drv' = "gpio_free"
  /\ bpc = "idle" /\ bh_done = irq_hits
  /\ UNCHANGED <<pinVars, irqVars, irq_hits, bhVars, dev, rpc, lifeVars>>

\* ... and waits for a wq_fn that is already running.
FlushWork ==
  /\ drv = "flush_work" /\ drv' = "gpio_free"
  /\ mode = "workqueue" => bpc = "idle"
  /\ UNCHANGED <<pinVars, irqVars, irq_hits, bhVars, dev, rpc, lifeVars>>

\* gpio_set_value(gpio_num, 0); gpio_free(gpio_num); the text is discarded.
GpioFree ==
  /\ drv = "gpio_free" /\ drv' = "unloaded"
  /\ level' = 0 /\ taken' = taken \ {line}
  /\ UNCHANGED <<i, irqVars, irq_hits, bhVars, dev, rpc, lifeVars>>

DriverStep == \/ GpioRequest \/ RequestIrq \/ Toggle \/ MiscRegister
              \/ MiscDeregister \/ FreeIrq \/ SynchronizeIrq
              \/ CancelWork \/ FlushWork \/ GpioFree

------------------------------------------------------------------------------
(* The top half *)

\* The interrupt controller delivers the latched edge; an edge that comes
\* while the handler runs is delivered when it has returned.
IrqEntry ==
  /\ line \in irqs /\ edge /\ hpc = "idle"
  /\ edge' = FALSE /\ hpc' = "enter"
  /\ UNCHANGED <<drv, pinVars, irqs, irq_hits, bhVars, dev, rpc, lifeVars>>

\* schedule_work(), or IRQ_WAKE_THREAD as genirq acts on it: sets a bit that
\* may be set already - both ways of deferring merge.
Defer == pending' = TRUE

\* (seeded fault: defer first, count afterwards)
HardHandlerSwapped ==
  /\ \/ /\ hpc = "enter" /\ hpc' = "defer"
        /\ Defer /\ UNCHANGED irq_hits
     \/ /\ hpc = "defer" /\ hpc' = "idle"
        /\ irq_hits' = irq_hits + 1 /\ UNCHANGED pending
  /\ UNCHANGED <<drv, pinVars, irqs, edge, bpc, seen, bh_done, dev, rpc, lifeVars>>

\* (seeded fault: defer only when the bottom half is idle)
HardHandlerIfIdle ==
  /\ \/ /\ hpc = "enter" /\ hpc' = "defer"
        /\ irq_hits' = irq_hits + 1 /\ UNCHANGED pending
     \/ /\ hpc = "defer" /\ hpc' = "idle"
        /\ pending' = (pending \/ bpc = "idle") /\ UNCHANGED irq_hits
  /\ UNCHANGED <<drv, pinVars, irqs, edge, bpc, seen, bh_done, dev, rpc, lifeVars>>

hard_handler ==
  /\ \/ /\ hpc = "enter" /\ hpc' = "defer"
        /\ irq_hits' = irq_hits + 1 /\ UNCHANGED pending
     \/ /\ hpc = "defer" /\ hpc' = "idle"
        /\ Defer /\ UNCHANGED irq_hits
  /\ UNCHANGED <<drv, pinVars, irqs, edge, bpc, seen, bh_done, dev, rpc, lifeVars>>

Handler == IrqEntry \/ hard_handler

------------------------------------------------------------------------------
(* The bottom half *)

\* A kworker takes bh_work off the queue, or irq/N wakes up: the bit is
\* cleared before the function runs, and one run at a time.
BhStart ==
  /\ pending /\ bpc = "idle"
  /\ pending' = FALSE /\ bpc' = "entered"
  /\ UNCHANGED <<drv, pinVars, irqVars, irq_hits, seen, bh_done, dev, rpc, lifeVars>>

wq_fn ==
  /\ mode = "workqueue"
  /\ \/ /\ bpc = "entered" /\ bpc' = "counted"
        /\ bh_done' = bh_done + 1 /\ UNCHANGED seen
     \/ /\ bpc = "counted" /\ bpc' = "slow"
        /\ seen' = irq_hits /\ UNCHANGED bh_done
     \/ bpc = "slow" /\ bpc' = "idle" /\ UNCHANGED <<seen, bh_done>>
  /\ UNCHANGED <<drv, pinVars, irqVars, irq_hits, pending, dev, rpc, lifeVars>>

thread_fn ==
  /\ mode = "threaded"
  /\ \/ /\ bpc = "entered" /\ bpc' = "slow"
        /\ bh_done' = bh_done + 1 /\ seen' = irq_hits
     \/ bpc = "slow" /\ bpc' = "idle" /\ UNCHANGED <<seen, bh_done>>
  /\ UNCHANGED <<drv, pinVars, irqVars, irq_hits, pending, dev, rpc, lifeVars>>

BottomHalf == BhStart \/ wq_fn \/ thread_fn

------------------------------------------------------------------------------
(* Readers of /dev/irqbh *)

\* misc_open: needs the device, and a module that is not going.
Open(r) ==
  /\ dev /\ drv = "loaded" /\ rpc[r] = "closed"
  /\ rpc' = [rpc EXCEPT ![r] = "open"]
  /\ UNCHANGED <<drv, pinVars, irqVars, irq_hits, bhVars, dev, lifeVars>>

\* Enters and leaves bh_read, which only looks at the counters.
bh_read(r) ==
  /\ \/ rpc[r] = "open" /\ rpc' = [rpc EXCEPT ![r] = "reading"]
     \/ rpc[r] = "reading" /\ rpc' = [rpc EXCEPT ![r] = "open"]
  /\ UNCHANGED <<drv, pinVars, irqVars, irq_hits, bhVars, dev, lifeVars>>

Close(r) ==
  /\ rpc[r] = "open" /\ rpc' = [rpc EXCEPT ![r] = "closed"]
  /\ UNCHANGED <<drv, pinVars, irqVars, irq_hits, bhVars, dev, lifeVars>>

Reader(r) == Open(r) \/ bh_read(r) \/ Close(r)

------------------------------------------------------------------------------
Next == \/ Insmod \/ Rmmod \/ DriverStep
        \/ Handler \/ BottomHalf
        \/ \E r \in Readers : Reader(r)

\* insmod and rmmod, once started, run on; interrupts are delivered and
\* handled; the kworker or irq/N thread gets to run.  Nobody has to load,
\* unload or read.
Fairness == WF_vars(DriverStep) /\ WF_vars(Handler) /\ WF_vars(BottomHalf)

SafeSpec == Init /\ [][Next]_vars
Spec == SafeSpec /\ Fairness

------------------------------------------------------------------------------
(* Properties *)

HookNames == {"irq", "bh", "read"}

\* How the loader and the kernel see this driver.  The first load stranded by
\* a failed misc_register counts as one that never ends: what it did to the
\* contract is NothingLeftBehind's exception.
Text == IF stranded # {} THEN "coming"
        ELSE IF drv = "unloaded" THEN "absent"
        ELSE IF drv \in InitSteps THEN "coming"
        ELSE IF drv = "loaded" THEN "live"
        ELSE "going"
Hooked == {h \in HookNames :
             \/ h = "irq" /\ irqs # {}
             \/ h = "bh" /\ pending
             \/ h = "read" /\ (dev \/ \E r \in Readers : rpc[r] # "closed")}
Running == {h \in HookNames :
              \/ h = "irq" /\ hpc # "idle"
              \/ h = "bh" /\ bpc # "idle"
              \/ h = "read" /\ \E r \in Readers : rpc[r] = "reading"}

Module == INSTANCE KModule
            WITH Hooks <- HookNames, text <- Text, hooked <- Hooked, running <- Running

\* The driver keeps the contract of a kernel module through every load, every
\* failed init but the stranded one, and every unload: code is entered only
\* through a hook, the text is discarded only with nothing left behind.
ModuleContract == Module!KSpec

\* Once the text is freed no interrupt, no queued or running bottom half and
\* no open file can reach it, and the GPIO line is given back: what the order
\* misc_deregister, free_irq, cancel_work_sync, gpio_free of bh_exit is for.
\* The lines and interrupts of the loads whose misc_register failed at the end
\* of bh_init are the exception, and there is no other.
NothingLeftBehind ==
  drv = "unloaded" => /\ taken = stranded /\ irqs = stranded /\ ~edge
                      /\ Hooked \subseteq {"irq"} /\ Running = {}

\* The bottom half never reports more work than interrupts (bh_done against
\* irq_hits): the handler counts before it defers, and a bottom half is only
\* ever started by a deferral.
DoneAtMostHits == bh_done <= irq_hits

\* No hit is lost between the handler and the bottom half although both ways
\* of deferring merge: when everything is quiet the last bottom half has seen
\* all hits - unless bh_exit cancelled it.
NoHitLost ==
  /\ hpc = "idle" /\ ~pending /\ bpc = "idle"
  /\ drv \notin {"flush_work", "gpio_free", "unloaded"}
  => seen = irq_hits

\* The two together: what the counters of a module that is loaded or going
\* tell, at every point of every interleaving.
HitsAccounted == DoneAtMostHits /\ NoHitLost

\* Every counted interrupt is eventually covered by a run of the bottom half
\* that sees it, as long as nobody starts to unload the module.
HitsGetSeen ==
  \A n \in 1..Toggles :
    irq_hits >= n /\ drv \notin ExitSteps
      ~> seen >= n \/ drv \in ExitSteps \cup {"unloaded"}

\* rmmod comes back: bh_exit waits for the handler and for a running bottom
\* half, and neither wait can be for ever.
UnloadFinishes == drv = "misc_deregister" ~> drv = "unloaded"

\* What the failure of misc_register costs (line 158): until the machine is
\* restarted the line stays requested and its interrupt keeps an action in
\* freed text.  No later load of the driver gives either back or works with
\* that line, in either mode and whichever of its own calls fail; a load that
\* names another line may succeed.
StrandedForGood ==
  [][\A l \in stranded :
       /\ l \in stranded' /\ l \in taken' /\ l \in irqs'
       /\ drv' \notin {"unloaded", "gpio_request"} => line' # l]_vars

\* What irqbh.c:18-19 and the chapter's README:40 and :77 say of mode 1: every
\* interrupt gets a run of the thread, so the counters agree once all is quiet.
ThreadedOncePerIrq ==
  /\ mode = "threaded" /\ drv = "loaded"
  /\ ~edge /\ hpc = "idle" /\ ~pending /\ bpc = "idle"
  => bh_done = irq_hits
==============================================================================
