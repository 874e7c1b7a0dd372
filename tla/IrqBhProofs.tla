---------------------------- MODULE IrqBhProofs ----------------------------
(***************************************************************************)
(* Proofs about IrqBh for every set of lines, number of toggles and        *)
(* readers, both modes and any sequence of loads, failed loads and unloads *)
(* on any of the lines.                                                    *)
(*                                                                         *)
(* The inductive invariant IInv is the types, an account of the deferrals  *)
(* that are on their way, and where bh_init and bh_exit are while each     *)
(* resource is held, beside what failed loads have left for good.          *)
(***************************************************************************)
EXTENDS IrqBh, TLAPS

One(b) == IF b THEN 1 ELSE 0

\* Every deferral that is still on its way - made by the handler next,
\* recorded in the bit, or taken by a run that has not counted itself yet -
\* belongs to a hit of its own that no earlier run was counted for.
Account == bh_done + One(hpc = "defer") + One(pending) + One(bpc = "entered")
             <= irq_hits

\* While hits are unseen, a deferral that will see them is on its way - unless
\* bh_exit has cancelled it.
OnItsWay == \/ seen = irq_hits
            \/ hpc = "defer" \/ pending \/ bpc \in {"entered", "counted"}
            \/ drv \in {"flush_work", "gpio_free", "unloaded"}

\* Where each resource can still be held, by the call bh_init or bh_exit makes
\* next: the line and its interrupt beside those that are stranded.
BeforeGpio == drv \in {"unloaded", "gpio_request"}
WhileIrq == drv \in {"toggle", "loaded", "misc_deregister", "free_irq"}
Placement ==
  /\ BeforeGpio => taken = stranded
  /\ ~BeforeGpio => line \notin stranded /\ taken = stranded \cup {line}
  /\ WhileIrq => irqs = stranded \cup {line}
  /\ ~WhileIrq => irqs = stranded
  /\ edge => WhileIrq
  /\ hpc # "idle" => WhileIrq \/ drv = "synchronize_irq"
  /\ pending => \/ WhileIrq \/ drv = "synchronize_irq"
                \/ mode = "workqueue" /\ drv = "cancel_work"
  /\ bpc # "idle" => \/ WhileIrq \/ drv = "synchronize_irq"
                     \/ mode = "workqueue" /\ drv \in {"cancel_work", "flush_work"}
  /\ dev => drv \in {"loaded", "misc_deregister"}
  /\ \A r \in Readers : rpc[r] # "closed" => drv = "loaded"

IInv == TypeOK /\ Account /\ OnItsWay /\ Placement

------------------------------------------------------------------------------
\* Every step keeps the types.
LEMMA TypeStep == TypeOK /\ [Next]_vars => TypeOK'
<1> SUFFICES ASSUME TypeOK, [Next]_vars PROVE TypeOK'
  OBVIOUS
<1>1. CASE Insmod
  <2>1. pending' \in BOOLEAN
    BY <1>1 DEF Insmod, TypeOK
  <2>2. i' \in 0..Toggles
    BY <1>1, TogglesAssumption DEF Insmod, TypeOK
  <2>3. QED
    BY <1>1, <2>1, <2>2 DEF Insmod, TypeOK, InitSteps, ExitSteps, irqVars
<1>2. CASE Rmmod
  BY <1>2
    DEF Rmmod, TypeOK, InitSteps, ExitSteps, pinVars, irqVars, bhVars, lifeVars
<1>3. CASE GpioRequest
  BY <1>3
    DEF GpioRequest, TypeOK, InitSteps, ExitSteps, irqVars, bhVars, lifeVars
<1>4. CASE RequestIrq
  BY <1>4 DEF RequestIrq, TypeOK, InitSteps, ExitSteps, bhVars, lifeVars
<1>5. CASE Toggle
  BY <1>5, TogglesAssumption DEF Toggle, TypeOK, bhVars, lifeVars
<1>6. CASE MiscRegister
  <2>1. dev' \in BOOLEAN /\ stranded' \subseteq Lines
    BY <1>6 DEF MiscRegister, TypeOK
  <2>2. edge' \in BOOLEAN /\ pending' \in BOOLEAN
    BY <1>6 DEF MiscRegister, TypeOK
  <2>3. QED
    BY <1>6, <2>1, <2>2
      DEF MiscRegister, TypeOK, InitSteps, ExitSteps, pinVars, irqVars, bhVars
<1>7. CASE MiscDeregister
  BY <1>7
    DEF MiscDeregister, TypeOK, InitSteps, ExitSteps, pinVars, irqVars, bhVars,
        lifeVars
<1>8. CASE FreeIrq
  BY <1>8 DEF FreeIrq, TypeOK, InitSteps, ExitSteps, pinVars, bhVars, lifeVars
<1>9. CASE SynchronizeIrq
  BY <1>9
    DEF SynchronizeIrq, TypeOK, InitSteps, ExitSteps, pinVars, irqVars, bhVars,
        lifeVars
<1>10. CASE CancelWork
  BY <1>10
    DEF CancelWork, TypeOK, InitSteps, ExitSteps, pinVars, irqVars, lifeVars
<1>11. CASE FlushWork
  BY <1>11
    DEF FlushWork, TypeOK, InitSteps, ExitSteps, pinVars, irqVars, bhVars,
        lifeVars
<1>12. CASE GpioFree
  BY <1>12
    DEF GpioFree, TypeOK, InitSteps, ExitSteps, irqVars, bhVars, lifeVars
<1>13. CASE IrqEntry
  BY <1>13 DEF IrqEntry, TypeOK, pinVars, bhVars, lifeVars
<1>14. CASE hard_handler
  <2>1. pending' \in BOOLEAN
    BY <1>14 DEF hard_handler, Defer, TypeOK
  <2>2. QED
    BY <1>14, <2>1 DEF hard_handler, TypeOK, pinVars, lifeVars
<1>15. CASE BhStart
  BY <1>15 DEF BhStart, TypeOK, pinVars, irqVars, lifeVars
<1>16. CASE wq_fn
  BY <1>16 DEF wq_fn, TypeOK, pinVars, irqVars, lifeVars
<1>17. CASE thread_fn
  BY <1>17 DEF thread_fn, TypeOK, pinVars, irqVars, lifeVars
<1>18. CASE \E r \in Readers : Reader(r)
  BY <1>18
    DEF Reader, Open, bh_read, Close, TypeOK, pinVars, irqVars, bhVars,
        lifeVars
<1>19. CASE UNCHANGED vars
  BY <1>19 DEF vars, TypeOK, pinVars, irqVars, bhVars, lifeVars
<1>20. QED
  BY <1>1, <1>2, <1>3, <1>4, <1>5, <1>6, <1>7, <1>8, <1>9, <1>10, <1>11, <1>12,
     <1>13, <1>14, <1>15, <1>16, <1>17, <1>18, <1>19
    DEF Next, DriverStep, Handler, BottomHalf

\* The initial state has the types.
LEMMA InitTypes == Init => TypeOK
<1> SUFFICES ASSUME Init PROVE TypeOK
  OBVIOUS
<1>1. edge \in BOOLEAN /\ pending \in BOOLEAN /\ dev \in BOOLEAN
  BY DEF Init
<1>2. i \in 0..Toggles
  BY TogglesAssumption DEF Init
<1>3. QED
  BY <1>1, <1>2 DEF Init, TypeOK

\* The state of irqbh.c stays in its types, whatever the mode, the number of
\* toggles and of readers, and whether or not misc_register fails.
THEOREM TypeCorrect == Spec => []TypeOK
<1>1. QED
  BY InitTypes, TypeStep, PTL DEF Spec, SafeSpec

------------------------------------------------------------------------------
\* Every step keeps the account of deferrals.
LEMMA AccountStep ==
  ASSUME IInv, [Next]_vars PROVE Account'
<1>1. CASE Insmod
  BY <1>1 DEF Insmod, IInv, TypeOK, Account, One, Placement, BeforeGpio, WhileIrq, irqVars
<1>2. CASE Rmmod
  BY <1>2
    DEF Rmmod, IInv, TypeOK, Account, One, pinVars, irqVars, bhVars, lifeVars
<1>3. CASE GpioRequest
  BY <1>3
    DEF GpioRequest, IInv, TypeOK, Account, One, irqVars, bhVars, lifeVars
<1>4. CASE RequestIrq
  BY <1>4 DEF RequestIrq, IInv, TypeOK, Account, One, bhVars, lifeVars
<1>5. CASE Toggle
  BY <1>5 DEF Toggle, IInv, TypeOK, Account, One, bhVars, lifeVars
<1>6. CASE MiscRegister
  BY <1>6
    DEF MiscRegister, IInv, TypeOK, Account, One, pinVars, irqVars, bhVars
<1>7. CASE MiscDeregister
  BY <1>7
    DEF MiscDeregister, IInv, TypeOK, Account, One, pinVars, irqVars, bhVars,
        lifeVars
<1>8. CASE FreeIrq
  BY <1>8 DEF FreeIrq, IInv, TypeOK, Account, One, pinVars, bhVars, lifeVars
<1>9. CASE SynchronizeIrq
  BY <1>9
    DEF SynchronizeIrq, IInv, TypeOK, Account, One, pinVars, irqVars, bhVars,
        lifeVars
<1>10. CASE CancelWork
  BY <1>10
    DEF CancelWork, IInv, TypeOK, Account, One, pinVars, irqVars, lifeVars
<1>11. CASE FlushWork
  BY <1>11
    DEF FlushWork, IInv, TypeOK, Account, One, pinVars, irqVars, bhVars,
        lifeVars
<1>12. CASE GpioFree
  BY <1>12 DEF GpioFree, IInv, TypeOK, Account, One, irqVars, bhVars, lifeVars
<1>13. CASE IrqEntry
  BY <1>13 DEF IrqEntry, IInv, TypeOK, Account, One, pinVars, bhVars, lifeVars
<1>14. CASE hard_handler
  BY <1>14
    DEF hard_handler, Defer, IInv, TypeOK, Account, One, pinVars, lifeVars
<1>15. CASE BhStart
  BY <1>15 DEF BhStart, IInv, TypeOK, Account, One, pinVars, irqVars, lifeVars
<1>16. CASE wq_fn
  BY <1>16 DEF wq_fn, IInv, TypeOK, Account, One, pinVars, irqVars, lifeVars
<1>17. CASE thread_fn
  BY <1>17
    DEF thread_fn, IInv, TypeOK, Account, One, pinVars, irqVars, lifeVars
<1>18. CASE \E r \in Readers : Reader(r)
  BY <1>18
    DEF Reader, Open, bh_read, Close, IInv, TypeOK, Account, One, pinVars,
        irqVars, bhVars, lifeVars
<1>19. CASE UNCHANGED vars
  BY <1>19 DEF vars, IInv, Account, pinVars, irqVars, bhVars, lifeVars
<1>20. QED
  BY <1>1, <1>2, <1>3, <1>4, <1>5, <1>6, <1>7, <1>8, <1>9, <1>10, <1>11, <1>12,
     <1>13, <1>14, <1>15, <1>16, <1>17, <1>18, <1>19
    DEF Next, DriverStep, Handler, BottomHalf

\* Every step keeps a deferral on its way to the hits that are unseen.
LEMMA OnItsWayStep ==
  ASSUME IInv, [Next]_vars PROVE OnItsWay'
<1>1. CASE Insmod
  BY <1>1 DEF Insmod, IInv, OnItsWay, Placement, BeforeGpio, WhileIrq, irqVars
<1>2. CASE Rmmod
  BY <1>2
    DEF Rmmod, IInv, OnItsWay, pinVars, irqVars, bhVars, lifeVars
<1>3. CASE GpioRequest
  BY <1>3
    DEF GpioRequest, IInv, OnItsWay, Placement, BeforeGpio, WhileIrq, irqVars,
        bhVars, lifeVars
<1>4. CASE RequestIrq
  BY <1>4
    DEF RequestIrq, IInv, OnItsWay, Placement, BeforeGpio, WhileIrq, bhVars,
        lifeVars
<1>5. CASE Toggle
  BY <1>5 DEF Toggle, IInv, OnItsWay, bhVars, lifeVars
<1>6. CASE MiscRegister
  BY <1>6
    DEF MiscRegister, IInv, OnItsWay, Placement, BeforeGpio, WhileIrq, pinVars,
        irqVars, bhVars
<1>7. CASE MiscDeregister
  BY <1>7
    DEF MiscDeregister, IInv, OnItsWay, pinVars, irqVars, bhVars,
        lifeVars
<1>8. CASE FreeIrq
  BY <1>8 DEF FreeIrq, IInv, OnItsWay, pinVars, bhVars, lifeVars
<1>9. CASE SynchronizeIrq
  BY <1>9
    DEF SynchronizeIrq, IInv, OnItsWay, pinVars, irqVars, bhVars,
        lifeVars
<1>10. CASE CancelWork
  BY <1>10
    DEF CancelWork, IInv, OnItsWay, pinVars, irqVars, lifeVars
<1>11. CASE FlushWork
  BY <1>11
    DEF FlushWork, IInv, OnItsWay, pinVars, irqVars, bhVars,
        lifeVars
<1>12. CASE GpioFree
  BY <1>12 DEF GpioFree, IInv, OnItsWay, irqVars, bhVars, lifeVars
<1>13. CASE IrqEntry
  BY <1>13 DEF IrqEntry, IInv, OnItsWay, pinVars, bhVars, lifeVars
<1>14. CASE hard_handler
  BY <1>14
    DEF hard_handler, Defer, IInv, OnItsWay, pinVars, lifeVars
<1>15. CASE BhStart
  BY <1>15 DEF BhStart, IInv, OnItsWay, pinVars, irqVars, lifeVars
<1>16. CASE wq_fn
  BY <1>16 DEF wq_fn, IInv, OnItsWay, pinVars, irqVars, lifeVars
<1>17. CASE thread_fn
  BY <1>17 DEF thread_fn, IInv, OnItsWay, pinVars, irqVars, lifeVars
<1>18. CASE \E r \in Readers : Reader(r)
  BY <1>18
    DEF Reader, Open, bh_read, Close, IInv, OnItsWay, pinVars,
        irqVars, bhVars, lifeVars
<1>19. CASE UNCHANGED vars
  BY <1>19
    DEF vars, IInv, OnItsWay, pinVars, irqVars, bhVars, lifeVars
<1>20. QED
  BY <1>1, <1>2, <1>3, <1>4, <1>5, <1>6, <1>7, <1>8, <1>9, <1>10, <1>11, <1>12,
     <1>13, <1>14, <1>15, <1>16, <1>17, <1>18, <1>19
    DEF Next, DriverStep, Handler, BottomHalf

\* Every step keeps each resource where bh_init and bh_exit may hold it, and
\* what is stranded where it is.
LEMMA PlacementStep ==
  ASSUME IInv, [Next]_vars PROVE Placement'
<1>1. CASE Insmod
  BY <1>1 DEF Insmod, IInv, Placement, BeforeGpio, WhileIrq, TypeOK, irqVars
<1>2. CASE Rmmod
  BY <1>2
    DEF Rmmod, IInv, Placement, BeforeGpio, WhileIrq, pinVars, irqVars, bhVars, lifeVars
<1>3. CASE GpioRequest
  BY <1>3
    DEF GpioRequest, IInv, Placement, BeforeGpio, WhileIrq, TypeOK, irqVars, bhVars,
        lifeVars
<1>4. CASE RequestIrq
  <2>1. CASE irqs' = irqs \cup {line} /\ drv' = "toggle" /\ UNCHANGED taken
    BY <1>4, <2>1
      DEF RequestIrq, IInv, TypeOK, Placement, BeforeGpio, WhileIrq, bhVars, lifeVars
  <2>2. CASE taken' = taken \ {line} /\ drv' = "unloaded" /\ UNCHANGED irqs
    BY <1>4, <2>2
      DEF RequestIrq, IInv, TypeOK, Placement, BeforeGpio, WhileIrq, bhVars, lifeVars
  <2>3. QED
    BY <1>4, <2>1, <2>2 DEF RequestIrq
<1>5. CASE Toggle
  BY <1>5 DEF Toggle, IInv, Placement, BeforeGpio, WhileIrq, bhVars, lifeVars
<1>6. CASE MiscRegister
  BY <1>6
    DEF MiscRegister, IInv, Placement, BeforeGpio, WhileIrq, TypeOK, pinVars, irqVars,
        bhVars
<1>7. CASE MiscDeregister
  BY <1>7
    DEF MiscDeregister, IInv, Placement, BeforeGpio, WhileIrq, pinVars, irqVars, bhVars,
        lifeVars
<1>8. CASE FreeIrq
  BY <1>8 DEF FreeIrq, IInv, Placement, BeforeGpio, WhileIrq, pinVars, bhVars, lifeVars
<1>9. CASE SynchronizeIrq
  BY <1>9
    DEF SynchronizeIrq, IInv, Placement, BeforeGpio, WhileIrq, TypeOK, Modes, pinVars,
        irqVars, bhVars, lifeVars
<1>10. CASE CancelWork
  BY <1>10
    DEF CancelWork, IInv, Placement, BeforeGpio, WhileIrq, pinVars, irqVars, lifeVars
<1>11. CASE FlushWork
  BY <1>11
    DEF FlushWork, IInv, Placement, BeforeGpio, WhileIrq, TypeOK, pinVars, irqVars, bhVars,
        lifeVars
<1>12. CASE GpioFree
  BY <1>12
    DEF GpioFree, IInv, Placement, BeforeGpio, WhileIrq, TypeOK, irqVars, bhVars, lifeVars
<1>13. CASE IrqEntry
  BY <1>13 DEF IrqEntry, IInv, Placement, BeforeGpio, WhileIrq, pinVars, bhVars, lifeVars
<1>14. CASE hard_handler
  BY <1>14
    DEF hard_handler, Defer, IInv, Placement, BeforeGpio, WhileIrq, pinVars, lifeVars
<1>15. CASE BhStart
  BY <1>15
    DEF BhStart, IInv, Placement, BeforeGpio, WhileIrq, TypeOK, pinVars, irqVars, lifeVars
<1>16. CASE wq_fn
  BY <1>16 DEF wq_fn, IInv, Placement, BeforeGpio, WhileIrq, pinVars, irqVars, lifeVars
<1>17. CASE thread_fn
  BY <1>17 DEF thread_fn, IInv, Placement, BeforeGpio, WhileIrq, pinVars, irqVars, lifeVars
<1>18. CASE \E r \in Readers : Reader(r)
  BY <1>18
    DEF Reader, Open, bh_read, Close, IInv, TypeOK, Placement, BeforeGpio, WhileIrq,
        pinVars, irqVars, bhVars, lifeVars
<1>19. CASE UNCHANGED vars
  BY <1>19
    DEF vars, IInv, Placement, BeforeGpio, WhileIrq, pinVars, irqVars, bhVars, lifeVars
<1>20. QED
  BY <1>1, <1>2, <1>3, <1>4, <1>5, <1>6, <1>7, <1>8, <1>9, <1>10, <1>11, <1>12,
     <1>13, <1>14, <1>15, <1>16, <1>17, <1>18, <1>19
    DEF Next, DriverStep, Handler, BottomHalf

\* IInv is an inductive invariant.
LEMMA Inductive == Spec => []IInv
<1>1. Init => IInv
  <2> SUFFICES ASSUME Init PROVE IInv
    OBVIOUS
  <2>1. TypeOK
    BY InitTypes
  <2>2. Account /\ OnItsWay
    BY DEF Init, Account, One, OnItsWay
  <2>3. Placement
    BY DEF Init, Placement, BeforeGpio, WhileIrq
  <2>4. QED
    BY <2>1, <2>2, <2>3 DEF IInv
<1>2. IInv /\ [Next]_vars => IInv'
  <2> SUFFICES ASSUME IInv, [Next]_vars PROVE IInv'
    OBVIOUS
  <2>1. TypeOK'
    BY TypeStep DEF IInv
  <2>2. Account' /\ OnItsWay'
    BY AccountStep, OnItsWayStep
  <2>3. Placement'
    BY PlacementStep
  <2>4. QED
    BY <2>1, <2>2, <2>3 DEF IInv
<1>3. QED
  BY <1>1, <1>2, PTL DEF Spec, SafeSpec

\* bh_done never exceeds irq_hits, and no hit is lost although both ways of
\* deferring merge.
THEOREM HitsCorrect == Spec => []HitsAccounted
<1>1. IInv => DoneAtMostHits
  BY DEF IInv, TypeOK, Account, One, DoneAtMostHits
<1>2. IInv => NoHitLost
  BY DEF IInv, OnItsWay, NoHitLost
<1>3. IInv => HitsAccounted
  BY <1>1, <1>2 DEF HitsAccounted
<1>4. QED
  BY <1>3, Inductive, PTL

\* Once the text is discarded nothing of the driver is left with the kernel but
\* the lines and interrupts of the loads whose misc_register failed.
THEOREM UnloadCorrect == Spec => []NothingLeftBehind
<1>1. IInv => NothingLeftBehind
  BY DEF IInv, TypeOK, Placement, BeforeGpio, WhileIrq, NothingLeftBehind, Hooked, Running
<1>2. QED
  BY <1>1, Inductive, PTL

\* What a failed misc_register strands stays with the kernel, and no later load
\* works with the line, however many lines, loads and failures there are.
THEOREM StrandedCorrect == Spec => StrandedForGood
<1> DEFINE Kept == \A l \in stranded :
                     /\ l \in stranded' /\ l \in taken' /\ l \in irqs'
                     /\ drv' \notin {"unloaded", "gpio_request"} => line' # l
<1>1. IInv /\ IInv' /\ [Next]_vars => [Kept]_vars
  <2> SUFFICES ASSUME IInv, IInv', [Next]_vars PROVE Kept
    OBVIOUS
  <2>1. stranded \subseteq stranded'
    BY DEF Next, DriverStep, Handler, BottomHalf, Insmod, Rmmod, GpioRequest,
           RequestIrq, Toggle, MiscRegister, MiscDeregister, FreeIrq,
           SynchronizeIrq, CancelWork, FlushWork, GpioFree, IrqEntry,
           hard_handler, BhStart, wq_fn, thread_fn, Reader, Open, bh_read,
           Close, vars, lifeVars
  <2>2. stranded' \subseteq taken' /\ stranded' \subseteq irqs'
    BY DEF IInv, Placement
  <2>3. ~BeforeGpio' => line' \notin stranded'
    BY DEF IInv, Placement
  <2>4. QED
    BY <2>1, <2>2, <2>3 DEF BeforeGpio
<1>2. QED
  BY <1>1, Inductive, PTL DEF Spec, SafeSpec, StrandedForGood

------------------------------------------------------------------------------
\* Every step of a driver that is not stranded is a step, or a stutter, of a
\* well-behaved module.
LEMMA ContractStep ==
  ASSUME IInv, [Next]_vars, stranded = {}
  PROVE  [Module!KNext]_(Module!kvars)
<1>1. CASE Insmod
  <2>1. Module!KInsmod
    BY <1>1
      DEF Insmod, IInv, TypeOK, Placement, BeforeGpio, WhileIrq, Module!KInsmod, Text,
          Hooked, Running, HookNames, InitSteps, ExitSteps, irqVars
  <2>2. QED
    BY <2>1 DEF Module!KNext
<1>2. CASE Rmmod
  <2>1. Module!KRmmod
    BY <1>2
      DEF Rmmod, IInv, TypeOK, Placement, BeforeGpio, WhileIrq, Module!KRmmod, Text,
          Hooked, Running, HookNames, InitSteps, ExitSteps, pinVars, irqVars,
          bhVars, lifeVars
  <2>2. QED
    BY <2>1 DEF Module!KNext
<1>3. CASE GpioRequest
  <2>1. CASE drv' = "unloaded"
    <3>1. Module!KDiscard
      BY <1>3, <2>1
      DEF GpioRequest, IInv, TypeOK, Placement, BeforeGpio, WhileIrq, Module!KDiscard, Text,
          Hooked, Running, HookNames, InitSteps, ExitSteps, pinVars,
          irqVars, bhVars, lifeVars
    <3>2. QED
      BY <3>1 DEF Module!KNext
  <2>2. CASE drv' = "request_irq"
    <3>1. Module!KUse
      BY <1>3, <2>2
      DEF GpioRequest, IInv, Placement, Module!KUse, Text, Hooked, Running,
          HookNames, InitSteps, pinVars, irqVars, bhVars, lifeVars
    <3>2. QED
      BY <3>1 DEF Module!KNext
  <2>3. QED
    BY <1>3, <2>1, <2>2 DEF GpioRequest
<1>4. CASE RequestIrq
  <2>1. CASE drv' = "unloaded"
    <3>1. Module!KDiscard
      BY <1>4, <2>1
      DEF RequestIrq, IInv, TypeOK, Placement, BeforeGpio, WhileIrq, Module!KDiscard, Text,
          Hooked, Running, HookNames, InitSteps, ExitSteps, pinVars,
          irqVars, bhVars, lifeVars
    <3>2. QED
      BY <3>1 DEF Module!KNext
  <2>2. CASE drv' = "toggle"
    <3>1. Module!KUse
      BY <1>4, <2>2
      DEF RequestIrq, IInv, Placement, Module!KUse, Text, Hooked, Running,
          HookNames, InitSteps, pinVars, irqVars, bhVars, lifeVars
    <3>2. QED
      BY <3>1 DEF Module!KNext
  <2>3. QED
    BY <1>4, <2>1, <2>2 DEF RequestIrq
<1>5. CASE Toggle
  <2>1. Module!KUse
    BY <1>5
      DEF Toggle, IInv, TypeOK, Placement, BeforeGpio, WhileIrq, Module!KUse, Text, Hooked,
          Running, HookNames, InitSteps, ExitSteps, bhVars, lifeVars
  <2>2. QED
    BY <2>1 DEF Module!KNext
<1>6. CASE MiscRegister
  <2>1. CASE drv' = "loaded"
    <3>1. Module!KInitDone
      BY <1>6, <2>1
      DEF MiscRegister, IInv, TypeOK, Placement, BeforeGpio, WhileIrq, Module!KInitDone,
          Text, Hooked, Running, HookNames, InitSteps, ExitSteps,
          pinVars, irqVars, bhVars
    <3>2. QED
      BY <3>1 DEF Module!KNext
  <2>2. CASE drv' = "unloaded"
    <3>1. Module!KUse
      BY <1>6, <2>2
      DEF MiscRegister, Module!KUse, Text, Hooked, Running, HookNames, InitSteps,
          pinVars, irqVars, bhVars
    <3>2. QED
      BY <3>1 DEF Module!KNext
  <2>3. QED
    BY <1>6, <2>1, <2>2 DEF MiscRegister
<1>7. CASE MiscDeregister
  <2>1. Module!KUse
    BY <1>7
      DEF MiscDeregister, IInv, TypeOK, Placement, BeforeGpio, WhileIrq, Module!KUse, Text,
          Hooked, Running, HookNames, InitSteps, ExitSteps, pinVars, irqVars,
          bhVars, lifeVars
  <2>2. QED
    BY <2>1 DEF Module!KNext
<1>8. CASE FreeIrq
  <2>1. Module!KUse
    BY <1>8
      DEF FreeIrq, IInv, TypeOK, Placement, BeforeGpio, WhileIrq, Module!KUse, Text,
          Hooked, Running, HookNames, InitSteps, ExitSteps, pinVars, bhVars,
          lifeVars
  <2>2. QED
    BY <2>1 DEF Module!KNext
<1>9. CASE SynchronizeIrq
  <2>1. Module!KUse
    BY <1>9
      DEF SynchronizeIrq, IInv, TypeOK, Placement, BeforeGpio, WhileIrq, Module!KUse, Text,
          Hooked, Running, HookNames, InitSteps, ExitSteps, pinVars, irqVars,
          bhVars, lifeVars
  <2>2. QED
    BY <2>1 DEF Module!KNext
<1>10. CASE CancelWork
  <2>1. Module!KUse
    BY <1>10
      DEF CancelWork, IInv, TypeOK, Placement, BeforeGpio, WhileIrq, Module!KUse, Text,
          Hooked, Running, HookNames, InitSteps, ExitSteps, pinVars, irqVars,
          lifeVars
  <2>2. QED
    BY <2>1 DEF Module!KNext
<1>11. CASE FlushWork
  <2>1. Module!KUse
    BY <1>11
      DEF FlushWork, IInv, TypeOK, Placement, BeforeGpio, WhileIrq, Module!KUse, Text,
          Hooked, Running, HookNames, InitSteps, ExitSteps, pinVars, irqVars,
          bhVars, lifeVars
  <2>2. QED
    BY <2>1 DEF Module!KNext
<1>12. CASE GpioFree
  <2>1. Module!KDiscard
    BY <1>12
      DEF GpioFree, IInv, TypeOK, Placement, BeforeGpio, WhileIrq, Module!KDiscard, Text,
          Hooked, Running, HookNames, InitSteps, ExitSteps, irqVars, bhVars,
          lifeVars
  <2>2. QED
    BY <2>1 DEF Module!KNext
<1>13. CASE IrqEntry
  <2>1. Module!KUse
    BY <1>13
      DEF IrqEntry, IInv, TypeOK, Placement, BeforeGpio, WhileIrq, Module!KUse, Text,
          Hooked, Running, HookNames, InitSteps, ExitSteps, pinVars, bhVars,
          lifeVars
  <2>2. QED
    BY <2>1 DEF Module!KNext
<1>14. CASE hard_handler
  <2>1. Module!KUse
    BY <1>14
      DEF hard_handler, Defer, IInv, TypeOK, Placement, BeforeGpio, WhileIrq, Module!KUse,
          Text, Hooked, Running, HookNames, InitSteps, ExitSteps, pinVars,
          lifeVars
  <2>2. QED
    BY <2>1 DEF Module!KNext
<1>15. CASE BhStart
  <2>1. Module!KUse
    BY <1>15
      DEF BhStart, IInv, TypeOK, Placement, BeforeGpio, WhileIrq, Module!KUse, Text,
          Hooked, Running, HookNames, InitSteps, ExitSteps, pinVars, irqVars,
          lifeVars
  <2>2. QED
    BY <2>1 DEF Module!KNext
<1>16. CASE wq_fn
  <2>1. Module!KUse
    BY <1>16
      DEF wq_fn, IInv, TypeOK, Placement, BeforeGpio, WhileIrq, Module!KUse, Text, Hooked,
          Running, HookNames, InitSteps, ExitSteps, pinVars, irqVars, lifeVars
  <2>2. QED
    BY <2>1 DEF Module!KNext
<1>17. CASE thread_fn
  <2>1. Module!KUse
    BY <1>17
      DEF thread_fn, IInv, TypeOK, Placement, BeforeGpio, WhileIrq, Module!KUse, Text,
          Hooked, Running, HookNames, InitSteps, ExitSteps, pinVars, irqVars,
          lifeVars
  <2>2. QED
    BY <2>1 DEF Module!KNext
<1>18. CASE \E r \in Readers : Reader(r)
  <2>1. Module!KUse
    BY <1>18
      DEF Reader, Open, bh_read, Close, IInv, TypeOK, Placement, Module!KUse,
          Text, Hooked, Running, HookNames, InitSteps, ExitSteps, pinVars,
          irqVars, bhVars, lifeVars
  <2>2. QED
    BY <2>1 DEF Module!KNext
<1>19. CASE UNCHANGED vars
  BY <1>19
    DEF vars, pinVars, irqVars, bhVars, lifeVars, Text, Hooked, Running,
        HookNames, Module!kvars
<1>20. QED
  BY <1>1, <1>2, <1>3, <1>4, <1>5, <1>6, <1>7, <1>8, <1>9, <1>10, <1>11, <1>12,
     <1>13, <1>14, <1>15, <1>16, <1>17, <1>18, <1>19
    DEF Next, DriverStep, Handler, BottomHalf

\* After a stranded load the driver counts as coming for ever, and what still
\* happens in it happens through the hooks it left.
LEMMA StrandedContractStep ==
  ASSUME IInv, [Next]_vars, stranded # {}
  PROVE  [Module!KNext]_(Module!kvars)
<1>1. stranded' # {} /\ Text = "coming" /\ Text' = "coming"
  BY DEF IInv, Text, Next, DriverStep, Handler, BottomHalf, Insmod,
         Rmmod, GpioRequest, RequestIrq, Toggle, MiscRegister, MiscDeregister,
         FreeIrq, SynchronizeIrq, CancelWork, FlushWork, GpioFree, IrqEntry,
         hard_handler, BhStart, wq_fn, thread_fn, Reader, Open, bh_read, Close,
         vars, lifeVars
<1>2. Hooked' \subseteq HookNames
  BY DEF Hooked
<1>3. Running' \subseteq Running \cup Hooked
  <2>1. hpc' # "idle" => hpc # "idle" \/ irqs # {}
    BY DEF IInv, Next, DriverStep, Handler, BottomHalf, Insmod,
           Rmmod, GpioRequest, RequestIrq, Toggle, MiscRegister,
           MiscDeregister, FreeIrq, SynchronizeIrq, CancelWork, FlushWork,
           GpioFree, IrqEntry, hard_handler, BhStart, wq_fn, thread_fn, Reader,
           Open, bh_read, Close, vars, irqVars
  <2>2. bpc' # "idle" => bpc # "idle" \/ pending
    BY DEF IInv, Next, DriverStep, Handler, BottomHalf, Insmod,
           Rmmod, GpioRequest, RequestIrq, Toggle, MiscRegister,
           MiscDeregister, FreeIrq, SynchronizeIrq, CancelWork, FlushWork,
           GpioFree, IrqEntry, hard_handler, BhStart, wq_fn, thread_fn, Reader,
           Open, bh_read, Close, vars, bhVars
  <2>3. ASSUME NEW r \in Readers, rpc'[r] = "reading"
        PROVE  rpc[r] # "closed"
    BY <2>3
      DEF IInv, TypeOK, Next, DriverStep, Handler, BottomHalf,
          Insmod, Rmmod, GpioRequest, RequestIrq, Toggle, MiscRegister,
          MiscDeregister, FreeIrq, SynchronizeIrq, CancelWork, FlushWork,
          GpioFree, IrqEntry, hard_handler, BhStart, wq_fn, thread_fn, Reader,
          Open, bh_read, Close, vars
  <2>4. QED
    BY <2>1, <2>2, <2>3 DEF Running, Hooked, HookNames
<1>4. Module!KUse
  BY <1>1, <1>2, <1>3 DEF Module!KUse
<1>5. QED
  BY <1>4 DEF Module!KNext

\* irqbh.c implements the contract of KModule: it never leaves a hook or a
\* thread behind when its text is discarded, the stranded load excepted.
THEOREM ContractCorrect == Spec => ModuleContract
<1>1. Init => Module!KInit
  BY DEF Init, Module!KInit, Text, Hooked, Running, HookNames
<1>2. IInv /\ [Next]_vars => [Module!KNext]_(Module!kvars)
  BY ContractStep, StrandedContractStep
<1>3. QED
  BY <1>1, <1>2, Inductive, PTL DEF Spec, SafeSpec, ModuleContract, Module!KSpec

\* The contract is worth keeping: whatever keeps it never leaves the kernel a
\* way into text that is gone.
LEMMA ContractKeepsCode == ModuleContract => []Module!NoCodeAfterFree
<1>1. Module!KInit => Module!NoCodeAfterFree
  BY DEF Module!KInit, Module!NoCodeAfterFree
<1>2. Module!NoCodeAfterFree /\ [Module!KNext]_(Module!kvars) => Module!NoCodeAfterFree'
  <2> SUFFICES ASSUME Module!NoCodeAfterFree, [Module!KNext]_(Module!kvars)
               PROVE  Module!NoCodeAfterFree'
    OBVIOUS
  <2>1. CASE Module!KNext
    BY <2>1 DEF Module!NoCodeAfterFree, Module!KNext, Module!KInsmod, Module!KUse,
                Module!KInitDone, Module!KRmmod, Module!KDiscard
  <2>2. CASE UNCHANGED Module!kvars
    BY <2>2 DEF Module!NoCodeAfterFree, Module!kvars
  <2>3. QED
    BY <2>1, <2>2
<1>3. QED
  BY <1>1, <1>2, PTL DEF ModuleContract, Module!KSpec

\* So no interrupt, bottom half or reader of irqbh.c is left when its text goes
\* (bh_exit, irqbh.c:161-171), until a load is stranded.
THEOREM NoCodeAfterFreeCorrect == Spec => []Module!NoCodeAfterFree
BY ContractCorrect, ContractKeepsCode, PTL
==============================================================================
