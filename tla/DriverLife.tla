----------------------------- MODULE DriverLife -----------------------------
(***************************************************************************)
(* Loading and unloading of the drivers whose init functions acquire       *)
(* several things in turn: misc_echo.c and ramdisk.c (chapter 04),         *)
(* twodev.c (05), memdemo.c (06) and gpioirq.c (08).  An init function is  *)
(* the sequence of its calls, each with what its failure path gives back;  *)
(* an exit function is a sequence of releases.  Any call that can fail may *)
(* fail.  (irqbh, listmsg and mmapbuf have init and exit in their own      *)
(* modules; what misc_echo and ramdisk do while they are loaded is in      *)
(* MiscEcho and RamDisk, and DriverLab puts the three together.)           *)
(***************************************************************************)
EXTENDS Naturals, Sequences

CONSTANT Users   \* processes that open the drivers' devices

VARIABLES driver,  \* the module being loaded and unloaded
          phase,   \* "absent", "init", "unwind", "live" or "exit"
          k,       \* the next call of the init function
          held,    \* what the kernel has handed out and not got back
          todo,    \* what the error path or the exit function releases next
          ret,     \* what init will return: 0, -errno or a positive number
          how,     \* how the module was discarded last
          users    \* processes with a file of the driver open

lifeVars == <<driver, phase, k, held, todo, ret, how, users>>

------------------------------------------------------------------------------
(* The init functions *)

\* One call of an init function: what it acquires, what it cannot do without,
\* and what follows when it fails.  A code of "address" is a return value
\* computed from an address, "errno" a negative error.
Call(get, needs, onfail, undo, code) ==
  [get |-> get, needs |-> needs, onfail |-> onfail, undo |-> undo, code |-> code]

\* The usual call: on failure undo and return the error.
Checked(r, undo) == Call({r}, {}, "undo", undo, "errno")
\* return misc_register(...): the error is returned as it is.
Returned(r)      == Call({r}, {}, "return", <<>>, "errno")
\* The result is not looked at here.
Unchecked(r)     == Call({r}, {}, "proceed", <<>>, "errno")

\* ed_init
MiscEchoCalls == <<Returned("misc")>>
MiscEchoExit  == <<"misc">>

Buffers == {"small_p", "zero_p", "big_v"}
FreeBuffers == <<"small_p", "zero_p", "big_v">>

\* (seeded fault: zero_p is not looked at)
MemdemoCallsTwoLooked ==
  << Unchecked("small_p"), Unchecked("zero_p"), Unchecked("big_v"),
     Call({}, {"small_p", "big_v"}, "undo", FreeBuffers, "errno"),
     Returned("misc") >>

\* md_init: three allocations, one look at all of them, misc_register.
MemdemoCalls ==
  << Unchecked("small_p"), Unchecked("zero_p"), Unchecked("big_v"),
     Call({}, Buffers, "undo", FreeBuffers, "errno"),
     Returned("misc") >>
MemdemoExit == <<"misc">> \o FreeBuffers

\* qi_init
GpioirqCalls == << Checked("gpio", <<>>), Checked("irq", <<"gpio">>),
                   Returned("misc") >>
GpioirqExit  == <<"misc", "irq", "gpio">>

\* rb_init: "added" is the disk after device_add_disk.
RamdiskCalls ==
  << Checked("data", <<>>),
     Checked("tags", <<"data">>),
     Checked("disk", <<"tags", "data">>),
     Checked("major", <<"disk", "tags", "data">>),
     Checked("added", <<"major", "disk", "tags", "data">>) >>

\* (seeded fault: the memory goes first)
RamdiskExitDataFirst == <<"data", "added", "disk", "tags", "major">>

\* rb_exit
RamdiskExit == <<"added", "disk", "tags", "major", "data">>

\* (seeded fault: while (--i > 0))
TwodevUndoShort(i) == <<"class", "region">>
\* err_undo of td_init, entered for device i.
TwodevUndo(i) == (IF i = 0 THEN <<>> ELSE <<"node0", "cdev0">>)
                   \o <<"class", "region">>

\* device_create, which fails without a class; its error path puts
\* -PTR_ERR(&devs[i]) in ret, an address that was no error.
TwodevNode(n, c, i) ==
  Call({n}, {"class"}, "undo", <<c>> \o TwodevUndo(i), "address")

\* td_init, its loop unrolled for i = 0 and 1.
TwodevCalls ==
  << Checked("region", <<>>), Unchecked("class"),
     Checked("cdev0", TwodevUndo(0)), TwodevNode("node0", "cdev0", 0),
     Checked("cdev1", TwodevUndo(1)), TwodevNode("node1", "cdev1", 1) >>

\* td_exit
TwodevExit == <<"node0", "cdev0", "node1", "cdev1", "class", "region">>

Drivers == {"misc_echo", "memdemo", "gpioirq", "ramdisk", "twodev"}
Calls == [ misc_echo |-> MiscEchoCalls, memdemo |-> MemdemoCalls,
           gpioirq |-> GpioirqCalls, ramdisk |-> RamdiskCalls,
           twodev |-> TwodevCalls ]
Exit  == [ misc_echo |-> MiscEchoExit, memdemo |-> MemdemoExit,
           gpioirq |-> GpioirqExit, ramdisk |-> RamdiskExit,
           twodev |-> TwodevExit ]

------------------------------------------------------------------------------
(* What the kernel's interfaces make of the resources *)

\* Whatever r is, it must not be released before those that work with it.
Needs(r) == CASE r = "irq"              -> {"gpio"}
              [] r = "disk"             -> {"tags"}
              [] r = "added"            -> {"disk", "tags", "major", "data"}
              [] r \in {"cdev0", "cdev1"} -> {"region"}
              [] r \in {"node0", "node1"} -> {"class"}
              [] OTHER                  -> {}

\* Released without harm when it was never acquired: kfree and vfree take
\* NULL, class_destroy takes an error pointer.
Harmless == Buffers \cup {"class"}

\* A device that processes can open is on offer.
Openable == \/ held \cap {"misc", "added"} # {}
            \/ {"cdev0", "node0"} \subseteq held
            \/ {"cdev1", "node1"} \subseteq held

Resources == UNION {c.get : c \in UNION {{Calls[d][j] : j \in DOMAIN Calls[d]}
                                           : d \in Drivers}}
Acquired(d) == UNION {Calls[d][j].get : j \in DOMAIN Calls[d]}

LifeTypeOK ==
  /\ driver \in Drivers
  /\ phase \in {"absent", "init", "unwind", "live", "exit"}
  /\ k \in DOMAIN Calls[driver]
  /\ held \subseteq Resources
  /\ todo \in Seq(Resources)
  /\ ret \in {"zero", "errno", "positive"}
  /\ how \in {"never", "undone", "discarded", "unloaded"}
  /\ users \subseteq Users

LifeInit ==
  /\ driver \in Drivers /\ phase = "absent" /\ k = 1
  /\ held = {} /\ todo = <<>> /\ ret = "zero" /\ how = "never"
  /\ users = {}

------------------------------------------------------------------------------
(* The steps of the loader, of init and of exit *)

\* A module that left something behind is not loaded again here (IrqBh does
\* that for its driver).
Insmod ==
  /\ phase = "absent" /\ held = {} /\ users = {}
  /\ phase' = "init" /\ k' = 1 /\ ret' = "zero"
  /\ UNCHANGED <<driver, held, todo, how, users>>

call == Calls[driver][k]

\* (seeded fault: one call too many)
GoOnTooFar ==
  IF k > Len(Calls[driver]) THEN phase' = "live" /\ UNCHANGED k
  ELSE k' = k + 1 /\ UNCHANGED phase

\* The next call of init, or its return 0.
GoOn == IF k = Len(Calls[driver]) THEN phase' = "live" /\ UNCHANGED k
        ELSE k' = k + 1 /\ UNCHANGED phase

Succeed ==
  /\ phase = "init" /\ call.needs \subseteq held
  /\ held' = held \cup call.get
  /\ GoOn
  /\ UNCHANGED <<driver, todo, ret, how, users>>

\* A call may fail that acquires something; one that only looks fails when
\* what it looks for is not there.
CanFail == phase = "init" /\ (call.get # {} \/ ~ call.needs \subseteq held)

FailUnseen ==
  /\ CanFail /\ call.onfail = "proceed"
  /\ GoOn
  /\ UNCHANGED <<driver, held, todo, ret, how, users>>

FailUndo ==
  /\ CanFail /\ call.onfail = "undo"
  /\ phase' = "unwind" /\ todo' = call.undo
  /\ \/ ret' = "errno"
     \/ call.code = "address" /\ ret' = "positive"
  /\ UNCHANGED <<driver, k, held, how, users>>

\* The loader discards the module with all it holds.
FailReturn ==
  /\ CanFail /\ call.onfail = "return"
  /\ phase' = "absent" /\ ret' = "errno" /\ how' = "discarded"
  /\ UNCHANGED <<driver, k, held, todo, users>>

\* (device_destroy, cdev_del, class_destroy, kfree, free_irq, del_gendisk ...)
Release ==
  /\ todo # <<>>
  /\ held' = held \ {Head(todo)} /\ todo' = Tail(todo)
  /\ UNCHANGED <<driver, phase, k, ret, how, users>>

\* The error path returns.  The loader discards the module whoever uses it -
\* or, when the value is positive, warns and goes on as for 0.
Unwound ==
  /\ phase = "unwind" /\ todo = <<>>
  /\ \/ ret = "errno" /\ phase' = "absent" /\ how' = "undone"
     \/ ret = "positive" /\ phase' = "live" /\ UNCHANGED how
  /\ UNCHANGED <<driver, k, held, todo, ret, users>>

\* .owner = THIS_MODULE: an open file keeps the module.
Rmmod ==
  /\ phase = "live" /\ users = {}
  /\ phase' = "exit" /\ todo' = Exit[driver]
  /\ UNCHANGED <<driver, k, held, ret, how, users>>

Unloaded ==
  /\ phase = "exit" /\ todo = <<>>
  /\ phase' = "absent" /\ how' = "unloaded"
  /\ UNCHANGED <<driver, k, held, todo, ret, users>>

------------------------------------------------------------------------------
\* open: works as soon as the device is there, while init is still running
\* too; not once rmmod has begun.
Open(u) ==
  /\ Openable /\ phase \in {"init", "unwind", "live"} /\ u \notin users
  /\ users' = users \cup {u}
  /\ UNCHANGED <<driver, phase, k, held, todo, ret, how>>

\* close: with the module gone there is no release function to call.
Close(u) ==
  /\ u \in users /\ phase # "absent" /\ users' = users \ {u}
  /\ UNCHANGED <<driver, phase, k, held, todo, ret, how>>

\* After insmod, the calls of loading and unloading; Open and Close are the processes' part.
LifeStep == \/ Succeed \/ FailUnseen \/ FailUndo \/ FailReturn
            \/ Release \/ Unwound \/ Rmmod \/ Unloaded

------------------------------------------------------------------------------
(* Properties *)

\* Whichever call fails, an error path gives everything back, and so does an
\* exit function.  A file outlives the module in one way only: it was opened on
\* a device that was there already when init failed at a later one (td_init).
NothingLeft ==
  phase = "absent" => /\ how \in {"undone", "unloaded"} => held = {}
                      /\ users # {} => how = "undone"

\* Error paths and exit functions release nothing they do not hold, so nothing
\* twice - unless init returned a positive number - and nothing that something
\* they still hold works with: the disk goes before its tags and memory, the
\* interrupt before its line.
ReleasedInOrder ==
  todo # <<>> => /\ ret # "positive" => Head(todo) \in held \cup Harmless
                 /\ \A r \in held : Head(todo) \notin Needs(r)

\* A module that counts as loaded has all it asked for, even where the result
\* of a call is not looked at - unless init returned a positive number.
LiveIsComplete ==
  phase = "live" /\ ret = "zero" => held = Acquired(driver)

\* What 09-irq-bottom-half/README.md:86 asks of an unload, taken for a load
\* that fails: nothing that points into the module may be left.
FailedLoadLeavesNothing == phase = "absent" => held = {}
==============================================================================
