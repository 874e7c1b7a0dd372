# A TLA+ model of the LDD drivers and experiments

The repository is a course of Linux drivers in C, one chapter a directory, each
with a kernel module or a user-space experiment that was run on a Raspberry Pi.
This directory holds TLA+ models of the programs that have behaviour worth
checking: the drivers with shared state (`07`, `05`, `11`), the interrupt with its
bottom half (`09`), the loading and unloading of five drivers with the data paths
of two of them (`04`), module parameters (`03`), the experiments that work on
state they share with the rest of the system (partition tables in `00`, the
kernel log in `02`), and the tool that builds and loads a module on the board.  TLC
checks each model on a small instance; TLAPS proves the safety properties of all of
them for every value of their constants.

    tlc -workers 2 -config IrqBh.cfg IrqBh.tla      # one run
    tlapm IrqBhProofs.tla                           # the proofs, module by module:
                                                    # MmapBufProofs, TwoDevProofs, ListMsgProofs,
                                                    # DriverLabProofs, KmsgLabProofs,
                                                    # ParamLabProofs, PtabLabProofs

## 1. Inventory

For each part: its state, its operations, whom it meets, what is hard, and what
makes it correct.

| Part | State | Operations | Meets | Hard | Correct when |
|---|---|---|---|---|---|
| **irqbh** `09-irq-bottom-half/irqbh.c` | `irq_hits`, `bh_done`, `bh_work`, the GPIO line, the misc device, the parameters `gpio_num` and `mode` | `bh_init` (request line, install handler, toggle), hard handler, `wq_fn` or `thread_fn`, `bh_read`, `bh_exit` | GPIO controller, genirq, workqueue, irq thread, loader, readers | five kinds of thread interleave; deferrals merge; unloading races with all of them; `misc_register` can fail last | no hit is lost, no bottom half without a hit, nothing runs in or points into freed text, unloading ends |
| **listmsg** `07-list-head/listmsg.c` | one list of nodes, `msg_count`, a mutex, a cursor per open file | open, release, write, read, `LISTMSG_CLEAR`, `LISTMSG_COUNT`, init, exit | processes with files open, allocator | cursors are pointers into a list that others append to and clear; the cursor is checked before the mutex is taken | each file reads the log once in order until a CLEAR, no cursor at a freed node (false, see 4), every node accounted for |
| **twodev** `05-char-device-full/twodev.c` | per device a buffer, `len`, `bufsz`, a mutex; per file a device and a position | open, release, read, write, three ioctls, init with undo | processes on either node, loader | length and limit are looked at before the mutex is taken; two devices in one driver; `size_t` arithmetic; registration may fail at either device | a write stays in the buffer, messages are not mixed, devices are isolated, a read returns valid bytes |
| **mmapbuf** `11-mmap/mmapbuf.c` | one buffer of pages, `PageReserved`, mappings | init, open, read, mmap, close, fork, munmap, exit | page tables, loader | the life time of pages against mappings that outlive `close` and are inherited | nobody reaches a page that was freed, pages go back clean |
| **init and exit** of misc_echo, ramdisk (`04`), twodev (`05`), memdemo (`06`), gpioirq (`08`) | what the kernel has handed out so far | the sequence of acquiring calls, the error paths, the exit function | loader, processes that open devices early | any call may fail; unwinding must match; a device is usable before init is done | a failed load leaves nothing, each thing is released once and before what it depends on |
| **ptab_lab** `00-dev-and-partitions/…/ptab_lab.c` | none of its own: LBA 0 of a medium, loop devices, the kernel's partitions | mkimg, mkpt, corrupt, reread, attach, detach, and the scripts lab and disklab | other experiments, udev and mounts that hold devices open | the kernel's view goes stale; loop devices are shared; any step may end the program | each listing shows what the text says, only its own medium is written, nothing stays bound, the disk is blank again |
| **rbfill** `02-log-levels/…/rbfill.c` | counters and samples | write a record, sample the ring, report | everybody who logs | the ring is overwritten while it is sampled | samples without holes, true reports |
| **run_console** `02-log-levels/…/run_console.c` | a cursor in `/dev/kmsg`, a child | drain, fork, follow, reap, unload | module loader, everybody who logs | overruns; the deadline against the child | each new record printed once, no module left |
| **run_pty** `02-log-levels/…/run_pty.c` | its place in the program, a child on a pipe, a shell on a pty | rmmod, fork and drain, wait, three times over | module loader, run_console | two insmods, two time-outs; only the shell of the second is waited for | no module of its own left, but when the second part was given up |
| **misc_echo** `04-char-block-net/char/misc_echo.c` | one message, its length, a mutex; a position per file | `ed_read`, `ed_write` | processes | a message is read in several calls while others write; a fault overwrites half | a file is read once through, no byte of an older, longer message shows |
| **ramdisk** `04-char-block-net/block/ramdisk.c` | the sectors, the requests in flight | `rb_queue_rq`, `rb_transfer` | block layer | requests overlap on several processors without a lock; unloading | a read returns, word by word, what was there or what is being written, nothing touches freed memory |
| **param_demo** `03-module-param/param_demo.c` | nine parameters | set at insmod and through sysfs, `cb_int_set` | kernel's parsers, sysfs, loader | arrays are set element by element; a refused write; who may write | the callback hears of every change with the value before it |
| **param_probe** `03-module-param/…/param_probe.c` | its row, the value it read | stat, read, write, restore, then values to be refused | param_demo, other writers | what it cannot read it cannot restore | the module is as it was, but for what `SceneClean` lists |
| **deploy_module** `tools/deploy_module.py` | the directory on the board | upload, build, load and unload, fetch | the board, whoever else loads the module | no step looks at the result of the one before | what is loaded and fetched is the new build |
| **stun_probe** `tools/remote-access/stun_probe.py` | answers received | probe and judge | network | a lost answer and a filtered one look alike | not modelled, see 6 |
| sniff (`04`), gpioblink (`08`), hello and licence templates (`01`), log_levels (`02`), deref (`10`), run_stun, fix_boot_order (`tools`) | none that outlives a call | receive and count, drive a line, print, oops on purpose | – | – | not modelled, see 6 |

How they interact: the drivers never call each other.  Each meets the module
loader, the kernel facilities it registers with, and the processes that open its
device; that is why `KModule` states once what a driver owes the loader.  The
experiments meet each other only through kernel objects: loop devices
(`PtabLab`), the printk ring and the module log_levels (`KmsgLab`), the module
param_demo (`ParamLab`).

## 2. Modules

| Module | Models | Corresponds to the code by |
|---|---|---|
| `KModule` | the contract of a kernel module with the loader: code is entered through a hook, text is discarded with no hook and nobody inside | abstract |
| `IrqBh` | `irqbh.c` in both modes | `drv` is the next call of `bh_init` / `bh_exit`; `line` is `gpio_num`; `hpc`, `bpc`, `rpc` are the places of handler, bottom half and readers; `free_irq` and `cancel_work_sync` are two actions each because each first unhooks and then waits |
| `IrqBhProofs` | the proofs about `IrqBh` | – |
| `MsgLog` | what `/dev/listmsg` promises: one log, a reading position per file | abstract |
| `ListMsg` | `listmsg.c` | a call is split where another call can come between, and inside `lm_read` wherever it loads the cursor, which CLEAR resets without the mutex; `pos` is the cursor as a pointer, so that a freed node can be told from a live one; the links of a freed node lead anywhere (`WILD`), and a task that follows one is "dead" with the mutex held |
| `ListMsgProofs` | the proofs about `ListMsg`, the refinement of `MsgLog` among them | – |
| `TwoDev` | the file operations of `twodev.c` | a device is the address of its `struct twodev`, a file gets it by `container_of` from the cdev registered for its minor (`CdevOf`, `HostOf`); each unlocked look at `bufsz` and `len` is a step; each critical section is one step |
| `TwoDevProofs` | the proofs about `TwoDev` | – |
| `MmapBuf` | `mmapbuf.c` | `drv` as in `IrqBh`; `vma` is the mapping of each process |
| `MmapBufProofs` | the proofs about `MmapBuf` | – |
| `DriverLife` | init and exit of five drivers | an init function is a sequence of records `Call(get, needs, onfail, undo, code)`, one per call of the source |
| `MiscEcho` | read and write of `misc_echo.c` | each call is one step, as it holds the mutex throughout; a byte is the number of the write it came from |
| `RamDisk` | the data path of `ramdisk.c` | `Submit` is `blk_mq_start_request`, `rb_transfer` one word of a memcpy of its loop, `EndRequest` `blk_mq_end_request`; a sector is `Words` words |
| `DriverLab` | a driver's life with its work | composition: insmod brings fresh statics, a close waits for the requests of its file |
| `DriverLabProofs` | the proofs about `DriverLife`, `MiscEcho` and `RamDisk` | – |
| `DeviceLab` | `DriverLab`, `TwoDev` and `MmapBuf` in one run | composition of parts that share nothing; `on` says which one is at work in a behaviour |
| `PtabLab`, `MCPtabLab` | `ptab_lab.c` | `Lab` and `Disklab` are the scripts, one entry per subcommand; "p1" and "none" are the calls of `cmd_lsdev`, named for what the banner or tag says |
| `PtabLabProofs` | the proofs about `PtabLab` | – |
| `KmsgRing` | the printk ring and its cursors (kernel side) | external |
| `RbFill` | `rbfill.c` | `cur` is the cursor of the sample's descriptor, `st` the `struct ring_stat` |
| `ModLoad` | the processes that load log_levels: run_console's child, run_pty's two insmods | `ins` is how far each has come; the module logs while it is loaded |
| `RunConsole`, `RunPty` | `run_console.c`, `run_pty.c` | `kcur` is the cursor of `kfd`; `ypc` is the place in run_pty's main, `sh` its shell |
| `KmsgLab` | the three programs on one ring and one module | composition; `on` says which of them run in a behaviour |
| `KmsgLabProofs` | the proofs about `RbFill`, `RunConsole` and `RunPty` beside each other | – |
| `ParamDemo` | `param_demo.c` and the kernel's parsers as it uses them | `val` holds each parameter as the sequence of its elements; `notes` is what `cb_int_set` printed |
| `ParamProbe` | `param_probe.c` | `ppc` is the place in the loop of main, `n` the row of `PROBES` or `bad`; `AsRead` is what `read_file` makes of a value: cut at the end and stripped of blanks |
| `Deploy` | `deploy_module.py` on param_demo | `src` and `ko` are the sources and the `.ko` on the board, by version |
| `ParamLab` | the probe, a root shell and deployments on one module | composition |
| `ParamLabProofs` | the proofs about `ParamDemo`, `ParamProbe` and `Deploy` on one module | – |

Operators whose comment begins with "seeded fault" are plausible mistakes in the
definition that follows them.  No specification uses them: they show that a
property would notice.

Conventions.  Sizes, messages and contents are abstracted to what the properties
tell apart: a message is a number or the process that wrote it, a page or a
sector count is a small number, a partition table is `[size, sig, nsect]`.
Printing, formatting and time-outs as durations are left out: a time-out may
fire at any moment.

## 3. Runs

| Run | Module, cfg | Shows |
|---|---|---|
| `irqbh` | `IrqBh`, `IrqBh.cfg` | `HitsAccounted`, `NothingLeftBehind`, `StrandedForGood`, refinement of `KModule` (`ModuleContract`), and under fairness `HitsGetSeen`, `UnloadFinishes`; 76 thousand states |
| `irqbh_once_per_irq` | `IrqBh_once.cfg` | violated: "threaded 模式每次中断必跑一次线程" |
| `listmsg` | `ListMsg`, `ListMsg.cfg` | `NodesAccounted`, `CursorLive`, refinement of `MsgLog` (`IsALog`), `CallsReturn`, with CLEAR at any moment; 387 thousand states |
| `listmsg_freed` | `ListMsg_freed.cfg` | violated: "多个 cat 互不干扰": a reader follows a node that another file's CLEAR has freed |
| `devices` | `DeviceLab`, `DeviceLab.cfg` | of five drivers' loading and two drivers' work: `NothingLeft`, `ReleasedInOrder`, `LiveIsComplete`, `DiskKeepsData`, `EchoSplices`; of twodev's calls that overlap in every way: `WithinBounds`, `OneMessage`, `Isolated`; of mmapbuf: `MappedIsAlive`, `FreedClean`, and the type invariant, which bounds every mapping by the buffer; 2.5 million states |
| `twodev_stale_len` | `TwoDev_stale_len.cfg` | violated: a read that overlaps a write copies bytes beyond the valid length |
| `driver_failed_load` | `DriverLab_leftover.cfg` | violated: a failed `misc_register` discards memdemo or gpioirq with what it holds |
| `ptab_lab` | `MCPtabLab`, `PtabLab.cfg` | `LabShows`, `OwnMediumOnly`, `LeftAsFound`, `EntryFits`; 1.4 million states |
| `kmsg_lab` | `KmsgLab`, `KmsgLab.cfg` | `SampleIsAStretch`, `PrintedOnce`, `NothingLoadedAfter`, `PtyUnloads`; 6.0 million states |
| `rbfill_no_wrap` | `KmsgLab_nowrap.cfg` | violated: "覆盖: 未发生" is printed although records were pushed out |
| `rbfill_full` | `KmsgLab_full.cfg` | violated: "缓冲区此刻 100% 是本轮消息" is printed although the ring holds other records |
| `param_lab` | `ParamLab`, `ParamLab.cfg` | `CbNotified`, `SceneClean`, `FreshIfCleaned`; 2.3 million states |

Bounds, and why they are enough:

- `IrqBh`: `Toggles = 6` is the code's own number; two lines, one that a failed
  load can strand and one that a later load can still name; one reader, since readers do
  not act on each other and one open file is all `Rmmod` looks at.  Loads and
  unloads repeat without bound.
- `ListMsg`: two tasks give every overlap of two calls, on one file or on two;
  three messages (`MaxWrites`) on two nodes give a list with a first and a last
  node, a node that is freed and used again under a cursor that still points at
  it, and a message written after a CLEAR.  Nothing restricts when CLEAR comes or
  who reads which file.
- `DeviceLab`: each behaviour is of one of the three parts below, so its states
  are the sum of theirs and not the product.
- `TwoDev`: two devices and two processes; `Sizeof = 3` and `Offset = 2` put the
  cdev at the end of its struct, as in the code; `BufMax = 2` tells an empty, a partial
  and a full buffer apart, counts go one beyond it, and `SizeMod = 8` is the
  smallest wrap-around that cannot be confused with a count.
- `MmapBuf`: `BUF_PAGES = 4` as in the code, mappings up to one page more; two
  processes make a parent and a child.
- `DriverLab`: loading and unloading without bound, two users.  A message of two
  bytes read by one gives a splice, three writes a long one, a short one and a
  faulted one; two sectors of two words and two requests in flight, three in all, give every
  overlap of two and one that comes after.
- `PtabLab`: `Align`, `Mod` and the sizes stand for 2048 sectors, 2^32 and 64 MiB;
  the disk has `Align + Mod + 1` sectors, so that its entry is cut.  Three
  experiments are started in all (`MaxStarts`), which lets one run after another
  that died; one device is held open at a time (`MaxHeld`).  The processes are
  interchangeable and so are the loop devices, hence the symmetry.
- `KmsgLab`: a ring of three records overflows in every phase of both programs;
  three records with a sample every two leaves a last incomplete batch, as 300
  and 16 do; two foreign records can overtake a sample twice.  `Pairs` lets
  run_console run beside rbfill, which shares the ring with it, and beside
  run_pty, which shares the module: rbfill and run_pty share nothing but noise.
- `ParamLab`: `ArrMax = 3` has room for the two elements the probe writes and one
  more than it; two deployments tell an old build from a new one; two interventions
  of the shell (`MaxTouches`) can change a parameter before the probe begins, and
  unload or write while it is at work.  `ReadMax = 3` stands for the 511 characters
  read_file keeps; the shell's texts end in a blank, or are nothing else, or are
  longer than that.

`CHECK_DEADLOCK FALSE` is set where the system may stop: a module
undone for good (`DeviceLab`), a task that died with the mutex (`ListMsg`), programs that have all ended (`PtabLab`,
`KmsgLab`, `ParamLab`).

Fairness.  `IrqBh` assumes weak fairness of the driver's own steps (a thread in
`insmod` or `rmmod` is scheduled), of the handler (a latched interrupt is
delivered) and of the bottom half (kworker and irq thread are scheduled); nobody
is obliged to load, unload or read.  `ListMsg` assumes strong fairness of the
steps inside a call, because a kernel mutex hands over to the waiter that has
waited too long, and nothing about who makes the next call; `CallsReturn` promises
nothing once a task has died with the mutex.  The other
specifications state safety only.

## 4. Where the code and what is said of it disagree

Shown by a run, each quoted in `PROJECT.json` under "findings":

1. `irqbh.c:18-19` and the chapter's README promise one run of the thread per
   interrupt in mode 1; two interrupts that come before the thread runs merge
   (`irqbh_once_per_irq`).
2. `twodev.c:71` cuts the count with a length read before the mutex
   (`twodev_stale_len`).
3. `memdemo.c:85`, `gpioirq.c:95` and `irqbh.c:158` return the error of
   `misc_register` without giving back what was acquired (`driver_failed_load`;
   for irqbh see also `StrandedForGood`).
4. `listmsg.c:137` resets, after a CLEAR, the cursor of the calling file only; every
   other open file goes on from a freed node, where the chapter's README:12-13 has
   readers that do not disturb each other (`listmsg_freed`).
5. `rbfill.c:278` takes a sample for the whole ring although an overrun may have cut
   it (`overrun` is set and, but for the first sample, never looked at), and for
   this run's whatever carries the tag, an earlier run's records too
   (`rbfill_full`, with no such records: the overrun is enough).
6. `rbfill.c:236` samples every `batch` records and never compares the final
   sample, so an overwriting in the last incomplete batch is reported as none
   (`rbfill_no_wrap`).

Seen while modelling, without a run of their own:

- `param_probe.c:155` means to leave the scene clean.  Undisturbed and run by root
  it leaves `my_wo_int` with the test value 88, which it cannot read to restore,
  `my_arr` with the eight elements of the list refused for its ninth (`:196`), and
  an array that was empty with the test value, since an empty text written back is
  no write.  `read_file` strips blanks and line ends and keeps 511 characters
  (`:80-86`), so that a `my_str` set by `echo`, which ends in a line end, or a longer
  one comes back without its end, and one that was blank altogether keeps the test
  value.  `SceneClean` says exactly this.  Disturbed, it writes over what
  another writer set between its read and its restore, and carries an old
  instance's value into a module loaded anew.
- `deploy_module.py:110` promises a fresh product.  When `make clean` fails, so
  does `make` as a rule, and a `.ko` of an earlier deployment is loaded and
  fetched; the exit code that is printed is `modinfo`'s (`FreshIfCleaned`).  A
  command that says nothing for 300 seconds ends the program between insmod and
  rmmod, and the module stays in the kernel: the next deployment's insmod
  is refused (EEXIST), and main goes on to show and unload the old one.
- `run_pty.c:238` waits for the shell only.  When part B is given up at its
  time-out, insmod may still be in the kernel and finish after the last `rmmod`
  (`PtyUnloads` shows that no other way leaves the module loaded).
- `ramdisk.c:24` moves overlapping requests without a lock.  A read
  that overlaps a write may return a sector that is part old and part new, which a
  disk that writes sectors whole would not do; word by word it returns the old or
  the new content and nothing else (`DiskKeepsData`).
- `twodev.c:162` returns `-PTR_ERR(&devs[i])`, an address cut to an `int`, when
  `device_create` fails.  A positive value means success to the loader, which then
  keeps a module with nothing registered.  `DriverLife` has that outcome
  (`ret = "positive"`), and `LiveIsComplete` exempts it.
- `/dev/twodev0` is usable from `cdev_add` on, while `td_init` can still fail at
  device 1: a process may hold a file of a module that is gone (`NothingLeft`
  states that this is the only way).
- `twodev.c:54-55` looks at the limit twice without the mutex: if `SET_BUFSZ`
  comes between, the count may even grow.
- `listmsg.c:75` checks the cursor before the mutex is taken: two reads on one
  descriptor can both pass, and the second follows the null cursor the first left,
  where the comment at :74 says "读完返回 0（EOF）".  The reader is killed with the
  mutex held and every later call waits for ever: `CursorLive` exempts the read that
  another one crossed, and `CallsReturn` what comes after a task has died.
- `mmapbuf.c:137-139` and `11-mmap/README.md:119` speak of a mapping that outlives
  `rmmod`; the reference a mapping holds through `.owner` makes `rmmod` fail with
  `-EBUSY`, so the case does not arise (`MappedIsAlive`).
- `ptab_lab.c:449` prints the answer to the quiz, "分区节点 … 没了", whether or not
  the reread before it was refused (`EBUSY`, when another program has the
  partition open); `LabShows` exempts that case.
- `ptab_lab.c:157` on a disk of less than 2048 sectors wraps around; the runs
  and proofs assume larger disks (`SizesAssumption`).
- `ptab_lab.c:157` on a disk whose rest is a multiple of 2^32 sectors cuts it to 0:
  the entry written is empty and the kernel shows no partition, where the script
  announces p1.  The proof of `LabShows` came upon it; `LabShows` exempts it.
- `run_console.c:156` says that whatever is polled after the draining is new.  An
  `EPIPE` ends the draining like `EAGAIN` does, with the cursor at the oldest
  record; older records are then printed as new.

## 5. Proofs

Every safety invariant and every action property that a passing run checks is
proved by TLAPS, for every value of the constants the assumptions allow, and so
are both refinements.  Eight modules hold the proofs, one for each specification
(`DeviceLab` only runs three of them side by side; its theorems are theirs).

| Module | Theorems | For any number of |
|---|---|---|
| `IrqBhProofs` | `TypeCorrect`, `HitsCorrect` (`HitsAccounted`), `UnloadCorrect` (`NothingLeftBehind`), `StrandedCorrect` (`StrandedForGood`), `ContractCorrect` (`ModuleContract`), `NoCodeAfterFreeCorrect` | lines, toggles, readers |
| `MmapBufProofs` | `BufferTypeCorrect`, `MappedCorrect` (`MappedIsAlive`), `FreedCorrect` (`FreedClean`) | processes, pages |
| `TwoDevProofs` | `TwoDevTypeCorrect`, `OneMessageCorrect`, `WithinBoundsCorrect`, `IsolatedCorrect` | devices, processes, bytes in a buffer; any `size_t`, any place of the cdev in its struct |
| `ListMsgProofs` | `ListMsgTypeCorrect`, `NodesAccountedCorrect`, `CursorLiveCorrect`, `IsALogCorrect`, `ReadsInOrderCorrect` | tasks, files, nodes |
| `DriverLabProofs` | `NothingLeftCorrect`, `ReleasedInOrderCorrect`, `LiveIsCompleteCorrect`, `EchoSplicesCorrect`, `DiskKeepsDataCorrect`, `DriverLabTypeCorrect` | users, bytes of the echo buffer, sectors and their words, requests at a time |
| `KmsgLabProofs` | `KmsgLabTypeCorrect`, `SampleIsAStretchCorrect`, `PrintedOnceCorrect`, `NothingLoadedAfterCorrect`, `PtyUnloadsCorrect` | records in the ring, written and foreign; any programs together |
| `ParamLabProofs` | `ParamLabTypeCorrect`, `CbNotifiedCorrect`, `SceneCleanCorrect`, `FreshIfCleanedCorrect` | elements of an array, characters read back, deployments, touches from the shell |
| `PtabLabProofs` | `PtabTypeCorrect`, `EntryFitsCorrect`, `LeftAsFoundCorrect`, `LabShowsCorrect`, `OwnMediumOnlyCorrect` | experiments, loop devices, disks of any size |

### Assumptions

The assumptions on the constants are named where the constants are declared, and
each is a bound of a counter that is a number, a buffer of at least one unit, or
names that differ: `TogglesAssumption`, `PagesAssumption`, `BufAssumption`,
`SizeAssumption`, `MarksAssumption`, `NullAssumption`, `NoOneAssumption`,
`WritesAssumption`, `WildAssumption`, `DevAssumption`, `EchoAssumption`, `DiskAssumption`,
`RingAssumption`, `FillAssumption`, `LinesAssumption`, `PairsAssumption`,
`ArrAssumption`, `ReadAssumption`, `JunkAssumption`, `TouchAssumption`, `DeployAssumption`,
`BoundsAssumption`, `NamesAssumption`.  One says more: `SizesAssumption` (`PtabLab`),
that a disk or an image has more than 2048 sectors.  The code needs it (section 4).

No theorem has a hypothesis of its own.  Where the code breaks what one would like
to say, the property names the case: a CLEAR that cut a file's walk short and two
reads that crossed on one file (`CursorLive`, `IsALog`), a line that was stranded
(`NothingLeftBehind`), and what section 4 lists for the others.

`NoCodeAfterFreeCorrect` rests on the contract alone: the lemma
`ContractKeepsCode` shows that whatever implements `KModule` leaves the kernel no
way into discarded text, and `ContractCorrect` that `irqbh.c` implements it.

### The inductive invariants

None of the properties is inductive by itself.  What each module adds is the
reason why the code is right.

**IrqBh**: `TypeOK /\ Account /\ OnItsWay /\ Placement`.

- `Account` counts: every run of the bottom half, finished or started or merely
  pending, is covered by a hit that was counted before it.  It is what makes
  `bh_done <= irq_hits` survive a `BhStart`.
- `OnItsWay` says where a hit that was not seen yet can be: in the handler about to
  defer, in the pending bit, or in a bottom half that has not read the counter.
  When all three are empty nothing is left but `seen = irq_hits`.
- `Placement` says for each place of the driver's thread what is installed and
  what can still run, beside the lines and interrupts that failed loads have
  stranded; it grows weaker call by call through `bh_init` and stronger through
  `bh_exit`, and at "unloaded" it is `NothingLeftBehind`.  That a load works only with
  a line outside `stranded` is what `gpio_request_one` sees to, and what
  `StrandedForGood` follows from.

**MmapBuf**: `MbufTypeOK /\ Held /\ Marked /\ InUse`.  `Held` and `Marked` say at which
places of the driver's thread the buffer is allocated and its pages reserved;
`InUse` that there are files and mappings of a loaded driver only, which is what
the reference of a struct file to its module (`.owner`) buys.

**TwoDev**: `TdTypeOK /\ OneMessage /\ \A p : Relies(p) /\ OwnDev(p)`.  `Relies` is what a process
between two looks can count on whatever the others do: that a write which passed
`WriteLimit` fits the buffer, since no limit ever exceeds `BUF_MAX`; and, as long as
nobody has disturbed it, the limit and the length it saw.  `OneMessage` survives a
write because a critical section replaces bytes and length together.  `OwnDev` is
what registration and `container_of` achieve: an open file carries the device of
its minor, whatever the offset of the cdev, since the two computations cancel and
no two devices share an address.

**ListMsg**, in two layers.  `NodeInv` (`Injective`, `Apart`, `Accounted`,
`Counted`, `CallsOpen`, `Written`): each allocated node is on the list once or in
the hands of one writer.  `CursorInv` (`Holder`, `Stand`, `ToReset`, `StillThere`,
`Formatted`): the mutex is the reader's from its first look at the node to its
last, even if it dies in between; a cursor is null or on the list, but for the
files that a CLEAR cut short (`lost`); and a cursor that passed its check before
the wait is still there after it, unless another read of the file came first
(`crossed`).  A file is lost from the moment the nodes are freed, under the mutex;
its own CLEAR ends that by the reset, unless a read of it is under way, which
would put the cursor back (`ToReset`).
The refinement is proved step by step: `WriteAdd` is the log's append,
`ReadStore` its read, emptying the list its clear; all else stutters.
What the abstract log promises, `ReadsInOrder`, then holds of the device.

**DriverLab**: `LifeInv`, `EchoInv` and `DiskInv`.

- `LifeInv` gives for every call of every init function what is held for sure
  (`Must`) and what may be held (`May`: memdemo looks at three allocations at
  once, twodev's `class_create` is not looked at); `TablesOK` and `ExitsOK`,
  proved call by call, say that each error path and exit function releases
  all that may be held, what works with a thing before the thing, and nothing
  twice.  Along an unwinding the rest of the list keeps fitting what is still held.
- `EchoInv`: no byte within the valid length is older than the last message that
  was written whole (`NoOldBytes`), and a file has read as many bytes as its position
  says.
- `DiskInv`: word by word, for every request in flight, what the disk holds now is allowed
  (`NowAllowed`), what an overlapping write is about to put there is allowed already
  (`Concurrent`), and what was moved was allowed (`GotAllowed`).  The middle one is
  what the property misses.

**KmsgLab**: one invariant per program.  Each survives the others' steps because all
they do to it is to add records (`RingGrows`: the log grows, the oldest moves on)
and to load and unload the module.  `Stretch` and `AtCursor` tie a sample to its
cursor; `CursorPassed` says that run_console has printed, or the ring has lost, all
its cursor passed; `PtyOrder` says at each place of run_pty's main which of its
insmods may have the module.

**ParamLab**: `ParamInv` (every parameter holds what its own parser takes; an
unloaded module has its defaults and nothing to tell), `SceneInv` (row by row, what
the probe has put back, is trying, or cannot read) and `DeployInv` (after a
successful `make clean` no older `.ko` is on the board).

**PtabLab**: `Places` is the experiments' invariant line by line: at each line of
`Lab` and `Disklab`, what the medium carries (`Written`, `Ruined`), what the kernel
knows of it (`Seen`, `Unseen`, unless a reread was refused), and that the loop device is
still the experiment's own.  `Alone`, `LoopsOwned` and `DisksOwned` keep
experiments apart: a loop device is bound by one that holds it, by one that
died, or until its last user closes it.

### What proving changed

- `KmsgRing`: in a ring of one record an initial log of two did not fit.
  `RInit` now says so (`Len(log) <= Cap`).
- `LabShows` was false on a disk whose size is 2048 sectors more than a multiple
  of 2^32: mkpt writes an entry of length 0 there.  It is exempted, and in section 4.
- Assumptions the models made silently have names now: `JunkAssumption`,
  `NamesAssumption`, `BoundsAssumption`.

### Only model-checked

The liveness properties `HitsGetSeen`, `UnloadFinishes` and `CallsReturn`: fairness
and ENABLED are out of the prover's reach.  `NodesAccounted` and the tagged records of a sample count
with Cardinality, where the proofs use the library's theorems on finite sets; no
definition they reach is RECURSIVE.

The proofs have one lemma per action, or per group of actions that touch the same
state, and under it one step per conjunct the action can disturb; the temporal
theorems combine them with PTL.

## 6. Not modelled

Details of parts that are modelled:

- Values returned by `bh_read`, the text of messages, truncation and short user
  buffers in `listmsg`, the bytes of `mmapbuf`'s pages.
- Failure of `kmalloc` and the like only where it changes state.
- The freed text of a stranded `irqbh` is taken to stay as it is.
- What a read of `listmsg` formats from a freed node, whose length field may be
  anything; nothing is claimed of what it returns.
- A `delete_module` that fails although log_levels is loaded
  (`run_console.c:62-66`): nobody ever uses that module, so that only a caller
  without privilege would see it.  `Rmmod` of `ModLoad` leaves none loaded.
- In `PtabLab` other programs hold devices open and close them, and never ask for a
  reread themselves.
- In `DriverLife` the counting handler of gpioirq (it is the first half of
  `IrqBh`'s `hard_handler`) and memdemo's fixed report; in `RamDisk` the page cache,
  merging and block sizes of the block layer; in `PtabLab` the subcommands that
  only read, and the GPT header, which is never written; in `RbFill` the peak, the
  byte counts and the record sizes; in `RunConsole` the `klogctl(CLEAR)`, which
  moves a mark nobody there reads; in `RunPty` what the pipe and the pty deliver;
  in `Deploy` the directories it makes and the `dmesg` it shows.
- `system("rmmod …")` in run_pty is taken to run rmmod; a remote command that
  deploy_module gave up on is taken to end with its connection.

Parts that are not:

- **sniff** (`04`): a loop of `recv` and `printf` with a counter that nothing but
  the loop reads.  (A `recv` that fails counts as one of the packets wanted.)
- **gpioblink** (`08`): its init requests a line, toggles it and frees it.  There is
  no state after it, and only its first call can fail.
- **hello, the licence templates** (`01`), **log_levels** (`02`): print.  What
  log_levels logs while it is loaded is `ModulePrints` of `ModLoad`.
- **deref** (`10`): reads a user pointer on purpose to show the oops.
- **stun_probe** (`tools/remote-access`): one process that sends requests in turn,
  each once, and judges the NAT by the answers.  A property of its verdict would
  be a property of a NAT that is not in the repository; within the program nothing
  is shared and nothing overlaps.  Reading it: a lost answer is taken for none
  after five seconds (`:58`), and then a server counts as dead or the verdict is
  "数据不足"; two mappings that differ in the port alone are called
  address-dependent, though a symmetric NAT with one public address gives
  exactly that; with one server only, the second request goes to another port of
  the same address, which an address-dependent mapping passes as well.
- **run_stun, fix_boot_order** (`tools/remote-access`): straight-line scripts.

## 7. Plan

Done in this order: the interrupt driver with its contract and proofs; the
message list with its abstract log; the two-instance device; the mapped buffer;
loading and unloading; the partition laboratory; the log ring; the data paths of
misc_echo and ramdisk; run_pty beside run_console; the parameters with their
probe and the deployment.

The safety properties of all of them were proved after that, driver by driver and
then experiment by experiment.

Left: theorems beyond the runs' properties, as `ReadsInOrderCorrect` is one.  Worth
stating are that `MmapBuf` implements `KModule` too (its hooks are the misc device
and the mappings), that `DriverLife`'s five drivers do but for `FailedLoadLeavesNothing`'s
leftovers, and an abstract disk that `RamDisk` implements.
