------------------------------- MODULE PtabLab -------------------------------
(***************************************************************************)
(* ptab_lab.c (chapter 00): what a disk carries in LBA 0, what the kernel  *)
(* remembers of it as a partition node, and the two scripted experiments,  *)
(* lab (an image file on a loop device) and disklab (a real, blank disk).  *)
(*                                                                         *)
(* Several experiments run at a time, each on an image or a disk of its    *)
(* own, but the loop devices are shared; other programs (udev, a mount)    *)
(* open disks and partitions as they appear; any system call may fail and  *)
(* end the program, which then leaves things as they are.                  *)
(***************************************************************************)
EXTENDS Naturals, Sequences, FiniteSets

CONSTANTS Procs,      \* processes that run experiments; each has an image file
          Loops,      \* loop devices
          Disks,      \* real disks
          DiskSize,   \* [Disks -> sectors]
          ImgSize,    \* sectors of an image: lab makes 64 MiB
          Align,      \* sectors before p1: 2048
          Mod,        \* how far a 32-bit sector count goes
          MaxStarts,  \* bound: experiments started in all
          MaxHeld     \* bound: devices other programs have open at a time

ASSUME SizesAssumption ==
  /\ Align \in Nat /\ Mod \in Nat /\ Align < Mod
  /\ ImgSize \in Nat /\ Align < ImgSize
  /\ DiskSize \in [Disks -> Nat] /\ \A d \in Disks : Align < DiskSize[d]

ASSUME BoundsAssumption == MaxStarts \in Nat /\ MaxHeld \in Nat

None == "none"

ASSUME NamesAssumption ==
  /\ Procs \cap Loops = {} /\ Procs \cap Disks = {} /\ Loops \cap Disks = {}
  /\ None \notin Procs \cup Loops \cup Disks

Devs  == Loops \cup Disks
Media == Procs \cup Disks     \* a process stands for its image file

VARIABLES media,   \* what each medium carries: its size and its LBA 0
          bound,   \* what each loop device is bound to
          view,    \* devices with a p1 known to the kernel: its node is in /dev
          held,    \* what other programs have open: "no", "disk" or "part"
          run,     \* the experiment each process is in
          starts,  \* experiments started so far
          left     \* (history) devices an experiment died on

vars == <<media, bound, view, held, run, starts, left>>

\* LBA 0: is 55AA there, and the sector count of entry 1 (0: empty).
Table(size, sig, nsect) == [size |-> size, sig |-> sig, nsect |-> nsect]
Blank(size) == Table(size, FALSE, 0)

Free == [file |-> None, scan |-> FALSE, last |-> FALSE]
Idle == [job |-> "idle", pc |-> 1, dev |-> None, blocked |-> FALSE]

\* The medium behind a device.
Medium(dev) == IF dev \in Disks THEN dev ELSE bound[dev].file

\* The kernel makes a p1 of a table with its signature and an entry that is
\* not empty and begins on the disk.
Recognised(m) == m.sig /\ m.nsect # 0 /\ Align < m.size

Init ==
  /\ media = [m \in Media |-> Blank(IF m \in Disks THEN DiskSize[m] ELSE 0)]
  /\ bound = [l \in Loops |-> Free]
  /\ view = {}
  /\ held = [d \in Devs |-> "no"]
  /\ run = [p \in Procs |-> Idle]
  /\ starts = 0
  /\ left = {}

------------------------------------------------------------------------------
(* The experiments.  "p1" and "none" are listings of /dev, named for what    *)
(* the text printed with them says they show.                                *)

\* cmd_lab
Lab ==
  << "dump", "mkimg", "get_free", "bind", "none", "mkpt", "reread", "none",
     "unbind", "get_free", "scanbind", "p1", "sig", "p1", "reread", "none",
     "mkpt", "reread", "p1", "entry", "reread", "none",
     "all", "reread", "none", "dump", "unbind", "none" >>

\* cmd_disklab
Disklab ==
  << "dump", "mkpt", "reread", "p1", "sig", "p1", "reread", "none", "dump",
     "all", "reread", "none", "dump" >>

Script(job) == CASE job = "lab" -> Lab
                 [] job = "disklab" -> Disklab
                 [] OTHER -> <<>>

Running(p) == run[p].pc <= Len(Script(run[p].job))
At(p, op)  == Running(p) /\ Script(run[p].job)[run[p].pc] = op

\* p is done with this step and goes to the next, its record otherwise as r.
Step(p, r) == run' = [run EXCEPT ![p] = [r EXCEPT !.pc = @ + 1]]

\* main: the experiment is named on the command line.  No two are run on the
\* same disk.
Start(p) ==
  /\ ~Running(p) /\ starts < MaxStarts
  /\ starts' = starts + 1
  /\ \/ run' = [run EXCEPT ![p] = [Idle EXCEPT !.job = "lab"]]
     \/ \E d \in Disks :
          /\ \A q \in Procs : Running(q) => run[q].dev # d
          /\ run' = [run EXCEPT ![p] = [Idle EXCEPT !.job = "disklab", !.dev = d]]
  /\ UNCHANGED <<media, bound, view, held, left>>

\* die: a system call of the step failed, or its read or write was short.
\* mkimg has emptied the file when its ftruncate fails.
Die(p) ==
  /\ Running(p)
  /\ run' = [run EXCEPT ![p].job = "died"]
  /\ left' = left \cup {d \in {run[p].dev} \cap Devs : Medium(d) \in {p, d}}
  /\ \/ UNCHANGED media
     \/ At(p, "mkimg") /\ media' = [media EXCEPT ![p] = Blank(0)]
  /\ UNCHANGED <<bound, view, held, starts>>

------------------------------------------------------------------------------
(* The subcommands *)

\* cmd_dump and cmd_lsdev only read.
Look(p) ==
  /\ At(p, "dump") \/ At(p, "p1") \/ At(p, "none")
  /\ Step(p, run[p])
  /\ UNCHANGED <<media, bound, view, held, starts, left>>

\* cmd_mkimg: the file is emptied and made as long as asked.
cmd_mkimg(p) ==
  /\ At(p, "mkimg")
  /\ media' = [media EXCEPT ![p] = Blank(ImgSize)]
  /\ Step(p, run[p])
  /\ UNCHANGED <<bound, view, held, starts, left>>

\* cmd_loop_attach: LOOP_CTL_GET_FREE names a free device and does not keep it.
GetFree(p) ==
  /\ At(p, "get_free")
  /\ \E l \in Loops : bound[l] = Free /\ Step(p, [run[p] EXCEPT !.dev = l])
  /\ UNCHANGED <<media, bound, view, held, starts, left>>

BindTo(p, l, scan) ==
  /\ bound' = [bound EXCEPT ![l] = [file |-> p, scan |-> scan, last |-> FALSE]]
  /\ view' = IF scan /\ Recognised(media[p]) THEN view \cup {l} ELSE view

\* (seeded fault: that LOOP_CONFIGURE finds the device taken goes unseen)
ConfigureUnchecked(p) ==
  LET l == run[p].dev IN
  /\ At(p, "bind") \/ At(p, "scanbind")
  /\ IF bound[l] = Free THEN BindTo(p, l, At(p, "scanbind"))
                        ELSE UNCHANGED <<bound, view>>
  /\ Step(p, [run[p] EXCEPT !.blocked = FALSE])
  /\ UNCHANGED <<media, held, starts, left>>

\* cmd_loop_attach: LOOP_CONFIGURE, with a scan of the table when asked for.
\* A device that was taken meanwhile is refused (Die).
Configure(p) ==
  LET l == run[p].dev IN
  /\ At(p, "bind") \/ At(p, "scanbind")
  /\ bound[l] = Free
  /\ BindTo(p, l, At(p, "scanbind"))
  /\ Step(p, [run[p] EXCEPT !.blocked = FALSE])
  /\ UNCHANGED <<media, held, starts, left>>

\* (seeded fault: the sectors before p1 are not taken off)
RestWhole(size) == size % Mod
\* (seeded fault: a count of 64 bits)
RestUncut(size) == size - Align

\* The rest of the disk, cut to 32 bits.
Rest(size) == (size + Mod - Align) % Mod

\* cmd_mkpt: a whole new table with one entry.
cmd_mkpt(p) ==
  LET m == Medium(run[p].dev) IN
  /\ At(p, "mkpt")
  /\ media' = [media EXCEPT ![m] = Table(@.size, TRUE, Rest(@.size))]
  /\ Step(p, run[p])
  /\ UNCHANGED <<bound, view, held, starts, left>>

\* (seeded fault: "all" clears no more than "sig")
CorruptedSigOnly(t, mode) == IF mode = "entry" THEN [t EXCEPT !.nsect = 0]
                                               ELSE [t EXCEPT !.sig = FALSE]

\* (seeded fault: "entry" leaves the count of sectors)
CorruptedType(t, mode) == CASE mode = "sig"   -> [t EXCEPT !.sig = FALSE]
                            [] mode = "entry" -> t
                            [] mode = "all"   -> Blank(t.size)

Corrupted(t, mode) == CASE mode = "sig"   -> [t EXCEPT !.sig = FALSE]
                        [] mode = "entry" -> [t EXCEPT !.nsect = 0]
                        [] mode = "all"   -> Blank(t.size)

\* cmd_corrupt: LBA 0 is read, damaged and written back.
cmd_corrupt(p) ==
  LET m == Medium(run[p].dev) IN
  /\ \E mode \in {"sig", "entry", "all"} :
       /\ At(p, mode)
       /\ media' = [media EXCEPT ![m] = Corrupted(@, mode)]
       /\ left' = IF mode = "all" THEN left \ (Disks \cap {m}) ELSE left
  /\ Step(p, run[p])
  /\ UNCHANGED <<bound, view, held, starts>>

\* cmd_reread: BLKRRPART is refused by a loop device without partscan and
\* while a partition is open; both are printed, neither ends the experiment.
cmd_reread(p) ==
  LET d == run[p].dev IN
  /\ At(p, "reread")
  /\ \/ d \in Loops /\ ~bound[d].scan
        /\ Step(p, run[p]) /\ UNCHANGED view
     \/ (d \in Loops => bound[d].scan) /\ held[d] = "part"
        /\ Step(p, [run[p] EXCEPT !.blocked = TRUE]) /\ UNCHANGED view
     \/ (d \in Loops => bound[d].scan) /\ held[d] # "part"
        /\ Step(p, [run[p] EXCEPT !.blocked = FALSE])
        /\ view' = IF Recognised(media[Medium(d)]) THEN view \cup {d}
                                                   ELSE view \ {d}
  /\ UNCHANGED <<media, bound, held, starts, left>>

\* cmd_loop_detach: with the device open elsewhere LOOP_CLR_FD succeeds, but
\* the device is only given up when the last one closes it.
cmd_loop_detach(p) ==
  LET l == run[p].dev IN
  /\ At(p, "unbind")
  /\ \/ held[l] = "no"
        /\ bound' = [bound EXCEPT ![l] = Free] /\ view' = view \ {l}
        /\ Step(p, run[p])
     \/ held[l] # "no"
        /\ bound' = [bound EXCEPT ![l].last = TRUE] /\ UNCHANGED view
        /\ Step(p, [run[p] EXCEPT !.blocked = TRUE])
  /\ UNCHANGED <<media, held, starts, left>>

------------------------------------------------------------------------------
(* Other programs *)

Open(d) ==
  /\ held[d] = "no" /\ (d \in Loops => bound[d] # Free)
  /\ Cardinality({e \in Devs : held[e] # "no"}) < MaxHeld
  /\ \/ held' = [held EXCEPT ![d] = "disk"]
     \/ d \in view /\ held' = [held EXCEPT ![d] = "part"]
  /\ UNCHANGED <<media, bound, view, run, starts, left>>

Close(d) ==
  /\ held[d] # "no"
  /\ held' = [held EXCEPT ![d] = "no"]
  /\ IF d \in Loops /\ bound[d].last
     THEN bound' = [bound EXCEPT ![d] = Free] /\ view' = view \ {d}
     ELSE UNCHANGED <<bound, view>>
  /\ UNCHANGED <<media, run, starts, left>>

Next ==
  \/ \E p \in Procs : \/ Start(p) \/ Die(p) \/ Look(p) \/ cmd_mkimg(p)
                      \/ GetFree(p) \/ Configure(p) \/ cmd_mkpt(p)
                      \/ cmd_corrupt(p) \/ cmd_reread(p) \/ cmd_loop_detach(p)
  \/ \E d \in Devs : Open(d) \/ Close(d)

Spec == Init /\ [][Next]_vars

------------------------------------------------------------------------------
(* Properties *)

\* The state keeps its types: a table is never longer than its field, nothing
\* but a device that is there has a partition or is open.
TypeOK ==
  /\ media \in [Media -> [size : Nat, sig : BOOLEAN, nsect : 0 .. Mod - 1]]
  /\ bound \in [Loops -> [file : Procs \cup {None}, scan : BOOLEAN, last : BOOLEAN]]
  /\ view \subseteq Devs
  /\ \A l \in view \cap Loops : bound[l].scan
  /\ held \in [Devs -> {"no", "disk", "part"}]
  /\ \A d \in Devs : (held[d] = "part" => d \in view)
                  /\ (d \in Loops /\ held[d] # "no" => bound[d] # Free)
  /\ run \in [Procs -> [job : {"idle", "lab", "disklab", "died"},
                        pc : Nat, dev : Devs \cup {None}, blocked : BOOLEAN]]
  /\ starts \in 0 .. MaxStarts
  /\ left \subseteq Devs

\* Each listing of /dev shows what the text beside it says (ptab_lab.c:417-506,
\* the quiz of the chapter's README): the partition survives its table until
\* the kernel rereads, and comes back with it.  The exceptions are an experiment
\* whose last reread or detach was held up by another program, and a medium whose
\* rest after p1's start is a multiple of 2^32 sectors: mkpt then writes an empty
\* entry (ptab_lab.c:157), and there is no p1 to see.
Shows(p) == run[p].dev \in view /\ Medium(run[p].dev) \in {p, run[p].dev}
EntryIsEmpty(p) == Rest(media[IF run[p].job = "lab" THEN p ELSE run[p].dev].size) = 0
LabShows ==
  \A p \in Procs :
    /\ At(p, "p1") => Shows(p) \/ run[p].blocked \/ EntryIsEmpty(p)
    /\ At(p, "none") => ~Shows(p) \/ run[p].blocked

\* An experiment writes to the image or the disk it was given and to no other,
\* whoever takes and leaves loop devices meanwhile (ptab_lab.c:328-360).
OwnMediumOnly ==
  [][\A m \in Media :
       media'[m] # media[m] =>
         \E p \in Procs : /\ run'[p] # run[p]
                          /\ m = IF run[p].job = "lab" THEN p ELSE run[p].dev]_vars

\* What the experiments leave behind.  A loop device in use belongs to one that
\* is still running, or to one that died (ptab_lab.c:436, :468), or waits for
\* its last user to close it.  A real disk carries a table only while disklab
\* runs on it, or after disklab died on it: the next one that gets through
\* wipes it ("盘回到实验前状态", ptab_lab.c:501).
LeftAsFound ==
  /\ \A l \in Loops :
       bound[l] # Free =>
         \/ l \in left \/ bound[l].last
         \/ \E p \in Procs : Running(p) /\ run[p].dev = l /\ bound[l].file = p
  /\ \A d \in Disks :
       media[d] = Blank(DiskSize[d]) \/ d \in left
         \/ \E p \in Procs : Running(p) /\ run[p].dev = d

\* The entry mkpt writes ends on the disk, whatever its size; it ends where the
\* disk ends when 32 bits can say so ("p1 占满剩余空间", ptab_lab.c:514).
EntryFits ==
  \A m \in Media :
    media[m].nsect # 0 =>
      /\ Align + media[m].nsect <= media[m].size
      /\ media[m].size - Align < Mod => Align + media[m].nsect = media[m].size
==============================================================================
