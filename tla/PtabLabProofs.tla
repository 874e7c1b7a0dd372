----------------------------- MODULE PtabLabProofs -----------------------------
(***************************************************************************)
(* Proofs about PtabLab, for any number of processes, loop devices and     *)
(* disks of any size, and any number of experiments.  What is known of an  *)
(* experiment at each line of its script is the inductive invariant.       *)
(***************************************************************************)
EXTENDS PtabLab, Integers, TLAPS

------------------------------------------------------------------------------
(* The inductive invariant *)

\* The medium an experiment is to work on, and what its script has made of it.
Own(p) == IF run[p].job = "lab" THEN p ELSE run[p].dev
Written(p) == Recognised(media[Own(p)]) \/ Rest(media[Own(p)].size) = 0
Ruined(p) == ~Recognised(media[Own(p)])

\* What the kernel knows of it, unless a reread was refused.
Seen(p) == run[p].blocked \/ Rest(media[Own(p)].size) = 0 \/ run[p].dev \in view
Unseen(p) == run[p].blocked \/ run[p].dev \notin view

\* lab has a loop device of its own between attach and detach.
Holds(p) == run[p].job = "lab" /\ run[p].pc \in 5 .. 9 \cup 12 .. 27

LabPlace(p) ==
  run[p].job = "lab" =>
    /\ run[p].pc \in 1 .. 29
    /\ run[p].pc >= 3 => media[p].size = ImgSize
    /\ run[p].pc >= 4 => run[p].dev \in Loops
    /\ Holds(p) => LET b == bound[run[p].dev] IN
                     b.file = p /\ ~b.last /\ (b.scan <=> run[p].pc >= 12)
    /\ run[p].pc \in 7 .. 13 \cup 18 .. 20 => Written(p)
    /\ run[p].pc \in {14, 15, 21, 24} => Ruined(p)
    /\ run[p].pc \in {12, 13, 14, 19} => Seen(p)
    /\ run[p].pc \in {16, 22, 25} => Unseen(p)
    /\ run[p].pc = 28 => Unseen(p) \/ bound[run[p].dev].file # p

DiskPlace(p) ==
  run[p].job = "disklab" =>
    /\ run[p].pc \in 1 .. 14
    /\ run[p].dev \in Disks
    /\ run[p].pc \in 3 .. 5 => Written(p)
    /\ run[p].pc \in {6, 7} => Ruined(p)
    /\ run[p].pc \in {4, 5, 6} => Seen(p)
    /\ run[p].pc \in {8, 12} => Unseen(p)
    /\ run[p].pc \in {11, 12, 13} => media[run[p].dev] = Blank(DiskSize[run[p].dev])

\* No two experiments run on one disk, and a disk keeps its size.
OnDisk(p) == run[p].job = "disklab" /\ run[p].pc < 14
Alone == \A p, q \in Procs : OnDisk(p) /\ OnDisk(q) /\ run[p].dev = run[q].dev => p = q
DisksKeepSize == \A d \in Disks : media[d].size = DiskSize[d]

\* Who has a loop device, and who answers for what is on a disk.
LoopsOwned == \A l \in Loops :
  bound[l] # Free => \/ l \in left \/ bound[l].last
                     \/ \E p \in Procs : Holds(p) /\ run[p].dev = l
DisksOwned == \A d \in Disks :
  media[d] # Blank(DiskSize[d]) => d \in left \/ \E p \in Procs : OnDisk(p) /\ run[p].dev = d

Places == \A p \in Procs : run[p].pc >= 1 /\ LabPlace(p) /\ DiskPlace(p)

IInv == TypeOK /\ Places /\ Alone /\ DisksKeepSize /\ LoopsOwned /\ DisksOwned /\ EntryFits

------------------------------------------------------------------------------
(* The scripts *)

\* cmd_lab, line by line.
LEMMA LabIs ==
  /\ Len(Lab) = 28
  /\ Lab[1] = "dump"      /\ Lab[2] = "mkimg"   /\ Lab[3] = "get_free" /\ Lab[4] = "bind"
  /\ Lab[5] = "none"      /\ Lab[6] = "mkpt"    /\ Lab[7] = "reread"   /\ Lab[8] = "none"
  /\ Lab[9] = "unbind"    /\ Lab[10] = "get_free" /\ Lab[11] = "scanbind"
  /\ Lab[12] = "p1"       /\ Lab[13] = "sig"    /\ Lab[14] = "p1"      /\ Lab[15] = "reread"
  /\ Lab[16] = "none"     /\ Lab[17] = "mkpt"   /\ Lab[18] = "reread"  /\ Lab[19] = "p1"
  /\ Lab[20] = "entry"    /\ Lab[21] = "reread" /\ Lab[22] = "none"    /\ Lab[23] = "all"
  /\ Lab[24] = "reread"   /\ Lab[25] = "none"   /\ Lab[26] = "dump"    /\ Lab[27] = "unbind"
  /\ Lab[28] = "none"
BY DEF Lab

\* cmd_disklab, line by line.
LEMMA DisklabIs ==
  /\ Len(Disklab) = 13
  /\ Disklab[1] = "dump"  /\ Disklab[2] = "mkpt"   /\ Disklab[3] = "reread"
  /\ Disklab[4] = "p1"    /\ Disklab[5] = "sig"    /\ Disklab[6] = "p1"
  /\ Disklab[7] = "reread" /\ Disklab[8] = "none"  /\ Disklab[9] = "dump"
  /\ Disklab[10] = "all"  /\ Disklab[11] = "reread" /\ Disklab[12] = "none"
  /\ Disklab[13] = "dump"
BY DEF Disklab

\* Where each subcommand stands in the scripts.
LabAt(op) == {k \in 1 .. 28 : Lab[k] = op}
DisklabAt(op) == {k \in 1 .. 13 : Disklab[k] = op}

\* The lines of cmd_lab with each subcommand.
LEMMA LabOps ==
  /\ LabAt("dump") = {1, 26}              /\ LabAt("mkimg") = {2}
  /\ LabAt("get_free") = {3, 10}          /\ LabAt("bind") = {4}
  /\ LabAt("scanbind") = {11}             /\ LabAt("none") = {5, 8, 16, 22, 25, 28}
  /\ LabAt("p1") = {12, 14, 19}           /\ LabAt("mkpt") = {6, 17}
  /\ LabAt("reread") = {7, 15, 18, 21, 24} /\ LabAt("unbind") = {9, 27}
  /\ LabAt("sig") = {13} /\ LabAt("entry") = {20} /\ LabAt("all") = {23}
<1>1. \A k \in 1 .. 28 : k \in {1, 2, 3, 4, 5, 6, 7, 8, 9, 10, 11, 12, 13, 14, 15, 16, 17, 18, 19,
                               20, 21, 22, 23, 24, 25, 26, 27, 28}
  OBVIOUS
<1> QED
  BY <1>1, LabIs DEF LabAt

\* The lines of cmd_disklab with each subcommand.
LEMMA DisklabOps ==
  /\ DisklabAt("dump") = {1, 9, 13} /\ DisklabAt("mkpt") = {2} /\ DisklabAt("reread") = {3, 7, 11}
  /\ DisklabAt("p1") = {4, 6} /\ DisklabAt("none") = {8, 12} /\ DisklabAt("sig") = {5}
  /\ DisklabAt("all") = {10}
  /\ \A op \in {"mkimg", "get_free", "bind", "scanbind", "unbind", "entry"} : DisklabAt(op) = {}
<1>1. \A k \in 1 .. 13 : k \in {1, 2, 3, 4, 5, 6, 7, 8, 9, 10, 11, 12, 13}
  OBVIOUS
<1> QED
  BY <1>1, DisklabIs DEF DisklabAt

\* Which script is run.
LEMMA ScriptIs ==
  /\ Script("lab") = Lab /\ Script("disklab") = Disklab
  /\ \A job \in {"idle", "died"} : Script(job) = <<>>
BY DEF Script

\* An experiment runs, and is at a subcommand, by the line it has come to.
LEMMA AtIs ==
  ASSUME TypeOK, Places, NEW p \in Procs
  PROVE  /\ run[p].pc \in Nat /\ run[p].pc >= 1
         /\ Running(p) <=> \/ run[p].job = "lab" /\ run[p].pc \in 1 .. 28
                           \/ run[p].job = "disklab" /\ run[p].pc \in 1 .. 13
         /\ \A op : At(p, op) <=> \/ run[p].job = "lab" /\ run[p].pc \in LabAt(op)
                                  \/ run[p].job = "disklab" /\ run[p].pc \in DisklabAt(op)
<1> DEFINE k == run[p].pc
           job == run[p].job
<1>1. k \in Nat /\ k >= 1 /\ job \in {"idle", "lab", "disklab", "died"}
  BY DEF TypeOK, Places
<1>2. Len(<<>>) = 0
  OBVIOUS
<1> HIDE DEF k, job
<1>3. Running(p) <=> k <= Len(Script(job))
  BY DEF Running, k, job
<1>4. Running(p) <=> \/ job = "lab" /\ k \in 1 .. 28
                     \/ job = "disklab" /\ k \in 1 .. 13
  <2>1. CASE job = "lab"
    <3>1. Len(Script(job)) = 28
      BY <2>1, ScriptIs, LabIs
    <3>2. k <= 28 <=> k \in 1 .. 28
      BY <1>1
    <3>3. Running(p) <=> k <= 28
      BY <3>1, <1>3
    <3>4. CASE k \in 1 .. 28
      BY <2>1, <3>2, <3>3, <3>4
    <3>5. CASE k \notin 1 .. 28
      BY <2>1, <3>2, <3>3, <3>5
    <3> QED
      BY <3>4, <3>5
  <2>2. CASE job = "disklab"
    <3>1. Len(Script(job)) = 13
      BY <2>2, ScriptIs, DisklabIs
    <3>2. k <= 13 <=> k \in 1 .. 13
      BY <1>1
    <3>3. Running(p) <=> k <= 13
      BY <3>1, <1>3
    <3>4. CASE k \in 1 .. 13
      BY <2>2, <3>2, <3>3, <3>4
    <3>5. CASE k \notin 1 .. 13
      BY <2>2, <3>2, <3>3, <3>5
    <3> QED
      BY <3>4, <3>5
  <2>3. CASE job \in {"idle", "died"}
    <3>1. Len(Script(job)) = 0
      BY <2>3, <1>2, ScriptIs
    <3> QED
      BY <2>3, <3>1, <1>1, <1>3
  <2> QED
    BY <2>1, <2>2, <2>3, <1>1
<1>5. ASSUME NEW op
      PROVE  At(p, op) <=> \/ job = "lab" /\ k \in LabAt(op)
                           \/ job = "disklab" /\ k \in DisklabAt(op)
  <2>1. At(p, op) <=> Running(p) /\ Script(job)[k] = op
    BY DEF At, k, job
  <2>2. CASE job = "lab"
    BY <2>1, <2>2, <1>4, ScriptIs DEF LabAt
  <2>3. CASE job = "disklab"
    BY <2>1, <2>3, <1>4, ScriptIs DEF DisklabAt
  <2>4. CASE job \notin {"lab", "disklab"}
    BY <2>1, <2>4, <1>4
  <2> QED
    BY <2>2, <2>3, <2>4
<1> QED
  BY <1>1, <1>4, <1>5 DEF k, job

------------------------------------------------------------------------------
(* Tables and their arithmetic *)

\* A count cut to 32 bits is no larger than what is to be said, and is that
\* when it fits.
LEMMA RestIs ==
  ASSUME NEW size \in Nat, Align < size
  PROVE  /\ Rest(size) \in 0 .. Mod - 1
         /\ Align + Rest(size) <= size
         /\ size - Align < Mod => Align + Rest(size) = size
<1> DEFINE whole == size + Mod - Align
           r == whole % Mod
           k == whole \div Mod
<1>1. Align \in Nat /\ Mod \in Nat /\ Align < Mod /\ whole \in Nat /\ whole > Mod
  BY SizesAssumption
<1>2. r \in 0 .. Mod - 1 /\ k \in Int /\ whole = Mod * k + r
  BY <1>1
<1> HIDE DEF r, k, whole
<1>3. k >= 1
  BY <1>1, <1>2
<1>4. Mod * k >= Mod
  BY <1>1, <1>2, <1>3
<1>5. Mod * k = Mod \/ Mod * k >= Mod + Mod
  <2>1. CASE k = 1
    BY <2>1, <1>1
  <2>2. CASE k >= 2
    BY <2>2, <1>1, <1>2
  <2> QED
    BY <2>1, <2>2, <1>2, <1>3
<1> DEFINE Times == Mod * k
<1>6. Times \in Int /\ whole = Times + r /\ Times >= Mod /\ (Times = Mod \/ Times >= Mod + Mod)
  BY <1>1, <1>2, <1>4, <1>5
<1> HIDE DEF Times
<1>7. Align + r <= size /\ (size - Align < Mod => Align + r = size)
  BY <1>1, <1>2, <1>6 DEF whole
<1> QED
  BY <1>2, <1>7 DEF Rest, r, whole

\* The fields of the records.
LEMMA TypeFields ==
  ASSUME TypeOK
  PROVE  /\ \A m \in Media : /\ media[m].size \in Nat /\ media[m].sig \in BOOLEAN
                             /\ media[m].nsect \in 0 .. Mod - 1
         /\ \A l \in Loops : /\ bound[l].file \in Procs \cup {None}
                             /\ bound[l].scan \in BOOLEAN /\ bound[l].last \in BOOLEAN
         /\ \A p \in Procs : /\ run[p].job \in {"idle", "lab", "disklab", "died"}
                             /\ run[p].pc \in Nat /\ run[p].dev \in Devs \cup {None}
                             /\ run[p].blocked \in BOOLEAN
BY DEF TypeOK

------------------------------------------------------------------------------
(* What a step of one experiment leaves to the others *)

Records == [job : {"idle", "lab", "disklab", "died"}, pc : Nat,
            dev : Devs \cup {None}, blocked : BOOLEAN]

\* A step changes the record of its own experiment.
LEMMA StepIs ==
  ASSUME TypeOK, NEW p \in Procs, NEW r \in Records, Step(p, r)
  PROVE  /\ run' \in [Procs -> Records]
         /\ \A q \in Procs \ {p} : run'[q] = run[q]
         /\ run'[p].pc = r.pc + 1 /\ run'[p].job = r.job
         /\ run'[p].dev = r.dev /\ run'[p].blocked = r.blocked
<1> DEFINE new == [r EXCEPT !.pc = @ + 1]
<1>1. run' = [run EXCEPT ![p] = new] /\ run \in [Procs -> Records]
  BY DEF Step, TypeOK, Records
<1>2. new \in Records /\ new.pc = r.pc + 1 /\ new.job = r.job /\ new.dev = r.dev
      /\ new.blocked = r.blocked
  BY DEF Records
<1> HIDE DEF new
<1> QED
  BY <1>1, <1>2

\* An experiment writes its own medium; it takes or gives back a loop device
\* that nobody had or that is its own; and the kernel's view changes of its own
\* disk or of such a loop device.
Acts(p) == run[p].job = "lab" \/ OnDisk(p)
Mine(l, p) == l \in Loops /\ l = run[p].dev /\ bound[l].file \in {p, None}
Effects(p) ==
  /\ \A q \in Procs \ {p} : run'[q] = run[q]
  /\ \A m \in Media : media'[m] = media[m] \/ (Acts(p) /\ m = Own(p))
  /\ \A l \in Loops : \/ bound'[l] = bound[l]
                      \/ Mine(l, p) /\ bound'[l].file \in {p, None}
  /\ \A d \in Devs : \/ d \in view' <=> d \in view
                     \/ OnDisk(p) /\ d = run[p].dev
                     \/ Mine(d, p) /\ (d \in view' => bound'[d].file = p)

\* Files, loop devices and disks are different things.
LEMMA DevsApart ==
  /\ \A p \in Procs, d \in Devs : p # d
  /\ \A l \in Loops, d \in Disks : l # d
  /\ None \notin Media /\ None \notin Devs
BY NamesAssumption DEF Media, Devs

\* What has to stay for an experiment's place to stay.
Stays(p) ==
  /\ run'[p] = run[p]
  /\ run[p].job = "lab" => media'[p] = media[p]
  /\ OnDisk(p) => media'[run[p].dev] = media[run[p].dev]
  /\ Holds(p) => bound'[run[p].dev] = bound[run[p].dev]
  /\ Holds(p) \/ OnDisk(p) => (run[p].dev \in view' <=> run[p].dev \in view)
  /\ run[p].job = "lab" /\ run[p].pc = 28 /\ (Unseen(p) \/ bound[run[p].dev].file # p)
       => Unseen(p)' \/ bound'[run[p].dev].file # p

\* Then it does.
LEMMA PlaceStays ==
  ASSUME TypeOK, Places, NEW p \in Procs, Stays(p)
  PROVE  run'[p].pc >= 1 /\ LabPlace(p)' /\ DiskPlace(p)'
<1>1. run'[p] = run[p] /\ run[p].pc >= 1 /\ run[p].pc \in Nat /\ LabPlace(p) /\ DiskPlace(p)
  BY AtIs DEF Stays, Places
<1>2. LabPlace(p)'
  <2> SUFFICES ASSUME run[p].job = "lab" PROVE LabPlace(p)'
    BY <1>1 DEF LabPlace
  <2>1. Own(p) = p /\ Own(p)' = p /\ media'[p] = media[p]
    BY <1>1 DEF Own, Stays
  <2>2. (Written(p)' <=> Written(p)) /\ (Ruined(p)' <=> Ruined(p))
    BY <2>1 DEF Written, Ruined
  <2>3. Holds(p)' <=> Holds(p)
    BY <1>1 DEF Holds
  <2>4. Holds(p) => bound'[run[p].dev] = bound[run[p].dev]
                    /\ (Seen(p)' <=> Seen(p)) /\ (Unseen(p)' <=> Unseen(p))
    BY <1>1, <2>1 DEF Stays, Seen, Unseen
  <2>5. \A k \in {12, 13, 14, 16, 19, 22, 25} : run[p].pc = k => Holds(p)
    BY DEF Holds
  <2>6. run'[p].pc = 28 => Unseen(p)' \/ bound'[run'[p].dev].file # p
    BY <1>1 DEF Stays, LabPlace
  <2> QED
    BY <1>1, <2>1, <2>2, <2>3, <2>4, <2>5, <2>6 DEF LabPlace
<1>3. DiskPlace(p)'
  <2> SUFFICES ASSUME run[p].job = "disklab" PROVE DiskPlace(p)'
    BY <1>1 DEF DiskPlace
  <2>1. CASE OnDisk(p)
    <3>1. Own(p) = run[p].dev /\ Own(p)' = run[p].dev
          /\ media'[run[p].dev] = media[run[p].dev]
          /\ (run[p].dev \in view' <=> run[p].dev \in view)
      BY <1>1, <2>1 DEF Own, Stays
    <3>2. (Written(p)' <=> Written(p)) /\ (Ruined(p)' <=> Ruined(p))
          /\ (Seen(p)' <=> Seen(p)) /\ (Unseen(p)' <=> Unseen(p))
      BY <1>1, <3>1 DEF Written, Ruined, Seen, Unseen
    <3> QED
      BY <1>1, <3>1, <3>2 DEF DiskPlace
  <2>2. CASE ~OnDisk(p)
    <3>1. run[p].pc = 14 /\ run[p].dev \in Disks
      BY <1>1, <2>2 DEF OnDisk, DiskPlace
    <3> QED
      BY <1>1, <3>1 DEF DiskPlace
  <2> QED
    BY <2>1, <2>2
<1> QED
  BY <1>1, <1>2, <1>3

\* What one experiment does leaves the place of every other.
LEMMA OthersStay ==
  ASSUME TypeOK, Places, Alone, NEW p \in Procs, Effects(p), NEW q \in Procs \ {p}
  PROVE  Stays(q)
<1>1. run'[q] = run[q] /\ LabPlace(q) /\ DiskPlace(q) /\ DiskPlace(p) /\ p # q
  BY DEF Effects, Places
<1>2. OnDisk(p) => run[p].dev \in Disks
  BY <1>1 DEF OnDisk, DiskPlace
<1>3. OnDisk(q) => run[q].dev \in Disks /\ ~(OnDisk(p) /\ run[q].dev = run[p].dev)
  BY <1>1 DEF OnDisk, DiskPlace, Alone
<1>4. Acts(p) => (Own(p) = p) \/ (OnDisk(p) /\ Own(p) = run[p].dev)
  <2>1. CASE run[p].job = "lab"
    BY <2>1 DEF Own
  <2>2. CASE OnDisk(p)
    BY <2>2 DEF Own, OnDisk
  <2> QED
    BY <2>1, <2>2 DEF Acts
<1>0. \A m \in Media : m # p /\ ~(OnDisk(p) /\ m = run[p].dev) => media'[m] = media[m]
  BY <1>4 DEF Effects
<1>5. run[q].job = "lab" => media'[q] = media[q]
  <2>1. q \in Media /\ (OnDisk(p) => q # run[p].dev)
    BY <1>2, DevsApart DEF Media, Devs
  <2> QED
    BY <1>1, <1>0, <2>1
<1>6. OnDisk(q) => media'[run[q].dev] = media[run[q].dev]
  <2>1. OnDisk(q) => run[q].dev \in Media /\ run[q].dev # p
    BY <1>3, DevsApart DEF Media, Devs
  <2> QED
    BY <1>3, <1>0, <2>1
<1>7. Holds(q) => run[q].dev \in Loops /\ bound[run[q].dev].file = q
  BY <1>1 DEF Holds, LabPlace
<1>8. q # None
  BY DevsApart DEF Media
<1>9. Holds(q) => bound'[run[q].dev] = bound[run[q].dev]
  BY <1>1, <1>7, <1>8 DEF Effects, Mine
<1>10. Holds(q) \/ OnDisk(q) => (run[q].dev \in view' <=> run[q].dev \in view)
  BY <1>1, <1>2, <1>3, <1>7, <1>8, DevsApart DEF Effects, Mine, Devs
<1>11. ASSUME run[q].job = "lab", run[q].pc = 28, Unseen(q) \/ bound[run[q].dev].file # q
       PROVE  Unseen(q)' \/ bound'[run[q].dev].file # q
  <2>1. run[q].dev \in Loops /\ run[q].dev \in Devs
    BY <1>1, <1>11 DEF LabPlace, Devs
  <2>2. CASE bound[run[q].dev].file # q
    BY <1>1, <1>8, <2>1, <2>2 DEF Effects
  <2>3. CASE Unseen(q)
    BY <1>1, <1>2, <2>1, <2>3, DevsApart DEF Effects, Unseen
  <2> QED
    BY <1>11, <2>2, <2>3
<1> QED
  BY <1>1, <1>5, <1>6, <1>9, <1>10, <1>11 DEF Stays

\* So the places are kept when the one who acts has its own.
LEMMA PlacesKept ==
  ASSUME TypeOK, Places, Alone, NEW p \in Procs, Effects(p),
         run'[p].pc >= 1, LabPlace(p)', DiskPlace(p)'
  PROVE  Places'
BY OthersStay, PlaceStays DEF Places

------------------------------------------------------------------------------
(* Each subcommand does no more than that, and leaves the experiment in the    *)
(* place its script has come to.                                               *)

Acted(p) == Effects(p) /\ run'[p].pc >= 1 /\ LabPlace(p)' /\ DiskPlace(p)'

\* The steps that only read, and change the record of the experiment alone.
LEMMA LookActs ==
  ASSUME IInv, NEW p \in Procs, Look(p)
  PROVE  Acted(p)
<1> DEFINE k == run[p].pc
<1>1. TypeOK /\ LabPlace(p) /\ DiskPlace(p) /\ run[p] \in Records /\ k \in Nat /\ k >= 1
  BY AtIs DEF IInv, Places, TypeOK, Records
<1>2. Step(p, run[p]) /\ UNCHANGED <<media, bound, view>>
  BY DEF Look
<1>3. /\ \A q \in Procs \ {p} : run'[q] = run[q]
      /\ run'[p].pc = k + 1 /\ run'[p].job = run[p].job
      /\ run'[p].dev = run[p].dev /\ run'[p].blocked = run[p].blocked
  BY <1>1, <1>2, StepIs
<1>4. Effects(p)
  <2>1. media' = media /\ bound' = bound /\ view' = view
    BY <1>2
  <2>2. \A d \in Devs : d \in view' <=> d \in view
    BY <2>1
  <2> QED
    BY <1>3, <2>1, <2>2 DEF Effects
<1>5. Own(p)' = Own(p)
  BY <1>3 DEF Own
<1>6. (Written(p)' <=> Written(p)) /\ (Ruined(p)' <=> Ruined(p))
      /\ (Seen(p)' <=> Seen(p)) /\ (Unseen(p)' <=> Unseen(p))
  BY <1>2, <1>3, <1>5 DEF Written, Ruined, Seen, Unseen
<1>7. \/ run[p].job = "lab" /\ k \in {1, 26, 5, 8, 16, 22, 25, 28, 12, 14, 19}
      \/ run[p].job = "disklab" /\ k \in {1, 9, 13, 4, 6, 8, 12}
  BY <1>1, AtIs, LabOps, DisklabOps DEF Look, IInv
<1>8. LabPlace(p)'
  <2> SUFFICES ASSUME run[p].job = "lab" PROVE LabPlace(p)'
    BY <1>3 DEF LabPlace
  <2>1. k \in {1, 26, 5, 8, 16, 22, 25, 28, 12, 14, 19}
    BY <1>7
  <2>2. Holds(p)' => Holds(p)
    BY <1>3, <2>1 DEF Holds
  <2> QED
    BY <1>1, <1>2, <1>3, <1>6, <2>1, <2>2 DEF LabPlace
<1>9. DiskPlace(p)'
  BY <1>1, <1>2, <1>3, <1>6, <1>7 DEF DiskPlace
<1> QED
  BY <1>1, <1>3, <1>4, <1>8, <1>9 DEF Acted

\* What an experiment at a line of its script is known to have.
LEMMA WhereItIs ==
  ASSUME IInv, NEW p \in Procs
  PROVE  /\ TypeOK /\ LabPlace(p) /\ DiskPlace(p) /\ run[p] \in Records
         /\ run[p].pc \in Nat /\ run[p].pc >= 1 /\ run[p].blocked \in BOOLEAN
         /\ run[p].job = "lab" \/ OnDisk(p) => Own(p) \in Media
         /\ OnDisk(p) => Own(p) = run[p].dev /\ run[p].dev \in Disks /\ run[p].dev \in Devs
         /\ OnDisk(p) => Medium(run[p].dev) = Own(p)
         /\ Holds(p) => /\ run[p].dev \in Loops /\ bound[run[p].dev].file = p
                        /\ Own(p) = p /\ Medium(run[p].dev) = Own(p)
<1>1. TypeOK /\ LabPlace(p) /\ DiskPlace(p) /\ run[p] \in Records /\ run[p].pc \in Nat /\ run[p].pc >= 1
      /\ run[p].blocked \in BOOLEAN
  BY AtIs DEF IInv, Places, TypeOK, Records
<1>2. run[p].job = "lab" => Own(p) = p
  BY DEF Own
<1>3. ASSUME OnDisk(p)
      PROVE  /\ Own(p) = run[p].dev /\ run[p].dev \in Disks /\ run[p].dev \in Devs
             /\ Medium(run[p].dev) = Own(p)
  BY <1>1, <1>3 DEF OnDisk, DiskPlace, Own, Devs, Medium
<1>4. ASSUME Holds(p)
      PROVE  /\ run[p].dev \in Loops /\ bound[run[p].dev].file = p
             /\ Own(p) = p /\ Medium(run[p].dev) = Own(p)
  <2>1. run[p].job = "lab" /\ run[p].dev \in Loops /\ bound[run[p].dev].file = p
    BY <1>1, <1>4 DEF Holds, LabPlace
  <2> QED
    BY <1>2, <2>1, DevsApart DEF Medium
<1>5. run[p].job = "lab" \/ OnDisk(p) => Own(p) \in Media
  BY <1>2, <1>3 DEF Media
<1> QED
  BY <1>1, <1>3, <1>4, <1>5

\* cmd_mkimg.
LEMMA mkimgActs ==
  ASSUME IInv, NEW p \in Procs, cmd_mkimg(p)
  PROVE  Acted(p)
<1>1. /\ TypeOK /\ LabPlace(p) /\ run[p] \in Records /\ Step(p, run[p])
      /\ media' = [media EXCEPT ![p] = Blank(ImgSize)] /\ p \in Media
      /\ bound' = bound /\ view' = view
  BY WhereItIs DEF cmd_mkimg, Media
<1>2. run[p].job = "lab" /\ run[p].pc = 2
  BY <1>1, AtIs, LabOps, DisklabOps DEF cmd_mkimg, IInv
<1>3. /\ \A q \in Procs \ {p} : run'[q] = run[q]
      /\ run'[p].pc = 3 /\ run'[p].job = "lab"
  BY <1>1, <1>2, StepIs
<1>4. media'[p].size = ImgSize /\ \A m \in Media \ {p} : media'[m] = media[m]
  BY <1>1 DEF TypeOK, Blank, Table
<1>5. Effects(p)
  <2>1. Acts(p) /\ Own(p) = p
    BY <1>2 DEF Acts, Own
  <2>2. \A d \in Devs : d \in view' <=> d \in view
    BY <1>1
  <2> QED
    BY <1>1, <1>3, <1>4, <2>1, <2>2 DEF Effects
<1> QED
  BY <1>3, <1>4, <1>5 DEF Acted, LabPlace, DiskPlace, Holds

\* LOOP_CTL_GET_FREE: the device is named, and not yet one's own.
LEMMA GetFreeActs ==
  ASSUME IInv, NEW p \in Procs, GetFree(p)
  PROVE  Acted(p)
<1>1. /\ TypeOK /\ LabPlace(p) /\ run[p] \in Records
      /\ media' = media /\ bound' = bound /\ view' = view
  BY WhereItIs DEF GetFree
<1>2. run[p].job = "lab" /\ run[p].pc \in {3, 10}
  BY <1>1, AtIs, LabOps, DisklabOps DEF GetFree, IInv
<1>3. PICK l \in Loops : Step(p, [run[p] EXCEPT !.dev = l])
  BY DEF GetFree
<1> DEFINE r == [run[p] EXCEPT !.dev = l]
<1>4. r \in Records /\ r.pc = run[p].pc /\ r.job = "lab" /\ r.dev = l
  BY <1>1, <1>2 DEF Records, Devs
<1> HIDE DEF r
<1>5. /\ \A q \in Procs \ {p} : run'[q] = run[q]
      /\ run'[p].pc = run[p].pc + 1 /\ run'[p].job = "lab" /\ run'[p].dev = l
  BY <1>1, <1>3, <1>4, StepIs DEF r
<1>6. Effects(p)
  <2>1. \A d \in Devs : d \in view' <=> d \in view
    BY <1>1
  <2> QED
    BY <1>1, <1>5, <2>1 DEF Effects
<1>7. LabPlace(p)'
  <2>1. run[p].pc = 10 => Written(p)'
    BY <1>1, <1>2, <1>5 DEF LabPlace, Written, Own
  <2> QED
    BY <1>1, <1>2, <1>5, <2>1 DEF LabPlace, Holds
<1> QED
  BY <1>2, <1>5, <1>6, <1>7 DEF Acted, DiskPlace

\* LOOP_CONFIGURE: the device is one's own, and with a scan p1 shows.
LEMMA ConfigureActs ==
  ASSUME IInv, NEW p \in Procs, Configure(p)
  PROVE  Acted(p)
<1> DEFINE l == run[p].dev
           scan == At(p, "scanbind")
           r == [run[p] EXCEPT !.blocked = FALSE]
<1>1. /\ TypeOK /\ LabPlace(p) /\ run[p] \in Records
      /\ media' = media /\ Step(p, r) /\ bound[l] = Free
      /\ bound' = [bound EXCEPT ![l] = [file |-> p, scan |-> scan, last |-> FALSE]]
      /\ view' = IF scan /\ Recognised(media[p]) THEN view \cup {l} ELSE view
  BY WhereItIs DEF Configure, BindTo
<1>2. run[p].job = "lab" /\ run[p].pc \in {4, 11} /\ (scan <=> run[p].pc = 11)
  BY <1>1, AtIs, LabOps, DisklabOps DEF Configure, IInv
<1>3. l \in Loops /\ l \in Devs /\ l \notin Disks
  BY <1>1, <1>2, DevsApart DEF LabPlace, Devs
<1>4. r \in Records /\ r.pc = run[p].pc /\ r.job = "lab" /\ r.dev = l /\ r.blocked = FALSE
  BY <1>1, <1>2 DEF Records
<1> HIDE DEF r
<1>5. /\ \A q \in Procs \ {p} : run'[q] = run[q]
      /\ run'[p].pc = run[p].pc + 1 /\ run'[p].job = "lab" /\ run'[p].dev = l
      /\ run'[p].blocked = FALSE
  BY <1>1, <1>4, StepIs
<1>6. /\ bound'[l].file = p /\ bound'[l].scan = scan /\ bound'[l].last = FALSE
      /\ \A j \in Loops \ {l} : bound'[j] = bound[j]
  BY <1>1, <1>3 DEF TypeOK
<1>7. Effects(p)
  <2>1. Mine(l, p)
    BY <1>1, <1>3 DEF Mine, Free
  <2>2. \A d \in Devs \ {l} : d \in view' <=> d \in view
    BY <1>1
  <2> QED
    BY <1>1, <1>3, <1>5, <1>6, <2>1, <2>2 DEF Effects
<1>8. LabPlace(p)'
  <2>1. run'[p].pc = 5 \/ run'[p].pc = 12
    BY <1>2, <1>5
  <2>2. run'[p].pc = 12 <=> scan
    BY <1>2, <1>5
  <2>3. media'[p].size = ImgSize /\ Own(p)' = p /\ Own(p) = p
    BY <1>1, <1>2, <1>5 DEF LabPlace, Own
  <2>4. run'[p].pc = 12 => Written(p)' /\ Seen(p)'
    <3>1. ASSUME run'[p].pc = 12 PROVE Written(p)' /\ Seen(p)'
      <4>1. Written(p) /\ scan
        BY <1>1, <1>2, <2>2, <3>1 DEF LabPlace
      <4>2. Written(p)'
        BY <1>1, <2>3, <4>1 DEF Written
      <4>3. CASE Rest(media[p].size) = 0
        BY <1>1, <2>3, <4>2, <4>3 DEF Seen
      <4>4. CASE Recognised(media[p])
        BY <1>1, <1>5, <4>1, <4>2, <4>4 DEF Seen
      <4> QED
        BY <2>3, <4>1, <4>3, <4>4 DEF Written
    <3> QED
      BY <3>1
  <2>5. Holds(p)' /\ (bound'[l].scan <=> run'[p].pc >= 12) /\ ~bound'[l].last
    BY <1>5, <1>6, <2>1, <2>2 DEF Holds
  <2> QED
    BY <1>3, <1>5, <1>6, <2>1, <2>3, <2>4, <2>5 DEF LabPlace
<1> QED
  BY <1>2, <1>5, <1>7, <1>8 DEF Acted, DiskPlace

\* cmd_mkpt: the table is there, or its entry is empty.
LEMMA mkptActs ==
  ASSUME IInv, NEW p \in Procs, cmd_mkpt(p)
  PROVE  Acted(p)
<1> DEFINE m == Own(p)
           size == media[m].size
<1>1. /\ TypeOK /\ LabPlace(p) /\ DiskPlace(p) /\ run[p] \in Records /\ Step(p, run[p])
      /\ bound' = bound /\ view' = view
      /\ media' = [media EXCEPT ![Medium(run[p].dev)] = Table(@.size, TRUE, Rest(@.size))]
  BY WhereItIs DEF cmd_mkpt
<1>2. \/ run[p].job = "lab" /\ run[p].pc \in {6, 17}
      \/ run[p].job = "disklab" /\ run[p].pc = 2
  BY <1>1, AtIs, LabOps, DisklabOps DEF cmd_mkpt, IInv
<1>3. Medium(run[p].dev) = m /\ m \in Media
  <2>1. Holds(p) \/ OnDisk(p)
    BY <1>2 DEF Holds, OnDisk
  <2>2. CASE Holds(p)
    BY <2>2, WhereItIs DEF Holds
  <2>3. CASE OnDisk(p)
    BY <2>3, WhereItIs
  <2> QED
    BY <2>1, <2>2, <2>3
<1>4. size \in Nat /\ Align < size
  <2>1. CASE run[p].job = "lab"
    BY <1>1, <1>2, <2>1, SizesAssumption DEF LabPlace, Own
  <2>2. CASE run[p].job = "disklab"
    BY <1>1, <2>2, SizesAssumption DEF DiskPlace, Own, IInv, DisksKeepSize
  <2> QED
    BY <1>2, <2>1, <2>2
<1>5. /\ \A q \in Procs \ {p} : run'[q] = run[q]
      /\ run'[p].pc = run[p].pc + 1 /\ run'[p].job = run[p].job
      /\ run'[p].dev = run[p].dev /\ run'[p].blocked = run[p].blocked
  BY <1>1, StepIs
<1>6. /\ media'[m].size = size /\ media'[m].sig = TRUE /\ media'[m].nsect = Rest(size)
      /\ \A n \in Media \ {m} : media'[n] = media[n]
  BY <1>1, <1>3 DEF TypeOK, Table
<1>7. Own(p)' = m
  BY <1>5 DEF Own
<1> HIDE DEF m
<1>8. Effects(p)
  <2>1. Acts(p)
    BY <1>2 DEF Acts, OnDisk
  <2>2. \A d \in Devs : d \in view' <=> d \in view
    BY <1>1
  <2> QED
    BY <1>1, <1>5, <1>6, <2>1, <2>2 DEF Effects, m
<1>9. Written(p)'
  <2>1. CASE Rest(size) = 0
    BY <1>6, <1>7, <2>1 DEF Written
  <2>2. CASE Rest(size) # 0
    BY <1>4, <1>6, <1>7, <2>2 DEF Written, Recognised
  <2> QED
    BY <2>1, <2>2
<1>10. LabPlace(p)'
  <2> SUFFICES ASSUME run[p].job = "lab" PROVE LabPlace(p)'
    BY <1>5 DEF LabPlace
  <2>1. run[p].pc \in {6, 17} /\ m = p
    BY <1>2 DEF m, Own
  <2>2. Holds(p) /\ run'[p].pc \in {7, 18} /\ run'[p].job = "lab"
    BY <1>5, <2>1 DEF Holds
  <2>3. media'[p].size = ImgSize /\ run'[p].dev \in Loops
    <3>1. media[p].size = ImgSize /\ run[p].dev \in Loops
      BY <1>1, <2>1 DEF LabPlace
    <3> QED
      BY <1>5, <1>6, <2>1, <3>1
  <2>4. LET b == bound'[run'[p].dev] IN
          b.file = p /\ ~b.last /\ (b.scan <=> run'[p].pc >= 12)
    BY <1>1, <1>5, <2>1, <2>2 DEF LabPlace
  <2> QED
    BY <1>9, <2>2, <2>3, <2>4 DEF LabPlace
<1>11. DiskPlace(p)'
  <2> SUFFICES ASSUME run[p].job = "disklab" PROVE DiskPlace(p)'
    BY <1>5 DEF DiskPlace
  <2>1. run[p].pc = 2 /\ run'[p].pc = 3 /\ run'[p].dev \in Disks
    BY <1>1, <1>2, <1>5 DEF DiskPlace
  <2> QED
    BY <1>9, <2>1 DEF DiskPlace
<1> QED
  BY <1>1, <1>2, <1>5, <1>8, <1>10, <1>11 DEF Acted

\* What damage leaves of a table.
LEMMA CorruptedIs ==
  ASSUME NEW t \in [size : Nat, sig : BOOLEAN, nsect : 0 .. Mod - 1],
         NEW mode \in {"sig", "entry", "all"}
  PROVE  LET c == Corrupted(t, mode) IN
         /\ c \in [size : Nat, sig : BOOLEAN, nsect : 0 .. Mod - 1]
         /\ c.size = t.size /\ ~Recognised(c) /\ (c.nsect = t.nsect \/ c.nsect = 0)
         /\ mode = "all" => c = Blank(t.size)
<1>1. 0 \in 0 .. Mod - 1
  BY SizesAssumption
<1> QED
  BY <1>1 DEF Corrupted, Blank, Table, Recognised

\* cmd_corrupt: nothing is recognised any more, and nothing noticed yet.
LEMMA corruptActs ==
  ASSUME IInv, NEW p \in Procs, cmd_corrupt(p)
  PROVE  Acted(p)
<1> DEFINE m == Own(p)
<1>1. /\ TypeOK /\ LabPlace(p) /\ DiskPlace(p) /\ run[p] \in Records /\ Step(p, run[p])
      /\ bound' = bound /\ view' = view
  BY WhereItIs DEF cmd_corrupt
<1>2. PICK mode \in {"sig", "entry", "all"} :
        /\ At(p, mode)
        /\ media' = [media EXCEPT ![Medium(run[p].dev)] = Corrupted(@, mode)]
  BY DEF cmd_corrupt
<1>3. \/ run[p].job = "lab" /\ run[p].pc \in {13, 20, 23}
      \/ run[p].job = "disklab" /\ run[p].pc \in {5, 10} /\ (run[p].pc = 10 => mode = "all")
  BY <1>1, <1>2, AtIs, LabOps, DisklabOps DEF IInv
<1>4. Medium(run[p].dev) = m /\ m \in Media
  <2>1. Holds(p) \/ OnDisk(p)
    BY <1>3 DEF Holds, OnDisk
  <2>2. CASE Holds(p)
    BY <2>2, WhereItIs DEF Holds
  <2>3. CASE OnDisk(p)
    BY <2>3, WhereItIs
  <2> QED
    BY <2>1, <2>2, <2>3
<1>5. /\ \A q \in Procs \ {p} : run'[q] = run[q]
      /\ run'[p].pc = run[p].pc + 1 /\ run'[p].job = run[p].job
      /\ run'[p].dev = run[p].dev /\ run'[p].blocked = run[p].blocked
  BY <1>1, StepIs
<1>6. /\ media'[m].size = media[m].size /\ ~Recognised(media'[m])
      /\ mode = "all" => media'[m] = Blank(media[m].size)
      /\ \A n \in Media \ {m} : media'[n] = media[n]
  <2>1. media'[m] = Corrupted(media[m], mode) /\ \A n \in Media \ {m} : media'[n] = media[n]
    BY <1>1, <1>2, <1>4 DEF TypeOK
  <2>2. media[m] \in [size : Nat, sig : BOOLEAN, nsect : 0 .. Mod - 1]
    BY <1>1, <1>4 DEF TypeOK
  <2> QED
    BY <2>1, <2>2, CorruptedIs
<1>7. Own(p)' = m
  BY <1>5 DEF Own
<1> HIDE DEF m
<1>8. Effects(p)
  <2>1. Acts(p)
    BY <1>3 DEF Acts, OnDisk
  <2>2. \A d \in Devs : d \in view' <=> d \in view
    BY <1>1
  <2> QED
    BY <1>1, <1>5, <1>6, <2>1, <2>2 DEF Effects, m
<1>9. Ruined(p)' /\ (Seen(p)' <=> Seen(p))
  BY <1>1, <1>5, <1>6, <1>7 DEF Ruined, Seen, m
<1>10. LabPlace(p)'
  <2> SUFFICES ASSUME run[p].job = "lab" PROVE LabPlace(p)'
    BY <1>5 DEF LabPlace
  <2>1. run[p].pc \in {13, 20, 23} /\ m = p
    BY <1>3 DEF m, Own
  <2> QED
    BY <1>1, <1>5, <1>6, <1>9, <2>1 DEF LabPlace, Holds
<1>11. DiskPlace(p)'
  <2> SUFFICES ASSUME run[p].job = "disklab" PROVE DiskPlace(p)'
    BY <1>5 DEF DiskPlace
  <2>1. m = run[p].dev /\ run[p].dev \in Disks
    BY <1>1 DEF m, Own, DiskPlace
  <2>2. run[p].pc = 10 => media'[run[p].dev] = Blank(DiskSize[run[p].dev])
    BY <1>3, <1>6, <2>1 DEF IInv, DisksKeepSize
  <2>3. run[p].pc \in {5, 10}
    BY <1>3
  <2> QED
    BY <1>1, <1>5, <1>9, <2>1, <2>2, <2>3 DEF DiskPlace
<1> QED
  BY <1>3, <1>5, <1>8, <1>10, <1>11 DEF Acted

\* cmd_reread: what is seen is what is there, or the reread was refused.
LEMMA rereadActs ==
  ASSUME IInv, NEW p \in Procs, cmd_reread(p)
  PROVE  Acted(p)
<1> DEFINE d == run[p].dev
           m == Own(p)
           scan == d \in Loops => bound[d].scan
<1>1. /\ TypeOK /\ LabPlace(p) /\ DiskPlace(p) /\ run[p] \in Records /\ run[p].blocked \in BOOLEAN
      /\ media' = media /\ bound' = bound
  BY WhereItIs DEF cmd_reread
<1>2. \/ run[p].job = "lab" /\ run[p].pc \in {7, 15, 18, 21, 24}
      \/ run[p].job = "disklab" /\ run[p].pc \in {3, 7, 11}
  BY <1>1, AtIs, LabOps, DisklabOps DEF cmd_reread, IInv
<1>3. /\ Medium(d) = m /\ d \in Devs
      /\ (OnDisk(p) /\ d \in Disks) \/ (Holds(p) /\ d \in Loops /\ bound[d].file = p)
  <2>1. Holds(p) \/ OnDisk(p)
    BY <1>2 DEF Holds, OnDisk
  <2>2. CASE Holds(p)
    BY <2>2, WhereItIs DEF Devs
  <2>3. CASE OnDisk(p)
    BY <2>3, WhereItIs
  <2> QED
    BY <2>1, <2>2, <2>3
\* A refused reread lets anything be seen; one that goes through shows the table.
<1>4. PICK blocked \in BOOLEAN :
        /\ Step(p, [run[p] EXCEPT !.blocked = blocked])
        /\ \A e \in Devs \ {d} : e \in view' <=> e \in view
        /\ scan /\ ~blocked => (d \in view' <=> Recognised(media[m]))
  <2>1. CASE d \in Loops /\ ~bound[d].scan /\ Step(p, run[p]) /\ UNCHANGED view
    <3>1. [run[p] EXCEPT !.blocked = run[p].blocked] = run[p]
      BY <1>1 DEF Records
    <3>2. ~scan
      BY <2>1
    <3> QED
      BY <1>1, <2>1, <3>1, <3>2
  <2>2. CASE Step(p, [run[p] EXCEPT !.blocked = TRUE]) /\ UNCHANGED view
    BY <2>2
  <2>3. CASE /\ Step(p, [run[p] EXCEPT !.blocked = FALSE])
             /\ view' = IF Recognised(media[Medium(d)]) THEN view \cup {d} ELSE view \ {d}
    <3>1. CASE Recognised(media[m])
      <4>1. view' = view \cup {d}
        BY <1>3, <2>3, <3>1
      <4> QED
        BY <2>3, <3>1, <4>1
    <3>2. CASE ~Recognised(media[m])
      <4>1. view' = view \ {d}
        BY <1>3, <2>3, <3>2
      <4> QED
        BY <2>3, <3>2, <4>1
    <3> QED
      BY <3>1, <3>2
  <2> QED
    BY <2>1, <2>2, <2>3 DEF cmd_reread
<1> DEFINE r == [run[p] EXCEPT !.blocked = blocked]
<1>5. r \in Records /\ r.pc = run[p].pc /\ r.job = run[p].job /\ r.dev = d /\ r.blocked = blocked
  BY <1>1 DEF Records
<1>0. Step(p, r)
  BY <1>4
<1> HIDE DEF r
<1>6. /\ \A q \in Procs \ {p} : run'[q] = run[q]
      /\ run'[p].pc = run[p].pc + 1 /\ run'[p].job = run[p].job
      /\ run'[p].dev = d /\ run'[p].blocked = blocked
  <2>1. run' \in [Procs -> Records] /\ \A q \in Procs \ {p} : run'[q] = run[q]
    BY <1>0, <1>1, <1>5, StepIs
  <2>2. run'[p].pc = r.pc + 1 /\ run'[p].job = r.job /\ run'[p].dev = r.dev
        /\ run'[p].blocked = r.blocked
    BY <1>0, <1>1, <1>5, StepIs
  <2> QED
    BY <1>5, <2>1, <2>2
<1>7. Own(p)' = m
  BY <1>6 DEF Own
<1> HIDE DEF m
<1>8. (Written(p)' <=> Written(p)) /\ (Ruined(p)' <=> Ruined(p))
  BY <1>1, <1>7 DEF Written, Ruined, m
<1>9. ASSUME scan, Written(p)
      PROVE  Seen(p)'
  <2>1. CASE blocked
    BY <1>6, <2>1 DEF Seen
  <2>2. CASE Rest(media[m].size) = 0
    BY <1>1, <1>7, <2>2 DEF Seen
  <2>3. CASE ~blocked /\ Recognised(media[m])
    BY <1>4, <1>6, <1>9, <2>3 DEF Seen
  <2> QED
    BY <1>9, <2>1, <2>2, <2>3 DEF Written, m
<1>10. ASSUME scan, Ruined(p)
       PROVE  Unseen(p)'
  <2>1. CASE blocked
    BY <1>6, <2>1 DEF Unseen
  <2>2. CASE ~blocked
    <3>1. d \notin view'
      BY <1>4, <1>10, <2>2 DEF Ruined, m
    <3> QED
      BY <1>6, <3>1 DEF Unseen
  <2> QED
    BY <2>1, <2>2
<1>11. Effects(p)
  <2>1. \A e \in Devs : \/ e \in view' <=> e \in view
                        \/ OnDisk(p) /\ e = run[p].dev
                        \/ Mine(e, p) /\ (e \in view' => bound'[e].file = p)
    <3>1. CASE OnDisk(p) /\ d \in Disks
      BY <1>4, <3>1
    <3>2. CASE Holds(p) /\ d \in Loops /\ bound[d].file = p
      BY <1>1, <1>4, <3>2 DEF Mine
    <3> QED
      BY <1>3, <3>1, <3>2
  <2> QED
    BY <1>1, <1>6, <2>1 DEF Effects
<1>12. LabPlace(p)'
  <2> SUFFICES ASSUME run[p].job = "lab" PROVE LabPlace(p)'
    BY <1>6 DEF LabPlace
  <2>1. run[p].pc \in {7, 15, 18, 21, 24} /\ Holds(p)
    BY <1>2 DEF Holds
  <2>2. scan <=> run[p].pc >= 12
    BY <1>1, <2>1 DEF LabPlace
  <2>3. run[p].pc \in {7, 18} => Written(p)'
    BY <1>1, <1>8 DEF LabPlace
  <2>4. run[p].pc = 18 => Seen(p)'
    BY <1>1, <1>9, <2>2 DEF LabPlace
  <2>5. run[p].pc \in {15, 21, 24} => Unseen(p)'
    BY <1>1, <1>10, <2>2 DEF LabPlace
  <2>6. media'[p].size = ImgSize /\ d \in Loops
    BY <1>1, <2>1 DEF LabPlace
  <2>7. LET b == bound'[d] IN b.file = p /\ ~b.last /\ (b.scan <=> run'[p].pc >= 12)
    BY <1>1, <1>6, <2>1 DEF LabPlace
  <2> QED
    BY <1>6, <2>1, <2>3, <2>4, <2>5, <2>6, <2>7 DEF LabPlace
<1>13. DiskPlace(p)'
  <2> SUFFICES ASSUME run[p].job = "disklab" PROVE DiskPlace(p)'
    BY <1>6 DEF DiskPlace
  <2>1. run[p].pc \in {3, 7, 11} /\ d \in Disks /\ m = d
    BY <1>1, <1>2 DEF DiskPlace, m, Own
  <2>2. scan
    BY <2>1, DevsApart
  <2>3. run[p].pc = 3 => Written(p)' /\ Seen(p)'
    BY <1>1, <1>8, <1>9, <2>2 DEF DiskPlace
  <2>4. run[p].pc = 11 => media[d] = Blank(DiskSize[d])
    BY <1>1 DEF DiskPlace
  <2>5. run[p].pc = 11 => Ruined(p)
    BY <2>1, <2>4 DEF Ruined, Recognised, Blank, Table, m
  <2>6. run[p].pc \in {7, 11} => Unseen(p)'
    BY <1>1, <1>10, <2>2, <2>5 DEF DiskPlace
  <2> QED
    BY <1>1, <1>6, <2>1, <2>3, <2>4, <2>6 DEF DiskPlace
<1> QED
  BY <1>2, <1>6, <1>11, <1>12, <1>13 DEF Acted

\* cmd_loop_detach: p1 is gone with the device, or held up by another program.
LEMMA loop_detachActs ==
  ASSUME IInv, NEW p \in Procs, cmd_loop_detach(p)
  PROVE  Acted(p)
<1> DEFINE l == run[p].dev
<1>1. /\ TypeOK /\ LabPlace(p) /\ run[p] \in Records /\ run[p].blocked \in BOOLEAN
      /\ media' = media
  BY WhereItIs DEF cmd_loop_detach
<1>2. run[p].job = "lab" /\ run[p].pc \in {9, 27} /\ Holds(p)
  BY <1>1, AtIs, LabOps, DisklabOps DEF cmd_loop_detach, IInv, Holds
<1>3. l \in Loops /\ l \in Devs /\ bound[l].file = p /\ Own(p) = p
  BY <1>2, WhereItIs DEF Devs
<1>4. PICK blocked \in BOOLEAN :
        /\ Step(p, [run[p] EXCEPT !.blocked = blocked])
        /\ \A e \in Devs \ {l} : e \in view' <=> e \in view
        /\ \A j \in Loops \ {l} : bound'[j] = bound[j]
        /\ \/ bound'[l] = Free /\ l \notin view'
           \/ bound'[l].file = p /\ blocked
  <2>1. CASE /\ bound' = [bound EXCEPT ![l] = Free] /\ view' = view \ {l}
             /\ Step(p, run[p])
    <3>1. [run[p] EXCEPT !.blocked = run[p].blocked] = run[p]
      BY <1>1 DEF Records
    <3>2. bound'[l] = Free /\ \A j \in Loops \ {l} : bound'[j] = bound[j]
      BY <1>1, <1>3, <2>1 DEF TypeOK
    <3>3. l \notin view' /\ \A e \in Devs \ {l} : e \in view' <=> e \in view
      BY <2>1
    <3> QED
      BY <1>1, <2>1, <3>1, <3>2, <3>3
  <2>2. CASE /\ bound' = [bound EXCEPT ![l].last = TRUE] /\ UNCHANGED view
             /\ Step(p, [run[p] EXCEPT !.blocked = TRUE])
    <3>1. bound'[l].file = p /\ \A j \in Loops \ {l} : bound'[j] = bound[j]
      BY <1>1, <1>3, <2>2 DEF TypeOK
    <3>2. \A e \in Devs \ {l} : e \in view' <=> e \in view
      BY <2>2
    <3> QED
      BY <2>2, <3>1, <3>2
  <2> QED
    BY <2>1, <2>2 DEF cmd_loop_detach
<1> DEFINE r == [run[p] EXCEPT !.blocked = blocked]
<1>5. r \in Records /\ r.pc = run[p].pc /\ r.job = "lab" /\ r.dev = l /\ r.blocked = blocked
  BY <1>1, <1>2 DEF Records
<1>0. Step(p, r)
  BY <1>4
<1> HIDE DEF r
<1>6. /\ \A q \in Procs \ {p} : run'[q] = run[q]
      /\ run'[p].pc = run[p].pc + 1 /\ run'[p].job = "lab"
      /\ run'[p].dev = l /\ run'[p].blocked = blocked
  <2>1. run' \in [Procs -> Records] /\ \A q \in Procs \ {p} : run'[q] = run[q]
    BY <1>0, <1>1, <1>5, StepIs
  <2>2. run'[p].pc = r.pc + 1 /\ run'[p].job = r.job /\ run'[p].dev = r.dev
        /\ run'[p].blocked = r.blocked
    BY <1>0, <1>1, <1>5, StepIs
  <2> QED
    BY <1>5, <2>1, <2>2
<1>7. Effects(p)
  <2>1. bound'[l].file \in {p, None} /\ (l \in view' => bound'[l].file = p)
    BY <1>4 DEF Free
  <2> QED
    BY <1>1, <1>3, <1>4, <1>6, <2>1 DEF Effects, Mine
<1>8. LabPlace(p)'
  <2>1. run[p].pc = 9 => Written(p)'
    <3>1. Own(p)' = p
      BY <1>6 DEF Own
    <3>2. Written(p)' <=> Written(p)
      BY <1>1, <1>3, <3>1 DEF Written
    <3>3. run[p].pc = 9 => Written(p)
      BY <1>1, <1>2 DEF LabPlace
    <3> QED
      BY <3>2, <3>3
  <2>2. blocked \/ l \notin view'
    BY <1>4
  <2>3. Unseen(p)'
    BY <1>6, <2>2 DEF Unseen
  <2>4. media'[p].size = ImgSize
    BY <1>1, <1>2 DEF LabPlace
  <2>5. run'[p].pc \in {10, 28}
    BY <1>2, <1>6
  <2> QED
    BY <1>2, <1>3, <1>6, <2>1, <2>3, <2>4, <2>5 DEF LabPlace, Holds
<1> QED
  BY <1>2, <1>6, <1>7, <1>8 DEF Acted, DiskPlace

\* An experiment begins at its first line, and one that died has no place to keep.
LEMMA StartActs ==
  ASSUME IInv, NEW p \in Procs, Start(p)
  PROVE  Acted(p)
<1>1. /\ TypeOK /\ media' = media /\ bound' = bound /\ view' = view
      /\ run \in [Procs -> Records]
  BY DEF Start, IInv, TypeOK, Records
<1>2. PICK new : /\ run' = [run EXCEPT ![p] = new] /\ new.pc = 1
                 /\ new.job = "lab" \/ (new.job = "disklab" /\ new.dev \in Disks)
  <2>1. CASE run' = [run EXCEPT ![p] = [Idle EXCEPT !.job = "lab"]]
    <3>1. [Idle EXCEPT !.job = "lab"].pc = 1 /\ [Idle EXCEPT !.job = "lab"].job = "lab"
      BY DEF Idle
    <3> QED
      BY <2>1, <3>1
  <2>2. CASE \E d \in Disks :
               run' = [run EXCEPT ![p] = [Idle EXCEPT !.job = "disklab", !.dev = d]]
    <3>1. PICK d \in Disks :
                 run' = [run EXCEPT ![p] = [Idle EXCEPT !.job = "disklab", !.dev = d]]
      BY <2>2
    <3> DEFINE new == [Idle EXCEPT !.job = "disklab", !.dev = d]
    <3>2. new.pc = 1 /\ new.job = "disklab" /\ new.dev = d
      BY DEF Idle
    <3> HIDE DEF new
    <3>3. run' = [run EXCEPT ![p] = new]
      BY <3>1 DEF new
    <3> QED
      BY <3>2, <3>3
  <2> QED
    BY <2>1, <2>2 DEF Start
<1>3. run'[p] = new /\ \A q \in Procs \ {p} : run'[q] = run[q]
  BY <1>1, <1>2
<1>4. Effects(p)
  <2>1. \A d \in Devs : d \in view' <=> d \in view
    BY <1>1
  <2> QED
    BY <1>1, <1>3, <2>1 DEF Effects
<1> QED
  BY <1>2, <1>3, <1>4 DEF Acted, LabPlace, DiskPlace, Holds

\* A died experiment keeps what it had.
LEMMA DieActs ==
  ASSUME IInv, NEW p \in Procs, Die(p)
  PROVE  Acted(p)
<1>1. /\ TypeOK /\ bound' = bound /\ view' = view /\ run[p].pc >= 1
      /\ run \in [Procs -> Records] /\ run' = [run EXCEPT ![p].job = "died"]
  BY WhereItIs DEF Die, TypeOK, Records
<1>2. /\ run'[p].job = "died" /\ run'[p].pc = run[p].pc
      /\ \A q \in Procs \ {p} : run'[q] = run[q]
  BY <1>1 DEF Records
<1>3. \A m \in Media : media'[m] = media[m] \/ (Acts(p) /\ m = Own(p))
  <2>1. CASE media' = media
    BY <2>1
  <2>2. CASE At(p, "mkimg") /\ media' = [media EXCEPT ![p] = Blank(0)]
    <3>1. run[p].job = "lab"
      BY <2>2, AtIs, LabOps, DisklabOps DEF IInv
    <3> QED
      BY <1>1, <2>2, <3>1 DEF TypeOK, Acts, Own
  <2> QED
    BY <2>1, <2>2 DEF Die
<1>4. \A d \in Devs : d \in view' <=> d \in view
  BY <1>1
<1> QED
  BY <1>1, <1>2, <1>3, <1>4 DEF Acted, Effects, LabPlace, DiskPlace

\* Other programs take nothing from an experiment: a device is given up on
\* closing only after its owner detached it.
LEMMA OthersPlaces ==
  ASSUME IInv, NEW d \in Devs, Open(d) \/ Close(d)
  PROVE  Places'
<1>1. /\ TypeOK /\ Places /\ run' = run /\ media' = media
      /\ \A l \in Loops : bound'[l] = bound[l] \/ (bound[l].last /\ l = d /\ bound'[l] = Free)
      /\ \A e \in Devs : \/ e \in view' <=> e \in view
                         \/ e \notin view' /\ e = d /\ d \in Loops /\ bound[d].last
  <2>1. CASE UNCHANGED <<bound, view>>
    BY <2>1 DEF Open, Close, IInv
  <2>2. CASE Close(d) /\ d \in Loops /\ bound[d].last
    <3>1. bound' = [bound EXCEPT ![d] = Free] /\ view' = view \ {d}
      BY <2>2 DEF Close
    <3> QED
      BY <2>2, <3>1 DEF Close, IInv, TypeOK
  <2> QED
    BY <2>1, <2>2 DEF Open, Close
<1>2. ASSUME NEW p \in Procs
      PROVE  Stays(p)
  <2>1. LabPlace(p) /\ DiskPlace(p) /\ p # None
    BY <1>1, DevsApart DEF Places, Media
  <2>2. Holds(p) => run[p].dev \in Loops /\ run[p].dev \in Devs /\ ~bound[run[p].dev].last
    BY <2>1 DEF Holds, LabPlace, Devs
  <2>3. OnDisk(p) => run[p].dev \in Devs /\ run[p].dev \notin Loops
    BY <2>1, DevsApart DEF OnDisk, DiskPlace, Devs
  <2>4. Holds(p) => bound'[run[p].dev] = bound[run[p].dev]
    BY <1>1, <2>2
  <2>5. Holds(p) \/ OnDisk(p) => (run[p].dev \in view' <=> run[p].dev \in view)
    <3>1. CASE Holds(p)
      BY <1>1, <2>2, <3>1
    <3>2. CASE OnDisk(p)
      BY <1>1, <2>3, <3>2
    <3> QED
      BY <3>1, <3>2
  <2>6. ASSUME run[p].job = "lab", run[p].pc = 28, Unseen(p) \/ bound[run[p].dev].file # p
        PROVE  Unseen(p)' \/ bound'[run[p].dev].file # p
    <3>1. run[p].dev \in Loops /\ run[p].dev \in Devs
      BY <2>1, <2>6 DEF LabPlace, Devs
    <3>2. CASE bound[run[p].dev].file # p
      BY <1>1, <2>1, <3>1, <3>2 DEF Free
    <3>3. CASE Unseen(p)
      BY <1>1, <3>1, <3>3 DEF Unseen
    <3> QED
      BY <2>6, <3>2, <3>3
  <2> QED
    BY <1>1, <2>4, <2>5, <2>6 DEF Stays
<1> QED
  BY <1>1, <1>2, PlaceStays DEF Places

\* A subcommand that goes well takes its experiment one line on.
Does(p) == \/ Look(p) \/ cmd_mkimg(p) \/ GetFree(p) \/ Configure(p) \/ cmd_mkpt(p)
           \/ cmd_corrupt(p) \/ cmd_reread(p) \/ cmd_loop_detach(p)
Ahead(p) ==
  /\ run' \in [Procs -> Records]
  /\ \A q \in Procs \ {p} : run'[q] = run[q]
  /\ run'[p].job = run[p].job /\ run'[p].pc = run[p].pc + 1
  /\ ~GetFree(p) => run'[p].dev = run[p].dev

\* So it does, and leaves its experiment in its place there.
LEMMA DoesGoesAhead ==
  ASSUME IInv, NEW p \in Procs, Does(p)
  PROVE  Ahead(p) /\ Acted(p)
<1>1. TypeOK /\ run[p] \in Records
  BY WhereItIs
<1>2. PICK r : Step(p, r) /\ r \in Records /\ r.job = run[p].job /\ r.pc = run[p].pc
               /\ (~GetFree(p) => r.dev = run[p].dev)
  <2>1. CASE Step(p, run[p])
    BY <1>1, <2>1
  <2>2. CASE \E b \in BOOLEAN : Step(p, [run[p] EXCEPT !.blocked = b])
    <3>1. PICK b \in BOOLEAN : Step(p, [run[p] EXCEPT !.blocked = b])
      BY <2>2
    <3>2. LET s == [run[p] EXCEPT !.blocked = b]
          IN  s \in Records /\ s.job = run[p].job /\ s.pc = run[p].pc /\ s.dev = run[p].dev
      BY <1>1 DEF Records
    <3> QED
      BY <3>1, <3>2
  <2>3. CASE GetFree(p)
    <3>1. PICK l \in Loops : Step(p, [run[p] EXCEPT !.dev = l])
      BY <2>3 DEF GetFree
    <3>2. LET s == [run[p] EXCEPT !.dev = l]
          IN  s \in Records /\ s.job = run[p].job /\ s.pc = run[p].pc
      BY <1>1 DEF Records, Devs
    <3> QED
      BY <2>3, <3>1, <3>2
  <2>4. Look(p) \/ cmd_mkimg(p) \/ cmd_mkpt(p) \/ cmd_corrupt(p) => Step(p, run[p])
    BY DEF Look, cmd_mkimg, cmd_mkpt, cmd_corrupt
  <2>5. ASSUME Configure(p) \/ cmd_reread(p) \/ cmd_loop_detach(p)
        PROVE  \/ Step(p, run[p])
               \/ Step(p, [run[p] EXCEPT !.blocked = FALSE])
               \/ Step(p, [run[p] EXCEPT !.blocked = TRUE])
    BY <2>5 DEF Configure, cmd_reread, cmd_loop_detach
  <2> QED
    BY <2>1, <2>2, <2>3, <2>4, <2>5 DEF Does
<1>3. Ahead(p)
  BY <1>1, <1>2, StepIs DEF Ahead
<1>4. Acted(p)
  BY LookActs, mkimgActs, GetFreeActs, ConfigureActs, mkptActs, corruptActs, rereadActs,
     loop_detachActs DEF Does
<1> QED
  BY <1>3, <1>4

\* Every step keeps every experiment in its place.
LEMMA PlacesInv == IInv /\ [Next]_vars => Places'
<1> SUFFICES ASSUME IInv, [Next]_vars PROVE Places'
  OBVIOUS
<1>1. CASE UNCHANGED vars
  BY <1>1 DEF vars, IInv, Places, LabPlace, DiskPlace, Written, Ruined, Seen, Unseen, Own, Holds
<1>2. ASSUME NEW p \in Procs, Start(p) \/ Die(p) \/ Does(p)
      PROVE  Places'
  <2>1. Acted(p)
    BY <1>2, StartActs, DieActs, DoesGoesAhead
  <2> QED
    BY <2>1, PlacesKept DEF Acted, IInv
<1> QED
  BY <1>1, <1>2, OthersPlaces DEF Next, Does

------------------------------------------------------------------------------
(* What is on the media *)

Tables == [size : Nat, sig : BOOLEAN, nsect : 0 .. Mod - 1]
\* An entry that ends on the disk, and where the disk ends when it can be said.
Fits(t) ==
  t.nsect # 0 => /\ Align + t.nsect <= t.size
                 /\ t.size - Align < Mod => Align + t.nsect = t.size

\* Every step keeps the tables typed and fitting, and the disks their size.
LEMMA MediaInv ==
  IInv /\ [Next]_vars => /\ media' \in [Media -> Tables]
                         /\ DisksKeepSize' /\ EntryFits'
<1> SUFFICES ASSUME IInv, [Next]_vars
             PROVE  media' \in [Media -> Tables] /\ DisksKeepSize' /\ EntryFits'
  OBVIOUS
<1>1. /\ media \in [Media -> Tables]
      /\ \A d \in Disks : d \in Media /\ media[d].size = DiskSize[d]
      /\ \A m \in Media : Fits(media[m])
  BY DEF IInv, TypeOK, Tables, DisksKeepSize, EntryFits, Fits, Media
\* One medium gets another table, of the same size if it is a disk.
<1>2. ASSUME NEW m \in Media, NEW t \in Tables, media' = [media EXCEPT ![m] = t],
             Fits(t), m \in Disks => t.size = media[m].size
      PROVE  media' \in [Media -> Tables] /\ DisksKeepSize' /\ EntryFits'
  <2>1. media' \in [Media -> Tables] /\ media'[m] = t /\ \A n \in Media \ {m} : media'[n] = media[n]
    BY <1>1, <1>2
  <2>2. \A n \in Media : Fits(media'[n])
    BY <1>1, <1>2, <2>1
  <2>3. EntryFits'
    BY <2>2 DEF EntryFits, Fits
  <2>4. \A d \in Disks : media'[d].size = DiskSize[d]
    BY <1>1, <1>2, <2>1
  <2> QED
    BY <2>1, <2>3, <2>4 DEF DisksKeepSize
<1>3. CASE UNCHANGED media
  BY <1>1, <1>3 DEF DisksKeepSize, EntryFits, Fits
<1>4. ASSUME NEW p \in Procs, NEW size \in {0, ImgSize}, media' = [media EXCEPT ![p] = Blank(size)]
      PROVE  media' \in [Media -> Tables] /\ DisksKeepSize' /\ EntryFits'
  <2>1. Blank(size) \in Tables /\ Fits(Blank(size))
    BY SizesAssumption DEF Blank, Table, Tables, Fits
  <2>2. p \in Media /\ p \notin Disks
    BY DevsApart DEF Media, Devs
  <2> QED
    BY <1>2, <1>4, <2>1, <2>2
<1>5. ASSUME NEW p \in Procs, cmd_mkpt(p)
      PROVE  media' \in [Media -> Tables] /\ DisksKeepSize' /\ EntryFits'
  <2> DEFINE m == Medium(run[p].dev)
             size == media[m].size
  <2>1. TypeOK /\ LabPlace(p) /\ DiskPlace(p)
    BY WhereItIs
  <2>2. \/ run[p].job = "lab" /\ run[p].pc \in {6, 17}
        \/ run[p].job = "disklab" /\ run[p].pc = 2
    BY <1>5, AtIs, LabOps, DisklabOps DEF cmd_mkpt, IInv
  <2>3. m \in Media /\ size \in Nat /\ Align < size
    <3>1. CASE run[p].job = "lab"
      <4>1. Holds(p) /\ media[p].size = ImgSize
        BY <2>1, <2>2, <3>1 DEF Holds, LabPlace
      <4>2. m = p
        BY <4>1, WhereItIs
      <4> QED
        BY <4>1, <4>2, SizesAssumption DEF Media
    <3>2. CASE run[p].job = "disklab"
      <4>1. OnDisk(p)
        BY <2>2, <3>2 DEF OnDisk
      <4>2. m = run[p].dev /\ run[p].dev \in Disks
        BY <4>1, WhereItIs
      <4> QED
        BY <1>1, <4>2, SizesAssumption DEF Media
    <3> QED
      BY <2>2, <3>1, <3>2
  <2>4. media' = [media EXCEPT ![m] = Table(size, TRUE, Rest(size))]
    BY <1>5 DEF cmd_mkpt
  <2> DEFINE t == Table(size, TRUE, Rest(size))
  <2>5. t.size = size /\ t.nsect = Rest(size) /\ t.sig = TRUE
    BY DEF Table
  <2>6. t \in Tables
    BY <2>3, RestIs DEF Table, Tables
  <2>7. Fits(t)
    BY <2>3, <2>5, RestIs DEF Fits
  <2> HIDE DEF t, m
  <2>8. media' = [media EXCEPT ![m] = t]
    BY <2>4 DEF t
  <2> QED
    BY <1>2, <2>3, <2>5, <2>6, <2>7, <2>8
<1>6. ASSUME NEW p \in Procs, cmd_corrupt(p)
      PROVE  media' \in [Media -> Tables] /\ DisksKeepSize' /\ EntryFits'
  <2> DEFINE m == Medium(run[p].dev)
  <2>1. PICK mode \in {"sig", "entry", "all"} :
          At(p, mode) /\ media' = [media EXCEPT ![m] = Corrupted(@, mode)]
    BY <1>6 DEF cmd_corrupt
  <2>2. Holds(p) \/ OnDisk(p)
    BY <2>1, AtIs, LabOps, DisklabOps DEF IInv, Holds, OnDisk
  <2>3. m \in Media
    <3>1. CASE Holds(p)
      BY <3>1, WhereItIs DEF Media
    <3>2. CASE OnDisk(p)
      BY <3>2, WhereItIs DEF Media
    <3> QED
      BY <2>2, <3>1, <3>2
  <2> HIDE DEF m
  <2> DEFINE t == Corrupted(media[m], mode)
  <2>4. media[m] \in Tables /\ Fits(media[m])
    BY <1>1, <2>3
  <2>5. t \in Tables /\ t.size = media[m].size /\ (t.nsect = media[m].nsect \/ t.nsect = 0)
    BY <2>4, CorruptedIs DEF Tables
  <2> HIDE DEF t
  <2>6. Fits(t)
    BY <2>4, <2>5 DEF Fits
  <2>7. media' = [media EXCEPT ![m] = t]
    BY <2>1 DEF t
  <2> QED
    BY <1>2, <2>3, <2>5, <2>6, <2>7
<1>7. ASSUME NEW p \in Procs, cmd_mkimg(p) \/ Die(p)
      PROVE  \/ UNCHANGED media
             \/ \E size \in {0, ImgSize} : media' = [media EXCEPT ![p] = Blank(size)]
  BY <1>7 DEF cmd_mkimg, Die
<1>8. ASSUME NEW p \in Procs, \/ Start(p) \/ Look(p) \/ GetFree(p) \/ Configure(p)
                              \/ cmd_reread(p) \/ cmd_loop_detach(p)
      PROVE  UNCHANGED media
  BY <1>8 DEF Start, Look, GetFree, Configure, cmd_reread, cmd_loop_detach
<1>9. ASSUME NEW d \in Devs, Open(d) \/ Close(d)
      PROVE  UNCHANGED media
  BY <1>9 DEF Open, Close
<1>10. CASE UNCHANGED vars
  BY <1>3, <1>10 DEF vars
<1> QED
  BY <1>3, <1>4, <1>5, <1>6, <1>7, <1>8, <1>9, <1>10 DEF Next

------------------------------------------------------------------------------
(* The devices *)

\* The part of TypeOK that is about devices.
Nodes == /\ bound \in [Loops -> [file : Procs \cup {None}, scan : BOOLEAN, last : BOOLEAN]]
         /\ view \subseteq Devs
         /\ \A l \in view \cap Loops : bound[l].scan
         /\ held \in [Devs -> {"no", "disk", "part"}]
         /\ \A d \in Devs : /\ held[d] = "part" => d \in view
                            /\ d \in Loops /\ held[d] # "no" => bound[d] # Free

\* Every step keeps the devices typed, and p1s and users on bound devices.
LEMMA NodesInv == IInv /\ [Next]_vars => Nodes'
<1> SUFFICES ASSUME IInv, [Next]_vars PROVE Nodes'
  OBVIOUS
<1>1. Nodes
  BY DEF IInv, TypeOK, Nodes
<1>2. CASE UNCHANGED <<bound, view, held>>
  BY <1>1, <1>2 DEF Nodes, Free
<1>3. ASSUME NEW p \in Procs, Configure(p)
      PROVE  Nodes'
  <2> DEFINE l == run[p].dev
             scan == At(p, "scanbind")
  <2>1. run[p].job = "lab" /\ run[p].pc \in {4, 11} /\ scan \in BOOLEAN
    BY <1>3, AtIs, LabOps, DisklabOps DEF Configure, IInv, At
  <2>2. l \in Loops /\ l \in Devs /\ p # None
    BY <2>1, WhereItIs, DevsApart DEF LabPlace, Devs, Media
  <2>3. /\ bound[l] = Free /\ held' = held
        /\ bound' = [bound EXCEPT ![l] = [file |-> p, scan |-> scan, last |-> FALSE]]
        /\ view' = IF scan /\ Recognised(media[p]) THEN view \cup {l} ELSE view
    BY <1>3 DEF Configure, BindTo
  <2> HIDE DEF l, scan
  <2>4. bound'[l].scan = scan /\ bound'[l].file = p /\ \A j \in Loops \ {l} : bound'[j] = bound[j]
    BY <1>1, <2>2, <2>3 DEF Nodes
  <2>5. bound' \in [Loops -> [file : Procs \cup {None}, scan : BOOLEAN, last : BOOLEAN]]
    BY <1>1, <2>1, <2>2, <2>3 DEF Nodes
  <2>6. l \notin view /\ bound'[l] # Free
    BY <1>1, <2>2, <2>3, <2>4 DEF Nodes, Free
  <2>7. view' \subseteq Devs /\ view \subseteq view' /\ \A j \in view' \ {l} : j \in view
    BY <1>1, <2>2, <2>3 DEF Nodes
  <2>8. l \in view' => bound'[l].scan
    BY <2>3, <2>4, <2>6
  <2> QED
    BY <1>1, <2>3, <2>4, <2>5, <2>6, <2>7, <2>8 DEF Nodes
<1>4. ASSUME NEW p \in Procs, cmd_reread(p)
      PROVE  Nodes'
  <2> DEFINE d == run[p].dev
  <2>1. Holds(p) \/ OnDisk(p)
    BY <1>4, AtIs, LabOps, DisklabOps DEF cmd_reread, IInv, Holds, OnDisk
  <2>2. d \in Devs
    <3>1. CASE Holds(p)
      BY <3>1, WhereItIs DEF Devs
    <3>2. CASE OnDisk(p)
      BY <3>2, WhereItIs
    <3> QED
      BY <2>1, <3>1, <3>2
  <2>3. /\ bound' = bound /\ held' = held
        /\ \/ view' = view
           \/ /\ d \in Loops => bound[d].scan
              /\ held[d] # "part" /\ (view' = view \cup {d} \/ view' = view \ {d})
    BY <1>4 DEF cmd_reread
  <2> HIDE DEF d
  <2> QED
    BY <1>1, <1>2, <2>2, <2>3 DEF Nodes, Free
<1>5. ASSUME NEW l \in Loops, held[l] = "no" \/ held'[l] = "no",
             \A d \in Devs \ {l} : held'[d] = held[d], held' \in [Devs -> {"no", "disk", "part"}],
             held'[l] \in {"no", held[l]},
             bound' = [bound EXCEPT ![l] = Free], view' = view \ {l}
      PROVE  Nodes'
  <2>1. bound'[l] = Free /\ \A j \in Loops \ {l} : bound'[j] = bound[j]
    BY <1>1, <1>5 DEF Nodes
  <2>2. bound' \in [Loops -> [file : Procs \cup {None}, scan : BOOLEAN, last : BOOLEAN]]
    BY <1>1, <1>5 DEF Nodes, Free
  <2> QED
    BY <1>1, <1>5, <2>1, <2>2 DEF Nodes
<1>6. ASSUME NEW p \in Procs, cmd_loop_detach(p)
      PROVE  Nodes'
  <2> DEFINE l == run[p].dev
  <2>1. Holds(p)
    BY <1>6, AtIs, LabOps, DisklabOps DEF cmd_loop_detach, IInv, Holds
  <2>2. l \in Loops /\ l \in Devs
    BY <2>1, WhereItIs DEF Devs
  <2> HIDE DEF l
  <2>3. CASE held[l] = "no" /\ bound' = [bound EXCEPT ![l] = Free] /\ view' = view \ {l} /\ held' = held
    BY <1>1, <1>5, <2>2, <2>3 DEF Nodes
  <2>4. CASE bound' = [bound EXCEPT ![l].last = TRUE] /\ view' = view /\ held' = held
    <3>1. bound'[l].scan = bound[l].scan /\ bound'[l].last = TRUE
          /\ \A j \in Loops \ {l} : bound'[j] = bound[j]
      BY <1>1, <2>2, <2>4 DEF Nodes
    <3>2. bound'[l] # Free
      BY <3>1 DEF Free
    <3>3. bound' \in [Loops -> [file : Procs \cup {None}, scan : BOOLEAN, last : BOOLEAN]]
      BY <1>1, <2>2, <2>4 DEF Nodes
    <3> QED
      BY <1>1, <2>4, <3>1, <3>2, <3>3 DEF Nodes
  <2> QED
    BY <1>6, <2>3, <2>4 DEF cmd_loop_detach, l
<1>7. ASSUME NEW d \in Devs, Open(d)
      PROVE  Nodes'
  <2>1. /\ bound' = bound /\ view' = view /\ (d \in Loops => bound[d] # Free)
        /\ held' = [held EXCEPT ![d] = "disk"]
           \/ (d \in view /\ held' = [held EXCEPT ![d] = "part"])
    BY <1>7 DEF Open
  <2>2. held' \in [Devs -> {"no", "disk", "part"}] /\ \A e \in Devs \ {d} : held'[e] = held[e]
    BY <1>1, <2>1 DEF Nodes
  <2>3. held'[d] = "part" => d \in view
    BY <1>1, <2>1 DEF Nodes
  <2> QED
    BY <1>1, <2>1, <2>2, <2>3 DEF Nodes, Free
<1>8. ASSUME NEW d \in Devs, Close(d)
      PROVE  Nodes'
  <2>1. held' = [held EXCEPT ![d] = "no"]
    BY <1>8 DEF Close
  <2>2. /\ held' \in [Devs -> {"no", "disk", "part"}] /\ held'[d] = "no"
        /\ \A e \in Devs \ {d} : held'[e] = held[e]
    BY <1>1, <2>1 DEF Nodes
  <2>3. CASE d \in Loops /\ bound' = [bound EXCEPT ![d] = Free] /\ view' = view \ {d}
    BY <1>5, <2>2, <2>3
  <2>4. CASE bound' = bound /\ view' = view
    BY <1>1, <2>2, <2>4 DEF Nodes, Free
  <2> QED
    BY <1>8, <2>3, <2>4 DEF Close
<1>9. ASSUME NEW p \in Procs, \/ Start(p) \/ Die(p) \/ Look(p) \/ cmd_mkimg(p) \/ GetFree(p)
                              \/ cmd_mkpt(p) \/ cmd_corrupt(p)
      PROVE  UNCHANGED <<bound, view, held>>
  BY <1>9 DEF Start, Die, Look, cmd_mkimg, GetFree, cmd_mkpt, cmd_corrupt
<1>10. CASE UNCHANGED vars
  BY <1>2, <1>10 DEF vars
<1> QED
  BY <1>2, <1>3, <1>4, <1>6, <1>7, <1>8, <1>9, <1>10 DEF Next

\* Every step keeps the types.
LEMMA TypeInv == IInv /\ [Next]_vars => TypeOK'
<1> SUFFICES ASSUME IInv, [Next]_vars PROVE TypeOK'
  OBVIOUS
<1>1. /\ run \in [Procs -> Records] /\ starts \in 0 .. MaxStarts /\ left \subseteq Devs
  BY DEF IInv, TypeOK, Records
<1>2. run' \in [Procs -> Records] /\ starts' \in 0 .. MaxStarts /\ left' \subseteq Devs
  <2>1. CASE UNCHANGED <<run, starts, left>>
    BY <1>1, <2>1
  <2>2. ASSUME NEW p \in Procs, Start(p)
        PROVE  run' \in [Procs -> Records] /\ starts' \in 0 .. MaxStarts /\ left' \subseteq Devs
    <3>1. starts < MaxStarts /\ starts' = starts + 1 /\ left' = left
      BY <2>2 DEF Start
    <3>2. starts' \in 0 .. MaxStarts
      BY <1>1, <3>1, BoundsAssumption
    <3>3. [Idle EXCEPT !.job = "lab"] \in Records
      BY DEF Idle, Records
    <3>4. \A d \in Disks : [Idle EXCEPT !.job = "disklab", !.dev = d] \in Records
      BY DEF Idle, Records, Devs
    <3>5. PICK new \in Records : run' = [run EXCEPT ![p] = new]
      BY <2>2, <3>3, <3>4 DEF Start
    <3> QED
      BY <1>1, <3>1, <3>2, <3>5
  <2>3. ASSUME NEW p \in Procs, Die(p)
        PROVE  run' \in [Procs -> Records] /\ starts' \in 0 .. MaxStarts /\ left' \subseteq Devs
    <3>1. run' = [run EXCEPT ![p].job = "died"] /\ starts' = starts
          /\ left' \subseteq left \cup Devs
      BY <2>3 DEF Die
    <3>2. run' \in [Procs -> Records]
      BY <1>1, <3>1 DEF Records
    <3> QED
      BY <1>1, <3>1, <3>2
  <2>4. ASSUME NEW p \in Procs, Does(p)
        PROVE  run' \in [Procs -> Records] /\ starts' \in 0 .. MaxStarts /\ left' \subseteq Devs
    <3>1. run' \in [Procs -> Records]
      BY <2>4, DoesGoesAhead DEF Ahead
    <3>2. starts' = starts /\ left' \subseteq left
      BY <2>4 DEF Does, Look, cmd_mkimg, GetFree, Configure, cmd_mkpt, cmd_corrupt, cmd_reread,
                  cmd_loop_detach
    <3> QED
      BY <1>1, <3>1, <3>2
  <2>5. ASSUME NEW d \in Devs, Open(d) \/ Close(d)
        PROVE  UNCHANGED <<run, starts, left>>
    BY <2>5 DEF Open, Close
  <2>6. CASE UNCHANGED vars
    BY <2>1, <2>6 DEF vars
  <2> QED
    BY <2>1, <2>2, <2>3, <2>4, <2>5, <2>6 DEF Next, Does
<1>3. media' \in [Media -> Tables] /\ Nodes'
  BY MediaInv, NodesInv
<1> QED
  BY <1>2, <1>3 DEF TypeOK, Nodes, Tables, Records

------------------------------------------------------------------------------
(* Who runs where, and who answers for what is left *)

\* Every step keeps experiments on disks of their own.
LEMMA AloneInv == IInv /\ [Next]_vars => Alone'
<1> SUFFICES ASSUME IInv, [Next]_vars PROVE Alone'
  OBVIOUS
<1>1. Alone /\ run \in [Procs -> Records]
  BY DEF IInv, TypeOK, Records
\* Nobody comes to a disk but by Start, which looks for another on it.
<1>2. ASSUME NEW p \in Procs, \A q \in Procs \ {p} : run'[q] = run[q],
             OnDisk(p)' => \A q \in Procs \ {p} : ~(OnDisk(q) /\ run[q].dev = run'[p].dev)
      PROVE  Alone'
  BY <1>1, <1>2 DEF Alone, OnDisk
<1>3. ASSUME NEW p \in Procs, Start(p)
      PROVE  Alone'
  <2>1. CASE run' = [run EXCEPT ![p] = [Idle EXCEPT !.job = "lab"]]
    <3>1. run'[p].job = "lab" /\ \A q \in Procs \ {p} : run'[q] = run[q]
      BY <1>1, <2>1 DEF Idle
    <3> QED
      BY <1>2, <3>1 DEF OnDisk
  <2>2. CASE \E d \in Disks :
               /\ \A q \in Procs : Running(q) => run[q].dev # d
               /\ run' = [run EXCEPT ![p] = [Idle EXCEPT !.job = "disklab", !.dev = d]]
    <3>1. PICK d \in Disks :
               /\ \A q \in Procs : Running(q) => run[q].dev # d
               /\ run' = [run EXCEPT ![p] = [Idle EXCEPT !.job = "disklab", !.dev = d]]
      BY <2>2
    <3>2. run'[p].dev = d /\ \A q \in Procs \ {p} : run'[q] = run[q]
      BY <1>1, <3>1 DEF Idle
    <3>3. ASSUME NEW q \in Procs, OnDisk(q) PROVE Running(q)
      BY <3>3, AtIs DEF IInv, OnDisk
    <3> QED
      BY <1>2, <3>1, <3>2, <3>3
  <2> QED
    BY <1>3, <2>1, <2>2 DEF Start
<1>4. ASSUME NEW p \in Procs, Die(p)
      PROVE  Alone'
  <2>1. run'[p].job = "died" /\ \A q \in Procs \ {p} : run'[q] = run[q]
    BY <1>1, <1>4 DEF Die, Records
  <2> QED
    BY <1>2, <2>1 DEF OnDisk
<1>5. ASSUME NEW p \in Procs, Does(p)
      PROVE  Alone'
  <2>1. Ahead(p) /\ run[p].pc \in Nat
    BY <1>5, DoesGoesAhead, WhereItIs
  <2>2. OnDisk(p)' => OnDisk(p)
    BY <2>1 DEF Ahead, OnDisk
  <2>3. OnDisk(p) => ~GetFree(p)
    BY AtIs, LabOps, DisklabOps DEF GetFree, IInv, OnDisk
  <2>4. OnDisk(p)' => \A q \in Procs \ {p} : ~(OnDisk(q) /\ run[q].dev = run'[p].dev)
    BY <1>1, <2>1, <2>2, <2>3 DEF Alone, Ahead
  <2> QED
    BY <1>2, <2>1, <2>4 DEF Ahead
<1>6. CASE run' = run
  BY <1>1, <1>6 DEF Alone, OnDisk
<1>7. ASSUME NEW d \in Devs, Open(d) \/ Close(d)
      PROVE  run' = run
  BY <1>7 DEF Open, Close
<1>8. CASE UNCHANGED vars
  BY <1>6, <1>8 DEF vars
<1> QED
  BY <1>3, <1>4, <1>5, <1>6, <1>7, <1>8 DEF Next, Does

\* Every step keeps an owner for each loop device in use.
LEMMA LoopsOwnedInv == IInv /\ [Next]_vars => LoopsOwned'
<1> SUFFICES ASSUME IInv, [Next]_vars, NEW l \in Loops, bound'[l] # Free
             PROVE  \/ l \in left' \/ bound'[l].last
                    \/ \E p \in Procs : Holds(p)' /\ run'[p].dev = l
  BY DEF LoopsOwned
<1> DEFINE Owned == \/ l \in left' \/ bound'[l].last
                    \/ \E p \in Procs : Holds(p)' /\ run'[p].dev = l
<1>1. TypeOK /\ LoopsOwned /\ l \in Devs /\ l \notin Disks /\ run \in [Procs -> Records]
  BY DevsApart DEF IInv, Devs, TypeOK, Records
\* A device bound as before stays owned unless its owner lets it go.
<1>2. ASSUME NEW p \in Procs, bound'[l] = bound[l], l \in left => l \in left',
             \A q \in Procs \ {p} : run'[q] = run[q],
             Holds(p) /\ run[p].dev = l => l \in left' \/ (Holds(p)' /\ run'[p].dev = l)
      PROVE  Owned
  <2>1. CASE l \in left \/ bound[l].last
    BY <1>2, <2>1
  <2>2. ASSUME NEW q \in Procs, Holds(q), run[q].dev = l
        PROVE  Owned
    <3>1. CASE q = p
      BY <1>2, <2>2, <3>1
    <3>2. CASE q # p
      BY <1>2, <2>2, <3>2 DEF Holds
    <3> QED
      BY <3>1, <3>2
  <2> QED
    BY <1>1, <1>2, <2>1, <2>2 DEF LoopsOwned
<1>3. ASSUME NEW p \in Procs, Start(p)
      PROVE  Owned
  <2>1. bound' = bound /\ left' = left /\ ~Running(p)
    BY <1>3 DEF Start
  <2>2. ~Holds(p)
    BY <1>1, <2>1, AtIs DEF IInv, Holds
  <2>3. \A q \in Procs \ {p} : run'[q] = run[q]
    BY <1>3, StartActs DEF Acted, Effects
  <2> QED
    BY <1>2, <2>1, <2>2, <2>3
<1>4. ASSUME NEW p \in Procs, Die(p)
      PROVE  Owned
  <2>1. bound' = bound /\ left' = left \cup {d \in {run[p].dev} \cap Devs : Medium(d) \in {p, d}}
    BY <1>4 DEF Die
  <2>2. \A q \in Procs \ {p} : run'[q] = run[q]
    BY <1>4, DieActs DEF Acted, Effects
  <2>3. Holds(p) /\ run[p].dev = l => l \in left'
    BY <1>1, <2>1, WhereItIs
  <2> QED
    BY <1>2, <2>1, <2>2, <2>3
<1>5. ASSUME NEW p \in Procs, Does(p), ~Configure(p), ~cmd_loop_detach(p)
      PROVE  Owned
  <2>1. bound' = bound /\ (l \in left => l \in left')
    BY <1>1, <1>5 DEF Does, Look, cmd_mkimg, GetFree, cmd_mkpt, cmd_corrupt, cmd_reread
  <2>2. Ahead(p) /\ run[p].pc \in Nat
    BY <1>5, DoesGoesAhead, WhereItIs
  <2>3. ASSUME Holds(p)
        PROVE  ~GetFree(p) /\ Holds(p)'
    <3>1. ~GetFree(p)
      BY <2>3, AtIs, LabOps, DisklabOps DEF GetFree, IInv, Holds
    <3>2. run[p].pc \notin {9, 27}
      <4>1. CASE Look(p)
        BY <2>3, <4>1, AtIs, LabOps, DisklabOps DEF Look, IInv, Holds
      <4>2. CASE cmd_mkimg(p)
        BY <2>3, <4>2, AtIs, LabOps, DisklabOps DEF cmd_mkimg, IInv, Holds
      <4>3. CASE cmd_mkpt(p)
        BY <2>3, <4>3, AtIs, LabOps, DisklabOps DEF cmd_mkpt, IInv, Holds
      <4>4. CASE cmd_corrupt(p)
        BY <2>3, <4>4, AtIs, LabOps, DisklabOps DEF cmd_corrupt, IInv, Holds
      <4>5. CASE cmd_reread(p)
        BY <2>3, <4>5, AtIs, LabOps, DisklabOps DEF cmd_reread, IInv, Holds
      <4> QED
        BY <1>5, <3>1, <4>1, <4>2, <4>3, <4>4, <4>5 DEF Does
    <3> QED
      BY <2>2, <2>3, <3>1, <3>2 DEF Holds, Ahead
  <2> QED
    BY <1>2, <2>1, <2>2, <2>3 DEF Ahead
<1>6. ASSUME NEW p \in Procs, Configure(p)
      PROVE  Owned
  <2>1. Ahead(p) /\ ~GetFree(p) /\ run[p].job = "lab" /\ run[p].pc \in {4, 11}
    BY <1>6, DoesGoesAhead, AtIs, LabOps, DisklabOps DEF Does, Configure, GetFree, IInv
  <2>2. Holds(p)' /\ run'[p].dev = run[p].dev /\ ~Holds(p)
    BY <2>1 DEF Holds, Ahead
  <2>3. CASE l = run[p].dev
    BY <2>2, <2>3
  <2>4. CASE l # run[p].dev
    <3>1. bound'[l] = bound[l] /\ left' = left
      BY <1>1, <1>6, <2>4 DEF Configure, BindTo, TypeOK
    <3> QED
      BY <1>2, <2>1, <2>2, <3>1 DEF Ahead
  <2> QED
    BY <2>3, <2>4
<1>7. ASSUME NEW p \in Procs, cmd_loop_detach(p)
      PROVE  Owned
  <2>1. Ahead(p)
    BY <1>7, DoesGoesAhead DEF Does
  <2>2. CASE l = run[p].dev
    BY <1>1, <1>7, <2>2 DEF cmd_loop_detach, TypeOK
  <2>3. CASE l # run[p].dev
    <3>1. bound'[l] = bound[l] /\ left' = left
      BY <1>1, <1>7, <2>3 DEF cmd_loop_detach, TypeOK
    <3> QED
      BY <1>2, <2>1, <2>3, <3>1 DEF Ahead
  <2> QED
    BY <2>2, <2>3
<1>8. ASSUME run' = run, left' = left, bound'[l] = bound[l]
      PROVE  Owned
  BY <1>1, <1>8 DEF LoopsOwned, Holds
<1>9. ASSUME NEW d \in Devs, Open(d) \/ Close(d)
      PROVE  Owned
  <2>1. run' = run /\ left' = left /\ bound'[l] = bound[l]
    BY <1>1, <1>9 DEF Open, Close, TypeOK
  <2> QED
    BY <1>8, <2>1
<1>10. CASE UNCHANGED vars
  BY <1>8, <1>10 DEF vars
<1> QED
  BY <1>3, <1>4, <1>5, <1>6, <1>7, <1>9, <1>10 DEF Next, Does

\* Every step keeps someone to answer for a table on a disk.
LEMMA DisksOwnedInv == IInv /\ [Next]_vars => DisksOwned'
<1> SUFFICES ASSUME IInv, [Next]_vars, NEW d \in Disks, media'[d] # Blank(DiskSize[d])
             PROVE  d \in left' \/ \E p \in Procs : OnDisk(p)' /\ run'[p].dev = d
  BY DEF DisksOwned
<1> DEFINE Owned == d \in left' \/ \E p \in Procs : OnDisk(p)' /\ run'[p].dev = d
<1>1. /\ TypeOK /\ DisksOwned /\ d \in Devs /\ d \in Media /\ run \in [Procs -> Records]
      /\ media[d].size = DiskSize[d]
  BY DEF IInv, Devs, Media, TypeOK, Records, DisksKeepSize
\* What was there already has someone to answer for it, unless that one has wiped it.
<1>2. ASSUME NEW p \in Procs, media'[d] = media[d], d \in left => d \in left',
             \A q \in Procs \ {p} : run'[q] = run[q],
             OnDisk(p) /\ run[p].dev = d => d \in left' \/ (OnDisk(p)' /\ run'[p].dev = d)
      PROVE  Owned
  <2>1. CASE d \in left
    BY <1>2, <2>1
  <2>2. ASSUME NEW q \in Procs, OnDisk(q), run[q].dev = d
        PROVE  Owned
    <3>1. CASE q = p
      BY <1>2, <2>2, <3>1
    <3>2. CASE q # p
      BY <1>2, <2>2, <3>2 DEF OnDisk
    <3> QED
      BY <3>1, <3>2
  <2> QED
    BY <1>1, <1>2, <2>1, <2>2 DEF DisksOwned
<1>3. ASSUME NEW p \in Procs, Start(p)
      PROVE  Owned
  <2>1. media' = media /\ left' = left /\ ~Running(p)
    BY <1>3 DEF Start
  <2>2. ~OnDisk(p)
    BY <1>1, <2>1, AtIs, WhereItIs DEF IInv, OnDisk
  <2>3. \A q \in Procs \ {p} : run'[q] = run[q]
    BY <1>3, StartActs DEF Acted, Effects
  <2> QED
    BY <1>2, <2>1, <2>2, <2>3
<1>4. ASSUME NEW p \in Procs, Die(p)
      PROVE  Owned
  <2>1. left' = left \cup {e \in {run[p].dev} \cap Devs : Medium(e) \in {p, e}}
    BY <1>4 DEF Die
  <2>2. \A q \in Procs \ {p} : run'[q] = run[q]
    BY <1>4, DieActs DEF Acted, Effects
  <2>3. OnDisk(p) /\ run[p].dev = d => d \in left'
    BY <1>1, <2>1 DEF Medium
  <2>4. media'[d] = media[d]
    <3>1. d # p
      BY <1>1, DevsApart
    <3> QED
      BY <1>1, <1>4, <3>1 DEF Die, TypeOK
  <2> QED
    BY <1>2, <2>1, <2>2, <2>3, <2>4
<1>5. ASSUME NEW p \in Procs, Does(p), OnDisk(p), run[p].dev = d
      PROVE  Owned
  <2>1. Ahead(p) /\ run[p].pc \in 1 .. 13 /\ DiskPlace(p) /\ run[p].job = "disklab"
    BY <1>5, DoesGoesAhead, WhereItIs DEF OnDisk
  <2>2. run[p].pc # 13
    <3> SUFFICES ASSUME run[p].pc = 13 PROVE FALSE
      OBVIOUS
    <3>1. media[d] = Blank(DiskSize[d])
      BY <1>5, <2>1 DEF DiskPlace
    <3>2. ASSUME NEW op \in {"mkimg", "get_free", "bind", "scanbind", "mkpt", "sig", "entry",
                             "all", "reread", "unbind"}
          PROVE  ~At(p, op)
      BY <2>1, AtIs, DisklabOps DEF IInv
    <3>3. Look(p)
      BY <1>5, <3>2 DEF Does, cmd_mkimg, GetFree, Configure, cmd_mkpt, cmd_corrupt, cmd_reread,
                        cmd_loop_detach
    <3> QED
      BY <1>5, <2>1, <3>1, <3>3 DEF Look
  <2>3. ~GetFree(p)
    BY <2>1, AtIs, DisklabOps DEF GetFree, IInv
  <2> QED
    BY <1>5, <2>1, <2>2, <2>3 DEF Ahead, OnDisk
<1>6. ASSUME NEW p \in Procs, Does(p), ~(OnDisk(p) /\ run[p].dev = d)
      PROVE  Owned
  <2>1. Ahead(p) /\ Acted(p)
    BY <1>6, DoesGoesAhead
  <2>2. ~(Acts(p) /\ d = Own(p))
    <3>1. CASE OnDisk(p)
      BY <1>6, <3>1, WhereItIs
    <3>2. CASE run[p].job = "lab"
      BY <1>1, <3>2, DevsApart DEF Own
    <3> QED
      BY <3>1, <3>2 DEF Acts
  <2>3. media'[d] = media[d]
    BY <1>1, <2>1, <2>2 DEF Acted, Effects
  <2>4. d \in left => d \in left'
    <3>1. CASE cmd_corrupt(p)
      <4>1. Medium(run[p].dev) # d
        <5>1. Holds(p) \/ OnDisk(p)
          BY <3>1, AtIs, LabOps, DisklabOps DEF cmd_corrupt, IInv, Holds, OnDisk
        <5>2. CASE Holds(p)
          BY <1>1, <5>2, WhereItIs, DevsApart
        <5>3. CASE OnDisk(p)
          BY <1>6, <5>3, WhereItIs
        <5> QED
          BY <5>1, <5>2, <5>3
      <4> QED
        BY <3>1, <4>1 DEF cmd_corrupt
    <3>2. CASE ~cmd_corrupt(p)
      BY <1>6, <3>2 DEF Does, Look, cmd_mkimg, GetFree, Configure, cmd_mkpt, cmd_reread,
                        cmd_loop_detach
    <3> QED
      BY <3>1, <3>2
  <2> QED
    BY <1>2, <1>6, <2>1, <2>3, <2>4 DEF Ahead
<1>7. ASSUME run' = run, left' = left, media' = media
      PROVE  Owned
  BY <1>1, <1>7 DEF DisksOwned, OnDisk
<1>8. ASSUME NEW e \in Devs, Open(e) \/ Close(e)
      PROVE  Owned
  BY <1>7, <1>8 DEF Open, Close
<1>9. CASE UNCHANGED vars
  BY <1>7, <1>9 DEF vars
<1> QED
  BY <1>3, <1>4, <1>5, <1>6, <1>8, <1>9 DEF Next, Does

------------------------------------------------------------------------------
(* The theorems *)

\* The invariant holds at the start and through every step of the experiments
\* and of the programs beside them (main, ptab_lab.c:528-551).
THEOREM PtabLabInv == Spec => []IInv
<1>1. Init => IInv
  <2> SUFFICES ASSUME Init PROVE IInv
    OBVIOUS
  <2>1. \A m \in Media : media[m] = Blank(IF m \in Disks THEN DiskSize[m] ELSE 0)
    BY DEF Init
  <2>2. \A d \in Disks : media[d] = Blank(DiskSize[d]) /\ media[d].size = DiskSize[d]
    BY <2>1 DEF Media, Blank, Table
  <2>3. media \in [Media -> Tables]
    BY SizesAssumption DEF Init, Blank, Table, Tables
  <2>4. \A m \in Media : media[m].nsect = 0
    <3>1. \A size : Blank(size).nsect = 0
      BY DEF Blank, Table
    <3> QED
      BY <2>1, <3>1
  <2>5. run \in [Procs -> Records] /\ \A p \in Procs : run[p] = Idle
    BY DEF Init, Idle, Records
  <2>6. TypeOK
    BY <2>3, <2>5, BoundsAssumption DEF Init, TypeOK, Free, Tables, Records
  <2>7. \A p \in Procs : run[p].job = "idle" /\ run[p].pc = 1
    BY <2>5 DEF Idle
  <2>8. Places /\ Alone
    BY <2>7 DEF Places, LabPlace, DiskPlace, Alone, OnDisk
  <2>9. \A l \in Loops : bound[l] = Free
    BY DEF Init
  <2> QED
    BY <2>2, <2>4, <2>6, <2>8, <2>9 DEF IInv, DisksKeepSize, LoopsOwned, DisksOwned, EntryFits
<1>2. IInv /\ [Next]_vars => IInv'
  BY TypeInv, PlacesInv, AloneInv, MediaInv, LoopsOwnedInv, DisksOwnedInv DEF IInv
<1> QED
  BY <1>1, <1>2, PTL DEF Spec

\* A table never says more than its fields can hold, and only a device that is
\* bound has a partition or a user.
THEOREM PtabTypeCorrect == Spec => []TypeOK
<1>1. IInv => TypeOK
  BY DEF IInv
<1> QED
  BY <1>1, PtabLabInv, PTL

\* Whatever the size of a disk, the entry mkpt writes ends on it, and where it
\* ends when 32 bits can say so (cmd_mkpt, ptab_lab.c:151-175).
THEOREM EntryFitsCorrect == Spec => []EntryFits
<1>1. IInv => EntryFits
  BY DEF IInv
<1> QED
  BY <1>1, PtabLabInv, PTL

\* A loop device in use and a table on a disk always have an experiment that
\* runs, one that died, or a last user to answer for them (ptab_lab.c:417-506).
THEOREM LeftAsFoundCorrect == Spec => []LeftAsFound
<1>1. IInv => LeftAsFound
  <2> SUFFICES ASSUME IInv PROVE LeftAsFound
    OBVIOUS
  <2>1. ASSUME NEW p \in Procs, Holds(p)
        PROVE  Running(p) /\ bound[run[p].dev].file = p
    BY <2>1, AtIs, WhereItIs DEF IInv, Holds
  <2>2. ASSUME NEW p \in Procs, OnDisk(p)
        PROVE  Running(p)
    BY <2>2, AtIs, WhereItIs DEF IInv, OnDisk
  <2> QED
    BY <2>1, <2>2 DEF IInv, LoopsOwned, DisksOwned, LeftAsFound
<1> QED
  BY <1>1, PtabLabInv, PTL

\* Every listing of the two scripts shows what the text beside it says, for
\* every number of experiments at a time and every disk (ptab_lab.c:417-506).
THEOREM LabShowsCorrect == Spec => []LabShows
<1>1. IInv => LabShows
  <2> SUFFICES ASSUME IInv, NEW p \in Procs
               PROVE  /\ At(p, "p1") => Shows(p) \/ run[p].blocked \/ EntryIsEmpty(p)
                      /\ At(p, "none") => ~Shows(p) \/ run[p].blocked
    BY DEF LabShows
  <2>1. TypeOK /\ LabPlace(p) /\ DiskPlace(p)
    BY WhereItIs
  <2>2. ASSUME At(p, "p1")
        PROVE  Shows(p) \/ run[p].blocked \/ EntryIsEmpty(p)
    <3>1. \/ run[p].job = "lab" /\ run[p].pc \in {12, 14, 19}
          \/ run[p].job = "disklab" /\ run[p].pc \in {4, 6}
      BY <2>2, AtIs, LabOps, DisklabOps DEF IInv
    <3>2. Seen(p)
      BY <2>1, <3>1 DEF LabPlace, DiskPlace
    <3>3. Medium(run[p].dev) \in {p, run[p].dev}
      <4>1. CASE run[p].job = "lab"
        BY <3>1, <4>1, WhereItIs DEF Holds
      <4>2. CASE run[p].job = "disklab"
        BY <3>1, <4>2, WhereItIs DEF OnDisk
      <4> QED
        BY <3>1, <4>1, <4>2
    <3>4. CASE Rest(media[Own(p)].size) = 0
      BY <3>4 DEF EntryIsEmpty, Own
    <3>5. CASE run[p].dev \in view
      BY <3>3, <3>5 DEF Shows
    <3> QED
      BY <3>2, <3>4, <3>5 DEF Seen
  <2>3. ASSUME At(p, "none"), Shows(p), ~run[p].blocked
        PROVE  FALSE
    <3>1. \/ run[p].job = "lab" /\ run[p].pc \in {5, 8, 16, 22, 25, 28}
          \/ run[p].job = "disklab" /\ run[p].pc \in {8, 12}
      BY <2>3, AtIs, LabOps, DisklabOps DEF IInv
    <3>2. run[p].dev \in view /\ Medium(run[p].dev) \in {p, run[p].dev} /\ ~Unseen(p)
      BY <2>3 DEF Shows, Unseen
    <3>3. CASE run[p].job = "disklab" \/ run[p].pc \in {16, 22, 25}
      BY <2>1, <3>1, <3>2, <3>3 DEF LabPlace, DiskPlace
    <3>4. CASE run[p].job = "lab" /\ run[p].pc \in {5, 8}
      BY <2>1, <3>2, <3>4 DEF LabPlace, Holds, TypeOK
    <3>5. CASE run[p].job = "lab" /\ run[p].pc = 28
      <4>1. run[p].dev \in Loops /\ bound[run[p].dev].file # p
        BY <2>1, <3>2, <3>5 DEF LabPlace
      <4>2. bound[run[p].dev].file \in Procs \cup {None}
        BY <2>1, <4>1, TypeFields
      <4> QED
        BY <3>2, <4>1, <4>2, DevsApart DEF Medium, Devs
    <3> QED
      BY <3>1, <3>3, <3>4, <3>5
  <2> QED
    BY <2>2, <2>3
<1> QED
  BY <1>1, PtabLabInv, PTL

\* An experiment writes to its own image or disk and to no other, whoever takes
\* and leaves the loop devices meanwhile (cmd_loop_attach, ptab_lab.c:328-360).
THEOREM OwnMediumOnlyCorrect == Spec => OwnMediumOnly
<1> DEFINE Kept == \A m \in Media :
              media'[m] # media[m] =>
                \E p \in Procs : /\ run'[p] # run[p]
                                 /\ m = IF run[p].job = "lab" THEN p ELSE run[p].dev
<1>1. IInv /\ [Next]_vars => [Kept]_vars
  <2> SUFFICES ASSUME IInv, Next, NEW m \in Media, media'[m] # media[m]
               PROVE  \E p \in Procs : /\ run'[p] # run[p]
                                       /\ m = IF run[p].job = "lab" THEN p ELSE run[p].dev
    OBVIOUS
  <2>1. ASSUME NEW p \in Procs, Effects(p), run'[p] # run[p]
        PROVE  run'[p] # run[p] /\ m = IF run[p].job = "lab" THEN p ELSE run[p].dev
    BY <2>1 DEF Effects, Own
  <2>2. ASSUME NEW p \in Procs, Does(p)
        PROVE  Effects(p) /\ run'[p] # run[p]
    BY <2>2, DoesGoesAhead, WhereItIs DEF Ahead, Acted
  <2>3. ASSUME NEW p \in Procs, Die(p)
        PROVE  Effects(p) /\ run'[p] # run[p]
    <3>1. run'[p].job = "died"
      BY <2>3, WhereItIs DEF Die, IInv, TypeOK
    <3>2. run[p].job # "died"
      BY <2>3, AtIs DEF Die, IInv
    <3> QED
      BY <2>3, <3>1, <3>2, DieActs DEF Acted
  <2>4. ASSUME NEW p \in Procs, Start(p)
        PROVE  FALSE
    BY <2>4 DEF Start
  <2>5. ASSUME NEW d \in Devs, Open(d) \/ Close(d)
        PROVE  FALSE
    BY <2>5 DEF Open, Close
  <2> QED
    BY <2>1, <2>2, <2>3, <2>4, <2>5 DEF Next, Does
<1> HIDE DEF Kept
<1>2. Spec => [][Kept]_vars
  BY <1>1, PtabLabInv, PTL DEF Spec
<1> QED
  BY <1>2 DEF OwnMediumOnly, Kept

==============================================================================
