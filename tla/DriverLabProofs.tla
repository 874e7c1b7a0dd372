---------------------------- MODULE DriverLabProofs ----------------------------
(***************************************************************************)
(* Proofs about DriverLab, for any users, echo buffer, disk and tags: the  *)
(* life of the five drivers, then the disk and the echo device.            *)
(***************************************************************************)
EXTENDS DriverLab, SequenceTheorems, TLAPS

------------------------------------------------------------------------------
(* What the tables of init and exit calls amount to *)

\* What init holds for sure when its call j is next, and what it may hold.
Must == [ misc_echo |-> << {} >>,
          memdemo   |-> << {}, {}, {}, {}, Buffers >>,
          gpioirq   |-> << {}, {"gpio"}, {"gpio", "irq"} >>,
          ramdisk   |-> << {}, {"data"}, {"data", "tags"},
                           {"data", "tags", "disk"},
                           {"data", "tags", "disk", "major"} >>,
          twodev    |-> << {}, {"region"}, {"region"}, {"region", "cdev0"},
                           {"region", "class", "cdev0", "node0"},
                           {"region", "class", "cdev0", "node0", "cdev1"} >> ]
May  == [ misc_echo |-> << {} >>,
          memdemo   |-> << {}, {"small_p"}, {"small_p", "zero_p"}, Buffers, Buffers >>,
          gpioirq   |-> Must.gpioirq,
          ramdisk   |-> Must.ramdisk,
          twodev    |-> << {}, {"region"}, {"region", "class"},
                           {"region", "class", "cdev0"},
                           {"region", "class", "cdev0", "node0"},
                           {"region", "class", "cdev0", "node0", "cdev1"} >> ]

\* A list of releases that gives back all of H ...
Complete(list, H) == \A r \in H : \E j \in 1 .. Len(list) : list[j] = r
\* ... nothing that something still held works with ...
Ordered(list, H) ==
  \A j \in 1 .. Len(list) : \A r \in H :
    list[j] \in Needs(r) => \E i \in 1 .. j - 1 : list[i] = r
\* ... and nothing that is not held, so nothing twice.
Exact(list, H) ==
  /\ \A j \in 1 .. Len(list) : list[j] \in H \cup Harmless
  /\ \A i, j \in 1 .. Len(list) : list[i] = list[j] => i = j

Openings == {"misc", "added", "node0", "node1"}

\* Call j of d's init takes it from what it holds at j to what it holds at
\* j + 1, or in the end to all of it; and its failure path fits what is held.
TableOK(d, j) ==
  LET c == Calls[d][j] IN
  /\ j < Len(Calls[d]) => /\ Must[d][j + 1] \subseteq Must[d][j] \cup c.get \cup c.needs
                          /\ May[d][j] \cup c.get \subseteq May[d][j + 1]
  /\ j = Len(Calls[d]) => /\ Acquired(d) \subseteq Must[d][j] \cup c.get
                          /\ May[d][j] \cup c.get \subseteq Acquired(d)
  /\ c.onfail = "proceed" => /\ j < Len(Calls[d])
                           /\ Must[d][j + 1] \subseteq Must[d][j]
  /\ c.onfail = "undo" =>
       /\ c.undo \in Seq(Resources)
       /\ \A H \in SUBSET Resources : Must[d][j] \subseteq H /\ H \subseteq May[d][j] =>
            Complete(c.undo, H) /\ Ordered(c.undo, H) /\ Exact(c.undo, H)
  /\ d # "twodev" => May[d][j] \cap Openings = {} /\ c.code = "errno"
  /\ d = "twodev" => c.onfail # "return"

TablesOK == \A d \in Drivers : \A j \in DOMAIN Calls[d] : TableOK(d, j)

ExitsOK == \A d \in Drivers : /\ Exit[d] \in Seq(Resources)
                            /\ Complete(Exit[d], Acquired(d))
                            /\ Ordered(Exit[d], Acquired(d))
                            /\ Exact(Exit[d], Acquired(d))

\* A sequence is a concatenation if it is so element by element.
LEMMA ConcatIs ==
  ASSUME NEW S, NEW s \in Seq(S), NEW t \in Seq(S), NEW u \in Seq(S),
         Len(u) = Len(s) + Len(t), \A i \in 1 .. Len(s) : u[i] = s[i],
         \A i \in 1 .. Len(t) : u[Len(s) + i] = t[i]
  PROVE  s \o t = u
<1>1. s \o t \in Seq(S) /\ Len(s \o t) = Len(u)
  OBVIOUS
<1>2. \A i \in 1 .. Len(u) : (s \o t)[i] = u[i]
  <2> SUFFICES ASSUME NEW i \in 1 .. Len(u) PROVE (s \o t)[i] = u[i]
    OBVIOUS
  <2>1. CASE i <= Len(s)
    BY <2>1
  <2>2. CASE i > Len(s)
    <3>1. i - Len(s) \in 1 .. Len(t) /\ i = Len(s) + (i - Len(s))
      BY <2>2
    <3> QED
      BY <2>2, <3>1
  <2> QED
    BY <2>1, <2>2
<1> QED
  BY <1>1, <1>2, SeqEqual

\* The error paths of td_init (twodev.c:170-177): what err_undo of device i
\* releases, and the lists that continue with it.
LEMMA TwodevUndoIs ==
  /\ TwodevUndo(0) = <<"class", "region">>
  /\ TwodevUndo(1) = <<"node0", "cdev0", "class", "region">>
  /\ <<"cdev0">> \o TwodevUndo(0) = <<"cdev0", "class", "region">>
  /\ <<"cdev1">> \o TwodevUndo(1) = <<"cdev1", "node0", "cdev0", "class", "region">>
<1> DEFINE S == {"class", "region", "node0", "cdev0", "cdev1"}
<1>1. TwodevUndo(0) = <<"class", "region">>
  BY DEF TwodevUndo
<1>2. <<"node0", "cdev0">> \o <<"class", "region">>
        = <<"node0", "cdev0", "class", "region">>
  <2> DEFINE s == <<"node0", "cdev0">>
             t == <<"class", "region">>
             u == <<"node0", "cdev0", "class", "region">>
  <2>1. s \in Seq(S) /\ t \in Seq(S) /\ u \in Seq(S) /\ Len(u) = Len(s) + Len(t)
    OBVIOUS
  <2>2. \A i \in 1 .. Len(s) : u[i] = s[i]
    OBVIOUS
  <2>3. \A i \in 1 .. Len(t) : u[Len(s) + i] = t[i]
    OBVIOUS
  <2> HIDE DEF s, t, u
  <2>4. s \o t = u
    BY <2>1, <2>2, <2>3, ConcatIs
  <2> QED
    BY <2>4 DEF s, t, u
<1>3. TwodevUndo(1) = <<"node0", "cdev0", "class", "region">>
  BY <1>2 DEF TwodevUndo
<1>4. <<"cdev0">> \o <<"class", "region">> = <<"cdev0", "class", "region">>
  <2> DEFINE s == <<"cdev0">>
             t == <<"class", "region">>
             u == <<"cdev0", "class", "region">>
  <2>1. s \in Seq(S) /\ t \in Seq(S) /\ u \in Seq(S) /\ Len(u) = Len(s) + Len(t)
    OBVIOUS
  <2>2. \A i \in 1 .. Len(s) : u[i] = s[i]
    OBVIOUS
  <2>3. \A i \in 1 .. Len(t) : u[Len(s) + i] = t[i]
    OBVIOUS
  <2> HIDE DEF s, t, u
  <2>4. s \o t = u
    BY <2>1, <2>2, <2>3, ConcatIs
  <2> QED
    BY <2>4 DEF s, t, u
<1>5. <<"cdev1">> \o <<"node0", "cdev0", "class", "region">>
        = <<"cdev1", "node0", "cdev0", "class", "region">>
  <2> DEFINE s == <<"cdev1">>
             t == <<"node0", "cdev0", "class", "region">>
             u == <<"cdev1", "node0", "cdev0", "class", "region">>
  <2>1. s \in Seq(S) /\ t \in Seq(S) /\ u \in Seq(S) /\ Len(u) = Len(s) + Len(t)
    OBVIOUS
  <2>2. \A i \in 1 .. Len(s) : u[i] = s[i]
    OBVIOUS
  <2>3. \A i \in 1 .. Len(t) : u[Len(s) + i] = t[i]
    OBVIOUS
  <2> HIDE DEF s, t, u
  <2>4. s \o t = u
    BY <2>1, <2>2, <2>3, ConcatIs
  <2> QED
    BY <2>4 DEF s, t, u
<1> QED
  BY <1>1, <1>3, <1>4, <1>5

\* The parts of call c.
Is(c, get, needs, onfail, undo, code) ==
  /\ c.get = get /\ c.needs = needs /\ c.onfail = onfail
  /\ c.undo = undo /\ c.code = code

\* What the shapes of a call in DriverLife come to.
LEMMA CallsAre ==
  /\ \A r, u : Is(Checked(r, u), {r}, {}, "undo", u, "errno")
  /\ \A r : Is(Returned(r), {r}, {}, "return", <<>>, "errno")
  /\ \A r : Is(Unchecked(r), {r}, {}, "proceed", <<>>, "errno")
  /\ Is(Call({}, Buffers, "undo", FreeBuffers, "errno"), {}, Buffers, "undo",
        FreeBuffers, "errno")
  /\ \A n, cdev, i : Is(TwodevNode(n, cdev, i), {n}, {"class"}, "undo",
                        <<cdev>> \o TwodevUndo(i), "address")
<1>1. \A r, u : Is(Checked(r, u), {r}, {}, "undo", u, "errno")
  BY DEF Checked, Call, Is
<1>2. \A r : Is(Returned(r), {r}, {}, "return", <<>>, "errno")
  BY DEF Returned, Call, Is
<1>3. \A r : Is(Unchecked(r), {r}, {}, "proceed", <<>>, "errno")
  BY DEF Unchecked, Call, Is
<1>4. Is(Call({}, Buffers, "undo", FreeBuffers, "errno"), {}, Buffers, "undo",
         FreeBuffers, "errno")
  BY DEF Call, Is
<1>5. \A n, cdev, i : Is(TwodevNode(n, cdev, i), {n}, {"class"}, "undo",
                         <<cdev>> \o TwodevUndo(i), "address")
  BY DEF TwodevNode, Call, Is
<1> QED
  BY <1>1, <1>2, <1>3, <1>4, <1>5

\* The tables, call by call, and the lists of the exit functions.
LEMMA MiscEchoTable ==
  /\ Len(Calls["misc_echo"]) = 1 /\ DOMAIN Calls["misc_echo"] = 1 .. 1
  /\ Is(Calls["misc_echo"][1], {"misc"}, {}, "return", <<>>, "errno")
  /\ Exit["misc_echo"] = <<"misc">>
<1>1. Calls["misc_echo"] = MiscEchoCalls /\ Exit["misc_echo"] = MiscEchoExit
  BY DEF Calls, Exit
<1>2. /\ MiscEchoCalls[1] = Returned("misc")
      /\ Len(MiscEchoCalls) = 1 /\ DOMAIN MiscEchoCalls = 1 .. 1
  BY DEF MiscEchoCalls
<1> QED
  BY <1>1, <1>2, CallsAre DEF MiscEchoExit

\* What is held before each call of memdemo_init.
LEMMA MemdemoTable ==
  /\ Len(Calls["memdemo"]) = 5 /\ DOMAIN Calls["memdemo"] = 1 .. 5
  /\ Is(Calls["memdemo"][1], {"small_p"}, {}, "proceed", <<>>, "errno")
  /\ Is(Calls["memdemo"][2], {"zero_p"}, {}, "proceed", <<>>, "errno")
  /\ Is(Calls["memdemo"][3], {"big_v"}, {}, "proceed", <<>>, "errno")
  /\ Is(Calls["memdemo"][4], {}, Buffers, "undo", <<"small_p", "zero_p", "big_v">>, "errno")
  /\ Is(Calls["memdemo"][5], {"misc"}, {}, "return", <<>>, "errno")
  /\ Exit["memdemo"] = <<"misc", "small_p", "zero_p", "big_v">>
<1>1. Calls["memdemo"] = MemdemoCalls /\ Exit["memdemo"] = MemdemoExit
  BY DEF Calls, Exit
<1>2. /\ MemdemoCalls[1] = Unchecked("small_p")
      /\ MemdemoCalls[2] = Unchecked("zero_p")
      /\ MemdemoCalls[3] = Unchecked("big_v")
      /\ MemdemoCalls[4] = Call({}, Buffers, "undo", FreeBuffers, "errno")
      /\ MemdemoCalls[5] = Returned("misc")
      /\ Len(MemdemoCalls) = 5 /\ DOMAIN MemdemoCalls = 1 .. 5
  BY DEF MemdemoCalls
<1>3. <<"misc">> \o <<"small_p", "zero_p", "big_v">>
        = <<"misc", "small_p", "zero_p", "big_v">>
  <2> DEFINE S == {"misc", "small_p", "zero_p", "big_v"}
             s == <<"misc">>
             t == <<"small_p", "zero_p", "big_v">>
             u == <<"misc", "small_p", "zero_p", "big_v">>
  <2>1. s \in Seq(S) /\ t \in Seq(S) /\ u \in Seq(S) /\ Len(u) = Len(s) + Len(t)
    OBVIOUS
  <2>2. \A i \in 1 .. Len(s) : u[i] = s[i]
    OBVIOUS
  <2>3. \A i \in 1 .. Len(t) : u[Len(s) + i] = t[i]
    OBVIOUS
  <2> HIDE DEF s, t, u
  <2>4. s \o t = u
    BY <2>1, <2>2, <2>3, ConcatIs
  <2> QED
    BY <2>4 DEF s, t, u
<1> QED
  BY <1>1, <1>2, <1>3, CallsAre DEF MemdemoExit, FreeBuffers

\* What is held before each call of gpioirq's init.
LEMMA GpioirqTable ==
  /\ Len(Calls["gpioirq"]) = 3 /\ DOMAIN Calls["gpioirq"] = 1 .. 3
  /\ Is(Calls["gpioirq"][1], {"gpio"}, {}, "undo", <<>>, "errno")
  /\ Is(Calls["gpioirq"][2], {"irq"}, {}, "undo", <<"gpio">>, "errno")
  /\ Is(Calls["gpioirq"][3], {"misc"}, {}, "return", <<>>, "errno")
  /\ Exit["gpioirq"] = <<"misc", "irq", "gpio">>
<1>1. Calls["gpioirq"] = GpioirqCalls /\ Exit["gpioirq"] = GpioirqExit
  BY DEF Calls, Exit
<1>2. /\ GpioirqCalls[1] = Checked("gpio", <<>>)
      /\ GpioirqCalls[2] = Checked("irq", <<"gpio">>)
      /\ GpioirqCalls[3] = Returned("misc")
      /\ Len(GpioirqCalls) = 3 /\ DOMAIN GpioirqCalls = 1 .. 3
  BY DEF GpioirqCalls
<1> QED
  BY <1>1, <1>2, CallsAre DEF GpioirqExit

\* What is held before each call of ramdisk's init.
LEMMA RamdiskTable ==
  /\ Len(Calls["ramdisk"]) = 5 /\ DOMAIN Calls["ramdisk"] = 1 .. 5
  /\ Is(Calls["ramdisk"][1], {"data"}, {}, "undo", <<>>, "errno")
  /\ Is(Calls["ramdisk"][2], {"tags"}, {}, "undo", <<"data">>, "errno")
  /\ Is(Calls["ramdisk"][3], {"disk"}, {}, "undo", <<"tags", "data">>, "errno")
  /\ Is(Calls["ramdisk"][4], {"major"}, {}, "undo", <<"disk", "tags", "data">>, "errno")
  /\ Is(Calls["ramdisk"][5], {"added"}, {}, "undo", <<"major", "disk", "tags", "data">>, "errno")
  /\ Exit["ramdisk"] = <<"added", "disk", "tags", "major", "data">>
<1>1. Calls["ramdisk"] = RamdiskCalls /\ Exit["ramdisk"] = RamdiskExit
  BY DEF Calls, Exit
<1>2. /\ RamdiskCalls[1] = Checked("data", <<>>)
      /\ RamdiskCalls[2] = Checked("tags", <<"data">>)
      /\ RamdiskCalls[3] = Checked("disk", <<"tags", "data">>)
      /\ RamdiskCalls[4] = Checked("major", <<"disk", "tags", "data">>)
      /\ RamdiskCalls[5] = Checked("added", <<"major", "disk", "tags", "data">>)
      /\ Len(RamdiskCalls) = 5 /\ DOMAIN RamdiskCalls = 1 .. 5
  BY DEF RamdiskCalls
<1> QED
  BY <1>1, <1>2, CallsAre DEF RamdiskExit

\* What is held before each call of td_init.
LEMMA TwodevTable ==
  /\ Len(Calls["twodev"]) = 6 /\ DOMAIN Calls["twodev"] = 1 .. 6
  /\ Is(Calls["twodev"][1], {"region"}, {}, "undo", <<>>, "errno")
  /\ Is(Calls["twodev"][2], {"class"}, {}, "proceed", <<>>, "errno")
  /\ Is(Calls["twodev"][3], {"cdev0"}, {}, "undo", <<"class", "region">>, "errno")
  /\ Is(Calls["twodev"][4], {"node0"}, {"class"}, "undo", <<"cdev0", "class", "region">>, "address")
  /\ Is(Calls["twodev"][5], {"cdev1"}, {}, "undo", <<"node0", "cdev0", "class", "region">>, "errno")
  /\ Is(Calls["twodev"][6], {"node1"}, {"class"}, "undo", <<"cdev1", "node0", "cdev0", "class", "region">>, "address")
  /\ Exit["twodev"] = <<"node0", "cdev0", "node1", "cdev1", "class", "region">>
<1>1. Calls["twodev"] = TwodevCalls /\ Exit["twodev"] = TwodevExit
  BY DEF Calls, Exit
<1>2. /\ TwodevCalls[1] = Checked("region", <<>>)
      /\ TwodevCalls[2] = Unchecked("class")
      /\ TwodevCalls[3] = Checked("cdev0", TwodevUndo(0))
      /\ TwodevCalls[4] = TwodevNode("node0", "cdev0", 0)
      /\ TwodevCalls[5] = Checked("cdev1", TwodevUndo(1))
      /\ TwodevCalls[6] = TwodevNode("node1", "cdev1", 1)
      /\ Len(TwodevCalls) = 6 /\ DOMAIN TwodevCalls = 1 .. 6
  BY DEF TwodevCalls
<1> QED
  BY <1>1, <1>2, CallsAre, TwodevUndoIs DEF TwodevExit

\* Everything each driver asks the kernel for.
LEMMA AcquiredAre ==
  /\ Acquired("misc_echo") = {"misc"}
  /\ Acquired("memdemo") = {"misc", "small_p", "zero_p", "big_v"}
  /\ Acquired("gpioirq") = {"misc", "irq", "gpio"}
  /\ Acquired("ramdisk") = {"added", "disk", "tags", "major", "data"}
  /\ Acquired("twodev") = {"node0", "cdev0", "node1", "cdev1", "class", "region"}
<1>1. ASSUME NEW d \in Drivers, NEW r
      PROVE  r \in Acquired(d) <=> \E j \in DOMAIN Calls[d] : r \in Calls[d][j].get
  BY DEF Acquired
<1>2. Acquired("misc_echo") = {"misc"}
  <2>1. /\ Calls["misc_echo"][1].get = {"misc"}
        /\ DOMAIN Calls["misc_echo"] = 1 .. 1
    BY MiscEchoTable DEF Is
  <2> QED
    BY <1>1, <2>1 DEF Drivers
<1>3. Acquired("memdemo") = {"misc", "small_p", "zero_p", "big_v"}
  <2>1. /\ Calls["memdemo"][1].get = {"small_p"} /\ Calls["memdemo"][2].get = {"zero_p"}
        /\ Calls["memdemo"][3].get = {"big_v"} /\ Calls["memdemo"][4].get = {}
        /\ Calls["memdemo"][5].get = {"misc"}
        /\ DOMAIN Calls["memdemo"] = 1 .. 5
    BY MemdemoTable DEF Is
  <2> QED
    BY <1>1, <2>1 DEF Drivers
<1>4. Acquired("gpioirq") = {"misc", "irq", "gpio"}
  <2>1. /\ Calls["gpioirq"][1].get = {"gpio"} /\ Calls["gpioirq"][2].get = {"irq"}
        /\ Calls["gpioirq"][3].get = {"misc"}
        /\ DOMAIN Calls["gpioirq"] = 1 .. 3
    BY GpioirqTable DEF Is
  <2> QED
    BY <1>1, <2>1 DEF Drivers
<1>5. Acquired("ramdisk") = {"added", "disk", "tags", "major", "data"}
  <2>1. /\ Calls["ramdisk"][1].get = {"data"} /\ Calls["ramdisk"][2].get = {"tags"}
        /\ Calls["ramdisk"][3].get = {"disk"} /\ Calls["ramdisk"][4].get = {"major"}
        /\ Calls["ramdisk"][5].get = {"added"}
        /\ DOMAIN Calls["ramdisk"] = 1 .. 5
    BY RamdiskTable DEF Is
  <2> QED
    BY <1>1, <2>1 DEF Drivers
<1>6. Acquired("twodev") = {"node0", "cdev0", "node1", "cdev1", "class", "region"}
  <2>1. /\ Calls["twodev"][1].get = {"region"} /\ Calls["twodev"][2].get = {"class"}
        /\ Calls["twodev"][3].get = {"cdev0"} /\ Calls["twodev"][4].get = {"node0"}
        /\ Calls["twodev"][5].get = {"cdev1"} /\ Calls["twodev"][6].get = {"node1"}
        /\ DOMAIN Calls["twodev"] = 1 .. 6
    BY TwodevTable DEF Is
  <2> QED
    BY <1>1, <2>1 DEF Drivers
<1> QED
  BY <1>2, <1>3, <1>4, <1>5, <1>6

\* What a driver acquires is a resource.
LEMMA AcquiredAreResources ==
  ASSUME NEW d \in Drivers
  PROVE  /\ Acquired(d) \subseteq Resources
         /\ \A j \in DOMAIN Calls[d] : Calls[d][j].get \subseteq Resources
BY DEF Acquired, Resources

\* Every name a proof uses is a resource of some driver.
LEMMA ResourcesAre ==
  {"misc", "small_p", "zero_p", "big_v", "gpio", "irq", "data", "tags", "disk",
   "major", "added", "region", "class", "cdev0", "node0", "cdev1", "node1"} \subseteq Resources
BY AcquiredAre, AcquiredAreResources DEF Drivers

\* What a resource leans on.
LEMMA NeedsAre ==
  /\ Needs("irq") = {"gpio"} /\ Needs("disk") = {"tags"}
  /\ Needs("added") = {"disk", "tags", "major", "data"}
  /\ Needs("cdev0") = {"region"} /\ Needs("cdev1") = {"region"}
  /\ Needs("node0") = {"class"} /\ Needs("node1") = {"class"}
  /\ \A r \in {"misc", "small_p", "zero_p", "big_v", "gpio", "data", "tags", "major",
               "region", "class"} : Needs(r) = {}
BY DEF Needs

\* Every failure path fits what may be held when it is taken.
LEMMA MiscEchoOK == \A j \in DOMAIN Calls["misc_echo"] : TableOK("misc_echo", j)
<1> DEFINE must == Must["misc_echo"]
           may == May["misc_echo"]
<1>1. /\ must[1] = {}
  BY DEF Must
<1>2. /\ may[1] = {}
  BY DEF Must, May
<1>3. TableOK("misc_echo", 1)
  BY <1>1, <1>2, MiscEchoTable, AcquiredAre
  DEF TableOK, Is, Openings, Buffers
<1> QED
  BY <1>3, MiscEchoTable

\* Every call of memdemo's init finds what the tables say and keeps them.
LEMMA MemdemoOK == \A j \in DOMAIN Calls["memdemo"] : TableOK("memdemo", j)
<1> DEFINE must == Must["memdemo"]
           may == May["memdemo"]
<1>1. /\ must[1] = {} /\ must[2] = {} /\ must[3] = {} /\ must[4] = {}
      /\ must[5] = Buffers
  BY DEF Must
<1>2. /\ may[1] = {} /\ may[2] = {"small_p"} /\ may[3] = {"small_p", "zero_p"}
      /\ may[4] = Buffers /\ may[5] = Buffers
  BY DEF Must, May
<1>3. /\ <<"small_p", "zero_p", "big_v">> \in Seq(Resources)
  BY ResourcesAre
<1>4. TableOK("memdemo", 1)
  BY <1>1, <1>2, <1>3, MemdemoTable
  DEF TableOK, Is, Openings, Buffers
<1>5. TableOK("memdemo", 2)
  BY <1>1, <1>2, <1>3, MemdemoTable
  DEF TableOK, Is, Openings, Buffers
<1>6. TableOK("memdemo", 3)
  BY <1>1, <1>2, <1>3, MemdemoTable
  DEF TableOK, Is, Openings, Buffers
<1>7. TableOK("memdemo", 4)
  BY <1>1, <1>2, <1>3, MemdemoTable, NeedsAre
  DEF TableOK, Is, Openings, Buffers, Complete, Ordered, Exact, Harmless
<1>8. TableOK("memdemo", 5)
  BY <1>1, <1>2, <1>3, MemdemoTable, AcquiredAre
  DEF TableOK, Is, Openings, Buffers
<1> QED
  BY <1>4, <1>5, <1>6, <1>7, <1>8, MemdemoTable

\* Every call of gpioirq's init finds what the tables say and keeps them.
LEMMA GpioirqOK == \A j \in DOMAIN Calls["gpioirq"] : TableOK("gpioirq", j)
<1> DEFINE must == Must["gpioirq"]
           may == May["gpioirq"]
<1>1. /\ must[1] = {} /\ must[2] = {"gpio"} /\ must[3] = {"gpio", "irq"}
  BY DEF Must
<1>2. /\ may[1] = {} /\ may[2] = {"gpio"} /\ may[3] = {"gpio", "irq"}
  BY DEF Must, May
<1>3. /\ <<>> \in Seq(Resources) /\ <<"gpio">> \in Seq(Resources)
  BY ResourcesAre
<1>4. TableOK("gpioirq", 1)
  BY <1>1, <1>2, <1>3, GpioirqTable, NeedsAre
  DEF TableOK, Is, Openings, Buffers, Complete, Ordered, Exact, Harmless
<1>5. TableOK("gpioirq", 2)
  BY <1>1, <1>2, <1>3, GpioirqTable, NeedsAre
  DEF TableOK, Is, Openings, Buffers, Complete, Ordered, Exact, Harmless
<1>6. TableOK("gpioirq", 3)
  BY <1>1, <1>2, <1>3, GpioirqTable, AcquiredAre
  DEF TableOK, Is, Openings, Buffers
<1> QED
  BY <1>4, <1>5, <1>6, GpioirqTable

\* Every call of ramdisk's init finds what the tables say and keeps them.
LEMMA RamdiskOK == \A j \in DOMAIN Calls["ramdisk"] : TableOK("ramdisk", j)
<1> DEFINE must == Must["ramdisk"]
           may == May["ramdisk"]
<1>1. /\ must[1] = {} /\ must[2] = {"data"} /\ must[3] = {"data", "tags"}
      /\ must[4] = {"data", "tags", "disk"}
      /\ must[5] = {"data", "tags", "disk", "major"}
  BY DEF Must
<1>2. /\ may[1] = {} /\ may[2] = {"data"} /\ may[3] = {"data", "tags"}
      /\ may[4] = {"data", "tags", "disk"}
      /\ may[5] = {"data", "tags", "disk", "major"}
  BY DEF Must, May
<1>3. /\ <<>> \in Seq(Resources) /\ <<"data">> \in Seq(Resources)
      /\ <<"tags", "data">> \in Seq(Resources)
      /\ <<"disk", "tags", "data">> \in Seq(Resources)
      /\ <<"major", "disk", "tags", "data">> \in Seq(Resources)
  BY ResourcesAre
<1>4. TableOK("ramdisk", 1)
  BY <1>1, <1>2, <1>3, RamdiskTable, NeedsAre
  DEF TableOK, Is, Openings, Buffers, Complete, Ordered, Exact, Harmless
<1>5. TableOK("ramdisk", 2)
  BY <1>1, <1>2, <1>3, RamdiskTable, NeedsAre
  DEF TableOK, Is, Openings, Buffers, Complete, Ordered, Exact, Harmless
<1>6. TableOK("ramdisk", 3)
  BY <1>1, <1>2, <1>3, RamdiskTable, NeedsAre
  DEF TableOK, Is, Openings, Buffers, Complete, Ordered, Exact, Harmless
<1>7. TableOK("ramdisk", 4)
  BY <1>1, <1>2, <1>3, RamdiskTable, NeedsAre
  DEF TableOK, Is, Openings, Buffers, Complete, Ordered, Exact, Harmless
<1>8. TableOK("ramdisk", 5)
  BY <1>1, <1>2, <1>3, RamdiskTable, NeedsAre, AcquiredAre
  DEF TableOK, Is, Openings, Buffers, Complete, Ordered, Exact, Harmless
<1> QED
  BY <1>4, <1>5, <1>6, <1>7, <1>8, RamdiskTable

\* Every call of td_init finds what the tables say and keeps them.
LEMMA TwodevOK == \A j \in DOMAIN Calls["twodev"] : TableOK("twodev", j)
<1> DEFINE must == Must["twodev"]
           may == May["twodev"]
<1>1. /\ must[1] = {} /\ must[2] = {"region"} /\ must[3] = {"region"}
      /\ must[4] = {"region", "cdev0"}
      /\ must[5] = {"region", "class", "cdev0", "node0"}
      /\ must[6] = {"region", "class", "cdev0", "node0", "cdev1"}
  BY DEF Must
<1>2. /\ may[1] = {} /\ may[2] = {"region"} /\ may[3] = {"region", "class"}
      /\ may[4] = {"region", "class", "cdev0"}
      /\ may[5] = {"region", "class", "cdev0", "node0"}
      /\ may[6] = {"region", "class", "cdev0", "node0", "cdev1"}
  BY DEF Must, May
<1>3. /\ <<>> \in Seq(Resources) /\ <<"class", "region">> \in Seq(Resources)
      /\ <<"cdev0", "class", "region">> \in Seq(Resources)
      /\ <<"node0", "cdev0", "class", "region">> \in Seq(Resources)
      /\ <<"cdev1", "node0", "cdev0", "class", "region">> \in Seq(Resources)
  BY ResourcesAre
<1>4. TableOK("twodev", 1)
  BY <1>1, <1>2, <1>3, TwodevTable, NeedsAre
  DEF TableOK, Is, Openings, Buffers, Complete, Ordered, Exact, Harmless
<1>5. TableOK("twodev", 2)
  BY <1>1, <1>2, <1>3, TwodevTable
  DEF TableOK, Is, Openings, Buffers
<1>6. TableOK("twodev", 3)
  BY <1>1, <1>2, <1>3, TwodevTable, NeedsAre
  DEF TableOK, Is, Openings, Buffers, Complete, Ordered, Exact, Harmless
<1>7. TableOK("twodev", 4)
  BY <1>1, <1>2, <1>3, TwodevTable, NeedsAre
  DEF TableOK, Is, Openings, Buffers, Complete, Ordered, Exact, Harmless
<1>8. TableOK("twodev", 5)
  BY <1>1, <1>2, <1>3, TwodevTable, NeedsAre
  DEF TableOK, Is, Openings, Buffers, Complete, Ordered, Exact, Harmless
<1>9. TableOK("twodev", 6)
  BY <1>1, <1>2, <1>3, TwodevTable, NeedsAre, AcquiredAre
  DEF TableOK, Is, Openings, Buffers, Complete, Ordered, Exact, Harmless
<1> QED
  BY <1>4, <1>5, <1>6, <1>7, <1>8, <1>9, TwodevTable

\* Every exit function gives back what init acquired, all of it and in order
\* (misc_echo.c:91-95, memdemo.c:88-95, gpioirq.c:98-105, ramdisk.c:131-139,
\* twodev.c:180-191).
LEMMA ExitFits == ExitsOK
<1> DEFINE Fits(d) == /\ Exit[d] \in Seq(Resources)
                      /\ Complete(Exit[d], Acquired(d))
                      /\ Ordered(Exit[d], Acquired(d))
                      /\ Exact(Exit[d], Acquired(d))
<1>1. Fits("misc_echo")
  BY ResourcesAre, AcquiredAre, NeedsAre, MiscEchoTable
  DEF Complete, Ordered, Exact
<1>2. Fits("memdemo")
  BY ResourcesAre, AcquiredAre, NeedsAre, MemdemoTable
  DEF Complete, Ordered, Exact
<1>3. Fits("gpioirq")
  BY ResourcesAre, AcquiredAre, NeedsAre, GpioirqTable
  DEF Complete, Ordered, Exact
<1>4. Fits("ramdisk")
  BY ResourcesAre, AcquiredAre, NeedsAre, RamdiskTable
  DEF Complete, Ordered, Exact
<1>5. Fits("twodev")
  BY ResourcesAre, AcquiredAre, NeedsAre, TwodevTable
  DEF Complete, Ordered, Exact
<1> QED
  BY <1>1, <1>2, <1>3, <1>4, <1>5 DEF ExitsOK, Drivers

\* The tables fit together.
LEMMA TablesFit == TablesOK
BY MiscEchoOK, MemdemoOK, GpioirqOK, RamdiskOK, TwodevOK DEF TablesOK, Drivers

\* A load begins with nothing held.
LEMMA TablesStart ==
  ASSUME NEW d \in Drivers
  PROVE  /\ 1 \in DOMAIN Calls[d] /\ DOMAIN Calls[d] = 1 .. Len(Calls[d])
         /\ Len(Calls[d]) \in Nat /\ Must[d][1] = {} /\ May[d][1] = {}
<1>1. Must[d][1] = {} /\ May[d][1] = {}
  BY DEF Must, May, Drivers
<1> QED
  BY <1>1, MiscEchoTable, MemdemoTable, GpioirqTable, RamdiskTable, TwodevTable DEF Drivers

------------------------------------------------------------------------------
(* The life of a driver *)

\* Init holds what its calls so far were to get.
Progress == phase = "init" => /\ Must[driver][k] \subseteq held
                              /\ held \subseteq May[driver][k] /\ ret = "zero"

\* Only td_init's device_create can make a positive number of its failure.
Returned0 == /\ phase = "unwind" => ret # "zero"
             /\ driver # "twodev" => ret # "positive"
             /\ phase = "live" => ret # "errno"

\* A loaded module has everything, or, taken for loaded by mistake, nothing.
Loaded == phase = "live" => held = IF ret = "zero" THEN Acquired(driver) ELSE {}

\* What is yet to be released fits what is held, at every step of the way.
Releasing == /\ phase \notin {"unwind", "exit"} => todo = <<>>
             /\ phase \in {"unwind", "exit"} =>
                  /\ Complete(todo, held) /\ Ordered(todo, held)
                  /\ ret # "positive" => Exact(todo, held)

\* Nobody has a file of a driver on its way out, nor, twodev apart, of one that
\* has not come in; and a file outlives the module in twodev only.
Seen == /\ phase = "exit" => users = {}
        /\ phase \in {"init", "unwind"} /\ driver # "twodev" =>
             users = {} /\ held \cap Openings = {}
        /\ phase = "absent" /\ users # {} => driver = "twodev" /\ how = "undone"

\* Nothing is left by an error path and an exit function.
Gone == phase = "absent" /\ how \in {"undone", "unloaded"} => held = {}

LifeInv == LifeTypeOK /\ Progress /\ Returned0 /\ Loaded /\ Releasing /\ Seen /\ Gone

\* No driver is loaded at first.
LEMMA LifeInitInv == Init => LifeInv
<1> SUFFICES ASSUME Init PROVE LifeInv
  OBVIOUS
<1> USE DEF Init, LifeInit
<1>1. k \in DOMAIN Calls[driver]
  BY TablesStart
<1>2. todo \in Seq(Resources)
  OBVIOUS
<1>3. LifeTypeOK
  BY <1>1, <1>2 DEF LifeTypeOK
<1> QED
  BY <1>3 DEF LifeInv, Progress, Returned0, Loaded, Releasing, Seen, Gone

\* Where init goes on to when it holds H.
LEMMA GoOnInv ==
  ASSUME LifeTypeOK, phase = "init", GoOn, UNCHANGED driver
  PROVE  \/ /\ k < Len(Calls[driver]) /\ k' = k + 1 /\ phase' = "init"
            /\ k' \in DOMAIN Calls[driver]'
         \/ /\ k = Len(Calls[driver]) /\ k' = k /\ phase' = "live"
            /\ k' \in DOMAIN Calls[driver]'
<1>1. DOMAIN Calls[driver] = 1 .. Len(Calls[driver]) /\ Len(Calls[driver]) \in Nat
  BY TablesStart DEF LifeTypeOK
<1> QED
  BY <1>1 DEF LifeTypeOK, GoOn

\* The call succeeds: init holds what it got as well.
LEMMA SucceedInv == LifeInv /\ Succeed => LifeInv'
<1> SUFFICES ASSUME LifeInv, Succeed PROVE LifeInv'
  OBVIOUS
<1> USE DEF LifeInv
<1> DEFINE c == Calls[driver][k]
<1>1. /\ phase = "init" /\ c.needs \subseteq held /\ held' = held \cup c.get /\ GoOn
      /\ UNCHANGED <<driver, todo, ret, how, users>>
  BY DEF Succeed, call
<1>2. TableOK(driver, k) /\ driver \in Drivers /\ k \in DOMAIN Calls[driver]
  BY TablesFit DEF TablesOK, LifeTypeOK
<1>3. c.get \subseteq Resources
  BY <1>2, AcquiredAreResources
<1>4. /\ phase' \in {"init", "live"} /\ k' \in DOMAIN Calls[driver]'
      /\ phase' = "init" => k < Len(Calls[driver]) /\ k' = k + 1
      /\ phase' = "live" => k = Len(Calls[driver])
  BY <1>1, GoOnInv
<1>5. LifeTypeOK'
  BY <1>1, <1>3, <1>4 DEF LifeTypeOK
<1>6. Progress'
  BY <1>1, <1>2, <1>4 DEF Progress, TableOK
<1>7. Loaded'
  BY <1>1, <1>2, <1>4 DEF Progress, Loaded, TableOK
<1>8. Seen'
  <2>1. phase' = "init" /\ driver # "twodev" => held' \cap Openings = {}
    <3> SUFFICES ASSUME phase' = "init", driver # "twodev" PROVE held' \cap Openings = {}
      OBVIOUS
    <3>1. k' \in DOMAIN Calls[driver] /\ TableOK(driver, k')
      BY <1>1, <1>2, <1>4, TablesFit DEF TablesOK
    <3> QED
      BY <1>1, <1>6, <3>1 DEF Progress, TableOK
  <2> QED
    BY <1>1, <1>4, <2>1 DEF Seen
<1> QED
  BY <1>1, <1>4, <1>5, <1>6, <1>7, <1>8 DEF Progress, Returned0, Releasing, Gone

\* A failure nobody looks at: what is lost need not be there.
LEMMA FailUnseenInv == LifeInv /\ FailUnseen => LifeInv'
<1> SUFFICES ASSUME LifeInv, FailUnseen PROVE LifeInv'
  OBVIOUS
<1> USE DEF LifeInv
<1> DEFINE c == Calls[driver][k]
<1>1. /\ phase = "init" /\ c.onfail = "proceed" /\ GoOn
      /\ UNCHANGED <<driver, held, todo, ret, how, users>>
  BY DEF FailUnseen, CanFail, call
<1>2. TableOK(driver, k) /\ driver \in Drivers
  BY TablesFit DEF TablesOK, LifeTypeOK
<1>3. /\ k < Len(Calls[driver]) /\ Must[driver][k + 1] \subseteq Must[driver][k]
      /\ May[driver][k] \subseteq May[driver][k + 1]
  BY <1>1, <1>2 DEF TableOK
<1>4. phase' = "init" /\ k' = k + 1 /\ k' \in DOMAIN Calls[driver]'
  BY <1>1, <1>3, GoOnInv
<1>5. LifeTypeOK'
  BY <1>1, <1>4 DEF LifeTypeOK
<1> QED
  BY <1>1, <1>3, <1>4, <1>5 DEF Progress, Returned0, Loaded, Releasing, Seen, Gone

\* A failure with an error path: its list fits what is held.
LEMMA FailUndoInv == LifeInv /\ FailUndo => LifeInv'
<1> SUFFICES ASSUME LifeInv, FailUndo PROVE LifeInv'
  OBVIOUS
<1> USE DEF LifeInv
<1> DEFINE c == Calls[driver][k]
<1>1. /\ phase = "init" /\ c.onfail = "undo" /\ phase' = "unwind" /\ todo' = c.undo
      /\ ret' = "errno" \/ (c.code = "address" /\ ret' = "positive")
      /\ UNCHANGED <<driver, k, held, how, users>>
  BY DEF FailUndo, CanFail, call
<1>2. TableOK(driver, k) /\ driver \in Drivers
  BY TablesFit DEF TablesOK, LifeTypeOK
<1>3. /\ c.undo \in Seq(Resources)
      /\ Complete(c.undo, held) /\ Ordered(c.undo, held) /\ Exact(c.undo, held)
  BY <1>1, <1>2 DEF TableOK, Progress, LifeTypeOK
<1>4. driver # "twodev" => ret' = "errno"
  BY <1>1, <1>2 DEF TableOK
<1>5. LifeTypeOK'
  BY <1>1, <1>3 DEF LifeTypeOK
<1>6. Releasing'
  BY <1>1, <1>3 DEF Releasing
<1> QED
  BY <1>1, <1>4, <1>5, <1>6 DEF Progress, Returned0, Loaded, Seen, Gone

\* misc_register as the last call: its failure leaves no device, so nobody has
\* a file.
LEMMA FailReturnInv == LifeInv /\ FailReturn => LifeInv'
<1> SUFFICES ASSUME LifeInv, FailReturn PROVE LifeInv'
  OBVIOUS
<1> USE DEF LifeInv
<1>1. /\ phase = "init" /\ Calls[driver][k].onfail = "return"
      /\ phase' = "absent" /\ ret' = "errno" /\ how' = "discarded"
      /\ UNCHANGED <<driver, k, held, todo, users>>
  BY DEF FailReturn, CanFail, call
<1>2. TableOK(driver, k)
  BY TablesFit DEF TablesOK, LifeTypeOK
<1>3. driver # "twodev"
  BY <1>1, <1>2 DEF TableOK
<1>4. LifeTypeOK'
  BY <1>1 DEF LifeTypeOK
<1> QED
  BY <1>1, <1>3, <1>4 DEF Progress, Returned0, Loaded, Releasing, Seen, Gone

\* A release: the rest of the list fits what is left.
LEMMA ReleaseFits ==
  ASSUME NEW list \in Seq(Resources), list # <<>>, NEW H \in SUBSET Resources,
         Complete(list, H), Ordered(list, H)
  PROVE  /\ Complete(Tail(list), H \ {Head(list)}) /\ Ordered(Tail(list), H \ {Head(list)})
         /\ Exact(list, H) => Exact(Tail(list), H \ {Head(list)})
<1> DEFINE rest == Tail(list)
           left == H \ {Head(list)}
<1>1. /\ Head(list) = list[1] /\ Len(list) \in Nat /\ Len(list) >= 1
      /\ rest \in Seq(Resources) /\ Len(rest) = Len(list) - 1
  OBVIOUS
<1>2. \A j \in 1 .. Len(rest) : j + 1 \in 1 .. Len(list) /\ rest[j] = list[j + 1]
  BY <1>1
<1>3. \A j \in 2 .. Len(list) : j - 1 \in 1 .. Len(rest) /\ rest[j - 1] = list[j]
  BY <1>1
<1> HIDE DEF rest
<1>4. Complete(rest, left)
  <2> SUFFICES ASSUME NEW r \in left PROVE \E j \in 1 .. Len(rest) : rest[j] = r
    BY DEF Complete
  <2>1. PICK j \in 1 .. Len(list) : list[j] = r
    BY DEF Complete
  <2>2. j # 1
    BY <1>1, <2>1
  <2> QED
    BY <1>1, <1>3, <2>1, <2>2
<1>5. Ordered(rest, left)
  <2> SUFFICES ASSUME NEW j \in 1 .. Len(rest), NEW r \in left, rest[j] \in Needs(r)
               PROVE  \E i \in 1 .. j - 1 : rest[i] = r
    BY DEF Ordered
  <2>1. PICK i \in 1 .. (j + 1) - 1 : list[i] = r
    BY <1>2 DEF Ordered
  <2>2. i # 1 /\ i - 1 \in 1 .. j - 1
    BY <1>1, <2>1
  <2>3. i \in 2 .. Len(list)
    BY <1>1, <2>1, <2>2
  <2> QED
    BY <1>3, <2>1, <2>2, <2>3
<1>6. ASSUME Exact(list, H) PROVE Exact(rest, left)
  <2>1. ASSUME NEW i \in 1 .. Len(rest), NEW j \in 1 .. Len(rest), rest[i] = rest[j]
        PROVE  i = j
    <3>1. i + 1 = j + 1
      BY <1>2, <1>6, <2>1 DEF Exact
    <3> QED
      BY <1>1, <3>1
  <2>2. ASSUME NEW j \in 1 .. Len(rest) PROVE rest[j] \in left \cup Harmless
    <3>1. list[j + 1] \in H \cup Harmless /\ (list[j + 1] = list[1] => j + 1 = 1)
      BY <1>1, <1>2, <1>6 DEF Exact
    <3> QED
      BY <1>1, <1>2, <3>1
  <2> QED
    BY <2>1, <2>2 DEF Exact
<1> QED
  BY <1>4, <1>5, <1>6 DEF rest

\* One resource given back, by an exit or by an error path.
LEMMA ReleaseInv == LifeInv /\ Release => LifeInv'
<1> SUFFICES ASSUME LifeInv, Release PROVE LifeInv'
  OBVIOUS
<1> USE DEF LifeInv
<1>1. /\ todo # <<>> /\ held' = held \ {Head(todo)} /\ todo' = Tail(todo)
      /\ UNCHANGED <<driver, phase, k, ret, how, users>>
  BY DEF Release
<1>2. phase \in {"unwind", "exit"}
  BY <1>1 DEF Releasing
<1>3. todo \in Seq(Resources) /\ held \in SUBSET Resources
  BY DEF LifeTypeOK
<1>4. /\ Complete(todo', held') /\ Ordered(todo', held')
      /\ Exact(todo, held) => Exact(todo', held')
  BY <1>1, <1>2, <1>3, ReleaseFits DEF Releasing
<1>5. todo' \in Seq(Resources)
  BY <1>1, <1>3
<1>6. LifeTypeOK'
  BY <1>1, <1>5 DEF LifeTypeOK
<1>7. Releasing'
  BY <1>1, <1>2, <1>4 DEF Releasing
<1> QED
  BY <1>1, <1>2, <1>6, <1>7 DEF Progress, Returned0, Loaded, Seen, Gone

\* The list is empty: nothing is held any more.
LEMMA UnwoundInv == LifeInv /\ (Unwound \/ Unloaded) => LifeInv'
<1> SUFFICES ASSUME LifeInv, Unwound \/ Unloaded PROVE LifeInv'
  OBVIOUS
<1> USE DEF LifeInv
<1>1. phase \in {"unwind", "exit"} /\ todo = <<>> /\ held = {}
  BY DEF Unwound, Unloaded, Releasing, Complete
<1>2. LifeTypeOK'
  BY DEF Unwound, Unloaded, LifeTypeOK
<1>3. CASE Unwound
  BY <1>1, <1>2, <1>3 DEF Unwound, Progress, Returned0, Loaded, Releasing, Seen, Gone
<1>4. CASE Unloaded
  BY <1>1, <1>2, <1>4 DEF Unloaded, Progress, Returned0, Loaded, Releasing, Seen, Gone
<1> QED
  BY <1>3, <1>4

\* The exit function begins with all that init acquired.
LEMMA RmmodInv == LifeInv /\ Rmmod => LifeInv'
<1> SUFFICES ASSUME LifeInv, Rmmod PROVE LifeInv'
  OBVIOUS
<1> USE DEF LifeInv
<1>1. /\ phase = "live" /\ users = {} /\ phase' = "exit" /\ todo' = Exit[driver]
      /\ UNCHANGED <<driver, k, held, ret, how, users>>
  BY DEF Rmmod
<1>2. /\ Exit[driver] \in Seq(Resources)
      /\ Complete(Exit[driver], Acquired(driver)) /\ Ordered(Exit[driver], Acquired(driver))
      /\ Exact(Exit[driver], Acquired(driver))
  BY ExitFits DEF ExitsOK, LifeTypeOK
<1>3. LifeTypeOK'
  BY <1>1, <1>2 DEF LifeTypeOK
<1>4. Releasing'
  <2>1. CASE ret = "zero"
    BY <1>1, <1>2, <2>1 DEF Loaded, Releasing
  <2>2. CASE ret = "positive"
    BY <1>1, <2>2 DEF Loaded, Releasing, Complete, Ordered
  <2> QED
    BY <1>1, <2>1, <2>2 DEF Returned0, LifeTypeOK
<1> QED
  BY <1>1, <1>3, <1>4 DEF Progress, Returned0, Loaded, Seen, Gone

\* insmod begins with nothing held and nobody there.
LEMMA InsmodInv == LifeInv /\ Insmod => LifeInv'
<1> SUFFICES ASSUME LifeInv, Insmod PROVE LifeInv'
  OBVIOUS
<1> USE DEF LifeInv
<1>1. /\ phase = "absent" /\ held = {} /\ users = {} /\ phase' = "init" /\ k' = 1
      /\ ret' = "zero" /\ UNCHANGED <<driver, held, todo, how, users>>
  BY DEF Insmod
<1>2. /\ 1 \in DOMAIN Calls[driver] /\ Must[driver][1] = {} /\ May[driver][1] = {}
  BY TablesStart DEF LifeTypeOK
<1>3. LifeTypeOK'
  BY <1>1, <1>2 DEF LifeTypeOK
<1> QED
  BY <1>1, <1>2, <1>3 DEF Progress, Returned0, Loaded, Releasing, Seen, Gone

\* A process opens what is on offer, and closes.
LEMMA OpenCloseInv ==
  ASSUME LifeInv, NEW u \in Users, Open(u) \/ Close(u)
  PROVE  LifeInv'
<1> USE DEF LifeInv
<1>1. LifeTypeOK'
  BY DEF LifeTypeOK, Open, Close
<1>2. CASE Open(u)
  <2>1. held \cap Openings # {} /\ phase \in {"init", "unwind", "live"}
    BY <1>2 DEF Open, Openable, Openings
  <2> QED
    BY <1>1, <1>2, <2>1 DEF Open, Progress, Returned0, Loaded, Releasing, Seen, Gone
<1>3. CASE Close(u)
  BY <1>1, <1>3 DEF Close, Progress, Returned0, Loaded, Releasing, Seen, Gone
<1> QED
  BY <1>2, <1>3

\* A step that is not about the life of a driver leaves it as it is.
LEMMA LifeSame ==
  ASSUME LifeInv, UNCHANGED lifeVars
  PROVE  LifeInv'
BY DEF lifeVars, LifeInv, LifeTypeOK, Progress, Returned0, Loaded, Releasing, Seen, Gone

\* What the drivers' users do to the disk and to the message changes nothing in
\* the life of the driver.
LEMMA WorkKeepsLife == EchoNext \/ DiskNext => UNCHANGED lifeVars
BY DEF EchoNext, DiskNext, ed_read, ed_write, Submit, rb_transfer, EndRequest

\* The life of the drivers keeps its invariant throughout.
THEOREM DriverLifeInv == Spec => []LifeInv
<1>1. LifeInv /\ [Next]_vars => LifeInv'
  <2> SUFFICES ASSUME LifeInv, [Next]_vars PROVE LifeInv'
    OBVIOUS
  <2>1. CASE Insmod
    BY <2>1, InsmodInv
  <2>2. CASE LifeStep
    BY <2>2, SucceedInv, FailUnseenInv, FailUndoInv, FailReturnInv, ReleaseInv,
       UnwoundInv, RmmodInv DEF LifeStep
  <2>3. ASSUME NEW u \in Users, Open(u) \/ Close(u) PROVE LifeInv'
    BY <2>3, OpenCloseInv
  <2>4. CASE EchoNext \/ DiskNext \/ UNCHANGED vars
    BY <2>4, WorkKeepsLife, LifeSame DEF vars
  <2> QED
    BY <2>1, <2>2, <2>3, <2>4 DEF Next, Life
<1> QED
  BY LifeInitInv, <1>1, PTL DEF Spec

\* Whichever call fails, an error path and an exit function give everything
\* back, and only td_init's late failure leaves a file open on a module that is
\* gone (memdemo.c:50-63, gpioirq.c:65-83, ramdisk.c:73-129, twodev.c:132-178).
THEOREM NothingLeftCorrect == Spec => []NothingLeft
<1>1. LifeInv => NothingLeft
  BY DEF LifeInv, Seen, Gone, NothingLeft
<1> QED
  BY <1>1, DriverLifeInv, PTL

\* Nothing is released that is not held, nor before what works with it
\* (ramdisk.c:131-139, gpioirq.c:98-105, twodev.c:170-191).
THEOREM ReleasedInOrderCorrect == Spec => []ReleasedInOrder
<1>1. LifeInv => ReleasedInOrder
  <2> SUFFICES ASSUME LifeInv, todo # <<>>
               PROVE  /\ ret # "positive" => Head(todo) \in held \cup Harmless
                      /\ \A r \in held : Head(todo) \notin Needs(r)
    BY DEF ReleasedInOrder
  <2>1. todo \in Seq(Resources) /\ phase \in {"unwind", "exit"}
    BY DEF LifeInv, LifeTypeOK, Releasing
  <2>2. 1 \in 1 .. Len(todo) /\ Head(todo) = todo[1]
    BY <2>1
  <2> QED
    BY <2>1, <2>2 DEF LifeInv, Releasing, Ordered, Exact
<1> QED
  BY <1>1, DriverLifeInv, PTL

\* A module that counts as loaded has all it asked for (memdemo.c:55-63,
\* twodev.c:137-168).
THEOREM LiveIsCompleteCorrect == Spec => []LiveIsComplete
<1>1. LifeInv => LiveIsComplete
  BY DEF LifeInv, Loaded, LiveIsComplete
<1> QED
  BY <1>1, DriverLifeInv, PTL

------------------------------------------------------------------------------
(* misc_echo *)

\* A file has been read up to its position, and no further.
ReadSoFar == /\ got \in [Users -> Seq(0 .. MaxWrites)]
             /\ \A u \in Users : Len(got[u]) = ppos[u]

\* Every valid byte is of the message that stands, or of a later write.
NoOldBytes == good <= wrote /\ \A b \in 1 .. msg_len : msg[b] >= good

EchoInv == EchoTypeOK /\ ReadSoFar /\ NoOldBytes

\* A sequence with another one added to it.
LEMMA Appended ==
  ASSUME NEW S, NEW s \in Seq(S), NEW t \in Seq(S), NEW p \in Nat, NEW n \in Nat,
         Len(s) = p, Len(t) = n
  PROVE  /\ s \o t \in Seq(S) /\ Len(s \o t) = p + n
         /\ \A j \in 1 .. p + n : (s \o t)[j] = IF j <= p THEN s[j] ELSE t[j - p]
BY ConcatProperties

\* The echo buffer is empty at first.
LEMMA EchoInitInv == Init => EchoInv
BY EchoAssumption DEF Init, EchoInit, EchoInv, EchoTypeOK, ReadSoFar, NoOldBytes, Bytes

\* What one read adds: the stretch of the message at the position.
LEMMA ReadAdds ==
  ASSUME EchoInv, NEW u \in Users, ed_read(u)
  PROVE  \E n \in 1 .. MsgMax :
           /\ ppos[u] + n <= msg_len
           /\ got' = [got EXCEPT ![u] = @ \o SubSeq(msg, ppos[u] + 1, ppos[u] + n)]
           /\ ppos' = [ppos EXCEPT ![u] = @ + n]
           /\ Len(SubSeq(msg, ppos[u] + 1, ppos[u] + n)) = n
           /\ SubSeq(msg, ppos[u] + 1, ppos[u] + n) \in Seq(0 .. MaxWrites)
           /\ \A j \in 1 .. n : SubSeq(msg, ppos[u] + 1, ppos[u] + n)[j] = msg[ppos[u] + j]
<1> USE DEF EchoInv
<1>1. PICK cnt \in Bytes :
        /\ got' = [got EXCEPT ![u] = @ \o SubSeq(msg, ppos[u] + 1, ppos[u] + Clipped(u, cnt))]
        /\ ppos' = [ppos EXCEPT ![u] = @ + Clipped(u, cnt)]
  BY DEF ed_read
<1>2. ppos[u] \in 0 .. MsgMax /\ ppos[u] < msg_len /\ msg_len \in 0 .. MsgMax
  BY DEF ed_read, EchoTypeOK
<1> DEFINE n == Clipped(u, cnt)
<1>3. n \in 1 .. MsgMax /\ ppos[u] + n <= msg_len
  BY <1>2, EchoAssumption DEF Clipped, Smaller, Bytes
<1>4. /\ Len(SubSeq(msg, ppos[u] + 1, ppos[u] + n)) = n
      /\ SubSeq(msg, ppos[u] + 1, ppos[u] + n) \in Seq(0 .. MaxWrites)
      /\ \A j \in 1 .. n : SubSeq(msg, ppos[u] + 1, ppos[u] + n)[j] = msg[ppos[u] + j]
  <2>1. /\ ppos[u] + 1 \in Int /\ ppos[u] + n \in Int
        /\ \A i \in ppos[u] + 1 .. ppos[u] + n : msg[i] \in 0 .. MaxWrites
    <3>1. \A i \in 1 .. MsgMax : msg[i] \in 0 .. MaxWrites
      BY DEF EchoTypeOK, Bytes
    <3> HIDE DEF n
    <3> QED
      BY <1>2, <1>3, <3>1, EchoAssumption
  <2> HIDE DEF n
  <2> QED
    BY <1>2, <1>3, <2>1, SubSeqProperties
<1> QED
  BY <1>1, <1>3, <1>4

\* A read copies out and moves its own position only.
LEMMA ReadInv ==
  ASSUME EchoInv, NEW u \in Users, ed_read(u)
  PROVE  EchoInv'
<1> USE DEF EchoInv
<1> DEFINE Piece(x) == SubSeq(msg, ppos[u] + 1, ppos[u] + x)
<1>1. PICK n \in 1 .. MsgMax :
        /\ ppos[u] + n <= msg_len
        /\ got' = [got EXCEPT ![u] = @ \o Piece(n)]
        /\ ppos' = [ppos EXCEPT ![u] = @ + n]
        /\ Len(Piece(n)) = n /\ Piece(n) \in Seq(0 .. MaxWrites)
  BY ReadAdds
<1>2. UNCHANGED <<msg, msg_len, wrote, good>>
  BY DEF ed_read
<1>3. ppos' \in [Users -> 0 .. MsgMax]
  <2>1. ppos[u] \in 0 .. MsgMax /\ msg_len \in 0 .. MsgMax /\ ppos[u] + n <= msg_len
    BY <1>1 DEF EchoTypeOK
  <2>2. ppos[u] + n \in 0 .. MsgMax
    BY <2>1, EchoAssumption
  <2>3. ppos' = [ppos EXCEPT ![u] = @ + n] /\ ppos \in [Users -> 0 .. MsgMax]
    BY <1>1 DEF EchoTypeOK
  <2> QED
    BY <2>2, <2>3
<1> DEFINE piece == Piece(n)
<1>4. got[u] \o piece \in Seq(0 .. MaxWrites) /\ Len(got[u] \o piece) = ppos[u] + n
  <2>1. /\ got[u] \in Seq(0 .. MaxWrites) /\ Len(got[u]) = ppos[u]
        /\ piece \in Seq(0 .. MaxWrites) /\ Len(piece) = n
    BY <1>1 DEF ReadSoFar
  <2>2. ppos[u] \in Nat /\ n \in Nat
    BY <1>1 DEF EchoTypeOK
  <2> HIDE DEF piece
  <2> QED
    BY <2>1, <2>2
<1> HIDE DEF Piece
<1>5. ReadSoFar'
  BY <1>1, <1>4 DEF ReadSoFar, EchoTypeOK
<1> QED
  BY <1>2, <1>3, <1>5 DEF EchoTypeOK, NoOldBytes

\* A write that is cut short has still taken what it copied.
LEMMA WriteInv ==
  ASSUME EchoInv, NEW u \in Users, ed_write(u)
  PROVE  EchoInv'
<1> USE DEF EchoInv
<1>1. PICK cnt \in 0 .. MsgMax + 1 :
        /\ msg' = [b \in Bytes |-> IF b <= Smaller(cnt, MsgMax) THEN wrote' ELSE msg[b]]
        /\ \/ msg_len' = Smaller(cnt, MsgMax) /\ good' = wrote'
           \/ UNCHANGED <<msg_len, good>>
  BY DEF ed_write
<1>2. wrote < MaxWrites /\ wrote' = wrote + 1 /\ UNCHANGED <<ppos, got>>
  BY DEF ed_write
<1> DEFINE n == Smaller(cnt, MsgMax)
<1>3. n \in 0 .. MsgMax
  BY EchoAssumption DEF Smaller
<1>4. wrote' \in 0 .. MaxWrites /\ good' \in 0 .. MaxWrites /\ msg_len' \in 0 .. MsgMax
  BY <1>1, <1>2, <1>3, EchoAssumption DEF EchoTypeOK
<1>5. msg' \in [Bytes -> 0 .. MaxWrites]
  BY <1>1, <1>4 DEF EchoTypeOK
<1>6. EchoTypeOK' /\ ReadSoFar'
  BY <1>2, <1>4, <1>5 DEF EchoTypeOK, ReadSoFar
<1>7. NoOldBytes'
  <2>1. good' <= wrote'
    BY <1>1, <1>2, <1>4 DEF EchoTypeOK, NoOldBytes
  <2>2. ASSUME NEW b \in 1 .. msg_len' PROVE msg'[b] >= good'
    <3>1. b \in Bytes
      BY <1>4, EchoAssumption DEF Bytes
    <3>2. CASE b <= n
      BY <1>1, <2>1, <1>4, <3>1, <3>2
    <3>3. CASE b > n
      BY <1>1, <1>3, <1>4, <3>1, <3>3 DEF NoOldBytes
    <3> QED
      BY <1>3, <3>2, <3>3
  <2> QED
    BY <2>1, <2>2 DEF NoOldBytes
<1> QED
  BY <1>6, <1>7

\* insmod and open begin anew, the rest of the life touches nothing of this.
LEMMA EchoLifeInv == EchoInv /\ Life => EchoInv'
<1> SUFFICES ASSUME EchoInv, Life PROVE EchoInv'
  OBVIOUS
<1> USE EchoAssumption DEF EchoInv, EchoTypeOK, ReadSoFar, NoOldBytes, Bytes
<1>1. CASE EchoInsmod
  BY <1>1 DEF EchoInsmod, FreshEcho
<1>2. ASSUME NEW u \in Users, EchoOpen(u) PROVE EchoInv'
  BY <1>2 DEF EchoOpen
<1>3. CASE UNCHANGED echoVars
  BY <1>3 DEF echoVars
<1> QED
  BY <1>1, <1>2, <1>3 DEF Life

\* The echo device's buffer, length and history stay what they are said to be
\* through every read and write (misc_echo.c:23-63).
THEOREM EchoInvariant == Spec => []EchoInv
<1>1. EchoInv /\ [Next]_vars => EchoInv'
  <2> SUFFICES ASSUME EchoInv, [Next]_vars PROVE EchoInv'
    OBVIOUS
  <2>1. CASE Life
    BY <2>1, EchoLifeInv
  <2>2. CASE EchoNext
    BY <2>2, ReadInv, WriteInv DEF EchoNext
  <2>3. CASE UNCHANGED echoVars
    BY <2>3 DEF echoVars, EchoInv, EchoTypeOK, ReadSoFar, NoOldBytes
  <2> QED
    BY <2>1, <2>2, <2>3 DEF Next, vars
<1> QED
  BY EchoInitInv, <1>1, PTL DEF Spec

\* A file is read byte by byte, whatever others write between its reads, and
\* gets no byte older than the last message that was written whole
\* (misc_echo.c:23-63).
THEOREM EchoSplicesCorrect == Spec => EchoSplices
<1> DEFINE Splices ==
      \A u \in Users : got'[u] # got[u] =>
        /\ Len(got'[u]) = ppos'[u]
        /\ \A j \in Len(got[u]) + 1 .. Len(got'[u]) : got'[u][j] >= good
<1>1. EchoInv /\ [Next]_vars => [Splices]_<<lifeVars, echoVars>>
  <2> SUFFICES ASSUME EchoInv, Next, ~UNCHANGED <<lifeVars, echoVars>> PROVE Splices
    BY DEF vars
  <2>1. ASSUME NEW v \in Users, ed_read(v) PROVE Splices
    <3> DEFINE Piece(x) == SubSeq(msg, ppos[v] + 1, ppos[v] + x)
    <3>1. PICK n \in 1 .. MsgMax :
            /\ ppos[v] + n <= msg_len
            /\ got' = [got EXCEPT ![v] = @ \o Piece(n)]
            /\ ppos' = [ppos EXCEPT ![v] = @ + n]
            /\ Len(Piece(n)) = n /\ Piece(n) \in Seq(0 .. MaxWrites)
            /\ \A j \in 1 .. n : Piece(n)[j] = msg[ppos[v] + j]
      BY <2>1, ReadAdds
    <3> DEFINE piece == Piece(n)
    <3> HIDE DEF Piece
    <3> SUFFICES ASSUME NEW u \in Users, got'[u] # got[u]
                 PROVE  /\ Len(got'[u]) = ppos'[u]
                        /\ \A j \in Len(got[u]) + 1 .. Len(got'[u]) : got'[u][j] >= good
      OBVIOUS
    <3>2. /\ u = v /\ got'[u] = got[u] \o Piece(n) /\ ppos'[u] = ppos[u] + n
          /\ got[u] \in Seq(0 .. MaxWrites) /\ Len(got[u]) = ppos[u] /\ ppos[u] \in Nat
      BY <3>1 DEF EchoInv, ReadSoFar, EchoTypeOK
    <3>3. /\ Len(got'[u]) = ppos'[u]
          /\ \A j \in 1 .. ppos[u] + n :
               got'[u][j] = IF j <= ppos[u] THEN got[u][j] ELSE piece[j - ppos[u]]
      <4>1. /\ piece \in Seq(0 .. MaxWrites) /\ Len(piece) = n /\ n \in Nat
            /\ got'[u] = got[u] \o piece /\ ppos'[u] = ppos[u] + n
            /\ got[u] \in Seq(0 .. MaxWrites) /\ Len(got[u]) = ppos[u] /\ ppos[u] \in Nat
        BY <3>1, <3>2
      <4> HIDE DEF piece
      <4>2. /\ Len(got[u] \o piece) = ppos[u] + n
            /\ \A j \in 1 .. ppos[u] + n :
                 (got[u] \o piece)[j] = IF j <= ppos[u] THEN got[u][j] ELSE piece[j - ppos[u]]
        <5> DEFINE old == got[u]  at == ppos[u]  S == 0 .. MaxWrites
        <5>1. /\ old \in Seq(S) /\ Len(old) = at /\ at \in Nat
              /\ piece \in Seq(S) /\ Len(piece) = n /\ n \in Nat
          BY <4>1
        <5> HIDE DEF old, at, S
        <5>2. /\ Len(old \o piece) = at + n
              /\ \A j \in 1 .. at + n :
                   (old \o piece)[j] = IF j <= at THEN old[j] ELSE piece[j - at]
          BY <5>1, Appended
        <5> QED
          BY <5>2 DEF old, at
      <4> QED
        BY <4>1, <4>2
    <3>4. ASSUME NEW j \in Len(got[u]) + 1 .. Len(got'[u]) PROVE got'[u][j] >= good
      <4>1. j - ppos[u] \in 1 .. n /\ got'[u][j] = Piece(n)[j - ppos[u]]
        BY <3>1, <3>2, <3>3
      <4>2. got'[u][j] = msg[ppos[u] + (j - ppos[u])]
        BY <3>1, <3>2, <4>1
      <4>3. ppos[u] + (j - ppos[u]) \in 1 .. msg_len
        BY <3>1, <3>2, <4>1 DEF EchoInv, EchoTypeOK
      <4> QED
        BY <4>2, <4>3 DEF EchoInv, NoOldBytes
    <3> QED
      BY <3>3, <3>4
  <2>2. ASSUME NEW v \in Users, EchoOpen(v) PROVE Splices
    BY <2>2 DEF EchoOpen, EchoInv, ReadSoFar, EchoTypeOK
  <2>3. CASE UNCHANGED got
    BY <2>3
  <2> QED
    BY <2>1, <2>2, <2>3 DEF Next, Life, EchoNext, ed_write, EchoInsmod, echoVars
<1> QED
  BY <1>1, EchoInvariant, PTL DEF Spec, EchoSplices

------------------------------------------------------------------------------
(* ramdisk *)

Vals == Nat \X Nat

\* The disk has words.
LEMMA SizeNat == Size \in Nat \ {0}
BY DiskAssumption DEF Size

\* A range of sectors of the disk, in words: it is within the disk too
\* (ramdisk.c:28).
LEMMA InWords ==
  ASSUME NEW f \in 1 .. Sectors, NEW m \in 1 .. Sectors, f + m - 1 <= Sectors
  PROVE  /\ (f - 1) * Words + 1 \in 1 .. Size /\ m * Words \in 1 .. Size
         /\ ((f - 1) * Words + 1) + m * Words - 1 <= Size
<1>1. /\ f \in Nat \ {0} /\ m \in Nat \ {0} /\ Sectors \in Nat \ {0} /\ Words \in Nat \ {0}
  BY DiskAssumption
<1>2. Size = (f - 1) * Words + m * Words + (Sectors - (f + m - 1)) * Words
  BY <1>1 DEF Size
<1>3. (f - 1) * Words \in Nat /\ m * Words \in Nat \ {0}
      /\ (Sectors - (f + m - 1)) * Words \in Nat
  BY <1>1
<1>4. Size \in Nat
  BY SizeNat
<1> DEFINE x == (f - 1) * Words  y == m * Words  z == (Sectors - (f + m - 1)) * Words
<1> HIDE DEF x, y, z
<1>5. x \in Nat /\ y \in Nat \ {0} /\ z \in Nat /\ Size = x + y + z
  BY <1>2, <1>3 DEF x, y, z
<1>6. x + 1 \in 1 .. Size /\ y \in 1 .. Size /\ (x + 1) + y - 1 <= Size
  BY <1>4, <1>5
<1> QED
  BY <1>6 DEF x, y

\* A request is within the disk, and a read has got what it has moved so far.
RqFields == {"u", "w", "write", "first", "n", "done", "got", "may"}
RqOK(r) == /\ DOMAIN r = RqFields /\ r.w \in 1 .. io
           /\ r.first \in Nat \ {0} /\ r.n \in Nat \ {0} /\ r.first + r.n - 1 <= Size
           /\ r.done \in 0 .. r.n
           /\ r.got \in Seq(Vals) /\ Len(r.got) = IF r.write THEN 0 ELSE r.done
           /\ DOMAIN r.may = Covers(r)

DiskTypes == /\ DiskTypeOK /\ rb_data \in [1 .. Size -> Vals]
             /\ \A t \in InFlight : RqOK(rq[t])

\* A request is of a file that is open, so of a disk that is there.
Owned == \A t \in InFlight : driver = "ramdisk" /\ rq[t].u \in users

\* A read may return what the disk holds now ...
NowAllowed == \A t \in InFlight : ~ rq[t].write =>
                \A s \in Covers(rq[t]) : rb_data[s] \in rq[t].may[s]
\* ... and what a write that is in flight with it writes ...
Concurrent == \A t1, t2 \in InFlight : t1 # t2 /\ rq[t2].write =>
                \A s \in Covers(rq[t1]) \cap Covers(rq[t2]) :
                  <<rq[t2].w, s>> \in rq[t1].may[s]
\* ... and has got nothing else.
GotAllowed == \A t \in InFlight : \A i \in 1 .. Len(rq[t].got) :
                rq[t].got[i] \in rq[t].may[rq[t].first + i - 1]

DiskInv == DiskTypes /\ Owned /\ NowAllowed /\ Concurrent /\ GotAllowed

\* The fields of a request that do not change before it ends.
SameRq(q, r) == /\ DOMAIN q = DOMAIN r /\ q.u = r.u /\ q.w = r.w /\ q.write = r.write
                /\ q.first = r.first /\ q.n = r.n

\* The new request, and what the others take of it.
Submitted(u, t, write, first, n) ==
  /\ first + n - 1 <= Size
  /\ DOMAIN rq' = Tags
  /\ DOMAIN rq'[t] = RqFields /\ rq'[t].u = u /\ rq'[t].w = io' /\ rq'[t].write = write
  /\ rq'[t].first = first /\ rq'[t].n = n /\ rq'[t].done = 0 /\ rq'[t].got = <<>>
  /\ DOMAIN rq'[t].may = first .. first + n - 1
  /\ \A s \in first .. first + n - 1 :
       rq'[t].may[s] = {Content(s)} \cup {<<w, s>> : w \in Writers(s)}
  /\ \A x \in Tags \ {t} : rq[x] = NoRq => rq'[x] = NoRq
  /\ \A x \in Tags \ {t} : rq[x] # NoRq =>
       /\ SameRq(rq'[x], rq[x])
       /\ rq'[x].done = rq[x].done /\ rq'[x].got = rq[x].got
       /\ DOMAIN rq'[x].may = DOMAIN rq[x].may
       /\ \A s \in DOMAIN rq[x].may :
            rq'[x].may[s] = IF write /\ s \in first .. first + n - 1
                            THEN rq[x].may[s] \cup {<<io', s>>} ELSE rq[x].may[s]

\* A new request covers words of the disk and may read what was written there.
LEMMA SubmitDoes ==
  ASSUME DiskInv, NEW u \in Users, NEW t \in Tags, Submit(u, t)
  PROVE  \E write \in BOOLEAN, first \in 1 .. Size, n \in 1 .. Size :
           Submitted(u, t, write, first, n)
<1> DEFINE Rec(write, first, n) ==
      [u |-> u, w |-> io', write |-> write, first |-> first, n |-> n,
       done |-> 0, got |-> <<>>,
       may |-> [s \in Covers([first |-> first, n |-> n]) |->
                 {Content(s)} \cup {<<w, s>> : w \in Writers(s)}]]
    Seen1(q, write, r) ==
      [q EXCEPT !.may = [s \in DOMAIN @ |->
         IF write /\ s \in Covers(r) THEN @[s] \cup {<<r.w, s>>} ELSE @[s]]]
<1>0. PICK write \in BOOLEAN, f \in 1 .. Sectors, m \in 1 .. Sectors :
        /\ f + m - 1 <= Sectors
        /\ rq' = [x \in Tags |->
                   IF x = t THEN Rec(write, (f - 1) * Words + 1, m * Words)
                   ELSE IF rq[x] = NoRq THEN NoRq
                   ELSE Seen1(rq[x], write, Rec(write, (f - 1) * Words + 1, m * Words))]
  BY DEF Submit, Capacity
<1> DEFINE first == (f - 1) * Words + 1  n == m * Words
<1>1. /\ first \in 1 .. Size /\ n \in 1 .. Size /\ first + n - 1 <= Size
      /\ rq' = [x \in Tags |->
                 IF x = t THEN Rec(write, first, n)
                 ELSE IF rq[x] = NoRq THEN NoRq
                 ELSE Seen1(rq[x], write, Rec(write, first, n))]
  <2>1. first \in 1 .. Size /\ n \in 1 .. Size /\ first + n - 1 <= Size
    BY <1>0, InWords
  <2> HIDE DEF Rec, Seen1
  <2> QED
    BY <1>0, <2>1
<1> HIDE DEF first, n
<1> DEFINE r == Rec(write, first, n)
<1>2. /\ r.u = u /\ r.w = io' /\ r.write = write /\ r.first = first /\ r.n = n
      /\ r.done = 0 /\ r.got = <<>> /\ DOMAIN r = RqFields
      /\ r.may = [s \in Covers([first |-> first, n |-> n]) |->
                   {Content(s)} \cup {<<w, s>> : w \in Writers(s)}]
  BY DEF RqFields
<1>3. Covers(r) = first .. first + n - 1
      /\ Covers([first |-> first, n |-> n]) = first .. first + n - 1
  BY <1>2 DEF Covers
<1>4. /\ DOMAIN r.may = first .. first + n - 1
      /\ \A s \in first .. first + n - 1 :
           r.may[s] = {Content(s)} \cup {<<w, s>> : w \in Writers(s)}
  BY <1>2, <1>3
<1>5. /\ rq'[t] = r /\ DOMAIN rq' = Tags
      /\ \A x \in Tags \ {t} : /\ rq[x] = NoRq => rq'[x] = NoRq
                               /\ rq[x] # NoRq => rq'[x] = Seen1(rq[x], write, r)
  <2> HIDE DEF Rec, Seen1
  <2> QED
    BY <1>1
<1>6. ASSUME NEW x \in Tags \ {t}, rq[x] # NoRq
      PROVE  /\ SameRq(rq'[x], rq[x])
             /\ rq'[x].done = rq[x].done /\ rq'[x].got = rq[x].got
             /\ DOMAIN rq'[x].may = DOMAIN rq[x].may
             /\ \A s \in DOMAIN rq[x].may :
                  rq'[x].may[s] = IF write /\ s \in first .. first + n - 1
                                  THEN rq[x].may[s] \cup {<<io', s>>} ELSE rq[x].may[s]
  <2> HIDE DEF r
  <2> DEFINE q == rq[x]
             more == [s \in DOMAIN q.may |->
                       IF write /\ s \in Covers(r) THEN q.may[s] \cup {<<r.w, s>>}
                       ELSE q.may[s]]
  <2>1. DOMAIN q = RqFields
    BY <1>6 DEF DiskInv, DiskTypes, InFlight, RqOK
  <2>2. rq'[x] = [q EXCEPT !.may = more]
    BY <1>5, <1>6
  <2>3. /\ DOMAIN more = DOMAIN q.may
        /\ \A s \in DOMAIN q.may :
             more[s] = IF write /\ s \in first .. first + n - 1
                       THEN q.may[s] \cup {<<io', s>>} ELSE q.may[s]
    BY <1>2, <1>3
  <2> HIDE DEF more, q
  <2>4. /\ SameRq(rq'[x], q) /\ rq'[x].done = q.done /\ rq'[x].got = q.got
        /\ rq'[x].may = more
    BY <2>1, <2>2 DEF SameRq, RqFields
  <2> QED
    BY <2>3, <2>4 DEF q
<1> HIDE DEF r
<1>7. /\ first + n - 1 <= Size
      /\ DOMAIN rq' = Tags
      /\ DOMAIN rq'[t] = RqFields /\ rq'[t].u = u /\ rq'[t].w = io' /\ rq'[t].write = write
      /\ rq'[t].first = first /\ rq'[t].n = n /\ rq'[t].done = 0 /\ rq'[t].got = <<>>
      /\ DOMAIN rq'[t].may = first .. first + n - 1
      /\ \A s \in first .. first + n - 1 :
           rq'[t].may[s] = {Content(s)} \cup {<<w, s>> : w \in Writers(s)}
  BY <1>1, <1>2, <1>4, <1>5
<1> QED
  <2>1. Submitted(u, t, write, first, n)
    BY <1>5, <1>6, <1>7 DEF Submitted
  <2> QED
    BY <1>1, <2>1

\* One word: the disk or what the read has got, and nothing else.
LEMMA TransferDoes ==
  ASSUME DiskInv, NEW t \in Tags, rb_transfer(t)
  PROVE  /\ t \in InFlight /\ rq[t].done < rq[t].n /\ DOMAIN rq' = Tags
         /\ SameRq(rq'[t], rq[t]) /\ rq'[t].may = rq[t].may
         /\ rq'[t].done = rq[t].done + 1
         /\ rq'[t].got = IF rq[t].write THEN rq[t].got
                         ELSE Append(rq[t].got, Content(rq[t].first + rq[t].done))
         /\ \A x \in Tags \ {t} : rq'[x] = rq[x]
<1>1. /\ t \in InFlight /\ rq[t].done < rq[t].n
      /\ rq' = [rq EXCEPT ![t].done = @ + 1,
                          ![t].got = IF rq[t].write THEN @
                                     ELSE Append(@, Content(rq[t].first + rq[t].done))]
  BY DEF rb_transfer, InFlight, NextWord
<1>2. DOMAIN rq = Tags /\ DOMAIN rq[t] = RqFields
  BY <1>1 DEF DiskInv, DiskTypes, DiskTypeOK, RqOK
<1> QED
  BY <1>1, <1>2 DEF SameRq, RqFields

\* Whoever has a file of the disk open has the disk: init has nothing to open
\* before its last call, and nobody opens what rmmod takes away.
LEMMA DiskThere ==
  ASSUME LifeInv, driver = "ramdisk", users # {}
  PROVE  "data" \in held
<1>1. phase = "live" /\ ret = "zero"
  BY DEF LifeInv, LifeTypeOK, Seen, Returned0
<1>2. held = Acquired("ramdisk")
  BY <1>1 DEF LifeInv, Loaded
<1> QED
  BY <1>2, AcquiredAre

\* A request's words are the disk's.
LEMMA CoversAre ==
  ASSUME NEW r, RqOK(r)
  PROVE  Covers(r) = r.first .. r.first + r.n - 1 /\ Covers(r) \subseteq 1 .. Size
BY SizeNat DEF RqOK, Covers

\* No request is under way at first.
LEMMA DiskInitInv == Init => DiskInv
BY DiskAssumption, SizeNat DEF Init, DiskInit, DiskInv, DiskTypes, DiskTypeOK, InFlight, Vals, Zeros,
   Owned, NowAllowed, Concurrent, GotAllowed

\* A request begins: a read may return what the disk holds, the writes around it
\* are known to it, and it is known to the reads around it if it is a write.
LEMMA SubmitInv ==
  ASSUME LifeInv, DiskInv, NEW u \in Users, NEW t \in Tags, Submit(u, t)
  PROVE  DiskInv'
<1> USE DEF DiskInv
<1>1. PICK write \in BOOLEAN, first \in 1 .. Size, n \in 1 .. Size :
        Submitted(u, t, write, first, n)
  BY SubmitDoes
<1>2. /\ driver = "ramdisk" /\ u \in users /\ rq[t] = NoRq /\ io < MaxIO /\ io' = io + 1
      /\ UNCHANGED <<driver, users, held, rb_data>>
  BY DEF Submit, lifeVars
<1>3. "data" \in held
  BY <1>2, DiskThere
<1> DEFINE S == first .. first + n - 1
<1>4. /\ S \subseteq 1 .. Size /\ first \in Nat \ {0} /\ n \in Nat \ {0}
      /\ first + n - 1 <= Size
  BY <1>1, SizeNat DEF Submitted
\* In flight now: the new one, and those that were.
<1>5. \A x \in InFlight' : x # t => x \in InFlight
  BY <1>1 DEF InFlight, Submitted
<1>6. \A x \in InFlight' : x # t =>
        /\ SameRq(rq'[x], rq[x]) /\ rq'[x].done = rq[x].done /\ rq'[x].got = rq[x].got
        /\ DOMAIN rq'[x].may = DOMAIN rq[x].may
        /\ \A s \in DOMAIN rq[x].may :
             rq'[x].may[s] = IF write /\ s \in S THEN rq[x].may[s] \cup {<<io', s>>}
                             ELSE rq[x].may[s]
  BY <1>1, <1>5 DEF Submitted, InFlight
<1>7. /\ DOMAIN rq'[t] = RqFields /\ rq'[t].u = u /\ rq'[t].w = io' /\ rq'[t].write = write
      /\ rq'[t].first = first /\ rq'[t].n = n /\ rq'[t].done = 0 /\ rq'[t].got = <<>>
      /\ DOMAIN rq'[t].may = S /\ DOMAIN rq' = Tags
      /\ \A s \in S : rq'[t].may[s] = {Content(s)} \cup {<<w, s>> : w \in Writers(s)}
  BY <1>1 DEF Submitted
<1>8. io \in Nat /\ io' \in 1 .. MaxIO
  BY <1>2, DiskAssumption DEF DiskTypes, DiskTypeOK
<1>9. Covers(rq'[t]) = S /\ \A x \in InFlight' : x # t => Covers(rq'[x]) = Covers(rq[x])
  BY <1>6, <1>7 DEF Covers, SameRq
<1> HIDE DEF S
<1>10. DiskTypes'
  <2>1. ASSUME NEW x \in InFlight' PROVE RqOK(rq[x])'
    <3>1. CASE x = t
      <4>1. Covers(rq'[t]) = DOMAIN rq'[t].may
        BY <1>7, <1>9
      <4>2. rq'[t].w \in 1 .. io' /\ 0 \in 0 .. rq'[t].n
        BY <1>4, <1>7, <1>8
      <4>3. rq'[t].got \in Seq(Vals) /\ Len(rq'[t].got) = 0
        BY <1>7
      <4> QED
        BY <1>4, <1>7, <3>1, <4>1, <4>2, <4>3 DEF RqOK
    <3>2. CASE x # t
      <4>1. RqOK(rq[x])
        BY <1>5, <3>2 DEF DiskTypes
      <4>2. rq'[x].w \in 1 .. io'
        BY <1>2, <1>6, <1>8, <3>2, <4>1 DEF RqOK, SameRq
      <4> QED
        BY <1>6, <1>9, <3>2, <4>1, <4>2 DEF RqOK, SameRq
    <3> QED
      BY <3>1, <3>2
  <2>2. DiskTypeOK'
    BY <1>2, <1>7, <1>8, <2>1 DEF DiskTypes, DiskTypeOK, RqOK
  <2> QED
    BY <1>2, <2>1, <2>2 DEF DiskTypes
<1>11. Owned'
  BY <1>2, <1>5, <1>6, <1>7 DEF Owned, SameRq
<1>12. NowAllowed'
  <2> SUFFICES ASSUME NEW x \in InFlight', ~ rq'[x].write, NEW s \in Covers(rq'[x])
               PROVE  rb_data'[s] \in rq'[x].may[s]
    BY DEF NowAllowed
  <2>1. CASE x = t
    <3>1. Content(s) = rb_data[s]
      BY <1>3, <1>4, <1>9, <2>1 DEF Content, OnDisk
    <3> QED
      BY <1>2, <1>7, <1>9, <2>1, <3>1
  <2>2. CASE x # t
    <3>1. x \in InFlight /\ ~ rq[x].write /\ s \in Covers(rq[x]) /\ s \in DOMAIN rq[x].may
      BY <1>5, <1>6, <1>9, <2>2 DEF SameRq, DiskTypes, RqOK
    <3>2. rb_data[s] \in rq[x].may[s] /\ rq[x].may[s] \subseteq rq'[x].may[s]
      BY <1>6, <2>2, <3>1 DEF NowAllowed
    <3> QED
      BY <1>2, <3>2
  <2> QED
    BY <2>1, <2>2
<1>13. Concurrent'
  <2> SUFFICES ASSUME NEW x \in InFlight', NEW y \in InFlight', x # y, rq'[y].write,
                      NEW s \in Covers(rq'[x]) \cap Covers(rq'[y])
               PROVE  <<rq'[y].w, s>> \in rq'[x].may[s]
    BY DEF Concurrent
  <2>1. CASE x = t
    <3>1. /\ y \in InFlight /\ rq[y].write /\ s \in Covers(rq[y]) /\ rq'[y].w = rq[y].w
      BY <1>5, <1>6, <1>9, <2>1 DEF SameRq
    <3>2. rq[y].w \in Writers(s)
      BY <3>1 DEF Writers
    <3> QED
      BY <1>7, <1>9, <2>1, <3>1, <3>2
  <2>2. CASE x # t
    <3>1. x \in InFlight /\ s \in Covers(rq[x]) /\ s \in DOMAIN rq[x].may
      BY <1>5, <1>9, <2>2 DEF DiskTypes, RqOK
    <3>2. CASE y = t
      BY <1>6, <1>7, <1>9, <2>2, <3>1, <3>2
    <3>3. CASE y # t
      <4>1. y \in InFlight /\ rq[y].write /\ s \in Covers(rq[y]) /\ rq'[y].w = rq[y].w
        BY <1>5, <1>6, <1>9, <3>3 DEF SameRq
      <4>2. <<rq[y].w, s>> \in rq[x].may[s]
        BY <3>1, <4>1 DEF Concurrent
      <4> QED
        BY <1>6, <2>2, <3>1, <4>1, <4>2
    <3> QED
      BY <3>2, <3>3
  <2> QED
    BY <2>1, <2>2
<1>14. GotAllowed'
  <2> SUFFICES ASSUME NEW x \in InFlight', NEW i \in 1 .. Len(rq'[x].got)
               PROVE  rq'[x].got[i] \in rq'[x].may[rq'[x].first + i - 1]
    BY DEF GotAllowed
  <2>1. x # t
    BY <1>7
  <2>2. RqOK(rq[x]) /\ x \in InFlight /\ i \in 1 .. Len(rq[x].got) /\ rq'[x].got = rq[x].got
    BY <1>5, <1>6, <2>1 DEF DiskTypes
  <2> DEFINE s == rq[x].first + i - 1
  <2>3. s \in DOMAIN rq[x].may /\ rq'[x].first + i - 1 = s
    BY <1>6, <2>1, <2>2 DEF RqOK, Covers, SameRq
  <2>4. rq[x].got[i] \in rq[x].may[s]
    BY <2>2 DEF GotAllowed
  <2> HIDE DEF s
  <2> QED
    BY <1>6, <2>1, <2>2, <2>3, <2>4
<1> QED
  BY <1>10, <1>11, <1>12, <1>13, <1>14

\* A word of a read gets what the disk holds; a word of a write puts down
\* what every read around it may return.
LEMMA TransferInv ==
  ASSUME LifeInv, DiskInv, NEW t \in Tags, rb_transfer(t)
  PROVE  DiskInv'
<1> USE DEF DiskInv
<1>1. /\ t \in InFlight /\ rq[t].done < rq[t].n /\ DOMAIN rq' = Tags
      /\ SameRq(rq'[t], rq[t]) /\ rq'[t].may = rq[t].may
      /\ rq'[t].done = rq[t].done + 1
      /\ rq'[t].got = IF rq[t].write THEN rq[t].got
                      ELSE Append(rq[t].got, Content(rq[t].first + rq[t].done))
      /\ \A x \in Tags \ {t} : rq'[x] = rq[x]
  BY TransferDoes
<1> DEFINE p == rq[t].first + rq[t].done
<1>2. /\ UNCHANGED <<driver, users, held, io>>
      /\ rb_data' = IF rq[t].write /\ OnDisk(p)
                    THEN [rb_data EXCEPT ![p] = <<rq[t].w, p>>] ELSE rb_data
  BY DEF rb_transfer, lifeVars, NextWord
<1>3. RqOK(rq[t])
  BY <1>1 DEF DiskTypes
<1>4. p \in 1 .. Size /\ p \in Covers(rq[t]) /\ p = rq[t].first + (rq[t].done + 1) - 1
      /\ rq[t].done \in Nat /\ rq[t].n \in Nat
  <2> DEFINE first == rq[t].first  n == rq[t].n  done == rq[t].done
  <2>1. /\ first \in Nat \ {0} /\ n \in Nat \ {0} /\ first + n - 1 <= Size
        /\ done \in 0 .. n /\ done < n
    BY <1>1, <1>3 DEF RqOK
  <2>2. p = first + done /\ Covers(rq[t]) = first .. first + n - 1
    BY DEF Covers
  <2> HIDE DEF first, n, done, p
  <2>3. /\ p \in 1 .. Size /\ p \in first .. first + n - 1 /\ p = first + (done + 1) - 1
        /\ done \in Nat /\ n \in Nat
    BY <2>1, <2>2, SizeNat
  <2> QED
    BY <2>2, <2>3 DEF first, n, done
<1>5. OnDisk(p) /\ Content(p) = rb_data[p]
  BY <1>1, <1>4, DiskThere DEF Owned, OnDisk, Content
<1> HIDE DEF p
<1>6. \A x \in InFlight' : x \in InFlight /\ SameRq(rq'[x], rq[x]) /\ rq'[x].may = rq[x].may
                           /\ Covers(rq'[x]) = Covers(rq[x])
  BY <1>1 DEF InFlight, SameRq, Covers
<1>7. rb_data' \in [1 .. Size -> Vals]
  <2>1. <<rq[t].w, p>> \in Vals
    BY <1>3, <1>4 DEF RqOK, Vals
  <2> QED
    BY <1>2, <2>1 DEF DiskTypes
<1>8. /\ rq'[t].got \in Seq(Vals)
      /\ Len(rq'[t].got) = IF rq[t].write THEN 0 ELSE rq[t].done + 1
      /\ ~ rq[t].write =>
           /\ rq'[t].got[rq[t].done + 1] = rb_data[p]
           /\ \A i \in 1 .. rq[t].done : rq'[t].got[i] = rq[t].got[i]
  <2>1. rb_data[p] \in Vals
    BY <1>4 DEF DiskTypes
  <2>2. rq[t].got \in Seq(Vals) /\ Len(rq[t].got) = IF rq[t].write THEN 0 ELSE rq[t].done
    BY <1>3 DEF RqOK
  <2>3. CASE rq[t].write
    BY <1>1, <2>2, <2>3
  <2>4. CASE ~ rq[t].write
    <3>1. rq'[t].got = Append(rq[t].got, rb_data[p]) /\ Len(rq[t].got) = rq[t].done
      BY <1>1, <1>5, <2>2, <2>4 DEF p
    <3> DEFINE old == rq[t].got  new == rq'[t].got  v == rb_data[p]  d == rq[t].done
    <3>2. /\ old \in Seq(Vals) /\ v \in Vals /\ new = Append(old, v)
          /\ Len(old) = d /\ d \in Nat
      BY <1>4, <2>1, <2>2, <3>1
    <3> HIDE DEF old, new, v, d
    <3>3. /\ new \in Seq(Vals) /\ Len(new) = d + 1 /\ new[d + 1] = v
          /\ \A i \in 1 .. d : new[i] = old[i]
      BY <3>2
    <3> QED
      BY <2>4, <3>3 DEF old, new, v, d
  <2> QED
    BY <2>3, <2>4
<1>9. DiskTypes'
  <2>1. ASSUME NEW x \in InFlight' PROVE RqOK(rq[x])'
    <3>1. CASE x = t
      <4>1. DOMAIN rq'[t] = RqFields /\ DOMAIN rq'[t].may = Covers(rq'[t])
        BY <1>1, <1>3, <1>6, <3>1 DEF RqOK, SameRq
      <4>2. rq'[t].done \in 0 .. rq'[t].n
        BY <1>1, <1>4 DEF SameRq
      <4>3. Len(rq'[t].got) = IF rq'[t].write THEN 0 ELSE rq'[t].done
        BY <1>1, <1>8 DEF SameRq
      <4> QED
        BY <1>1, <1>2, <1>3, <1>8, <3>1, <4>1, <4>2, <4>3 DEF RqOK, SameRq
    <3>2. CASE x # t
      BY <1>1, <1>2, <1>6, <3>2 DEF DiskTypes, RqOK, InFlight
    <3> QED
      BY <3>1, <3>2
  <2>2. DiskTypeOK'
    BY <1>1, <1>2, <1>7, <2>1 DEF DiskTypes, DiskTypeOK, RqOK
  <2> QED
    BY <1>7, <2>1, <2>2 DEF DiskTypes
<1>10. Owned'
  BY <1>2, <1>6 DEF Owned, SameRq
<1>11. NowAllowed'
  <2> SUFFICES ASSUME NEW x \in InFlight', ~ rq'[x].write, NEW s \in Covers(rq'[x])
               PROVE  rb_data'[s] \in rq'[x].may[s]
    BY DEF NowAllowed
  <2>1. x \in InFlight /\ ~ rq[x].write /\ s \in Covers(rq[x]) /\ rq'[x].may = rq[x].may
    BY <1>6 DEF SameRq
  <2>2. rb_data[s] \in rq[x].may[s] /\ s \in 1 .. Size
    BY <2>1, CoversAre DEF NowAllowed, DiskTypes
  <2>3. CASE rq[t].write /\ s = p
    <3>1. rb_data'[s] = <<rq[t].w, s>> /\ x # t
      BY <1>2, <1>4, <1>5, <2>1, <2>3 DEF DiskTypes
    <3>2. <<rq[t].w, s>> \in rq[x].may[s]
      BY <1>1, <1>4, <2>1, <2>3, <3>1 DEF Concurrent
    <3> QED
      BY <2>1, <3>1, <3>2
  <2>4. CASE ~ (rq[t].write /\ s = p)
    BY <1>2, <2>1, <2>2, <2>4 DEF DiskTypes
  <2> QED
    BY <2>3, <2>4
<1>12. Concurrent'
  BY <1>6 DEF Concurrent, SameRq
<1>13. GotAllowed'
  <2> SUFFICES ASSUME NEW x \in InFlight', NEW i \in 1 .. Len(rq'[x].got)
               PROVE  rq'[x].got[i] \in rq'[x].may[rq'[x].first + i - 1]
    BY DEF GotAllowed
  <2>1. x \in InFlight /\ rq'[x].may = rq[x].may /\ rq'[x].first = rq[x].first
    BY <1>6 DEF SameRq
  <2>2. CASE x # t
    <3>1. rq'[x].got = rq[x].got
      BY <1>1, <2>1, <2>2 DEF InFlight
    <3> QED
      BY <2>1, <3>1 DEF GotAllowed
  <2>3. CASE x = t
    <3>1. ~ rq[t].write /\ i \in 1 .. rq[t].done + 1
      BY <1>8, <2>3
    <3>2. CASE i = rq[t].done + 1
      <4>1. rb_data[p] \in rq[t].may[p]
        BY <1>1, <1>4, <3>1 DEF NowAllowed
      <4>2. rq'[x].first + i - 1 = p
        BY <1>4, <2>1, <2>3, <3>2
      <4> QED
        BY <1>8, <2>1, <2>3, <3>1, <3>2, <4>1, <4>2
    <3>3. CASE i # rq[t].done + 1
      <4>1. i \in 1 .. rq[t].done /\ i \in 1 .. Len(rq[t].got)
        BY <1>3, <1>4, <3>1, <3>3 DEF RqOK
      <4> QED
        BY <1>1, <1>8, <2>1, <2>3, <3>1, <4>1 DEF GotAllowed
    <3> QED
      BY <3>2, <3>3
  <2> QED
    BY <2>2, <2>3
<1> QED
  BY <1>9, <1>10, <1>11, <1>12, <1>13

\* A request that ends leaves the others as they are.
LEMMA EndInv ==
  ASSUME DiskInv, NEW t \in Tags, EndRequest(t)
  PROVE  DiskInv'
<1> USE DEF DiskInv
<1>1. /\ rq' = [rq EXCEPT ![t] = NoRq] /\ UNCHANGED <<driver, users, rb_data, io>>
      /\ DOMAIN rq = Tags
  BY DEF EndRequest, lifeVars, DiskTypes, DiskTypeOK
<1>2. /\ \A x \in InFlight' : x \in InFlight /\ rq'[x] = rq[x]
      /\ DOMAIN rq' = Tags
  BY <1>1 DEF InFlight
<1>3. DiskTypes'
  <2>1. \A x \in InFlight' : RqOK(rq[x])'
    BY <1>1, <1>2 DEF DiskTypes, RqOK
  <2> QED
    BY <1>1, <1>2, <2>1 DEF DiskTypes, DiskTypeOK
<1> QED
  BY <1>1, <1>2, <1>3 DEF Owned, NowAllowed, Concurrent, GotAllowed

\* Nothing is loaded or unloaded under a request: it is of an open file.
LEMMA DiskLifeInv == DiskInv /\ Life => DiskInv'
<1> SUFFICES ASSUME DiskInv, Life PROVE DiskInv'
  OBVIOUS
<1> USE DEF DiskInv
<1>1. CASE Insmod /\ DiskInsmod
  <2>1. InFlight = {} /\ rq' = rq /\ io' = io
    BY <1>1 DEF Insmod, DiskInsmod, Owned
  <2>2. InFlight' = {}
    BY <2>1 DEF InFlight
  <2>3. rb_data' \in [1 .. Size -> Vals]
    BY <1>1 DEF DiskInsmod, Zeros, Vals
  <2> QED
    BY <2>1, <2>2, <2>3
    DEF DiskTypes, DiskTypeOK, Owned, NowAllowed, Concurrent, GotAllowed
<1>2. ASSUME UNCHANGED diskVars, Owned' PROVE DiskInv'
  <2>1. InFlight' = InFlight /\ UNCHANGED <<rb_data, rq, io>>
    BY <1>2 DEF diskVars, InFlight
  <2>2. \A x \in InFlight' : RqOK(rq[x])'
    BY <2>1 DEF DiskTypes, RqOK
  <2> QED
    BY <1>2, <2>1, <2>2 DEF DiskTypes, DiskTypeOK, NowAllowed, Concurrent, GotAllowed
<1>3. CASE LifeStep /\ UNCHANGED diskVars
  <2>1. UNCHANGED <<driver, users>>
    BY <1>3 DEF LifeStep, Succeed, FailUnseen, FailUndo, FailReturn, Release, Unwound,
       Rmmod, Unloaded
  <2> QED
    BY <1>2, <1>3, <2>1 DEF Owned, InFlight, diskVars
<1>4. ASSUME NEW u \in Users, Open(u), UNCHANGED diskVars PROVE DiskInv'
  BY <1>2, <1>4 DEF Open, Owned, InFlight, diskVars
<1>5. ASSUME NEW u \in Users, Close(u), MayClose(u), UNCHANGED diskVars PROVE DiskInv'
  BY <1>2, <1>5 DEF Close, MayClose, Owned, InFlight, diskVars
<1> QED
  BY <1>1, <1>3, <1>4, <1>5 DEF Life

\* The echo device's work is not the disk's.
LEMMA DiskSame == DiskInv /\ UNCHANGED <<driver, users, diskVars>> => DiskInv'
<1> SUFFICES ASSUME DiskInv, UNCHANGED <<driver, users, diskVars>> PROVE DiskInv'
  OBVIOUS
<1> USE DEF DiskInv
<1>1. InFlight' = InFlight /\ UNCHANGED <<driver, users, rb_data, rq, io>>
  BY DEF diskVars, InFlight
<1>2. \A x \in InFlight' : RqOK(rq[x])'
  BY <1>1 DEF DiskTypes, RqOK
<1> QED
  BY <1>1, <1>2 DEF DiskTypes, DiskTypeOK, Owned, NowAllowed, Concurrent, GotAllowed

\* What each request may read stays true to the requests that were finished,
\* however requests overlap (ramdisk.c:24-43).
THEOREM DiskInvariant == Spec => []DiskInv
<1>1. LifeInv /\ DiskInv /\ [Next]_vars => DiskInv'
  <2> SUFFICES ASSUME LifeInv, DiskInv, [Next]_vars PROVE DiskInv'
    OBVIOUS
  <2>1. CASE Life
    BY <2>1, DiskLifeInv
  <2>2. CASE DiskNext
    BY <2>2, SubmitInv, TransferInv, EndInv DEF DiskNext
  <2>3. CASE EchoNext /\ UNCHANGED diskVars
    BY <2>3, WorkKeepsLife, DiskSame DEF lifeVars
  <2>4. CASE UNCHANGED vars
    BY <2>4, DiskSame DEF vars, lifeVars
  <2> QED
    BY <2>1, <2>2, <2>3, <2>4 DEF Next
<1> QED
  BY DiskInitInv, <1>1, DriverLifeInv, PTL DEF Spec

\* Requests that overlap and interleave word by word: a read returns of each word
\* what it held when the read began or what a write at the same time put there,
\* and every word moved is of the disk's memory
\* (ramdisk.c:24-43, :131-139).
THEOREM DiskKeepsDataCorrect == Spec => []DiskKeepsData
<1>1. LifeInv /\ DiskInv => DiskKeepsData
  <2> SUFFICES ASSUME LifeInv, DiskInv, NEW t \in InFlight
               PROVE  /\ rq[t].done < rq[t].n => OnDisk(NextWord(rq[t]))
                      /\ \A i \in DOMAIN rq[t].got :
                           rq[t].got[i] \in rq[t].may[rq[t].first + i - 1]
    BY DEF DiskKeepsData
  <2>1. RqOK(rq[t]) /\ "data" \in held
    BY DiskThere DEF DiskInv, DiskTypes, Owned
  <2>2. rq[t].done < rq[t].n => OnDisk(NextWord(rq[t]))
    <3> DEFINE first == rq[t].first  n == rq[t].n  done == rq[t].done
    <3>1. /\ first \in Nat \ {0} /\ n \in Nat \ {0} /\ first + n - 1 <= Size
          /\ done \in 0 .. n
      BY <2>1 DEF RqOK
    <3> HIDE DEF first, n, done
    <3>2. done < n => first + done \in 1 .. Size
      BY <3>1, SizeNat
    <3> QED
      BY <2>1, <3>2 DEF OnDisk, NextWord, first, n, done
  <2>3. DOMAIN rq[t].got = 1 .. Len(rq[t].got)
    BY <2>1 DEF RqOK
  <2> QED
    BY <2>2, <2>3 DEF DiskInv, GotAllowed
<1> QED
  BY <1>1, DriverLifeInv, DiskInvariant, PTL

\* The types of the drivers' life, of the echo device and of the disk.
THEOREM DriverLabTypeCorrect == Spec => []TypeOK
<1>1. LifeInv /\ EchoInv /\ DiskInv => TypeOK
  BY DEF LifeInv, EchoInv, DiskInv, DiskTypes, TypeOK
<1> QED
  BY <1>1, DriverLifeInv, EchoInvariant, DiskInvariant, PTL
==============================================================================
