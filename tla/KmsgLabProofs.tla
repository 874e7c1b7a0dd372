---------------------------- MODULE KmsgLabProofs ----------------------------
(***************************************************************************)
(* Proofs about KmsgLab, for any size of the ring, numbers of records and  *)
(* programs that run together.  Each program has an invariant of its own,  *)
(* which its own steps keep, and which the others' do because all they do  *)
(* to it is to log records and to load and unload the module.              *)
(***************************************************************************)
EXTENDS KmsgLab, SequenceTheorems, FiniteSetTheorems, TLAPS

------------------------------------------------------------------------------
(* The inductive invariants *)

RingOK == log \in Seq(Kinds) /\ first \in 1 .. Len(log) /\ Len(log) - first < Cap

RingInv == RingOK /\ others \in 0 .. MaxOthers

\* rbfill: it has written nothing before its first sample, and while it writes
\* there is a record to write; a sample is a stretch of
\* the log that ends where its cursor stands and begins no later than the ring.
Writing == /\ fpc \in {"start", "base"} => i = 0
           /\ fpc = "write" => i < TotalN
Within == st.oldest \in 0 .. Len(log) /\ st.last \in 0 .. Len(log)
Stretch == /\ st.last # 0 => st.oldest \in 1 .. st.last /\ st.oldest <= first
           /\ st.last = 0 => st.oldest = 0
AtCursor == cur # 0 => /\ Sampling
                       /\ st.last = 0 => cur <= first
                       /\ st.last # 0 => st.last = cur - 1
FillInv == FillTypeOK /\ Writing /\ Within /\ Stretch /\ AtCursor /\ SampleIsAStretch

\* run_console: it has printed, or lost to the ring, all that its cursor passed;
\* its child is gone when it unloads, and nobody else is its child.
CursorPassed == cpc = "follow" => /\ printed < kcur
                                  /\ \A s \in printed + 1 .. kcur - 1 : s < first
Drained == cpc = "drain" => kcur >= 1
ChildGone == cpc = "done" => Gone("console") /\ loaded \notin {"console", "before"}

ConsoleInv == ConsoleTypeOK /\ CursorPassed /\ Drained /\ ChildGone

\* run_pty: its two insmods come one after the other, each is unloaded before
\* the next begins, and B is done with when it was not given up.
NoInsmodB == ins["B"] = "none" /\ sh = "none" /\ loaded # "B"
InsmodADone == Gone("A") /\ (ypc # "rmmodA" => loaded # "A")
PtyOrder == /\ ypc \in {"start", "forkA"} => ins["A"] = "none" /\ loaded # "A"
            /\ ypc \in {"start", "forkA", "A", "reapA", "rmmodA", "forkB"} => NoInsmodB
            /\ ypc \in {"rmmodA", "forkB", "B", "reapB", "rmmodB", "done"} => InsmodADone
            /\ ypc = "B" /\ sh = "exited" => Gone("B")
            /\ ypc \in {"reapB", "rmmodB", "done"} => cut \/ Gone("B")
            /\ ypc = "done" => cut \/ loaded # "B"

PtyInv == PtyTypeOK /\ PtyOrder

IInv == RingInv /\ LoadTypeOK /\ FillInv /\ ConsoleInv /\ PtyInv

------------------------------------------------------------------------------
(* What a step does to the ring *)

\* Records are only ever added at the end, and the oldest one left moves on.
RingGrows == /\ log' \in Seq(Kinds) /\ Len(log') >= Len(log) /\ first' >= first
             /\ \A s \in 1 .. Len(log) : log'[s] = log[s]

\* The ring under a step that logs nothing.
LEMMA RingStays == RingInv /\ UNCHANGED <<rvars, others>> => RingInv' /\ RingGrows
BY DEF RingInv, RingOK, RingGrows, rvars

\* One record is added at the end.
LEMMA LogGrows ==
  ASSUME NEW kind \in Kinds, RingOK, Log(kind)
  PROVE  RingOK' /\ RingGrows /\ Len(log') = Len(log) + 1
<1>1. log \in Seq(Kinds) /\ first \in 1 .. Len(log) /\ Len(log) - first < Cap
  BY DEF RingOK
<1>2. log' = Append(log, kind)
  BY DEF Log
<1>3. log' \in Seq(Kinds) /\ Len(log') = Len(log) + 1 /\ Len(log) \in Nat
  BY <1>1, <1>2
<1>4. \A s \in 1 .. Len(log) : log'[s] = log[s]
  BY <1>1, <1>2
<1>5. first' = IF Len(log') - first < Cap THEN first ELSE first + 1
  BY DEF Log
<1>6. first' >= first /\ first' \in 1 .. Len(log') /\ Len(log') - first' < Cap
  BY <1>1, <1>3, <1>5, RingAssumption
<1> QED
  BY <1>3, <1>4, <1>6 DEF RingOK, RingGrows

\* Every step of the system keeps the ring in order.
LEMMA RingNext == RingInv /\ [Next]_vars => RingInv' /\ RingGrows
<1> SUFFICES ASSUME RingInv, [Next]_vars PROVE RingInv' /\ RingGrows
  OBVIOUS
<1>k. {"other", "mine", "mod"} \subseteq Kinds
  BY DEF Kinds
<1>l. \A kind \in Kinds : RingOK /\ Log(kind) => RingOK' /\ RingGrows
  BY LogGrows
<1>r. RingOK /\ others \in 0 .. MaxOthers
  BY DEF RingInv
<1>1. CASE UNCHANGED vars
  BY <1>1, RingStays DEF vars
<1>2. CASE FillNext /\ UNCHANGED others
  <2>1. CASE WriteRecord
    BY <2>1, <1>2, <1>k, <1>l, <1>r DEF WriteRecord, RingInv
  <2>2. CASE ~WriteRecord
    <3>1. UNCHANGED rvars
      BY <2>2, <1>2 DEF FillNext, FillStart, OpenSample, ReadRecord, SampleEnd, Overrun,
                        Sampled, WriteFails, rvars
    <3> QED
      BY <3>1, <1>2, RingStays
  <2> QED
    BY <2>1, <2>2
<1>3. CASE ConsoleNext /\ UNCHANGED others
  <2>1. UNCHANGED rvars
    BY <1>3 DEF ConsoleNext, DrainOpen, DrainRead, DrainEnd, FollowRead, FollowOvertaken,
                Deadline, Unload, rvars
  <2> QED
    BY <2>1, <1>3, RingStays
<1>4. CASE PtyNext /\ UNCHANGED others
  <2>1. UNCHANGED rvars
    BY <1>4 DEF PtyNext, cleanup, ForkA, ForkB, ShellEnds, drain_untilA, drain_untilB, Reap, rvars
  <2> QED
    BY <2>1, <1>4, RingStays
<1>5. CASE LoadNext /\ UNCHANGED others
  <2>1. PICK l \in Loaders : LoadBegins(l) \/ ModulePrints(l) \/ ModuleIsIn(l)
    BY <1>5 DEF LoadNext
  <2>2. CASE ModulePrints(l)
    BY <2>2, <1>5, <1>k, <1>l, <1>r DEF ModulePrints, RingInv
  <2>3. CASE LoadBegins(l) \/ ModuleIsIn(l)
    BY <2>3, <1>5, RingStays DEF LoadBegins, ModuleIsIn, rvars
  <2> QED
    BY <2>1, <2>2, <2>3
<1>6. CASE Others
  <2>1. RingOK' /\ RingGrows
    BY <1>6, <1>k, <1>l, <1>r DEF Others
  <2>2. others' \in 0 .. MaxOthers
    BY <1>6, <1>r, RingAssumption DEF Others
  <2> QED
    BY <2>1, <2>2 DEF RingInv
<1> QED
  BY <1>1, <1>2, <1>3, <1>4, <1>5, <1>6 DEF Next

\* The ring at first.
LEMMA RingInitInv == Init => RingInv
<1> SUFFICES ASSUME Init PROVE RingInv
  OBVIOUS
<1>1. first = 1 /\ others = 0 /\ Len(log) <= Cap
  BY DEF Init, RInit
<1>2. <<"other">> \in Seq(Kinds) /\ <<"same">> \in Seq(Kinds) /\ <<"other", "same">> \in Seq(Kinds)
  BY DEF Kinds
<1>3. log \in Seq(Kinds) /\ Len(log) >= 1
  <2>1. CASE log = <<"other">>
    BY <2>1, <1>2
  <2>2. CASE log = <<"same">>
    BY <2>2, <1>2
  <2>3. CASE log = <<"other", "same">>
    BY <2>3, <1>2
  <2> QED
    BY <2>1, <2>2, <2>3 DEF Init, RInit
<1>4. Len(log) \in Nat /\ 0 \in 0 .. MaxOthers
  BY <1>3, RingAssumption
<1>5. first \in 1 .. Len(log) /\ Len(log) - first < Cap
  BY <1>1, <1>3, <1>4, RingAssumption
<1> QED
  BY <1>1, <1>3, <1>4, <1>5 DEF RingInv, RingOK

------------------------------------------------------------------------------
(* rbfill *)

\* The filler at first.
LEMMA FillInitInv == Init => FillInv
<1> SUFFICES ASSUME Init PROVE FillInv
  OBVIOUS
<1>1. fpc = "start" /\ i = 0 /\ cur = 0 /\ st = NoStat /\ base = 0 /\ wrap_at = 0
  BY DEF Init, FInit
<1>2. st.total = 0 /\ st.tagged = 0 /\ st.oldest = 0 /\ st.last = 0
  BY <1>1 DEF NoStat
<1>3. RingInv
  BY RingInitInv
<1>4. FillTypeOK
  BY <1>1, <1>3, FillAssumption DEF FillTypeOK, NoStat, RingInv, RingOK
<1>5. Writing /\ Within /\ Stretch /\ AtCursor
  BY <1>1, <1>2, <1>3, FillAssumption DEF Writing, Within, Stretch, AtCursor, RingInv, RingOK
<1>6. {s \in 1 .. st.last : st.oldest <= s /\ Tagged(log[s])} = {}
  BY <1>2
<1>7. SampleIsAStretch
  BY <1>2, <1>6, FS_EmptySet DEF SampleIsAStretch
<1> QED
  BY <1>4, <1>5, <1>7 DEF FillInv

\* The fields of the sample, one by one.
LEMMA StatFields ==
  ASSUME FillTypeOK
  PROVE  /\ st.total \in Nat /\ st.tagged \in Nat /\ st.oldest \in Nat /\ st.last \in Nat
         /\ DOMAIN st = {"total", "tagged", "oldest", "last", "overrun"}
         /\ st.overrun \in BOOLEAN
BY DEF FillTypeOK

\* Records that others add leave a sample what it is: it speaks of a stretch of
\* the log that nobody rewrites.
LEMMA SampleKept ==
  ASSUME RingInv, RingInv', FillInv, RingGrows, st' = st
  PROVE  Within' /\ Stretch' /\ SampleIsAStretch'
<1>1. st.oldest \in Nat /\ st.last \in Nat /\ st.total \in Nat
  BY StatFields DEF FillInv
<1>2. Len(log) \in Nat /\ Len(log') \in Nat /\ Len(log') >= Len(log) /\ first \in Nat
      /\ first' \in Nat /\ first' >= first
  BY DEF RingInv, RingOK, RingGrows
<1>3. Within'
  BY <1>1, <1>2 DEF FillInv, Within
<1>4. Stretch'
  <2>1. st.last # 0 => st.oldest \in 1 .. st.last /\ st.oldest <= first
    BY DEF FillInv, Stretch
  <2>2. st.last = 0 => st.oldest = 0
    BY DEF FillInv, Stretch
  <2> QED
    BY <2>1, <2>2, <1>1, <1>2 DEF Stretch
<1>5. {s \in 1 .. st.last : st.oldest <= s /\ Tagged(log'[s])} =
      {s \in 1 .. st.last : st.oldest <= s /\ Tagged(log[s])}
  <2>1. st.last <= Len(log)
    BY <1>1, <1>2 DEF FillInv, Within
  <2>2. \A s \in 1 .. st.last : s \in 1 .. Len(log)
    BY <1>1, <1>2, <2>1
  <2>3. \A s \in 1 .. st.last : log'[s] = log[s]
    BY <2>2 DEF RingGrows
  <2> QED
    BY <2>3
<1>6. SampleIsAStretch
  BY DEF FillInv
<1>7. SampleIsAStretch'
  BY <1>5, <1>6 DEF SampleIsAStretch, Tagged
<1> QED
  BY <1>3, <1>4, <1>7

\* What the filler has sampled stays true while others log.
LEMMA FillOthersInv ==
  ASSUME RingInv, RingInv', FillInv, RingGrows, UNCHANGED fvars
  PROVE  FillInv'
<1>1. Len(log) \in Nat /\ Len(log') \in Nat /\ Len(log') >= Len(log) /\ first \in Nat
      /\ first' \in Nat /\ first' >= first
  BY DEF RingInv, RingOK, RingGrows
<1>2. fpc' = fpc /\ i' = i /\ cur' = cur /\ st' = st /\ base' = base /\ wrap_at' = wrap_at
  BY DEF fvars
<1>3. FillTypeOK'
  <2>1. FillTypeOK
    BY DEF FillInv
  <2>2. cur \in 0 .. Len(log') + 1 /\ base \in 0 .. Len(log')
    BY <2>1, <1>1 DEF FillTypeOK
  <2> QED
    BY <2>1, <2>2, <1>2 DEF FillTypeOK
<1>4. Writing'
  BY <1>2 DEF FillInv, Writing
<1>5. AtCursor'
  <2>1. cur \in Nat
    BY <1>1 DEF FillInv, FillTypeOK
  <2>2. AtCursor
    BY DEF FillInv
  <2> QED
    BY <1>1, <1>2, <2>1, <2>2 DEF AtCursor, Sampling
<1>6. Within' /\ Stretch' /\ SampleIsAStretch'
  BY <1>2, SampleKept
<1> QED
  BY <1>3, <1>4, <1>5, <1>6 DEF FillInv

\* Between two samples rbfill writes a record, or does not.
LEMMA FillWriteInv ==
  ASSUME RingInv, RingInv', FillInv, RingGrows, FillStart \/ WriteRecord \/ WriteFails
  PROVE  FillInv'
<1>1. Len(log) \in Nat /\ Len(log') \in Nat /\ Len(log') >= Len(log)
  BY DEF RingInv, RingOK, RingGrows
<1>2. st' = st /\ cur' = cur /\ base' = base /\ wrap_at' = wrap_at
  BY DEF FillStart, WriteRecord, WriteFails
<1>3. cur = 0
  BY DEF FillInv, AtCursor, Sampling, FillStart, WriteRecord, WriteFails
<1>4. FillTypeOK /\ Writing
  BY DEF FillInv
<1>5. i \in 0 .. TotalN /\ TotalN \in Nat /\ base \in 0 .. Len(log)
  BY <1>4, FillAssumption DEF FillTypeOK
<1>6. i' \in 0 .. TotalN /\ Writing' /\ fpc' \in {"base", "failed", "batch", "write", "final"}
  <2>1. CASE FillStart
    BY <2>1, <1>4, <1>5 DEF FillStart, Writing
  <2>2. CASE WriteRecord
    BY <2>2, <1>4, <1>5 DEF WriteRecord, Writing, More
  <2>3. CASE WriteFails
    BY <2>3, <1>4, <1>5 DEF WriteFails, Writing
  <2> QED
    BY <2>1, <2>2, <2>3
<1>7. FillTypeOK'
  <2>1. base \in 0 .. Len(log') /\ cur \in 0 .. Len(log') + 1
    BY <1>1, <1>3, <1>5
  <2> QED
    BY <2>1, <1>2, <1>4, <1>6 DEF FillTypeOK
<1>8. AtCursor'
  BY <1>2, <1>3 DEF AtCursor
<1>9. Within' /\ Stretch' /\ SampleIsAStretch'
  BY <1>2, SampleKept
<1> QED
  BY <1>6, <1>7, <1>8, <1>9 DEF FillInv

\* A sample begins: it is empty, and its cursor is at the oldest record.
LEMMA OpenSampleInv ==
  ASSUME RingInv, FillInv, OpenSample
  PROVE  FillInv'
<1>1. Len(log) \in Nat /\ first \in 1 .. Len(log) /\ log' = log /\ first' = first
  BY DEF RingInv, RingOK, OpenSample, rvars
<1>2. i' = i /\ base' = base /\ wrap_at' = wrap_at /\ Sampling /\ cur = 0
  BY DEF OpenSample
<1>3. FillTypeOK /\ Writing /\ Within /\ Stretch /\ SampleIsAStretch
  BY DEF FillInv
<1>4. CASE cur' = first /\ st' = NoStat /\ UNCHANGED fpc
  <2>1. st'.total = 0 /\ st'.tagged = 0 /\ st'.oldest = 0 /\ st'.last = 0
    BY <1>4 DEF NoStat
  <2>2. st' \in [total : Nat, tagged : Nat, oldest : Nat, last : Nat, overrun : BOOLEAN]
    BY <1>4 DEF NoStat
  <2>3. cur' \in 0 .. Len(log) + 1
    BY <1>1, <1>4
  <2>4. FillTypeOK'
    BY <1>1, <1>2, <1>3, <1>4, <2>2, <2>3 DEF FillTypeOK
  <2>5. Writing' /\ Within' /\ Stretch'
    BY <1>1, <1>2, <1>3, <1>4, <2>1 DEF Writing, Within, Stretch
  <2>6. AtCursor'
    BY <1>1, <1>2, <1>4, <2>1 DEF AtCursor, Sampling
  <2>7. {s \in 1 .. st'.last : st'.oldest <= s /\ Tagged(log'[s])} = {}
    BY <2>1
  <2>8. SampleIsAStretch'
    BY <2>1, <2>7, FS_EmptySet DEF SampleIsAStretch, Tagged
  <2> QED
    BY <2>4, <2>5, <2>6, <2>8 DEF FillInv
<1>5. CASE fpc' \in {"final", "failed"} /\ UNCHANGED <<cur, st>>
  <2>1. FillTypeOK' /\ Writing' /\ Within' /\ Stretch' /\ SampleIsAStretch'
    BY <1>1, <1>2, <1>3, <1>5 DEF FillTypeOK, Writing, Within, Stretch, SampleIsAStretch, Tagged
  <2>2. AtCursor'
    BY <1>2, <1>5 DEF AtCursor
  <2> QED
    BY <2>1, <2>2 DEF FillInv
<1> QED
  BY <1>4, <1>5 DEF OpenSample

\* A record is read: the stretch is one longer, and so is the count of the
\* tagged ones if this one is.
LEMMA ReadRecordInv ==
  ASSUME RingInv, FillInv, ReadRecord
  PROVE  FillInv'
<1>1. /\ Len(log) \in Nat /\ first \in 1 .. Len(log) /\ log' = log /\ first' = first
      /\ i' = i /\ base' = base /\ wrap_at' = wrap_at /\ fpc' = fpc
      /\ Sampling /\ cur # 0 /\ cur' = cur + 1
  BY DEF RingInv, RingOK, ReadRecord, rvars
<1>2. FillTypeOK /\ Writing /\ Within /\ Stretch /\ AtCursor /\ SampleIsAStretch
  BY DEF FillInv
<1>3. cur \in 1 .. Len(log) /\ first <= cur
  BY <1>1, <1>2 DEF ReadRecord, Ready, FillTypeOK
<1>4. /\ st.total \in Nat /\ st.tagged \in Nat /\ st.oldest \in Nat /\ st.last \in Nat
      /\ DOMAIN st = {"total", "tagged", "oldest", "last", "overrun"} /\ st.overrun \in BOOLEAN
  BY <1>2, StatFields
<1>5. /\ st'.total = st.total + 1
      /\ st'.tagged = IF Tagged(log[cur]) THEN st.tagged + 1 ELSE st.tagged
      /\ st'.oldest = IF st.total = 0 THEN cur ELSE st.oldest
      /\ st'.last = cur
      /\ st'.overrun = st.overrun
  BY <1>4 DEF ReadRecord
<1>6. st.last # 0 => st.oldest \in 1 .. st.last /\ st.oldest <= first
  BY <1>2 DEF Stretch
<1>7. st.total = IF st.last = 0 THEN 0 ELSE st.last - st.oldest + 1
  BY <1>2 DEF SampleIsAStretch
<1>8. st.last = 0 <=> st.total = 0
  BY <1>4, <1>6, <1>7
<1>9. (st.last = 0 => cur <= first) /\ (st.last # 0 => st.last = cur - 1)
  BY <1>1, <1>2 DEF AtCursor
<1>10. st' \in [total : Nat, tagged : Nat, oldest : Nat, last : Nat, overrun : BOOLEAN]
  <2>1. /\ st'.total \in Nat /\ st'.tagged \in Nat /\ st'.oldest \in Nat /\ st'.last \in Nat
        /\ st'.overrun \in BOOLEAN
    BY <1>3, <1>4, <1>5
  <2>2. st \in [total : Nat, tagged : Nat, oldest : Nat, last : Nat, overrun : BOOLEAN]
    BY <1>2 DEF FillTypeOK
  <2>3. st' = [total |-> st'.total, tagged |-> st'.tagged, oldest |-> st'.oldest,
               last |-> st'.last, overrun |-> st'.overrun]
    BY <2>2 DEF ReadRecord
  <2> QED
    BY <2>1, <2>3
<1>11. FillTypeOK'
  <2>1. cur + 1 \in 0 .. Len(log) + 1
    BY <1>1, <1>3
  <2> QED
    BY <1>1, <1>2, <1>10, <2>1 DEF FillTypeOK
<1>12. st'.oldest \in 1 .. cur /\ st'.oldest <= first
  <2>1. CASE st.last = 0
    BY <2>1, <1>1, <1>3, <1>5, <1>8, <1>9
  <2>2. CASE st.last # 0
    BY <2>2, <1>1, <1>3, <1>4, <1>5, <1>6, <1>8, <1>9
  <2> QED
    BY <2>1, <2>2
<1>13. Writing' /\ Within' /\ Stretch' /\ AtCursor'
  <2>1. Writing'
    BY <1>1, <1>2 DEF Writing
  <2>2. Within'
    BY <1>1, <1>3, <1>5, <1>12 DEF Within
  <2>3. Stretch'
    BY <1>1, <1>3, <1>5, <1>12 DEF Stretch
  <2>4. AtCursor'
    BY <1>1, <1>3, <1>5 DEF AtCursor, Sampling
  <2> QED
    BY <2>1, <2>2, <2>3, <2>4
<1> DEFINE Before == {s \in 1 .. st.last : st.oldest <= s /\ Tagged(log[s])}
           After  == {s \in 1 .. st'.last : st'.oldest <= s /\ Tagged(log'[s])}
<1>14. After = Before \cup {s \in {cur} : Tagged(log[s])}
  <2>1. CASE st.last = 0
    <3>1. Before = {}
      BY <2>1
    <3>2. After = {s \in 1 .. cur : cur <= s /\ Tagged(log[s])}
      BY <2>1, <1>1, <1>5, <1>8
    <3>3. {s \in 1 .. cur : cur <= s} = {cur}
      BY <1>3
    <3> QED
      BY <3>1, <3>2, <3>3
  <2>2. CASE st.last # 0
    <3>1. After = {s \in 1 .. cur : st.oldest <= s /\ Tagged(log[s])}
      BY <2>2, <1>1, <1>5, <1>8
    <3>2. st.oldest <= cur /\ st.last = cur - 1
      BY <2>2, <1>3, <1>4, <1>6, <1>9
    <3>3. 1 .. cur = (1 .. st.last) \cup {cur}
      BY <3>2, <1>3, <1>4
    <3> QED
      BY <3>1, <3>2, <3>3
  <2> QED
    BY <2>1, <2>2
<1>15. cur \notin Before /\ IsFiniteSet(Before) /\ Before \subseteq 1 .. st.last
  <2>1. cur \notin 1 .. st.last
    BY <1>3, <1>4, <1>9
  <2>2. IsFiniteSet(1 .. st.last)
    BY <1>4, FS_Interval
  <2>3. Before \subseteq 1 .. st.last
    OBVIOUS
  <2> QED
    BY <2>1, <2>2, <2>3, FS_Subset
<1>16. st'.tagged = Cardinality(After)
  <2> HIDE DEF Before, After
  <2>1. st.tagged = Cardinality(Before)
    BY <1>2 DEF SampleIsAStretch, Before
  <2>2. CASE Tagged(log[cur])
    <3>1. After = Before \cup {cur}
      BY <2>2, <1>14
    <3>2. Cardinality(Before \cup {cur}) = Cardinality(Before) + 1
      BY <1>15, FS_AddElement
    <3> QED
      BY <2>1, <2>2, <3>1, <3>2, <1>5
  <2>3. CASE ~Tagged(log[cur])
    <3>1. After = Before
      BY <2>3, <1>14
    <3> QED
      BY <2>1, <2>3, <3>1, <1>5
  <2> QED
    BY <2>2, <2>3
<1>17. st'.total = IF st'.last = 0 THEN 0 ELSE st'.last - st'.oldest + 1
  <2>1. CASE st.last = 0
    BY <2>1, <1>3, <1>5, <1>7, <1>8
  <2>2. CASE st.last # 0
    BY <2>2, <1>3, <1>4, <1>5, <1>6, <1>7, <1>8, <1>9
  <2> QED
    BY <2>1, <2>2
<1>18. SampleIsAStretch'
  BY <1>16, <1>17 DEF SampleIsAStretch, Tagged
<1> QED
  BY <1>11, <1>13, <1>18 DEF FillInv

\* A sample ends, at the end of the log or cut off by an overrun.
LEMMA SampledInv ==
  ASSUME RingInv, FillInv, SampleEnd \/ Overrun
  PROVE  FillInv'
<1>1. /\ Len(log) \in Nat /\ first \in 1 .. Len(log) /\ log' = log /\ first' = first
      /\ i' = i /\ cur' = 0 /\ Sampling
  BY DEF RingInv, RingOK, SampleEnd, Overrun, Sampled, rvars
<1>2. FillTypeOK /\ Writing /\ Within /\ Stretch /\ SampleIsAStretch
  BY DEF FillInv
<1>3. /\ st.total \in Nat /\ st.tagged \in Nat /\ st.oldest \in Nat /\ st.last \in Nat
      /\ DOMAIN st = {"total", "tagged", "oldest", "last", "overrun"} /\ st.overrun \in BOOLEAN
  BY <1>2, StatFields
<1>4. st' = st \/ st' = [st EXCEPT !.overrun = TRUE]
  BY DEF SampleEnd, Overrun, Sampled
<1>5. /\ st'.total = st.total /\ st'.tagged = st.tagged
      /\ st'.oldest = st.oldest /\ st'.last = st.last
  BY <1>3, <1>4
<1>6. st' \in [total : Nat, tagged : Nat, oldest : Nat, last : Nat, overrun : BOOLEAN]
  BY <1>2, <1>4 DEF FillTypeOK
<1>7. PICK s \in {st, [st EXCEPT !.overrun = TRUE]} : Sampled(s)
  BY DEF SampleEnd, Overrun
<1>8. s.oldest = st.oldest
  BY <1>3
<1>9. i \in 0 .. TotalN /\ TotalN \in Nat \ {0} /\ base \in 0 .. Len(log) /\ wrap_at \in 0 .. TotalN
  BY <1>2, FillAssumption DEF FillTypeOK
<1>10. base' \in 0 .. Len(log) /\ wrap_at' \in 0 .. TotalN
  <2>1. st.oldest \in 0 .. Len(log)
    BY <1>2 DEF Within
  <2>2. base' \in {base, st.oldest} /\ wrap_at' \in {wrap_at, i}
    BY <1>7, <1>8 DEF Sampled
  <2> QED
    BY <2>1, <2>2, <1>9
<1>11. fpc' \in {"write", "final", "report"} /\ (fpc' = "write" => i < TotalN)
  <2>1. CASE fpc = "base"
    <3>1. i = 0
      BY <2>1, <1>2 DEF Writing
    <3> QED
      BY <2>1, <3>1, <1>7, <1>9 DEF Sampled
  <2>2. CASE fpc = "batch"
    BY <2>2, <1>7 DEF Sampled, More
  <2>3. CASE fpc = "final"
    BY <2>3, <1>7 DEF Sampled
  <2> QED
    BY <2>1, <2>2, <2>3, <1>1 DEF Sampling
<1>12. FillTypeOK'
  BY <1>1, <1>6, <1>9, <1>10, <1>11 DEF FillTypeOK
<1>13. Writing' /\ AtCursor'
  BY <1>1, <1>11 DEF Writing, AtCursor
<1>14. Within' /\ Stretch' /\ SampleIsAStretch'
  BY <1>1, <1>2, <1>5 DEF Within, Stretch, SampleIsAStretch, Tagged
<1> QED
  BY <1>12, <1>13, <1>14 DEF FillInv

\* Every step, of the filler or of another.
LEMMA FillNextInv == RingInv /\ FillInv /\ [Next]_vars => FillInv'
<1> SUFFICES ASSUME RingInv, FillInv, [Next]_vars PROVE FillInv'
  OBVIOUS
<1>1. RingInv' /\ RingGrows
  BY RingNext
<1>2. CASE FillNext
  BY <1>1, <1>2, FillWriteInv, OpenSampleInv, ReadRecordInv, SampledInv DEF FillNext
<1>3. CASE UNCHANGED fvars
  BY <1>1, <1>3, FillOthersInv
<1> QED
  BY <1>2, <1>3 DEF Next, Others, vars

------------------------------------------------------------------------------
(* Who may change what of the module *)

\* The module at first.
LEMMA LoadInitInv == Init => LoadTypeOK
<1>1. 0 \in 0 .. ModLines
  BY LinesAssumption
<1> QED
  BY <1>1 DEF Init, LoadInit, LoadTypeOK

\* A step of the loader takes one process on: to finit_module, or to its end
\* with the module loaded or not.
LoaderMoves(l) ==
  /\ \A o \in Loaders \ {l} : ins'[o] = ins[o]
  /\ ins[l] \in {"asleep", "loading"} /\ ins'[l] \in {"asleep", "loading", "exited"}
  /\ loaded' \in {loaded, l}

\* The loader moves one process on, and only it.
LEMMA LoadDoes ==
  ASSUME LoadTypeOK, LoadNext
  PROVE  LoadTypeOK' /\ \E l \in Loaders : LoaderMoves(l)
<1>1. PICK l \in Loaders : LoadBegins(l) \/ ModulePrints(l) \/ ModuleIsIn(l)
  BY DEF LoadNext
<1>2. /\ ins \in [Loaders -> {"none", "asleep", "loading", "exited"}]
      /\ lines \in 0 .. ModLines /\ loaded \in Loaders \cup {"none", "before"}
      /\ ModLines \in Nat
  BY LinesAssumption DEF LoadTypeOK
<1>3. ins' \in [Loaders -> {"none", "asleep", "loading", "exited"}]
  BY <1>1, <1>2 DEF LoadBegins, ModulePrints, ModuleIsIn
<1>4. lines' \in 0 .. ModLines
  BY <1>1, <1>2 DEF LoadBegins, ModulePrints, ModuleIsIn
<1>5. loaded' \in {loaded, l}
  BY <1>1 DEF LoadBegins, ModulePrints, ModuleIsIn
<1>6. /\ \A o \in Loaders \ {l} : ins'[o] = ins[o]
      /\ ins[l] \in {"asleep", "loading"} /\ ins'[l] \in {"asleep", "loading", "exited"}
  BY <1>1, <1>2 DEF LoadBegins, ModulePrints, ModuleIsIn
<1> QED
  BY <1>1, <1>2, <1>3, <1>4, <1>5, <1>6 DEF LoadTypeOK, LoaderMoves

\* fork and delete_module.
LEMMA ForkDoes ==
  ASSUME LoadTypeOK, NEW l \in Loaders, Forked(l)
  PROVE  /\ LoadTypeOK' /\ loaded' = loaded /\ ins'[l] = "asleep"
         /\ \A o \in Loaders \ {l} : ins'[o] = ins[o]
BY DEF LoadTypeOK, Forked

\* delete_module leaves nothing loaded.
LEMMA RmmodDoes ==
  ASSUME LoadTypeOK, Rmmod
  PROVE  LoadTypeOK' /\ loaded' = "none" /\ ins' = ins
BY DEF LoadTypeOK, Rmmod

\* A step that is not about the module.
LEMMA MvarsSame == LoadTypeOK /\ UNCHANGED mvars => LoadTypeOK' /\ loaded' = loaded /\ ins' = ins
BY DEF LoadTypeOK, mvars

\* Every step, of the loader or of its callers.
LEMMA LoadNextInv == LoadTypeOK /\ [Next]_vars => LoadTypeOK'
<1> SUFFICES ASSUME LoadTypeOK, [Next]_vars PROVE LoadTypeOK'
  OBVIOUS
<1>l. {"console", "A", "B"} \subseteq Loaders
  BY DEF Loaders
<1>1. CASE UNCHANGED mvars
  BY <1>1, MvarsSame
<1>2. CASE ConsoleNext
  <2>1. UNCHANGED mvars \/ Forked("console") \/ Rmmod
    BY <1>2 DEF ConsoleNext, DrainOpen, DrainRead, DrainEnd, FollowRead, FollowOvertaken,
                Deadline, Unload, mvars
  <2> QED
    BY <2>1, <1>l, MvarsSame, ForkDoes, RmmodDoes
<1>3. CASE PtyNext
  <2>1. UNCHANGED mvars \/ Forked("A") \/ Forked("B") \/ Rmmod
    BY <1>3 DEF PtyNext, cleanup, ForkA, ForkB, ShellEnds, drain_untilA, drain_untilB, Reap, mvars
  <2> QED
    BY <2>1, <1>l, MvarsSame, ForkDoes, RmmodDoes
<1>4. CASE LoadNext
  BY <1>4, LoadDoes
<1> QED
  BY <1>1, <1>2, <1>3, <1>4 DEF Next, Others, vars

------------------------------------------------------------------------------
(* run_console *)

\* run_console at first.
LEMMA ConsoleInitInv == Init => ConsoleInv
<1> SUFFICES ASSUME Init PROVE ConsoleInv
  OBVIOUS
<1>1. RingInv
  BY RingInitInv
<1>2. Len(log) \in Nat /\ 0 \in 0 .. Len(log) /\ 0 \in 0 .. Len(log) + 1
  BY <1>1 DEF RingInv, RingOK
<1>3. cpc = "start" /\ kcur = 0 /\ printed = 0
  BY DEF Init, CInit
<1> QED
  BY <1>2, <1>3 DEF ConsoleInv, ConsoleTypeOK, CursorPassed, Drained, ChildGone

\* What others do: the log grows, and once run_console is done nobody loads the
\* module in its name.
LEMMA ConsoleOthersInv ==
  ASSUME RingInv, RingInv', RingGrows, LoadTypeOK, ConsoleInv, UNCHANGED cvars,
         \/ UNCHANGED mvars \/ LoadNext \/ Forked("A") \/ Forked("B") \/ Rmmod
  PROVE  ConsoleInv'
<1>1. Len(log) \in Nat /\ Len(log') \in Nat /\ Len(log') >= Len(log) /\ first \in Nat
      /\ first' \in Nat /\ first' >= first
  BY DEF RingInv, RingOK, RingGrows
<1>2. cpc' = cpc /\ kcur' = kcur /\ printed' = printed
  BY DEF cvars
<1>3. ConsoleTypeOK /\ CursorPassed /\ Drained /\ ChildGone
  BY DEF ConsoleInv
<1>4. kcur \in Nat /\ printed \in Nat
  BY <1>1, <1>3 DEF ConsoleTypeOK
<1>5. ConsoleTypeOK'
  <2>1. kcur \in 0 .. Len(log') + 1 /\ printed \in 0 .. Len(log')
    BY <1>1, <1>3, <1>4 DEF ConsoleTypeOK
  <2> QED
    BY <2>1, <1>2, <1>3 DEF ConsoleTypeOK
<1>6. CursorPassed'
  <2> SUFFICES ASSUME cpc = "follow"
               PROVE  printed < kcur /\ \A s \in printed + 1 .. kcur - 1 : s < first'
    BY <1>2 DEF CursorPassed
  <2>1. printed < kcur /\ \A s \in printed + 1 .. kcur - 1 : s < first
    BY <1>3 DEF CursorPassed
  <2> QED
    BY <2>1, <1>1, <1>4
<1>7. Drained'
  BY <1>2, <1>3 DEF Drained
<1>8. ChildGone'
  <2> SUFFICES ASSUME cpc = "done"
               PROVE  Gone("console")' /\ loaded' \notin {"console", "before"}
    BY <1>2 DEF ChildGone
  <2>1. ins["console"] \in {"none", "exited"} /\ loaded \notin {"console", "before"}
    BY <1>3 DEF ChildGone, Gone
  <2>2. CASE LoadNext
    <3>1. PICK l \in Loaders : LoaderMoves(l)
      BY <2>2, LoadDoes
    <3>2. l # "console"
      BY <3>1, <2>1 DEF LoaderMoves
    <3> QED
      BY <3>1, <3>2, <2>1 DEF LoaderMoves, Gone, Loaders
  <2>3. CASE UNCHANGED mvars
    BY <2>1, <2>3, MvarsSame DEF Gone
  <2>4. CASE Forked("A") \/ Forked("B")
    BY <2>1, <2>4, ForkDoes DEF Gone, Loaders
  <2>5. CASE Rmmod
    BY <2>1, <2>5, RmmodDoes DEF Gone
  <2> QED
    BY <2>2, <2>3, <2>4, <2>5
<1> QED
  BY <1>5, <1>6, <1>7, <1>8 DEF ConsoleInv

\* Each step of run_console: draining, following, the deadline, the unload.
LEMMA ConsoleStepInv ==
  ASSUME RingInv, LoadTypeOK, ConsoleInv, ConsoleNext
  PROVE  ConsoleInv'
<1>1. Len(log) \in Nat /\ first \in 1 .. Len(log)
  BY DEF RingInv, RingOK
<1>2. log' = log /\ first' = first
  BY DEF ConsoleNext, DrainOpen, DrainRead, DrainEnd, FollowRead, FollowOvertaken, Deadline,
         Unload, rvars
<1>3. ConsoleTypeOK /\ CursorPassed /\ Drained /\ ChildGone
  BY DEF ConsoleInv
<1>4. kcur \in 0 .. Len(log) + 1 /\ printed \in 0 .. Len(log) /\ kcur \in Nat /\ printed \in Nat
  BY <1>1, <1>3 DEF ConsoleTypeOK
<1>5. CASE DrainOpen
  <2>1. kcur' \in {kcur, first} /\ cpc' \in {"drain", "failed"} /\ printed' = printed
        /\ (cpc' = "drain" => kcur' = first)
    BY <1>5 DEF DrainOpen
  <2>2. ConsoleTypeOK'
    BY <2>1, <1>1, <1>2, <1>4 DEF ConsoleTypeOK
  <2> QED
    BY <2>1, <2>2, <1>1 DEF ConsoleInv, CursorPassed, Drained, ChildGone
<1>6. CASE DrainRead
  <2>1. kcur' = kcur + 1 /\ cpc' = "drain" /\ printed' = printed /\ kcur <= Len(log)
    BY <1>6 DEF DrainRead, Ready
  <2>2. ConsoleTypeOK'
    BY <2>1, <1>1, <1>2, <1>4 DEF ConsoleTypeOK
  <2>3. Drained'
    BY <2>1, <1>4 DEF Drained
  <2> QED
    BY <2>1, <2>2, <2>3 DEF ConsoleInv, CursorPassed, ChildGone
<1>7. CASE DrainEnd
  <2>1. cpc' \in {"follow", "failed"} /\ kcur' = (IF kcur < first THEN first ELSE kcur)
        /\ printed' = kcur' - 1 /\ kcur >= 1
    BY <1>7, <1>3 DEF DrainEnd, Overtaken, Drained
  <2>2. kcur' \in 1 .. Len(log) + 1 /\ printed' \in 0 .. Len(log) /\ printed' < kcur'
    BY <2>1, <1>1, <1>4
  <2>3. ConsoleTypeOK'
    BY <2>1, <2>2, <1>1, <1>2 DEF ConsoleTypeOK
  <2>4. CursorPassed'
    BY <2>1, <2>2, <1>1 DEF CursorPassed
  <2> QED
    BY <2>1, <2>3, <2>4 DEF ConsoleInv, Drained, ChildGone
<1>8. CASE FollowRead
  <2>1. kcur' = kcur + 1 /\ printed' = kcur /\ cpc' = "follow" /\ kcur <= Len(log) /\ first <= kcur
    BY <1>8 DEF FollowRead, Ready
  <2>2. ConsoleTypeOK'
    BY <2>1, <1>1, <1>2, <1>4 DEF ConsoleTypeOK
  <2>3. CursorPassed'
    BY <2>1, <1>1, <1>4 DEF CursorPassed
  <2> QED
    BY <2>1, <2>2, <2>3 DEF ConsoleInv, Drained, ChildGone
<1>9. CASE FollowOvertaken
  <2>1. kcur' = first /\ printed' = printed /\ cpc' = "follow" /\ kcur < first
    BY <1>9 DEF FollowOvertaken, Rewinds, Overtaken
  <2>2. ConsoleTypeOK'
    BY <2>1, <1>1, <1>2, <1>4 DEF ConsoleTypeOK
  <2>3. printed < kcur
    BY <1>3, <1>9 DEF CursorPassed, FollowOvertaken
  <2>4. CursorPassed'
    BY <2>1, <2>3, <1>1, <1>2, <1>4 DEF CursorPassed
  <2> QED
    BY <2>1, <2>2, <2>4 DEF ConsoleInv, Drained, ChildGone
<1>10. CASE Deadline
  <2>1. cpc' = "reap" /\ kcur' = kcur /\ printed' = printed
    BY <1>10 DEF Deadline
  <2> QED
    BY <2>1, <1>2, <1>3 DEF ConsoleInv, ConsoleTypeOK, CursorPassed, Drained, ChildGone
<1>11. CASE Unload
  <2>1. cpc' = "done" /\ kcur' = kcur /\ printed' = printed /\ Rmmod /\ Gone("console")
    BY <1>11 DEF Unload, Reaped
  <2>2. ChildGone'
    BY <2>1, RmmodDoes DEF ChildGone, Gone
  <2> QED
    BY <2>1, <2>2, <1>2, <1>3 DEF ConsoleInv, ConsoleTypeOK, CursorPassed, Drained
<1> QED
  BY <1>5, <1>6, <1>7, <1>8, <1>9, <1>10, <1>11 DEF ConsoleNext

\* What a step of one program does to the loaders, seen by the others.
LEMMA PtyDoes ==
  PtyNext => UNCHANGED mvars \/ Forked("A") \/ Forked("B") \/ Rmmod
BY DEF PtyNext, cleanup, ForkA, ForkB, ShellEnds, drain_untilA, drain_untilB, Reap, mvars

\* run_console touches the module by fork and delete_module only.
LEMMA ConsoleDoes ==
  ConsoleNext => UNCHANGED mvars \/ Forked("console") \/ Rmmod
BY DEF ConsoleNext, DrainOpen, DrainRead, DrainEnd, FollowRead, FollowOvertaken, Deadline,
       Unload, mvars

\* Every step, of run_console or of another.
LEMMA ConsoleNextInv ==
  RingInv /\ LoadTypeOK /\ ConsoleInv /\ [Next]_vars => ConsoleInv'
<1> SUFFICES ASSUME RingInv, LoadTypeOK, ConsoleInv, [Next]_vars PROVE ConsoleInv'
  OBVIOUS
<1>1. RingInv' /\ RingGrows
  BY RingNext
<1>2. CASE ConsoleNext
  BY <1>2, ConsoleStepInv
<1>3. CASE UNCHANGED cvars /\ (UNCHANGED mvars \/ LoadNext \/ PtyNext)
  BY <1>1, <1>3, PtyDoes, ConsoleOthersInv
<1> QED
  BY <1>2, <1>3 DEF Next, Others, vars

------------------------------------------------------------------------------
(* run_pty *)

\* run_pty at first.
LEMMA PtyInitInv == Init => PtyInv
<1> SUFFICES ASSUME Init PROVE PtyInv
  OBVIOUS
<1>1. ypc = "start" /\ sh = "none" /\ cut = FALSE
  BY DEF Init, PInit
<1>2. ins["A"] = "none" /\ ins["B"] = "none" /\ loaded \notin {"A", "B"}
  BY DEF Init, LoadInit, Loaders
<1>3. PtyTypeOK
  BY <1>1 DEF PtyTypeOK, CleanupThen
<1> QED
  BY <1>1, <1>2, <1>3 DEF PtyInv, PtyOrder, NoInsmodB

\* The loader, and run_console's fork and rmmod, do not bring back an insmod
\* that has ended, nor load the module in its name.
LEMMA PtyOthersInv ==
  ASSUME LoadTypeOK, PtyInv, UNCHANGED yvars,
         \/ UNCHANGED mvars \/ LoadNext \/ Forked("console") \/ Rmmod
  PROVE  PtyInv'
<1>1. ypc' = ypc /\ sh' = sh /\ cut' = cut
  BY DEF yvars
<1>2. PtyTypeOK'
  BY <1>1 DEF PtyInv, PtyTypeOK
<1>3. \A p \in {"A", "B"} : /\ ins[p] = "none" => ins'[p] = "none"
                            /\ ins[p] = "exited" => ins'[p] = "exited"
                            /\ Gone(p) /\ loaded # p => loaded' # p
  <2>1. CASE LoadNext
    <3>1. PICK l \in Loaders : LoaderMoves(l)
      BY <2>1, LoadDoes
    <3> QED
      BY <3>1 DEF LoaderMoves, Loaders, Gone
  <2>2. CASE UNCHANGED mvars
    BY <2>2, MvarsSame
  <2>3. CASE Forked("console")
    BY <2>3, ForkDoes DEF Loaders
  <2>4. CASE Rmmod
    BY <2>4, RmmodDoes
  <2> QED
    BY <2>1, <2>2, <2>3, <2>4
<1>4. \A p \in {"A", "B"} : Gone(p) => ins'[p] \in {"none", "exited"}
  BY <1>3 DEF Gone
<1>5. PtyOrder
  BY DEF PtyInv
<1>6. NoInsmodB => NoInsmodB'
  BY <1>1, <1>3 DEF NoInsmodB, Gone
<1>7. InsmodADone => InsmodADone'
  BY <1>1, <1>3 DEF InsmodADone, Gone
<1>8. ypc' \in {"start", "forkA"} => ins'["A"] = "none" /\ loaded' # "A"
  BY <1>1, <1>3, <1>5 DEF PtyOrder, Gone
<1>9. ypc' = "B" /\ sh' = "exited" => Gone("B")'
  BY <1>1, <1>4, <1>5 DEF PtyOrder, Gone
<1>10. ypc' \in {"reapB", "rmmodB", "done"} => cut' \/ Gone("B")'
  BY <1>1, <1>4, <1>5 DEF PtyOrder, Gone
<1>11. ypc' = "done" => cut' \/ loaded' # "B"
  BY <1>1, <1>3, <1>5 DEF PtyOrder
<1>12. PtyOrder'
  BY <1>1, <1>5, <1>6, <1>7, <1>8, <1>9, <1>10, <1>11 DEF PtyOrder
<1> QED
  BY <1>2, <1>12 DEF PtyInv

\* Each step of run_pty.
LEMMA PtyStepInv ==
  ASSUME LoadTypeOK, PtyInv, PtyNext
  PROVE  PtyInv'
<1>1. PtyTypeOK /\ PtyOrder
  BY DEF PtyInv
<1>c. DOMAIN CleanupThen = {"start", "rmmodA", "rmmodB"}
  BY DEF CleanupThen
<1>0. PtyTypeOK'
  <2>1. sh' \in {"none", "running", "exited"}
    BY <1>1 DEF PtyTypeOK, PtyNext, cleanup, ForkA, ForkB, ShellEnds, drain_untilA,
                drain_untilB, Reap
  <2>2. cut' \in BOOLEAN
    BY <1>1 DEF PtyTypeOK, PtyNext, cleanup, ForkA, ForkB, ShellEnds, drain_untilA,
                drain_untilB, Reap
  <2>3. CASE cleanup
    <3>1. CleanupThen[ypc] \in {"forkA", "forkB", "done"}
      BY <2>3, <1>c DEF cleanup, CleanupThen
    <3> QED
      BY <2>1, <2>2, <2>3, <3>1 DEF PtyTypeOK, cleanup
  <2>4. CASE ~cleanup
    <3>1. ypc' = ypc \/ ypc' \in {"A", "B", "failed", "reapA", "reapB", "rmmodA", "rmmodB"}
      BY <2>4 DEF PtyNext, ForkA, ForkB, ShellEnds, drain_untilA, drain_untilB, Reap
    <3> QED
      BY <2>1, <2>2, <3>1, <1>1, <1>c DEF PtyTypeOK
  <2> QED
    BY <2>3, <2>4
<1>2. CASE cleanup
  <2>1. sh' = sh /\ cut' = cut /\ loaded' = "none" /\ ins' = ins
    BY <1>2, RmmodDoes DEF cleanup
  <2>2. CASE ypc = "start"
    <3>1. ypc' = "forkA"
      BY <1>2, <2>2 DEF cleanup, CleanupThen
    <3> QED
      BY <2>1, <2>2, <3>1, <1>1, <1>0 DEF PtyInv, PtyOrder, NoInsmodB
  <2>3. CASE ypc = "rmmodA"
    <3>1. ypc' = "forkB"
      BY <1>2, <2>3 DEF cleanup, CleanupThen
    <3> QED
      BY <2>1, <2>3, <3>1, <1>1, <1>0 DEF PtyInv, PtyOrder, NoInsmodB, InsmodADone, Gone
  <2>4. CASE ypc = "rmmodB"
    <3>1. ypc' = "done"
      BY <1>2, <2>4 DEF cleanup, CleanupThen
    <3> QED
      BY <2>1, <2>4, <3>1, <1>1, <1>0 DEF PtyInv, PtyOrder, InsmodADone, Gone
  <2> QED
    BY <1>2, <1>c, <2>2, <2>3, <2>4 DEF cleanup
<1>3. CASE ForkA
  <2>1. sh' = sh /\ cut' = cut /\ ypc = "forkA" /\ ypc' \in {"A", "failed"}
    BY <1>3 DEF ForkA
  <2>2. ins'["B"] = ins["B"] /\ loaded' = loaded
    BY <1>3, ForkDoes, MvarsSame DEF ForkA, Loaders
  <2> QED
    BY <2>1, <2>2, <1>1, <1>0 DEF PtyInv, PtyOrder, NoInsmodB
<1>4. CASE ForkB
  <2>1. cut' = cut /\ ypc = "forkB" /\ ypc' \in {"B", "failed"} /\ (ypc' = "B" => sh' = "running")
    BY <1>4 DEF ForkB
  <2>2. ins'["A"] = ins["A"] /\ loaded' = loaded
    BY <1>4, ForkDoes, MvarsSame DEF ForkB, Loaders
  <2> QED
    BY <2>1, <2>2, <1>1, <1>0 DEF PtyInv, PtyOrder, InsmodADone, Gone
<1>5. CASE ShellEnds
  <2>1. sh = "running" /\ sh' = "exited" /\ ypc' = ypc /\ cut' = cut /\ Gone("B")
        /\ loaded' = loaded /\ ins' = ins
    BY <1>5, MvarsSame DEF ShellEnds
  <2> QED
    BY <2>1, <1>1, <1>0 DEF PtyInv, PtyOrder, NoInsmodB, InsmodADone, Gone
<1>6. CASE drain_untilA
  <2>1. ypc = "A" /\ ypc' = "reapA" /\ sh' = sh /\ cut' = cut /\ loaded' = loaded /\ ins' = ins
    BY <1>6, MvarsSame DEF drain_untilA
  <2> QED
    BY <2>1, <1>1, <1>0 DEF PtyInv, PtyOrder, NoInsmodB
<1>7. CASE drain_untilB
  <2>1. ypc = "B" /\ ypc' = "reapB" /\ (cut' \/ Gone("B")) /\ loaded' = loaded /\ ins' = ins
    BY <1>7, MvarsSame DEF drain_untilB
  <2> QED
    BY <2>1, <1>1, <1>0 DEF PtyInv, PtyOrder, InsmodADone, Gone
<1>8. CASE Reap
  <2>1. sh' = sh /\ cut' = cut /\ loaded' = loaded /\ ins' = ins
    BY <1>8, MvarsSame DEF Reap
  <2>2. \/ ypc = "reapA" /\ ypc' = "rmmodA" /\ Gone("A")
        \/ ypc = "reapB" /\ ypc' = "rmmodB"
    BY <1>8 DEF Reap, Waited
  <2> QED
    BY <2>1, <2>2, <1>1, <1>0 DEF PtyInv, PtyOrder, NoInsmodB, InsmodADone, Gone
<1> QED
  BY <1>2, <1>3, <1>4, <1>5, <1>6, <1>7, <1>8 DEF PtyNext

\* Every step, of run_pty or of another.
LEMMA PtyNextInv == LoadTypeOK /\ PtyInv /\ [Next]_vars => PtyInv'
<1> SUFFICES ASSUME LoadTypeOK, PtyInv, [Next]_vars PROVE PtyInv'
  OBVIOUS
<1>1. CASE PtyNext
  BY <1>1, PtyStepInv
<1>2. CASE UNCHANGED yvars /\ (UNCHANGED mvars \/ LoadNext \/ ConsoleNext)
  BY <1>2, ConsoleDoes, PtyOthersInv
<1> QED
  BY <1>1, <1>2 DEF Next, Others, vars

------------------------------------------------------------------------------
(* The theorems *)

\* All of it is invariant together: each program's part needs the ring's, and
\* those of run_console and run_pty need the loaders'.
THEOREM KmsgLabInv == Spec => []IInv
<1>1. Init => IInv
  BY RingInitInv, LoadInitInv, FillInitInv, ConsoleInitInv, PtyInitInv DEF IInv
<1>2. IInv /\ [Next]_vars => IInv'
  BY RingNext, LoadNextInv, FillNextInv, ConsoleNextInv, PtyNextInv DEF IInv
<1> QED
  BY <1>1, <1>2, PTL DEF Spec

\* The programs' states keep their types, and the ring never holds more than it
\* can, whichever programs run together.
THEOREM KmsgLabTypeCorrect == Spec => []TypeOK
<1>1. IInv => TypeOK
  BY DEF IInv, RingInv, RingOK, FillInv, ConsoleInv, PtyInv, TypeOK
<1> QED
  BY <1>1, KmsgLabInv, PTL

\* A sample of the ring is a stretch of the log without holes and counts its
\* tagged records right, however many records are added and pushed out while
\* sample_ring reads (rbfill.c:89-137).
THEOREM SampleIsAStretchCorrect == Spec => []SampleIsAStretch
<1>1. IInv => SampleIsAStretch
  BY DEF IInv, FillInv
<1> QED
  BY <1>1, KmsgLabInv, PTL

\* When run_console is over neither the module its child loads nor the one it
\* found is in the kernel, although run_pty may load and unload the same one
\* meanwhile (run_console.c:200-237).
THEOREM NothingLoadedAfterCorrect == Spec => []NothingLoadedAfter
<1>1. IInv => NothingLoadedAfter
  BY DEF IInv, ConsoleInv, ChildGone, NothingLoadedAfter
<1> QED
  BY <1>1, KmsgLabInv, PTL

\* run_pty leaves no module behind, in whatever order its insmods, its shell,
\* its time-outs and run_console's steps come, unless B was given up
\* (run_pty.c:233-242).
THEOREM PtyUnloadsCorrect == Spec => []PtyUnloads
<1>1. IInv => PtyUnloads
  <2> SUFFICES ASSUME IInv, ypc = "done" PROVE PtyUnloads
    BY DEF PtyUnloads
  <2>1. PtyOrder
    BY DEF IInv, PtyInv
  <2> QED
    BY <2>1 DEF PtyOrder, PtyUnloads, InsmodADone, Gone
<1> QED
  BY <1>1, KmsgLabInv, PTL

\* What run_console prints comes in order, each record once, and it leaves out
\* only what the ring had lost (run_console.c:116-123, :203-226).
THEOREM PrintedOnceCorrect == Spec => PrintedOnce
<1> DEFINE Printing == cpc = "follow" /\ printed' # printed
                         => /\ printed' > printed
                            /\ \A s \in printed + 1 .. printed' - 1 : s < first
<1>1. IInv /\ [Next]_vars => [Printing]_<<rvars, cvars>>
  <2> SUFFICES ASSUME IInv, [Next]_vars, cpc = "follow", printed' # printed
               PROVE  /\ printed' > printed
                      /\ \A s \in printed + 1 .. printed' - 1 : s < first
    OBVIOUS
  <2>1. FollowRead
    BY DEF Next, Others, vars, cvars, ConsoleNext, DrainOpen, DrainRead, DrainEnd,
           FollowOvertaken, Deadline, Unload
  <2>2. printed' = kcur
    BY <2>1 DEF FollowRead
  <2>3. CursorPassed
    BY DEF IInv, ConsoleInv
  <2>4. kcur \in Nat /\ printed \in Nat
    BY DEF IInv, RingInv, RingOK, ConsoleInv, ConsoleTypeOK
  <2> QED
    BY <2>2, <2>3, <2>4 DEF CursorPassed
<1> HIDE DEF Printing
<1>2. Spec => [][Printing]_<<rvars, cvars>>
  BY <1>1, KmsgLabInv, PTL DEF Spec
<1> QED
  BY <1>2 DEF PrintedOnce, Printing
==============================================================================
