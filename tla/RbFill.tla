------------------------------- MODULE RbFill -------------------------------
(***************************************************************************)
(* rbfill.c: fills the printk ring with tagged records and samples it, to  *)
(* see when the ring begins to lose its oldest records.                    *)
(***************************************************************************)
EXTENDS KmsgRing, FiniteSets

CONSTANTS TotalN,  \* records to write
          Batch    \* records from one sample to the next

ASSUME FillAssumption == TotalN \in Nat \ {0} /\ Batch \in Nat \ {0}

VARIABLES fpc,      \* "start", "base", "write", "batch", "final", "report", "failed"
          i,        \* records written
          cur,      \* cursor of the sample being taken, 0 when none is open
          st,       \* the sample
          base,     \* oldest_seq of the first sample
          wrap_at   \* record at which the ring was seen to wrap, 0: not seen

fvars == <<fpc, i, cur, st, base, wrap_at>>

\* struct ring_stat; a seq of 0 stands for -1, none.
NoStat == [total |-> 0, tagged |-> 0, oldest |-> 0, last |-> 0, overrun |-> FALSE]

Sampling == fpc \in {"base", "batch", "final"}

FInit == /\ fpc = "start" /\ i = 0 /\ cur = 0 /\ st = NoStat
         /\ base = 0 /\ wrap_at = 0

\* main: arguments, SIZE_BUFFER, the descriptor to write with.
FillStart ==
  /\ fpc = "start"
  /\ fpc' \in {"base", "failed"}
  /\ UNCHANGED <<rvars, i, cur, st, base, wrap_at>>

------------------------------------------------------------------------------
(* sample_ring *)

\* A fresh cursor and an empty struct.  Without a descriptor the first and the
\* last sample end the program, one in between ends the writing.
OpenSample ==
  /\ Sampling /\ cur = 0
  /\ \/ cur' = first /\ st' = NoStat /\ UNCHANGED fpc
     \/ /\ fpc' = IF fpc = "batch" THEN "final" ELSE "failed"
        /\ UNCHANGED <<cur, st>>
  /\ UNCHANGED <<rvars, i, base, wrap_at>>

Tagged(kind) == kind \in {"mine", "same"}

ReadRecord ==
  /\ Sampling /\ cur # 0 /\ Ready(cur)
  /\ st' = [st EXCEPT !.total = @ + 1,
                      !.tagged = IF Tagged(log[cur]) THEN @ + 1 ELSE @,
                      !.oldest = IF st.total = 0 THEN cur ELSE @,
                      !.last = cur]
  /\ cur' = cur + 1
  /\ UNCHANGED <<rvars, fpc, i, base, wrap_at>>

\* The oldest record has moved on since the first sample.
Wraps(oldest) == base # 0 /\ oldest > base

\* (seeded fault: <= for <)
MoreOrOne(n) == n <= TotalN
More(n) == n < TotalN

\* What main makes of a sample s.  The last one is only printed.
Sampled(s) ==
  /\ cur' = 0 /\ st' = s
  /\ \/ fpc = "base"  /\ base' = s.oldest /\ fpc' = "write" /\ UNCHANGED wrap_at
     \/ /\ fpc = "batch"
        /\ fpc' = IF More(i) THEN "write" ELSE "final"
        /\ wrap_at' = IF wrap_at = 0 /\ Wraps(s.oldest) THEN i ELSE wrap_at
        /\ UNCHANGED base
     \/ fpc = "final" /\ fpc' = "report" /\ UNCHANGED <<base, wrap_at>>
  /\ UNCHANGED <<rvars, i>>

SampleEnd == Sampling /\ cur # 0 /\ AtEnd(cur) /\ Sampled(st)

\* (seeded fault: after an overrun the sample goes on)
OverrunGoOn ==
  /\ Sampling /\ cur # 0 /\ Overtaken(cur)
  /\ cur' = first /\ st' = [st EXCEPT !.overrun = TRUE]
  /\ UNCHANGED <<rvars, fpc, i, base, wrap_at>>

\* EPIPE: the sample is cut off here.
Overrun ==
  Sampling /\ cur # 0 /\ Overtaken(cur) /\ Sampled([st EXCEPT !.overrun = TRUE])

------------------------------------------------------------------------------
(* main's loop *)

WriteRecord ==
  /\ fpc = "write"
  /\ Log("mine") /\ i' = i + 1
  /\ fpc' = IF i' % Batch = 0 THEN "batch" ELSE IF More(i') THEN "write" ELSE "final"
  /\ UNCHANGED <<cur, st, base, wrap_at>>

\* A refused write ends the loop.
WriteFails ==
  /\ fpc = "write" /\ fpc' = "final"
  /\ UNCHANGED <<rvars, i, cur, st, base, wrap_at>>

FillNext == \/ FillStart \/ OpenSample \/ ReadRecord \/ SampleEnd \/ Overrun
            \/ WriteRecord \/ WriteFails

------------------------------------------------------------------------------
(* Properties *)

FillTypeOK ==
  /\ fpc \in {"start", "base", "write", "batch", "final", "report", "failed"}
  /\ i \in 0 .. TotalN /\ cur \in 0 .. Len(log) + 1
  /\ st \in [total : Nat, tagged : Nat, oldest : Nat, last : Nat, overrun : BOOLEAN]
  /\ base \in 0 .. Len(log) /\ wrap_at \in 0 .. TotalN

\* A sample is a stretch of the log without holes, counted right, although
\* records are added and pushed out while it is taken (rbfill.c:89-137).
SampleIsAStretch ==
  /\ st.total = IF st.last = 0 THEN 0 ELSE st.last - st.oldest + 1
  /\ st.tagged = Cardinality({s \in 1 .. st.last : st.oldest <= s /\ Tagged(log[s])})

\* rbfill.c:280 prints "缓冲区此刻 100% 是本轮消息" when all the records its last
\* sample has counted carry the tag: every record in the ring is then of this run.
FullIsFull ==
  [][fpc = "final" /\ fpc' = "report" /\ st'.total = st'.tagged
       => \A s \in first .. Len(log) : log[s] = "mine"]_<<rvars, fvars>>

\* rbfill.c:265 prints "覆盖 : 未发生（最老记录 seq 没动，缓冲区还没满）" when no
\* wrap was seen: the oldest record is then the one of the first sample.
NoWrapMeansNone ==
  fpc = "report" /\ wrap_at = 0 /\ base # 0 /\ st.total # 0 => st.oldest = base
==============================================================================
