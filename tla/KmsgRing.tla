------------------------------ MODULE KmsgRing ------------------------------
(***************************************************************************)
(* The printk ring as the programs of chapter 02 use it: everybody appends *)
(* to it, the newest record pushes out the oldest when it is full, and     *)
(* each open /dev/kmsg reads it with a cursor of its own.  Records are     *)
(* taken to be of one size, so that the ring holds a number of them.       *)
(* The module is a model of the kernel's side; the programs are in RbFill  *)
(* and RunConsole.                                                         *)
(***************************************************************************)
EXTENDS Naturals, Sequences

CONSTANTS Cap,       \* records the ring holds
          MaxOthers, \* bound: records logged by anyone else
          Earlier    \* whether an earlier run of rbfill may have left records

ASSUME RingAssumption == Cap \in Nat \ {0} /\ MaxOthers \in Nat /\ Earlier \in BOOLEAN

\* "other": somebody else's; "same": not of this run of rbfill, but with its
\* tag in the text (an earlier run left it); "mine": rbfill's; "mod": the
\* module's that run_console loads.
Kinds == {"other", "same", "mine", "mod"}

VARIABLES log,    \* the kinds of all records there ever were; seq is the index
          first   \* seq of the oldest record still in the ring

rvars == <<log, first>>

\* The ring is in use before the programs start, and has not wrapped yet.
RInit == /\ log \in {<<"other">>}
                    \cup (IF Earlier THEN {<<"same">>, <<"other", "same">>} ELSE {})
         /\ first = 1 /\ Len(log) <= Cap

\* printk, or a write to /dev/kmsg.
Log(kind) ==
  /\ log' = Append(log, kind)
  /\ first' = IF Len(log') - first < Cap THEN first ELSE first + 1

\* A reader whose cursor is at c: a record is there for it, it has read
\* everything (EAGAIN), or its record has been overwritten (EPIPE).
Ready(c)     == first <= c /\ c <= Len(log)
AtEnd(c)     == c = Len(log) + 1
Overtaken(c) == c < first
==============================================================================
