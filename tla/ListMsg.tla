-------------------------------- MODULE ListMsg --------------------------------
(***************************************************************************)
(* 07-list-head/listmsg.c: /dev/listmsg keeps the messages written to it   *)
(* on an intrusive list under one mutex; every open file owns a cursor, a  *)
(* pointer into that list.                                                 *)
(*                                                                         *)
(* A call is split where another call can come in between: lm_read loads   *)
(* its cursor again and again, once before it has the mutex, and           *)
(* LISTMSG_CLEAR resets a cursor without the mutex; the other critical     *)
(* sections touch nothing that is read outside one and are a single step.  *)
(* Returns that change nothing (cnt = 0, -ENOMEM, -ENOTTY, LISTMSG_COUNT)  *)
(* leave no step to take.                                                  *)
(***************************************************************************)
EXTENDS Integers, Sequences, FiniteSets

CONSTANTS Tasks,       \* threads that call into the driver
          Fds,         \* files they may open
          Nodes,       \* what kmalloc hands out
          MaxWrites,   \* bound: messages written in a run
          NULL, NoOne,
          WILD         \* an address where there is no node

ASSUME NullAssumption == NULL \notin Nodes \cup Fds
ASSUME WildAssumption == WILD \notin Nodes \cup {NULL}
ASSUME NoOneAssumption == NoOne \notin Tasks
ASSUME WritesAssumption == MaxWrites \in Nat

VARIABLES
  text,    \* "absent", "live", or the step of lm_exit to come
  list,    \* msg_list: the nodes on it, first to last
  heap,    \* the nodes that are allocated
  body,    \* the message each node holds, 0 if none
  msg_count,
  lock,    \* who holds the mutex
  opened,  \* open files
  pos,     \* cursor.pos of each file
  idx,     \* cursor.idx of each file
  pc,      \* where each task is in its call
  fd,      \* the file it was called on
  m,       \* the node lm_write allocated
  line,    \* what lm_read formatted
  nxt,     \* where its cursor goes next
  written, \* messages written so far
  got,     \* history: the messages each file has read since it was opened
  lost,    \* history: the files whose walk a CLEAR cut short
  crossed  \* history: the reads that another read on their file came before

listVars == <<list, heap, body, msg_count>>
curVars  == <<opened, pos, idx, got, lost>>
taskVars == <<pc, fd, m, line, nxt, crossed>>
vars     == <<text, listVars, lock, curVars, taskVars, written>>

Ids == 1..MaxWrites

TypeOK ==
  /\ text \in {"absent", "live", "exit_free", "exit_deregister"}
  /\ list \in Seq(Nodes) /\ heap \subseteq Nodes
  /\ body \in [Nodes -> 0..MaxWrites] /\ msg_count \in Nat
  /\ lock \in Tasks \cup {NoOne}
  /\ opened \subseteq Fds
  /\ pos \in [Fds -> Nodes \cup {NULL, WILD}] /\ idx \in [Fds -> Nat]
  /\ pc \in [Tasks -> {"idle", "copy", "add", "lock", "format", "next", "store",
                       "clear", "reset", "dead"}]
  /\ fd \in [Tasks -> Fds \cup {NULL}]
  /\ m \in [Tasks -> Nodes \cup {NULL}]
  /\ line \in [Tasks -> 0..MaxWrites]
  /\ nxt \in [Tasks -> Nodes \cup {NULL, WILD}]
  /\ written \in 0..MaxWrites
  /\ got \in [Fds -> Seq(0..MaxWrites)]
  /\ lost \subseteq opened /\ crossed \subseteq Tasks

Init ==
  /\ text = "absent"
  /\ list = <<>> /\ heap = {} /\ body = [n \in Nodes |-> 0] /\ msg_count = 0
  /\ lock = NoOne
  /\ opened = {} /\ pos = [f \in Fds |-> NULL] /\ idx = [f \in Fds |-> 0]
  /\ pc = [t \in Tasks |-> "idle"] /\ fd = [t \in Tasks |-> NULL]
  /\ m = [t \in Tasks |-> NULL] /\ line = [t \in Tasks |-> 0]
  /\ nxt = [t \in Tasks |-> NULL]
  /\ written = 0 /\ got = [f \in Fds |-> <<>>] /\ lost = {} /\ crossed = {}

------------------------------------------------------------------------------
(* The list *)

OnList == {list[k] : k \in 1..Len(list)}
Place(n) == CHOOSE k \in 1..Len(list) : list[k] = n
FirstOrNull == IF list = <<>> THEN NULL ELSE list[1]
\* (seeded fault: the cursor goes back to the first message at the end)
NextOrFirst(n) == IF list[Len(list)] = n THEN list[1] ELSE list[Place(n) + 1]

NextOrNull(n) == IF list[Len(list)] = n THEN NULL ELSE list[Place(n) + 1]

\* list_del and kfree of every node: nothing is left of what they held.
FreeAll ==
  /\ list' = <<>> /\ heap' = heap \ OnList
  /\ body' = [n \in Nodes |-> IF n \in OnList THEN 0 ELSE body[n]]

------------------------------------------------------------------------------
(* Files *)

\* A call enters on an open file.
Enter(t, f, where) ==
  /\ pc[t] = "idle" /\ f \in opened
  /\ pc' = [pc EXCEPT ![t] = where] /\ fd' = [fd EXCEPT ![t] = f]

Goto(t, where) == pc' = [pc EXCEPT ![t] = where] /\ UNCHANGED fd
Return(t) == pc' = [pc EXCEPT ![t] = "idle"] /\ fd' = [fd EXCEPT ![t] = NULL]

\* misc_open needs a live module, then lm_open: the cursor starts at the
\* first message there is.
lm_open(f) ==
  /\ text = "live" /\ f \notin opened
  /\ lock = NoOne
  /\ opened' = opened \cup {f}
  /\ pos' = [pos EXCEPT ![f] = FirstOrNull]
  /\ idx' = [idx EXCEPT ![f] = 1]
  /\ got' = [got EXCEPT ![f] = <<>>] /\ UNCHANGED lost
  /\ UNCHANGED <<text, listVars, lock, taskVars, written>>

\* The last reference to the file is gone: no call is inside on it.
lm_release(f) ==
  /\ f \in opened /\ \A t \in Tasks : fd[t] # f
  /\ opened' = opened \ {f}
  /\ pos' = [pos EXCEPT ![f] = NULL] /\ idx' = [idx EXCEPT ![f] = 0]
  /\ got' = [got EXCEPT ![f] = <<>>] /\ lost' = lost \ {f}
  /\ UNCHANGED <<text, listVars, lock, taskVars, written>>

------------------------------------------------------------------------------
(* lm_write *)

\* kmalloc takes any free node.
WriteAlloc(t, f) ==
  /\ Enter(t, f, "copy")
  /\ \E n \in Nodes \ heap : heap' = heap \cup {n} /\ m' = [m EXCEPT ![t] = n]
  /\ written < MaxWrites
  /\ UNCHANGED <<text, list, body, msg_count, lock, curVars, line, nxt, crossed, written>>

\* (seeded fault: -EFAULT without the kfree)
Kept(t) == heap
Freed(t) == heap \ {m[t]}

\* copy_from_user; a fault frees the node and returns -EFAULT.
WriteCopy(t) ==
  /\ pc[t] = "copy"
  /\ \/ /\ written < MaxWrites /\ written' = written + 1
        /\ body' = [body EXCEPT ![m[t]] = written'] /\ Goto(t, "add")
        /\ UNCHANGED <<heap, m>>
     \/ /\ heap' = Freed(t) /\ m' = [m EXCEPT ![t] = NULL]
        /\ Return(t) /\ UNCHANGED <<body, written>>
  /\ UNCHANGED <<text, list, msg_count, lock, curVars, line, nxt, crossed>>

\* mutex_lock; list_add_tail; msg_count++; mutex_unlock.
WriteAdd(t) ==
  /\ pc[t] = "add" /\ lock = NoOne
  /\ list' = Append(list, m[t]) /\ msg_count' = msg_count + 1
  /\ m' = [m EXCEPT ![t] = NULL] /\ Return(t)
  /\ UNCHANGED <<text, heap, body, lock, curVars, line, nxt, crossed, written>>

------------------------------------------------------------------------------
(* lm_read *)

\* if (!cur->pos) return 0 - looked at without the mutex.
ReadCheck(t, f) ==
  /\ pos[f] # NULL /\ Enter(t, f, "lock")
  /\ UNCHANGED <<text, listVars, lock, curVars, m, line, nxt, crossed, written>>

ReadLock(t) ==
  /\ pc[t] = "lock" /\ lock = NoOne
  /\ lock' = t /\ Goto(t, "format")
  /\ UNCHANGED <<text, listVars, curVars, m, line, nxt, crossed, written>>

\* The message of the node the cursor points at now; of one that was freed,
\* whatever it holds.
ReadFormat(t) ==
  LET n == pos[fd[t]] IN
  /\ pc[t] = "format" /\ n \in Nodes
  /\ line' = [line EXCEPT ![t] = body[n]]
  /\ Goto(t, "next")
  /\ UNCHANGED <<text, listVars, lock, curVars, m, nxt, crossed, written>>

\* list_is_last and list_next_entry of the node the cursor points at by now: the
\* links of a freed one are poison, or what its next owner made of them.
ReadNext(t) ==
  LET n == pos[fd[t]] IN
  /\ pc[t] = "next" /\ n \in Nodes
  /\ \E x \in IF n \in OnList THEN {NextOrNull(n)} ELSE {NULL, WILD} :
       nxt' = [nxt EXCEPT ![t] = x]
  /\ Goto(t, "store")
  /\ UNCHANGED <<text, listVars, lock, curVars, m, line, crossed, written>>

\* The kernel ends a task that follows an address where there is no node: its
\* reference to the file is dropped, the mutex is not.
ReadOops(t) ==
  /\ pc[t] \in {"format", "next"} /\ pos[fd[t]] \notin Nodes
  /\ pc' = [pc EXCEPT ![t] = "dead"] /\ fd' = [fd EXCEPT ![t] = NULL]
  /\ line' = [line EXCEPT ![t] = 0] /\ crossed' = crossed \ {t}
  /\ UNCHANGED <<text, listVars, lock, curVars, m, nxt, written>>

\* The reads on the same file as t.
OtherReads(t) ==
  {u \in Tasks \ {t} : fd[u] = fd[t] /\ pc[u] \in {"lock", "format", "next", "store"}}

\* (seeded fault: a fault returns before the mutex is unlocked)
UnlockUnlessFault(t) == lock' \in {NoOne, t}
Unlock(t) == lock' = NoOne

\* The cursor moves on before the line is copied out: a copy_to_user that
\* faults has consumed the message as well.
ReadStore(t) ==
  LET f == fd[t] IN
  /\ pc[t] = "store"
  /\ pos' = [pos EXCEPT ![f] = nxt[t]]
  /\ idx' = [idx EXCEPT ![f] = @ + 1]
  /\ got' = [got EXCEPT ![f] = IF f \in lost THEN @ ELSE Append(@, line[t])]
  /\ line' = [line EXCEPT ![t] = 0] /\ nxt' = [nxt EXCEPT ![t] = NULL]
  /\ crossed' = (crossed \cup OtherReads(t)) \ {t}
  /\ Unlock(t) /\ Return(t)
  /\ UNCHANGED <<text, listVars, opened, lost, m, written>>

------------------------------------------------------------------------------
(* lm_ioctl: LISTMSG_CLEAR *)

ClearEnter(t, f) ==
  /\ Enter(t, f, "clear")
  /\ UNCHANGED <<text, listVars, lock, curVars, m, line, nxt, crossed, written>>

\* (seeded fault: one message is counted off, however many there were)
OneLess == msg_count - 1
NoneLeft == 0

\* The files whose walk ends here.
Cut == {f \in opened : pos[f] # NULL} \ lost

\* Under the mutex every node comes off the list and is freed.  Every file that
\* stands somewhere has lost its walk, and what it has read counts no more.
ClearFree(t) ==
  /\ pc[t] = "clear" /\ lock = NoOne
  /\ FreeAll /\ msg_count' = NoneLeft
  /\ lost' = lost \cup Cut
  /\ got' = [f \in Fds |-> IF f \in Cut THEN <<>> ELSE got[f]]
  /\ Goto(t, "reset")
  /\ UNCHANGED <<text, lock, opened, pos, idx, m, line, nxt, crossed, written>>

\* (seeded fault: the cursor is left alone)
NotReset(t) == pos
Reset(t) == [pos EXCEPT ![fd[t]] = NULL]

\* Without the mutex the cursor of the calling file, and only it, is reset: that
\* file is at the end, unless a read on it is under way.
ClearReset(t) ==
  /\ pc[t] = "reset" /\ Return(t)
  /\ pos' = Reset(t)
  /\ lost' = IF OtherReads(t) = {} THEN lost \ {fd[t]} ELSE lost
  /\ UNCHANGED <<text, listVars, lock, opened, idx, got, m, line, nxt, crossed, written>>

------------------------------------------------------------------------------
(* The module *)

\* lm_init: fresh statics, then misc_register, whose failure leaves nothing.
lm_init ==
  /\ text = "absent" /\ text' = "live"
  /\ list' = <<>> /\ msg_count' = 0
  /\ UNCHANGED <<heap, body, lock, curVars, taskVars, written>>

\* rmmod is refused while a file is open (.owner).
Rmmod ==
  /\ text = "live" /\ opened = {} /\ text' = "exit_free"
  /\ UNCHANGED <<listVars, lock, curVars, taskVars, written>>

\* lm_exit: every node is freed under the mutex ...
ExitFree ==
  /\ text = "exit_free" /\ text' = "exit_deregister" /\ lock = NoOne
  /\ FreeAll
  /\ UNCHANGED <<msg_count, lock, curVars, taskVars, written>>

\* ... then misc_deregister.
ExitDeregister ==
  /\ text = "exit_deregister" /\ text' = "absent"
  /\ UNCHANGED <<listVars, lock, curVars, taskVars, written>>

------------------------------------------------------------------------------
Inside(t) ==
  \/ WriteCopy(t) \/ WriteAdd(t)
  \/ ReadLock(t) \/ ReadFormat(t) \/ ReadNext(t)
  \/ ReadStore(t) \/ ReadOops(t) \/ ClearFree(t) \/ ClearReset(t)

Call(t, f) == WriteAlloc(t, f) \/ ReadCheck(t, f) \/ ClearEnter(t, f)

Next ==
  \/ \E t \in Tasks : Inside(t) \/ \E f \in Fds : Call(t, f)
  \/ \E f \in Fds : lm_open(f) \/ lm_release(f)
  \/ lm_init \/ Rmmod \/ ExitFree \/ ExitDeregister

\* A task inside a call runs on; the mutex wakes its waiters in turn, so one
\* that can take it again and again does in the end.
Fairness == \A t \in Tasks : SF_vars(Inside(t))

SafeSpec == Init /\ [][Next]_vars
Spec == SafeSpec /\ Fairness

------------------------------------------------------------------------------
(* Properties *)

\* A read that has the mutex stands on a node of the list, though its cursor was
\* looked at before it waited: it never follows NULL or a freed node, unless a
\* CLEAR cut the walk of its file short or another read on the same file came
\* first.  (After its own CLEAR a file reads nothing, so nothing wrong.)
CursorLive == \A t \in Tasks :
  pc[t] \in {"format", "next"} =>
    pos[fd[t]] \in OnList \/ fd[t] \in lost \/ t \in crossed

\* What the chapter says, that every open has a cursor of its own and readers do
\* not disturb each other: as long as no call on its own file interferes, a read
\* stands on a node of the list.
ReadersIndependent == \A t \in Tasks :
  pc[t] = "format" /\ (\A u \in Tasks \ {t} : fd[u] # fd[t]) /\ t \notin crossed =>
    pos[fd[t]] \in OnList

\* Every node kmalloc handed out is on the list or in the hands of the one
\* lm_write that fills it, and never both: no message is leaked by a fault, by
\* CLEAR or by lm_exit, none is on the list twice, and LISTMSG_COUNT tells how
\* many there are.
NodesAccounted ==
  /\ heap = OnList \cup {m[t] : t \in {u \in Tasks : pc[u] \in {"copy", "add"}}}
  /\ Cardinality(heap) = Len(list) +
       Cardinality({u \in Tasks : pc[u] \in {"copy", "add"}})
  /\ text = "live" /\ lock = NoOne => msg_count = Len(list)

\* The device is the log of MsgLog, read through an independent position per
\* open file; a file that a CLEAR cut short stands nowhere.
Log == INSTANCE MsgLog
         WITH log <- [k \in 1..Len(list) |-> body[list[k]]],
              at  <- [f \in Fds |-> IF pos[f] = NULL \/ f \in lost THEN 0
                                     ELSE Place(pos[f])]
IsALog == Log!LSpec

\* Every call comes back - nobody keeps the mutex, and a waiter gets it - or a
\* task has died inside the driver.
CallsReturn == \A t \in Tasks :
  pc[t] # "idle" ~> pc[t] = "idle" \/ \E u \in Tasks : pc[u] = "dead"
==============================================================================
