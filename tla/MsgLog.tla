-------------------------------- MODULE MsgLog --------------------------------
(***************************************************************************)
(* What /dev/listmsg promises to the programs that open it: one log of     *)
(* messages that grows at its end, and for every open file a reading       *)
(* position of its own that walks the log from the front, one message per  *)
(* read, until it reaches the end once - after that the file reads nothing *)
(* more.  Clearing empties the log and ends every walk; of a file whose    *)
(* walk it cut short, what was read is forgotten, since what the file      *)
(* reads on is not promised to be a message.                               *)
(***************************************************************************)
EXTENDS Integers, Sequences

CONSTANTS Fds,  \* open files
          Ids   \* messages

VARIABLES log,    \* the messages, oldest first
          opened, \* the files that are open
          at,     \* index of the message each file reads next, 0 at the end
          got     \* what each file has read since it was opened

lvars == <<log, opened, at, got>>

LTypeOK == /\ log \in Seq(Ids)
           /\ opened \subseteq Fds
           /\ at \in [Fds -> Nat]
           /\ got \in [Fds -> Seq(Ids)]

LInit == /\ log = <<>> /\ opened = {}
         /\ at = [f \in Fds |-> 0]
         /\ got = [f \in Fds |-> <<>>]

LAppend(id) == /\ log' = Append(log, id)
               /\ UNCHANGED <<opened, at, got>>

LOpen(f) == /\ f \notin opened
            /\ opened' = opened \cup {f}
            /\ at' = [at EXCEPT ![f] = IF log = <<>> THEN 0 ELSE 1]
            /\ got' = [got EXCEPT ![f] = <<>>]
            /\ UNCHANGED log

LRead(f) == /\ f \in opened /\ at[f] # 0
            /\ got' = [got EXCEPT ![f] = Append(@, log[at[f]])]
            /\ at' = [at EXCEPT ![f] = IF @ = Len(log) THEN 0 ELSE @ + 1]
            /\ UNCHANGED <<log, opened>>

LClear == /\ log' = <<>> /\ at' = [f \in Fds |-> 0]
          /\ got' = [f \in Fds |-> IF at[f] # 0 THEN <<>> ELSE got[f]]
          /\ UNCHANGED opened

LClose(f) == /\ f \in opened
             /\ opened' = opened \ {f}
             /\ at' = [at EXCEPT ![f] = 0]
             /\ got' = [got EXCEPT ![f] = <<>>]
             /\ UNCHANGED log

LNext == \/ \E id \in Ids : LAppend(id)
         \/ \E f \in Fds : LOpen(f) \/ LRead(f) \/ LClose(f)
         \/ LClear

LSpec == LInit /\ [][LNext]_lvars

\* A file that is still reading has read exactly the messages before its
\* position, each once and in the order they were written.
ReadsInOrder == \A f \in opened :
  at[f] # 0 => at[f] <= Len(log) /\ got[f] = SubSeq(log, 1, at[f] - 1)
==============================================================================
