------------------------------ MODULE MiscEcho ------------------------------
(***************************************************************************)
(* 04-char-block-net/char/misc_echo.c, read and write: one message for     *)
(* everybody, each call under one mutex from beginning to end, a position  *)
(* per open file.  A byte is the number of the write that put it there.    *)
(***************************************************************************)
EXTENDS DriverLife

CONSTANTS MsgMax,    \* MSG_MAX
          MaxWrites  \* bound: writes in a behaviour

ASSUME EchoAssumption == MsgMax \in Nat \ {0} /\ MaxWrites \in Nat

VARIABLES msg, msg_len,
          wrote,  \* writes begun so far
          good,   \* the last of them that succeeded, 0: none since insmod
          ppos,   \* position of each user's file
          got     \* (history) the bytes read from the file

echoVars == <<msg, msg_len, wrote, good, ppos, got>>

Bytes == 1 .. MsgMax
Smaller(x, y) == IF x < y THEN x ELSE y

\* The static buffer, as insmod brings it.
FreshEcho == msg' = [b \in Bytes |-> 0] /\ msg_len' = 0 /\ good' = 0

EchoInit ==
  /\ msg = [b \in Bytes |-> 0] /\ msg_len = 0 /\ wrote = 0 /\ good = 0
  /\ ppos = [u \in Users |-> 0] /\ got = [u \in Users |-> <<>>]

EchoInsmod == FreshEcho /\ UNCHANGED <<wrote, ppos, got>>

\* A new struct file.
EchoOpen(u) ==
  /\ ppos' = [ppos EXCEPT ![u] = 0] /\ got' = [got EXCEPT ![u] = <<>>]
  /\ UNCHANGED <<msg, msg_len, wrote, good>>

InEcho(u) == driver = "misc_echo" /\ u \in users

\* (seeded fault: the end of the buffer, not of the message)
ClippedToBuffer(u, cnt) == Smaller(cnt, MsgMax - ppos[u])

\* if (cnt > msg_len - *ppos)
Clipped(u, cnt) == Smaller(cnt, msg_len - ppos[u])

\* At *ppos >= msg_len, which a shorter message may bring about, and on
\* -EFAULT nothing happens.
ed_read(u) ==
  /\ InEcho(u) /\ ppos[u] < msg_len
  /\ \E cnt \in Bytes : LET n == Clipped(u, cnt) IN
       /\ got' = [got EXCEPT ![u] = @ \o SubSeq(msg, ppos[u] + 1, ppos[u] + n)]
       /\ ppos' = [ppos EXCEPT ![u] = @ + n]
  /\ UNCHANGED <<lifeVars, msg, msg_len, wrote, good>>

\* cnt > MSG_MAX is cut.  The write does not move the position.  A fault leaves
\* the n bytes overwritten (copy_from_user zeroes what it could not read), and
\* the old length.
ed_write(u) ==
  /\ InEcho(u) /\ wrote < MaxWrites /\ wrote' = wrote + 1
  /\ \E cnt \in 0 .. MsgMax + 1 : LET n == Smaller(cnt, MsgMax) IN
       /\ msg' = [b \in Bytes |-> IF b <= n THEN wrote' ELSE msg[b]]
       /\ \/ msg_len' = n /\ good' = wrote'
          \/ n > 0 /\ UNCHANGED <<msg_len, good>>
  /\ UNCHANGED <<lifeVars, ppos, got>>

EchoNext == \E u \in Users : ed_read(u) \/ ed_write(u)

EchoTypeOK ==
  /\ msg \in [Bytes -> 0 .. MaxWrites] /\ msg_len \in 0 .. MsgMax
  /\ wrote \in 0 .. MaxWrites /\ good \in 0 .. MaxWrites
  /\ ppos \in [Users -> 0 .. MsgMax]

\* A file is read byte by byte to the end, none twice and none left out, though
\* others write between its reads.  What it gets may be spliced from several
\* messages, but each byte is of the message that stands, or of a write that
\* faulted since: never the tail of a longer message from before.
EchoSplices ==
  [][\A u \in Users : got'[u] # got[u] =>
       /\ Len(got'[u]) = ppos'[u]
       /\ \A j \in Len(got[u]) + 1 .. Len(got'[u]) : got'[u][j] >= good
    ]_<<lifeVars, echoVars>>
==============================================================================
