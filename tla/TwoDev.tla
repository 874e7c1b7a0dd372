-------------------------------- MODULE TwoDev --------------------------------
(***************************************************************************)
(* 05-char-device-full/twodev.c, the file operations: one driver, two      *)
(* devices, each with a buffer, a valid length, an adjustable limit and a  *)
(* mutex; every open file carries its device and its read position.        *)
(*                                                                         *)
(* A device is known by its address, the address of its struct twodev: the *)
(* kernel gives td_open the cdev registered for the minor, and the file    *)
(* carries the address td_open computes from it.                           *)
(*                                                                         *)
(* td_write looks at the limit up to twice and td_read at the length up to *)
(* three times before they take the mutex; each look is a step of its own. *)
(* What happens under the mutex is one step: outside of it only these two  *)
(* numbers are looked at, and each critical section writes one at most.    *)
(*                                                                         *)
(* The content of a buffer is, for each byte, the process that wrote it.   *)
(***************************************************************************)
EXTENDS Integers

CONSTANTS NDEV,     \* number of devices (2 in the code)
          Sizeof,   \* sizeof(struct twodev)
          Offset,   \* offsetof(struct twodev, cdev)
          Procs,    \* processes, each with one file open at a time
          BufMax,   \* BUF_MAX
          Untouched,\* the mark of bytes no write has reached, or a fault zeroed
          MaxCount, \* bound: the largest count a call asks for
          SizeMod   \* size_t counts modulo this (2^64 in the code)

ASSUME DevAssumption == /\ NDEV \in Nat \ {0}
                        /\ Sizeof \in Nat \ {0} /\ Offset \in 0..(Sizeof - 1)
ASSUME BufAssumption == BufMax \in Nat \ {0}
ASSUME SizeAssumption == /\ MaxCount \in Nat \ {0}
                         /\ SizeMod \in Nat /\ SizeMod > BufMax + MaxCount
ASSUME MarksAssumption == Untouched \notin Procs

VARIABLES buf, len, bufsz,  \* of each struct twodev, by its address
          spoilt,   \* history: the last write to the device faulted half way
          pc,       \* of each process
          node,     \* the minor of the /dev node it opens
          priv,     \* private_data of its file
          fpos,     \* the file's position
          cnt,      \* the local cnt of the call it is in
          disturbed \* history: while it was in its call, somebody else's call
                    \* wrote to the device or changed its limit

devVars == <<buf, len, bufsz, spoilt>>
fileVars == <<node, priv, fpos>>   \* node never changes
tdVars == <<devVars, pc, fileVars, cnt, disturbed>>

Minors == 0..(NDEV - 1)
DevAt(i) == i * Sizeof              \* &devs[i], devs being at address 0
Devs == {DevAt(i) : i \in Minors}

TdBytes == 0..(BufMax - 1)
Marks == Procs \cup {Untouched}
Idle == {"closed", "open"}

TdTypeOK ==
  /\ buf \in [Devs -> [TdBytes -> Marks]]
  /\ len \in [Devs -> 0..BufMax]
  /\ bufsz \in [Devs -> 1..BufMax]
  /\ spoilt \in [Devs -> BOOLEAN]
  /\ pc \in [Procs -> Idle \cup {"limit", "write", "compare", "clip", "copy"}]
  /\ node \in [Procs -> Minors] /\ priv \in [Procs -> Devs]
  /\ fpos \in [Procs -> Nat]
  /\ cnt \in [Procs -> 0..(SizeMod - 1)]
  /\ disturbed \in [Procs -> BOOLEAN]

\* td_init: memset, len = 0, bufsz = BUF_MAX.  A process keeps to one node; one
\* that goes on to another is another process once it has released the first.
TdInit ==
  /\ buf = [d \in Devs |-> [b \in TdBytes |-> Untouched]]
  /\ len = [d \in Devs |-> 0] /\ bufsz = [d \in Devs |-> BufMax]
  /\ spoilt = [d \in Devs |-> FALSE]
  /\ pc = [p \in Procs |-> "closed"]
  /\ node \in [Procs -> Minors] /\ priv = [p \in Procs |-> DevAt(0)]
  /\ fpos = [p \in Procs |-> 0] /\ cnt = [p \in Procs |-> 0]
  /\ disturbed = [p \in Procs |-> FALSE]

\* (seeded fault: the difference is signed)
MinusSigned(x, y) == x - y

\* size_t subtraction.
Minus(x, y) == (x - y) % SizeMod

------------------------------------------------------------------------------
\* (seeded fault: every minor gets the first device's cdev)
CdevOfFirst(i) == DevAt(0) + Offset

\* cdev_add(&d->cdev, MKDEV(MAJOR(devid), i), 1): the cdev the kernel finds for
\* minor i, and leaves in the inode of its node.
CdevOf(i) == DevAt(i) + Offset

\* container_of(ino->i_cdev, struct twodev, cdev)
HostOf(cdev) == cdev - Offset

\* struct twodev *d = f->private_data
Dev(p) == priv[p]

td_open(p) ==
  /\ pc[p] = "closed" /\ pc' = [pc EXCEPT ![p] = "open"]
  /\ priv' = [priv EXCEPT ![p] = HostOf(CdevOf(node[p]))]
  /\ UNCHANGED <<devVars, node, fpos, cnt, disturbed>>

\* Position and private_data go with the file.
td_release(p) ==
  /\ pc[p] = "open"
  /\ pc' = [pc EXCEPT ![p] = "closed"] /\ fpos' = [fpos EXCEPT ![p] = 0]
  /\ priv' = [priv EXCEPT ![p] = DevAt(0)]
  /\ UNCHANGED <<devVars, node, cnt, disturbed>>

Return(p) == pc' = [pc EXCEPT ![p] = "open"] /\ cnt' = [cnt EXCEPT ![p] = 0]

\* p has changed its device: calls of others on it go on with what they saw.
Disturb(p) ==
  disturbed' = [q \in Procs |->
    \/ q # p /\ disturbed[q]
    \/ q # p /\ pc[q] \notin Idle /\ Dev(q) = Dev(p)]

------------------------------------------------------------------------------
(* td_write *)

\* (seeded fault: the count is not limited)
OverNoLimit(p, n) == FALSE
OverLimit(p, n) == n > bufsz[Dev(p)]

\* if (cnt > d->bufsz), without the mutex.
WriteCheck(p, n) ==
  /\ pc[p] = "open" /\ cnt' = [cnt EXCEPT ![p] = n]
  /\ pc' = [pc EXCEPT ![p] = IF OverLimit(p, n) THEN "limit" ELSE "write"]
  /\ UNCHANGED <<devVars, fileVars, disturbed>>

\* cnt = d->bufsz: the compiler may load it anew.
WriteLimit(p) ==
  /\ pc[p] = "limit" /\ pc' = [pc EXCEPT ![p] = "write"]
  /\ cnt' = [cnt EXCEPT ![p] = bufsz[Dev(p)]]
  /\ UNCHANGED <<devVars, fileVars, disturbed>>

\* The buffer after k of the n bytes could be copied; copy_from_user fills up
\* with zeros what it could not read.
Filled(old, x, k, n) ==
  [b \in TdBytes |-> IF b < k THEN x ELSE IF b < n THEN Untouched ELSE old[b]]

\* (seeded fault: a short write does not shorten the message)
GrownLen(d, n) == IF n > len[d] THEN n ELSE len[d]
NewLen(d, n) == n

\* Under the mutex: copy_from_user, then len - or -EFAULT, with the buffer
\* half overwritten and the old length.
WriteCopy(p) ==
  LET d == Dev(p) IN
  /\ pc[p] = "write"
  /\ \E k \in 0..cnt[p] :
       /\ buf' = [buf EXCEPT ![d] = Filled(@, p, k, cnt[p])]
       /\ spoilt' = [spoilt EXCEPT ![d] = k < cnt[p]]
       /\ len' = IF k = cnt[p] THEN [len EXCEPT ![d] = NewLen(d, cnt[p])] ELSE len
  /\ Return(p) /\ Disturb(p)
  /\ UNCHANGED <<bufsz, fileVars>>

------------------------------------------------------------------------------
(* td_read: three looks at d->len, then the copy under the mutex *)

\* if (*ppos >= d->len) return 0
ReadCheck(p, n) ==
  /\ pc[p] = "open" /\ fpos[p] < len[Dev(p)]
  /\ cnt' = [cnt EXCEPT ![p] = n] /\ pc' = [pc EXCEPT ![p] = "compare"]
  /\ UNCHANGED <<devVars, fileVars, disturbed>>

\* if (cnt > d->len - *ppos): if the length has shrunk below the position the
\* difference wraps around and is larger than every count.
ReadCompare(p) ==
  /\ pc[p] = "compare"
  /\ pc' = [pc EXCEPT ![p] =
              IF cnt[p] > Minus(len[Dev(p)], fpos[p]) THEN "clip" ELSE "copy"]
  /\ UNCHANGED <<devVars, fileVars, cnt, disturbed>>

\* cnt = d->len - *ppos
ReadClip(p) ==
  /\ pc[p] = "clip" /\ pc' = [pc EXCEPT ![p] = "copy"]
  /\ cnt' = [cnt EXCEPT ![p] = Minus(len[Dev(p)], fpos[p])]
  /\ UNCHANGED <<devVars, fileVars, disturbed>>

\* Under the mutex: copy_to_user, *ppos += cnt - or -EFAULT, always so for a
\* count that wrapped around (copy_to_user refuses sizes above INT_MAX).
ReadCopy(p) ==
  /\ pc[p] = "copy"
  /\ \/ cnt[p] <= MaxCount /\ fpos' = [fpos EXCEPT ![p] = @ + cnt[p]]
     \/ UNCHANGED fpos
  /\ Return(p) /\ disturbed' = [disturbed EXCEPT ![p] = FALSE]
  /\ UNCHANGED <<devVars, node, priv>>

------------------------------------------------------------------------------
\* TWODEV_SET_BUFSZ; a value outside 1..BUF_MAX is refused with -EINVAL.
\* (TWODEV_GET_BUFSZ and TWODEV_DOUBLE change nothing.)
SetBufsz(p, val) ==
  /\ pc[p] = "open" /\ val >= 1 /\ val <= BufMax
  /\ bufsz' = [bufsz EXCEPT ![Dev(p)] = val]
  /\ Disturb(p)
  /\ UNCHANGED <<buf, len, spoilt, pc, fileVars, cnt>>

------------------------------------------------------------------------------
Step(p) ==
  \/ td_open(p) \/ td_release(p)
  \/ \E n \in 0..MaxCount : WriteCheck(p, n)
  \/ WriteLimit(p) \/ WriteCopy(p)
  \/ \E n \in 1..MaxCount : ReadCheck(p, n)
  \/ ReadCompare(p) \/ ReadClip(p) \/ ReadCopy(p)
  \/ \E val \in 0..(BufMax + 1) : SetBufsz(p, val)

TdNext == \E p \in Procs : Step(p)

TdSpec == TdInit /\ [][TdNext]_tdVars

------------------------------------------------------------------------------
(* Properties *)

\* However calls overlap, the valid bytes of a device all come from one write:
\* a message is never a mixture of two, nor a short one followed by the rest of
\* a longer one - unless the last write faulted.
OneMessage ==
  \A d \in Devs : ~spoilt[d] =>
    \A b, c \in 0..(len[d] - 1) : buf[d][b] = buf[d][c] /\ buf[d][b] \in Procs

\* The instances are isolated, through the registration of their cdevs and the
\* address td_open computes and leaves in the file: the device devs[i] changes
\* only by a call on a file that was opened by minor i.
Isolated ==
  [][\A i \in Minors : LET d == DevAt(i) IN
       (buf[d] # buf'[d] \/ len[d] # len'[d] \/ bufsz[d] # bufsz'[d])
         => \E p \in Procs : pc[p] # "closed" /\ node[p] = i]_tdVars

ValidRead(p) == pc[p] = "copy" => fpos[p] + cnt[p] <= len[Dev(p)]
LimitedWrite(p) == pc[p] = "write" => cnt[p] <= bufsz[Dev(p)]

\* However calls overlap, a write stays inside the buffer when it gets the
\* mutex, although its limit was looked at before, perhaps twice.  A call that no
\* other call on the device overlapped does better, wherever earlier calls, of
\* others too, have left position, length and limit: a read copies valid bytes
\* only, and a write obeys the limit in force.
WithinBounds ==
  \A p \in Procs : /\ pc[p] = "write" => cnt[p] <= BufMax
                   /\ ~disturbed[p] => ValidRead(p) /\ LimitedWrite(p)

\* Line 30 says that len is the number of valid bytes of buf: no read should
\* copy more, with or without others on the device.
ReadValid == \A p \in Procs : ValidRead(p)
==============================================================================
