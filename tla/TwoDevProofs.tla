----------------------------- MODULE TwoDevProofs -----------------------------
(***************************************************************************)
(* Proofs about TwoDev, for any number of devices and any layout of struct *)
(* twodev, for any processes, buffer and size_t.                           *)
(***************************************************************************)
EXTENDS TwoDev, TLAPS

\* What a process in its call can still rely on, whatever the others do: a write
\* that it fits the buffer; and, if nobody has disturbed it, the limit it has
\* looked at and the length it has looked at, at each of the looks.
Relies(p) ==
  /\ pc[p] = "write" => cnt[p] <= BufMax
  /\ ~disturbed[p] => /\ ValidRead(p) /\ LimitedWrite(p)
                      /\ pc[p] \in {"compare", "clip"} => fpos[p] < len[Dev(p)]

\* An open file carries the device of the minor it was opened by.
OwnDev(p) == pc[p] # "closed" => priv[p] = DevAt(node[p])

IInv == TdTypeOK /\ OneMessage /\ \A p \in Procs : Relies(p) /\ OwnDev(p)

\* The devices lie in devs one after the other: no two at one address.
LEMMA Apart ==
  ASSUME NEW i \in Minors, NEW j \in Minors, DevAt(i) = DevAt(j)
  PROVE  i = j
<1>1. i \in Int /\ j \in Int /\ Sizeof \in Int /\ Sizeof > 0
  BY DevAssumption DEF Minors
<1>2. (i - j) * Sizeof = 0
  BY <1>1 DEF DevAt
<1> QED
  BY <1>1, <1>2

\* container_of takes the cdev registered for minor i back to &devs[i]
\* (twodev.c:42-43, :155).
LEMMA HostOfCdev ==
  ASSUME NEW i \in Minors
  PROVE  HostOf(CdevOf(i)) = DevAt(i) /\ DevAt(i) \in Devs
<1>1. DevAt(i) \in Int /\ Offset \in Int
  BY DevAssumption DEF DevAt, Minors
<1> QED
  BY <1>1 DEF HostOf, CdevOf, Devs

\* A size_t difference is a size_t (twodev.c:73-74).
LEMMA MinusRange ==
  ASSUME NEW x \in Int, NEW y \in Int
  PROVE  Minus(x, y) \in 0..(SizeMod - 1)
BY SizeAssumption, BufAssumption DEF Minus

\* It is the difference as long as it does not wrap around.
LEMMA MinusExact ==
  ASSUME NEW x \in 0..BufMax, NEW y \in Nat, y <= x
  PROVE  Minus(x, y) = x - y
BY SizeAssumption, BufAssumption DEF Minus

\* Every device starts empty, every process outside of a call.
LEMMA InitInv == TdInit => IInv
<1> SUFFICES ASSUME TdInit PROVE IInv
  OBVIOUS
<1>1. TdTypeOK
  <2>1. 0 \in Minors /\ DevAt(0) \in Devs
    BY DevAssumption DEF Minors, Devs
  <2> QED
    BY <2>1, BufAssumption, SizeAssumption
    DEF TdInit, TdTypeOK, Marks, Idle, TdBytes
<1>2. OneMessage
  BY DEF TdInit, OneMessage
<1>3. ASSUME NEW p \in Procs PROVE Relies(p) /\ OwnDev(p)
  BY DEF TdInit, Relies, ValidRead, LimitedWrite, OwnDev
<1> QED
  BY <1>1, <1>2, <1>3 DEF IInv

\* The steps of a call that work on the process's own variables.
OwnSteps(p) ==
  \/ td_open(p) \/ td_release(p)
  \/ \E n \in 0..MaxCount : WriteCheck(p, n)
  \/ WriteLimit(p)
  \/ \E n \in 1..MaxCount : ReadCheck(p, n)
  \/ ReadCompare(p) \/ ReadClip(p) \/ ReadCopy(p)

\* Steps of a process's own leave its device, and everybody else, as they are.
LEMMA OwnFrame ==
  ASSUME TdTypeOK, NEW p \in Procs, OwnSteps(p)
  PROVE  /\ UNCHANGED <<devVars, node>>
         /\ \A q \in Procs \ {p} : /\ pc'[q] = pc[q] /\ fpos'[q] = fpos[q]
                                   /\ cnt'[q] = cnt[q] /\ disturbed'[q] = disturbed[q]
                                   /\ priv'[q] = priv[q]
<1> USE DEF TdTypeOK, fileVars
<1>1. CASE td_open(p)
  BY <1>1 DEF td_open
<1>2. CASE td_release(p)
  BY <1>2 DEF td_release
<1>3. ASSUME NEW n \in 0..MaxCount, WriteCheck(p, n)
      PROVE  /\ UNCHANGED <<devVars, node>>
             /\ \A q \in Procs \ {p} : /\ pc'[q] = pc[q] /\ fpos'[q] = fpos[q]
                                       /\ cnt'[q] = cnt[q] /\ disturbed'[q] = disturbed[q]
                                       /\ priv'[q] = priv[q]
  BY <1>3 DEF WriteCheck
<1>4. CASE WriteLimit(p)
  BY <1>4 DEF WriteLimit
<1>5. ASSUME NEW n \in 1..MaxCount, ReadCheck(p, n)
      PROVE  /\ UNCHANGED <<devVars, node>>
             /\ \A q \in Procs \ {p} : /\ pc'[q] = pc[q] /\ fpos'[q] = fpos[q]
                                       /\ cnt'[q] = cnt[q] /\ disturbed'[q] = disturbed[q]
                                       /\ priv'[q] = priv[q]
  BY <1>5 DEF ReadCheck
<1>6. CASE ReadCompare(p)
  BY <1>6 DEF ReadCompare
<1>7. CASE ReadClip(p)
  BY <1>7 DEF ReadClip
<1>8. CASE ReadCopy(p)
  BY <1>8 DEF ReadCopy, Return
<1> QED
  BY <1>1, <1>2, <1>3, <1>4, <1>5, <1>6, <1>7, <1>8 DEF OwnSteps

\* What p comes to rely on is so when it looks: the three looks of td_read at
\* the length follow one another (twodev.c:71-74), the limit is looked at
\* once more when the count is above it (:54-55).
LEMMA OwnRelies ==
  ASSUME TdTypeOK, NEW p \in Procs, Relies(p), OwnSteps(p)
  PROVE  /\ Relies(p)'
         /\ pc'[p] \in Idle \cup {"limit", "write", "compare", "clip", "copy"}
         /\ fpos'[p] \in Nat /\ cnt'[p] \in 0..(SizeMod - 1)
         /\ disturbed'[p] \in BOOLEAN
<1> DEFINE d == Dev(p)
<1>1. d \in Devs /\ len[d] \in 0..BufMax /\ bufsz[d] \in 1..BufMax
  BY DEF TdTypeOK, Dev
<1>2. pc[p] \in Idle \cup {"limit", "write", "compare", "clip", "copy"}
      /\ fpos[p] \in Nat /\ cnt[p] \in 0..(SizeMod - 1)
  BY DEF TdTypeOK
<1>3. disturbed[p] \in BOOLEAN
  BY DEF TdTypeOK
<1>4. UNCHANGED <<len, bufsz, node>>
  BY OwnFrame DEF devVars
<1>5. BufMax \in Nat /\ BufMax < SizeMod /\ MaxCount \in Nat /\ MaxCount < SizeMod
      /\ SizeMod \in Nat
  BY BufAssumption, SizeAssumption
<1> USE DEF Relies, ValidRead, LimitedWrite, Idle, TdTypeOK, fileVars
<1>a. CASE td_open(p)
  BY <1>a, <1>2, <1>3 DEF td_open
<1>b. CASE td_release(p)
  BY <1>b, <1>2, <1>3 DEF td_release
<1>c. ASSUME NEW n \in 0..MaxCount, WriteCheck(p, n)
      PROVE  /\ Relies(p)'
             /\ pc'[p] \in Idle \cup {"limit", "write", "compare", "clip", "copy"}
             /\ fpos'[p] \in Nat /\ cnt'[p] \in 0..(SizeMod - 1)
             /\ disturbed'[p] \in BOOLEAN
  <2>1. pc'[p] = (IF n > bufsz[d] THEN "limit" ELSE "write") /\ cnt'[p] = n
        /\ UNCHANGED <<fpos, disturbed>> /\ Dev(p)' = d
    BY <1>c DEF WriteCheck, Dev, OverLimit
  <2> QED
    BY <2>1, <1>1, <1>2, <1>3, <1>4, <1>5
<1>d. CASE WriteLimit(p)
  <2>1. pc'[p] = "write" /\ cnt'[p] = bufsz[d] /\ UNCHANGED <<fpos, disturbed>> /\ Dev(p)' = d
    BY <1>d DEF WriteLimit, Dev
  <2> QED
    BY <2>1, <1>1, <1>2, <1>3, <1>4, <1>5
<1>e. ASSUME NEW n \in 1..MaxCount, ReadCheck(p, n)
      PROVE  /\ Relies(p)'
             /\ pc'[p] \in Idle \cup {"limit", "write", "compare", "clip", "copy"}
             /\ fpos'[p] \in Nat /\ cnt'[p] \in 0..(SizeMod - 1)
             /\ disturbed'[p] \in BOOLEAN
  <2>1. pc'[p] = "compare" /\ cnt'[p] = n /\ fpos[p] < len[d]
        /\ UNCHANGED <<fpos, disturbed>> /\ Dev(p)' = d
    BY <1>e DEF ReadCheck, Dev
  <2> QED
    BY <2>1, <1>1, <1>2, <1>3, <1>4, <1>5
<1>f. CASE ReadCompare(p)
  <2>1. pc[p] = "compare" /\ UNCHANGED <<fpos, cnt, disturbed>> /\ Dev(p)' = d
        /\ pc'[p] = IF cnt[p] > Minus(len[d], fpos[p]) THEN "clip" ELSE "copy"
    BY <1>f DEF ReadCompare, Dev
  <2>2. ~disturbed[p] => /\ fpos[p] < len[d]
                         /\ Minus(len[d], fpos[p]) = len[d] - fpos[p]
    BY <2>1, <1>1, <1>2, MinusExact
  <2>3. ~disturbed[p] => Relies(p)'
    BY <2>1, <2>2, <1>1, <1>2, <1>4
  <2>4. disturbed[p] => Relies(p)'
    BY <2>1
  <2> QED
    BY <2>1, <2>3, <2>4, <1>2, <1>3
<1>g. CASE ReadClip(p)
  <2>1. pc[p] = "clip" /\ UNCHANGED <<fpos, disturbed>> /\ Dev(p)' = d
        /\ pc'[p] = "copy" /\ cnt'[p] = Minus(len[d], fpos[p])
    BY <1>g DEF ReadClip, Dev
  <2>2. cnt'[p] \in 0..(SizeMod - 1)
    BY <2>1, <1>1, <1>2, MinusRange
  <2>3. ~disturbed[p] => cnt'[p] = len[d] - fpos[p]
    BY <2>1, <1>1, <1>2, MinusExact
  <2>4. ~disturbed[p] => Relies(p)'
    BY <2>1, <2>3, <1>1, <1>2, <1>4
  <2>5. disturbed[p] => Relies(p)'
    BY <2>1
  <2> QED
    BY <2>1, <2>2, <2>4, <2>5, <1>2, <1>3
<1>h. CASE ReadCopy(p)
  <2>1. pc'[p] = "open" /\ cnt'[p] = 0 /\ fpos'[p] \in {fpos[p], fpos[p] + cnt[p]}
    BY <1>h DEF ReadCopy, Return
  <2>2. disturbed'[p] \in BOOLEAN
    BY <1>h DEF ReadCopy
  <2> QED
    BY <2>1, <2>2, <1>2, <1>5
<1> QED
  BY <1>a, <1>b, <1>c, <1>d, <1>e, <1>f, <1>g, <1>h DEF OwnSteps

\* td_open leaves the device of the minor in the file, and no call of the file
\* changes that.
LEMMA OwnDevStep ==
  ASSUME TdTypeOK, NEW p \in Procs, OwnDev(p), OwnSteps(p)
  PROVE  OwnDev(p)' /\ priv'[p] \in Devs
<1>1. node[p] \in Minors /\ priv[p] \in Devs /\ DevAt(0) \in Devs
  BY DevAssumption DEF TdTypeOK, Devs, Minors
<1>2. CASE td_open(p)
  BY <1>1, <1>2, HostOfCdev DEF td_open, TdTypeOK, OwnDev
<1>3. CASE td_release(p)
  BY <1>1, <1>3 DEF td_release, TdTypeOK, OwnDev
<1>4. CASE ~ (td_open(p) \/ td_release(p))
  <2>1. pc[p] # "closed" /\ priv' = priv /\ node' = node
    BY <1>4
    DEF OwnSteps, WriteCheck, WriteLimit, ReadCheck, ReadCompare, ReadClip, ReadCopy,
        fileVars
  <2> QED
    BY <1>1, <2>1 DEF OwnDev
<1> QED
  BY <1>2, <1>3, <1>4

\* A process that is not in a call, or has been disturbed, relies on no number
\* it has looked at.
LEMMA DisturbedRelies ==
  ASSUME NEW p \in Procs, Relies(p), pc'[p] = pc[p], cnt'[p] = cnt[p],
         pc[p] \in Idle \/ disturbed'[p]
  PROVE  Relies(p)'
BY DEF Relies, ValidRead, LimitedWrite, Idle

\* A step on a device leaves the processes on the others what they rely on; it
\* has disturbed the rest.
LEMMA OthersRely ==
  ASSUME TdTypeOK, NEW p \in Procs, NEW q \in Procs \ {p}, Relies(q), Disturb(p),
         UNCHANGED fileVars, pc'[q] = pc[q], cnt'[q] = cnt[q],
         Dev(q) # Dev(p) => len'[Dev(q)] = len[Dev(q)] /\ bufsz'[Dev(q)] = bufsz[Dev(q)]
  PROVE  Relies(q)' /\ disturbed'[q] \in BOOLEAN
<1>1. disturbed'[q] = (disturbed[q] \/ (pc[q] \notin Idle /\ Dev(q) = Dev(p)))
  BY DEF Disturb
<1>2. disturbed'[q] \in BOOLEAN
  BY <1>1
<1>3. Dev(q)' = Dev(q) /\ UNCHANGED fpos
  BY DEF Dev, fileVars
<1>4. CASE pc[q] \in Idle \/ disturbed'[q]
  BY <1>2, <1>4, DisturbedRelies
<1>5. CASE pc[q] \notin Idle /\ ~disturbed'[q]
  <2>1. ~disturbed[q] /\ Dev(q) # Dev(p)
    BY <1>1, <1>5
  <2> QED
    BY <1>2, <1>3, <2>1 DEF Relies, ValidRead, LimitedWrite
<1> QED
  BY <1>4, <1>5

\* copy_from_user and the new length, under the mutex: a write that was copied
\* whole is the message, of one process (twodev.c:56-62).
LEMMA WriteCopyInv ==
  ASSUME IInv, NEW p \in Procs, WriteCopy(p)
  PROVE  IInv'
<1> DEFINE d == Dev(p)
<1> USE DEF IInv
<1>1. PICK k \in 0..cnt[p] :
        /\ buf' = [buf EXCEPT ![d] = Filled(@, p, k, cnt[p])]
        /\ spoilt' = [spoilt EXCEPT ![d] = k < cnt[p]]
        /\ len' = IF k = cnt[p] THEN [len EXCEPT ![d] = cnt[p]] ELSE len
  BY DEF WriteCopy, NewLen
<1>2. /\ pc[p] = "write" /\ pc' = [pc EXCEPT ![p] = "open"]
      /\ cnt' = [cnt EXCEPT ![p] = 0] /\ Disturb(p) /\ UNCHANGED <<bufsz, fileVars>>
  BY DEF WriteCopy, Return
<1>3. d \in Devs /\ cnt[p] \in 0..BufMax
  BY <1>2, BufAssumption, SizeAssumption DEF TdTypeOK, Relies, Dev
<1>4. buf' \in [Devs -> [TdBytes -> Marks]]
  <2>1. Filled(buf[d], p, k, cnt[p]) \in [TdBytes -> Marks]
    BY <1>3 DEF Filled, TdTypeOK, Marks
  <2> QED
    BY <1>1, <1>3, <2>1 DEF TdTypeOK
<1>5. len' \in [Devs -> 0..BufMax] /\ bufsz' \in [Devs -> 1..BufMax]
  BY <1>1, <1>2, <1>3 DEF TdTypeOK
<1>6. spoilt' \in [Devs -> BOOLEAN] /\ spoilt'[d] = (k < cnt[p])
  <2> DEFINE short == k < cnt[p]
  <2>1. short \in BOOLEAN
    OBVIOUS
  <2>2. spoilt' = [spoilt EXCEPT ![d] = short]
    BY <1>1
  <2>3. spoilt \in [Devs -> BOOLEAN]
    BY DEF TdTypeOK
  <2> HIDE DEF short
  <2>4. spoilt' \in [Devs -> BOOLEAN]
    BY <2>1, <2>2, <2>3
  <2>5. spoilt'[d] = short
    BY <1>3, <2>2, <2>3
  <2> QED
    BY <2>4, <2>5 DEF short
<1>7. /\ pc' \in [Procs -> Idle \cup {"limit", "write", "compare", "clip", "copy"}]
      /\ node' \in [Procs -> Minors] /\ priv' \in [Procs -> Devs]
      /\ fpos' \in [Procs -> Nat] /\ cnt' \in [Procs -> 0..(SizeMod - 1)]
  BY <1>2, BufAssumption, SizeAssumption DEF TdTypeOK, Idle, fileVars
<1>8. disturbed' \in [Procs -> BOOLEAN]
  BY <1>2 DEF Disturb, TdTypeOK
<1>9. OneMessage'
  <2> SUFFICES ASSUME NEW e \in Devs, ~spoilt'[e],
                      NEW b \in 0..(len'[e] - 1), NEW c \in 0..(len'[e] - 1)
               PROVE  buf'[e][b] = buf'[e][c] /\ buf'[e][b] \in Procs
    BY DEF OneMessage
  <2>1. CASE e = d
    <3>a. ~(k < cnt[p])
      BY <1>6, <2>1
    <3>b. k = cnt[p]
      BY <1>3, <3>a
    <3>1. k = cnt[p] /\ len'[d] = cnt[p]
      BY <1>1, <1>3, <3>b DEF TdTypeOK
    <3>2. b \in TdBytes /\ c \in TdBytes /\ b < k /\ c < k
      BY <1>3, <2>1, <3>1, BufAssumption DEF TdBytes
    <3>3. buf'[d] = Filled(buf[d], p, k, cnt[p])
      BY <1>1, <1>3 DEF TdTypeOK
    <3> QED
      BY <2>1, <3>2, <3>3 DEF Filled
  <2>2. CASE e # d
    BY <1>1, <1>3, <2>2 DEF OneMessage, TdTypeOK
  <2> QED
    BY <2>1, <2>2
<1>10. ASSUME NEW q \in Procs PROVE Relies(q)' /\ OwnDev(q)'
  <2>a. OwnDev(q)'
    BY <1>2 DEF OwnDev, TdTypeOK, fileVars
  <2>1. CASE q = p
    <3>1. pc'[p] = "open"
      BY <1>2 DEF TdTypeOK
    <3> QED
      BY <2>a, <2>1, <3>1 DEF Relies, ValidRead, LimitedWrite
  <2>2. CASE q # p
    <3>1. pc'[q] = pc[q] /\ cnt'[q] = cnt[q]
      BY <1>2, <2>2 DEF TdTypeOK
    <3>2. Dev(q) # Dev(p) => len'[Dev(q)] = len[Dev(q)] /\ bufsz'[Dev(q)] = bufsz[Dev(q)]
      BY <1>1, <1>2, <1>3 DEF TdTypeOK, Dev
    <3> QED
      BY <1>2, <2>a, <2>2, <3>1, <3>2, OthersRely
  <2> QED
    BY <2>1, <2>2
<1> QED
  BY <1>4, <1>5, <1>6, <1>7, <1>8, <1>9, <1>10 DEF TdTypeOK

\* TWODEV_SET_BUFSZ changes a limit, no byte and no length (twodev.c:97-105).
LEMMA SetBufszInv ==
  ASSUME IInv, NEW p \in Procs, NEW val \in 0..(BufMax + 1), SetBufsz(p, val)
  PROVE  IInv'
<1> DEFINE d == Dev(p)
<1> USE DEF IInv
<1>1. /\ pc[p] = "open" /\ val \in 1..BufMax /\ bufsz' = [bufsz EXCEPT ![d] = val]
      /\ Disturb(p) /\ UNCHANGED <<buf, len, spoilt, pc, fileVars, cnt>>
  BY BufAssumption DEF SetBufsz
<1>2. d \in Devs
  BY DEF TdTypeOK, Dev
<1>3. disturbed' \in [Procs -> BOOLEAN]
  BY <1>1 DEF Disturb, TdTypeOK
<1>4. TdTypeOK' /\ OneMessage'
  BY <1>1, <1>2, <1>3 DEF TdTypeOK, OneMessage, fileVars
<1>5. ASSUME NEW q \in Procs PROVE Relies(q)' /\ OwnDev(q)'
  <2>a. OwnDev(q)'
    BY <1>1 DEF OwnDev, fileVars
  <2>1. CASE q = p
    BY <1>1, <2>a, <2>1 DEF Relies, ValidRead, LimitedWrite
  <2>2. CASE q # p
    <3>1. Dev(q) # Dev(p) => len'[Dev(q)] = len[Dev(q)] /\ bufsz'[Dev(q)] = bufsz[Dev(q)]
      BY <1>1, <1>2 DEF TdTypeOK, Dev
    <3> QED
      BY <1>1, <2>a, <2>2, <3>1, OthersRely
  <2> QED
    BY <2>1, <2>2
<1> QED
  BY <1>4, <1>5

\* Each row of the functions over processes that such a step writes is p's.
LEMMA OwnRows ==
  ASSUME TdTypeOK, NEW p \in Procs, OwnSteps(p)
  PROVE  /\ DOMAIN pc' = Procs /\ pc' = [q \in Procs |-> pc'[q]]
         /\ fpos' = [q \in Procs |-> fpos'[q]] /\ cnt' = [q \in Procs |-> cnt'[q]]
         /\ priv' = [q \in Procs |-> priv'[q]]
         /\ disturbed' = [q \in Procs |-> disturbed'[q]]
BY DEF TdTypeOK, OwnSteps, td_open, td_release, WriteCheck, WriteLimit, ReadCheck,
       ReadCompare, ReadClip, ReadCopy, Return, fileVars

\* The steps of a call on its own variables keep the invariant.
LEMMA OwnInv ==
  ASSUME IInv, NEW p \in Procs, OwnSteps(p)
  PROVE  IInv'
<1> USE DEF IInv
<1>1. UNCHANGED <<devVars, node>>
  BY OwnFrame
<1>2. ASSUME NEW q \in Procs
      PROVE  /\ Relies(q)' /\ OwnDev(q)' /\ priv'[q] \in Devs
             /\ pc'[q] \in Idle \cup {"limit", "write", "compare", "clip", "copy"}
             /\ fpos'[q] \in Nat /\ cnt'[q] \in 0..(SizeMod - 1)
             /\ disturbed'[q] \in BOOLEAN
  <2>1. CASE q = p
    BY <2>1, OwnRelies, OwnDevStep
  <2>2. CASE q # p
    <3>1. pc'[q] = pc[q] /\ fpos'[q] = fpos[q] /\ cnt'[q] = cnt[q]
          /\ disturbed'[q] = disturbed[q] /\ priv'[q] = priv[q]
      BY <2>2, OwnFrame
    <3>2. Dev(q)' = Dev(q) /\ UNCHANGED <<len, bufsz>>
      BY <1>1, <3>1 DEF Dev, devVars
    <3>3. Relies(q)' /\ OwnDev(q)'
      BY <1>1, <3>1, <3>2 DEF Relies, ValidRead, LimitedWrite, OwnDev
    <3>4. disturbed'[q] \in BOOLEAN
      BY <3>1 DEF TdTypeOK
    <3> QED
      BY <3>1, <3>3, <3>4 DEF TdTypeOK
  <2> QED
    BY <2>1, <2>2
<1>3. /\ pc' \in [Procs -> Idle \cup {"limit", "write", "compare", "clip", "copy"}]
      /\ fpos' \in [Procs -> Nat] /\ cnt' \in [Procs -> 0..(SizeMod - 1)]
      /\ priv' \in [Procs -> Devs]
  BY <1>2, OwnRows
<1>4. disturbed' \in [Procs -> BOOLEAN]
  BY <1>2, OwnRows
<1>5. TdTypeOK'
  BY <1>1, <1>3, <1>4 DEF TdTypeOK, devVars
<1>6. OneMessage'
  BY <1>1 DEF OneMessage, devVars
<1> QED
  BY <1>2, <1>5, <1>6

\* The invariant holds throughout.
THEOREM TwoDevInv == TdSpec => []IInv
<1>1. IInv /\ [TdNext]_tdVars => IInv'
  <2> SUFFICES ASSUME IInv, [TdNext]_tdVars PROVE IInv'
    OBVIOUS
  <2>1. ASSUME NEW p \in Procs, Step(p) PROVE IInv'
    <3>1. CASE OwnSteps(p)
      BY <3>1, OwnInv
    <3>2. CASE WriteCopy(p)
      BY <3>2, WriteCopyInv
    <3>3. ASSUME NEW val \in 0..(BufMax + 1), SetBufsz(p, val) PROVE IInv'
      BY <3>3, SetBufszInv
    <3> QED
      BY <2>1, <3>1, <3>2, <3>3 DEF Step, OwnSteps
  <2>2. CASE UNCHANGED tdVars
    <3>1. UNCHANGED <<buf, len, bufsz, spoilt, pc, node, priv, fpos, cnt, disturbed>>
      BY <2>2 DEF tdVars, devVars, fileVars
    <3>2. TdTypeOK' /\ OneMessage'
      BY <3>1 DEF IInv, TdTypeOK, OneMessage
    <3>3. ASSUME NEW p \in Procs PROVE Relies(p)' /\ OwnDev(p)'
      BY <3>1 DEF IInv, Relies, ValidRead, LimitedWrite, Dev, OwnDev
    <3> QED
      BY <3>2, <3>3 DEF IInv
  <2> QED
    BY <2>1, <2>2 DEF TdNext
<1> QED
  BY InitInv, <1>1, PTL DEF TdSpec

\* The state keeps its types: no length and no limit ever exceeds the buffer
\* (twodev.c:28-34), and a count stays a size_t.
THEOREM TwoDevTypeCorrect == TdSpec => []TdTypeOK
<1>1. IInv => TdTypeOK
  BY DEF IInv
<1> QED
  BY <1>1, TwoDevInv, PTL

\* A message is never a mixture of two writes, nor a short one with the tail of
\* a longer one, however calls overlap (twodev.c:56-62).
THEOREM OneMessageCorrect == TdSpec => []OneMessage
<1>1. IInv => OneMessage
  BY DEF IInv
<1> QED
  BY <1>1, TwoDevInv, PTL

\* A write stays inside the buffer in whatever order its limit is looked at and
\* changed, and a call that was not overlapped obeys length and limit
\* (twodev.c:54-61, :71-80).
THEOREM WithinBoundsCorrect == TdSpec => []WithinBounds
<1>1. IInv => WithinBounds
  BY DEF IInv, WithinBounds, Relies
<1> QED
  BY <1>1, TwoDevInv, PTL

\* A device changes only by a call on a file its own minor was opened by: what
\* cdev_add registered for the minor and container_of makes of it lead to that
\* device, wherever the cdev lies in the struct (twodev.c:40-47, :155).
THEOREM IsolatedCorrect == TdSpec => Isolated
<1> DEFINE OnOwn == \A i \in Minors : LET d == DevAt(i) IN
             (buf[d] # buf'[d] \/ len[d] # len'[d] \/ bufsz[d] # bufsz'[d])
               => \E p \in Procs : pc[p] # "closed" /\ node[p] = i
<1>1. IInv /\ [TdNext]_tdVars => [OnOwn]_tdVars
  <2> SUFFICES ASSUME IInv, NEW p \in Procs, Step(p), NEW i \in Minors,
                      \/ buf[DevAt(i)] # buf'[DevAt(i)]
                      \/ len[DevAt(i)] # len'[DevAt(i)]
                      \/ bufsz[DevAt(i)] # bufsz'[DevAt(i)]
               PROVE  \E q \in Procs : pc[q] # "closed" /\ node[q] = i
    BY DEF TdNext
  <2> USE DEF IInv
  <2>1. ~OwnSteps(p)
    BY OwnFrame DEF devVars
  <2>2. pc[p] # "closed" /\ DevAt(i) = Dev(p)
    <3>1. CASE WriteCopy(p)
      BY <3>1 DEF WriteCopy, TdTypeOK, Dev
    <3>2. ASSUME NEW val \in 0..(BufMax + 1), SetBufsz(p, val)
          PROVE  pc[p] # "closed" /\ DevAt(i) = Dev(p)
      BY <3>2 DEF SetBufsz, TdTypeOK, Dev
    <3> QED
      BY <2>1, <3>1, <3>2 DEF Step, OwnSteps
  <2>3. node[p] \in Minors /\ DevAt(i) = DevAt(node[p])
    BY <2>2 DEF TdTypeOK, Dev, OwnDev
  <2>4. node[p] = i
    BY <2>3, Apart
  <2> QED
    BY <2>2, <2>4
<1> QED
  BY <1>1, TwoDevInv, PTL DEF TdSpec, Isolated
==============================================================================
