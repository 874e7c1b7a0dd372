---------------------------- MODULE ListMsgProofs ----------------------------
(***************************************************************************)
(* Proofs about ListMsg, for any tasks, files and nodes and whatever the   *)
(* programs do: where the nodes are, where the cursors are, and then that  *)
(* the device implements the log of MsgLog.                                *)
(***************************************************************************)
EXTENDS ListMsg, FiniteSetTheorems, FunctionTheorems, SequenceTheorems, TLAPS

------------------------------------------------------------------------------
(* The inductive invariants *)

\* The lm_writes that have a node in their hands.
Writers == {t \in Tasks : pc[t] \in {"copy", "add"}}
InHand == {m[t] : t \in Writers}

\* No node is on the list twice, none on the list and in a writer's hands, and
\* none in the hands of two.
Injective == \A i, j \in 1 .. Len(list) : list[i] = list[j] => i = j
Apart == /\ \A t \in Writers : m[t] \in Nodes \ OnList
         /\ \A t, u \in Writers : m[t] = m[u] => t = u
\* Every node that is allocated is in one of the two places.
Accounted == IsFiniteSet(heap) /\ heap = OnList \cup InHand

\* LISTMSG_COUNT; a module that is gone has no list, and one that goes no files.
Counted == /\ text = "live" => msg_count = Len(list)
           /\ text \in {"exit_deregister", "absent"} => list = <<>>
           /\ text # "live" => opened = {}

\* Whoever is in a call has the file open.
CallsOpen == \A t \in Tasks : pc[t] \notin {"idle", "dead"} => fd[t] \in opened

\* What is written is a message: in the hands of lm_add, and on the list.
Written == /\ \A t \in Tasks : pc[t] = "add" => body[m[t]] \in Ids
           /\ \A k \in 1 .. Len(list) : body[list[k]] \in Ids

NodeInv == TypeOK /\ Injective /\ Apart /\ Accounted /\ Counted /\ CallsOpen /\ Written

\* The mutex is the read's that is inside, and stays with one that died there.
Holder == \A t \in Tasks : pc[t] \in {"format", "next", "store", "dead"} => lock = t

\* A cursor is NULL or on the list, but for the files that a CLEAR cut short;
\* the file that a CLEAR is to reset is one of these or at the end ...
Stand == \A f \in Fds \ lost : pos[f] # NULL => f \in opened /\ pos[f] \in OnList
ToReset == \A t \in Tasks : pc[t] = "reset" => fd[t] \in lost \/ pos[fd[t]] = NULL
\* ... and a read that passed its check still has one, or was crossed.
StillThere == \A t \in Tasks :
  pc[t] \in {"lock", "format", "next"} /\ t \notin crossed =>
    fd[t] \in lost \/ pos[fd[t]] # NULL
\* What a read formats is what its node says, and where it goes is the next one.
Formatted == \A t \in Tasks :
  pc[t] \in {"next", "store"} /\ fd[t] \notin lost =>
    /\ pos[fd[t]] \in OnList /\ line[t] = body[pos[fd[t]]]
    /\ pc[t] = "store" => nxt[t] = NextOrNull(pos[fd[t]])

CursorInv == Holder /\ Stand /\ ToReset /\ StillThere /\ Formatted

------------------------------------------------------------------------------
(* The list *)

\* list_add_tail puts its node behind the others.
LEMMA Added ==
  ASSUME list \in Seq(Nodes), NEW x \in Nodes, list' = Append(list, x)
  PROVE  /\ list' \in Seq(Nodes) /\ Len(list') = Len(list) + 1 /\ Len(list) \in Nat
         /\ \A k \in 1 .. Len(list) : list'[k] = list[k]
         /\ list'[Len(list) + 1] = x
         /\ OnList' = OnList \cup {x}
<1>1. /\ list' \in Seq(Nodes) /\ Len(list') = Len(list) + 1 /\ Len(list) \in Nat
      /\ \A k \in 1 .. Len(list) : list'[k] = list[k]
      /\ list'[Len(list) + 1] = x
  BY AppendProperties
<1>2. OnList' \subseteq OnList \cup {x}
  <2> SUFFICES ASSUME NEW k \in 1 .. Len(list') PROVE list'[k] \in OnList \cup {x}
    BY DEF OnList
  <2>1. CASE k \in 1 .. Len(list)
    BY <1>1, <2>1 DEF OnList
  <2>2. CASE k = Len(list) + 1
    BY <1>1, <2>2
  <2> QED
    BY <1>1, <2>1, <2>2
<1>3. OnList \subseteq OnList'
  <2> SUFFICES ASSUME NEW k \in 1 .. Len(list) PROVE list[k] \in OnList'
    BY DEF OnList
  <2>1. k \in 1 .. Len(list') /\ list'[k] = list[k]
    BY <1>1
  <2> QED
    BY <2>1 DEF OnList
<1>4. x \in OnList'
  <2>1. Len(list) + 1 \in 1 .. Len(list')
    BY <1>1
  <2> QED
    BY <1>1, <2>1 DEF OnList
<1> QED
  BY <1>1, <1>2, <1>3, <1>4

\* A node that is on the list has one place on it.
LEMMA PlaceIs ==
  ASSUME TypeOK, Injective, NEW k \in 1 .. Len(list)
  PROVE  list[k] \in OnList /\ list[k] # NULL /\ Place(list[k]) = k
<1>1. list[k] \in Nodes
  BY DEF TypeOK
<1>2. \A j \in 1 .. Len(list) : list[j] = list[k] => j = k
  BY DEF Injective
<1> QED
  BY <1>1, <1>2, NullAssumption DEF OnList, Place

\* Every node on the list is somewhere on it.
LEMMA PlaceOf ==
  ASSUME NEW x \in OnList
  PROVE  Place(x) \in 1 .. Len(list) /\ list[Place(x)] = x
<1>1. \E k \in 1 .. Len(list) : list[k] = x
  BY DEF OnList
<1> QED
  BY <1>1 DEF Place

------------------------------------------------------------------------------
(* The nodes *)

\* No node is in use at first.
LEMMA NodeInitInv == Init => NodeInv
<1> SUFFICES ASSUME Init PROVE NodeInv
  OBVIOUS
<1> USE DEF Init
<1>1. TypeOK
  BY WritesAssumption DEF TypeOK
<1>2. OnList = {} /\ Writers = {} /\ InHand = {}
  BY DEF OnList, Writers, InHand
<1>3. Accounted
  BY <1>2, FS_EmptySet DEF Accounted
<1> QED
  BY <1>1, <1>2, <1>3 DEF NodeInv, Injective, Apart, Counted, CallsOpen, Written

\* Opening and closing, the calls that only look, and the module's own comings
\* and goings leave the nodes and who has them.
NodesKept == UNCHANGED <<list, heap, body, msg_count, m>> /\ Writers' = Writers

\* Such steps keep what is said of the nodes.
LEMMA KeptInv ==
  ASSUME NodeInv, NodesKept, \A t \in Tasks : pc'[t] = "add" => pc[t] = "add"
  PROVE  Injective' /\ Apart' /\ Accounted' /\ Written'
<1>1. InHand' = InHand /\ OnList' = OnList
  BY DEF InHand, NodesKept, OnList
<1> QED
  BY <1>1 DEF NodesKept, NodeInv, Injective, Apart, Accounted, Written

\* open(2).
LEMMA OpenInv == ASSUME NodeInv, NEW f \in Fds, lm_open(f) PROVE NodeInv'
<1>1. NodesKept /\ UNCHANGED <<text, pc, fd>>
  BY DEF lm_open, NodesKept, listVars, taskVars, Writers
<1>2. TypeOK'
  <2>1. FirstOrNull \in Nodes \cup {NULL}
    BY DEF FirstOrNull, NodeInv, TypeOK
  <2> QED
    BY <2>1 DEF lm_open, listVars, taskVars, NodeInv, TypeOK
<1>3. Counted' /\ CallsOpen'
  BY <1>1 DEF lm_open, NodesKept, NodeInv, Counted, CallsOpen
<1> QED
  BY <1>1, <1>2, <1>3, KeptInv DEF NodeInv

\* The last close of a file.
LEMMA CloseInv == ASSUME NodeInv, NEW f \in Fds, lm_release(f) PROVE NodeInv'
<1>1. NodesKept /\ UNCHANGED <<text, pc, fd>>
  BY DEF lm_release, NodesKept, listVars, taskVars, Writers
<1>2. TypeOK'
  BY DEF lm_release, listVars, taskVars, NodeInv, TypeOK
<1>3. Counted' /\ CallsOpen'
  BY <1>1 DEF lm_release, NodesKept, NodeInv, Counted, CallsOpen
<1> QED
  BY <1>1, <1>2, <1>3, KeptInv DEF NodeInv

\* kmalloc: the new node is in the hands of the caller.
LEMMA AllocInv ==
  ASSUME NodeInv, NEW t \in Tasks, NEW f \in Fds, WriteAlloc(t, f)
  PROVE  NodeInv'
<1> USE DEF NodeInv
<1>1. PICK x \in Nodes \ heap : heap' = heap \cup {x} /\ m' = [m EXCEPT ![t] = x]
  BY DEF WriteAlloc
<1>2. /\ pc[t] = "idle" /\ f \in opened
      /\ pc' = [pc EXCEPT ![t] = "copy"] /\ fd' = [fd EXCEPT ![t] = f]
      /\ UNCHANGED <<text, list, body, msg_count, lock, opened, pos, idx, got, lost, line, nxt, crossed, written>>
  BY DEF WriteAlloc, Enter, curVars
<1>3. TypeOK'
  BY <1>1, <1>2 DEF TypeOK
<1>4. /\ Writers' = Writers \cup {t} /\ t \notin Writers /\ m'[t] = x
      /\ \A u \in Writers : m'[u] = m[u]
  BY <1>1, <1>2 DEF TypeOK, Writers
<1>5. InHand' = InHand \cup {x} /\ OnList' = OnList
  BY <1>2, <1>4 DEF InHand, OnList
<1>6. Accounted'
  BY <1>1, <1>5, FS_AddElement DEF Accounted
<1>7. Apart'
  BY <1>1, <1>4, <1>5 DEF Apart, Accounted, InHand
<1>8. Written'
  BY <1>1, <1>2 DEF TypeOK, Written
<1>9. Injective' /\ Counted' /\ CallsOpen'
  BY <1>2 DEF TypeOK, Injective, Counted, CallsOpen
<1> QED
  BY <1>3, <1>6, <1>7, <1>8, <1>9

\* What the caller writes into its node nobody else has, and if the copy
\* fails it takes the node back.
LEMMA CopyInv ==
  ASSUME NodeInv, NEW t \in Tasks, WriteCopy(t)
  PROVE  NodeInv'
<1> USE DEF NodeInv
<1>1. /\ pc[t] = "copy" /\ t \in Writers
      /\ UNCHANGED <<text, list, msg_count, lock, opened, pos, idx, got, lost, line, nxt,
                    crossed>>
      /\ OnList' = OnList
  BY DEF WriteCopy, curVars, Writers, OnList
<1>2. ASSUME written < MaxWrites, written' = written + 1,
             body' = [body EXCEPT ![m[t]] = written'], Goto(t, "add"),
             UNCHANGED <<heap, m>>
      PROVE  NodeInv'
  <2>1. /\ pc' = [pc EXCEPT ![t] = "add"] /\ UNCHANGED fd
        /\ written' \in Ids /\ m[t] \in Nodes
    BY <1>1, <1>2, WritesAssumption DEF Goto, TypeOK, Ids, Apart
  <2>2. TypeOK'
    BY <1>1, <1>2, <2>1 DEF TypeOK, Ids
  <2>3. Writers' = Writers /\ InHand' = InHand
    BY <1>1, <1>2, <2>1 DEF TypeOK, Writers, InHand
  <2>4. Written'
    <3>1. ASSUME NEW u \in Tasks, pc'[u] = "add" PROVE body'[m'[u]] \in Ids
      <4>1. CASE u = t
        BY <1>2, <2>1, <4>1 DEF TypeOK
      <4>2. CASE u # t
        <5>1. pc[u] = "add" /\ u \in Writers /\ m[u] # m[t]
          BY <1>1, <2>1, <3>1, <4>2 DEF TypeOK, Writers, Apart
        <5> QED
          BY <1>2, <5>1 DEF TypeOK, Written, Apart
      <4> QED
        BY <4>1, <4>2
    <3>2. ASSUME NEW k \in 1 .. Len(list) PROVE body'[list[k]] \in Ids
      <4>1. list[k] # m[t] /\ list[k] \in Nodes
        BY <1>1 DEF Apart, OnList, TypeOK
      <4> QED
        BY <1>2, <4>1 DEF TypeOK, Written
    <3> QED
      BY <1>1, <3>1, <3>2 DEF Written
  <2>5. Injective' /\ Apart' /\ Accounted' /\ Counted' /\ CallsOpen'
    BY <1>1, <1>2, <2>1, <2>3 DEF TypeOK, Injective, Apart, Accounted, Counted, CallsOpen
  <2> QED
    BY <2>2, <2>4, <2>5
<1>3. ASSUME heap' = Freed(t), m' = [m EXCEPT ![t] = NULL], Return(t),
             UNCHANGED <<body, written>>
      PROVE  NodeInv'
  <2>1. /\ pc' = [pc EXCEPT ![t] = "idle"] /\ fd' = [fd EXCEPT ![t] = NULL]
        /\ heap' = heap \ {m[t]}
    BY <1>3 DEF Return, Freed
  <2>2. TypeOK'
    BY <1>1, <1>3, <2>1 DEF TypeOK
  <2>3. Writers' = Writers \ {t} /\ \A u \in Writers' : m'[u] = m[u]
    BY <1>3, <2>1 DEF TypeOK, Writers
  <2>4. InHand' = InHand \ {m[t]}
    BY <1>1, <2>3 DEF InHand, Apart
  <2>5. Accounted'
    BY <1>1, <2>1, <2>4, FS_RemoveElement DEF Accounted, Apart
  <2>6. Apart'
    BY <1>1, <2>3 DEF Apart
  <2>7. Written'
    BY <1>1, <1>3, <2>1 DEF TypeOK, Written
  <2>8. Injective' /\ Counted' /\ CallsOpen'
    BY <1>1, <2>1 DEF TypeOK, Injective, Counted, CallsOpen
  <2> QED
    BY <2>2, <2>5, <2>6, <2>7, <2>8
<1> QED
  BY <1>2, <1>3 DEF WriteCopy

\* list_add_tail hands the node over to the list.
LEMMA AddInv ==
  ASSUME NodeInv, NEW t \in Tasks, WriteAdd(t)
  PROVE  NodeInv'
<1> USE DEF NodeInv
<1>1. /\ pc[t] = "add" /\ t \in Writers /\ list' = Append(list, m[t])
      /\ msg_count' = msg_count + 1 /\ m' = [m EXCEPT ![t] = NULL]
      /\ pc' = [pc EXCEPT ![t] = "idle"] /\ fd' = [fd EXCEPT ![t] = NULL]
      /\ UNCHANGED <<text, heap, body, lock, opened, pos, idx, got, lost, line, nxt, crossed,
                    written>>
  BY DEF WriteAdd, Return, curVars, Writers
<1>2. m[t] \in Nodes \ OnList /\ list \in Seq(Nodes)
  BY <1>1 DEF Apart, TypeOK
<1>3. /\ list' \in Seq(Nodes) /\ Len(list') = Len(list) + 1 /\ Len(list) \in Nat
      /\ \A k \in 1 .. Len(list) : list'[k] = list[k]
      /\ list'[Len(list) + 1] = m[t]
      /\ OnList' = OnList \cup {m[t]}
  BY <1>1, <1>2, Added
<1>4. TypeOK'
  BY <1>1, <1>3 DEF TypeOK
<1>5. Writers' = Writers \ {t} /\ \A u \in Writers' : m'[u] = m[u]
  BY <1>1 DEF TypeOK, Writers
<1>6. InHand' = InHand \ {m[t]} /\ m[t] \in InHand
  BY <1>1, <1>5 DEF InHand, Apart
<1>7. Accounted'
  BY <1>1, <1>3, <1>6 DEF Accounted
<1>8. Apart'
  BY <1>1, <1>3, <1>5 DEF Apart
<1>9. Injective'
  <2> SUFFICES ASSUME NEW i \in 1 .. Len(list'), NEW j \in 1 .. Len(list'), list'[i] = list'[j]
               PROVE  i = j
    BY DEF Injective
  <2>1. \A k \in 1 .. Len(list) : list'[k] # m[t]
    BY <1>2, <1>3 DEF OnList
  <2>2. CASE i \in 1 .. Len(list) /\ j \in 1 .. Len(list)
    BY <1>3, <2>2 DEF Injective
  <2>3. CASE i = Len(list) + 1 \/ j = Len(list) + 1
    BY <1>3, <2>1, <2>3
  <2> QED
    BY <1>3, <2>2, <2>3
<1>10. Written'
  <2>1. ASSUME NEW u \in Tasks, pc'[u] = "add" PROVE body'[m'[u]] \in Ids
    BY <1>1, <2>1 DEF TypeOK, Written
  <2>2. ASSUME NEW k \in 1 .. Len(list') PROVE body'[list'[k]] \in Ids
    <3>1. CASE k \in 1 .. Len(list)
      BY <1>1, <1>3, <3>1 DEF Written
    <3>2. CASE k = Len(list) + 1
      BY <1>1, <1>3, <3>2 DEF Written
    <3> QED
      BY <1>3, <3>1, <3>2
  <2> QED
    BY <2>1, <2>2 DEF Written
<1>11. Counted'
  <2>1. text = "live"
    BY <1>1 DEF Counted, CallsOpen
  <2> QED
    BY <1>1, <1>3, <2>1 DEF Counted
<1>12. CallsOpen'
  BY <1>1 DEF TypeOK, CallsOpen
<1> QED
  BY <1>4, <1>7, <1>8, <1>9, <1>10, <1>11, <1>12

\* What follows x on the list, or nothing.
LEMMA NextIs ==
  ASSUME TypeOK, Injective, NEW x \in OnList
  PROVE  /\ Place(x) \in 1 .. Len(list) /\ Len(list) \in Nat
         /\ Place(x) = Len(list) => NextOrNull(x) = NULL
         /\ Place(x) # Len(list) => /\ NextOrNull(x) \in OnList /\ NextOrNull(x) # NULL
                                    /\ Place(NextOrNull(x)) = Place(x) + 1
<1>1. Place(x) \in 1 .. Len(list) /\ list[Place(x)] = x /\ Len(list) \in Nat
  BY PlaceOf DEF TypeOK
<1>2. ASSUME Place(x) = Len(list) PROVE NextOrNull(x) = NULL
  BY <1>1, <1>2 DEF NextOrNull
<1>3. ASSUME Place(x) # Len(list)
      PROVE  /\ NextOrNull(x) \in OnList /\ NextOrNull(x) # NULL
             /\ Place(NextOrNull(x)) = Place(x) + 1
  <2>1. Place(x) + 1 \in 1 .. Len(list) /\ Len(list) \in 1 .. Len(list)
    BY <1>1, <1>3
  <2>2. list[Len(list)] # x
    BY <1>1, <1>3, <2>1 DEF Injective
  <2>3. NextOrNull(x) = list[Place(x) + 1]
    BY <2>2 DEF NextOrNull
  <2> QED
    BY <2>1, <2>3, PlaceIs
<1> QED
  BY <1>1, <1>2, <1>3

\* The steps of a call that neither take nor give a node.
Looks(t) == \/ ReadLock(t) \/ ReadFormat(t) \/ ReadNext(t) \/ ReadStore(t) \/ ReadOops(t)
            \/ ClearReset(t)
            \/ \E f \in Fds : ReadCheck(t, f) \/ ClearEnter(t, f)

\* The steps of a call that only look.
LEMMA LooksInv ==
  ASSUME NodeInv, NEW t \in Tasks, Looks(t)
  PROVE  NodeInv'
<1> USE DEF NodeInv
<1>1. /\ UNCHANGED <<text, list, heap, body, msg_count, m, opened, written>>
      /\ pc[t] \notin {"copy", "add"}
  BY DEF Looks, ReadLock, ReadFormat, ReadNext, ReadStore, ReadOops, ClearReset, ReadCheck,
     ClearEnter, Enter, listVars, curVars
<1>2. /\ \E where \in {"lock", "format", "next", "store", "clear", "idle", "dead"} :
           pc' = [pc EXCEPT ![t] = where]
      /\ \A u \in Tasks : pc'[u] \notin {"idle", "dead"} => fd'[u] \in opened
      /\ fd' \in [Tasks -> Fds \cup {NULL}]
  <2>1. CASE ReadLock(t) \/ ReadFormat(t) \/ ReadNext(t)
    BY <2>1 DEF ReadLock, ReadFormat, ReadNext, Goto, TypeOK, CallsOpen
  <2>2. CASE ReadStore(t) \/ ReadOops(t) \/ ClearReset(t)
    BY <2>2 DEF ReadStore, ReadOops, ClearReset, Return, TypeOK, CallsOpen
  <2>3. ASSUME NEW f \in Fds, ReadCheck(t, f) \/ ClearEnter(t, f)
        PROVE  /\ \E where \in {"lock", "clear"} : pc' = [pc EXCEPT ![t] = where]
               /\ \A u \in Tasks : pc'[u] \notin {"idle", "dead"} => fd'[u] \in opened
               /\ fd' \in [Tasks -> Fds \cup {NULL}]
    BY <2>3 DEF ReadCheck, ClearEnter, Enter, TypeOK, CallsOpen
  <2> QED
    BY <2>1, <2>2, <2>3 DEF Looks
<1> DEFINE Typed == /\ lock' \in Tasks \cup {NoOne}
                    /\ pos' \in [Fds -> Nodes \cup {NULL, WILD}] /\ idx' \in [Fds -> Nat]
                    /\ line' \in [Tasks -> 0 .. MaxWrites]
                    /\ got' \in [Fds -> Seq(0 .. MaxWrites)]
                    /\ nxt' \in [Tasks -> Nodes \cup {NULL, WILD}]
                    /\ lost' \subseteq opened /\ crossed' \subseteq Tasks
<1>3. Typed
  <2>1. CASE ReadLock(t)
    BY <2>1 DEF ReadLock, TypeOK, curVars
  <2>2. CASE ReadFormat(t)
    <3>1. pos[fd[t]] \in Nodes /\ body[pos[fd[t]]] \in 0 .. MaxWrites
      BY <2>2 DEF ReadFormat, TypeOK
    <3> QED
      BY <2>2, <3>1 DEF ReadFormat, TypeOK, curVars
  <2>3. CASE ReadNext(t)
    <3>1. PICK x \in IF pos[fd[t]] \in OnList THEN {NextOrNull(pos[fd[t]])} ELSE {NULL, WILD} :
            nxt' = [nxt EXCEPT ![t] = x]
      BY <2>3 DEF ReadNext
    <3>2. x \in Nodes \cup {NULL, WILD}
      <4>1. CASE pos[fd[t]] \in OnList
        <5>1. NextOrNull(pos[fd[t]]) \in OnList \cup {NULL}
          BY <4>1, NextIs
        <5> QED
          BY <3>1, <4>1, <5>1 DEF OnList, TypeOK
      <4> QED
        BY <3>1, <4>1
    <3> QED
      BY <2>3, <3>1, <3>2 DEF ReadNext, TypeOK, curVars
  <2>4. CASE ReadStore(t)
    <3> DEFINE f == fd[t]
    <3>1. f \in Fds /\ line[t] \in 0 .. MaxWrites /\ nxt[t] \in Nodes \cup {NULL, WILD}
      BY <2>4 DEF ReadStore, TypeOK, CallsOpen
    <3>2. Append(got[f], line[t]) \in Seq(0 .. MaxWrites) /\ idx[f] + 1 \in Nat
      BY <3>1 DEF TypeOK
    <3>3. got' \in [Fds -> Seq(0 .. MaxWrites)]
      BY <2>4, <3>2 DEF ReadStore, TypeOK
    <3>4. /\ lock' \in Tasks \cup {NoOne} /\ lost' \subseteq opened /\ crossed' \subseteq Tasks
      BY <2>4 DEF ReadStore, OtherReads, Unlock, TypeOK
    <3>5. /\ line' \in [Tasks -> 0 .. MaxWrites] /\ nxt' \in [Tasks -> Nodes \cup {NULL, WILD}]
      BY <2>4, WritesAssumption DEF ReadStore, TypeOK
    <3>6. /\ pos' \in [Fds -> Nodes \cup {NULL, WILD}] /\ idx' \in [Fds -> Nat]
      BY <2>4, <3>1, <3>2 DEF ReadStore, TypeOK
    <3> QED
      BY <3>3, <3>4, <3>5, <3>6
  <2>5. CASE ReadOops(t)
    BY <2>5, WritesAssumption DEF ReadOops, TypeOK, curVars
  <2>6. CASE ClearReset(t)
    BY <2>6 DEF ClearReset, Reset, TypeOK
  <2>7. ASSUME NEW f \in Fds, ReadCheck(t, f) \/ ClearEnter(t, f)
        PROVE  Typed
    BY <2>7 DEF ReadCheck, ClearEnter, curVars, TypeOK
  <2> HIDE DEF Typed
  <2> QED
    BY <2>1, <2>2, <2>3, <2>4, <2>5, <2>6, <2>7 DEF Looks
<1>4. TypeOK'
  <2>1. pc' \in [Tasks -> {"idle", "copy", "add", "lock", "format", "next", "store", "clear",
                          "reset", "dead"}]
    BY <1>2 DEF TypeOK
  <2>2. fd' \in [Tasks -> Fds \cup {NULL}]
    BY <1>2
  <2> QED
    BY <1>1, <1>3, <2>1, <2>2 DEF TypeOK
<1>5. NodesKept /\ \A u \in Tasks : pc'[u] = "add" => pc[u] = "add"
  BY <1>1, <1>2 DEF NodesKept, Writers, TypeOK
<1>6. Counted' /\ CallsOpen'
  BY <1>1, <1>2 DEF Counted, CallsOpen
<1> QED
  BY <1>4, <1>5, <1>6, KeptInv

\* CLEAR and lm_exit: no node is on the list any more, and the writers keep theirs.
LEMMA EmptiedInv ==
  ASSUME NodeInv, FreeAll, UNCHANGED m,
         Writers' = Writers, \A t \in Tasks : pc'[t] = "add" => pc[t] = "add"
  PROVE  Injective' /\ Apart' /\ Accounted' /\ Written'
<1> USE DEF NodeInv, FreeAll
<1>1. OnList' = {} /\ InHand' = InHand /\ Len(list') = 0
  BY DEF OnList, InHand
<1>2. InHand \cap OnList = {}
  BY DEF InHand, Apart
<1>3. IsFiniteSet(heap')
  BY FS_Subset DEF Accounted
<1>4. Injective' /\ Apart' /\ Accounted'
  BY <1>1, <1>2, <1>3 DEF Injective, Apart, Accounted
<1>5. \A t \in Writers : body'[m[t]] = body[m[t]]
  BY DEF Apart
<1>6. \A t \in Tasks : pc'[t] = "add" => body'[m'[t]] \in Ids
  BY <1>5 DEF Written, Writers
<1> QED
  BY <1>1, <1>4, <1>6 DEF Written

\* A freed node holds no message.
LEMMA FreedType == TypeOK /\ FreeAll => /\ list' \in Seq(Nodes) /\ heap' \subseteq Nodes
                                        /\ body' \in [Nodes -> 0 .. MaxWrites]
BY WritesAssumption DEF TypeOK, FreeAll

\* LISTMSG_CLEAR takes every node off and frees it.
LEMMA ClearInv == ASSUME NodeInv, NEW t \in Tasks, ClearFree(t) PROVE NodeInv'
<1> USE DEF NodeInv
<1>1. /\ pc[t] = "clear" /\ FreeAll /\ list' = <<>> /\ msg_count' = 0
      /\ pc' = [pc EXCEPT ![t] = "reset"]
      /\ lost' = lost \cup Cut /\ got' = [f \in Fds |-> IF f \in Cut THEN <<>> ELSE got[f]]
      /\ UNCHANGED <<text, lock, opened, pos, idx, fd, m, line, nxt, crossed, written>>
  BY DEF ClearFree, NoneLeft, FreeAll, Goto
<1>2. TypeOK'
  <2>1. lost' \subseteq opened /\ got' \in [Fds -> Seq(0 .. MaxWrites)]
    <3>1. <<>> \in Seq(0 .. MaxWrites)
      OBVIOUS
    <3>2. got' \in [Fds -> Seq(0 .. MaxWrites)]
      BY <1>1, <3>1 DEF TypeOK
    <3> QED
      BY <1>1, <3>2 DEF Cut, TypeOK
  <2>2. /\ list' \in Seq(Nodes) /\ heap' \subseteq Nodes
        /\ body' \in [Nodes -> 0 .. MaxWrites]
    BY <1>1, FreedType
  <2>3. msg_count' \in Nat /\ pc' \in [Tasks -> {"idle", "copy", "add", "lock", "format", "next",
                                              "store", "clear", "reset", "dead"}]
    BY <1>1 DEF TypeOK
  <2> QED
    BY <1>1, <2>1, <2>2, <2>3 DEF TypeOK
<1>3. Counted' /\ CallsOpen'
  BY <1>1 DEF Counted, CallsOpen, TypeOK
<1>4. Writers' = Writers /\ \A u \in Tasks : pc'[u] = "add" => pc[u] = "add"
  BY <1>1 DEF TypeOK, Writers
<1> QED
  BY <1>1, <1>2, <1>3, <1>4, EmptiedInv

\* The module comes and goes with no file open, so with no call inside.
LEMMA ModuleInv ==
  ASSUME NodeInv, lm_init \/ Rmmod \/ ExitFree \/ ExitDeregister
  PROVE  NodeInv'
<1> USE DEF NodeInv
<1>1. UNCHANGED <<pc, fd, m, line, nxt, crossed, pos, idx, opened, got, lost, lock, written>>
  BY DEF lm_init, Rmmod, ExitFree, ExitDeregister, taskVars, curVars, listVars
<1>2. Writers' = Writers
  BY <1>1 DEF Writers
<1>3. CASE lm_init \/ Rmmod \/ ExitDeregister
  <2>1. heap' = heap /\ list' = list /\ body' = body
    BY <1>3 DEF lm_init, Rmmod, ExitDeregister, listVars, Counted
  <2>2. TypeOK' /\ Counted' /\ CallsOpen'
    BY <1>1, <1>3, <2>1
    DEF lm_init, Rmmod, ExitDeregister, listVars, TypeOK, Counted, CallsOpen
  <2>3. OnList' = OnList /\ InHand' = InHand
    BY <1>1, <1>2, <2>1 DEF OnList, InHand
  <2> QED
    BY <1>1, <1>2, <2>1, <2>2, <2>3 DEF Injective, Apart, Accounted, Written
<1>4. CASE ExitFree
  <2>1. /\ text = "exit_free" /\ text' = "exit_deregister"
        /\ FreeAll /\ list' = <<>> /\ UNCHANGED msg_count
    BY <1>4 DEF ExitFree, FreeAll
  <2>2. TypeOK' /\ Counted' /\ CallsOpen'
    BY <1>1, <2>1, FreedType DEF TypeOK, Counted, CallsOpen
  <2> QED
    BY <1>1, <1>2, <2>1, <2>2, EmptiedInv
<1> QED
  BY <1>3, <1>4

\* A stutter.
LEMMA NodeSame == NodeInv /\ UNCHANGED vars => NodeInv'
<1> SUFFICES ASSUME NodeInv, UNCHANGED vars PROVE NodeInv'
  OBVIOUS
<1> USE DEF NodeInv, vars, listVars, curVars, taskVars
<1>1. TypeOK' /\ Counted' /\ CallsOpen'
  BY DEF TypeOK, Counted, CallsOpen
<1>2. Writers' = Writers
  BY DEF Writers
<1> QED
  BY <1>1, <1>2, KeptInv DEF NodesKept

\* Every step keeps the nodes accounted for.
LEMMA NodeStep == NodeInv /\ [Next]_vars => NodeInv'
<1> SUFFICES ASSUME NodeInv, [Next]_vars PROVE NodeInv'
  OBVIOUS
<1>1. ASSUME NEW t \in Tasks, Inside(t) PROVE NodeInv'
  BY <1>1, CopyInv, AddInv, ClearInv, LooksInv DEF Inside, Looks
<1>2. ASSUME NEW t \in Tasks, NEW f \in Fds, Call(t, f) PROVE NodeInv'
  BY <1>2, AllocInv, LooksInv DEF Call, Looks
<1>3. ASSUME NEW f \in Fds, lm_open(f) \/ lm_release(f) PROVE NodeInv'
  BY <1>3, OpenInv, CloseInv
<1>4. CASE lm_init \/ Rmmod \/ ExitFree \/ ExitDeregister
  BY <1>4, ModuleInv
<1> QED
  BY <1>1, <1>2, <1>3, <1>4, NodeSame DEF Next

\* Every node is on the list once, in the hands of one writer, or free, whatever
\* overlaps (listmsg.c:40-65, :126-139, :166-177).
THEOREM NodeInvariant == Spec => []NodeInv
BY NodeInitInv, NodeStep, PTL DEF Spec, SafeSpec

\* The list, the cursors and the calls stay in their types, the module being
\* loaded and unloaded meanwhile (listmsg.c:40-177).
THEOREM ListMsgTypeCorrect == Spec => []TypeOK
<1>1. NodeInv => TypeOK
  BY DEF NodeInv
<1> QED
  BY <1>1, NodeInvariant, PTL

\* As many nodes as the list is long and as there are writes under way.
LEMMA NodesCounted ==
  ASSUME NodeInv
  PROVE  Cardinality(heap) = Len(list) + Cardinality(Writers)
<1> USE DEF NodeInv
<1>1. IsFiniteSet(OnList) /\ Cardinality(OnList) = Len(list)
  <2>1. Len(list) \in Nat /\ list \in [1 .. Len(list) -> OnList]
    BY DEF TypeOK, OnList
  <2>2. list \in Bijection(1 .. Len(list), OnList)
    <3>1. \A i, j \in 1 .. Len(list) : list[i] = list[j] => i = j
      BY DEF Injective
    <3>2. \A x \in OnList : \E i \in 1 .. Len(list) : list[i] = x
      BY DEF OnList
    <3> QED
      BY <2>1, <3>1, <3>2, Fun_IsBij
  <2>3. IsFiniteSet(1 .. Len(list)) /\ Cardinality(1 .. Len(list)) = Len(list)
    BY <2>1, FS_Interval
  <2>4. ExistsBijection(1 .. Len(list), OnList)
    BY <2>2 DEF ExistsBijection
  <2> QED
    BY <2>3, <2>4, FS_Bijection
<1>2. IsFiniteSet(InHand) /\ Cardinality(InHand) = Cardinality(Writers)
  <2>1. IsFiniteSet(InHand)
    BY FS_Subset DEF Accounted
  <2> DEFINE hand == [t \in Writers |-> m[t]]
  <2>2. hand \in Bijection(Writers, InHand)
    <3>1. hand \in [Writers -> InHand]
      BY DEF InHand
    <3>2. \A t, u \in Writers : hand[t] = hand[u] => t = u
      BY DEF Apart
    <3>3. \A x \in InHand : \E t \in Writers : hand[t] = x
      BY DEF InHand
    <3> QED
      BY <3>1, <3>2, <3>3, Fun_IsBij
  <2>3. ExistsBijection(InHand, Writers)
    BY <2>2, Fun_ExistsBijSymmetric DEF ExistsBijection
  <2> QED
    BY <2>1, <2>3, FS_Bijection
<1>3. OnList \cap InHand = {}
  BY DEF InHand, Apart
<1>4. Cardinality(heap) = Cardinality(OnList) + Cardinality(InHand) - Cardinality({})
  BY <1>1, <1>2, <1>3, FS_Union DEF Accounted
<1>5. Cardinality(Writers) \in Nat /\ Len(list) \in Nat
  BY <1>2, FS_CardinalityType DEF TypeOK
<1> QED
  BY <1>1, <1>2, <1>4, <1>5, FS_EmptySet

\* No node is leaked or freed twice, by a fault, by LISTMSG_CLEAR or by lm_exit,
\* and the count is the list's length (listmsg.c:50-63, :126-139, :166-177).
THEOREM NodesAccountedCorrect == Spec => []NodesAccounted
<1>1. NodeInv => NodesAccounted
  <2> SUFFICES ASSUME NodeInv PROVE NodesAccounted
    OBVIOUS
  <2>1. Cardinality(heap) = Len(list) + Cardinality(Writers)
    BY NodesCounted
  <2> QED
    BY <2>1 DEF NodeInv, Accounted, InHand, Writers, Counted, NodesAccounted
<1> QED
  BY <1>1, NodeInvariant, PTL

------------------------------------------------------------------------------
(* The cursors *)

\* No file is open at first.
LEMMA CursorInitInv == Init => CursorInv
BY DEF Init, CursorInv, Holder, Stand, ToReset, StillThere, Formatted

\* NULL is no node of the list.
LEMMA NullOffList == ASSUME NodeInv PROVE NULL \notin OnList
BY NullAssumption DEF NodeInv, TypeOK, OnList

\* Of a read that has the mutex, where the cursor is.
LEMMA OnTheList ==
  ASSUME NodeInv, CursorInv, NEW t \in Tasks, pc[t] \in {"lock", "format", "next"},
         fd[t] \notin lost, t \notin crossed
  PROVE  pos[fd[t]] \in OnList
<1>1. fd[t] \in Fds \ lost
  BY DEF NodeInv, TypeOK, CallsOpen
<1> QED
  BY <1>1 DEF CursorInv, Stand, StillThere

\* An open file starts with a cursor of its own.
LEMMA CursorOpenInv ==
  ASSUME NodeInv, CursorInv, NEW f \in Fds, lm_open(f)
  PROVE  CursorInv'
<1> USE DEF CursorInv
<1>1. /\ f \notin opened /\ opened' = opened \cup {f} /\ pos' = [pos EXCEPT ![f] = FirstOrNull]
      /\ UNCHANGED <<list, body, lock, pc, fd, line, nxt, lost, crossed>>
  BY DEF lm_open, listVars, taskVars
<1>2. FirstOrNull # NULL => FirstOrNull \in OnList
  <2>1. ASSUME list # <<>> PROVE 1 \in 1 .. Len(list)
    BY <2>1 DEF NodeInv, TypeOK
  <2> QED
    BY <2>1 DEF FirstOrNull, OnList
<1>3. OnList' = OnList /\ \A x : NextOrNull(x)' = NextOrNull(x)
  BY <1>1 DEF OnList, NextOrNull, Place
<1>4. Stand'
  BY <1>1, <1>2, <1>3 DEF Stand, NodeInv, TypeOK
<1>5. \A t \in Tasks : pc[t] \notin {"idle", "dead"} => fd[t] \in Fds \ {f}
  BY <1>1 DEF NodeInv, TypeOK, CallsOpen
<1>6. \A g \in Fds \ {f} : pos'[g] = pos[g]
  BY <1>1 DEF NodeInv, TypeOK
<1>7. ToReset' /\ StillThere'
  BY <1>1, <1>5, <1>6 DEF ToReset, StillThere
<1>8. Formatted'
  BY <1>1, <1>3, <1>5, <1>6 DEF Formatted
<1> QED
  BY <1>1, <1>4, <1>7, <1>8 DEF Holder

\* The last close of a file, with no call left on it.
LEMMA CursorCloseInv ==
  ASSUME NodeInv, CursorInv, NEW f \in Fds, lm_release(f)
  PROVE  CursorInv'
<1> USE DEF CursorInv
<1>1. /\ f \in opened /\ \A t \in Tasks : fd[t] # f
      /\ opened' = opened \ {f} /\ pos' = [pos EXCEPT ![f] = NULL] /\ lost' = lost \ {f}
      /\ UNCHANGED <<list, body, lock, pc, fd, line, nxt, crossed>>
  BY DEF lm_release, listVars, taskVars
<1>2. /\ pos'[f] = NULL /\ \A g \in Fds \ {f} : pos'[g] = pos[g]
      /\ \A t \in Tasks : pc[t] \notin {"idle", "dead"} => fd[t] \in Fds \ {f}
  BY <1>1 DEF NodeInv, TypeOK, CallsOpen
<1>3. OnList' = OnList /\ \A x : NextOrNull(x)' = NextOrNull(x)
  BY <1>1 DEF OnList, NextOrNull, Place
<1>4. Stand'
  BY <1>1, <1>2, <1>3 DEF Stand
<1>5. ToReset' /\ StillThere'
  BY <1>1, <1>2 DEF ToReset, StillThere
<1>6. Formatted'
  BY <1>1, <1>2, <1>3 DEF Formatted
<1> QED
  BY <1>1, <1>4, <1>5, <1>6 DEF Holder

\* Nobody's cursor is on a node that is being written, and none is added while a
\* read is inside.
LEMMA CursorWriteInv ==
  ASSUME NodeInv, CursorInv, NEW t \in Tasks,
         WriteCopy(t) \/ WriteAdd(t) \/ \E f \in Fds : WriteAlloc(t, f)
  PROVE  CursorInv'
<1> USE DEF CursorInv
<1>1. /\ pc[t] \in {"idle", "copy", "add"}
      /\ \E where \in {"idle", "copy", "add"} : pc' = [pc EXCEPT ![t] = where]
      /\ \E x : fd' = [fd EXCEPT ![t] = x]
      /\ UNCHANGED <<lock, opened, pos, line, nxt, lost, crossed>>
  BY DEF WriteCopy, WriteAdd, WriteAlloc, Enter, Goto, Return, curVars, NodeInv, TypeOK
<1>2. \A u \in Tasks : /\ pc'[u] \notin {"idle", "copy", "add"} =>
                            u # t /\ pc'[u] = pc[u] /\ fd'[u] = fd[u]
                       /\ pc[u] \notin {"idle", "copy", "add"} =>
                            u # t /\ pc'[u] = pc[u] /\ fd'[u] = fd[u]
  BY <1>1 DEF NodeInv, TypeOK
<1>3. OnList \subseteq OnList'
  <2>1. CASE WriteAdd(t)
    <3>1. m[t] \in Nodes /\ list' = Append(list, m[t]) /\ list \in Seq(Nodes)
      BY <2>1 DEF WriteAdd, NodeInv, Apart, TypeOK, Writers
    <3> QED
      BY <3>1, Added
  <2>2. CASE UNCHANGED list
    BY <2>2 DEF OnList
  <2> QED
    BY <2>1, <2>2 DEF WriteCopy, WriteAlloc
<1>4. Holder' /\ ToReset' /\ StillThere'
  BY <1>1, <1>2 DEF Holder, ToReset, StillThere
<1>5. Stand'
  BY <1>1, <1>3 DEF Stand
<1>6. Formatted'
  <2>1. CASE WriteAdd(t)
    <3>1. \A u \in Tasks : pc[u] \notin {"next", "store"}
      BY <2>1, NoOneAssumption DEF WriteAdd, Holder
    <3> QED
      BY <1>2, <3>1 DEF Formatted
  <2>2. CASE ~ WriteAdd(t)
    <3>1. UNCHANGED list /\ OnList' = OnList /\ \A x : NextOrNull(x)' = NextOrNull(x)
      <4>1. UNCHANGED list
        BY <2>2 DEF WriteCopy, WriteAlloc
      <4> QED
        BY <4>1 DEF OnList, NextOrNull, Place
    <3>2. \A x \in OnList : body'[x] = body[x]
      <4>1. CASE UNCHANGED body
        BY <4>1
      <4>2. ASSUME pc[t] = "copy", body' = [body EXCEPT ![m[t]] = written']
            PROVE  \A x \in OnList : body'[x] = body[x]
        <5>1. m[t] \notin OnList /\ OnList \subseteq Nodes
          BY <4>2 DEF NodeInv, Apart, Writers, TypeOK, OnList
        <5> QED
          BY <4>2, <5>1 DEF NodeInv, TypeOK
      <4> QED
        BY <2>2, <4>1, <4>2 DEF WriteCopy, WriteAlloc
    <3> QED
      BY <1>1, <1>2, <3>1, <3>2 DEF Formatted
  <2> QED
    BY <2>1, <2>2
<1> QED
  BY <1>4, <1>5, <1>6

\* A read or a clear enters on a file, a read only with a cursor.
LEMMA CursorEnterInv ==
  ASSUME NodeInv, CursorInv, NEW t \in Tasks, NEW f \in Fds,
         ReadCheck(t, f) \/ ClearEnter(t, f)
  PROVE  CursorInv'
<1> USE DEF CursorInv
<1>1. /\ fd' = [fd EXCEPT ![t] = f]
      /\ \/ pc' = [pc EXCEPT ![t] = "lock"] /\ pos[f] # NULL
         \/ pc' = [pc EXCEPT ![t] = "clear"]
      /\ UNCHANGED <<list, body, lock, opened, pos, line, nxt, lost, crossed>>
  BY DEF ReadCheck, ClearEnter, Enter, listVars, curVars
<1>2. /\ fd'[t] = f
      /\ (pc'[t] = "lock" /\ pos[f] # NULL) \/ pc'[t] = "clear"
      /\ \A u \in Tasks \ {t} : pc'[u] = pc[u] /\ fd'[u] = fd[u]
  BY <1>1 DEF NodeInv, TypeOK
<1>3. Holder' /\ ToReset' /\ StillThere'
  BY <1>1, <1>2 DEF Holder, ToReset, StillThere
<1>4. OnList' = OnList /\ \A x : NextOrNull(x)' = NextOrNull(x)
  BY <1>1 DEF OnList, NextOrNull, Place
<1>5. Formatted'
  BY <1>1, <1>2, <1>4 DEF Formatted
<1> QED
  BY <1>1, <1>3, <1>4, <1>5 DEF Stand

\* A read takes the mutex, formats the line of the node its cursor is at, and
\* finds the next; or it dies inside.
LEMMA CursorLookInv ==
  ASSUME NodeInv, CursorInv, NEW t \in Tasks,
         ReadLock(t) \/ ReadFormat(t) \/ ReadNext(t) \/ ReadOops(t)
  PROVE  CursorInv'
<1> USE DEF CursorInv
<1>1. /\ pc[t] \in {"lock", "format", "next"}
      /\ UNCHANGED <<list, body, opened, pos, lost>> /\ lock' = t
      /\ \A u \in Tasks \ {t} : /\ pc'[u] = pc[u] /\ line'[u] = line[u] /\ nxt'[u] = nxt[u]
                                /\ fd'[u] = fd[u] /\ (u \in crossed <=> u \in crossed')
      /\ pc'[t] \in {"format", "next", "store", "dead"}
      /\ pc'[t] \in {"format", "next", "store"} => fd'[t] = fd[t]
      /\ pc'[t] \in {"format", "next"} => (t \in crossed <=> t \in crossed')
  <2>1. CASE ReadLock(t)
    BY <2>1 DEF ReadLock, Goto, listVars, curVars, NodeInv, TypeOK
  <2>2. CASE ReadFormat(t) \/ ReadNext(t)
    BY <2>2 DEF ReadFormat, ReadNext, Goto, listVars, curVars, NodeInv, TypeOK, Holder
  <2>3. CASE ReadOops(t)
    BY <2>3 DEF ReadOops, listVars, curVars, NodeInv, TypeOK, Holder
  <2> QED
    BY <2>1, <2>2, <2>3
<1>2. \A u \in Tasks \ {t} : pc[u] \notin {"format", "next", "store", "dead"}
  BY NoOneAssumption DEF ReadLock, ReadFormat, ReadNext, ReadOops, Holder
<1>3. OnList' = OnList /\ \A x : NextOrNull(x)' = NextOrNull(x)
  BY <1>1 DEF OnList, NextOrNull, Place
<1>4. Holder' /\ ToReset' /\ Stand'
  BY <1>1, <1>2, <1>3 DEF Holder, ToReset, Stand
<1>5. StillThere'
  BY <1>1 DEF StillThere
<1>6. ASSUME pc'[t] \in {"next", "store"}, fd[t] \notin lost
      PROVE  /\ pos[fd[t]] \in OnList /\ line'[t] = body[pos[fd[t]]]
             /\ pc'[t] = "store" => nxt'[t] = NextOrNull(pos[fd[t]])
  <2>1. CASE ReadFormat(t)
    <3>1. pc'[t] = "next" /\ line'[t] = body[pos[fd[t]]] /\ pos[fd[t]] \in Nodes
      BY <2>1 DEF ReadFormat, Goto, NodeInv, TypeOK
    <3>2. fd[t] \in Fds \ lost
      BY <1>1, <1>6 DEF NodeInv, TypeOK, CallsOpen
    <3> QED
      BY <3>1, <3>2, NullAssumption DEF Stand
  <2>2. CASE ReadNext(t)
    <3>1. pos[fd[t]] \in OnList /\ line[t] = body[pos[fd[t]]] /\ UNCHANGED line
      BY <1>6, <2>2 DEF ReadNext, Formatted
    <3>2. nxt'[t] = NextOrNull(pos[fd[t]])
      BY <2>2, <3>1 DEF ReadNext, NodeInv, TypeOK
    <3> QED
      BY <3>1, <3>2
  <2>3. CASE ReadLock(t) \/ ReadOops(t)
    BY <1>6, <2>3 DEF ReadLock, ReadOops, Goto, NodeInv, TypeOK
  <2> QED
    BY <2>1, <2>2, <2>3
<1>7. Formatted'
  BY <1>1, <1>2, <1>3, <1>6 DEF Formatted
<1> QED
  BY <1>4, <1>5, <1>7

\* The end of a read moves the cursor of its file: other reads that wait there are
\* crossed.
LEMMA CursorStoreInv ==
  ASSUME NodeInv, CursorInv, NEW t \in Tasks, ReadStore(t)
  PROVE  CursorInv'
<1> USE DEF CursorInv
<1> DEFINE f == fd[t]
<1>1. /\ pc[t] = "store" /\ f \in Fds /\ f \in opened
      /\ pos'[f] = nxt[t] /\ \A g \in Fds \ {f} : pos'[g] = pos[g]
      /\ crossed' = (crossed \cup OtherReads(t)) \ {t}
      /\ UNCHANGED <<list, body, opened, lost>>
      /\ pc'[t] = "idle"
      /\ \A u \in Tasks \ {t} : pc'[u] = pc[u] /\ fd'[u] = fd[u]
  BY DEF ReadStore, Return, listVars, NodeInv, TypeOK, CallsOpen
<1>2. \A u \in Tasks \ {t} : pc[u] \notin {"format", "next", "store", "dead"}
  BY <1>1 DEF Holder
<1>3. OnList' = OnList
  BY <1>1 DEF OnList
<1>4. f \notin lost => /\ pos[f] \in OnList /\ pos[f] # NULL
                       /\ pos'[f] = NULL \/ pos'[f] \in OnList
  <2> SUFFICES ASSUME f \notin lost
               PROVE  /\ pos[f] \in OnList /\ pos[f] # NULL
                      /\ pos'[f] = NULL \/ pos'[f] \in OnList
    OBVIOUS
  <2>1. pos[f] \in OnList /\ nxt[t] = NextOrNull(pos[f])
    BY <1>1 DEF Formatted
  <2>2. NextOrNull(pos[f]) = NULL \/ NextOrNull(pos[f]) \in OnList
    BY <2>1, NextIs DEF NodeInv
  <2> QED
    BY <1>1, <2>1, <2>2, NullOffList
<1>5. Holder' /\ Formatted'
  BY <1>1, <1>2 DEF Holder, Formatted
<1>6. Stand'
  <2> SUFFICES ASSUME NEW g \in Fds \ lost, pos'[g] # NULL
               PROVE  g \in opened /\ pos'[g] \in OnList
    BY <1>1, <1>3 DEF Stand
  <2>1. CASE g = f
    BY <1>1, <1>4, <2>1
  <2>2. CASE g # f
    BY <1>1, <2>2 DEF Stand
  <2> QED
    BY <2>1, <2>2
<1>7. ToReset'
  <2> SUFFICES ASSUME NEW u \in Tasks, pc'[u] = "reset"
               PROVE  fd'[u] \in lost \/ pos'[fd'[u]] = NULL
    BY <1>1 DEF ToReset
  <2>1. u # t /\ pc[u] = "reset" /\ fd'[u] = fd[u] /\ fd[u] \in Fds
    BY <1>1 DEF NodeInv, TypeOK, CallsOpen
  <2> QED
    BY <1>1, <1>4, <2>1 DEF ToReset
<1>8. StillThere'
  <2> SUFFICES ASSUME NEW u \in Tasks, pc'[u] \in {"lock", "format", "next"}, u \notin crossed'
               PROVE  fd'[u] \in lost \/ pos'[fd'[u]] # NULL
    BY <1>1 DEF StillThere
  <2>1. u # t /\ pc[u] = pc'[u] /\ fd'[u] = fd[u] /\ fd[u] \in Fds
    BY <1>1 DEF NodeInv, TypeOK, CallsOpen
  <2>2. fd[u] # f /\ u \notin crossed
    BY <1>1, <2>1 DEF OtherReads
  <2> QED
    BY <1>1, <2>1, <2>2 DEF StillThere
<1> QED
  BY <1>5, <1>6, <1>7, <1>8

\* The end of a clear resets the cursor of its file, which was lost or at the end.
LEMMA CursorResetInv ==
  ASSUME NodeInv, CursorInv, NEW t \in Tasks, ClearReset(t)
  PROVE  CursorInv'
<1> USE DEF CursorInv
<1> DEFINE f == fd[t]
<1>1. /\ pc[t] = "reset" /\ f \in Fds /\ f \in opened
      /\ pos'[f] = NULL /\ \A g \in Fds \ {f} : pos'[g] = pos[g]
      /\ UNCHANGED <<list, body, opened, lock, line, nxt, crossed>>
      /\ lost' \subseteq lost /\ lost \ {f} \subseteq lost'
      /\ OtherReads(t) # {} => lost' = lost
      /\ pc'[t] = "idle"
      /\ \A u \in Tasks \ {t} : pc'[u] = pc[u] /\ fd'[u] = fd[u]
  BY DEF ClearReset, Reset, Return, listVars, NodeInv, TypeOK, CallsOpen
<1>2. f \in lost \/ pos[f] = NULL
  BY <1>1 DEF ToReset
<1>3. OnList' = OnList /\ \A x : NextOrNull(x)' = NextOrNull(x)
  BY <1>1 DEF OnList, NextOrNull, Place
<1>4. Holder' /\ ToReset'
  <2>1. Holder'
    BY <1>1 DEF Holder
  <2>2. ASSUME NEW u \in Tasks, pc'[u] = "reset"
        PROVE  fd'[u] \in lost' \/ pos'[fd'[u]] = NULL
    <3>1. u # t /\ pc[u] = "reset" /\ fd'[u] = fd[u] /\ fd[u] \in Fds
      BY <1>1, <2>2 DEF NodeInv, TypeOK, CallsOpen
    <3> QED
      BY <1>1, <3>1 DEF ToReset
  <2> QED
    BY <2>1, <2>2 DEF ToReset
<1>5. Stand'
  <2> SUFFICES ASSUME NEW g \in Fds \ lost', pos'[g] # NULL
               PROVE  g \in opened /\ pos'[g] \in OnList
    BY <1>1, <1>3 DEF Stand
  <2>1. g # f /\ g \notin lost /\ pos'[g] = pos[g]
    BY <1>1
  <2> QED
    BY <2>1 DEF Stand
<1>6. \A u \in Tasks : pc'[u] \in {"lock", "format", "next", "store"} =>
        /\ u # t /\ pc[u] = pc'[u] /\ fd'[u] = fd[u] /\ fd[u] \in Fds
        /\ fd[u] = f => lost' = lost
        /\ fd[u] \in lost' <=> fd[u] \in lost
        /\ fd[u] # f => pos'[fd[u]] = pos[fd[u]]
  <2> SUFFICES ASSUME NEW u \in Tasks, pc'[u] \in {"lock", "format", "next", "store"}
               PROVE  /\ u # t /\ pc[u] = pc'[u] /\ fd'[u] = fd[u] /\ fd[u] \in Fds
                      /\ fd[u] = f => lost' = lost
                      /\ fd[u] \in lost' <=> fd[u] \in lost
                      /\ fd[u] # f => pos'[fd[u]] = pos[fd[u]]
    OBVIOUS
  <2>1. u # t /\ pc[u] = pc'[u] /\ fd'[u] = fd[u] /\ fd[u] \in Fds
    BY <1>1 DEF NodeInv, TypeOK, CallsOpen
  <2>2. fd[u] = f => u \in OtherReads(t)
    BY <2>1 DEF OtherReads
  <2> QED
    BY <1>1, <2>1, <2>2
<1>7. StillThere'
  BY <1>1, <1>2, <1>6 DEF StillThere
<1>8. Formatted'
  <2> SUFFICES ASSUME NEW u \in Tasks, pc'[u] \in {"next", "store"}, fd'[u] \notin lost'
               PROVE  /\ pos'[fd'[u]] \in OnList /\ line[u] = body[pos'[fd'[u]]]
                      /\ pc'[u] = "store" => nxt[u] = NextOrNull(pos'[fd'[u]])
    BY <1>1, <1>3 DEF Formatted
  <2>1. /\ pc[u] = pc'[u] /\ fd'[u] = fd[u] /\ fd[u] \notin lost
        /\ fd[u] # f => pos'[fd[u]] = pos[fd[u]]
    BY <1>6
  <2>2. /\ pos[fd[u]] \in OnList /\ line[u] = body[pos[fd[u]]]
        /\ pc[u] = "store" => nxt[u] = NextOrNull(pos[fd[u]])
    BY <2>1 DEF Formatted
  <2>3. fd[u] # f
    BY <1>2, <2>1, <2>2, NullOffList
  <2> QED
    BY <2>1, <2>2, <2>3
<1> QED
  BY <1>4, <1>5, <1>7, <1>8

\* CLEAR frees the nodes under the cursors: those files are lost.
LEMMA CursorClearInv ==
  ASSUME NodeInv, CursorInv, NEW t \in Tasks, ClearFree(t)
  PROVE  CursorInv'
<1> USE DEF CursorInv
<1>1. /\ pc[t] = "clear" /\ lock = NoOne /\ lost' = lost \cup Cut
      /\ pc'[t] = "reset" /\ \A u \in Tasks \ {t} : pc'[u] = pc[u]
      /\ UNCHANGED <<lock, opened, pos, fd, line, nxt, crossed>>
  BY DEF ClearFree, Goto, NodeInv, TypeOK
<1>2. \A u \in Tasks : pc[u] \notin {"format", "next", "store", "dead"}
  BY <1>1, NoOneAssumption DEF Holder
<1>3. \A f \in Fds \ lost' : pos[f] = NULL
  BY <1>1 DEF Stand, Cut
<1>4. Holder' /\ Stand' /\ StillThere' /\ Formatted'
  BY <1>1, <1>2, <1>3 DEF Holder, Stand, StillThere, Formatted
<1>5. ToReset'
  <2>1. \A u \in Tasks : pc'[u] = "reset" => fd[u] \in Fds
    BY <1>1 DEF NodeInv, TypeOK, CallsOpen
  <2> QED
    BY <1>1, <1>3, <2>1 DEF ToReset
<1> QED
  BY <1>4, <1>5

\* The module comes and goes only with no file open.
LEMMA CursorModuleInv ==
  ASSUME NodeInv, CursorInv, lm_init \/ Rmmod \/ ExitFree \/ ExitDeregister
  PROVE  CursorInv'
<1> USE DEF CursorInv
<1>1. /\ opened = {} /\ UNCHANGED <<pc, fd, pos, opened, lost, lock>>
  BY DEF lm_init, Rmmod, ExitFree, ExitDeregister, taskVars, curVars, listVars, NodeInv, Counted
<1>2. \A t \in Tasks : pc[t] \in {"idle", "dead"}
  BY <1>1 DEF NodeInv, CallsOpen
<1> QED
  BY <1>1, <1>2 DEF Holder, Stand, ToReset, StillThere, Formatted

\* A stutter.
LEMMA CursorSame == CursorInv /\ UNCHANGED vars => CursorInv'
<1> SUFFICES ASSUME CursorInv, UNCHANGED vars PROVE CursorInv'
  OBVIOUS
<1> USE DEF CursorInv, vars, listVars, curVars, taskVars
<1>1. OnList' = OnList /\ \A x : NextOrNull(x)' = NextOrNull(x)
  BY DEF OnList, NextOrNull, Place
<1> QED
  BY <1>1 DEF Holder, Stand, ToReset, StillThere, Formatted

\* Every step keeps the cursors.
LEMMA CursorStep ==
  ASSUME NodeInv, CursorInv, [Next]_vars
  PROVE  CursorInv'
<1>1. ASSUME NEW t \in Tasks, Inside(t) PROVE CursorInv'
  BY <1>1, CursorWriteInv, CursorLookInv, CursorStoreInv, CursorResetInv, CursorClearInv
  DEF Inside
<1>2. ASSUME NEW t \in Tasks, NEW f \in Fds, Call(t, f) PROVE CursorInv'
  BY <1>2, CursorWriteInv, CursorEnterInv DEF Call
<1>3. ASSUME NEW f \in Fds, lm_open(f) \/ lm_release(f) PROVE CursorInv'
  BY <1>3, CursorOpenInv, CursorCloseInv
<1>4. CASE lm_init \/ Rmmod \/ ExitFree \/ ExitDeregister
  BY <1>4, CursorModuleInv
<1> QED
  BY <1>1, <1>2, <1>3, <1>4, CursorSame DEF Next

\* What a file's cursor points at stays on the list until its reader has moved on
\* (listmsg.c:67-106), or until a CLEAR cuts its walk short (:126-137).
THEOREM CursorInvariant == Spec => []CursorInv
BY CursorInitInv, CursorStep, NodeInvariant, PTL DEF Spec, SafeSpec

\* A read that has the mutex stands on a node of the list, though its cursor was
\* looked at before it waited (listmsg.c:75-84), unless a CLEAR cut the walk of its
\* file short or another read on the same file came first.
THEOREM CursorLiveCorrect == Spec => []CursorLive
<1>1. NodeInv /\ CursorInv => CursorLive
  BY OnTheList DEF CursorLive
<1> QED
  BY <1>1, NodeInvariant, CursorInvariant, PTL

------------------------------------------------------------------------------
(* The log *)

\* The log that the list stands for, and the reading position of each file.
TheLog == [k \in 1 .. Len(list) |-> body[list[k]]]
Nowhere(f) == pos[f] = NULL \/ f \in lost
At == [f \in Fds |-> IF Nowhere(f) THEN 0 ELSE Place(pos[f])]

LogRight == /\ TheLog \in Seq(Ids) /\ Len(TheLog) = Len(list)
            /\ \A k \in 1 .. Len(list) : TheLog[k] = body[list[k]]
AtRight == \A f \in Fds :
             /\ Nowhere(f) => At[f] = 0
             /\ ~ Nowhere(f) => At[f] \in 1 .. Len(list) /\ list[At[f]] = pos[f]

Good == NodeInv /\ CursorInv /\ LogRight /\ AtRight

\* The list spells a log.
LEMMA LogIsRight == NodeInv => LogRight
<1> SUFFICES ASSUME NodeInv PROVE LogRight
  OBVIOUS
<1>1. Len(list) \in Nat /\ \A k \in 1 .. Len(list) : body[list[k]] \in Ids
  BY DEF NodeInv, TypeOK, Written
<1>2. TheLog \in Seq(Ids) /\ Len(TheLog) = Len(list)
  BY <1>1, IsASeq DEF TheLog
<1> QED
  BY <1>2 DEF LogRight, TheLog

\* A cursor is a place in it.
LEMMA AtIsRight == NodeInv /\ CursorInv => AtRight
<1> SUFFICES ASSUME NodeInv, CursorInv, NEW f \in Fds
             PROVE  /\ Nowhere(f) => At[f] = 0
                    /\ ~ Nowhere(f) => At[f] \in 1 .. Len(list) /\ list[At[f]] = pos[f]
  BY DEF AtRight
<1>1. ~ Nowhere(f) => pos[f] \in OnList
  BY DEF Nowhere, CursorInv, Stand
<1> QED
  BY <1>1, PlaceOf DEF At

\* The same nodes with the same messages are the same log.
LEMMA LogKept ==
  ASSUME Good, Good', list' = list, \A x \in OnList : body'[x] = body[x]
  PROVE  TheLog' = TheLog
<1>1. \A k \in 1 .. Len(list) : list[k] \in OnList
  BY DEF OnList
<1>2. \A k \in 1 .. Len(list) : TheLog'[k] = TheLog[k]
  BY <1>1 DEF Good, LogRight
<1>3. /\ TheLog \in Seq(Ids) /\ TheLog' \in Seq(Ids)
      /\ Len(TheLog) = Len(list) /\ Len(TheLog') = Len(list)
  BY DEF Good, LogRight
<1> QED
  BY <1>2, <1>3, SeqEqual

\* A cursor that stays on a node that stays where it is stays where it is.
LEMMA AtKept ==
  ASSUME Good, Good', NEW f \in Fds, Nowhere(f)' <=> Nowhere(f),
         ~ Nowhere(f) => /\ pos'[f] = pos[f]
                         /\ Len(list') >= Len(list)
                         /\ \A k \in 1 .. Len(list) : list'[k] = list[k]
  PROVE  At'[f] = At[f]
<1>1. CASE Nowhere(f)
  BY <1>1 DEF Good, AtRight
<1>2. CASE ~ Nowhere(f)
  <2>1. At[f] \in 1 .. Len(list) /\ list[At[f]] = pos[f]
    BY <1>2 DEF Good, AtRight
  <2>2. At'[f] \in 1 .. Len(list') /\ list'[At'[f]] = pos[f]
    BY <1>2 DEF Good, AtRight
  <2>3. /\ Len(list) \in Nat /\ Len(list') \in Nat
        /\ \A i, j \in 1 .. Len(list') : list'[i] = list'[j] => i = j
    BY DEF Good, NodeInv, TypeOK, Injective
  <2>4. At[f] \in 1 .. Len(list') /\ list'[At[f]] = pos[f]
    BY <1>2, <2>1, <2>3
  <2> QED
    BY <2>2, <2>3, <2>4
<1> QED
  BY <1>1, <1>2

\* Two functions on the files that agree are one.
LEMMA AllAtKept ==
  ASSUME \A f \in Fds : At'[f] = At[f]
  PROVE  At' = At
BY DEF At

\* The steps that nobody sees in the log.
LEMMA Unseen ==
  ASSUME Good, Good', UNCHANGED <<list, opened, got>>,
         \A x \in OnList : body'[x] = body[x],
         \A f \in Fds : /\ Nowhere(f)' <=> Nowhere(f)
                        /\ ~ Nowhere(f) => pos'[f] = pos[f]
  PROVE  UNCHANGED Log!lvars
<1>1. Len(list) \in Nat
  BY DEF Good, NodeInv, TypeOK
<1>2. TheLog' = TheLog /\ At' = At
  BY <1>1, LogKept, AtKept, AllAtKept
<1> QED
  BY <1>2 DEF Log!lvars, TheLog, At, Nowhere

\* The empty list is the empty log.
LEMMA InitIsLog == Init => Log!LInit
<1> SUFFICES ASSUME Init PROVE Log!LInit
  OBVIOUS
<1>1. list = <<>> /\ opened = {} /\ got = [f \in Fds |-> <<>>]
      /\ \A f \in Fds : pos[f] = NULL
  BY DEF Init
<1>2. TheLog = <<>>
  BY <1>1 DEF TheLog
<1>3. At = [f \in Fds |-> 0]
  BY <1>1 DEF At, Nowhere
<1> QED
  BY <1>1, <1>2, <1>3 DEF Log!LInit, TheLog, At, Nowhere

\* lm_write's list_add_tail adds to the log.
LEMMA AddIsAppend ==
  ASSUME Good, Good', NEW t \in Tasks, WriteAdd(t)
  PROVE  \E id \in Ids : Log!LAppend(id)
<1>1. /\ pc[t] = "add" /\ list' = Append(list, m[t]) /\ m[t] \in Nodes
      /\ list \in Seq(Nodes) /\ body[m[t]] \in Ids
      /\ pc' = [pc EXCEPT ![t] = "idle"]
      /\ UNCHANGED <<body, opened, pos, got, lost>>
  BY DEF WriteAdd, Return, curVars, Good, NodeInv, Apart, Writers, Written, TypeOK
<1>2. /\ Len(list') = Len(list) + 1 /\ Len(list) \in Nat
      /\ \A k \in 1 .. Len(list) : list'[k] = list[k]
      /\ list'[Len(list) + 1] = m[t]
  BY <1>1, Added
<1>3. TheLog' = Append(TheLog, body[m[t]])
  <2> DEFINE new == Append(TheLog, body[m[t]])
  <2>1. /\ TheLog \in Seq(Ids) /\ Len(TheLog) = Len(list)
        /\ \A k \in 1 .. Len(list) : TheLog[k] = body[list[k]]
    BY DEF Good, LogRight
  <2>2. /\ TheLog' \in Seq(Ids) /\ Len(TheLog') = Len(list')
        /\ \A k \in 1 .. Len(list') : TheLog'[k] = body[list'[k]]
    BY <1>1 DEF Good, LogRight
  <2>3. /\ new \in Seq(Ids) /\ Len(new) = Len(list) + 1
        /\ \A k \in 1 .. Len(list) : new[k] = TheLog[k]
        /\ new[Len(list) + 1] = body[m[t]]
    BY <1>1, <2>1, AppendProperties
  <2> HIDE DEF new
  <2>4. \A k \in 1 .. Len(list') : TheLog'[k] = new[k]
    BY <1>2, <2>1, <2>2, <2>3
  <2>5. TheLog' = new
    BY <1>2, <2>2, <2>3, <2>4, SeqEqual
  <2> QED
    BY <2>5 DEF new
<1>4. At' = At
  <2>1. \A f \in Fds : Nowhere(f)' <=> Nowhere(f)
    BY <1>1 DEF Nowhere
  <2> QED
    BY <1>1, <1>2, <2>1, AtKept, AllAtKept
<1>5. ASSUME NEW id, id = body[m[t]] PROVE Log!LAppend(id)
  BY <1>1, <1>3, <1>4, <1>5 DEF Log!LAppend, TheLog, At, Nowhere
<1> QED
  BY <1>1, <1>5

\* misc_open's cursor is at the first message.
LEMMA OpenIsOpen ==
  ASSUME Good, Good', NEW f \in Fds, lm_open(f)
  PROVE  Log!LOpen(f)
<1>1. /\ f \notin opened /\ opened' = opened \cup {f}
      /\ pos' = [pos EXCEPT ![f] = FirstOrNull] /\ got' = [got EXCEPT ![f] = <<>>]
      /\ UNCHANGED <<list, body, lost>>
  BY DEF lm_open, listVars, taskVars
<1>2. Len(list) \in Nat /\ TheLog' = TheLog
  BY <1>1, LogKept DEF Good, NodeInv, TypeOK
<1>3. f \notin lost
  BY <1>1 DEF Good, NodeInv, TypeOK
<1>4. ASSUME NEW g \in Fds, g # f PROVE At'[g] = At[g]
  <2>1. pos'[g] = pos[g]
    BY <1>1, <1>4 DEF Good, NodeInv, TypeOK
  <2> QED
    BY <1>1, <1>2, <2>1, AtKept DEF Nowhere
<1>5. TheLog = <<>> <=> list = <<>>
  <2>1. list \in Seq(Nodes) /\ TheLog \in Seq(Ids) /\ Len(TheLog) = Len(list)
    BY DEF Good, LogRight, NodeInv, TypeOK
  <2> QED
    BY <2>1
<1>6. At'[f] = IF TheLog = <<>> THEN 0 ELSE 1
  <2>1. pos'[f] = FirstOrNull /\ f \notin lost'
    BY <1>1, <1>3 DEF Good, NodeInv, TypeOK
  <2>2. CASE list = <<>>
    BY <1>5, <2>1, <2>2 DEF FirstOrNull, Nowhere, Good, AtRight
  <2>3. CASE list # <<>>
    <3>1. 1 \in 1 .. Len(list) /\ list[1] \in Nodes /\ pos'[f] = list[1]
      BY <1>2, <2>1, <2>3 DEF FirstOrNull, Good, NodeInv, TypeOK
    <3>2. ~ Nowhere(f)'
      BY <2>1, <3>1, NullAssumption DEF Nowhere
    <3>3. At'[f] \in 1 .. Len(list) /\ list[At'[f]] = list[1]
      BY <1>1, <3>1, <3>2 DEF Good, AtRight
    <3>4. At'[f] = 1
      BY <3>1, <3>3 DEF Good, NodeInv, Injective
    <3> QED
      BY <1>5, <2>3, <3>4
  <2> QED
    BY <2>2, <2>3
<1>7. At' = [At EXCEPT ![f] = IF TheLog = <<>> THEN 0 ELSE 1]
  BY <1>4, <1>6 DEF At
<1> QED
  BY <1>1, <1>2, <1>7 DEF Log!LOpen, TheLog, At, Nowhere

\* The end of a read is the read: the file gets the message at its position.
LEMMA StoreIsRead ==
  ASSUME Good, Good', NEW t \in Tasks, ReadStore(t), fd[t] \notin lost
  PROVE  \E g \in Fds : Log!LRead(g)
<1> DEFINE f == fd[t]
<1>1. /\ pc[t] = "store" /\ f \in Fds /\ f \in opened /\ f \notin lost
      /\ pos' = [pos EXCEPT ![f] = nxt[t]]
      /\ got' = [got EXCEPT ![f] = Append(got[f], line[t])]
      /\ UNCHANGED <<list, body, opened, lost>>
  BY DEF ReadStore, Return, listVars, Good, NodeInv, TypeOK, CallsOpen
<1>2. /\ pos[f] \in OnList /\ line[t] = body[pos[f]] /\ nxt[t] = NextOrNull(pos[f])
  BY <1>1 DEF Good, CursorInv, Formatted
<1>3. TheLog' = TheLog /\ Len(TheLog) = Len(list) /\ Len(list) \in Nat
  <2>1. TheLog' = TheLog
    BY <1>1, LogKept
  <2> QED
    BY <2>1 DEF Good, LogRight, NodeInv, TypeOK
<1>6. /\ At[f] \in 1 .. Len(list) /\ list[At[f]] = pos[f] /\ Place(pos[f]) = At[f]
  <2>1. pos[f] # NULL
    BY <1>2, NullOffList DEF Good
  <2>2. At[f] \in 1 .. Len(list) /\ list[At[f]] = pos[f]
    BY <1>1, <2>1 DEF Nowhere, Good, AtRight
  <2> QED
    BY <1>1, <2>1, <2>2 DEF At, Nowhere
<1>7. line[t] = TheLog[At[f]]
  BY <1>2, <1>6 DEF Good, LogRight
<1>8. At'[f] = IF At[f] = Len(TheLog) THEN 0 ELSE At[f] + 1
  <2>1. pos'[f] = NextOrNull(pos[f])
    BY <1>1, <1>2 DEF Good, NodeInv, TypeOK
  <2>2. CASE At[f] = Len(list)
    <3>1. pos'[f] = NULL
      BY <1>2, <1>6, <2>1, <2>2, NextIs DEF Good, NodeInv
    <3> QED
      BY <1>1, <1>3, <2>2, <3>1 DEF Nowhere, Good, AtRight
  <2>3. CASE At[f] # Len(list)
    <3>1. /\ pos'[f] \in OnList /\ pos'[f] # NULL /\ Place(pos'[f]) = At[f] + 1
      BY <1>2, <1>6, <2>1, <2>3, NextIs DEF Good, NodeInv
    <3>2. At[f] + 1 \in 1 .. Len(list) /\ list[At[f] + 1] = pos'[f]
      BY <3>1, PlaceOf
    <3>3. At'[f] \in 1 .. Len(list) /\ list[At'[f]] = pos'[f]
      BY <1>1, <3>1 DEF Nowhere, Good, AtRight
    <3>4. At'[f] = At[f] + 1
      BY <3>2, <3>3 DEF Good, NodeInv, Injective
    <3> QED
      BY <1>3, <2>3, <3>4
  <2> QED
    BY <2>2, <2>3
<1>9. ASSUME NEW g \in Fds, g # f PROVE At'[g] = At[g]
  <2>1. pos'[g] = pos[g]
    BY <1>1, <1>9 DEF Good, NodeInv, TypeOK
  <2> QED
    BY <1>1, <1>3, <2>1, AtKept DEF Nowhere
<1>10. At' = [At EXCEPT ![f] = IF At[f] = Len(TheLog) THEN 0 ELSE At[f] + 1]
  BY <1>8, <1>9 DEF At
<1>11. got' = [got EXCEPT ![f] = Append(got[f], TheLog[At[f]])] /\ At[f] # 0
  BY <1>1, <1>6, <1>7
<1>12. ASSUME NEW g, g = f PROVE Log!LRead(g)
  BY <1>1, <1>2, <1>3, <1>10, <1>11, <1>12 DEF Log!LRead, TheLog, At, Nowhere
<1> QED
  BY <1>1, <1>12

\* CLEAR and lm_exit end every walk.
LEMMA EmptiedIsClear ==
  ASSUME Good, Good', list' = <<>>, UNCHANGED opened,
         got' = [f \in Fds |-> IF Nowhere(f) THEN got[f] ELSE <<>>],
         \A f \in Fds : Nowhere(f)'
  PROVE  Log!LClear
<1>1. TheLog' = <<>>
  <2>1. TheLog' \in Seq(Ids) /\ Len(TheLog') = 0
    BY DEF Good, LogRight
  <2> QED
    BY <2>1
<1>2. At' = [f \in Fds |-> 0]
  BY DEF At
<1>3. \A f \in Fds : At[f] # 0 <=> ~ Nowhere(f)
  BY DEF Good, AtRight
<1>4. got' = [f \in Fds |-> IF At[f] # 0 THEN <<>> ELSE got[f]]
  BY <1>3
<1> QED
  BY <1>1, <1>2, <1>4 DEF Log!LClear, TheLog, At, Nowhere

\* The last close of a file is the log's close.
LEMMA ReleaseIsClose ==
  ASSUME Good, Good', NEW f \in Fds, lm_release(f)
  PROVE  Log!LClose(f)
<1>1. /\ f \in opened /\ opened' = opened \ {f} /\ lost' = lost \ {f}
      /\ pos' = [pos EXCEPT ![f] = NULL] /\ got' = [got EXCEPT ![f] = <<>>]
      /\ UNCHANGED <<list, body>>
  BY DEF lm_release, listVars
<1>2. Len(list) \in Nat /\ TheLog' = TheLog
  BY <1>1, LogKept DEF Good, NodeInv, TypeOK
<1>3. ASSUME NEW g \in Fds, g # f PROVE At'[g] = At[g]
  <2>1. pos'[g] = pos[g] /\ (Nowhere(g)' <=> Nowhere(g))
    BY <1>1, <1>3 DEF Nowhere, Good, NodeInv, TypeOK
  <2> QED
    BY <1>1, <1>2, <2>1, AtKept
<1>4. At'[f] = 0
  BY <1>1 DEF Nowhere, Good, AtRight, NodeInv, TypeOK
<1>5. At' = [At EXCEPT ![f] = 0]
  BY <1>3, <1>4 DEF At
<1> QED
  BY <1>1, <1>2, <1>5 DEF Log!LClose, TheLog, At, Nowhere

\* The other steps of a call, and the reads of a lost file: the log is as it was.
LEMMA InsideUnseen ==
  ASSUME Good, Good', NEW t \in Tasks,
         \/ WriteCopy(t) \/ ReadLock(t) \/ ReadFormat(t) \/ ReadNext(t) \/ ReadOops(t)
         \/ ReadStore(t) /\ fd[t] \in lost
         \/ ClearReset(t)
         \/ \E f \in Fds : Call(t, f)
  PROVE  UNCHANGED Log!lvars
<1>1. UNCHANGED <<list, opened, got>>
  BY DEF WriteCopy, ReadLock, ReadFormat, ReadNext, ReadOops, ReadStore, ClearReset, Call,
     WriteAlloc, ReadCheck, ClearEnter, listVars, curVars, Good, NodeInv, TypeOK
<1>2. \A x \in OnList : body'[x] = body[x]
  <2>1. CASE WriteCopy(t)
    <3>1. m[t] \notin OnList /\ OnList \subseteq Nodes
      BY <2>1 DEF WriteCopy, Good, NodeInv, Apart, Writers, TypeOK, OnList
    <3>2. body' = body \/ body' = [body EXCEPT ![m[t]] = written']
      BY <2>1 DEF WriteCopy
    <3> QED
      BY <3>1, <3>2 DEF Good, NodeInv, TypeOK
  <2>2. CASE UNCHANGED body
    BY <2>2
  <2> QED
    BY <2>1, <2>2 DEF ReadLock, ReadFormat, ReadNext, ReadOops, ReadStore, ClearReset, Call,
       WriteAlloc, ReadCheck, ClearEnter, listVars
<1>3. CASE ClearReset(t)
  <2> DEFINE f == fd[t]
  <2>1. /\ f \in Fds /\ pos'[f] = NULL /\ Nowhere(f)
        /\ \A g \in Fds \ {f} : pos'[g] = pos[g] /\ (g \in lost' <=> g \in lost)
    BY <1>3 DEF ClearReset, Reset, Nowhere, Good, CursorInv, ToReset, NodeInv, TypeOK, CallsOpen
  <2>2. \A g \in Fds : /\ Nowhere(g)' <=> Nowhere(g)
                       /\ ~ Nowhere(g) => pos'[g] = pos[g]
    BY <2>1 DEF Nowhere
  <2> QED
    BY <1>1, <1>2, <2>2, Unseen
<1>4. CASE ReadStore(t) /\ fd[t] \in lost
  <2>1. /\ UNCHANGED lost /\ \A g \in Fds \ {fd[t]} : pos'[g] = pos[g]
    BY <1>4 DEF ReadStore, Good, NodeInv, TypeOK
  <2>2. \A g \in Fds : /\ Nowhere(g)' <=> Nowhere(g)
                       /\ ~ Nowhere(g) => pos'[g] = pos[g]
    BY <1>4, <2>1 DEF Nowhere
  <2> QED
    BY <1>1, <1>2, <2>2, Unseen
<1>5. CASE UNCHANGED <<pos, lost>>
  BY <1>1, <1>2, <1>5, Unseen DEF Nowhere
<1> QED
  BY <1>3, <1>4, <1>5
  DEF WriteCopy, ReadLock, ReadFormat, ReadNext, ReadOops, Call, WriteAlloc, ReadCheck,
      ClearEnter, curVars

\* Every step is a step of the log, or none.
LEMMA StepIsLog ==
  ASSUME Good, Good', [Next]_vars
  PROVE  [Log!LNext]_(Log!lvars)
<1>1. ASSUME NEW t \in Tasks, Inside(t) PROVE [Log!LNext]_(Log!lvars)
  <2>1. CASE WriteAdd(t)
    BY <2>1, AddIsAppend DEF Log!LNext
  <2>2. CASE ReadStore(t) /\ fd[t] \notin lost
    BY <2>2, StoreIsRead DEF Log!LNext
  <2>3. CASE ClearFree(t)
    <3>1. /\ list' = <<>> /\ UNCHANGED <<opened, pos>> /\ lost' = lost \cup Cut
          /\ got' = [f \in Fds |-> IF f \in Cut THEN <<>> ELSE got[f]]
      BY <2>3 DEF ClearFree, FreeAll
    <3>2. \A f \in Fds : f \in Cut <=> ~ Nowhere(f)
      BY DEF Nowhere, Cut, Good, CursorInv, Stand
    <3>3. \A f \in Fds : Nowhere(f)'
      BY <3>1, <3>2 DEF Nowhere
    <3>4. got' = [f \in Fds |-> IF Nowhere(f) THEN got[f] ELSE <<>>]
      BY <3>1, <3>2
    <3> QED
      BY <3>1, <3>3, <3>4, EmptiedIsClear DEF Log!LNext
  <2>4. CASE \/ WriteCopy(t) \/ ReadLock(t) \/ ReadFormat(t) \/ ReadNext(t) \/ ReadOops(t)
             \/ ReadStore(t) /\ fd[t] \in lost
             \/ ClearReset(t)
    BY <2>4, InsideUnseen
  <2> QED
    BY <1>1, <2>1, <2>2, <2>3, <2>4 DEF Inside
<1>2. ASSUME NEW t \in Tasks, NEW f \in Fds, Call(t, f) PROVE [Log!LNext]_(Log!lvars)
  BY <1>2, InsideUnseen
<1>3. ASSUME NEW f \in Fds, lm_open(f) \/ lm_release(f) PROVE [Log!LNext]_(Log!lvars)
  BY <1>3, OpenIsOpen, ReleaseIsClose DEF Log!LNext
<1>4. CASE lm_init \/ Rmmod \/ ExitFree \/ ExitDeregister
  <2>1. /\ opened = {} /\ UNCHANGED <<pos, opened, got, lost>>
    BY <1>4 DEF lm_init, Rmmod, ExitFree, ExitDeregister, curVars, Good, NodeInv, Counted
  <2>2. \A f \in Fds : Nowhere(f) /\ Nowhere(f)'
    BY <2>1 DEF Nowhere, Good, CursorInv, Stand
  <2>3. CASE ExitFree
    <3>1. got' = [f \in Fds |-> IF Nowhere(f) THEN got[f] ELSE <<>>]
      BY <2>1, <2>2 DEF Good, NodeInv, TypeOK
    <3> QED
      BY <2>1, <2>2, <2>3, <3>1, EmptiedIsClear DEF ExitFree, FreeAll, Log!LNext
  <2>4. CASE lm_init \/ Rmmod \/ ExitDeregister
    <3>1. list' = list /\ body' = body
      BY <2>4 DEF lm_init, Rmmod, ExitDeregister, listVars, Good, NodeInv, Counted
    <3> QED
      BY <2>1, <2>2, <3>1, Unseen
  <2> QED
    BY <1>4, <2>3, <2>4
<1>5. CASE UNCHANGED vars
  <2>1. UNCHANGED <<list, body, opened, got, pos, lost>>
    BY <1>5 DEF vars, listVars, curVars
  <2> QED
    BY <2>1, Unseen DEF Nowhere
<1> QED
  BY <1>1, <1>2, <1>3, <1>4, <1>5 DEF Next

\* /dev/listmsg is the log of MsgLog: it grows at its end, and every open file
\* reads it from the front with a position of its own, whatever the others write
\* and read, until a CLEAR ends its walk (listmsg.c:40-142).
THEOREM IsALogCorrect == Spec => IsALog
<1>1. NodeInv /\ CursorInv => Good
  BY LogIsRight, AtIsRight DEF Good
<1>2. Good /\ Good' /\ [Next]_vars => [Log!LNext]_(Log!lvars)
  BY StepIsLog
<1> QED
  BY <1>1, <1>2, InitIsLog, NodeInvariant, CursorInvariant, PTL
  DEF Spec, SafeSpec, IsALog, Log!LSpec

------------------------------------------------------------------------------
(* What the log is for *)

InOrder == \A f \in opened : At[f] # 0 =>
             At[f] <= Len(TheLog) /\ got[f] = SubSeq(TheLog, 1, At[f] - 1)

\* The steps of the log, in terms of the list.
LEMMA LogSteps ==
  ASSUME [Log!LNext]_(Log!lvars)
  PROVE  \/ \E id \in Ids : TheLog' = Append(TheLog, id) /\ UNCHANGED <<opened, At, got>>
         \/ \E f \in Fds : /\ opened' = opened \cup {f} /\ UNCHANGED TheLog
                           /\ At' = [At EXCEPT ![f] = IF TheLog = <<>> THEN 0 ELSE 1]
                           /\ got' = [got EXCEPT ![f] = <<>>]
         \/ \E f \in Fds : /\ f \in opened /\ At[f] # 0 /\ UNCHANGED <<TheLog, opened>>
                           /\ got' = [got EXCEPT ![f] = Append(got[f], TheLog[At[f]])]
                           /\ At' = [At EXCEPT ![f] = IF At[f] = Len(TheLog) THEN 0
                                                      ELSE At[f] + 1]
         \/ TheLog' = <<>> /\ At' = [f \in Fds |-> 0] /\ UNCHANGED opened
         \/ \E f \in Fds : /\ opened' = opened \ {f} /\ UNCHANGED TheLog
                           /\ At' = [At EXCEPT ![f] = 0]
                           /\ got' = [got EXCEPT ![f] = <<>>]
         \/ UNCHANGED <<TheLog, opened, At, got>>
BY DEF Log!LNext, Log!lvars, Log!LAppend, Log!LOpen, Log!LRead, Log!LClear, Log!LClose,
   TheLog, At, Nowhere

\* What is read of a log is there when the log has grown.
LEMMA StretchOfLonger ==
  ASSUME NEW S, NEW s \in Seq(S), NEW e \in S, NEW n \in 0 .. Len(s)
  PROVE  SubSeq(Append(s, e), 1, n) = SubSeq(s, 1, n)
<1> DEFINE a == SubSeq(Append(s, e), 1, n)
           b == SubSeq(s, 1, n)
<1>1. /\ \A i \in 1 .. n : Append(s, e)[i] = s[i] /\ Append(s, e)[i] \in S /\ s[i] \in S
      /\ n \in Nat
  BY AppendProperties, LenProperties
<1>2. /\ a \in Seq(S) /\ Len(a) = n /\ \A i \in 1 .. n : a[i] = Append(s, e)[1 + i - 1]
  BY <1>1, SubSeqProperties
<1>3. /\ b \in Seq(S) /\ Len(b) = n /\ \A i \in 1 .. n : b[i] = s[1 + i - 1]
  BY <1>1, SubSeqProperties
<1> HIDE DEF a, b
<1>4. \A i \in 1 .. n : 1 + i - 1 = i
  BY <1>1
<1>5. \A i \in 1 .. n : a[i] = b[i]
  BY <1>1, <1>2, <1>3, <1>4
<1>6. a = b
  BY <1>2, <1>3, <1>5, SeqEqual
<1> QED
  BY <1>6 DEF a, b

\* What is read next continues it.
LEMMA StretchGrows ==
  ASSUME NEW S, NEW s \in Seq(S), NEW n \in 1 .. Len(s)
  PROVE  Append(SubSeq(s, 1, n - 1), s[n]) = SubSeq(s, 1, n)
<1>1. SubSeq(s, 1, n) = SubSeq(s, 1, n - 1) \o <<s[n]>>
  <2>1. 1 \in 1 .. Len(s) /\ n \in 1 .. Len(s)
    BY LenProperties
  <2> QED
    BY <2>1, SubSeqRecursiveSecond
<1>2. SubSeq(s, 1, n - 1) \in Seq(S) /\ s[n] \in S
  <2>1. 1 \in Int /\ n - 1 \in Int /\ \A i \in 1 .. n - 1 : s[i] \in S
    BY LenProperties
  <2>2. s[n] \in S
    BY LenProperties
  <2> QED
    BY <2>1, <2>2, SubSeqProperties
<1> QED
  BY <1>1, <1>2, AppendIsConcat

\* A step of the abstract log keeps what was read in order.
LEMMA InOrderStep ==
  ASSUME Good, Good', InOrder, [Log!LNext]_(Log!lvars)
  PROVE  InOrder'
<1>1. /\ TheLog \in Seq(Ids) /\ Len(TheLog) \in Nat /\ got \in [Fds -> Seq(0 .. MaxWrites)]
      /\ opened \subseteq Fds /\ At = [f \in Fds |-> At[f]]
      /\ \A f \in Fds : At[f] \in 0 .. Len(TheLog)
  <2>1. \A f \in Fds : At[f] \in 0 .. Len(TheLog)
    BY DEF Good, AtRight, LogRight, NodeInv, TypeOK
  <2> QED
    BY <2>1 DEF Good, LogRight, NodeInv, TypeOK, At
<1>2. ASSUME NEW id \in Ids, TheLog' = Append(TheLog, id), UNCHANGED <<opened, At, got>>
      PROVE  InOrder'
  <2> SUFFICES ASSUME NEW f \in opened, At[f] # 0
               PROVE  At[f] <= Len(TheLog') /\ got[f] = SubSeq(TheLog', 1, At[f] - 1)
    BY <1>2 DEF InOrder
  <2>1. At[f] <= Len(TheLog) /\ got[f] = SubSeq(TheLog, 1, At[f] - 1)
    BY DEF InOrder
  <2>2. At[f] - 1 \in 0 .. Len(TheLog)
    BY <1>1
  <2>3. SubSeq(TheLog', 1, At[f] - 1) = SubSeq(TheLog, 1, At[f] - 1)
    BY <1>1, <1>2, <2>2, StretchOfLonger
  <2>4. Len(TheLog') = Len(TheLog) + 1
    BY <1>1, <1>2, AppendProperties
  <2>5. At[f] <= Len(TheLog')
    <3> DEFINE a == At[f]  n == Len(TheLog)
    <3>1. a \in Nat /\ n \in Nat /\ a <= n /\ Len(TheLog') = n + 1
      BY <1>1, <2>1, <2>4
    <3> HIDE DEF a, n
    <3>2. a <= Len(TheLog')
      BY <3>1
    <3> QED
      BY <3>2 DEF a
  <2>6. got[f] = SubSeq(TheLog', 1, At[f] - 1)
    BY <2>1, <2>3
  <2> QED
    BY <2>5, <2>6
<1>3. ASSUME NEW f \in Fds, opened' = opened \cup {f}, UNCHANGED TheLog,
             At' = [At EXCEPT ![f] = IF TheLog = <<>> THEN 0 ELSE 1],
             got' = [got EXCEPT ![f] = <<>>]
      PROVE  InOrder'
  <2> SUFFICES ASSUME NEW g \in opened', At'[g] # 0
               PROVE  At'[g] <= Len(TheLog) /\ got'[g] = SubSeq(TheLog, 1, At'[g] - 1)
    BY <1>3 DEF InOrder
  <2>1. CASE g # f
    BY <1>1, <1>3, <2>1 DEF InOrder
  <2>2. CASE g = f
    <3>1. At'[f] = 1 /\ TheLog # <<>> /\ got'[f] = <<>>
      BY <1>1, <1>3, <2>2
    <3>2. Len(TheLog) >= 1
      BY <1>1, <3>1
    <3>3. SubSeq(TheLog, 1, 0) = <<>>
      BY SubSeqEmpty
    <3> QED
      BY <2>2, <3>1, <3>2, <3>3
  <2> QED
    BY <2>1, <2>2
<1>4. ASSUME NEW f \in Fds, f \in opened, At[f] # 0, UNCHANGED <<TheLog, opened>>,
             got' = [got EXCEPT ![f] = Append(got[f], TheLog[At[f]])],
             At' = [At EXCEPT ![f] = IF At[f] = Len(TheLog) THEN 0 ELSE At[f] + 1]
      PROVE  InOrder'
  <2> SUFFICES ASSUME NEW g \in opened, At'[g] # 0
               PROVE  At'[g] <= Len(TheLog) /\ got'[g] = SubSeq(TheLog, 1, At'[g] - 1)
    BY <1>4 DEF InOrder
  <2>1. CASE g # f
    BY <1>1, <1>4, <2>1 DEF InOrder
  <2>2. CASE g = f
    <3>1. At'[f] = At[f] + 1 /\ At[f] # Len(TheLog) /\ At[f] \in 1 .. Len(TheLog)
      BY <1>1, <1>4, <2>2
    <3>2. got'[f] = Append(SubSeq(TheLog, 1, At[f] - 1), TheLog[At[f]])
      BY <1>1, <1>4 DEF InOrder
    <3>3. got'[f] = SubSeq(TheLog, 1, At[f])
      BY <1>1, <3>1, <3>2, StretchGrows
    <3>4. At'[f] - 1 = At[f] /\ At'[f] <= Len(TheLog)
      BY <1>1, <3>1
    <3> QED
      BY <2>2, <3>3, <3>4
  <2> QED
    BY <2>1, <2>2
<1>5. CASE TheLog' = <<>> /\ At' = [f \in Fds |-> 0] /\ UNCHANGED opened
  BY <1>1, <1>5 DEF InOrder
<1>6. ASSUME NEW f \in Fds, opened' = opened \ {f}, UNCHANGED TheLog,
             At' = [At EXCEPT ![f] = 0], got' = [got EXCEPT ![f] = <<>>]
      PROVE  InOrder'
  BY <1>1, <1>6 DEF InOrder
<1>7. CASE UNCHANGED <<TheLog, opened, At, got>>
  BY <1>7 DEF InOrder
<1> QED
  BY <1>2, <1>3, <1>4, <1>5, <1>6, <1>7, LogSteps

\* A file that is still reading has read exactly the messages before its
\* position, each once and in the order they were written (listmsg.c:67-106); a file whose
\* walk a CLEAR cut short is not reading any more.
THEOREM ReadsInOrderCorrect == Spec => []Log!ReadsInOrder
<1>1. NodeInv /\ CursorInv => Good
  BY LogIsRight, AtIsRight DEF Good
<1>2. Init => InOrder
  BY DEF Init, InOrder
<1>3. Good /\ Good' /\ InOrder /\ [Next]_vars => InOrder'
  BY StepIsLog, InOrderStep
<1>4. InOrder => Log!ReadsInOrder
  BY DEF InOrder, Log!ReadsInOrder, TheLog, At, Nowhere
<1> QED
  BY <1>1, <1>2, <1>3, <1>4, NodeInvariant, CursorInvariant, PTL DEF Spec, SafeSpec
==============================================================================
