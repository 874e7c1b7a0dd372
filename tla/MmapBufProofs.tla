---------------------------- MODULE MmapBufProofs ----------------------------
(***************************************************************************)
(* Proofs about MmapBuf, for any number of processes and any buffer.       *)
(***************************************************************************)
EXTENDS MmapBuf, TLAPS

\* What the driver has done to the buffer at each of its steps.
Held == kbuf <=> drv \notin {"absent", "kmalloc"}
Marked == reserved = IF drv \in {"misc_register", "unreserve", "loaded",
                                 "misc_deregister", "exit_unreserve"}
                     THEN Pages ELSE {}

\* Processes have files and mappings of a loaded driver only.
InUse == Files # {} => drv = "loaded"

IInv == MbufTypeOK /\ Held /\ Marked /\ InUse

\* The driver starts with nothing, and nobody uses it.
LEMMA InitInv == MbufInit => IInv
<1> SUFFICES ASSUME MbufInit PROVE IInv
  OBVIOUS
<1> USE DEF MbufInit
<1>1. MbufTypeOK
  <2>1. kbuf \in BOOLEAN /\ dev \in BOOLEAN
    OBVIOUS
  <2>2. drv \in InitSteps \cup ExitSteps \cup {"absent", "loaded"}
    OBVIOUS
  <2>3. vma \in [Mappers -> 0..BUF_PAGES]
    BY PagesAssumption
  <2> QED
    BY <2>1, <2>2, <2>3 DEF MbufTypeOK
<1>2. Held /\ Marked /\ InUse
  BY DEF Held, Marked, InUse, Files
<1> QED
  BY <1>1, <1>2 DEF IInv

\* Steps of mbuf_init and mbuf_exit: the buffer is as the next call needs it.
LEMMA DriverInv == IInv /\ Driver => IInv'
<1> SUFFICES ASSUME IInv, Driver PROVE IInv'
  OBVIOUS
<1> USE DEF IInv
<1>1. UNCHANGED <<fd, reading, vma>> /\ Files' = Files
  BY DEF Driver, MbufInsmod, Kmalloc, ReservePages, MiscRegister, ClearReserved,
         Kfree, MbufRmmod, MiscDeregister, Files
<1>2. fd' \subseteq Mappers /\ reading' \subseteq fd' /\ vma' \in [Mappers -> 0..BUF_PAGES]
  BY <1>1 DEF MbufTypeOK
<1>3. CASE MbufInsmod
  BY <1>1, <1>2, <1>3 DEF MbufInsmod, MbufTypeOK, Held, Marked, InUse, InitSteps, ExitSteps
<1>4. CASE Kmalloc
  <2>1. kbuf' \in BOOLEAN
    BY <1>4 DEF Kmalloc, MbufTypeOK
  <2> QED
    BY <1>1, <1>2, <1>4, <2>1 DEF Kmalloc, MbufTypeOK, Held, Marked, InUse, InitSteps, ExitSteps
<1>5. CASE ReservePages
  BY <1>1, <1>2, <1>5 DEF ReservePages, MbufTypeOK, Held, Marked, InUse, InitSteps, ExitSteps
<1>6. CASE MiscRegister
  BY <1>1, <1>2, <1>6 DEF MiscRegister, MbufTypeOK, Held, Marked, InUse, InitSteps, ExitSteps
<1>7. CASE ClearReserved
  BY <1>1, <1>2, <1>7 DEF ClearReserved, MbufTypeOK, Held, Marked, InUse, InitSteps, ExitSteps
<1>8. CASE Kfree
  BY <1>1, <1>2, <1>8 DEF Kfree, MbufTypeOK, Held, Marked, InUse, InitSteps, ExitSteps
<1>9. CASE MbufRmmod
  BY <1>1, <1>2, <1>9 DEF MbufRmmod, MbufTypeOK, Held, Marked, InUse, InitSteps, ExitSteps
<1>10. CASE MiscDeregister
  BY <1>1, <1>2, <1>10 DEF MiscDeregister, MbufTypeOK, Held, Marked, InUse, InitSteps, ExitSteps
<1> QED
  BY <1>3, <1>4, <1>5, <1>6, <1>7, <1>8, <1>9, <1>10 DEF Driver

\* Steps of a process: it gets a file of a loaded driver, or from a process
\* that has one, and no mapping longer than the buffer.
LEMMA ProcessInv == ASSUME NEW p \in Mappers, IInv, Process(p) PROVE IInv'
<1> USE DEF IInv
<1>1. UNCHANGED <<drv, kbuf, reserved, dev>>
  BY DEF Process, mbuf_open, MbufClose, mbuf_read, Munmap, mbuf_mmap, Fork
<1>2. Held' /\ Marked'
  BY <1>1 DEF Held, Marked, Pages
<1>3. /\ drv' \in InitSteps \cup ExitSteps \cup {"absent", "loaded"}
      /\ kbuf' \in BOOLEAN /\ reserved' \subseteq Pages /\ dev' \in BOOLEAN
  BY <1>1 DEF MbufTypeOK
<1>4. CASE mbuf_open(p)
  BY <1>1, <1>2, <1>3, <1>4 DEF mbuf_open, MbufTypeOK, InUse, Files
<1>5. CASE MbufClose(p)
  BY <1>1, <1>2, <1>3, <1>5 DEF MbufClose, MbufTypeOK, InUse, Files
<1>6. CASE mbuf_read(p)
  BY <1>1, <1>2, <1>3, <1>6 DEF mbuf_read, MbufTypeOK, InUse, Files
<1>7. CASE Munmap(p)
  BY <1>1, <1>2, <1>3, <1>7, PagesAssumption DEF Munmap, MbufTypeOK, InUse, Files
<1>8. ASSUME NEW pgoff \in 0..MaxPages, NEW size \in 0..MaxPages,
             mbuf_mmap(p, pgoff, size)
      PROVE  IInv'
  BY <1>1, <1>2, <1>3, <1>8, PagesAssumption DEF mbuf_mmap, Accepted, MbufTypeOK, InUse, Files
<1>9. ASSUME NEW q \in Mappers, Fork(p, q)
      PROVE  IInv'
  BY <1>1, <1>2, <1>3, <1>9 DEF Fork, MbufTypeOK, InUse, Files
<1> QED
  BY <1>4, <1>5, <1>6, <1>7, <1>8, <1>9 DEF Process

\* The invariant holds throughout.
THEOREM BufferInv == MbufSpec => []IInv
<1>1. IInv /\ [MbufNext]_mbufVars => IInv'
  <2> SUFFICES ASSUME IInv, [MbufNext]_mbufVars PROVE IInv'
    OBVIOUS
  <2>1. CASE Driver
    BY <2>1, DriverInv
  <2>2. ASSUME NEW p \in Mappers, Process(p) PROVE IInv'
    BY <2>2, ProcessInv
  <2>3. CASE UNCHANGED mbufVars
    BY <2>3 DEF mbufVars, IInv, MbufTypeOK, Held, Marked, InUse, Files
  <2> QED
    BY <2>1, <2>2, <2>3 DEF MbufNext
<1> QED
  BY InitInv, <1>1, PTL DEF MbufSpec

\* The state keeps its types; no mapping is longer than the buffer
\* (mmapbuf.c:67-71).
THEOREM BufferTypeCorrect == MbufSpec => []MbufTypeOK
<1>1. IInv => MbufTypeOK
  BY DEF IInv
<1> QED
  BY <1>1, BufferInv, PTL

\* Nobody has a mapping of a buffer that was freed, and nobody reads one
\* (mmapbuf.c:133-145, .owner at :89).
THEOREM MappedCorrect == MbufSpec => []MappedIsAlive
<1>1. IInv => MappedIsAlive
  <2> SUFFICES ASSUME IInv, reading # {} \/ \E p \in Mappers : vma[p] # 0
               PROVE  kbuf /\ reserved = Pages
    BY DEF MappedIsAlive
  <2>1. Files # {}
    BY DEF IInv, MbufTypeOK, Files
  <2>2. drv = "loaded"
    BY <2>1 DEF IInv, InUse
  <2> QED
    BY <2>2 DEF IInv, Held, Marked
<1> QED
  BY <1>1, BufferInv, PTL

\* The pages go back to the allocator unreserved, on every way out
\* (mmapbuf.c:121-125, :140-143).
THEOREM FreedCorrect == MbufSpec => []FreedClean
<1>1. IInv => FreedClean
  BY DEF IInv, Held, Marked, FreedClean
<1> QED
  BY <1>1, BufferInv, PTL
==============================================================================
