-------------------------------- MODULE MmapBuf --------------------------------
(***************************************************************************)
(* 11-mmap/mmapbuf.c: one kmalloc'ed buffer of BUF_PAGES pages that user   *)
(* processes read through a file or map into their address space.          *)
(*                                                                         *)
(* What matters is who still points at the pages when they are freed.  A   *)
(* mapping outlives the descriptor it was made from, and fork copies it;   *)
(* the kernel (external) keeps the struct file alive for either, and the   *)
(* struct file keeps the module (.owner).                                  *)
(***************************************************************************)
EXTENDS Integers

CONSTANTS Mappers,    \* processes
          BUF_PAGES,  \* pages of the buffer (4 in the code)
          MaxPages    \* bound: the longest mapping and largest offset asked for

ASSUME PagesAssumption == BUF_PAGES \in Nat \ {0} /\ MaxPages \in Nat

VARIABLES
  drv,      \* next call of mbuf_init or mbuf_exit, "absent" or "loaded"
  kbuf,     \* the buffer is allocated
  reserved, \* its pages marked PageReserved
  dev,      \* /dev/mmapbuf is registered
  fd,       \* the processes with a descriptor of the device
  reading,  \* the processes inside mbuf_read
  vma       \* pages each process has mapped, 0 for no mapping

mbufVars == <<drv, kbuf, reserved, dev, fd, reading, vma>>

Pages == 0..(BUF_PAGES - 1)
InitSteps == {"kmalloc", "reserve", "misc_register", "unreserve", "undo_kfree"}
ExitSteps == {"misc_deregister", "exit_unreserve", "exit_kfree"}

MbufTypeOK ==
  /\ drv \in InitSteps \cup ExitSteps \cup {"absent", "loaded"}
  /\ kbuf \in BOOLEAN /\ reserved \subseteq Pages /\ dev \in BOOLEAN
  /\ fd \subseteq Mappers /\ reading \subseteq fd
  /\ vma \in [Mappers -> 0..BUF_PAGES]   \* never beyond the buffer

MbufInit ==
  /\ drv = "absent" /\ kbuf = FALSE /\ reserved = {} /\ dev = FALSE
  /\ fd = {} /\ reading = {} /\ vma = [p \in Mappers |-> 0]

------------------------------------------------------------------------------
(* mbuf_init *)

MbufInsmod ==
  /\ drv = "absent" /\ drv' = "kmalloc"
  /\ UNCHANGED <<kbuf, reserved, dev, fd, reading, vma>>

Kmalloc ==
  /\ drv = "kmalloc"
  /\ \/ kbuf' = TRUE /\ drv' = "reserve"
     \/ drv' = "absent" /\ UNCHANGED kbuf
  /\ UNCHANGED <<reserved, dev, fd, reading, vma>>

ReservePages ==
  /\ drv = "reserve" /\ drv' = "misc_register"
  /\ reserved' = Pages
  /\ UNCHANGED <<kbuf, dev, fd, reading, vma>>

\* (seeded fault: the buffer is freed with its pages still reserved)
MiscRegisterKeep ==
  /\ drv = "misc_register"
  /\ \/ dev' = TRUE /\ drv' = "loaded"
     \/ drv' = "undo_kfree" /\ UNCHANGED dev
  /\ UNCHANGED <<kbuf, reserved, fd, reading, vma>>

MiscRegister ==
  /\ drv = "misc_register"
  /\ \/ dev' = TRUE /\ drv' = "loaded"
     \/ drv' = "unreserve" /\ UNCHANGED dev
  /\ UNCHANGED <<kbuf, reserved, fd, reading, vma>>

\* The two steps back, after a failed misc_register and in mbuf_exit.
ClearReserved ==
  /\ \/ drv = "unreserve" /\ drv' = "undo_kfree"
     \/ drv = "exit_unreserve" /\ drv' = "exit_kfree"
  /\ reserved' = {}
  /\ UNCHANGED <<kbuf, dev, fd, reading, vma>>

Kfree ==
  /\ drv \in {"undo_kfree", "exit_kfree"} /\ drv' = "absent"
  /\ kbuf' = FALSE
  /\ UNCHANGED <<reserved, dev, fd, reading, vma>>

------------------------------------------------------------------------------
(* mbuf_exit *)

\* (seeded fault: the file_operations have no .owner)
FilesNoOwner == {}

\* The struct files that exist: one per process stands for its descriptor and
\* for its mapping; each holds a reference to the module.
Files == {p \in Mappers : p \in fd \/ vma[p] # 0}

\* delete_module: -EBUSY while a reference is held.
MbufRmmod ==
  /\ drv = "loaded" /\ Files = {} /\ drv' = "misc_deregister"
  /\ UNCHANGED <<kbuf, reserved, dev, fd, reading, vma>>

MiscDeregister ==
  /\ drv = "misc_deregister" /\ drv' = "exit_unreserve" /\ dev' = FALSE
  /\ UNCHANGED <<kbuf, reserved, fd, reading, vma>>

------------------------------------------------------------------------------
(* Processes *)

mbuf_open(p) ==
  /\ dev /\ drv = "loaded" /\ p \notin fd
  /\ fd' = fd \cup {p}
  /\ UNCHANGED <<drv, kbuf, reserved, dev, reading, vma>>

\* close(2); the struct file stays for a mapping.
MbufClose(p) ==
  /\ p \in fd \ reading /\ fd' = fd \ {p}
  /\ UNCHANGED <<drv, kbuf, reserved, dev, reading, vma>>

\* Enters and leaves mbuf_read, which copies from kbuf.
mbuf_read(p) ==
  /\ p \in fd
  /\ reading' = IF p \in reading THEN reading \ {p} ELSE reading \cup {p}
  /\ UNCHANGED <<drv, kbuf, reserved, dev, fd, vma>>

\* (seeded fault: the length is not checked)
AcceptedAnyLength(pgoff, size) == pgoff = 0 /\ size >= 1

\* vm_pgoff != 0 || size > BUF_SIZE is -EINVAL.
Accepted(pgoff, size) == pgoff = 0 /\ size >= 1 /\ size <= BUF_PAGES

\* remap_pfn_range fills the page table with all pages, or the call fails with
\* -EAGAIN and no mapping.
mbuf_mmap(p, pgoff, size) ==
  /\ p \in fd /\ vma[p] = 0
  /\ Accepted(pgoff, size)
  /\ vma' = [vma EXCEPT ![p] = size]
  /\ UNCHANGED <<drv, kbuf, reserved, dev, fd, reading>>

Munmap(p) ==
  /\ vma[p] # 0 /\ vma' = [vma EXCEPT ![p] = 0]
  /\ UNCHANGED <<drv, kbuf, reserved, dev, fd, reading>>

\* fork copies the descriptor and the mapping.
Fork(p, q) ==
  /\ q \notin Files
  /\ fd' = IF p \in fd THEN fd \cup {q} ELSE fd
  /\ vma' = [vma EXCEPT ![q] = vma[p]]
  /\ UNCHANGED <<drv, kbuf, reserved, dev, reading>>

------------------------------------------------------------------------------
Driver == \/ MbufInsmod \/ Kmalloc \/ ReservePages \/ MiscRegister
          \/ ClearReserved \/ Kfree \/ MbufRmmod \/ MiscDeregister
Process(p) ==
  \/ mbuf_open(p) \/ MbufClose(p) \/ mbuf_read(p) \/ Munmap(p)
  \/ \E pgoff, size \in 0..MaxPages : mbuf_mmap(p, pgoff, size)
  \/ \E q \in Mappers : Fork(p, q)

MbufNext == Driver \/ \E p \in Mappers : Process(p)

MbufSpec == MbufInit /\ [][MbufNext]_mbufVars

------------------------------------------------------------------------------
(* Properties *)

\* No process reaches freed memory through the device: as long as anybody has
\* a mapping, whichever way it came by it, or is inside mbuf_read, the buffer
\* is allocated and its pages reserved.
MappedIsAlive ==
  (reading # {} \/ \E p \in Mappers : vma[p] # 0) => kbuf /\ reserved = Pages

\* Pages go back to the allocator as they came: never with PageReserved set,
\* on any way out of mbuf_init or mbuf_exit; and none is leaked.
FreedClean == /\ ~kbuf => reserved = {}
              /\ drv = "absent" => ~kbuf
==============================================================================
