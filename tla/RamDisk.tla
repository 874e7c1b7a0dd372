------------------------------- MODULE RamDisk -------------------------------
(***************************************************************************)
(* 04-char-block-net/block/ramdisk.c, the data path: the block layer hands *)
(* requests to rb_queue_rq, several at a time and from any processor; each *)
(* is moved segment by segment, without a lock, each segment by a memcpy,  *)
(* that is word by word: other processors may move the same words, and the *)
(* sectors they make up, at the same time.  What request w writes to the   *)
(* disk's word a is the pair <<w, a>>.                                     *)
(***************************************************************************)
EXTENDS DriverLife

CONSTANTS Sectors,  \* RB_SECTORS
          Words,    \* words of a sector
          Tags,     \* requests in flight (queue_depth)
          MaxIO,    \* bound: requests in a behaviour
          NoRq

ASSUME DiskAssumption == /\ Sectors \in Nat \ {0} /\ Words \in Nat \ {0}
                         /\ MaxIO \in Nat

VARIABLES rb_data,  \* content of each word
          rq,       \* the request of each tag
          io        \* requests so far

diskVars == <<rb_data, rq, io>>

Zeros == <<0, 0>>   \* vzalloc
Junk  == <<0, 1>>   \* memory that is not the disk's

Size == Sectors * Words   \* RB_SECTORS << SECTOR_SHIFT, in words

DiskInit == /\ rb_data = [a \in 1 .. Size |-> Zeros]
            /\ rq = [t \in Tags |-> NoRq] /\ io = 0

DiskInsmod == rb_data' = [a \in 1 .. Size |-> Zeros] /\ UNCHANGED <<rq, io>>

\* set_capacity, in sectors: the block layer lets no request past it.
Capacity == Sectors

InFlight == {t \in Tags : rq[t] # NoRq}
OnDisk(a) == "data" \in held /\ a \in 1 .. Size
Content(a) == IF OnDisk(a) THEN rb_data[a] ELSE Junk

\* The words r covers, and the one it moves next.
Covers(r) == r.first .. r.first + r.n - 1
\* (seeded fault: the position does not follow the segments)
NextWordStuck(r) == r.first + (r.done % Words)
NextWord(r) == r.first + r.done

Writers(a) == {rq[t].w : t \in {x \in InFlight : rq[x].write /\ a \in Covers(rq[x])}}

\* blk_mq_start_request for a file of u: n sectors from sector first on; the
\* request keeps words (blk_rq_pos << SECTOR_SHIFT).  "may" is history: what a
\* read may return of each word - the content now, or what a write that is in
\* flight at the same time writes.
Submit(u, t) ==
  /\ driver = "ramdisk" /\ u \in users /\ rq[t] = NoRq /\ io < MaxIO
  /\ io' = io + 1
  /\ \E write \in BOOLEAN, first \in 1 .. Capacity, n \in 1 .. Capacity :
       LET from == (first - 1) * Words + 1
           len == n * Words
           r == [u |-> u, w |-> io', write |-> write, first |-> from, n |-> len,
                 done |-> 0, got |-> <<>>,
                 may |-> [a \in Covers([first |-> from, n |-> len]) |->
                           {Content(a)} \cup {<<w, a>> : w \in Writers(a)}]]
           seen(q) == [q EXCEPT !.may = [a \in DOMAIN @ |->
                         IF write /\ a \in Covers(r) THEN @[a] \cup {<<r.w, a>>} ELSE @[a]]]
       IN /\ first + n - 1 <= Capacity
          /\ rq' = [x \in Tags |-> IF x = t THEN r
                                   ELSE IF rq[x] = NoRq THEN NoRq ELSE seen(rq[x])]
  /\ UNCHANGED <<lifeVars, rb_data>>

\* One word of a memcpy of rb_transfer's loop.
rb_transfer(t) ==
  /\ rq[t] # NoRq /\ rq[t].done < rq[t].n
  /\ LET r == rq[t]
         a == NextWord(r)
     IN /\ rb_data' = IF r.write /\ OnDisk(a)
                      THEN [rb_data EXCEPT ![a] = <<r.w, r.first + r.done>>]
                      ELSE rb_data
        /\ rq' = [rq EXCEPT ![t].done = @ + 1,
                            ![t].got = IF r.write THEN @ ELSE Append(@, Content(a))]
  /\ UNCHANGED <<lifeVars, io>>

\* blk_mq_end_request
EndRequest(t) ==
  /\ rq[t] # NoRq /\ rq[t].done = rq[t].n
  /\ rq' = [rq EXCEPT ![t] = NoRq]
  /\ UNCHANGED <<lifeVars, rb_data, io>>

\* A file is not gone before its requests are: the last close writes the page
\* cache out and waits.
MayClose(u) == \A t \in InFlight : rq[t].u # u

DiskNext == \E t \in Tags : \/ \E u \in Users : Submit(u, t)
                            \/ rb_transfer(t) \/ EndRequest(t)

DiskTypeOK ==
  /\ DOMAIN rb_data = 1 .. Size /\ DOMAIN rq = Tags /\ io \in 0 .. MaxIO
  /\ \A t \in InFlight : rq[t].done \in 0 .. rq[t].n /\ rq[t].w \in 1 .. io

\* Requests that overlap and interleave word by word, around loads and unloads:
\* a read returns of each word what that word held when the read began or what a
\* write at the same time put there - not of each sector: of one that is written
\* at the same time it may return old words and new ones - and no word is moved
\* to or from anything but the disk's memory (ramdisk.c:24-43, :131-139).
DiskKeepsData ==
  \A t \in InFlight : LET r == rq[t] IN
    /\ r.done < r.n => OnDisk(NextWord(r))
    /\ \A i \in DOMAIN r.got : r.got[i] \in r.may[r.first + i - 1]
==============================================================================
