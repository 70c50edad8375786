--------------------------------- MODULE Heap ---------------------------------
(***************************************************************************)
(* The heap of the stack (Middlewares/lwip/src/core/mem.c): what is sent   *)
(* is copied into it, MEM_SIZE bytes for every connection and answer.  A   *)
(* doubly linked list of blocks runs through it, each behind a header;     *)
(* lfree is where the search for a free block begins.                      *)
(*                                                                         *)
(* Addresses and sizes are in units of MEM_ALIGNMENT; mem has the headers  *)
(* that are in the list, without the one at ram_end.                       *)
(***************************************************************************)
EXTENDS Naturals

CONSTANTS
  End,            \* MEM_SIZE_ALIGNED
  Hdr,            \* SIZEOF_STRUCT_MEM
  MinSize,        \* MIN_SIZE_ALIGNED
  Sizes           \* the sizes that are asked for

ASSUME HeapConstantsOK ==
  /\ End \in Nat /\ Hdr \in Nat \ {0} /\ MinSize \in Nat \ {0}
  /\ Hdr + MinSize <= End
  /\ Sizes \subseteq Nat \ {0}

VARIABLES
  mem,            \* the headers, by address
  lfree,
  asked           \* history: the size each block in use was asked for with

vars == <<mem, lfree, asked>>

Block(next, prev, used) == [next |-> next, prev |-> prev, used |-> used]

\* mem_init.
Init ==
  /\ mem = [b \in {0} |-> Block(End, 0, FALSE)]
  /\ lfree = 0
  /\ asked = [b \in {} |-> 0]

-----------------------------------------------------------------------------
(* Blocks.                                                                 *)

Room(m, b) == m[b].next - (b + Hdr)
Aligned(n) == IF n < MinSize THEN MinSize ELSE n
Unused(m)  == {b \in DOMAIN m : ~m[b].used}

\* The list with a free block at p that ends where block b ended.
Split(m, b, p) ==
  [x \in DOMAIN m \cup {p} |->
     CASE x = b            -> [m[b] EXCEPT !.next = p]
       [] x = p            -> Block(m[b].next, b, FALSE)
       [] x \notin {b, p}  -> IF x = m[b].next THEN [m[x] EXCEPT !.prev = p] ELSE m[x]]

\* The list with the block after b made part of b.
Join(m, b) ==
  LET n == m[b].next IN
  [x \in DOMAIN m \ {n} |->
     CASE x = b -> [m[b] EXCEPT !.next = m[n].next]
       [] x # b -> IF x = m[n].next THEN [m[x] EXCEPT !.prev = b] ELSE m[x]]

\* plug_holes, in two steps: the block after b, then the one before.
FreeAfter(m, b)  == m[b].next # End /\ ~m[m[b].next].used
FreeBefore(m, b) == m[b].prev # b /\ ~m[m[b].prev].used

-----------------------------------------------------------------------------
(* mem_malloc.                                                             *)

Fits(b, s) == ~mem[b].used /\ Room(mem, b) >= s

\* A slip of Found: the last place of the heap is left out.
FoundTight(s) ==
  {b \in DOMAIN mem : /\ lfree <= b /\ b + Hdr + s < End /\ Fits(b, s)
                      /\ \A c \in DOMAIN mem : lfree <= c /\ c < b => ~Fits(c, s)}

\* The first block from lfree on that is free and big enough.
Found(s) ==
  {b \in DOMAIN mem : /\ lfree <= b /\ b < End - s /\ Fits(b, s)
                      /\ \A c \in DOMAIN mem : lfree <= c /\ c < b => ~Fits(c, s)}

\* lfree moves on to the next free block, or to the end.
NextFree(m) ==
  {c \in Unused(m) \cup {End} : lfree <= c /\ \A d \in Unused(m) : lfree <= d => c <= d}

Taken(b, s) ==
  [IF Room(mem, b) >= s + Hdr + MinSize THEN Split(mem, b, b + Hdr + s) ELSE mem
     EXCEPT ![b].used = TRUE]

MemMalloc(n) ==
  \E b \in Found(Aligned(n)) :
    /\ mem' = Taken(b, Aligned(n))
    /\ IF b = lfree THEN lfree' \in NextFree(mem') ELSE lfree' = lfree
    /\ asked' = [x \in DOMAIN asked \cup {b} |-> IF x = b THEN n ELSE asked[x]]

-----------------------------------------------------------------------------
(* mem_free and mem_trim.                                                  *)

\* A slip of Moved: lfree stays at the block that is gone.
MovedNot(l, from, to) == l

\* lfree, when the block it may be at has become part of another.
Moved(l, from, to) == IF l = from THEN to ELSE l

MemFree(b) ==
  LET m0 == [mem EXCEPT ![b].used = FALSE]
      l0 == IF b < lfree THEN b ELSE lfree
      m1 == IF FreeAfter(m0, b) THEN Join(m0, b) ELSE m0
      l1 == IF FreeAfter(m0, b) THEN Moved(l0, m0[b].next, b) ELSE l0
      p  == m1[b].prev
  IN /\ mem'   = IF FreeBefore(m1, b) THEN Join(m1, p) ELSE m1
     /\ lfree' = IF FreeBefore(m1, b) THEN Moved(l1, b, p) ELSE l1
     /\ asked' = [x \in DOMAIN asked \ {b} |-> asked[x]]

\* The block shrinks, and gives the rest to the free block after it or, if
\* it is big enough, to a new one.  What is behind the last block counts as
\* used (ram_end), so the second case has the last block too: there the
\* assertion of line 777 (next is not the end), empty in this build, is false.
MemTrim(b, n) ==
  LET s == Aligned(n)
      p == b + Hdr + s
  IN /\ s <= Room(mem, b)
     /\ CASE s < Room(mem, b) /\ FreeAfter(mem, b) ->
               /\ mem'   = Split(Join(mem, b), b, p)
               /\ lfree' = Moved(lfree, mem[b].next, p)
          [] s + Hdr + MinSize <= Room(mem, b) /\ ~FreeAfter(mem, b) ->
               /\ mem'   = Split(mem, b, p)
               /\ lfree' = IF p < lfree THEN p ELSE lfree
          [] OTHER -> UNCHANGED <<mem, lfree>>
     /\ asked' = [asked EXCEPT ![b] = n]

Next ==
  \/ \E n \in Sizes : MemMalloc(n)
  \/ \E b \in DOMAIN asked : MemFree(b)
  \/ \E b \in DOMAIN asked, n \in Sizes : n <= asked[b] /\ MemTrim(b, n)

Spec == Init /\ [][Next]_vars
-----------------------------------------------------------------------------
(* Correctness.                                                            *)

\* Every variable keeps its type; the blocks in use are the allocations.
TypeOK ==
  /\ DOMAIN mem \subseteq 0 .. End - 1 /\ 0 \in DOMAIN mem
  /\ mem \in [DOMAIN mem -> [next : 1 .. End, prev : 0 .. End - 1, used : BOOLEAN]]
  /\ lfree \in 0 .. End
  /\ DOMAIN asked = {b \in DOMAIN mem : mem[b].used}
  /\ asked \in [DOMAIN asked -> Sizes]

\* The blocks lie end to end from the start of the heap to its end, and the
\* links back agree with the links forward (mem_sanity, lines 554-594).
Linked ==
  \A b \in DOMAIN mem :
    /\ b + Hdr <= mem[b].next
    /\ \/ mem[b].next = End
       \/ mem[b].next \in DOMAIN mem /\ mem[mem[b].next].prev = b
    /\ \A c \in DOMAIN mem : c <= b \/ mem[b].next <= c
    /\ b = 0 => mem[b].prev = 0
    /\ b # 0 => mem[b].prev \in DOMAIN mem /\ mem[mem[b].prev].next = b

\* No two free blocks touch (line 580).
NoTwoFree == \A b \in Unused(mem) : mem[b].next \notin Unused(mem)

\* lfree is the lowest free block, or the end.
LfreeLowest ==
  /\ lfree \in Unused(mem) \cup {End}
  /\ \A b \in Unused(mem) : lfree <= b

\* A block in use has room for what it was asked for; with Linked, nobody
\* else's memory is in it.
BigEnough == \A b \in DOMAIN asked : Room(mem, b) >= asked[b]

(***************************************************************************)
(* The heap is sound after every sequence of allocations, whatever was     *)
(* freed or trimmed in whatever order: the blocks lie end to end and the   *)
(* links agree, allocations do not overlap, no two free blocks touch       *)
(* (plug_holes, lines 460-497), and lfree is the lowest free one.  It is   *)
(* so too after the last block of the heap has been trimmed, which the     *)
(* assertion "invalid next ptr" of mem_trim (line 777) rules out.          *)
(***************************************************************************)
HeapSound == TypeOK /\ Linked /\ NoTwoFree /\ LfreeLowest /\ BigEnough

(***************************************************************************)
(* mem_malloc fails only when no free block is big enough: neither lfree   *)
(* nor the bound of its loop (line 857) hides one.                         *)
(***************************************************************************)
SearchComplete ==
  \A n \in Sizes : (\E b \in DOMAIN mem : Fits(b, Aligned(n))) => Found(Aligned(n)) # {}

(***************************************************************************)
(* When all is given back the heap is one free block again.                *)
(***************************************************************************)
WholeAgain == DOMAIN asked = {} => mem = [b \in {0} |-> Block(End, 0, FALSE)]
=============================================================================
