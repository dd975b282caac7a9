-------------------------------- MODULE RtMem --------------------------------
(***************************************************************************)
(* The kernel heap, Middlewares/RTOS/src/mem.c: first fit from lfree over  *)
(* a doubly linked list of block headers that lie in the heap itself.      *)
(*                                                                         *)
(* Offsets and sizes are in units of RT_ALIGN_SIZE, so a size is already   *)
(* aligned.  Every part between rt_sem_take and rt_sem_release of heap_sem *)
(* is one step; rt_realloc gives the semaphore back before it moves a      *)
(* block, so moving takes two steps and other threads run between them.    *)
(* "mem" holds the live headers only: reading a header that was merged     *)
(* away would be an error of the model.                                    *)
(***************************************************************************)
EXTENDS Naturals, FiniteSets, FiniteSetsExt, TLC

CONSTANTS
    Threads,
    MemSize,     \* mem_size_aligned
    Header,      \* SIZEOF_STRUCT_MEM
    MinSize,     \* MIN_SIZE_ALIGNED
    Requests     \* the sizes the threads ask for

ASSUME HeapSizes ==
    /\ {MemSize, Header, MinSize} \subseteq Nat \ {0}
    /\ Requests \subseteq Nat
    /\ MinSize <= MemSize

VARIABLES
    mem,         \* the live headers: offset -> [used, next, prev]
    lfree,       \* "pointer to the lowest free block"
    used_mem, max_mem,
    owner,       \* the threads' blocks: offset -> thread
    wants,       \* what the owner of a block was promised: offset -> size
    moving,      \* thread -> the block it is moving, the size asked, or None
    shrunk       \* history: rt_realloc has cut a block

memVars == <<mem, lfree, used_mem, max_mem, owner, wants, moving, shrunk>>

HeapEnd == MemSize + Header            \* the offset of heap_end
None == HeapEnd + 1
MaxOf(a, b) == IF a > b THEN a ELSE b
Live == DOMAIN mem \ {HeapEnd}
Extent(m, p) == m[p].next - p      \* a block with its header
Room(m, p) == m[p].next - (p + Header)

\* rt_system_heap_init
MemInit ==
    /\ mem = [p \in {0, HeapEnd} |->
                 IF p = 0 THEN [used |-> FALSE, next |-> HeapEnd, prev |-> 0]
                          ELSE [used |-> TRUE, next |-> HeapEnd, prev |-> HeapEnd]]
    /\ lfree = 0
    /\ used_mem = 0 /\ max_mem = 0
    /\ owner = [p \in {} |-> None] /\ wants = [p \in {} |-> 0]
    /\ moving = [t \in Threads |-> None]
    /\ shrunk = FALSE
------------------------------------------------------------------------------
Drop(f, p) == [q \in DOMAIN f \ {p} |-> f[q]]
Put(f, p, v) == [q \in DOMAIN f \cup {p} |-> IF q = p THEN v ELSE f[q]]

\* Fault: the block behind keeps its old prev.
SplitForgets(m, p, p2) ==
    Put([m EXCEPT ![p].next = p2], p2,
        [used |-> FALSE, next |-> m[p].next, prev |-> p])

\* Insert a free header at p2 behind p.  The end's prev is left alone.
Split(m, p, p2) ==
    LET n == m[p].next
        m2 == Put([m EXCEPT ![p].next = p2], p2,
                  [used |-> FALSE, next |-> n, prev |-> p])
    IN IF n # HeapEnd THEN [m2 EXCEPT ![n].prev = p2] ELSE m2

\* One merge: the header at q goes, lfree with it.
Absorb(h, p, q) ==
    LET n == h.mem[q].next
    IN [mem |-> Drop([h.mem EXCEPT ![p].next = n, ![n].prev = p], q),
        lfree |-> IF h.lfree = q THEN p ELSE h.lfree]

PlugForward(h, p) ==
    LET n == h.mem[p].next
    IN IF n # p /\ ~h.mem[n].used /\ n # HeapEnd THEN Absorb(h, p, n) ELSE h

PlugBackward(h, p) ==
    LET b == h.mem[p].prev
    IN IF b # p /\ ~h.mem[b].used THEN Absorb(h, b, p) ELSE h

\* Fault: only the successor is merged.
plug_holes_forward(m, l, p) == PlugForward([mem |-> m, lfree |-> l], p)

\* The free block p is merged with a free successor, then with a free predecessor.
plug_holes(m, l, p) == PlugBackward(PlugForward([mem |-> m, lfree |-> l], p), p)
------------------------------------------------------------------------------
\* rt_malloc.  The search visits the blocks from lfree on whose offset is below
\* mem_size_aligned - size.
Rounded(size) == IF size < MinSize THEN MinSize ELSE size

\* Fault: the room is compared without the block's own header.
FitsBarely(m, p, s) == ~m[p].used /\ Extent(m, p) >= s

Fits(m, p, s) == ~m[p].used /\ Room(m, p) >= s

Visited(s) == {p \in Live : p >= lfree /\ p < MemSize - s /\ Fits(mem, p, s)}

Splits(m, p, s) == Room(m, p) >= s + Header + MinSize

\* The heap after block p has been given out: [mem, lfree, used].
Taken(p, s) ==
    LET m1 == IF Splits(mem, p, s) THEN Split(mem, p, p + Header + s) ELSE mem
        m2 == [m1 EXCEPT ![p].used = TRUE]
        free == {q \in DOMAIN m2 \ {HeapEnd} : q >= lfree /\ ~m2[q].used}
    IN [mem |-> m2,
        lfree |-> IF p # lfree THEN lfree ELSE IF free = {} THEN HeapEnd ELSE Min(free),
        used |-> IF Splits(mem, p, s) THEN s + Header ELSE Extent(m2, p)]

CanGive(size) ==
    size # 0 /\ size <= MemSize /\ Visited(Rounded(size)) # {}

Give(t, size) ==
    LET p == Min(Visited(Rounded(size)))
        h == Taken(p, Rounded(size))
    IN /\ mem' = h.mem /\ lfree' = h.lfree
       /\ used_mem' = used_mem + h.used
       /\ max_mem' = MaxOf(max_mem, used_mem + h.used)
       /\ owner' = Put(owner, p, t) /\ wants' = Put(wants, p, size)

\* One call; the allocation that answers RT_NULL changes nothing.
rt_malloc(t, size) ==
    /\ moving[t] = None
    /\ CanGive(size) /\ Give(t, size)
    /\ UNCHANGED <<moving, shrunk>>

\* rt_free's part under heap_sem.
Release(p) ==
    LET m == [mem EXCEPT ![p].used = FALSE]
        h == plug_holes(m, IF p < lfree THEN p ELSE lfree, p)
    IN /\ mem' = h.mem /\ lfree' = h.lfree
       /\ used_mem' = used_mem - Extent(mem, p)

\* A thread frees its own blocks, each once.
rt_free(t, p) ==
    /\ moving[t] = None
    /\ p \in DOMAIN owner /\ owner[p] = t
    /\ Release(p)
    /\ owner' = Drop(owner, p) /\ wants' = Drop(wants, p)
    /\ UNCHANGED <<max_mem, moving, shrunk>>

\* rt_realloc: the same room, or (a size of 0 frees, see rt_free) ...
Keeps(p, size) == Room(mem, p) = size
Cuts(p, size) == size + Header + MinSize < Room(mem, p)

ReallocCut(t, p, size) ==
    /\ moving[t] = None
    /\ p \in DOMAIN owner /\ owner[p] = t
    /\ size # 0 /\ Cuts(p, size)
    /\ LET h == plug_holes(Split(mem, p, p + Header + size), lfree, p + Header + size)
       IN mem' = h.mem /\ lfree' = h.lfree
    /\ used_mem' = used_mem - (Room(mem, p) - size)
    /\ wants' = [wants EXCEPT ![p] = size]
    /\ shrunk' = TRUE
    /\ UNCHANGED <<max_mem, owner, moving>>

\* ... the semaphore is released and a new block is asked for; if there is none
\* the old one stays as it is.
ReallocMove(t, p, size) ==
    /\ moving[t] = None
    /\ p \in DOMAIN owner /\ owner[p] = t
    /\ size # 0 /\ size <= MemSize /\ ~Keeps(p, size) /\ ~Cuts(p, size)
    /\ CanGive(size) /\ Give(t, size)
    /\ moving' = [moving EXCEPT ![t] = p]
    /\ UNCHANGED shrunk

\* ... the bytes are copied and the old block is freed.
ReallocFree(t) ==
    /\ moving[t] # None
    /\ Release(moving[t])
    /\ owner' = Drop(owner, moving[t]) /\ wants' = Drop(wants, moving[t])
    /\ moving' = [moving EXCEPT ![t] = None]
    /\ UNCHANGED <<max_mem, shrunk>>

MemNext ==
    \E t \in Threads :
        \/ \E size \in Requests : rt_malloc(t, size)
        \/ \E p \in Live :
            \/ rt_free(t, p)
            \/ \E size \in Requests : ReallocCut(t, p, size) \/ ReallocMove(t, p, size)
        \/ ReallocFree(t)

MemSpec == MemInit /\ [][MemNext]_memVars

HeapSymmetry == Permutations(Threads)
------------------------------------------------------------------------------
MemTypeOK ==
    /\ {0, HeapEnd} \subseteq DOMAIN mem /\ DOMAIN mem \subseteq 0..HeapEnd
    /\ \A p \in DOMAIN mem :
        mem[p] \in [used : BOOLEAN, next : DOMAIN mem, prev : 0..HeapEnd]
    /\ lfree \in DOMAIN mem
    /\ used_mem \in 0..HeapEnd /\ max_mem \in 0..HeapEnd
    /\ DOMAIN owner \subseteq Live /\ DOMAIN wants = DOMAIN owner
    /\ moving \in [Threads -> DOMAIN owner \cup {None}]
    /\ shrunk \in BOOLEAN

\* The headers are one chain: next runs through them in the order of their
\* offsets, prev runs back, and no two free blocks are neighbours, so that
\* rt_free gives back everything it can.  (The prev of the end is only kept by
\* plug_holes, and no one reads it.)
Chained ==
    /\ \A p \in Live :
        /\ mem[p].next > p
        /\ \A q \in DOMAIN mem : ~(p < q /\ q < mem[p].next)
        /\ mem[p].next # HeapEnd => mem[mem[p].next].prev = p
    /\ \A p \in Live : mem[p].next # HeapEnd /\ ~mem[p].used => mem[mem[p].next].used
    /\ mem[0].prev = 0 /\ mem[HeapEnd].used

\* Every block a thread holds is a used block of its own, with the room it was
\* promised, in whatever order the threads' calls and moves interleave.
HoldsWhatItAskedFor ==
    /\ DOMAIN owner = {p \in Live : mem[p].used}
    /\ \A p \in DOMAIN owner : Room(mem, p) >= wants[p]

\* The statistics: used_mem is the number of units that lie in a used block or
\* in its header.
Covered ==
    {x \in 0..(HeapEnd - 1) : \E p \in Live : mem[p].used /\ p <= x /\ x < mem[p].next}

UsedIsCounted == used_mem = Cardinality(Covered)

\* No free block lies below lfree, where rt_malloc would never look.
LowestFree == \A p \in Live : ~mem[p].used => lfree <= p

\* Until rt_realloc has cut a block, lfree is what its comment says it is.
LowestFreeUncut == ~shrunk => LowestFree

\* rt_malloc answers RT_NULL only if no free block has the room: what its comment
\* says.  It does not hold: the last block is not given for an exact fit.
FindsRoom ==
    \A size \in Requests \ {0} :
        (\E p \in Live : Fits(mem, p, Rounded(size))) => CanGive(size)

\* What does hold, until a block was cut: the only block passed over is the last
\* one, and only if the request would take exactly all of it.
PassesOnlyExactEnd ==
    ~shrunk =>
      \A size \in Requests \ {0} :
        \A p \in Live :
          Fits(mem, p, Rounded(size)) /\ ~CanGive(size)
            => mem[p].next = HeapEnd /\ Room(mem, p) = Rounded(size)

\* The heap is sound after every call of rt_malloc, rt_free and rt_realloc: the
\* headers are one chain, lfree is one of them and hides no free block until
\* rt_realloc has cut one, the statistics are exact, and a request is refused
\* only for want of room or for an exact fit at the end.
HeapSound == MemTypeOK /\ Chained /\ UsedIsCounted /\ LowestFreeUncut /\ PassesOnlyExactEnd
==============================================================================
