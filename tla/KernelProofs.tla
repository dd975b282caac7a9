---------------------------- MODULE KernelProofs ----------------------------
(***************************************************************************)
(* The heap of RtMem, for every size of the heap, of a header and of the   *)
(* requests, and every number of threads; and the timer list of RtTimer,   *)
(* for every set of timers, every range of the tick and every delay a call *)
(* may meet, as long as time-outs and delays fit in half of that range.    *)
(***************************************************************************)
EXTENDS RtMem, RtTimer, WellFoundedInduction, FiniteSetTheorems, SequenceTheorems, TLAPS

\* The smallest of a set of numbers.
LEMMA MinIsLeast ==
  ASSUME NEW S, S \subseteq Nat, S # {}
  PROVE  Min(S) \in S /\ \A y \in S : Min(S) <= y
  <1>1. PICK x \in S : \A y \in S : ~(<<y, x>> \in OpToRel(<, Nat))
    BY NatLessThanWellFounded, WFMin
  <1>2. OpToRel(<, Nat) = {ss \in Nat \X Nat : ss[1] < ss[2]}
    BY DEF OpToRel
  <1>3. ASSUME NEW y \in S PROVE x <= y
    <2>1. <<y, x>> \notin {ss \in Nat \X Nat : ss[1] < ss[2]}
      BY <1>1, <1>2
    <2>2. <<y, x>> \in Nat \X Nat /\ <<y, x>>[1] = y /\ <<y, x>>[2] = x
      OBVIOUS
    <2>3. ~(y < x)
      BY <2>1, <2>2
    <2> QED  BY <2>3
  <1> QED  BY <1>3 DEF Min

\* What the assumption on the heap says of its numbers.
LEMMA Sizes ==
  /\ MemSize \in Nat /\ Header \in Nat /\ MinSize \in Nat /\ MemSize > 0 /\ Header > 0 /\ MinSize > 0
  /\ Requests \subseteq Nat /\ HeapEnd = MemSize + Header /\ HeapEnd \in Nat /\ HeapEnd > 0 /\ None = HeapEnd + 1
  BY HeapSizes DEF HeapEnd, None
-----------------------------------------------------------------------------
Record == [used : BOOLEAN, next : Nat, prev : 0..HeapEnd]

\* The headers in m are a chain from 0 to the end, and prev runs back along it.
Linked(m) ==
  /\ m \in [DOMAIN m -> Record]
  /\ 0 \in DOMAIN m /\ HeapEnd \in DOMAIN m /\ DOMAIN m \subseteq 0..HeapEnd
  /\ \A p \in DOMAIN m : p # HeapEnd =>
       /\ m[p].next \in DOMAIN m /\ m[p].next > p
       /\ \A q \in DOMAIN m : q <= p \/ m[p].next <= q
       /\ m[p].next # HeapEnd => m[m[p].next].prev = p
  /\ \A p \in DOMAIN m : p # HeapEnd /\ p # 0 =>
       m[p].prev \in DOMAIN m /\ m[p].prev < p /\ m[m[p].prev].next = p
  /\ m[0].prev = 0 /\ m[HeapEnd].used = TRUE /\ m[HeapEnd].next = HeapEnd

\* No two neighbours are free, except perhaps p with one of its own.
Merged(m, p) ==
  \A x \in DOMAIN m : x # HeapEnd /\ x # p /\ m[x].next # p /\ m[x].used = FALSE => m[m[x].next].used = TRUE

\* No two neighbours are free.
Clean(m) == \A x \in DOMAIN m : x # HeapEnd /\ m[x].used = FALSE => m[m[x].next].used = TRUE

\* What merging may do to m: free headers go, and the used ones keep their room.
Shrinks(m, r) ==
  /\ DOMAIN r \subseteq DOMAIN m /\ \A x \in DOMAIN m : m[x].used = TRUE => x \in DOMAIN r
  /\ \A x \in DOMAIN r : r[x].used = m[x].used /\ (m[x].used = TRUE => r[x].next = m[x].next)

\* r is m with a free header b between p and the next one.
Inserted(m, r, p, b) ==
  /\ Linked(r) /\ DOMAIN r = DOMAIN m \cup {b} /\ b \notin DOMAIN m /\ b # HeapEnd
  /\ \A x \in DOMAIN m : r[x].used = m[x].used /\ (x # p => r[x].next = m[x].next)
  /\ r[p].next = b /\ r[b].next = m[p].next /\ r[b].used = FALSE

\* r is m with the header p used or free.
Marked(m, r, p, u) ==
  /\ Linked(r) /\ DOMAIN r = DOMAIN m /\ r[p].used = u
  /\ \A x \in DOMAIN m : r[x].next = m[x].next /\ (x # p => r[x].used = m[x].used)

\* Split inserts a header.
LEMMA SplitLinks ==
  ASSUME NEW m, Linked(m), NEW p, p \in DOMAIN m, p # HeapEnd, NEW b, b \in Nat, p < b, b < m[p].next
  PROVE  Inserted(m, Split(m, p, b), p, b)
  <1> USE Sizes
  <1> DEFINE n == m[p].next
             D == DOMAIN m \cup {b}
             r == Split(m, p, b)
  <1>0. /\ m \in [DOMAIN m -> Record] /\ DOMAIN m \subseteq 0..HeapEnd /\ p \in Nat /\ n \in Nat /\ n \in DOMAIN m /\ n <= HeapEnd
        /\ b \notin DOMAIN m /\ b # HeapEnd /\ p # b /\ n # b /\ n # p
    BY DEF Linked
  <1>1. /\ r \in [D -> Record] /\ DOMAIN r = D
        /\ r[b] = [used |-> FALSE, next |-> n, prev |-> p]
        /\ \A x \in DOMAIN m : /\ r[x].used = m[x].used
                               /\ r[x].next = IF x = p THEN b ELSE m[x].next
                               /\ r[x].prev = IF x = n /\ n # HeapEnd THEN b ELSE m[x].prev
    <2> DEFINE m1 == [m EXCEPT ![p].next = b]
               m2 == Put(m1, b, [used |-> FALSE, next |-> n, prev |-> p])
    <2>1. /\ m1 \in [DOMAIN m -> Record] /\ DOMAIN m1 = DOMAIN m
          /\ \A x \in DOMAIN m : /\ m1[x].used = m[x].used /\ m1[x].prev = m[x].prev
                                 /\ m1[x].next = IF x = p THEN b ELSE m[x].next
      BY <1>0 DEF Record
    <2> HIDE DEF m1
    <2>2. /\ m2 \in [D -> Record] /\ DOMAIN m2 = D
          /\ m2[b] = [used |-> FALSE, next |-> n, prev |-> p]
          /\ \A x \in DOMAIN m : m2[x] = m1[x]
      BY <1>0, <2>1 DEF Put, Record
    <2>3. r = IF n # HeapEnd THEN [m2 EXCEPT ![n].prev = b] ELSE m2
      BY DEF Split, m1
    <2> HIDE DEF m2, r
    <2>4. CASE n = HeapEnd
      BY <1>0, <2>1, <2>2, <2>3, <2>4
    <2>5. CASE n # HeapEnd
      <3>1. /\ r \in [D -> Record] /\ DOMAIN r = D /\ r[b] = m2[b]
            /\ \A x \in D : /\ r[x].used = m2[x].used /\ r[x].next = m2[x].next
                           /\ r[x].prev = IF x = n THEN b ELSE m2[x].prev
        <4>1. b \in 0..HeapEnd /\ n \in D /\ b \in D
          BY <1>0
        <4> QED  BY <1>0, <2>2, <2>3, <2>5, <4>1, ZenonT(40) DEF Record
      <3> QED  BY <1>0, <2>1, <2>2, <2>5, <3>1
    <2> QED  BY <2>4, <2>5
  <1> HIDE DEF r
  <1>2. 0 \in DOMAIN r /\ HeapEnd \in DOMAIN r /\ DOMAIN r \subseteq 0..HeapEnd /\ r[0].prev = 0 /\ r[HeapEnd].used = TRUE
    BY <1>0, <1>1 DEF Linked
  <1>3. ASSUME NEW x \in D, x # HeapEnd
        PROVE  /\ r[x].next \in D /\ r[x].next > x
               /\ \A q \in D : q <= x \/ r[x].next <= q
               /\ r[x].next # HeapEnd => r[r[x].next].prev = x
    <2>1. CASE x = b
      BY <1>0, <1>1, <2>1 DEF Linked
    <2>2. CASE x = p
      BY <1>0, <1>1, <2>2 DEF Linked
    <2>3. CASE x # b /\ x # p
      <3>1. x \in DOMAIN m /\ x \in Nat /\ m[x].next \in DOMAIN m /\ m[x].next > x /\ r[x].next = m[x].next /\ m[x].next \in Nat
        BY <1>0, <1>1, <1>3, <2>3 DEF Linked
      <3>2. \A q \in DOMAIN m : q <= x \/ m[x].next <= q
        BY <1>3, <3>1 DEF Linked
      <3>3. b <= x \/ m[x].next <= b
        <4>1. x <= p \/ n <= x
          BY <3>1 DEF Linked
        <4>2. p <= x \/ m[x].next <= p
          BY <3>2
        <4> QED  BY <1>0, <2>3, <3>1, <4>1, <4>2
      <3>4. m[x].next # n
        BY <1>0, <1>3, <2>3, <3>1 DEF Linked
      <3>5. m[x].next # HeapEnd => r[m[x].next].prev = x
        BY <1>0, <1>1, <1>3, <3>1, <3>4 DEF Linked
      <3> QED  BY <3>1, <3>2, <3>3, <3>5
    <2> QED  BY <2>1, <2>2, <2>3
  <1>4. ASSUME NEW x \in D, x # HeapEnd, x # 0
        PROVE  r[x].prev \in D /\ r[x].prev < x /\ r[r[x].prev].next = x
    <2>1. CASE x = b
      BY <1>0, <1>1, <2>1
    <2>2. CASE x = n
      BY <1>0, <1>1, <1>4, <2>2
    <2>3. CASE x # b /\ x # n
      <3>1. x \in DOMAIN m /\ m[x].prev \in DOMAIN m /\ m[x].prev < x /\ m[m[x].prev].next = x
        BY <1>4, <2>3 DEF Linked
      <3> QED  BY <1>0, <1>1, <2>3, <3>1
    <2> QED  BY <2>1, <2>2, <2>3
  <1>5. Linked(r)
    BY <1>1, <1>2, <1>3, <1>4 DEF Linked
  <1> QED  BY <1>0, <1>1, <1>5 DEF r, Inserted

\* A header that gets another predecessor.
LEMMA PrevSet ==
  ASSUME NEW D, NEW f \in [D -> Record], NEW n \in D, NEW v \in 0..HeapEnd
  PROVE  LET r == [f EXCEPT ![n].prev = v]
         IN  /\ r \in [D -> Record]
             /\ \A x \in D : /\ r[x].used = f[x].used /\ r[x].next = f[x].next
                             /\ r[x].prev = IF x = n THEN v ELSE f[x].prev
  BY DEF Record

\* Take the header behind p away.
LEMMA AbsorbLinks ==
  ASSUME NEW h, Linked(h.mem), NEW p \in DOMAIN h.mem, p # HeapEnd, NEW q, q = h.mem[p].next, q # HeapEnd
  PROVE  LET r == Absorb(h, p, q).mem
             m == h.mem
         IN  /\ Linked(r) /\ DOMAIN r = DOMAIN m \ {q}
             /\ \A x \in DOMAIN r : r[x].used = m[x].used /\ r[x].next = IF x = p THEN m[q].next ELSE m[x].next
             /\ Absorb(h, p, q).lfree = IF h.lfree = q THEN p ELSE h.lfree
             /\ r[p].prev = m[p].prev
  <1> USE Sizes
  <1> DEFINE m == h.mem
             r == Absorb(h, p, q).mem
             n == m[q].next
             D == DOMAIN m \ {q}
  <1>0. /\ m \in [DOMAIN m -> Record] /\ DOMAIN m \subseteq 0..HeapEnd /\ p \in Nat /\ n \in Nat /\ n \in DOMAIN m
        /\ q \in DOMAIN m /\ q \in Nat /\ p < q /\ q < n /\ q # 0 /\ p \in D /\ n \in D /\ p # n
    BY DEF Linked
  <1>1. /\ r \in [D -> Record] /\ DOMAIN r = D
        /\ \A x \in D : /\ r[x].used = m[x].used
                        /\ r[x].next = IF x = p THEN n ELSE m[x].next
                        /\ r[x].prev = IF x = n THEN p ELSE m[x].prev
    <2> DEFINE m1 == [m EXCEPT ![p].next = n]
               m2 == [m1 EXCEPT ![n].prev = p]
    <2>1. /\ m1 \in [DOMAIN m -> Record]
          /\ \A x \in DOMAIN m : /\ m1[x].used = m[x].used /\ m1[x].prev = m[x].prev
                                 /\ m1[x].next = IF x = p THEN n ELSE m[x].next
      BY <1>0 DEF Record
    <2> HIDE DEF m1
    <2>2. /\ m2 \in [DOMAIN m -> Record]
          /\ \A x \in DOMAIN m : /\ m2[x].used = m1[x].used /\ m2[x].next = m1[x].next
                                 /\ m2[x].prev = IF x = n THEN p ELSE m1[x].prev
      <3>1. n \in DOMAIN m /\ p \in 0..HeapEnd
        BY <1>0
      <3> HIDE DEF n, m
      <3> QED  BY <2>1, <3>1, PrevSet
    <2>3. r = Drop(m2, q)
      BY DEF Absorb, m1
    <2> HIDE DEF m2, r
    <2> QED  BY <1>0, <2>1, <2>2, <2>3, ZenonT(40) DEF Drop
  <1>2. Absorb(h, p, q).lfree = IF h.lfree = q THEN p ELSE h.lfree
    BY DEF Absorb
  <1> HIDE DEF r
  <1>3. 0 \in DOMAIN r /\ HeapEnd \in DOMAIN r /\ DOMAIN r \subseteq 0..HeapEnd /\ r[0].prev = 0 /\ r[HeapEnd].used = TRUE
    <2>1. 0 \in DOMAIN m /\ HeapEnd \in DOMAIN m /\ m[0].prev = 0 /\ m[HeapEnd].used = TRUE /\ q # HeapEnd
      BY DEF Linked
    <2>2. 0 \in D /\ HeapEnd \in D /\ n # 0
      BY <1>0, <2>1
    <2>3. r[0].prev = m[0].prev /\ r[HeapEnd].used = m[HeapEnd].used
      BY <1>1, <2>2
    <2> HIDE DEF m, n
    <2> QED  BY <1>0, <1>1, <2>1, <2>2, <2>3
  <1>4. ASSUME NEW x \in D, x # HeapEnd
        PROVE  /\ r[x].next \in D /\ r[x].next > x
               /\ \A y \in D : y <= x \/ r[x].next <= y
               /\ r[x].next # HeapEnd => r[r[x].next].prev = x
    <2>1. CASE x = p
      <3>1. \A y \in DOMAIN m : (y <= p \/ q <= y) /\ (y <= q \/ n <= y)
        BY <1>0 DEF Linked
      <3>2. r[p].next = n /\ r[n].prev = p
        BY <1>0, <1>1
      <3>3. ASSUME NEW y \in D  PROVE y <= p \/ n <= y
        <4>1. y \in DOMAIN m /\ y # q /\ y \in Nat
          BY <1>0, <3>3
        <4> HIDE DEF m, n, D
        <4> QED  BY <1>0, <3>1, <4>1
      <3>4. n > p
        BY <1>0
      <3> HIDE DEF m, n, D
      <3> QED  BY <1>0, <2>1, <3>2, <3>3, <3>4
    <2>2. CASE x # p
      <3>1. x \in DOMAIN m /\ x \in Nat /\ m[x].next \in DOMAIN m /\ m[x].next > x /\ r[x].next = m[x].next /\ m[x].next \in Nat
        <4>1. x \in DOMAIN m /\ m[x].next \in DOMAIN m /\ m[x].next > x
          BY <1>4 DEF Linked
        <4>2. r[x].next = m[x].next
          BY <1>1, <1>4, <2>2
        <4> HIDE DEF m, n, D
        <4> QED  BY <1>0, <4>1, <4>2
      <3>2. \A y \in DOMAIN m : y <= x \/ m[x].next <= y
        BY <1>4, <3>1 DEF Linked
      <3>3. m[x].next # q
        BY <1>0, <1>4, <2>2, <3>1 DEF Linked
      <3>4. m[x].next # n
        <4>1. q <= x \/ m[x].next <= q
          BY <1>0, <3>2
        <4>2. x # q
          BY <1>4
        <4>3. x <= q \/ n <= x
          BY <1>0, <3>1 DEF Linked
        <4> QED  BY <1>0, <3>1, <4>1, <4>2, <4>3
      <3>5. m[x].next # HeapEnd => m[m[x].next].prev = x
        BY <1>4, <3>1 DEF Linked
      <3>6. m[x].next \in D /\ r[m[x].next].prev = m[m[x].next].prev
        BY <1>1, <3>1, <3>3, <3>4
      <3>7. \A y \in D : y \in DOMAIN m
        OBVIOUS
      <3> HIDE DEF m, n, D
      <3> QED  BY <3>1, <3>2, <3>5, <3>6, <3>7
    <2> QED  BY <2>1, <2>2
  <1>5. ASSUME NEW x \in D, x # HeapEnd, x # 0
        PROVE  r[x].prev \in D /\ r[x].prev < x /\ r[r[x].prev].next = x
    <2>1. CASE x = n
      <3>1. r[n].prev = p /\ r[p].next = n
        BY <1>0, <1>1
      <3> QED  BY <1>0, <2>1, <3>1
    <2>2. CASE x # n
      <3>1. x \in DOMAIN m /\ m[x].prev \in DOMAIN m /\ m[x].prev < x /\ m[m[x].prev].next = x
        BY <1>5 DEF Linked
      <3>2. m[x].prev # q /\ m[x].prev # p
        BY <1>5, <2>2, <3>1
      <3> QED  BY <1>0, <1>1, <2>2, <3>1, <3>2, ZenonT(40)
    <2> QED  BY <2>1, <2>2
  <1>6. Linked(r)
    BY <1>1, <1>3, <1>4, <1>5 DEF Linked
  <1> QED  BY <1>0, <1>1, <1>2, <1>6 DEF r

\* A header that is given another state stays where it is.
LEMMA MarkLinks ==
  ASSUME NEW m, Linked(m), NEW p, p \in DOMAIN m, p # HeapEnd, NEW u \in BOOLEAN
  PROVE  Marked(m, [m EXCEPT ![p].used = u], p, u)
  <1> DEFINE r == [m EXCEPT ![p].used = u]
  <1>0. m \in [DOMAIN m -> Record]
    BY DEF Linked
  <1>1. /\ r \in [DOMAIN m -> Record] /\ DOMAIN r = DOMAIN m
        /\ \A x \in DOMAIN m : /\ r[x].next = m[x].next /\ r[x].prev = m[x].prev
                               /\ (x = p => r[x].used = u) /\ (x # p => r[x].used = m[x].used)
    BY <1>0 DEF Record
  <1> HIDE DEF r
  <1>2. Linked(r)
    BY <1>1, Sizes DEF Linked
  <1> QED  BY <1>1, <1>2 DEF r, Marked

\* A free block merged with a free successor.
LEMMA ForwardLinks ==
  ASSUME NEW h, Linked(h.mem), h.lfree \in DOMAIN h.mem, NEW p \in DOMAIN h.mem, p # HeapEnd,
         h.mem[p].used = FALSE, Merged(h.mem, p)
  PROVE  LET g == PlugForward(h, p)
         IN  /\ Linked(g.mem) /\ Merged(g.mem, p) /\ p \in DOMAIN g.mem /\ g.mem[g.mem[p].next].used = TRUE
             /\ Shrinks(h.mem, g.mem) /\ g.lfree \in DOMAIN g.mem /\ g.lfree <= h.lfree
  <1> USE Sizes
  <1> DEFINE m == h.mem
             n == m[p].next
             g == PlugForward(h, p)
  <1>0. /\ m \in [DOMAIN m -> Record] /\ DOMAIN m \subseteq 0..HeapEnd /\ n \in DOMAIN m /\ n > p /\ p \in Nat /\ n \in Nat
        /\ m[n].used \in BOOLEAN /\ m[HeapEnd].used = TRUE /\ h.lfree \in Nat
    BY DEF Linked, Record
  <1>1. CASE m[n].used = TRUE
    <2>1. g = h
      BY <1>1 DEF PlugForward
    <2> QED  BY <1>0, <1>1, <2>1 DEF Shrinks
  <1>2. CASE m[n].used = FALSE
    <2>0. n # HeapEnd
      BY <1>0, <1>2
    <2>1. g = Absorb(h, p, n)
      BY <1>0, <1>2, <2>0 DEF PlugForward
    <2> DEFINE r == Absorb(h, p, n).mem
    <2>2. /\ Linked(r) /\ DOMAIN r = DOMAIN m \ {n}
          /\ \A x \in DOMAIN r : r[x].used = m[x].used /\ r[x].next = IF x = p THEN m[n].next ELSE m[x].next
          /\ Absorb(h, p, n).lfree = IF h.lfree = n THEN p ELSE h.lfree
      BY <2>0, AbsorbLinks
    <2> HIDE DEF r
    <2>3. p \in DOMAIN r /\ r[r[p].next].used = TRUE
      <3>1. m[n].next \in DOMAIN m /\ m[n].next > n /\ m[n].next \in Nat
        BY <1>0, <2>0 DEF Linked
      <3>2. m[n].next # p /\ n # p
        BY <1>0, <3>1
      <3>3. m[m[n].next].used = TRUE
        BY <1>0, <1>2, <2>0, <3>2 DEF Merged
      <3>4. m[n].next \in DOMAIN r /\ p \in DOMAIN r
        BY <1>0, <2>2, <3>1
      <3> QED  BY <2>2, <3>3, <3>4
    <2>4. Merged(r, p)
      <3> SUFFICES ASSUME NEW x \in DOMAIN r, x # HeapEnd, x # p, r[x].next # p, r[x].used = FALSE
                   PROVE  r[r[x].next].used = TRUE
        BY DEF Merged
      <3>1. x \in DOMAIN m /\ r[x].next = m[x].next /\ m[x].used = FALSE /\ r[x].next \in DOMAIN r
        BY <2>2 DEF Linked
      <3>2. m[m[x].next].used = TRUE
        BY <3>1 DEF Merged
      <3> QED  BY <2>2, <3>1, <3>2
    <2>5. Shrinks(m, r)
      BY <1>2, <2>2 DEF Shrinks
    <2>6. Absorb(h, p, n).lfree \in DOMAIN r /\ Absorb(h, p, n).lfree <= h.lfree
      BY <1>0, <2>2
    <2>7. g.mem = r /\ g.lfree = Absorb(h, p, n).lfree
      BY <2>1 DEF r
    <2> QED  BY <2>2, <2>3, <2>4, <2>5, <2>6, <2>7
  <1> QED  BY <1>0, <1>1, <1>2

\* plug_holes leaves no two free neighbours and takes nothing from a used block.
LEMMA PlugHoles ==
  ASSUME NEW m, Linked(m), NEW l \in DOMAIN m, NEW p \in DOMAIN m, p # HeapEnd, m[p].used = FALSE, Merged(m, p)
  PROVE  LET h == plug_holes(m, l, p)
         IN  Linked(h.mem) /\ Clean(h.mem) /\ Shrinks(m, h.mem) /\ h.lfree \in DOMAIN h.mem /\ h.lfree <= l
  <1> USE Sizes
  <1> DEFINE f == [mem |-> m, lfree |-> l]
             g == PlugForward(f, p)
             h == PlugBackward(g, p)
             b == g.mem[p].prev
  <1>1. /\ Linked(g.mem) /\ Merged(g.mem, p) /\ p \in DOMAIN g.mem /\ g.mem[g.mem[p].next].used = TRUE
        /\ Shrinks(m, g.mem) /\ g.lfree \in DOMAIN g.mem /\ g.lfree <= l
    <2>1. f.mem = m /\ f.lfree = l
      OBVIOUS
    <2> HIDE DEF f
    <2> QED  BY <2>1, ForwardLinks
  <1>2. plug_holes(m, l, p) = h
    BY DEF plug_holes
  <1> HIDE DEF g
  <1>3. /\ p \in Nat /\ g.mem \in [DOMAIN g.mem -> Record] /\ g.lfree \in Nat /\ g.mem[p].used = FALSE
        /\ DOMAIN g.mem \subseteq 0..HeapEnd /\ l \in Nat
    BY <1>1 DEF Linked, Shrinks
  <1>4. CASE p = 0 \/ g.mem[b].used = TRUE
    <2>1. h = g
      BY <1>1, <1>4 DEF PlugBackward, Linked
    <2>2. Clean(g.mem)
      <3> SUFFICES ASSUME NEW x \in DOMAIN g.mem, x # HeapEnd, g.mem[x].used = FALSE
                   PROVE  g.mem[g.mem[x].next].used = TRUE
        BY DEF Clean
      <3>1. CASE x = p
        BY <1>1, <3>1
      <3>2. CASE x # p /\ g.mem[x].next # p
        BY <1>1, <3>2 DEF Merged
      <3>3. CASE g.mem[x].next = p
        <4>1. b = x /\ p # 0
          BY <1>1, <3>3 DEF Linked
        <4> QED  BY <1>4, <4>1
      <3> QED  BY <3>1, <3>2, <3>3
    <2> QED  BY <1>1, <1>2, <2>1, <2>2
  <1>5. CASE p # 0 /\ g.mem[b].used # TRUE
    <2>0. b \in DOMAIN g.mem /\ b < p /\ g.mem[b].next = p /\ b \in Nat /\ b # HeapEnd /\ g.mem[b].used = FALSE
      <3>1. b \in DOMAIN g.mem /\ b < p /\ g.mem[b].next = p
        BY <1>1, <1>5 DEF Linked
      <3>2. b \in Nat /\ b # HeapEnd /\ g.mem[b].used \in BOOLEAN
        BY <1>1, <1>3, <3>1 DEF Record
      <3> QED  BY <1>5, <3>1, <3>2
    <2>1. h = Absorb(g, b, p)
      BY <2>0 DEF PlugBackward
    <2> DEFINE r == Absorb(g, b, p).mem
               M == g.mem
    <2>2. /\ Linked(r) /\ DOMAIN r = DOMAIN M \ {p}
          /\ \A x \in DOMAIN r : r[x].used = M[x].used /\ r[x].next = IF x = b THEN M[p].next ELSE M[x].next
          /\ Absorb(g, b, p).lfree = IF g.lfree = p THEN b ELSE g.lfree
      BY <1>1, <2>0, AbsorbLinks
    <2> HIDE DEF r, b
    <2>3. Clean(r)
      <3> SUFFICES ASSUME NEW x \in DOMAIN r, x # HeapEnd, r[x].used = FALSE
                   PROVE  r[r[x].next].used = TRUE
        BY DEF Clean
      <3>0. r[x].next \in DOMAIN r /\ x \in DOMAIN M /\ x # p /\ M[x].used = FALSE
        BY <2>2 DEF Linked
      <3>1. CASE x = b
        BY <1>1, <2>2, <3>0, <3>1
      <3>2. CASE x # b
        <4>1. r[x].next = M[x].next /\ M[x].next # p
          BY <2>2, <3>0, <3>2
        <4>2. M[M[x].next].used = TRUE
          BY <1>1, <3>0, <4>1 DEF Merged
        <4> QED  BY <2>2, <3>0, <4>1, <4>2
      <3> QED  BY <3>1, <3>2
    <2>4. Shrinks(M, r)
      BY <1>3, <2>0, <2>2 DEF Shrinks
    <2>5. Shrinks(m, r)
      BY <1>1, <2>4 DEF Shrinks
    <2>6. Absorb(g, b, p).lfree \in DOMAIN r /\ Absorb(g, b, p).lfree <= l
      BY <1>1, <1>3, <2>0, <2>2
    <2> QED  BY <1>2, <2>1, <2>2, <2>3, <2>5, <2>6 DEF r, b
  <1> QED  BY <1>4, <1>5
-----------------------------------------------------------------------------
\* lfree is at or below every free block.
Below(m, l) == \A p \in DOMAIN m : p # HeapEnd /\ m[p].used = FALSE => l <= p

\* The blocks.
Heap == Linked(mem) /\ Clean(mem) /\ lfree \in DOMAIN mem /\ (shrunk = FALSE => Below(mem, lfree))

\* Whose they are: the owners hold the used blocks, and a block that is being
\* moved belongs to the thread that moves it.
Owned ==
  /\ owner \in [DOMAIN owner -> Threads] /\ wants \in [DOMAIN owner -> Nat]
  /\ DOMAIN owner = {p \in DOMAIN mem : p # HeapEnd /\ mem[p].used = TRUE}
  /\ \A p \in DOMAIN owner : Room(mem, p) >= wants[p]
Movers ==
  /\ moving \in [Threads -> Nat]
  /\ \A t \in Threads : moving[t] # None => moving[t] \in DOMAIN owner /\ owner[moving[t]] = t

\* What rt_malloc does to the headers: the free block p is used, and what it
\* does not need is a free block behind it.
Given(m, r, p, size) ==
  /\ p \in DOMAIN m /\ p # HeapEnd /\ m[p].used = FALSE
  /\ DOMAIN m \subseteq DOMAIN r
  /\ \A x \in DOMAIN m : x # p => r[x].used = m[x].used /\ r[x].next = m[x].next
  /\ \A x \in DOMAIN r : x \notin DOMAIN m => r[x].used = FALSE
  /\ r[p].used = TRUE /\ Room(r, p) >= size

\* rt_malloc's part under heap_sem, found a block or split one.
LEMMA TakenLinks ==
  ASSUME Heap, NEW s \in Nat, s > 0, NEW p \in DOMAIN mem, p # HeapEnd, p >= lfree, mem[p].used = FALSE, Room(mem, p) >= s
  PROVE  LET h == Taken(p, s)
         IN  /\ Linked(h.mem) /\ Clean(h.mem) /\ h.lfree \in DOMAIN h.mem
             /\ Below(mem, lfree) => Below(h.mem, h.lfree)
             /\ Given(mem, h.mem, p, s) /\ h.used = h.mem[p].next - p
  <1> USE Sizes
  <1> DEFINE b == p + Header + s
             n == mem[p].next
             m1 == IF Splits(mem, p, s) THEN Split(mem, p, b) ELSE mem
             m2 == [m1 EXCEPT ![p].used = TRUE]
             free == {q \in DOMAIN m2 \ {HeapEnd} : q >= lfree /\ ~m2[q].used}
             lf == IF p # lfree THEN lfree ELSE IF free = {} THEN HeapEnd ELSE Min(free)
  <1>0. /\ Linked(mem) /\ Clean(mem) /\ lfree \in DOMAIN mem /\ mem \in [DOMAIN mem -> Record] /\ DOMAIN mem \subseteq 0..HeapEnd
        /\ n \in DOMAIN mem /\ n \in Nat /\ p \in Nat /\ b \in Nat /\ p < b /\ lfree \in Nat /\ mem[n].used = TRUE
        /\ n - (p + Header) >= s
    BY DEF Heap, Linked, Room, Clean
  <1>1. /\ Linked(m1) /\ DOMAIN mem \subseteq DOMAIN m1 /\ m1[p].next - (p + Header) >= s
        /\ \A x \in DOMAIN mem : m1[x].used = mem[x].used /\ (x # p => m1[x].next = mem[x].next)
        /\ \A x \in DOMAIN m1 : x \notin DOMAIN mem => x = b /\ m1[x].used = FALSE /\ m1[x].next = n
        /\ (m1[p].next = b /\ b \in DOMAIN m1) \/ (m1[p].next = n /\ DOMAIN m1 = DOMAIN mem)
        /\ Splits(mem, p, s) => m1[p].next = b
    <2>1. CASE Splits(mem, p, s)
      <3>1. b < n
        BY <1>0, <2>1 DEF Splits, Room
      <3>2. m1 = Split(mem, p, b)
        BY <2>1
      <3> HIDE DEF m1, n, b
      <3>3. /\ Linked(m1) /\ DOMAIN m1 = DOMAIN mem \cup {b} /\ b \notin DOMAIN mem
            /\ \A x \in DOMAIN mem : m1[x].used = mem[x].used /\ (x # p => m1[x].next = mem[x].next)
            /\ m1[p].next = b /\ m1[b].next = n /\ m1[b].used = FALSE
        <4>1. Linked(mem) /\ b \in Nat /\ p < b /\ b < mem[p].next
          BY <1>0, <3>1 DEF n
        <4>2. Inserted(mem, m1, p, b)
          BY <3>2, <4>1, SplitLinks
        <4> QED  BY <4>2 DEF Inserted, n
      <3>4. b - (p + Header) >= s
        BY <1>0 DEF b
      <3> QED  BY <3>3, <3>4
    <2>2. CASE ~Splits(mem, p, s)
      <3>1. m1 = mem
        BY <2>2
      <3> HIDE DEF m1
      <3> QED  BY <1>0, <2>2, <3>1
    <2> QED  BY <2>1, <2>2
  <1> HIDE DEF m1
  <1>2. /\ Linked(m2) /\ DOMAIN m2 = DOMAIN m1
        /\ \A x \in DOMAIN m1 : /\ m2[x].next = m1[x].next
                               /\ (x = p => m2[x].used = TRUE) /\ (x # p => m2[x].used = m1[x].used)
    <2>1. p \in DOMAIN m1 /\ TRUE \in BOOLEAN
      BY <1>1
    <2>2. Marked(m1, m2, p, TRUE)
      BY <1>1, <2>1, MarkLinks
    <2> HIDE DEF m2
    <2> QED  BY <2>2 DEF Marked
  <1>3. Taken(p, s).mem = m2 /\ Taken(p, s).lfree = lf
    BY DEF Taken, m1
  <1>u. Taken(p, s).used = IF Splits(mem, p, s) THEN s + Header ELSE m2[p].next - p
    BY DEF Taken, m1, Extent
  <1>v. Taken(p, s).used = m2[p].next - p
    <2> HIDE DEF m2
    <2>1. p \in DOMAIN m1 /\ m2[p].next = m1[p].next
      BY <1>1, <1>2
    <2> QED  BY <1>0, <1>1, <1>u, <2>1
  <1> HIDE DEF m2, n, b
  <1>4. Given(mem, m2, p, s)
    BY <1>0, <1>1, <1>2 DEF Given, Room
  <1>5. Clean(m2)
    <2> SUFFICES ASSUME NEW x \in DOMAIN m2, x # HeapEnd, m2[x].used = FALSE PROVE m2[m2[x].next].used = TRUE
      BY DEF Clean
    <2>0. x # p /\ m2[x].next \in DOMAIN m1 /\ m1[x].used = FALSE /\ m2[x].next = m1[x].next /\ x \in DOMAIN m1
      BY <1>2 DEF Linked
    <2>1. CASE x \in DOMAIN mem
      <3>1. mem[x].next \in DOMAIN mem /\ mem[mem[x].next].used = TRUE
        BY <1>0, <1>1, <2>0, <2>1, SMTT(30) DEF Clean, Linked
      <3> QED  BY <1>1, <1>2, <2>0, <2>1, <3>1
    <2>2. CASE x \notin DOMAIN mem
      BY <1>0, <1>1, <1>2, <2>0, <2>2
    <2> QED  BY <2>1, <2>2
  <1>6. /\ m2 \in [DOMAIN m2 -> Record] /\ DOMAIN m2 \subseteq 0..HeapEnd /\ free \subseteq Nat
        /\ \A x \in DOMAIN m2 : (~m2[x].used) <=> m2[x].used = FALSE
    BY <1>2 DEF Linked, Record
  <1>7. \A x \in free : x \in DOMAIN m2
    OBVIOUS
  <1>8. free # {} => Min(free) \in free /\ \A y \in free : Min(free) <= y
    BY <1>6, MinIsLeast
  <1>9. lf \in DOMAIN m2
    <2>1. lfree \in DOMAIN m2 /\ HeapEnd \in DOMAIN m2
      BY <1>0, <1>1, <1>2 DEF Linked
    <2> HIDE DEF free
    <2> QED  BY <1>7, <1>8, <2>1
  <1>10. ASSUME Below(mem, lfree), NEW x \in DOMAIN m2, x # HeapEnd, m2[x].used = FALSE PROVE lf <= x
    <2>1. x >= lfree /\ x \in Nat
      <3>1. CASE x \in DOMAIN mem
        BY <1>0, <1>1, <1>2, <1>10, <3>1 DEF Below
      <3>2. CASE x \notin DOMAIN mem
        <4>1. x = b /\ lfree <= p
          BY <1>0, <1>1, <1>2, <3>2
        <4> QED  BY <1>0, <4>1
      <3> QED  BY <3>1, <3>2
    <2>2. x \in free
      BY <1>6, <1>10, <2>1
    <2> HIDE DEF free
    <2> QED  BY <1>8, <2>1, <2>2
  <1>11. Below(mem, lfree) => Below(m2, lf)
    BY <1>10 DEF Below
  <1> HIDE DEF lf
  <1> QED  BY <1>2, <1>3, <1>v, <1>4, <1>5, <1>9, <1>11

\* The units of the heap that lie in a used block or in its header.
Cover(m) ==
  {x \in 0..(HeapEnd - 1) : \E p \in DOMAIN m : p # HeapEnd /\ m[p].used = TRUE /\ p <= x /\ x < m[p].next}

\* The statistics are exact.
Counted == used_mem = Cardinality(Cover(mem)) /\ max_mem \in 0..HeapEnd

\* Their number is at most the size of the heap.
LEMMA CoverBounded ==
  ASSUME NEW m
  PROVE  IsFiniteSet(Cover(m)) /\ Cardinality(Cover(m)) \in 0..HeapEnd
  <1> USE Sizes
  <1> DEFINE e == HeapEnd - 1
  <1>1. 0 \in Int /\ e \in Int /\ Cover(m) \in SUBSET (0..e)
    BY DEF Cover
  <1> HIDE DEF e
  <1>2. IsFiniteSet(0..e) /\ Cardinality(0..e) = IF 0 > e THEN 0 ELSE e - 0 + 1
    BY ONLY <1>1, FS_Interval, Zenon
  <1>3. Cardinality(0..e) = HeapEnd
    BY <1>2 DEF e
  <1>4. IsFiniteSet(Cover(m)) /\ Cardinality(Cover(m)) <= Cardinality(0..e)
    BY <1>1, <1>2, FS_Subset
  <1>5. Cardinality(Cover(m)) \in Nat
    BY <1>4, FS_CardinalityType
  <1> QED  BY <1>3, <1>4, <1>5

\* Two heaps that differ in the used block at p: in r it reaches up to its next
\* header, in m only up to a, or it is not used at all.
Differs(m, r, p, a) ==
  /\ \A x : x # p => ( (x \in DOMAIN m /\ x # HeapEnd /\ m[x].used = TRUE)
                        <=> (x \in DOMAIN r /\ x # HeapEnd /\ r[x].used = TRUE) )
  /\ \A x \in DOMAIN r : x # p /\ x # HeapEnd /\ r[x].used = TRUE => m[x].next = r[x].next
  /\ \/ a = p /\ ~(p \in DOMAIN m /\ m[p].used = TRUE)
     \/ p \in DOMAIN m /\ m[p].used = TRUE /\ m[p].next = a

\* In r so many more units are in use than in m.
Gains(m, r, units) == Cardinality(Cover(r)) = Cardinality(Cover(m)) + units

\* If they differ so, r has the units from a on in use and m has not.
LEMMA CoverGrows ==
  ASSUME NEW m, NEW r, Linked(r), NEW p, p \in DOMAIN r, p # HeapEnd, r[p].used = TRUE,
         NEW a, a \in Nat, p <= a, a <= r[p].next, Differs(m, r, p, a)
  PROVE  Gains(m, r, r[p].next - a)
  <1> USE Sizes DEF Differs
  <1> DEFINE n == r[p].next
             e == n - 1
             B == a..e
  <1>1. /\ p \in Nat /\ n \in Nat /\ n <= HeapEnd /\ DOMAIN r \subseteq Nat
        /\ \A x \in DOMAIN r : x # HeapEnd => r[x].next \in Nat /\ r[x].next > x /\ (x = p \/ r[x].next <= p \/ n <= x)
    <2>1. /\ DOMAIN r \subseteq 0..HeapEnd
          /\ \A x \in DOMAIN r : x # HeapEnd => /\ r[x].next \in DOMAIN r /\ r[x].next > x
                                           /\ \A q \in DOMAIN r : q <= x \/ r[x].next <= q
      BY DEF Linked
    <2>2. p \in Nat /\ n \in Nat /\ n <= HeapEnd /\ DOMAIN r \subseteq Nat
      BY <2>1
    <2>3. ASSUME NEW x \in DOMAIN r, x # HeapEnd
          PROVE  r[x].next \in Nat /\ r[x].next > x /\ (x = p \/ r[x].next <= p \/ n <= x)
      <3>1. x \in Nat /\ r[x].next \in Nat /\ r[x].next > x /\ (p <= x \/ r[x].next <= p) /\ (x <= p \/ n <= x)
        BY <2>1, <2>2, <2>3
      <3> QED  BY <2>2, <3>1
    <2> QED  BY <2>2, <2>3
  <1>2. Cover(r) = Cover(m) \cup B
    <2>1. ASSUME NEW x \in Cover(r) PROVE x \in Cover(m) \cup B
      <3>1. PICK q \in DOMAIN r : q # HeapEnd /\ r[q].used = TRUE /\ q <= x /\ x < r[q].next
        BY DEF Cover
      <3>2. x \in 0..(HeapEnd - 1)
        BY DEF Cover
      <3>3. CASE q # p
        <4>1. q \in DOMAIN m /\ m[q].used = TRUE /\ m[q].next = r[q].next
          BY <3>1, <3>3
        <4> QED  BY <3>1, <3>2, <4>1 DEF Cover
      <3>4. CASE q = p /\ a <= x
        BY <1>1, <3>1, <3>2, <3>4
      <3>5. CASE q = p /\ ~(a <= x)
        <4>1. p \in DOMAIN m /\ m[p].used = TRUE /\ m[p].next = a /\ x < a
          BY <1>1, <3>1, <3>2, <3>5
        <4> QED  BY <3>1, <3>2, <3>5, <4>1 DEF Cover
      <3> QED  BY <3>3, <3>4, <3>5
    <2>2. ASSUME NEW x \in Cover(m) PROVE x \in Cover(r)
      <3>1. PICK q \in DOMAIN m : q # HeapEnd /\ m[q].used = TRUE /\ q <= x /\ x < m[q].next
        BY DEF Cover
      <3>2. x \in 0..(HeapEnd - 1)
        BY DEF Cover
      <3>3. CASE q # p
        <4>1. q \in DOMAIN r /\ r[q].used = TRUE /\ m[q].next = r[q].next
          BY <3>1, <3>3
        <4> QED  BY <3>1, <3>2, <4>1 DEF Cover
      <3>4. CASE q = p
        <4>1. m[p].next = a /\ p <= x /\ x < n
          BY <1>1, <3>1, <3>2, <3>4
        <4> QED  BY <3>2, <4>1 DEF Cover
      <3> QED  BY <3>3, <3>4
    <2>3. ASSUME NEW x \in B PROVE x \in Cover(r)
      <3>1. x \in 0..(HeapEnd - 1) /\ p <= x /\ x < n
        BY <1>1
      <3> QED  BY <3>1 DEF Cover
    <2> QED  BY <2>1, <2>2, <2>3
  <1>3. Cover(m) \cap B = {}
    <2> SUFFICES ASSUME NEW x \in Cover(m), x \in B PROVE FALSE
      OBVIOUS
    <2>1. PICK q \in DOMAIN m : q # HeapEnd /\ m[q].used = TRUE /\ q <= x /\ x < m[q].next
      BY DEF Cover
    <2>2. x \in Nat /\ a <= x /\ x < n
      BY <1>1
    <2>3. CASE q # p
      <3>1. q \in DOMAIN r /\ m[q].next = r[q].next
        BY <2>1, <2>3
      <3> QED  BY <1>1, <2>1, <2>2, <2>3, <3>1
    <2>4. CASE q = p
      BY <2>1, <2>2, <2>4
    <2> QED  BY <2>3, <2>4
  <1>4. a \in Int /\ e \in Int
    BY <1>1
  <1> HIDE DEF e
  <1>5. IsFiniteSet(a..e) /\ Cardinality(a..e) = IF a > e THEN 0 ELSE e - a + 1
    BY ONLY <1>4, FS_Interval, Zenon
  <1>6. Cardinality(B) = n - a /\ IsFiniteSet(B)
    BY <1>1, <1>4, <1>5 DEF e
  <1>7. IsFiniteSet(Cover(m)) /\ Cardinality(Cover(m)) \in Nat
    BY CoverBounded
  <1> HIDE DEF B, n
  <1>8. Cardinality(Cover(m) \cup B) = Cardinality(Cover(m)) + Cardinality(B) - Cardinality(Cover(m) \cap B)
    BY <1>6, <1>7, FS_Union
  <1>9. Cardinality({}) = 0
    BY FS_EmptySet
  <1>10. n - a \in Int
    BY <1>1
  <1>11. Cardinality(Cover(r)) = Cardinality(Cover(m)) + (n - a)
    <2>1. Cardinality(Cover(m) \cap B) = 0
      BY ONLY <1>3, <1>9, Zenon
    <2>2. Cardinality(Cover(r)) = Cardinality(Cover(m) \cup B)
      BY ONLY <1>2, Zenon
    <2> QED  BY <1>6, <1>7, <1>8, <1>10, <2>1, <2>2
  <1> QED  BY <1>11 DEF n, Gains

\* A block that rt_malloc gives out is a free one with the room.
LEMMA GiveStep ==
  ASSUME Heap, Owned, Counted, NEW t \in Threads, NEW size \in Requests, CanGive(size), Give(t, size), shrunk' = shrunk
  PROVE  /\ Heap' /\ Owned' /\ Counted'
         /\ \A q \in DOMAIN owner : q \in DOMAIN owner' /\ owner'[q] = owner[q]
  <1> USE Sizes
  <1> DEFINE s == Rounded(size)
             p == Min(Visited(s))
             h == Taken(p, s)
  <1>1. size \in Nat /\ s \in Nat /\ s > 0 /\ s >= size
    BY DEF Rounded
  <1>2. /\ mem' = h.mem /\ lfree' = h.lfree
        /\ owner' = Put(owner, p, t) /\ wants' = Put(wants, p, size)
        /\ used_mem' = used_mem + h.used /\ max_mem' = MaxOf(max_mem, used_mem + h.used)
    BY DEF Give
  <1>3. p \in Visited(s)
    <2>1. Visited(s) \subseteq Nat /\ Visited(s) # {}
      BY DEF Visited, Live, CanGive, Heap, Linked
    <2> QED  BY <2>1, MinIsLeast
  <1> HIDE DEF s, p
  <1>4. p \in DOMAIN mem /\ p # HeapEnd /\ p >= lfree /\ mem[p].used = FALSE /\ Room(mem, p) >= s
    <2>1. p \in DOMAIN mem /\ p # HeapEnd /\ p >= lfree /\ Room(mem, p) >= s /\ ~mem[p].used
      BY <1>3 DEF Visited, Live, Fits
    <2>2. mem[p].used \in BOOLEAN
      BY <2>1 DEF Heap, Linked, Record
    <2> QED  BY <2>1, <2>2
  <1>5. /\ Linked(h.mem) /\ Clean(h.mem) /\ h.lfree \in DOMAIN h.mem
        /\ Below(mem, lfree) => Below(h.mem, h.lfree)
        /\ Given(mem, h.mem, p, s) /\ h.used = h.mem[p].next - p
    BY <1>1, <1>4, TakenLinks
  <1> HIDE DEF h
  <1>6. Heap'
    BY <1>2, <1>5 DEF Heap
  <1>7. p \notin DOMAIN owner /\ DOMAIN wants = DOMAIN owner
    BY <1>4 DEF Owned
  <1>8. /\ owner' \in [DOMAIN owner' -> Threads] /\ DOMAIN owner' = DOMAIN owner \cup {p}
        /\ \A q \in DOMAIN owner : owner'[q] = owner[q]
    BY <1>2, <1>7 DEF Put, Owned
  <1>9. wants' \in [DOMAIN owner' -> Nat] /\ wants'[p] = size /\ \A q \in DOMAIN owner : wants'[q] = wants[q]
    BY <1>1, <1>2, <1>7, <1>8 DEF Put, Owned
  <1>10. DOMAIN owner' = {q \in DOMAIN mem' : q # HeapEnd /\ mem'[q].used = TRUE}
    <2>1. DOMAIN owner = {q \in DOMAIN mem : q # HeapEnd /\ mem[q].used = TRUE}
      BY DEF Owned
    <2> QED  BY <1>2, <1>4, <1>5, <1>8, <2>1 DEF Given
  <1>11. ASSUME NEW q \in DOMAIN owner' PROVE Room(mem', q) >= wants'[q]
    <2>1. CASE q = p
      <3>1. Room(mem', p) >= s
        BY <1>2, <1>5 DEF Given
      <3>2. Room(mem', p) \in Int
        <4>1. mem'[p].next \in Nat /\ p \in Nat
          BY <1>2, <1>4, <1>5 DEF Given, Linked, Record
        <4> QED  BY <4>1 DEF Room
      <3> QED  BY <1>1, <1>9, <2>1, <3>1, <3>2
    <2>2. CASE q # p
      <3>1. q \in DOMAIN owner /\ q \in DOMAIN mem /\ Room(mem, q) >= wants[q]
        BY <1>8, <2>2 DEF Owned
      <3>2. mem'[q].next = mem[q].next
        BY <1>2, <1>5, <2>2, <3>1 DEF Given
      <3> QED  BY <1>9, <3>1, <3>2 DEF Room
    <2> QED  BY <2>1, <2>2
  <1>12. Owned'
    BY <1>8, <1>9, <1>10, <1>11 DEF Owned
  <1>13. Counted'
    <2>1. Linked(mem') /\ p \in DOMAIN mem' /\ mem'[p].used = TRUE /\ p \in Nat /\ mem'[p].next \in Nat /\ p <= mem'[p].next
      <3>1. Linked(mem') /\ p \in DOMAIN mem' /\ mem'[p].used = TRUE
        BY <1>2, <1>5 DEF Given
      <3> QED  BY <1>4, <3>1 DEF Linked
    <2>2. /\ \A x : x # p => ( (x \in DOMAIN mem /\ x # HeapEnd /\ mem[x].used = TRUE)
                                <=> (x \in DOMAIN mem' /\ x # HeapEnd /\ mem'[x].used = TRUE) )
          /\ \A x \in DOMAIN mem' : x # p /\ x # HeapEnd /\ mem'[x].used = TRUE => mem[x].next = mem'[x].next
          /\ ~(p \in DOMAIN mem /\ mem[p].used = TRUE)
      BY <1>2, <1>4, <1>5 DEF Given
    <2> DEFINE r == mem'
    <2>3. Gains(mem, r, r[p].next - p)
      <3>1. r = mem'
        OBVIOUS
      <3> HIDE DEF r
      <3>2. Linked(r) /\ p \in DOMAIN r /\ p # HeapEnd /\ r[p].used = TRUE /\ p \in Nat /\ p <= p /\ p <= r[p].next
        BY <1>4, <2>1, <3>1
      <3>3. Differs(mem, r, p, p)
        BY <2>2, <3>1 DEF Differs
      <3> QED  BY <3>2, <3>3, CoverGrows
    <2>4. used_mem' = Cardinality(Cover(mem')) /\ Cardinality(Cover(mem')) \in 0..HeapEnd
      <3>1. Cardinality(Cover(mem')) \in 0..HeapEnd
        BY CoverBounded
      <3> QED  BY <1>2, <1>5, <2>3, <3>1 DEF Counted, Gains
    <2>5. max_mem' \in 0..HeapEnd
      BY <1>2, <2>4 DEF Counted, MaxOf
    <2> QED  BY <2>4, <2>5 DEF Counted, Cover
  <1> QED  BY <1>6, <1>8, <1>12, <1>13

\* A block that is given back is free, and merged with its free neighbours.
LEMMA ReleaseStep ==
  ASSUME Heap, Owned, Counted, NEW p \in DOMAIN owner, Release(p), shrunk' = shrunk, max_mem' = max_mem,
         owner' = Drop(owner, p), wants' = Drop(wants, p)
  PROVE  /\ Heap' /\ Owned' /\ Counted'
         /\ \A q \in DOMAIN owner : q # p => q \in DOMAIN owner' /\ owner'[q] = owner[q]
  <1> USE Sizes
  <1> DEFINE m == [mem EXCEPT ![p].used = FALSE]
             l == IF p < lfree THEN p ELSE lfree
             h == plug_holes(m, l, p)
  <1>1. mem' = h.mem /\ lfree' = h.lfree /\ used_mem' = used_mem - (mem[p].next - p)
    BY DEF Release, Extent
  <1>2. p \in DOMAIN mem /\ p # HeapEnd /\ mem[p].used = TRUE /\ p \in Nat /\ lfree \in Nat /\ Linked(mem)
    BY DEF Owned, Heap, Linked
  <1>3. Marked(mem, m, p, FALSE)
    BY <1>2, MarkLinks
  <1> HIDE DEF m
  <1>4. Linked(m) /\ l \in DOMAIN m /\ p \in DOMAIN m /\ m[p].used = FALSE /\ Merged(m, p)
    <2>1. Linked(m) /\ l \in DOMAIN m /\ p \in DOMAIN m /\ m[p].used = FALSE
      BY <1>2, <1>3 DEF Marked, Heap
    <2>2. Merged(m, p)
      <3>1. ASSUME NEW x \in DOMAIN m, x # HeapEnd, x # p, m[x].next # p, m[x].used = FALSE
            PROVE  m[m[x].next].used = TRUE
        <4>1. x \in DOMAIN mem /\ mem[x].used = FALSE /\ m[x].next = mem[x].next
          BY <1>3, <3>1 DEF Marked
        <4>2. mem[x].next \in DOMAIN mem /\ mem[mem[x].next].used = TRUE
          BY <1>2, <3>1, <4>1 DEF Heap, Clean, Linked
        <4> QED  BY <1>3, <3>1, <4>1, <4>2 DEF Marked
      <3> QED  BY <3>1 DEF Merged
    <2> QED  BY <2>1, <2>2
  <1>5. Linked(h.mem) /\ Clean(h.mem) /\ Shrinks(m, h.mem) /\ h.lfree \in DOMAIN h.mem /\ h.lfree <= l
    BY <1>2, <1>4, PlugHoles
  <1> HIDE DEF h
  <1>6. Below(mem, lfree) => Below(h.mem, h.lfree)
    <2> SUFFICES ASSUME Below(mem, lfree), NEW x \in DOMAIN h.mem, x # HeapEnd, h.mem[x].used = FALSE PROVE h.lfree <= x
      BY DEF Below
    <2>1. x \in DOMAIN mem /\ x \in Nat /\ m[x].used = FALSE /\ h.lfree \in Nat
      BY <1>3, <1>5 DEF Shrinks, Marked, Linked
    <2>2. l <= x
      BY <1>2, <1>3, <2>1 DEF Below, Marked
    <2> QED  BY <1>2, <1>5, <2>1, <2>2
  <1>7. Heap'
    BY <1>1, <1>5, <1>6 DEF Heap
  <1>8. /\ owner' \in [DOMAIN owner' -> Threads] /\ DOMAIN owner' = DOMAIN owner \ {p}
        /\ \A q \in DOMAIN owner : q # p => owner'[q] = owner[q]
        /\ wants' \in [DOMAIN owner' -> Nat] /\ \A q \in DOMAIN owner : q # p => wants'[q] = wants[q]
    BY DEF Owned, Drop
  <1>9. DOMAIN owner' = {q \in DOMAIN mem' : q # HeapEnd /\ mem'[q].used = TRUE}
    <2>1. DOMAIN owner = {q \in DOMAIN mem : q # HeapEnd /\ mem[q].used = TRUE}
      BY DEF Owned
    <2> QED  BY <1>1, <1>3, <1>4, <1>5, <1>8, <2>1 DEF Shrinks, Marked
  <1>10. ASSUME NEW q \in DOMAIN owner' PROVE Room(mem', q) >= wants'[q]
    <2>1. q \in DOMAIN owner /\ q # p /\ Room(mem, q) >= wants[q] /\ q \in DOMAIN mem /\ mem[q].used = TRUE /\ q \in DOMAIN mem'
      BY <1>8, <1>9 DEF Owned
    <2>2. mem'[q].next = mem[q].next
      BY <1>1, <1>3, <1>5, <2>1 DEF Shrinks, Marked
    <2> QED  BY <1>8, <2>1, <2>2 DEF Room
  <1>11. Owned'
    BY <1>8, <1>9, <1>10 DEF Owned
  <1>12. Counted'
    <2> DEFINE r == mem'
    <2>1. mem[p].next \in Nat /\ p <= mem[p].next
      BY <1>2 DEF Linked
    <2>2. Gains(r, mem, mem[p].next - p)
      <3>1. /\ \A x : x # p => ( (x \in DOMAIN r /\ x # HeapEnd /\ r[x].used = TRUE)
                                  <=> (x \in DOMAIN mem /\ x # HeapEnd /\ mem[x].used = TRUE) )
            /\ \A x \in DOMAIN mem : x # p /\ x # HeapEnd /\ mem[x].used = TRUE => r[x].next = mem[x].next
            /\ ~(p \in DOMAIN r /\ r[p].used = TRUE)
        BY <1>1, <1>2, <1>3, <1>4, <1>5 DEF Shrinks, Marked
      <3> HIDE DEF r
      <3>2. p \in DOMAIN mem /\ p # HeapEnd /\ mem[p].used = TRUE /\ Linked(mem) /\ p \in Nat /\ p <= p /\ p <= mem[p].next
        BY <1>2, <2>1
      <3>3. Differs(r, mem, p, p)
        BY <3>1 DEF Differs
      <3> QED  BY <3>2, <3>3, CoverGrows
    <2>3. Cardinality(Cover(r)) \in 0..HeapEnd
      BY CoverBounded
    <2>4. used_mem' = Cardinality(Cover(r))
      BY <1>1, <1>2, <2>1, <2>2, <2>3 DEF Counted, Gains
    <2> QED  BY <2>4 DEF Counted, Cover
  <1> QED  BY <1>7, <1>8, <1>11, <1>12

\* A block that is cut keeps the room that is asked for.
LEMMA CutStep ==
  ASSUME Heap, Owned, Counted, NEW t \in Threads, NEW p \in DOMAIN owner, NEW size \in Requests, ReallocCut(t, p, size)
  PROVE  Heap' /\ Owned' /\ Counted'
  <1> USE Sizes
  <1> DEFINE b == p + Header + size
             m == Split(mem, p, b)
             h == plug_holes(m, lfree, b)
  <1>1. /\ mem' = h.mem /\ lfree' = h.lfree /\ owner' = owner /\ wants' = [wants EXCEPT ![p] = size] /\ shrunk' = TRUE
        /\ Cuts(p, size) /\ max_mem' = max_mem /\ used_mem' = used_mem - (mem[p].next - (p + Header) - size)
    BY DEF ReallocCut, Room
  <1>2. /\ p \in DOMAIN mem /\ p # HeapEnd /\ mem[p].used = TRUE /\ p \in Nat /\ mem[p].next \in Nat /\ Linked(mem)
        /\ size \in Nat
    BY DEF Owned, Heap, Linked, Record
  <1>3. b \in Nat /\ p < b /\ b < mem[p].next /\ b - (p + Header) = size /\ mem[p].next - b = mem[p].next - (p + Header) - size
    BY <1>1, <1>2 DEF Cuts, Room
  <1>4. Inserted(mem, m, p, b)
    BY <1>2, <1>3, SplitLinks
  <1> HIDE DEF m, b
  <1>5. Linked(m) /\ lfree \in DOMAIN m /\ b \in DOMAIN m /\ b # HeapEnd /\ m[b].used = FALSE
    BY <1>4 DEF Inserted, Heap
  <1>6. Merged(m, b)
    <2> SUFFICES ASSUME NEW x \in DOMAIN m, x # HeapEnd, x # b, m[x].next # b, m[x].used = FALSE
                 PROVE  m[m[x].next].used = TRUE
      BY DEF Merged
    <2>1. x \in DOMAIN mem /\ x # p /\ m[x].next = mem[x].next /\ mem[x].used = FALSE
      BY <1>2, <1>4 DEF Inserted
    <2>2. mem[x].next \in DOMAIN mem /\ mem[mem[x].next].used = TRUE
      BY <2>1 DEF Heap, Clean, Linked
    <2> QED  BY <1>4, <2>1, <2>2 DEF Inserted
  <1>7. Linked(h.mem) /\ Clean(h.mem) /\ Shrinks(m, h.mem) /\ h.lfree \in DOMAIN h.mem /\ h.lfree <= lfree
    BY <1>5, <1>6, PlugHoles
  <1> HIDE DEF h
  <1>8. Heap'
    BY <1>1, <1>7 DEF Heap
  <1>9. /\ owner' \in [DOMAIN owner' -> Threads] /\ wants' \in [DOMAIN owner' -> Nat] /\ wants'[p] = size
        /\ \A q \in DOMAIN owner : q # p => wants'[q] = wants[q]
    BY <1>1, <1>2 DEF Owned
  <1>10. DOMAIN owner' = {q \in DOMAIN mem' : q # HeapEnd /\ mem'[q].used = TRUE}
    <2>1. DOMAIN owner = {q \in DOMAIN mem : q # HeapEnd /\ mem[q].used = TRUE}
      BY DEF Owned
    <2> QED  BY <1>1, <1>4, <1>7, <2>1 DEF Shrinks, Inserted
  <1>11. ASSUME NEW q \in DOMAIN owner' PROVE Room(mem', q) >= wants'[q]
    <2>1. q \in DOMAIN owner /\ Room(mem, q) >= wants[q] /\ q \in DOMAIN mem /\ mem[q].used = TRUE /\ q \in DOMAIN mem'
      BY <1>1, <1>10 DEF Owned
    <2>2. mem'[q].next = m[q].next
      BY <1>1, <1>4, <1>7, <2>1 DEF Shrinks, Inserted
    <2>3. CASE q = p
      <3>1. mem'[p].next = b
        BY <1>4, <2>2, <2>3 DEF Inserted
      <3> QED  BY <1>2, <1>3, <1>9, <2>3, <3>1 DEF Room
    <2>4. CASE q # p
      <3>1. mem'[q].next = mem[q].next
        BY <1>4, <2>1, <2>2, <2>4 DEF Inserted
      <3> QED  BY <1>9, <2>1, <2>4, <3>1 DEF Room
    <2> QED  BY <2>3, <2>4
  <1>12. Owned'
    BY <1>9, <1>10, <1>11 DEF Owned
  <1>13. Counted'
    <2> DEFINE r == mem'
    <2>1. Gains(r, mem, mem[p].next - b)
      <3>1. /\ \A x : x # p => ( (x \in DOMAIN r /\ x # HeapEnd /\ r[x].used = TRUE)
                                  <=> (x \in DOMAIN mem /\ x # HeapEnd /\ mem[x].used = TRUE) )
            /\ \A x \in DOMAIN mem : x # p /\ x # HeapEnd /\ mem[x].used = TRUE => r[x].next = mem[x].next
            /\ p \in DOMAIN r /\ r[p].used = TRUE /\ r[p].next = b
        BY <1>1, <1>2, <1>4, <1>7 DEF Shrinks, Inserted
      <3> HIDE DEF r
      <3>2. /\ p \in DOMAIN mem /\ p # HeapEnd /\ mem[p].used = TRUE /\ Linked(mem)
            /\ b \in Nat /\ p <= b /\ b <= mem[p].next
        BY <1>2, <1>3
      <3>3. Differs(r, mem, p, b)
        BY <3>1 DEF Differs
      <3> QED  BY <3>2, <3>3, CoverGrows
    <2>2. Cardinality(Cover(r)) \in 0..HeapEnd
      BY CoverBounded
    <2>3. used_mem' = Cardinality(Cover(r))
      BY <1>1, <1>2, <1>3, <2>1, <2>2 DEF Counted, Gains
    <2> QED  BY <1>1, <2>3 DEF Counted, Cover
  <1> QED  BY <1>8, <1>12, <1>13
-----------------------------------------------------------------------------
HeapInv == Heap /\ Owned /\ Counted /\ Movers /\ shrunk \in BOOLEAN

\* rt_system_heap_init: one free block and the end.
LEMMA HeapInit == MemInit => HeapInv
  <1> SUFFICES ASSUME MemInit PROVE HeapInv
    OBVIOUS
  <1> USE Sizes
  <1>1. /\ DOMAIN mem = {0, HeapEnd} /\ mem[0] = [used |-> FALSE, next |-> HeapEnd, prev |-> 0]
        /\ mem[HeapEnd] = [used |-> TRUE, next |-> HeapEnd, prev |-> HeapEnd] /\ mem \in [{0, HeapEnd} -> Record]
    BY DEF MemInit, Record
  <1>2. Linked(mem)
    BY <1>1 DEF Linked
  <1>3. Heap
    BY <1>1, <1>2 DEF MemInit, Heap, Clean, Below
  <1>4. DOMAIN owner = {} /\ owner \in [{} -> Threads] /\ wants \in [{} -> Nat]
    BY DEF MemInit
  <1>5. Owned
    BY <1>1, <1>4 DEF Owned
  <1>6. Movers /\ shrunk \in BOOLEAN
    BY SMTT(30) DEF MemInit, Movers
  <1>7. Counted
    <2>1. Cover(mem) = {}
      BY <1>1 DEF Cover
    <2>2. Cardinality({}) = 0
      BY FS_EmptySet
    <2>3. used_mem = 0 /\ max_mem = 0
      BY DEF MemInit
    <2> QED  BY <2>1, <2>2, <2>3 DEF Counted
  <1> QED  BY <1>3, <1>5, <1>6, <1>7 DEF HeapInv

\* rt_malloc, rt_free and rt_realloc keep the chain.
LEMMA HeapStep == HeapInv /\ [MemNext]_memVars => HeapInv'
  <1> SUFFICES ASSUME HeapInv, [MemNext]_memVars PROVE HeapInv'
    OBVIOUS
  <1> USE Sizes
  <1>0. Heap /\ Owned /\ Counted /\ Movers /\ shrunk \in BOOLEAN
    BY DEF HeapInv
  <1>m. moving \in [Threads -> Nat] /\ \A t \in Threads : moving[t] # None => moving[t] \in DOMAIN owner /\ owner[moving[t]] = t
    BY <1>0 DEF Movers
  <1>1. CASE UNCHANGED memVars
    BY <1>0, <1>1 DEF memVars, HeapInv, Heap, Owned, Counted, Cover, Movers
  <1>2. ASSUME NEW t \in Threads, NEW size \in Requests, rt_malloc(t, size) PROVE HeapInv'
    <2>1. CanGive(size) /\ Give(t, size) /\ moving' = moving /\ shrunk' = shrunk
      BY <1>2 DEF rt_malloc
    <2>2. Heap' /\ Owned' /\ Counted' /\ \A q \in DOMAIN owner : q \in DOMAIN owner' /\ owner'[q] = owner[q]
      BY <1>0, <2>1, GiveStep
    <2>3. Movers'
      BY <1>m, <2>1, <2>2 DEF Movers
    <2> QED  BY <1>0, <2>1, <2>2, <2>3 DEF HeapInv
  <1>3. ASSUME NEW t \in Threads, NEW p \in Live, rt_free(t, p) PROVE HeapInv'
    <2>1. /\ moving[t] = None /\ p \in DOMAIN owner /\ owner[p] = t /\ Release(p)
          /\ owner' = Drop(owner, p) /\ wants' = Drop(wants, p) /\ moving' = moving /\ shrunk' = shrunk /\ max_mem' = max_mem
      BY <1>3 DEF rt_free
    <2>2. Heap' /\ Owned' /\ Counted' /\ \A q \in DOMAIN owner : q # p => q \in DOMAIN owner' /\ owner'[q] = owner[q]
      BY <1>0, <2>1, ReleaseStep
    <2>3. Movers'
      BY <1>m, <2>1, <2>2 DEF Movers
    <2> QED  BY <1>0, <2>1, <2>2, <2>3 DEF HeapInv
  <1>4. ASSUME NEW t \in Threads, NEW p \in Live, NEW size \in Requests, ReallocCut(t, p, size) PROVE HeapInv'
    <2>1. p \in DOMAIN owner /\ owner' = owner /\ moving' = moving /\ shrunk' = TRUE
      BY <1>4 DEF ReallocCut
    <2>2. Heap' /\ Owned' /\ Counted'
      BY <1>0, <1>4, <2>1, CutStep
    <2>3. Movers'
      BY <1>m, <2>1 DEF Movers
    <2> QED  BY <2>1, <2>2, <2>3 DEF HeapInv
  <1>5. ASSUME NEW t \in Threads, NEW p \in Live, NEW size \in Requests, ReallocMove(t, p, size) PROVE HeapInv'
    <2>1. /\ p \in DOMAIN owner /\ owner[p] = t /\ CanGive(size) /\ Give(t, size)
          /\ moving' = [moving EXCEPT ![t] = p] /\ shrunk' = shrunk
      BY <1>5 DEF ReallocMove
    <2>2. Heap' /\ Owned' /\ Counted' /\ \A q \in DOMAIN owner : q \in DOMAIN owner' /\ owner'[q] = owner[q]
      BY <1>0, <2>1, GiveStep
    <2>3. p \in Nat
      BY <1>0, <2>1 DEF Owned, Heap, Linked
    <2>4. Movers'
      BY <1>m, <2>1, <2>2, <2>3 DEF Movers
    <2> QED  BY <1>0, <2>1, <2>2, <2>4 DEF HeapInv
  <1>6. ASSUME NEW t \in Threads, ReallocFree(t) PROVE HeapInv'
    <2> DEFINE p == moving[t]
    <2>1. /\ p # None /\ Release(p) /\ owner' = Drop(owner, p) /\ wants' = Drop(wants, p)
          /\ moving' = [moving EXCEPT ![t] = None] /\ shrunk' = shrunk /\ max_mem' = max_mem
      BY <1>6 DEF ReallocFree
    <2>2. p \in DOMAIN owner /\ owner[p] = t
      BY <1>m, <2>1
    <2> HIDE DEF p
    <2>3. Heap' /\ Owned' /\ Counted' /\ \A q \in DOMAIN owner : q # p => q \in DOMAIN owner' /\ owner'[q] = owner[q]
      BY <1>0, <2>1, <2>2, ReleaseStep
    <2>4. Movers'
      BY <1>m, <2>1, <2>2, <2>3 DEF Movers
    <2> QED  BY <1>0, <2>1, <2>3, <2>4 DEF HeapInv
  <1> QED  BY <1>1, <1>2, <1>3, <1>4, <1>5, <1>6 DEF MemNext

\* So the chain is there at every moment, between two steps of a realloc too.
LEMMA HeapInvariant == MemSpec => []HeapInv
  BY HeapInit, HeapStep, PTL DEF MemSpec

\* Whatever rt_malloc, rt_free and rt_realloc of any number of threads do, with
\* calls between the two halves of a moving rt_realloc: the used blocks are
\* those the threads hold, and each has the room it was promised.
THEOREM BlocksAreHeld == MemSpec => []HoldsWhatItAskedFor
  <1>1. HeapInv => HoldsWhatItAskedFor
    <2> SUFFICES ASSUME HeapInv PROVE HoldsWhatItAskedFor
      OBVIOUS
    <2>1. \A p \in DOMAIN mem : mem[p].used \in BOOLEAN
      BY DEF HeapInv, Heap, Linked, Record
    <2>2. DOMAIN owner = {p \in DOMAIN mem : p # HeapEnd /\ mem[p].used = TRUE} /\ \A p \in DOMAIN owner : Room(mem, p) >= wants[p]
      BY DEF HeapInv, Owned
    <2> QED  BY <2>1, <2>2 DEF HoldsWhatItAskedFor, Live
  <1> QED  BY <1>1, HeapInvariant, PTL

\* The heap stays one chain of blocks without free neighbours, no free block is
\* below lfree until rt_realloc cuts one, and until then rt_malloc passes over a
\* block with the room only if it is the last one and the request takes all of it.
THEOREM HeapIsChained == MemSpec => [](Chained /\ LowestFreeUncut /\ PassesOnlyExactEnd)
  <1>1. HeapInv => Chained /\ LowestFreeUncut /\ PassesOnlyExactEnd
    <2> SUFFICES ASSUME HeapInv PROVE Chained /\ LowestFreeUncut /\ PassesOnlyExactEnd
      OBVIOUS
    <2> USE Sizes
    <2>0. /\ Linked(mem) /\ Clean(mem) /\ lfree \in DOMAIN mem /\ (shrunk = FALSE => Below(mem, lfree)) /\ shrunk \in BOOLEAN
          /\ \A p \in DOMAIN mem : p \in Nat /\ mem[p].used \in BOOLEAN /\ mem[p].next \in Nat
      BY DEF HeapInv, Heap, Linked, Record
    <2>1. Chained
      <3>1. ASSUME NEW p \in Live
            PROVE  /\ mem[p].next > p /\ \A q \in DOMAIN mem : ~(p < q /\ q < mem[p].next)
                   /\ mem[p].next # HeapEnd => mem[mem[p].next].prev = p
        <4>1. p \in DOMAIN mem /\ p # HeapEnd
          BY DEF Live
        <4>2. /\ mem[p].next > p /\ \A q \in DOMAIN mem : q <= p \/ mem[p].next <= q
              /\ mem[p].next # HeapEnd => mem[mem[p].next].prev = p
          BY <2>0, <4>1 DEF Linked
        <4> QED  BY <2>0, <4>1, <4>2
      <3>2. ASSUME NEW p \in Live, ~mem[p].used PROVE mem[mem[p].next].used
        <4>1. p \in DOMAIN mem /\ p # HeapEnd /\ mem[p].used = FALSE
          BY <2>0, <3>2 DEF Live
        <4> QED  BY <2>0, <4>1 DEF Clean
      <3> QED  BY <2>0, <3>1, <3>2 DEF Chained, Linked
    <2>2. LowestFreeUncut
      BY <2>0 DEF LowestFreeUncut, LowestFree, Live, Below
    <2>3. PassesOnlyExactEnd
      <3> SUFFICES ASSUME ~shrunk, NEW size \in Requests \ {0}, NEW p \in Live, Fits(mem, p, Rounded(size)), ~CanGive(size)
                   PROVE  mem[p].next = HeapEnd /\ Room(mem, p) = Rounded(size)
        BY DEF PassesOnlyExactEnd
      <3> DEFINE s == Rounded(size)
      <3>1. s \in Nat /\ s >= size /\ size \in Nat /\ s > 0
        BY DEF Rounded
      <3>2. /\ p \in DOMAIN mem /\ p # HeapEnd /\ p \in Nat /\ mem[p].next \in Nat /\ mem[p].next <= HeapEnd
            /\ mem[p].next - (p + Header) >= s
        BY <2>0 DEF Live, Fits, Room, Linked
      <3>3. lfree <= p
        BY <2>0, <3>2 DEF Below, Fits
      <3>4. size <= MemSize /\ p \notin Visited(s)
        BY <3>1, <3>2 DEF CanGive
      <3>5. lfree \in Nat
        BY <2>0
      <3>6. ~(p < MemSize - s)
        BY <3>2, <3>3, <3>4, <3>5 DEF Visited
      <3> HIDE DEF s
      <3>7. mem[p].next = HeapEnd /\ mem[p].next - (p + Header) = s
        BY <3>1, <3>2, <3>6
      <3> QED  BY <3>7 DEF Room, s
    <2> QED  BY <2>1, <2>2, <2>3
  <1> QED  BY <1>1, HeapInvariant, PTL

\* The heap is sound at every moment: besides the chain, the headers and the
\* statistics are in their ranges, and used_mem is exactly the number of units in
\* used blocks and their headers, however rt_realloc cuts and moves them.
THEOREM HeapIsSound == MemSpec => []HeapSound
  <1>1. HeapInv => MemTypeOK /\ UsedIsCounted
    <2> SUFFICES ASSUME HeapInv PROVE MemTypeOK /\ UsedIsCounted
      OBVIOUS
    <2> USE Sizes
    <2>0. /\ Linked(mem) /\ lfree \in DOMAIN mem /\ shrunk \in BOOLEAN
          /\ \A p \in DOMAIN mem : mem[p] \in Record
      BY DEF HeapInv, Heap, Linked
    <2>1. Cover(mem) = Covered
      <3>1. \A p \in DOMAIN mem : mem[p].used <=> mem[p].used = TRUE
        BY <2>0 DEF Record
      <3> QED  BY <3>1 DEF Cover, Covered, Live
    <2>2. UsedIsCounted
      BY <2>1 DEF HeapInv, Counted, UsedIsCounted
    <2>3. used_mem \in 0..HeapEnd /\ max_mem \in 0..HeapEnd
      BY CoverBounded DEF HeapInv, Counted
    <2>4. ASSUME NEW p \in DOMAIN mem PROVE mem[p] \in [used : BOOLEAN, next : DOMAIN mem, prev : 0..HeapEnd]
      <3>1. mem[p].next \in DOMAIN mem
        BY <2>0, <2>4 DEF Linked
      <3> QED  BY <2>0, <3>1 DEF Record
    <2>5. DOMAIN owner \subseteq Live /\ DOMAIN wants = DOMAIN owner
      BY DEF HeapInv, Owned, Live
    <2>6. moving \in [Threads -> DOMAIN owner \cup {None}]
      BY DEF HeapInv, Movers
    <2> QED  BY <2>0, <2>2, <2>3, <2>4, <2>5, <2>6 DEF MemTypeOK, Linked
  <1>2. MemTypeOK /\ UsedIsCounted /\ Chained /\ LowestFreeUncut /\ PassesOnlyExactEnd => HeapSound
    BY DEF HeapSound
  <1> QED  BY <1>1, <1>2, HeapInvariant, HeapIsChained, PTL
-----------------------------------------------------------------------------
(* The timers. *)

\* What the time-out functions spare, and time-outs that fit with the delays in
\* half of the tick's range.
Prompt == Spared = {"busy", "own"} /\ \A time \in Times : time + MaxDelay <= Half

\* What the assumption on the ticks says of its numbers.
LEMMA Ticks ==
  /\ TickCount \in Nat /\ Half \in Int /\ TickCount = 2 * Half + 2 /\ MaxDelay \in Nat
  /\ \A time \in Times : time \in Nat /\ time >= 1 /\ time <= Half - 1
  BY TimerAssumption DEF Half

\* A number in the range is left alone, one above it comes round, and so does a
\* negative one.
LEMMA Modulo ==
  ASSUME NEW N \in Nat, NEW a \in Int
  PROVE  /\ 0 <= a /\ a < N => a % N = a
         /\ N <= a /\ a < N + N => a % N = a - N
         /\ 0 - N <= a /\ a < 0 => a % N = a + N
  <1>1. CASE 0 <= a /\ a < N
    BY <1>1, SMT
  <1>2. CASE N <= a /\ a < N + N
    BY <1>2, SMT
  <1>3. CASE 0 - N <= a /\ a < 0
    BY <1>3, SMT
  <1> QED  BY <1>1, <1>2, <1>3

\* A remainder is a tick.
LEMMA Remainder == ASSUME NEW a \in Int PROVE a % TickCount \in 0..(TickCount - 1)
  <1>1. TickCount \in Nat /\ TickCount > 0
    BY TimerAssumption
  <1> QED  BY <1>1, SMT

\* The three turns of a difference or a sum of two ticks.
LEMMA InRange ==
  ASSUME NEW a \in Int, 0 <= a, a < TickCount
  PROVE  a % TickCount = a
  BY Ticks, Modulo, Zenon

\* One turn too far.
LEMMA AboveRange ==
  ASSUME NEW a \in Int, TickCount <= a, a < TickCount + TickCount
  PROVE  a % TickCount = a - TickCount
  BY Ticks, Modulo, Zenon

\* One turn back.
LEMMA BelowZero ==
  ASSUME NEW a \in Int, 0 - TickCount <= a, a < 0
  PROVE  a % TickCount = a + TickCount
  BY Ticks, Modulo, Zenon

\* d is the tick that is l ticks from now.
Ahead(tick, d, l) ==
  d \in 0..(TickCount - 1) /\ (d = tick + l \/ d = tick + l + TickCount \/ d = tick + l - TickCount)

\* Adding a time to the tick.
LEMMA AheadOfTick ==
  ASSUME NEW tick \in 0..(TickCount - 1), NEW l \in 0..Half
  PROVE  Ahead(tick, (tick + l) % TickCount, l)
  <1> USE Ticks
  <1>1. CASE tick + l < TickCount
    <2>0. tick + l \in Int /\ 0 <= tick + l
      OBVIOUS
    <2>1. (tick + l) % TickCount = tick + l
      BY <1>1, <2>0, InRange
    <2> QED  BY <1>1, <2>1 DEF Ahead
  <1>2. CASE ~(tick + l < TickCount)
    <2>0. tick + l \in Int /\ TickCount <= tick + l /\ tick + l < TickCount + TickCount
      BY <1>2
    <2>1. (tick + l) % TickCount = tick + l - TickCount
      BY <2>0, AboveRange
    <2> QED  BY <1>2, <2>1 DEF Ahead
  <1> QED  BY <1>1, <1>2

\* The tick goes on.
LEMMA AheadAfterTick ==
  ASSUME NEW tick \in 0..(TickCount - 1), NEW d, NEW l \in Int, Ahead(tick, d, l), 0 - Half <= l, l <= Half
  PROVE  /\ (tick + 1) % TickCount \in 0..(TickCount - 1)
         /\ Ahead((tick + 1) % TickCount, d, l - 1)
  <1> USE Ticks
  <1>1. CASE tick + 1 < TickCount
    <2>0. tick + 1 \in Int /\ 0 <= tick + 1
      OBVIOUS
    <2>1. (tick + 1) % TickCount = tick + 1
      BY <1>1, <2>0, InRange
    <2> QED  BY <1>1, <2>1 DEF Ahead
  <1>2. CASE ~(tick + 1 < TickCount)
    <2>0. tick + 1 \in Int /\ tick + 1 = TickCount /\ TickCount <= tick + 1 /\ tick + 1 < TickCount + TickCount
      BY <1>2
    <2>1. (tick + 1) % TickCount = 0
      <3>1. (tick + 1) % TickCount = tick + 1 - TickCount
        BY <2>0, AboveRange
      <3> QED  BY <2>0, <3>1
    <2> QED  BY <2>0, <2>1 DEF Ahead
  <1> QED  BY <1>1, <1>2

\* A timer is due when no time is left.
LEMMA DueWhenOver ==
  ASSUME NEW tick \in 0..(TickCount - 1), NEW d, NEW l \in Int, Ahead(tick, d, l), 0 - Half < l, l <= Half
  PROVE  (Minus(tick, d) < Half) <=> l <= 0
  <1> USE Ticks
  <1>0. d \in 0..(TickCount - 1) /\ (tick - d = 0 - l \/ tick - d = 0 - l - TickCount \/ tick - d = 0 - l + TickCount)
    BY DEF Ahead
  <1>1. CASE 0 <= tick - d
    <2>0. tick - d \in Int /\ tick - d < TickCount
      BY <1>0
    <2>1. Minus(tick, d) = tick - d
      BY <1>1, <2>0, InRange DEF Minus
    <2> QED  BY <1>0, <1>1, <2>1
  <1>2. CASE ~(0 <= tick - d)
    <2>0. tick - d \in Int /\ 0 - TickCount <= tick - d /\ tick - d < 0
      BY <1>0, <1>2
    <2>1. Minus(tick, d) = tick - d + TickCount
      BY <2>0, BelowZero DEF Minus
    <2> QED  BY <1>0, <1>2, <2>1
  <1> QED  BY <1>1, <1>2

\* Of two timers, the one with more time left is later.
LEMMA LaterHasMore ==
  ASSUME NEW tick \in 0..(TickCount - 1), NEW d, NEW e, NEW k \in Int, NEW l \in Int,
         Ahead(tick, d, k), Ahead(tick, e, l), k - l < Half, 0 - Half <= k - l
  PROVE  LaterThan(d, e) <=> k > l
  <1> USE Ticks
  <1>0. d \in 0..(TickCount - 1) /\ e \in 0..(TickCount - 1)
    BY DEF Ahead
  <1>1. d - e = k - l \/ d - e = k - l + TickCount \/ d - e = k - l - TickCount
    BY <1>0 DEF Ahead
  <1>2. CASE 0 <= d - e
    <2>0. d - e \in Int /\ d - e < TickCount
      BY <1>0
    <2>1. Minus(d, e) = d - e
      BY <1>2, <2>0, InRange DEF Minus
    <2> QED  BY <1>0, <1>1, <1>2, <2>1 DEF LaterThan
  <1>3. CASE ~(0 <= d - e)
    <2>0. d - e \in Int /\ 0 - TickCount <= d - e /\ d - e < 0
      BY <1>0, <1>3
    <2>1. Minus(d, e) = d - e + TickCount
      BY <2>0, BelowZero DEF Minus
    <2> QED  BY <1>0, <1>1, <1>3, <2>1 DEF LaterThan
  <1> QED  BY <1>2, <1>3

\* Taking one element out of a sequence, and putting one in.
LEMMA RemovedAt ==
  ASSUME NEW P, NEW s \in Seq(P), NEW i \in 1..Len(s)
  PROVE  /\ RemoveAt(s, i) \in Seq(P) /\ Len(RemoveAt(s, i)) = Len(s) - 1
         /\ \A j \in 1..(Len(s) - 1) : RemoveAt(s, i)[j] = IF j < i THEN s[j] ELSE s[j + 1]
  <1> DEFINE a == SubSeq(s, 1, i - 1)
             b == SubSeq(s, i + 1, Len(s))
  <1>1. a \in Seq(P) /\ Len(a) = i - 1 /\ \A j \in 1..(i - 1) : a[j] = s[j]
    OBVIOUS
  <1>2. b \in Seq(P) /\ Len(b) = Len(s) - i /\ \A j \in 1..(Len(s) - i) : b[j] = s[i + j]
    OBVIOUS
  <1>3. RemoveAt(s, i) = a \o b
    BY DEF RemoveAt
  <1> HIDE DEF a, b
  <1>4. ASSUME NEW x \in Seq(P), NEW y \in Seq(P)
        PROVE  /\ x \o y \in Seq(P) /\ Len(x \o y) = Len(x) + Len(y)
               /\ \A j \in 1..(Len(x) + Len(y)) : (x \o y)[j] = IF j <= Len(x) THEN x[j] ELSE y[j - Len(x)]
    OBVIOUS
  <1>5. /\ a \o b \in Seq(P) /\ Len(a \o b) = Len(a) + Len(b)
        /\ \A j \in 1..(Len(a) + Len(b)) : (a \o b)[j] = IF j <= Len(a) THEN a[j] ELSE b[j - Len(a)]
    BY <1>1, <1>2, <1>4, Zenon
  <1>6. Len(s) \in Nat
    OBVIOUS
  <1>7. Len(a \o b) = Len(s) - 1
    BY <1>1, <1>2, <1>5, <1>6
  <1>8. ASSUME NEW j \in 1..(Len(s) - 1) PROVE (a \o b)[j] = IF j < i THEN s[j] ELSE s[j + 1]
    <2>1. (a \o b)[j] = IF j <= i - 1 THEN a[j] ELSE b[j - (i - 1)]
      BY <1>1, <1>2, <1>5, <1>6
    <2>2. CASE j < i
      BY <2>1, <2>2, <1>1, <1>6
    <2>3. CASE ~(j < i)
      <3>1. j - (i - 1) \in 1..(Len(s) - i) /\ i + (j - (i - 1)) = j + 1
        BY <2>3, <1>6
      <3>2. b[j - (i - 1)] = s[i + (j - (i - 1))]
        BY <3>1, <1>2
      <3> QED  BY <2>1, <2>3, <3>1, <3>2
    <2> QED  BY <2>2, <2>3
  <1> QED  BY <1>3, <1>5, <1>7, <1>8

\* Putting an element in: what is behind it moves on by one.
LEMMA InsertedAt ==
  ASSUME NEW P, NEW s \in Seq(P), NEW i \in 1..(Len(s) + 1), NEW e \in P
  PROVE  /\ InsertAt(s, i, e) \in Seq(P) /\ Len(InsertAt(s, i, e)) = Len(s) + 1
         /\ \A j \in 1..(Len(s) + 1) :
              InsertAt(s, i, e)[j] = IF j < i THEN s[j] ELSE IF j = i THEN e ELSE s[j - 1]
  <1> DEFINE a == SubSeq(s, 1, i - 1)
             b == SubSeq(s, i, Len(s))
             c == a \o <<e>>
  <1>1. a \in Seq(P) /\ Len(a) = i - 1 /\ \A j \in 1..(i - 1) : a[j] = s[j]
    OBVIOUS
  <1>2. b \in Seq(P) /\ Len(b) = Len(s) + 1 - i /\ \A j \in 1..(Len(s) + 1 - i) : b[j] = s[i + j - 1]
    OBVIOUS
  <1>3. InsertAt(s, i, e) = c \o b
    BY DEF InsertAt
  <1>6. Len(s) \in Nat
    OBVIOUS
  <1>4. ASSUME NEW x \in Seq(P), NEW y \in Seq(P)
        PROVE  /\ x \o y \in Seq(P) /\ Len(x \o y) = Len(x) + Len(y)
               /\ \A j \in 1..(Len(x) + Len(y)) : (x \o y)[j] = IF j <= Len(x) THEN x[j] ELSE y[j - Len(x)]
    OBVIOUS
  <1> HIDE DEF a, b
  <1>5. c \in Seq(P) /\ Len(c) = i /\ (\A j \in 1..(i - 1) : c[j] = s[j]) /\ c[i] = e
    BY <1>1, <1>6
  <1> HIDE DEF c
  <1>7. /\ c \o b \in Seq(P) /\ Len(c \o b) = Len(c) + Len(b)
        /\ \A j \in 1..(Len(c) + Len(b)) : (c \o b)[j] = IF j <= Len(c) THEN c[j] ELSE b[j - Len(c)]
    BY <1>5, <1>2, <1>4, Zenon
  <1>8. Len(c \o b) = Len(s) + 1
    BY <1>2, <1>5, <1>6, <1>7
  <1>9. ASSUME NEW j \in 1..(Len(s) + 1)
        PROVE  (c \o b)[j] = IF j < i THEN s[j] ELSE IF j = i THEN e ELSE s[j - 1]
    <2>1. (c \o b)[j] = IF j <= i THEN c[j] ELSE b[j - i]
      BY <1>2, <1>5, <1>6, <1>7
    <2>2. CASE j <= i
      BY <2>1, <2>2, <1>5, <1>6
    <2>3. CASE ~(j <= i)
      <3>1. j - i \in 1..(Len(s) + 1 - i) /\ i + (j - i) - 1 = j - 1
        BY <2>3, <1>6
      <3>2. b[j - i] = s[i + (j - i) - 1]
        BY <3>1, <1>2
      <3> QED  BY <2>1, <2>3, <3>1, <3>2
    <2> QED  BY <2>2, <2>3
  <1> QED  BY <1>3, <1>7, <1>8, <1>9
-----------------------------------------------------------------------------
In(list) == {list[i] : i \in 1..Len(list)}

\* The tick of x is as far away as its time, which is between lo and half of the
\* tick's range less the longest delay.
Fine(x, due, w, live, tick, lo) ==
  /\ x \in live /\ w[x] \in Int /\ lo <= w[x] /\ w[x] <= Half - MaxDelay
  /\ Ahead(tick, due[x], w[x])

Ordered(list, w) ==
  /\ list \in Seq(Timers)
  /\ \A i, j \in 1..Len(list) : list[i] = list[j] => i = j
  /\ \A i, j \in 1..Len(list) : i < j => w[list[i]] <= w[list[j]]

\* A list of timers each once, in the order of the time that is left.
Queue(list, due, w, live, tick, lo) ==
  Ordered(list, w) /\ \A x \in In(list) : Fine(x, due, w, live, tick, lo)

\* _rt_timer_remove takes the timer from the list and nothing else.
LEMMA CutMembers ==
  ASSUME NEW w, NEW list, Ordered(list, w), NEW t
  PROVE  Ordered(Cut(list, t), w) /\ In(Cut(list, t)) = In(list) \ {t}
  <1> DEFINE places == {i \in 1..Len(list) : list[i] = t}
             p == Min(places)
             r == RemoveAt(list, p)
  <1>0. list \in Seq(Timers) /\ Len(list) \in Nat
    BY DEF Ordered
  <1>1. CASE places = {}
    BY <1>1 DEF Cut, In
  <1>2. CASE places # {}
    <2>1. p \in 1..Len(list) /\ list[p] = t
      <3>1. places \subseteq Nat
        OBVIOUS
      <3>2. p \in places
        BY <1>2, <3>1, MinIsLeast
      <3> QED  BY <3>2
    <2>2. Cut(list, t) = r
      BY <1>2 DEF Cut
    <2> HIDE DEF p
    <2>3. /\ r \in Seq(Timers) /\ Len(r) = Len(list) - 1
          /\ \A j \in 1..(Len(list) - 1) : r[j] = IF j < p THEN list[j] ELSE list[j + 1]
      BY <1>0, <2>1, RemovedAt
    <2> HIDE DEF r, places
    <2> DEFINE from(j) == IF j < p THEN j ELSE j + 1
    <2>a. ASSUME NEW j \in 1..(Len(list) - 1)
          PROVE  from(j) \in 1..Len(list) /\ from(j) # p /\ r[j] = list[from(j)]
      BY <1>0, <2>1, <2>3
    <2>b. ASSUME NEW i \in 1..(Len(list) - 1), NEW j \in 1..(Len(list) - 1)
          PROVE  (from(i) = from(j) => i = j) /\ (i < j => from(i) < from(j))
      BY <1>0, <2>1
    <2> HIDE DEF from
    <2>4. Ordered(r, w)
      <3>1. ASSUME NEW i \in 1..Len(r), NEW j \in 1..Len(r), r[i] = r[j] PROVE i = j
        BY <2>3, <2>a, <2>b, <3>1 DEF Ordered
      <3>2. ASSUME NEW i \in 1..Len(r), NEW j \in 1..Len(r), i < j PROVE w[r[i]] <= w[r[j]]
        BY <2>3, <2>a, <2>b, <3>2 DEF Ordered
      <3> QED  BY <2>3, <3>1, <3>2 DEF Ordered
    <2>5. ASSUME NEW x \in In(r) PROVE x \in In(list) \ {t}
      <3>1. PICK j \in 1..(Len(list) - 1) : x = r[j]
        BY <2>3 DEF In
      <3>2. PICK k \in 1..Len(list) : x = list[k] /\ k # p
        BY <2>a, <3>1
      <3> QED  BY <2>1, <3>2 DEF In, Ordered
    <2>6. ASSUME NEW x \in In(list) \ {t} PROVE x \in In(r)
      <3>1. PICK k \in 1..Len(list) : x = list[k] /\ k # p
        BY <2>1 DEF In
      <3>2. CASE k < p
        <4>1. k \in 1..(Len(list) - 1) /\ r[k] = x
          BY <1>0, <2>1, <2>3, <3>1, <3>2
        <4> QED  BY <2>3, <4>1 DEF In
      <3>3. CASE ~(k < p)
        <4>1. k - 1 \in 1..(Len(list) - 1) /\ r[k - 1] = x
          BY <1>0, <2>1, <2>3, <3>1, <3>3
        <4> QED  BY <2>3, <4>1 DEF In
      <3> QED  BY <3>2, <3>3
    <2> QED  BY <2>2, <2>4, <2>5, <2>6
  <1> QED  BY <1>1, <1>2

\* What belongs to a timer outside the list does not matter to the list.
LEMMA QueueApart ==
  ASSUME NEW list, NEW due, NEW w, NEW live, NEW tick, NEW lo, Queue(list, due, w, live, tick, lo),
         NEW e, NEW v, NEW new, NEW lo2 \in Int, lo \in Int, lo2 <= lo,
         \A x \in In(list) : e[x] = due[x] /\ v[x] = w[x] /\ x \in new
  PROVE  Queue(list, e, v, new, tick, lo2)
  <1>1. Ordered(list, v)
    BY DEF Queue, Ordered, In
  <1>2. ASSUME NEW x \in In(list) PROVE Fine(x, e, v, new, tick, lo2)
    BY DEF Queue, Fine
  <1> QED  BY <1>1, <1>2 DEF Queue

\* A timer that is not in the list and not more than half of the range from the
\* others is put where it belongs.
LEMMA InsertQueues ==
  ASSUME NEW list, NEW due, NEW w, NEW live, NEW tick \in 0..(TickCount - 1), NEW lo \in Int,
         Queue(list, due, w, live, tick, lo), 0 - MaxDelay <= lo,
         NEW t \in Timers, t \notin In(list), Fine(t, due, w, live, tick, lo), 1 - MaxDelay <= w[t]
  PROVE  /\ Queue(Insert(list, t, due), due, w, live, tick, lo)
         /\ In(Insert(list, t, due)) = In(list) \cup {t}
  <1> DEFINE later == {i \in 1..Len(list) : LaterThan(due[list[i]], due[t])}
             p == IF later = {} THEN Len(list) + 1 ELSE Min(later)
             r == InsertAt(list, p, t)
  <1>0. list \in Seq(Timers) /\ Len(list) \in Nat
    BY DEF Queue, Ordered
  <1>1. Insert(list, t, due) = r
    BY DEF Insert
  <1>2. ASSUME NEW i \in 1..Len(list)
        PROVE  i \in later <=> w[list[i]] > w[t]
    <2>1. list[i] \in In(list)
      BY DEF In
    <2>2. /\ w[list[i]] \in Int /\ 0 - MaxDelay <= w[list[i]] /\ w[list[i]] <= Half - MaxDelay
          /\ Ahead(tick, due[list[i]], w[list[i]])
      BY <2>1, Ticks DEF Queue, Fine
    <2>3. /\ w[t] \in Int /\ 1 - MaxDelay <= w[t] /\ w[t] <= Half - MaxDelay
          /\ Ahead(tick, due[t], w[t])
      BY DEF Fine
    <2>4. w[list[i]] - w[t] < Half /\ 0 - Half <= w[list[i]] - w[t]
      BY <2>2, <2>3, Ticks
    <2>5. LaterThan(due[list[i]], due[t]) <=> w[list[i]] > w[t]
      BY <2>2, <2>3, <2>4, LaterHasMore
    <2> QED  BY <2>5
  <1>3. /\ p \in 1..(Len(list) + 1)
        /\ \A i \in 1..Len(list) : i < p => w[list[i]] <= w[t]
        /\ \A i \in 1..Len(list) : i >= p => w[t] <= w[list[i]]
    <2>0. /\ w[t] \in Int
          /\ \A i \in 1..Len(list) : w[list[i]] \in Int
      BY DEF Queue, Fine, In
    <2>1. CASE later = {}
      <3>1. p = Len(list) + 1
        BY <2>1
      <3>2. \A i \in 1..Len(list) : ~(w[list[i]] > w[t])
        BY <1>2, <2>1
      <3> HIDE DEF p, later
      <3> QED  BY <1>0, <2>0, <3>1, <3>2
    <2>2. CASE later # {}
      <3>1. later \subseteq Nat
        OBVIOUS
      <3>2. Min(later) \in later /\ \A y \in later : Min(later) <= y
        BY <2>2, <3>1, MinIsLeast
      <3>3. p = Min(later)
        BY <2>2
      <3>4. later \subseteq 1..Len(list)
        OBVIOUS
      <3>5. \A i \in 1..Len(list) : i \in later <=> w[list[i]] > w[t]
        BY <1>2
      <3>6. \A i, j \in 1..Len(list) : i < j => w[list[i]] <= w[list[j]]
        BY DEF Queue, Ordered
      <3> HIDE DEF later, p
      <3>7. p \in 1..Len(list) /\ w[list[p]] > w[t] /\ \A i \in 1..Len(list) : w[list[i]] > w[t] => p <= i
        BY <3>2, <3>3, <3>4, <3>5
      <3> QED  BY <1>0, <2>0, <3>6, <3>7
    <2> QED  BY <2>1, <2>2
  <1> HIDE DEF p, later
  <1>4. /\ r \in Seq(Timers) /\ Len(r) = Len(list) + 1
        /\ \A j \in 1..(Len(list) + 1) : r[j] = IF j < p THEN list[j] ELSE IF j = p THEN t ELSE list[j - 1]
    BY <1>0, <1>3, InsertedAt
  <1> HIDE DEF r
  <1>5. /\ \A i, j \in 1..Len(list) : list[i] = list[j] => i = j
        /\ \A i, j \in 1..Len(list) : i < j => w[list[i]] <= w[list[j]]
        /\ \A i \in 1..Len(list) : list[i] # t
    BY DEF Queue, Ordered, In
  <1> DEFINE from(j) == IF j < p THEN j ELSE j - 1
  <1>a. ASSUME NEW j \in 1..Len(r)
        PROVE  \/ j = p /\ r[j] = t
               \/ j # p /\ from(j) \in 1..Len(list) /\ r[j] = list[from(j)]
    BY <1>0, <1>3, <1>4
  <1>b. ASSUME NEW i \in 1..Len(r), NEW j \in 1..Len(r), i # p, j # p
        PROVE  (from(i) = from(j) => i = j) /\ (i < j => from(i) < from(j))
    BY <1>0, <1>3, <1>4, <1>b
  <1>c. ASSUME NEW i \in 1..Len(r), i # p
        PROVE  (i < p => from(i) < p) /\ (p < i => from(i) >= p)
    BY <1>0, <1>3, <1>4, <1>c
  <1> HIDE DEF from
  <1>6. In(r) = In(list) \cup {t}
    <2>1. ASSUME NEW x \in In(r) PROVE x \in In(list) \cup {t}
      <3>1. PICK j \in 1..(Len(list) + 1) : x = r[j]
        BY <1>4 DEF In
      <3>2. x = t \/ \E k \in 1..Len(list) : x = list[k]
        BY <1>4, <1>a, <3>1
      <3> QED  BY <3>2 DEF In
    <2>2. t \in In(r)
      <3>1. r[p] = t /\ p \in 1..Len(r)
        BY <1>0, <1>3, <1>4
      <3> QED  BY <3>1 DEF In
    <2>3. ASSUME NEW x \in In(list) PROVE x \in In(r)
      <3>1. PICK k \in 1..Len(list) : x = list[k]
        BY DEF In
      <3>2. PICK j \in 1..Len(r) : x = r[j]
        <4>1. CASE k < p
          <5>1. k \in 1..Len(r) /\ r[k] = x
            BY <1>0, <1>3, <1>4, <3>1, <4>1
          <5> QED  BY <5>1
        <4>2. CASE ~(k < p)
          <5>1. k + 1 \in 1..Len(r) /\ r[k + 1] = x
            BY <1>0, <1>3, <1>4, <3>1, <4>2
          <5> QED  BY <5>1
        <4> QED  BY <4>1, <4>2
      <3> QED  BY <3>2 DEF In
    <2> QED  BY <2>1, <2>2, <2>3
  <1>7. Ordered(r, w)
    <2>1. ASSUME NEW i \in 1..Len(r), NEW j \in 1..Len(r), r[i] = r[j] PROVE i = j
      BY <1>5, <1>a, <1>b, <2>1
    <2>2. ASSUME NEW i \in 1..Len(r), NEW j \in 1..Len(r), i < j PROVE w[r[i]] <= w[r[j]]
      <3>0. w[t] \in Int
        BY DEF Fine
      <3>1. CASE i = p
        <4>1. j # p /\ p < j
          BY <2>2, <3>1, <1>3, <1>4
        <4>2. r[i] = t /\ r[j] = list[from(j)] /\ from(j) \in 1..Len(list) /\ from(j) >= p
          BY <1>a, <1>c, <3>1, <4>1
        <4> QED  BY <1>3, <4>2
      <3>2. CASE j = p
        <4>1. i # p /\ i < p
          BY <2>2, <3>2, <1>3, <1>4
        <4>2. r[j] = t /\ r[i] = list[from(i)] /\ from(i) \in 1..Len(list) /\ from(i) < p
          BY <1>a, <1>c, <3>2, <4>1
        <4> QED  BY <1>3, <4>2
      <3>3. CASE i # p /\ j # p
        <4>1. /\ r[i] = list[from(i)] /\ from(i) \in 1..Len(list)
              /\ r[j] = list[from(j)] /\ from(j) \in 1..Len(list) /\ from(i) < from(j)
          BY <1>a, <1>b, <2>2, <3>3
        <4> QED  BY <1>5, <4>1
      <3> QED  BY <3>1, <3>2, <3>3
    <2> QED  BY <1>4, <2>1, <2>2 DEF Ordered
  <1>8. ASSUME NEW x \in In(r) PROVE Fine(x, due, w, live, tick, lo)
    BY <1>6 DEF Queue
  <1> QED  BY <1>1, <1>6, <1>7, <1>8 DEF Queue
-----------------------------------------------------------------------------
\* The parts of the state that rt_timer_check works on.
State == [list : Seq(Timers), due : [Timers -> 0..(TickCount - 1)], on : [Timers -> BOOLEAN],
          left : [Timers -> Int], alive : SUBSET Timers]

\* The timer a call is under way on exists, and is as the call left it.
Held(s) ==
  \A b \in step.on :
    /\ b \in s.alive
    /\ step.at # "remove" => /\ b \notin In(s.list)
                             /\ s.due[b] = timeout_tick[b] /\ s.left[b] = left[b] /\ s.on[b] = activated[b]

ActiveBut(s, X) == \A x \in s.alive : s.on[x] = TRUE => x \in In(s.list) \/ x \in X

\* A state in the course of rt_timer_check; the activated timers except X are listed.
Sane(s, X) ==
  /\ s \in State
  /\ Queue(s.list, s.due, s.left, s.alive, rt_tick, 0 - MaxDelay)
  /\ ActiveBut(s, X)
  /\ Held(s)

\* What the thread works on is left alone.
Touchable(x) == x \in step.on => step.at = "remove"

\* rt_timer_start in a time-out function keeps the list in order, and lists the timer.
LEMMA StartedSane ==
  ASSUME Prompt, rt_tick \in 0..(TickCount - 1), NEW X, NEW s, Sane(s, X),
         NEW x \in s.alive, init_tick[x] \in Times, Touchable(x)
  PROVE  Sane(Started(s, x), X \ {x}) /\ Started(s, x).alive = s.alive
  <1> DEFINE d == (rt_tick + init_tick[x]) % TickCount
             due == [s.due EXCEPT ![x] = d]
             w == [s.left EXCEPT ![x] = init_tick[x]]
             list == Cut(s.list, x)
             r == Started(s, x)
  <1>0. s \in State /\ x \in Timers
    BY DEF Sane, State
  <1>1. /\ r.list = Insert(list, x, due) /\ r.due = due /\ r.on = [s.on EXCEPT ![x] = TRUE]
        /\ r.left = w /\ r.alive = s.alive
    <2>1. r.list = Insert(list, x, due)
      BY <1>0 DEF Started, State
    <2>2. r.due = due
      BY <1>0 DEF Started, State
    <2>3. r.on = [s.on EXCEPT ![x] = TRUE]
      BY <1>0 DEF Started, State
    <2>4. r.left = w
      BY <1>0 DEF Started, State
    <2>5. r.alive = s.alive
      BY <1>0 DEF Started, State
    <2> QED  BY <2>1, <2>2, <2>3, <2>4, <2>5
  <1>2. r = [list |-> r.list, due |-> r.due, on |-> r.on, left |-> r.left, alive |-> r.alive]
    <2> DEFINE l == Insert(list, x, due)
    <2> HIDE DEF l, due
    <2>1. r = [s EXCEPT !.due = due, !.list = l, !.on = [s.on EXCEPT ![x] = TRUE],
                        !.left = [s.left EXCEPT ![x] = init_tick[x]]]
      BY <1>0 DEF Started, State, l, due
    <2> QED  BY <1>0, <2>1 DEF State
  <1>3. init_tick[x] \in 0..Half /\ init_tick[x] >= 1 /\ init_tick[x] <= Half - MaxDelay /\ init_tick[x] \in Int
    BY Ticks DEF Prompt
  <1>4. Ahead(rt_tick, d, init_tick[x])
    BY <1>3, AheadOfTick
  <1>5. d \in 0..(TickCount - 1)
    BY <1>4 DEF Ahead
  <1>6. Ordered(list, s.left) /\ In(list) = In(s.list) \ {x}
    BY CutMembers DEF Sane, Queue
  <1> HIDE DEF d
  <1>7. due \in [Timers -> 0..(TickCount - 1)] /\ w \in [Timers -> Int] /\ due[x] = d /\ w[x] = init_tick[x]
    BY <1>0, <1>3, <1>5 DEF State
  <1>8. Queue(list, s.due, s.left, s.alive, rt_tick, 0 - MaxDelay)
    BY <1>6 DEF Sane, Queue
  <1>9. \A y \in In(list) : due[y] = s.due[y] /\ w[y] = s.left[y] /\ y \in s.alive
    BY <1>0, <1>6 DEF Sane, Queue, Fine, State
  <1> HIDE DEF due, w, list
  <1>10. Queue(list, due, w, s.alive, rt_tick, 0 - MaxDelay)
    <2>1. 0 - MaxDelay \in Int /\ 0 - MaxDelay <= 0 - MaxDelay
      BY Ticks
    <2> QED  BY <1>8, <1>9, <2>1, QueueApart
  <1>11. Fine(x, due, w, s.alive, rt_tick, 0 - MaxDelay) /\ 1 - MaxDelay <= w[x]
    BY <1>3, <1>4, <1>7, Ticks DEF Fine
  <1>12. x \notin In(list)
    BY <1>6
  <1>13. /\ Queue(Insert(list, x, due), due, w, s.alive, rt_tick, 0 - MaxDelay)
         /\ In(Insert(list, x, due)) = In(list) \cup {x}
    <2>1. 0 - MaxDelay \in Int /\ 0 - MaxDelay <= 0 - MaxDelay
      BY Ticks
    <2> QED  BY <1>0, <1>10, <1>11, <1>12, <2>1, InsertQueues
  <1> HIDE DEF r
  <1>14. r \in State
    <2>1. r.list \in Seq(Timers)
      BY <1>1, <1>13 DEF Queue, Ordered
    <2>2. r.on \in [Timers -> BOOLEAN]
      BY <1>0, <1>1 DEF State
    <2>3. r.due \in [Timers -> 0..(TickCount - 1)] /\ r.left \in [Timers -> Int] /\ r.alive \subseteq Timers
      BY <1>0, <1>1, <1>7 DEF State
    <2> QED  BY <1>2, <2>1, <2>2, <2>3 DEF State
  <1>15. In(r.list) = In(s.list) \cup {x}
    BY <1>1, <1>6, <1>13
  <1>16. ActiveBut(r, X \ {x})
    BY <1>0, <1>1, <1>15 DEF ActiveBut, Sane, State
  <1>17. Held(r)
    <2> SUFFICES ASSUME NEW b \in step.on PROVE
          /\ b \in r.alive
          /\ step.at # "remove" => /\ b \notin In(r.list)
                                   /\ r.due[b] = timeout_tick[b] /\ r.left[b] = left[b] /\ r.on[b] = activated[b]
      BY DEF Held
    <2>1. b \in s.alive /\ b \in r.alive
      BY <1>1 DEF Sane, Held
    <2>2. ASSUME step.at # "remove" PROVE
            /\ b \notin In(r.list)
            /\ r.due[b] = timeout_tick[b] /\ r.left[b] = left[b] /\ r.on[b] = activated[b]
      <3>1. b # x /\ b \in Timers
        BY <1>0, <2>1, <2>2 DEF Touchable, State
      <3>2. /\ b \notin In(s.list) /\ s.due[b] = timeout_tick[b] /\ s.left[b] = left[b]
            /\ s.on[b] = activated[b]
        BY <2>2 DEF Sane, Held
      <3>3. r.due[b] = s.due[b] /\ r.left[b] = s.left[b] /\ r.on[b] = s.on[b]
        BY <1>0, <1>1, <3>1 DEF State, due, w
      <3> QED  BY <1>15, <3>1, <3>2, <3>3
    <2> QED  BY <2>1, <2>2
  <1>18. Queue(r.list, r.due, r.left, r.alive, rt_tick, 0 - MaxDelay)
    BY <1>1, <1>13
  <1> QED  BY <1>1, <1>14, <1>16, <1>17, <1>18 DEF Sane, r

\* A timer leaves the list; what else changes is its own.
LEMMA CutSane ==
  ASSUME NEW X, NEW s, Sane(s, X), NEW x, Touchable(x), NEW r, r \in State,
         r.list = Cut(s.list, x), r.alive \subseteq s.alive,
         \A y \in Timers \ {x} : r.due[y] = s.due[y] /\ r.left[y] = s.left[y] /\ r.on[y] = s.on[y]
                                 /\ (y \in s.alive => y \in r.alive),
         x \in r.alive => r.on[x] = FALSE,
         x \in step.on => x \in r.alive
  PROVE  Sane(r, X)
  <1>0. s \in State
    BY DEF Sane
  <1>1. Ordered(r.list, s.left) /\ In(r.list) = In(s.list) \ {x}
    BY CutMembers DEF Sane, Queue
  <1>2. Queue(r.list, s.due, s.left, s.alive, rt_tick, 0 - MaxDelay)
    BY <1>1 DEF Sane, Queue
  <1>3. \A y \in In(r.list) : r.due[y] = s.due[y] /\ r.left[y] = s.left[y] /\ y \in r.alive
    <2> SUFFICES ASSUME NEW y \in In(r.list)
                 PROVE  r.due[y] = s.due[y] /\ r.left[y] = s.left[y] /\ y \in r.alive
      OBVIOUS
    <2>1. y \in s.alive /\ y # x
      BY <1>1 DEF Sane, Queue, Fine
    <2>2. y \in Timers \ {x}
      BY <1>0, <2>1 DEF State
    <2> QED  BY <2>1, <2>2
  <1>4. Queue(r.list, r.due, r.left, r.alive, rt_tick, 0 - MaxDelay)
    <2>1. 0 - MaxDelay \in Int /\ 0 - MaxDelay <= 0 - MaxDelay
      BY Ticks
    <2> QED  BY <1>2, <1>3, <2>1, QueueApart
  <1>5. ActiveBut(r, X)
    <2> SUFFICES ASSUME NEW y \in r.alive, r.on[y] = TRUE PROVE y \in In(r.list) \/ y \in X
      BY DEF ActiveBut
    <2>1. y # x
      OBVIOUS
    <2>2. y \in Timers \ {x} /\ y \in s.alive
      BY <1>0, <2>1 DEF State
    <2>3. y \in In(s.list) \/ y \in X
      BY <2>2 DEF Sane, ActiveBut
    <2> QED  BY <1>1, <2>1, <2>3
  <1>6. Held(r)
    <2> SUFFICES ASSUME NEW b \in step.on PROVE
          /\ b \in r.alive
          /\ step.at # "remove" => /\ b \notin In(r.list)
                                   /\ r.due[b] = timeout_tick[b] /\ r.left[b] = left[b] /\ r.on[b] = activated[b]
      BY DEF Held
    <2>1. b \in s.alive /\ b \in Timers
      BY <1>0 DEF Sane, Held, State
    <2>2. b \in r.alive
      BY <2>1
    <2>3. ASSUME step.at # "remove" PROVE
            /\ b \notin In(r.list)
            /\ r.due[b] = timeout_tick[b] /\ r.left[b] = left[b] /\ r.on[b] = activated[b]
      <3>1. b # x /\ b \in Timers \ {x}
        BY <2>1, <2>3 DEF Touchable
      <3>2. /\ b \notin In(s.list) /\ s.due[b] = timeout_tick[b] /\ s.left[b] = left[b]
            /\ s.on[b] = activated[b]
        BY <2>3 DEF Sane, Held
      <3> QED  BY <1>1, <3>1, <3>2
    <2> QED  BY <2>2, <2>3
  <1> QED  BY <1>4, <1>5, <1>6 DEF Sane

\* rt_timer_stop in a time-out function.
LEMMA StoppedSane ==
  ASSUME NEW X, NEW s, Sane(s, X), NEW x \in s.alive, Touchable(x)
  PROVE  Sane(Stopped(s, x), X) /\ Stopped(s, x).alive = s.alive
  <1> DEFINE r == Stopped(s, x)
             l == Cut(s.list, x)
  <1>0. s \in State /\ x \in Timers
    BY DEF Sane, State
  <1>1. CASE s.on[x] = FALSE
    BY <1>1 DEF Stopped
  <1>2. CASE s.on[x] = TRUE
    <2> HIDE DEF l
    <2>1. r = [s EXCEPT !.list = l, !.on = [s.on EXCEPT ![x] = FALSE], !.due = [s.due EXCEPT ![x] = 0],
                        !.left = [s.left EXCEPT ![x] = 0]]
      BY <1>0, <1>2 DEF Stopped, State, l
    <2> HIDE DEF r
    <2>2. r = [list |-> l, due |-> [s.due EXCEPT ![x] = 0], on |-> [s.on EXCEPT ![x] = FALSE],
               left |-> [s.left EXCEPT ![x] = 0], alive |-> s.alive]
      BY <1>0, <2>1 DEF State
    <2>3. /\ r.list = l /\ r.due = [s.due EXCEPT ![x] = 0] /\ r.on = [s.on EXCEPT ![x] = FALSE]
          /\ r.left = [s.left EXCEPT ![x] = 0] /\ r.alive = s.alive
      BY <2>2
    <2>4. l \in Seq(Timers)
      BY CutMembers DEF Sane, Queue, Ordered, l
    <2>5. [s.due EXCEPT ![x] = 0] \in [Timers -> 0..(TickCount - 1)]
      <3>1. 0 \in 0..(TickCount - 1)
        BY Ticks, TimerAssumption
      <3> QED  BY <1>0, <3>1 DEF State
    <2>6. /\ [s.on EXCEPT ![x] = FALSE] \in [Timers -> BOOLEAN] /\ [s.left EXCEPT ![x] = 0] \in [Timers -> Int]
          /\ s.alive \in SUBSET Timers
      BY <1>0 DEF State
    <2>7. r \in State
      BY <2>2, <2>4, <2>5, <2>6 DEF State
    <2>8. /\ \A y \in Timers \ {x} : r.due[y] = s.due[y] /\ r.left[y] = s.left[y] /\ r.on[y] = s.on[y]
                                     /\ (y \in s.alive => y \in r.alive)
          /\ r.on[x] = FALSE
      BY <1>0, <2>3 DEF State
    <2>9. x \in step.on => x \in r.alive
      BY <2>3
    <2> QED  BY <2>3, <2>7, <2>8, <2>9, CutSane DEF l, r
  <1>3. s.on[x] \in BOOLEAN
    BY <1>0 DEF State
  <1> QED  BY <1>1, <1>2, <1>3

\* rt_timer_delete in a time-out function, of a timer no call is under way on.
LEMMA DeletedSane ==
  ASSUME NEW X, NEW s, Sane(s, X), NEW x \in s.alive, x \notin step.on
  PROVE  Sane(Deleted(s, x), X) /\ Deleted(s, x).alive = s.alive \ {x}
  <1> DEFINE r == Deleted(s, x)
             l == Cut(s.list, x)
  <1>0. s \in State /\ x \in Timers
    BY DEF Sane, State
  <1> HIDE DEF l
  <1>1. r = [s EXCEPT !.list = l, !.alive = s.alive \ {x}]
    BY <1>0 DEF Deleted, State, l
  <1> HIDE DEF r
  <1>2. r = [list |-> l, due |-> s.due, on |-> s.on, left |-> s.left, alive |-> s.alive \ {x}]
    BY <1>0, <1>1 DEF State
  <1>3. r.list = l /\ r.due = s.due /\ r.on = s.on /\ r.left = s.left /\ r.alive = s.alive \ {x}
    BY <1>2
  <1>4. l \in Seq(Timers)
    BY CutMembers DEF Sane, Queue, Ordered, l
  <1>5. r \in State
    BY <1>0, <1>2, <1>4 DEF State
  <1>6. \A y \in Timers \ {x} : r.due[y] = s.due[y] /\ r.left[y] = s.left[y] /\ r.on[y] = s.on[y]
                                /\ (y \in s.alive => y \in r.alive)
    BY <1>3
  <1>7. Touchable(x)
    BY DEF Touchable
  <1>8. x \notin r.alive
    BY <1>3
  <1> QED  BY <1>3, <1>5, <1>6, <1>7, <1>8, CutSane DEF l, r

\* Whatever a time-out function does, the list stays in order and its own timer
\* exists.
LEMMA CalledSane ==
  ASSUME Prompt, rt_tick \in 0..(TickCount - 1), NEW X, NEW s, Sane(s, X), s.alive = alive,
         \A x \in alive : init_tick[x] \in Times, NEW t \in alive, NEW r \in Called(s, t)
  PROVE  Sane(r, X) /\ t \in r.alive /\ r.alive \subseteq alive
  <1>0. Called(s, t) = {s} \cup {Started(s, x) : x \in alive \ step.on}
                           \cup {Stopped(s, x) : x \in alive \ step.on}
                           \cup {Deleted(s, x) : x \in (alive \ step.on) \ {t}}
    BY DEF Called, Prompt
  <1>1. CASE r = s
    BY <1>1
  <1>2. ASSUME NEW x \in alive \ step.on, r = Started(s, x) PROVE Sane(r, X) /\ t \in r.alive /\ r.alive \subseteq alive
    <2>1. Touchable(x)
      BY DEF Touchable
    <2>2. Sane(r, X \ {x}) /\ r.alive = s.alive
      BY <1>2, <2>1, StartedSane
    <2> QED  BY <2>2 DEF Sane, ActiveBut
  <1>3. ASSUME NEW x \in alive \ step.on, r = Stopped(s, x) PROVE Sane(r, X) /\ t \in r.alive /\ r.alive \subseteq alive
    <2>1. Touchable(x)
      BY DEF Touchable
    <2>2. Sane(r, X) /\ r.alive = s.alive
      BY <1>3, <2>1, StoppedSane
    <2> QED  BY <2>2
  <1>4. ASSUME NEW x \in (alive \ step.on) \ {t}, r = Deleted(s, x) PROVE Sane(r, X) /\ t \in r.alive /\ r.alive \subseteq alive
    <2>1. Sane(r, X) /\ r.alive = s.alive \ {x}
      BY <1>4, DeletedSane
    <2> QED  BY <2>1
  <1> QED  BY <1>0, <1>1, <1>2, <1>3, <1>4

\* And then its own timer is in the list, or is not activated any more.
LEMMA EndedSane ==
  ASSUME Prompt, rt_tick \in 0..(TickCount - 1), NEW X, NEW s, Sane(s, X),
         NEW t \in s.alive, init_tick[t] \in Times, Touchable(t), periodic[t] \in BOOLEAN
  PROVE  Sane(Ended(s, t), X \ {t}) /\ Ended(s, t).alive = s.alive
  <1>0. s \in State /\ t \in Timers /\ s.on[t] \in BOOLEAN
    BY DEF Sane, State
  <1>1. CASE periodic[t] = TRUE /\ s.on[t] = TRUE
    BY <1>1, StartedSane DEF Ended
  <1>2. CASE ~(periodic[t] = TRUE /\ s.on[t] = TRUE)
    <2> DEFINE on == [s.on EXCEPT ![t] = FALSE]
               r == [s EXCEPT !.on = on]
    <2>1. Ended(s, t) = r
      <3>1. ~(periodic[t] /\ s.on[t])
        BY <1>2, Zenon
      <3>2. Ended(s, t) = [s EXCEPT !.on[t] = FALSE]
        BY <3>1 DEF Ended
      <3> QED  BY <1>0, <3>2 DEF State
    <2> HIDE DEF on
    <2>a. r = [s EXCEPT !.list = s.list, !.on = on]
      BY <1>0 DEF State
    <2> HIDE DEF r
    <2>2. r = [list |-> s.list, due |-> s.due, on |-> on, left |-> s.left, alive |-> s.alive]
      BY <1>0, <2>a DEF State
    <2>3. r.list = s.list /\ r.due = s.due /\ r.on = on /\ r.left = s.left /\ r.alive = s.alive
      BY <2>2
    <2>4. on \in [Timers -> BOOLEAN] /\ on[t] = FALSE /\ \A y \in Timers \ {t} : on[y] = s.on[y]
      BY <1>0 DEF on, State
    <2>5. r \in State
      BY <1>0, <2>2, <2>4 DEF State
    <2>6. ActiveBut(r, X \ {t})
      BY <1>0, <2>3, <2>4 DEF ActiveBut, Sane, State
    <2>7. Held(r)
      <3> SUFFICES ASSUME NEW b \in step.on PROVE
            /\ b \in r.alive
            /\ step.at # "remove" => /\ b \notin In(r.list)
                                     /\ r.due[b] = timeout_tick[b] /\ r.left[b] = left[b] /\ r.on[b] = activated[b]
        BY DEF Held
      <3>1. b \in s.alive /\ b \in Timers
        BY <1>0 DEF Sane, Held, State
      <3>2. step.at # "remove" => /\ b \notin In(s.list) /\ s.due[b] = timeout_tick[b]
                                  /\ s.left[b] = left[b] /\ s.on[b] = activated[b]
        BY DEF Sane, Held
      <3>3. step.at # "remove" => b # t
        BY DEF Touchable
      <3> QED  BY <2>3, <2>4, <3>1, <3>2, <3>3
    <2> QED  BY <2>1, <2>3, <2>5, <2>6, <2>7 DEF Sane
  <1> QED  BY <1>1, <1>2
-----------------------------------------------------------------------------
\* The least time left in the list: rt_timer_check has not gone through it yet.
Lo == IF checking = TRUE THEN 0 - MaxDelay ELSE 1 - MaxDelay

TimerTypes ==
  /\ rt_tick \in 0..(TickCount - 1)
  /\ timeout_tick \in [Timers -> 0..(TickCount - 1)] /\ left \in [Timers -> Int]
  /\ init_tick \in [Timers -> Times \cup {0}] /\ \A t \in alive : init_tick[t] \in Times
  /\ periodic \in [Timers -> BOOLEAN] /\ activated \in [Timers -> BOOLEAN]
  /\ alive \subseteq Timers /\ checking \in BOOLEAN /\ delay \in 0..MaxDelay
  /\ \/ step = Outside
     \/ \E a \in {"start", "insert", "remove", "clear"}, t \in alive : step = [at |-> a, on |-> {t}]

\* A call of the thread that has begun: until it is inserted the timer is not in
\* the list, and the time that was computed for it passes.
Busy(t) ==
  /\ step.at # "remove" => t \notin In(rt_timer_list)
  /\ step.at \in {"start", "insert"} => activated[t] = FALSE
  /\ step.at = "insert" => /\ 1 - delay <= left[t] /\ left[t] <= Half - MaxDelay
                           /\ Ahead(rt_tick, timeout_tick[t], left[t])

TimerInv ==
  /\ TimerTypes
  /\ Queue(rt_timer_list, timeout_tick, left, alive, rt_tick, Lo)
  /\ \A t \in step.on : Busy(t)
  /\ \A t \in alive : activated[t] = TRUE =>
       t \in In(rt_timer_list) \/ (step.at = "clear" /\ t \in step.on)

\* Every call begins outside the list.
LEMMA TimerInvInit == TimerInit => TimerInv
  <1> SUFFICES ASSUME TimerInit PROVE TimerInv
    OBVIOUS
  <1> USE DEF TimerInit
  <1>1. TimerTypes
    <2>1. 0 \in 0..(TickCount - 1) /\ MaxDelay \in Nat
      BY Ticks, TimerAssumption
    <2>2. timeout_tick \in [Timers -> 0..(TickCount - 1)] /\ left \in [Timers -> Int]
      BY <2>1
    <2>3. init_tick \in [Timers -> Times \cup {0}] /\ \A t \in alive : init_tick[t] \in Times
      OBVIOUS
    <2>4. periodic \in [Timers -> BOOLEAN] /\ activated \in [Timers -> BOOLEAN]
      OBVIOUS
    <2>5. rt_tick \in 0..(TickCount - 1) /\ alive \subseteq Timers /\ delay \in 0..MaxDelay
      BY <2>1
    <2>6. step = Outside /\ checking \in BOOLEAN
      BY Zenon
    <2> QED  BY <2>2, <2>3, <2>4, <2>5, <2>6, Zenon DEF TimerTypes
  <1>2. In(rt_timer_list) = {} /\ Ordered(rt_timer_list, left)
    BY DEF In, Ordered
  <1>3. step.on = {} /\ alive = {}
    BY DEF Outside
  <1>4. Queue(rt_timer_list, timeout_tick, left, alive, rt_tick, Lo)
    BY <1>2 DEF Queue
  <1> QED  BY <1>1, <1>3, <1>4 DEF TimerInv

\* What a call outside the interrupt meets: a timer that is cut from the list is
\* forgotten, with what belongs to it.
LEMMA CutForgets ==
  ASSUME TimerInv, NEW t \in alive, NEW new, alive \ {t} \subseteq new
  PROVE  /\ Queue(Cut(rt_timer_list, t), [timeout_tick EXCEPT ![t] = 0], [left EXCEPT ![t] = 0],
                  new, rt_tick, Lo)
         /\ In(Cut(rt_timer_list, t)) = In(rt_timer_list) \ {t}
  <1>0. timeout_tick \in [Timers -> 0..(TickCount - 1)] /\ left \in [Timers -> Int] /\ alive \subseteq Timers
    BY DEF TimerInv, TimerTypes
  <1>1. Queue(rt_timer_list, timeout_tick, left, alive, rt_tick, Lo)
    BY DEF TimerInv
  <1>2. Ordered(Cut(rt_timer_list, t), left) /\ In(Cut(rt_timer_list, t)) = In(rt_timer_list) \ {t}
    BY <1>1, CutMembers DEF Queue
  <1>3. Queue(Cut(rt_timer_list, t), timeout_tick, left, alive, rt_tick, Lo)
    BY <1>1, <1>2 DEF Queue
  <1>4. Lo \in Int /\ Lo <= Lo
    BY Ticks DEF Lo
  <1>5. ASSUME NEW x \in In(Cut(rt_timer_list, t))
        PROVE  /\ [timeout_tick EXCEPT ![t] = 0][x] = timeout_tick[x] /\ [left EXCEPT ![t] = 0][x] = left[x]
               /\ x \in new
    <2>1. x # t /\ x \in alive
      BY <1>1, <1>2 DEF Queue, Fine
    <2> QED  BY <1>0, <2>1
  <1>6. Queue(Cut(rt_timer_list, t), [timeout_tick EXCEPT ![t] = 0], [left EXCEPT ![t] = 0], new, rt_tick, Lo)
    BY <1>3, <1>4, <1>5, QueueApart, ZenonT(40)
  <1> QED  BY <1>2, <1>6

\* Zero is a tick.
LEMMA Forgotten ==
  ASSUME TimerInv, NEW t \in Timers
  PROVE  /\ [timeout_tick EXCEPT ![t] = 0] \in [Timers -> 0..(TickCount - 1)]
         /\ [left EXCEPT ![t] = 0] \in [Timers -> Int]
  <1>1. 0 \in 0..(TickCount - 1)
    BY Ticks, TimerAssumption
  <1>2. timeout_tick \in [Timers -> 0..(TickCount - 1)] /\ left \in [Timers -> Int]
    BY DEF TimerInv, TimerTypes
  <1> QED  BY <1>1, <1>2

\* rt_timer_create leaves the list alone.
LEMMA CreateStep ==
  ASSUME TimerInv, NEW t \in Timers, rt_timer_create(t)
  PROVE  TimerInv'
  <1> USE DEF rt_timer_create
  <1>0. step = Outside /\ step' = Outside /\ step'.on = {} /\ step.on = {}
    BY DEF Outside
  <1>1. TimerTypes'
    <2>1. init_tick' \in [Timers -> Times \cup {0}] /\ \A x \in alive' : init_tick'[x] \in Times
      BY DEF TimerInv, TimerTypes
    <2>2. periodic' \in [Timers -> BOOLEAN] /\ activated' \in [Timers -> BOOLEAN]
      BY DEF TimerInv, TimerTypes
    <2>3. alive' \subseteq Timers
      BY DEF TimerInv, TimerTypes
    <2>4. /\ rt_tick' = rt_tick /\ timeout_tick' = timeout_tick /\ left' = left
          /\ checking' = checking /\ delay' = delay
      OBVIOUS
    <2> QED  BY <1>0, <2>1, <2>2, <2>3, <2>4 DEF TimerInv, TimerTypes
  <1>2. Queue(rt_timer_list, timeout_tick, left, alive', rt_tick, Lo)
    <2>1. Lo \in Int /\ Lo <= Lo
      BY Ticks DEF Lo
    <2>2. \A x \in In(rt_timer_list) : x \in alive'
      BY DEF TimerInv, Queue, Fine
    <2> QED  BY <2>1, <2>2, QueueApart DEF TimerInv
  <1>3. Lo' = Lo /\ rt_timer_list' = rt_timer_list /\ timeout_tick' = timeout_tick /\ left' = left /\ rt_tick' = rt_tick
    BY DEF Lo
  <1>4. ASSUME NEW x \in alive', activated'[x] = TRUE PROVE x \in In(rt_timer_list')
    <2>1. x # t /\ x \in alive /\ activated[x] = TRUE
      BY <1>4 DEF TimerInv, TimerTypes
    <2> QED  BY <1>0, <1>3, <2>1 DEF TimerInv
  <1> QED  BY <1>0, <1>1, <1>2, <1>3, <1>4 DEF TimerInv

\* rt_timer_delete.
LEMMA DeleteStep ==
  ASSUME TimerInv, NEW t \in Timers, rt_timer_delete(t)
  PROVE  TimerInv'
  <1> USE DEF rt_timer_delete, Idle, Forget
  <1>0. step = Outside /\ step' = Outside /\ step'.on = {} /\ step.on = {} /\ t \in alive
    BY DEF Outside
  <1>1. TimerTypes'
    <2>1. init_tick' \in [Timers -> Times \cup {0}] /\ \A x \in alive' : init_tick'[x] \in Times
      BY DEF TimerInv, TimerTypes
    <2>2. periodic' \in [Timers -> BOOLEAN] /\ activated' \in [Timers -> BOOLEAN]
      BY DEF TimerInv, TimerTypes
    <2>3. alive' \subseteq Timers
      BY DEF TimerInv, TimerTypes
    <2>4. rt_tick' = rt_tick /\ checking' = checking /\ delay' = delay
      OBVIOUS
    <2>5. timeout_tick' \in [Timers -> 0..(TickCount - 1)] /\ left' \in [Timers -> Int]
      BY Forgotten
    <2> QED  BY <1>0, <2>1, <2>2, <2>3, <2>4, <2>5 DEF TimerInv, TimerTypes
  <1>2. /\ Queue(rt_timer_list', timeout_tick', left', alive', rt_tick, Lo)
        /\ In(rt_timer_list') = In(rt_timer_list) \ {t}
    BY <1>0, CutForgets
  <1>3. Lo' = Lo /\ rt_tick' = rt_tick
    BY DEF Lo
  <1>4. ASSUME NEW x \in alive', activated'[x] = TRUE PROVE x \in In(rt_timer_list')
    <2>1. x # t /\ x \in alive /\ activated[x] = TRUE
      BY <1>4 DEF TimerInv, TimerTypes
    <2> QED  BY <1>0, <1>2, <2>1 DEF TimerInv
  <1> QED  BY <1>0, <1>1, <1>2, <1>3, <1>4 DEF TimerInv

\* rt_timer_start takes the timer from the list and clears its flag.
LEMMA StartRemoveStep ==
  ASSUME TimerInv, NEW t \in Timers, StartRemove(t)
  PROVE  TimerInv'
  <1> USE DEF StartRemove, Idle, Forget, Goto
  <1>0. /\ step.on = {} /\ t \in alive /\ step' = [at |-> "start", on |-> {t}]
        /\ step'.on = {t} /\ step'.at = "start"
    BY DEF Outside
  <1>1. TimerTypes'
    <2>1. activated' \in [Timers -> BOOLEAN]
      BY DEF TimerInv, TimerTypes
    <2>2. delay' \in 0..MaxDelay
      BY Ticks
    <2>3. /\ rt_tick' = rt_tick /\ checking' = checking /\ init_tick' = init_tick /\ periodic' = periodic
          /\ alive' = alive
      OBVIOUS
    <2>4. timeout_tick' \in [Timers -> 0..(TickCount - 1)] /\ left' \in [Timers -> Int]
      BY Forgotten
    <2> QED  BY <1>0, <2>1, <2>2, <2>3, <2>4 DEF TimerInv, TimerTypes
  <1>2. /\ Queue(rt_timer_list', timeout_tick', left', alive', rt_tick, Lo)
        /\ In(rt_timer_list') = In(rt_timer_list) \ {t}
    BY <1>0, CutForgets
  <1>3. Lo' = Lo /\ rt_tick' = rt_tick
    BY DEF Lo
  <1>4. ASSUME NEW x \in alive', activated'[x] = TRUE PROVE x \in In(rt_timer_list')
    <2>1. x # t /\ x \in alive /\ activated[x] = TRUE
      BY <1>4 DEF TimerInv, TimerTypes
    <2> QED  BY <1>0, <1>2, <2>1 DEF TimerInv
  <1>5. Busy(t)'
    <2>1. activated'[t] = FALSE
      BY DEF TimerInv, TimerTypes
    <2> QED  BY <1>0, <1>2, <2>1 DEF Busy
  <1> QED  BY <1>0, <1>1, <1>2, <1>3, <1>4, <1>5 DEF TimerInv

\* rt_timer_start computes the tick, with interrupts enabled.
LEMMA StartTimeoutStep ==
  ASSUME Prompt, TimerInv, NEW t \in Timers, StartTimeout(t)
  PROVE  TimerInv'
  <1> USE DEF StartTimeout, At, Goto
  <1>0. /\ step.on = {t} /\ step.at = "start" /\ step' = [at |-> "insert", on |-> {t}]
        /\ step'.on = {t} /\ step'.at = "insert"
    OBVIOUS
  <1>1. t \in alive /\ init_tick[t] \in Times /\ rt_tick \in 0..(TickCount - 1) /\ delay \in 0..MaxDelay
    BY <1>0 DEF TimerInv, TimerTypes, Outside
  <1>2. t \notin In(rt_timer_list) /\ activated[t] = FALSE
    BY <1>0 DEF TimerInv, Busy
  <1>3. init_tick[t] \in 0..Half /\ init_tick[t] >= 1 /\ init_tick[t] <= Half - MaxDelay /\ init_tick[t] \in Int
    BY <1>1, Ticks DEF Prompt
  <1> DEFINE d == (rt_tick + init_tick[t]) % TickCount
  <1>4. Ahead(rt_tick, d, init_tick[t])
    BY <1>1, <1>3, AheadOfTick
  <1>5. d \in 0..(TickCount - 1)
    BY <1>4 DEF Ahead
  <1>a. timeout_tick' = [timeout_tick EXCEPT ![t] = d] /\ left' = [left EXCEPT ![t] = init_tick[t]]
    OBVIOUS
  <1> HIDE DEF d
  <1>b. timeout_tick \in [Timers -> 0..(TickCount - 1)] /\ left \in [Timers -> Int] /\ alive \subseteq Timers
    BY DEF TimerInv, TimerTypes
  <1>6. /\ timeout_tick' \in [Timers -> 0..(TickCount - 1)] /\ left' \in [Timers -> Int]
        /\ timeout_tick'[t] = d /\ left'[t] = init_tick[t]
    BY <1>3, <1>5, <1>a, <1>b
  <1>7. /\ rt_tick' = rt_tick /\ checking' = checking /\ init_tick' = init_tick /\ periodic' = periodic
        /\ activated' = activated /\ alive' = alive /\ delay' = delay /\ rt_timer_list' = rt_timer_list
    OBVIOUS
  <1>8. TimerTypes'
    BY <1>0, <1>1, <1>6, <1>7 DEF TimerInv, TimerTypes
  <1>9. Queue(rt_timer_list, timeout_tick', left', alive, rt_tick, Lo)
    <2>1. Lo \in Int /\ Lo <= Lo
      BY Ticks DEF Lo
    <2>2. ASSUME NEW x \in In(rt_timer_list)
          PROVE  timeout_tick'[x] = timeout_tick[x] /\ left'[x] = left[x] /\ x \in alive
      <3>1. x # t /\ x \in alive
        BY <1>2 DEF TimerInv, Queue, Fine
      <3> QED  BY <1>a, <1>b, <3>1
    <2>3. Queue(rt_timer_list, timeout_tick, left, alive, rt_tick, Lo)
      BY DEF TimerInv
    <2> QED  BY ONLY <2>1, <2>2, <2>3, QueueApart
  <1>10. Lo' = Lo
    BY <1>7 DEF Lo
  <1>11. Busy(t)'
    <2>1. 1 - delay <= left'[t]
      BY <1>1, <1>3, <1>6, Ticks
    <2> QED  BY <1>0, <1>2, <1>3, <1>4, <1>6, <1>7, <2>1 DEF Busy
  <1>12. \A x \in alive' : activated'[x] = TRUE => x \in In(rt_timer_list')
    BY <1>0, <1>7 DEF TimerInv
  <1> QED  BY <1>0, <1>7, <1>8, <1>9, <1>10, <1>11, <1>12 DEF TimerInv

\* rt_timer_start inserts the timer, some ticks after its time was computed.
LEMMA StartInsertStep ==
  ASSUME TimerInv, NEW t \in Timers, StartInsert(t)
  PROVE  TimerInv'
  <1> USE DEF StartInsert, At
  <1>0. step.on = {t} /\ step.at = "insert" /\ step' = Outside /\ step'.on = {}
    BY DEF Outside
  <1>1. /\ t \in alive /\ rt_tick \in 0..(TickCount - 1) /\ delay \in 0..MaxDelay
        /\ left[t] \in Int
    BY <1>0 DEF TimerInv, TimerTypes, Outside
  <1>2. /\ t \notin In(rt_timer_list) /\ activated[t] = FALSE /\ 1 - delay <= left[t] /\ left[t] <= Half - MaxDelay
        /\ Ahead(rt_tick, timeout_tick[t], left[t])
    BY <1>0 DEF TimerInv, Busy
  <1>3. checking = FALSE
    BY DEF TimerInv, TimerTypes
  <1>4. Lo = 1 - MaxDelay /\ Lo \in Int /\ 0 - MaxDelay <= Lo
    BY <1>3, Ticks DEF Lo
  <1>5. Fine(t, timeout_tick, left, alive, rt_tick, Lo) /\ 1 - MaxDelay <= left[t]
    BY <1>1, <1>2, <1>4, Ticks DEF Fine
  <1>6. /\ Queue(rt_timer_list', timeout_tick, left, alive, rt_tick, Lo)
        /\ In(rt_timer_list') = In(rt_timer_list) \cup {t}
    <2>1. Queue(rt_timer_list, timeout_tick, left, alive, rt_tick, Lo)
      BY DEF TimerInv
    <2> QED  BY <1>1, <1>2, <1>4, <1>5, <2>1, InsertQueues
  <1>7. /\ rt_tick' = rt_tick /\ timeout_tick' = timeout_tick /\ init_tick' = init_tick /\ periodic' = periodic
        /\ alive' = alive /\ checking' = checking /\ left' = left /\ delay' = 0
    OBVIOUS
  <1>8. activated' \in [Timers -> BOOLEAN] /\ delay' \in 0..MaxDelay
    BY <1>7, Ticks DEF TimerInv, TimerTypes
  <1>9. TimerTypes'
    BY <1>0, <1>7, <1>8 DEF TimerInv, TimerTypes
  <1>10. Lo' = Lo
    BY <1>7 DEF Lo
  <1>11. ASSUME NEW x \in alive', activated'[x] = TRUE PROVE x \in In(rt_timer_list')
    <2>1. x = t \/ (x \in alive /\ activated[x] = TRUE)
      BY <1>11, <1>7 DEF TimerInv, TimerTypes
    <2> QED  BY <1>0, <1>6, <2>1 DEF TimerInv
  <1> QED  BY <1>0, <1>6, <1>7, <1>9, <1>10, <1>11 DEF TimerInv

\* rt_timer_stop has seen the flag.
LEMMA StopCheckStep ==
  ASSUME TimerInv, NEW t \in Timers, StopCheck(t)
  PROVE  TimerInv'
  <1> USE DEF StopCheck, Idle, Goto
  <1>0. /\ step.on = {} /\ t \in alive /\ step' = [at |-> "remove", on |-> {t}]
        /\ step'.on = {t} /\ step'.at = "remove"
    BY DEF Outside
  <1>1. /\ rt_tick' = rt_tick /\ timeout_tick' = timeout_tick /\ init_tick' = init_tick /\ periodic' = periodic
        /\ alive' = alive /\ checking' = checking /\ left' = left /\ delay' = 0 /\ activated' = activated
        /\ rt_timer_list' = rt_timer_list
    OBVIOUS
  <1>2. delay' \in 0..MaxDelay
    BY <1>1, Ticks
  <1>3. TimerTypes'
    BY <1>0, <1>1, <1>2 DEF TimerInv, TimerTypes
  <1>4. Lo' = Lo
    BY <1>1 DEF Lo
  <1>5. Busy(t)'
    BY <1>0 DEF Busy
  <1>6. \A x \in alive' : activated'[x] = TRUE => x \in In(rt_timer_list')
    BY <1>0, <1>1 DEF TimerInv
  <1> QED  BY <1>0, <1>1, <1>3, <1>4, <1>5, <1>6 DEF TimerInv

\* rt_timer_stop takes the timer from the list; the flag is still set.
LEMMA StopRemoveStep ==
  ASSUME TimerInv, NEW t \in Timers, StopRemove(t)
  PROVE  TimerInv'
  <1> USE DEF StopRemove, At, Forget, Goto
  <1>0. /\ step.on = {t} /\ step.at = "remove" /\ step' = [at |-> "clear", on |-> {t}]
        /\ step'.on = {t} /\ step'.at = "clear"
    OBVIOUS
  <1>1. t \in alive
    BY <1>0 DEF TimerInv, TimerTypes, Outside
  <1>2. /\ rt_tick' = rt_tick /\ checking' = checking /\ init_tick' = init_tick /\ periodic' = periodic
        /\ alive' = alive /\ delay' = delay /\ activated' = activated
    OBVIOUS
  <1>3. timeout_tick' \in [Timers -> 0..(TickCount - 1)] /\ left' \in [Timers -> Int]
    BY Forgotten
  <1>4. TimerTypes'
    BY <1>0, <1>1, <1>2, <1>3 DEF TimerInv, TimerTypes
  <1>5. /\ Queue(rt_timer_list', timeout_tick', left', alive', rt_tick, Lo)
        /\ In(rt_timer_list') = In(rt_timer_list) \ {t}
    BY <1>1, CutForgets
  <1>6. Lo' = Lo
    BY <1>2 DEF Lo
  <1>7. Busy(t)'
    BY <1>0, <1>5 DEF Busy
  <1>8. ASSUME NEW x \in alive', activated'[x] = TRUE PROVE x \in In(rt_timer_list') \/ x = t
    BY <1>0, <1>2, <1>5, <1>8 DEF TimerInv
  <1> QED  BY <1>0, <1>2, <1>4, <1>5, <1>6, <1>7, <1>8 DEF TimerInv

\* rt_timer_stop clears the flag.
LEMMA StopClearStep ==
  ASSUME TimerInv, NEW t \in Timers, StopClear(t)
  PROVE  TimerInv'
  <1> USE DEF StopClear, At
  <1>0. step.on = {t} /\ step.at = "clear" /\ step' = Outside /\ step'.on = {}
    BY DEF Outside
  <1>1. /\ rt_tick' = rt_tick /\ timeout_tick' = timeout_tick /\ init_tick' = init_tick /\ periodic' = periodic
        /\ alive' = alive /\ checking' = checking /\ left' = left /\ delay' = 0
        /\ rt_timer_list' = rt_timer_list
    OBVIOUS
  <1>2. activated' \in [Timers -> BOOLEAN] /\ delay' \in 0..MaxDelay
    BY <1>1, Ticks DEF TimerInv, TimerTypes
  <1>3. TimerTypes'
    BY <1>0, <1>1, <1>2 DEF TimerInv, TimerTypes
  <1>4. Lo' = Lo
    BY <1>1 DEF Lo
  <1>5. ASSUME NEW x \in alive', activated'[x] = TRUE PROVE x \in In(rt_timer_list')
    <2>1. x # t /\ x \in alive /\ activated[x] = TRUE
      BY <1>1, <1>5 DEF TimerInv, TimerTypes
    <2> QED  BY <1>0, <1>1, <2>1 DEF TimerInv
  <1> QED  BY <1>0, <1>1, <1>3, <1>4, <1>5 DEF TimerInv

\* rt_timer_control sets the time for the next start.
LEMMA ControlStep ==
  ASSUME TimerInv, NEW t \in Timers, rt_timer_control(t)
  PROVE  TimerInv'
  <1> USE DEF rt_timer_control, Idle
  <1>0. step.on = {} /\ step' = Outside /\ step'.on = {}
    BY DEF Outside
  <1>1. /\ rt_tick' = rt_tick /\ timeout_tick' = timeout_tick /\ periodic' = periodic /\ alive' = alive
        /\ checking' = checking /\ left' = left /\ delay' = delay /\ activated' = activated
        /\ rt_timer_list' = rt_timer_list
    OBVIOUS
  <1>2. init_tick' \in [Timers -> Times \cup {0}] /\ \A x \in alive : init_tick'[x] \in Times
    BY DEF TimerInv, TimerTypes
  <1>3. TimerTypes'
    BY <1>0, <1>1, <1>2 DEF TimerInv, TimerTypes
  <1>4. Lo' = Lo
    BY <1>1 DEF Lo
  <1>5. \A x \in alive' : activated'[x] = TRUE => x \in In(rt_timer_list')
    BY <1>0, <1>1 DEF TimerInv
  <1> QED  BY <1>0, <1>1, <1>3, <1>4, <1>5 DEF TimerInv

\* An existing timer has a time, so a delay is shorter than half of the range.
LEMMA DelayIsShort ==
  ASSUME Prompt, TimerInv, alive # {}
  PROVE  MaxDelay < Half /\ MaxDelay \in Nat /\ Half \in Int
  <1>1. PICK t \in alive : TRUE
    OBVIOUS
  <1>2. init_tick[t] \in Times
    BY DEF TimerInv, TimerTypes
  <1> QED  BY <1>2, Ticks DEF Prompt

\* rt_tick_increase: everyone who waits has one tick less.
LEMMA TickStep ==
  ASSUME Prompt, TimerInv, Tick
  PROVE  TimerInv'
  <1> USE DEF Tick
  <1>0. /\ rt_timer_list' = rt_timer_list /\ timeout_tick' = timeout_tick /\ init_tick' = init_tick
        /\ periodic' = periodic /\ activated' = activated /\ alive' = alive /\ step' = step
        /\ rt_tick' = (rt_tick + 1) % TickCount
    OBVIOUS
  <1>1. checking = FALSE /\ checking' = TRUE
    BY DEF TimerInv, TimerTypes
  <1>2. Lo = 1 - MaxDelay /\ Lo' = 0 - MaxDelay /\ MaxDelay \in Nat /\ Half \in Int
    BY <1>1, Ticks DEF Lo
  <1>3. /\ rt_tick \in 0..(TickCount - 1) /\ left \in [Timers -> Int] /\ alive \subseteq Timers
        /\ delay \in 0..MaxDelay
    BY DEF TimerInv, TimerTypes
  <1>4. rt_tick' \in 0..(TickCount - 1)
    <2>1. rt_tick + 1 \in Int
      BY <1>3, Ticks
    <2> QED  BY <1>0, <2>1, Remainder
  <1>5. /\ left' \in [Timers -> Int]
        /\ \A t \in Timers : t \in In(rt_timer_list) \/ At("insert", t) => left'[t] = left[t] - 1
    BY <1>3 DEF Listed, In
  <1>6. /\ step = Outside => delay' = 0
        /\ step # Outside => delay' = delay + 1
        /\ delay' \in 0..MaxDelay
    BY <1>3, Ticks
  <1>7. TimerTypes'
    <2>1. checking' \in BOOLEAN
      BY <1>1, Zenon
    <2> QED  BY <1>0, <1>4, <1>5, <1>6, <2>1 DEF TimerInv, TimerTypes
  <1>8. ASSUME NEW x \in alive, left[x] \in Int, 1 - MaxDelay <= left[x], left[x] <= Half - MaxDelay,
               Ahead(rt_tick, timeout_tick[x], left[x])
        PROVE  Ahead(rt_tick', timeout_tick'[x], left[x] - 1)
    <2>1. MaxDelay < Half
      BY DelayIsShort
    <2>2. 0 - Half <= left[x] /\ left[x] <= Half
      BY <1>2, <1>8, <2>1
    <2>3. Ahead((rt_tick + 1) % TickCount, timeout_tick[x], left[x] - 1)
      BY <1>3, <1>8, <2>2, AheadAfterTick
    <2> QED  BY <1>0, <2>3
  <1>9. Queue(rt_timer_list', timeout_tick', left', alive', rt_tick', Lo')
    <2>1. Ordered(rt_timer_list, left) /\ \A x \in In(rt_timer_list) : Fine(x, timeout_tick, left, alive, rt_tick, Lo)
      BY DEF TimerInv, Queue
    <2>2. ASSUME NEW x \in In(rt_timer_list)
          PROVE  left'[x] = left[x] - 1 /\ left[x] \in Int /\ Fine(x, timeout_tick', left', alive', rt_tick', Lo')
      <3>1. x \in alive /\ x \in Timers /\ left[x] \in Int
        BY <1>3, <2>1 DEF Fine
      <3>2. left'[x] = left[x] - 1
        BY <1>5, <3>1
      <3>3. 1 - MaxDelay <= left[x] /\ left[x] <= Half - MaxDelay /\ Ahead(rt_tick, timeout_tick[x], left[x])
        BY <1>2, <2>1 DEF Fine
      <3>4. Ahead(rt_tick', timeout_tick'[x], left'[x])
        BY <1>8, <3>1, <3>2, <3>3
      <3>5. left'[x] \in Int /\ 0 - MaxDelay <= left'[x] /\ left'[x] <= Half - MaxDelay
        BY <1>2, <3>1, <3>2, <3>3
      <3> QED  BY <1>0, <1>2, <3>1, <3>2, <3>4, <3>5 DEF Fine
    <2>3. Ordered(rt_timer_list, left')
      <3>1. ASSUME NEW i \in 1..Len(rt_timer_list), NEW j \in 1..Len(rt_timer_list), i < j
            PROVE  left'[rt_timer_list[i]] <= left'[rt_timer_list[j]]
        <4>1. rt_timer_list[i] \in In(rt_timer_list) /\ rt_timer_list[j] \in In(rt_timer_list)
          BY DEF In
        <4>2. left[rt_timer_list[i]] <= left[rt_timer_list[j]]
          BY <2>1, <3>1 DEF Ordered
        <4> HIDE DEF Tick
        <4> QED  BY <2>2, <4>1, <4>2
      <3> QED  BY <2>1, <3>1 DEF Ordered
    <2> QED  BY <1>0, <2>2, <2>3 DEF Queue
  <1>10. ASSUME NEW t \in step.on PROVE Busy(t)'
    <2>1. Busy(t)
      BY DEF TimerInv
    <2>2. t \in alive /\ step # Outside /\ step.on = {t} /\ (step.at = "insert" => step = [at |-> "insert", on |-> {t}])
      BY DEF TimerInv, TimerTypes, Outside
    <2>3. ASSUME step.at = "insert"
          PROVE  /\ 1 - delay' <= left'[t] /\ left'[t] <= Half - MaxDelay
                 /\ Ahead(rt_tick', timeout_tick'[t], left'[t])
      <3>1. At("insert", t)
        BY <1>1, <2>2, <2>3 DEF At
      <3>2. left'[t] = left[t] - 1 /\ left[t] \in Int
        BY <1>3, <1>5, <2>2, <3>1
      <3>3. 1 - delay <= left[t] /\ left[t] <= Half - MaxDelay /\ Ahead(rt_tick, timeout_tick[t], left[t])
        BY <2>1, <2>3 DEF Busy
      <3>4. delay' = delay + 1
        BY <1>6, <2>2
      <3>5. 1 - MaxDelay <= left[t]
        BY <1>2, <1>3, <3>2, <3>3
      <3>6. Ahead(rt_tick', timeout_tick'[t], left[t] - 1)
        BY <1>8, <2>2, <3>2, <3>3, <3>5
      <3> HIDE DEF Tick
      <3>7. 1 - delay' <= left'[t] /\ left'[t] <= Half - MaxDelay
        BY <1>2, <1>3, <3>2, <3>3, <3>4
      <3> QED  BY <3>2, <3>6, <3>7
    <2> HIDE DEF Tick
    <2> QED  BY <1>0, <2>1, <2>3 DEF Busy
  <1> HIDE DEF Tick
  <1> QED  BY <1>0, <1>7, <1>9, <1>10 DEF TimerInv

\* No listed timer is due when the head is not.
LEMMA HeadTells ==
  ASSUME Prompt, TimerInv, checking = TRUE, rt_timer_list # <<>>
  PROVE  /\ Head(rt_timer_list) \in In(rt_timer_list)
         /\ \A x \in In(rt_timer_list) : left[Head(rt_timer_list)] <= left[x]
         /\ Due(Head(rt_timer_list)) <=> left[Head(rt_timer_list)] <= 0
  <1> DEFINE h == Head(rt_timer_list)
  <1>1. Ordered(rt_timer_list, left) /\ \A x \in In(rt_timer_list) : Fine(x, timeout_tick, left, alive, rt_tick, Lo)
    BY DEF TimerInv, Queue
  <1>2. rt_timer_list \in Seq(Timers) /\ Len(rt_timer_list) \in Nat /\ Len(rt_timer_list) >= 1 /\ h = rt_timer_list[1]
    BY <1>1 DEF Ordered
  <1>3. h \in In(rt_timer_list)
    <2>1. 1 \in 1..Len(rt_timer_list)
      BY <1>2
    <2> QED  BY <1>2, <2>1 DEF In
  <1>4. Fine(h, timeout_tick, left, alive, rt_tick, Lo)
    BY <1>1, <1>3
  <1>5. Lo = 0 - MaxDelay
    BY DEF Lo
  <1>6. ASSUME NEW x \in In(rt_timer_list) PROVE left[h] <= left[x]
    <2>1. PICK j \in 1..Len(rt_timer_list) : x = rt_timer_list[j]
      BY DEF In
    <2>2. CASE j = 1
      BY <1>2, <1>4, <2>1, <2>2 DEF Fine
    <2>3. CASE j # 1
      <3>1. 1 \in 1..Len(rt_timer_list) /\ 1 < j
        BY <1>2, <2>3
      <3>2. left[rt_timer_list[1]] <= left[rt_timer_list[j]]
        BY <1>1, <3>1 DEF Ordered
      <3> QED  BY <1>2, <2>1, <3>2
    <2> QED  BY <2>2, <2>3
  <1> HIDE DEF h
  <1>7. /\ h \in alive /\ left[h] \in Int /\ 0 - MaxDelay <= left[h] /\ left[h] <= Half - MaxDelay
        /\ Ahead(rt_tick, timeout_tick[h], left[h])
    BY <1>4, <1>5 DEF Fine
  <1>8. MaxDelay < Half /\ MaxDelay \in Nat /\ Half \in Int
    BY <1>7, DelayIsShort
  <1>9. 0 - Half < left[h] /\ left[h] <= Half /\ rt_tick \in 0..(TickCount - 1)
    BY <1>7, <1>8 DEF TimerInv, TimerTypes
  <1>10. (Minus(rt_tick, timeout_tick[h]) < Half) <=> left[h] <= 0
    BY <1>7, <1>9, DueWhenOver
  <1>11. Due(h) <=> left[h] <= 0
    BY <1>10 DEF Due
  <1> QED  BY <1>3, <1>6, <1>11 DEF h

\* rt_timer_check returns with nothing left that is due.
LEMMA LeaveStep ==
  ASSUME Prompt, TimerInv, Leave
  PROVE  TimerInv' /\ \A x \in In(rt_timer_list) : left[x] > 0
  <1> USE DEF Leave
  <1>0. /\ rt_timer_list' = rt_timer_list /\ timeout_tick' = timeout_tick /\ init_tick' = init_tick
        /\ periodic' = periodic /\ activated' = activated /\ alive' = alive /\ step' = step
        /\ rt_tick' = rt_tick /\ left' = left /\ delay' = delay
    OBVIOUS
  <1>1. checking = TRUE /\ checking' = FALSE
    BY DEF TimerInv, TimerTypes
  <1>2. Lo = 0 - MaxDelay /\ Lo' = 1 - MaxDelay /\ MaxDelay \in Nat
    BY <1>1, Ticks DEF Lo
  <1>3. Ordered(rt_timer_list, left) /\ \A x \in In(rt_timer_list) : Fine(x, timeout_tick, left, alive, rt_tick, Lo)
    BY DEF TimerInv, Queue
  <1>4. ASSUME NEW x \in In(rt_timer_list) PROVE left[x] > 0
    <2>1. rt_timer_list # <<>>
      BY DEF In
    <2>2. ~Due(Head(rt_timer_list))
      BY <2>1
    <2>3. /\ Head(rt_timer_list) \in In(rt_timer_list) /\ left[Head(rt_timer_list)] <= left[x]
          /\ ~(left[Head(rt_timer_list)] <= 0)
      BY <1>1, <2>1, <2>2, HeadTells
    <2>4. left[Head(rt_timer_list)] \in Int /\ left[x] \in Int
      BY <1>3, <2>3 DEF Fine
    <2> QED  BY <2>3, <2>4
  <1>5. Queue(rt_timer_list, timeout_tick, left, alive, rt_tick, Lo')
    <2>1. ASSUME NEW x \in In(rt_timer_list) PROVE Fine(x, timeout_tick, left, alive, rt_tick, Lo')
      <3>1. left[x] > 0 /\ Fine(x, timeout_tick, left, alive, rt_tick, Lo)
        BY <1>3, <1>4
      <3>2. left[x] \in Int
        BY <3>1 DEF Fine
      <3>3. 1 - MaxDelay <= left[x]
        BY <1>2, <3>1, <3>2
      <3> QED  BY <1>2, <3>1, <3>3 DEF Fine
    <2> QED  BY <1>3, <2>1 DEF Queue
  <1>6. TimerTypes'
    <2>1. checking' \in BOOLEAN
      BY <1>1, Zenon
    <2> QED  BY <1>0, <2>1 DEF TimerInv, TimerTypes
  <1>7. ASSUME NEW t \in step.on PROVE Busy(t)'
    BY <1>0 DEF TimerInv, Busy
  <1> HIDE DEF Leave
  <1> QED  BY <1>0, <1>4, <1>5, <1>6, <1>7 DEF TimerInv

\* rt_timer_check takes the head, which is due, calls its function and ends with it.
LEMMA FireStep ==
  ASSUME Prompt, TimerInv, Fire
  PROVE  TimerInv' /\ left[Head(rt_timer_list)] <= 0
  <1> DEFINE t == Head(rt_timer_list)
             s == [Now EXCEPT !.list = Tail(@), !.due[t] = 0, !.left[t] = 0]
             X == {t} \cup IF step.at = "clear" THEN step.on ELSE {}
  <1>0. checking = TRUE /\ rt_timer_list # <<>> /\ Due(t)
    BY DEF Fire, TimerInv, TimerTypes
  <1>1. t \in In(rt_timer_list) /\ left[t] <= 0
    BY <1>0, HeadTells
  <1>2. Queue(rt_timer_list, timeout_tick, left, alive, rt_tick, Lo) /\ Lo = 0 - MaxDelay
    BY <1>0 DEF TimerInv, Lo
  <1>3. t \in alive /\ t \in Timers /\ rt_timer_list \in Seq(Timers)
    BY <1>1, <1>2 DEF Queue, Fine, Ordered, TimerInv, TimerTypes
  <1>4. /\ Tail(rt_timer_list) \in Seq(Timers) /\ Len(rt_timer_list) \in Nat /\ Len(rt_timer_list) >= 1
        /\ Len(Tail(rt_timer_list)) = Len(rt_timer_list) - 1
        /\ \A j \in 1..(Len(rt_timer_list) - 1) : Tail(rt_timer_list)[j] = rt_timer_list[j + 1]
        /\ t = rt_timer_list[1]
    BY <1>0, <1>3
  <1>5. Ordered(Tail(rt_timer_list), left)
    BY <1>2, <1>4, SMTT(30) DEF Queue, Ordered
  <1>6. In(Tail(rt_timer_list)) = In(rt_timer_list) \ {t}
    <2>1. ASSUME NEW x \in In(Tail(rt_timer_list)) PROVE x \in In(rt_timer_list) \ {t}
      <3>1. PICK j \in 1..(Len(rt_timer_list) - 1) : x = Tail(rt_timer_list)[j]
        BY <1>4 DEF In
      <3>2. x = rt_timer_list[j + 1] /\ j + 1 \in 1..Len(rt_timer_list) /\ j + 1 # 1
        BY <1>4, <3>1
      <3> QED  BY <1>2, <1>4, <3>2 DEF In, Queue, Ordered
    <2>2. ASSUME NEW x \in In(rt_timer_list) \ {t} PROVE x \in In(Tail(rt_timer_list))
      <3>1. PICK j \in 1..Len(rt_timer_list) : x = rt_timer_list[j] /\ j # 1
        BY <1>4 DEF In
      <3>2. j - 1 \in 1..Len(Tail(rt_timer_list)) /\ Tail(rt_timer_list)[j - 1] = x
        BY <1>4, <3>1
      <3> QED  BY <3>2 DEF In
    <2> QED  BY <2>1, <2>2
  <1> DEFINE due == [timeout_tick EXCEPT ![t] = 0]
             w == [left EXCEPT ![t] = 0]
             list == Tail(rt_timer_list)
  <1>7. s = [list |-> list, due |-> due, on |-> activated, left |-> w, alive |-> alive]
    <2>1. s = [Now EXCEPT !.list = Tail(rt_timer_list), !.due = [timeout_tick EXCEPT ![t] = 0],
                          !.left = [left EXCEPT ![t] = 0]]
      BY DEF Now
    <2> HIDE DEF s, due, w, list, t
    <2>2. s = [Now EXCEPT !.list = list, !.due = due, !.left = w]
      BY <2>1 DEF due, w, list
    <2> QED  BY <2>2 DEF Now
  <1>8. due \in [Timers -> 0..(TickCount - 1)] /\ w \in [Timers -> Int]
    BY <1>3, Forgotten
  <1>9. /\ activated \in [Timers -> BOOLEAN] /\ alive \in SUBSET Timers /\ rt_tick \in 0..(TickCount - 1)
        /\ periodic \in [Timers -> BOOLEAN] /\ \A x \in alive : init_tick[x] \in Times
        /\ timeout_tick \in [Timers -> 0..(TickCount - 1)] /\ left \in [Timers -> Int]
    BY DEF TimerInv, TimerTypes
  <1>10. \A x \in Timers \ {t} : due[x] = timeout_tick[x] /\ w[x] = left[x]
    BY <1>9
  <1>11. Touchable(t)
    <2>1. ASSUME t \in step.on PROVE step.at = "remove"
      BY <1>1, <2>1 DEF TimerInv, Busy
    <2> QED  BY <2>1 DEF Touchable
  <1> HIDE DEF t
  <1>12. Queue(list, due, w, alive, rt_tick, 0 - MaxDelay)
    <2>1. Queue(list, timeout_tick, left, alive, rt_tick, 0 - MaxDelay)
      BY <1>2, <1>5, <1>6 DEF Queue
    <2>2. ASSUME NEW x \in In(list) PROVE due[x] = timeout_tick[x] /\ w[x] = left[x] /\ x \in alive
      <3>1. x \in alive /\ x # t
        BY <1>2, <1>6 DEF Queue, Fine
      <3>2. x \in Timers \ {t}
        BY <1>9, <3>1
      <3> QED  BY <1>10, <3>1, <3>2
    <2>3. 0 - MaxDelay \in Int /\ 0 - MaxDelay <= 0 - MaxDelay
      BY Ticks
    <2> HIDE DEF due, w, list
    <2> QED  BY <2>1, <2>2, <2>3, QueueApart
  <1> HIDE DEF due, w, list, s, X
  <1>13. s.list = list /\ s.due = due /\ s.on = activated /\ s.left = w /\ s.alive = alive
    BY <1>7
  <1>14. s \in State
    BY <1>4, <1>7, <1>8, <1>9 DEF State, list
  <1>15. ActiveBut(s, X)
    <2> SUFFICES ASSUME NEW x \in alive, activated[x] = TRUE PROVE x \in In(list) \/ x \in X
      BY <1>13 DEF ActiveBut
    <2>1. x \in In(rt_timer_list) \/ (step.at = "clear" /\ x \in step.on)
      BY DEF TimerInv
    <2> QED  BY <1>6, <2>1 DEF X, list
  <1>16. Held(s)
    <2> SUFFICES ASSUME NEW b \in step.on PROVE
          /\ b \in s.alive
          /\ step.at # "remove" => /\ b \notin In(s.list)
                                   /\ s.due[b] = timeout_tick[b] /\ s.left[b] = left[b] /\ s.on[b] = activated[b]
      BY DEF Held
    <2>1. b \in alive /\ b \in Timers
      BY DEF TimerInv, TimerTypes, Outside
    <2>2. ASSUME step.at # "remove" PROVE b \notin In(list) /\ due[b] = timeout_tick[b] /\ w[b] = left[b]
      <3>1. b \notin In(rt_timer_list) /\ b # t
        BY <1>1, <2>2 DEF TimerInv, Busy
      <3> QED  BY <1>6, <1>10, <2>1, <3>1 DEF list
    <2> QED  BY <1>13, <2>1, <2>2
  <1>17. Sane(s, X)
    BY <1>12, <1>13, <1>14, <1>15, <1>16 DEF Sane
  <1>18. PICK r \in Called(s, t) :
           /\ rt_timer_list' = Ended(r, t).list /\ timeout_tick' = Ended(r, t).due
           /\ activated' = Ended(r, t).on /\ left' = Ended(r, t).left /\ alive' = Ended(r, t).alive
    BY DEF Fire, s, t
  <1>19. Sane(r, X) /\ t \in r.alive /\ r.alive \subseteq alive
    BY <1>3, <1>9, <1>13, <1>17, CalledSane
  <1>20. Sane(Ended(r, t), X \ {t}) /\ Ended(r, t).alive = r.alive
    <2>1. periodic[t] \in BOOLEAN /\ init_tick[t] \in Times
      BY <1>3, <1>9
    <2> QED  BY <1>9, <1>11, <1>19, <2>1, EndedSane
  <1> DEFINE e == Ended(r, t)
  <1> HIDE DEF e
  <1>21. /\ rt_timer_list' = e.list /\ timeout_tick' = e.due /\ activated' = e.on /\ left' = e.left
         /\ alive' = e.alive
    BY <1>18 DEF e
  <1>22. e \in State /\ Queue(e.list, e.due, e.left, e.alive, rt_tick, 0 - MaxDelay) /\ ActiveBut(e, X \ {t}) /\ Held(e)
    BY <1>20 DEF Sane, e
  <1>23. /\ rt_tick' = rt_tick /\ init_tick' = init_tick /\ periodic' = periodic /\ step' = step
         /\ checking' = checking /\ delay' = delay
    BY DEF Fire
  <1>24. TimerTypes'
    <2>1. step' = Outside \/ \E a \in {"start", "insert", "remove", "clear"}, b \in alive' : step' = [at |-> a, on |-> {b}]
      <3>1. CASE step = Outside
        BY <1>23, <3>1
      <3>2. CASE step # Outside
        <4>1. PICK a \in {"start", "insert", "remove", "clear"}, b \in alive : step = [at |-> a, on |-> {b}]
          BY <3>2 DEF TimerInv, TimerTypes
        <4>2. b \in alive'
          BY <1>21, <1>22, <4>1 DEF Held
        <4> QED  BY <1>23, <4>1, <4>2
      <3> QED  BY <3>1, <3>2
    <2>2. /\ timeout_tick' \in [Timers -> 0..(TickCount - 1)] /\ left' \in [Timers -> Int]
          /\ activated' \in [Timers -> BOOLEAN] /\ alive' \subseteq Timers
      BY <1>21, <1>22 DEF State
    <2>3. \A x \in alive' : init_tick'[x] \in Times
      <3>1. e.alive \subseteq alive
        BY <1>19, <1>20 DEF e
      <3> QED  BY <1>9, <1>21, <1>23, <3>1
    <2> QED  BY <1>23, <2>1, <2>2, <2>3 DEF TimerInv, TimerTypes
  <1>25. Queue(rt_timer_list', timeout_tick', left', alive', rt_tick', Lo')
    <2>1. Lo' = 0 - MaxDelay
      BY <1>0, <1>23 DEF Lo
    <2> QED  BY <1>21, <1>22, <1>23, <2>1
  <1>26. ASSUME NEW b \in step.on PROVE Busy(b)'
    <2>1. Busy(b)
      BY DEF TimerInv
    <2>2. step.at # "remove" => /\ b \notin In(rt_timer_list') /\ timeout_tick'[b] = timeout_tick[b]
                                /\ left'[b] = left[b] /\ activated'[b] = activated[b]
      BY <1>21, <1>22 DEF Held
    <2> QED  BY <1>23, <2>1, <2>2 DEF Busy
  <1>27. ASSUME NEW x \in alive', activated'[x] = TRUE
         PROVE  x \in In(rt_timer_list') \/ (step.at = "clear" /\ x \in step.on)
    <2>1. x \in In(e.list) \/ x \in X \ {t}
      BY <1>21, <1>22, <1>27 DEF ActiveBut
    <2> QED  BY <1>21, <2>1 DEF X
  <1>28. TimerInv'
    BY <1>23, <1>24, <1>25, <1>26, <1>27 DEF TimerInv
  <1> QED  BY <1>1, <1>28 DEF t

\* Every step of the thread and of the interrupt keeps the invariant.
LEMMA TimerStep == ASSUME Prompt PROVE TimerInv /\ [TimerNext]_timerVars => TimerInv'
  <1> SUFFICES ASSUME TimerInv, [TimerNext]_timerVars PROVE TimerInv'
    OBVIOUS
  <1>1. ASSUME NEW t \in Timers,
               \/ rt_timer_create(t) \/ rt_timer_delete(t) \/ rt_timer_control(t)
               \/ StartRemove(t) \/ StartTimeout(t) \/ StartInsert(t)
               \/ StopCheck(t) \/ StopRemove(t) \/ StopClear(t)
        PROVE  TimerInv'
    BY <1>1, CreateStep, DeleteStep, ControlStep, StartRemoveStep, StartTimeoutStep, StartInsertStep,
       StopCheckStep, StopRemoveStep, StopClearStep
  <1>2. CASE Tick
    BY <1>2, TickStep
  <1>3. CASE Fire
    BY <1>3, FireStep
  <1>4. CASE Leave
    BY <1>4, LeaveStep
  <1>5. CASE UNCHANGED timerVars
    BY <1>5 DEF timerVars, TimerInv, TimerTypes, Lo, Busy
  <1> QED  BY <1>1, <1>2, <1>3, <1>4, <1>5 DEF TimerNext

\* So it holds at every tick.
LEMMA TimerInvariant == ASSUME Prompt PROVE TimerSpec => []TimerInv
  <1>1. TimerInit => TimerInv
    BY TimerInvInit
  <1>2. TimerInv /\ [TimerNext]_timerVars => TimerInv'
    BY TimerStep
  <1> QED  BY <1>1, <1>2, PTL DEF TimerSpec

\* The list that rt_timer_start and rt_timer_stop keep and rt_timer_check looks at
\* the head of: each timer once, only while it exists, in the order in which the
\* timers are really due, and with every activated timer in it.
THEOREM TimerListIsSound == ASSUME Prompt PROVE TimerSpec => []TimerListSound
  <1>1. TimerInv => TimerListSound
    <2> SUFFICES ASSUME TimerInv PROVE TimerListSound
      OBVIOUS
    <2>0. Ordered(rt_timer_list, left) /\ \A x \in In(rt_timer_list) : Fine(x, timeout_tick, left, alive, rt_tick, Lo)
      BY DEF TimerInv, Queue
    <2>1. TimerTypeOK
      <3>1. step.at \in {"none", "start", "insert", "remove", "clear"} /\ step.on \subseteq alive
        BY DEF TimerInv, TimerTypes, Outside
      <3>2. rt_timer_list \in Seq(Timers)
        BY <2>0 DEF Ordered
      <3> QED  BY <3>1, <3>2 DEF TimerInv, TimerTypes, TimerTypeOK
    <2>2. TimersSorted
      BY <2>0 DEF TimersSorted, Ordered
    <2>3. TimerListedOnce
      <3>1. In(rt_timer_list) = Listed
        BY DEF In, Listed
      <3>2. Listed \subseteq alive
        BY <2>0, <3>1 DEF Fine
      <3>3. rt_timer_list \in Seq(Timers) /\ Len(rt_timer_list) \in Nat
        BY <2>0 DEF Ordered
      <3>4. rt_timer_list \in Bijection(1..Len(rt_timer_list), Listed)
        <4>1. rt_timer_list \in [1..Len(rt_timer_list) -> Listed]
          BY <3>3 DEF Listed
        <4>2. \A i, j \in 1..Len(rt_timer_list) : rt_timer_list[i] = rt_timer_list[j] => i = j
          BY <2>0 DEF Ordered
        <4>3. \A x \in Listed : \E i \in 1..Len(rt_timer_list) : rt_timer_list[i] = x
          BY DEF Listed
        <4> QED  BY <4>1, <4>2, <4>3 DEF Bijection, Injection, IsInjective, Surjection
      <3>5. IsFiniteSet(1..Len(rt_timer_list)) /\ Cardinality(1..Len(rt_timer_list)) = Len(rt_timer_list)
        BY <3>3, FS_Interval, SMTT(30)
      <3>6. Cardinality(Listed) = Len(rt_timer_list)
        BY <3>4, <3>5, FS_Bijection DEF ExistsBijection
      <3> QED  BY <3>2, <3>6 DEF TimerListedOnce
    <2>4. ActiveIsListed
      <3> SUFFICES ASSUME NEW t \in alive, activated[t]
                   PROVE  t \in Listed \/ step = [at |-> "clear", on |-> {t}]
        BY DEF ActiveIsListed
      <3>1. activated[t] = TRUE
        BY DEF TimerInv, TimerTypes
      <3>2. t \in In(rt_timer_list) \/ (step.at = "clear" /\ t \in step.on)
        BY <3>1 DEF TimerInv
      <3>3. step.at = "clear" /\ t \in step.on => step = [at |-> "clear", on |-> {t}]
        BY DEF TimerInv, TimerTypes, Outside
      <3> QED  BY <3>2, <3>3 DEF In, Listed
    <2> QED  BY <2>1, <2>2, <2>3, <2>4 DEF TimerListSound
  <1> QED  BY <1>1, TimerInvariant, PTL

\* rt_timer_check calls the time-out functions of the timers whose time is over,
\* and of all of them, wherever the tick has wrapped around.
THEOREM TimersRunWhenDue == ASSUME Prompt PROVE TimerSpec => RunsWhenDue
  <1>1. TimerInv /\ [TimerNext]_timerVars =>
          [/\ Fire => left[Head(rt_timer_list)] <= 0
           /\ Leave => \A t \in Listed : left[t] > 0]_timerVars
    <2>1. ASSUME TimerInv, Fire PROVE left[Head(rt_timer_list)] <= 0
      BY <2>1, FireStep
    <2>2. ASSUME TimerInv, Leave PROVE \A t \in Listed : left[t] > 0
      BY <2>2, LeaveStep DEF Listed, In
    <2> QED  BY <2>1, <2>2
  <1> QED  BY <1>1, TimerInvariant, PTL DEF TimerSpec, RunsWhenDue
=============================================================================
