---------------------------- MODULE RtIpcProofs ----------------------------
(***************************************************************************)
(* The kernel objects of RtIpc, for every set of threads, of priorities,   *)
(* of mutexes and of event bits.                                           *)
(***************************************************************************)
EXTENDS RtIpc, WellFoundedInduction, FiniteSetTheorems, SequenceTheorems, TLAPS

\* A set of numbers has a smallest one.
LEMMA LeastNumber ==
  ASSUME NEW S, S \subseteq Nat, S # {}
  PROVE  \E x \in S : \A y \in S : x <= y
  <1>1. PICK x \in S : \A y \in S : ~(<<y, x>> \in OpToRel(<, Nat))
    BY NatLessThanWellFounded, WFMin
  <1>2. OpToRel(<, Nat) = {ss \in Nat \X Nat : ss[1] < ss[2]}
    BY DEF OpToRel
  <1>3. ASSUME NEW y \in S PROVE x <= y
    <2>1. <<y, x>> \notin {ss \in Nat \X Nat : ss[1] < ss[2]}
      BY <1>1, <1>2
    <2>2. <<y, x>> \in Nat \X Nat /\ <<y, x>>[1] = y /\ <<y, x>>[2] = x
      OBVIOUS
    <2>3. ~(y < x)
      BY <2>1, <2>2
    <2> QED  BY <2>3
  <1> QED  BY <1>3

\* Induction up to n, for a property given as the set of numbers that have it.
LEMMA Climb ==
  ASSUME NEW n \in Nat, NEW S, 0 \in S, \A i \in 1..n : i - 1 \in S => i \in S
  PROVE  \A i \in 0..n : i \in S
  <1> DEFINE B == {i \in 0..n : i \notin S}
  <1>1. SUFFICES ASSUME B # {} PROVE FALSE
    OBVIOUS
  <1>2. PICK x \in B : \A y \in B : x <= y
    <2>1. B \subseteq Nat
      OBVIOUS
    <2> QED  BY <1>1, <2>1, LeastNumber
  <1>3. x \in 1..n /\ x - 1 \in 0..n /\ x - 1 < x
    BY <1>2
  <1>4. x - 1 \in S
    BY <1>2, <1>3
  <1> QED  BY <1>2, <1>3, <1>4

\* f lists what comes out of a when the n functions of g are applied one after the other.
Computes(f, n, a, g) == f[0] = a /\ \A i \in 1..n : f[i] = g[i][f[i - 1]]

\* A value can be computed step by step: the list of intermediate values exists.
LEMMA Stepwise ==
  ASSUME NEW n \in Nat, NEW X, NEW a \in X, NEW g \in [1..n -> [X -> X]]
  PROVE  \E f \in [0..n -> X] : Computes(f, n, a, g)
  <1> DEFINE Good(m, f) == f[0] = a /\ \A i \in 1..m : f[i] = g[i][f[i - 1]]
             S == {m \in 0..n : \E f \in [0..m -> X] : Good(m, f)}
  <1>1. 0 \in S
    <2> DEFINE f == [i \in 0..0 |-> a]
    <2>1. f \in [0..0 -> X] /\ Good(0, f)
      OBVIOUS
    <2> HIDE DEF f, Good
    <2> QED  BY <2>1
  <1>2. ASSUME NEW m \in 1..n, m - 1 \in S PROVE m \in S
    <2>1. PICK f \in [0..(m - 1) -> X] : Good(m - 1, f)
      BY <1>2
    <2> DEFINE h == [i \in 0..m |-> IF i = m THEN g[m][f[m - 1]] ELSE f[i]]
    <2>2. f[m - 1] \in X /\ g[m] \in [X -> X]
      OBVIOUS
    <2>3. g[m][f[m - 1]] \in X
      BY <2>2
    <2>4. h \in [0..m -> X]
      BY <2>3
    <2>5. h[0] = a
      BY <2>1
    <2>6. ASSUME NEW i \in 1..m PROVE h[i] = g[i][h[i - 1]]
      <3>1. CASE i = m
        <4>1. h[m] = g[m][f[m - 1]] /\ m - 1 \in 0..m /\ m - 1 # m
          OBVIOUS
        <4>2. h[m - 1] = f[m - 1]
          BY <4>1
        <4> HIDE DEF h
        <4> QED  BY <3>1, <4>1, <4>2
      <3>2. CASE i # m
        <4>1. i \in 1..(m - 1) /\ h[i] = f[i] /\ h[i - 1] = f[i - 1]
          BY <3>2
        <4> QED  BY <2>1, <4>1
      <3> QED  BY <3>1, <3>2
    <2> HIDE DEF h
    <2>7. Good(m, h) /\ m \in 0..n
      BY <2>5, <2>6
    <2> HIDE DEF Good
    <2> QED  BY <2>4, <2>7
  <1> HIDE DEF S
  <1>3. n \in S
    <2>1. \A m \in 0..n : m \in S
      BY <1>1, <1>2, Climb
    <2> QED  BY <2>1
  <1> QED  BY <1>3 DEF S, Computes
------------------------------------------------------------------------------
\* No thread is in the queue twice.
Distinct(q) == \A i, j \in 1..Len(q) : q[i] = q[j] => i = j

\* Two threads of a are in q in the same order.
InOrderOf(a, q) ==
  \A i, j \in 1..Len(a) : i < j => \E k, l \in 1..Len(q) : k < l /\ q[k] = a[i] /\ q[l] = a[j]

\* Among keeps the threads of S, and their order.
LEMMA AmongKeeps ==
  ASSUME NEW T, NEW q \in Seq(T), NEW S
  PROVE  /\ Among(q, S) \in Seq(T)
         /\ Members(Among(q, S)) = Members(q) \cap S
         /\ InOrderOf(Among(q, S), q)
         /\ Distinct(q) => Distinct(Among(q, S))
  <1> DEFINE n == Len(q)
             Step(f, i) == IF i = 0 THEN <<>> ELSE IF q[i] \in S THEN Append(f[i - 1], q[i]) ELSE f[i - 1]
             F == CHOOSE f : f = [i \in 0..n |-> Step(f, i)]
             g == [i \in 1..n |-> [x \in Seq(T) |-> IF q[i] \in S THEN Append(x, q[i]) ELSE x]]
  <1>0. n \in Nat /\ \A i \in 1..n : q[i] \in T
    OBVIOUS
  <1>1. Among(q, S) = F[n]
    BY DEF Among
  <1>2. F \in [0..n -> Seq(T)] /\ F[0] = <<>>
        /\ \A i \in 1..n : F[i] = IF q[i] \in S THEN Append(F[i - 1], q[i]) ELSE F[i - 1]
    <2>1. g \in [1..n -> [Seq(T) -> Seq(T)]]
      <3>1. ASSUME NEW i \in 1..n PROVE g[i] \in [Seq(T) -> Seq(T)]
        BY <1>0
      <3> QED  BY <3>1
    <2>2. PICK f \in [0..n -> Seq(T)] : f[0] = <<>> /\ \A i \in 1..n : f[i] = g[i][f[i - 1]]
      <3> DEFINE X == Seq(T)
                 a == <<>>
      <3>1. a \in X
        OBVIOUS
      <3> HIDE DEF g, n, X, a
      <3>2. \E f \in [0..n -> X] : Computes(f, n, a, g)
        <4>1. g \in [1..n -> [X -> X]]
          BY <2>1 DEF X
        <4>2. n \in Nat
          BY <1>0
        <4> QED  BY <4>1, <4>2, <3>1, Stepwise
      <3> QED  BY <3>2 DEF X, a, Computes
    <2>3. f = [i \in 0..n |-> Step(f, i)]
      <3>1. ASSUME NEW i \in 0..n PROVE f[i] = Step(f, i)
        <4>1. CASE i = 0
          BY <2>2, <4>1
        <4>2. CASE i # 0
          <5>1. i \in 1..n /\ f[i - 1] \in Seq(T)
            BY <4>2
          <5>3. f[i] = g[i][f[i - 1]]
            BY <2>2, <5>1
          <5>4. g[i][f[i - 1]] = IF q[i] \in S THEN Append(f[i - 1], q[i]) ELSE f[i - 1]
            BY <5>1
          <5> QED  BY <4>2, <5>3, <5>4
        <4> QED  BY <4>1, <4>2
      <3> HIDE DEF Step
      <3> QED  BY <3>1
    <2>4. F = [i \in 0..n |-> Step(F, i)]
      BY <2>3
    <2> HIDE DEF F
    <2>5. F[0] = <<>>
      BY <1>0, <2>4
    <2>6. ASSUME NEW i \in 1..n PROVE F[i] = IF q[i] \in S THEN Append(F[i - 1], q[i]) ELSE F[i - 1]
      <3>1. i \in 0..n /\ i # 0
        BY <1>0
      <3>2. F[i] = Step(F, i)
        <4> HIDE DEF Step, n
        <4> QED  BY <2>4, <3>1
      <3> QED  BY <3>1, <3>2
    <2>7. \A i \in 0..n : i \in {j \in 0..n : F[j] \in Seq(T)}
      <3> DEFINE U == {j \in 0..n : F[j] \in Seq(T)}
      <3>1. 0 \in U
        <4>1. F[0] \in Seq(T) /\ 0 \in 0..n
          BY <1>0, <2>5
        <4> QED  BY <4>1
      <3>2. ASSUME NEW i \in 1..n, i - 1 \in U PROVE i \in U
        <4>1. F[i - 1] \in Seq(T) /\ q[i] \in T /\ i \in 0..n
          BY <1>0, <3>2
        <4>2. F[i] \in Seq(T)
          <5>1. Append(F[i - 1], q[i]) \in Seq(T)
            BY <4>1
          <5> HIDE DEF n
          <5> QED  BY <2>6, <4>1, <5>1
        <4> QED  BY <4>1, <4>2
      <3> HIDE DEF U, n
      <3> QED  BY <1>0, <3>1, <3>2, Climb DEF U
    <2> QED  BY <2>4, <2>5, <2>6, <2>7
  <1> HIDE DEF F, g
  <1> DEFINE Kept(i) == /\ \A j \in 1..Len(F[i]) : \E k \in 1..i : q[k] = F[i][j] /\ q[k] \in S
                        /\ \A k \in 1..i : q[k] \in S => \E j \in 1..Len(F[i]) : F[i][j] = q[k]
                        /\ \A j, m \in 1..Len(F[i]) : j < m =>
                             \E k, l \in 1..i : k < l /\ q[k] = F[i][j] /\ q[l] = F[i][m]
             U == {i \in 0..n : Kept(i)}
  <1>3. 0 \in U
    BY <1>0, <1>2
  <1>4. ASSUME NEW i \in 1..n, i - 1 \in U PROVE i \in U
    <2>0. Kept(i - 1) /\ F[i - 1] \in Seq(T) /\ q[i] \in T /\ i - 1 \in 0..n /\ i \in 0..n
      <3>1. Kept(i - 1)
        <4> HIDE DEF Kept
        <4> QED  BY <1>4
      <3> HIDE DEF n, Kept
      <3>2. i - 1 \in 0..n /\ i \in 0..n
        BY <1>0
      <3>3. F[i - 1] \in Seq(T) /\ q[i] \in T
        BY <1>0, <1>2, <3>2
      <3> QED  BY <3>1, <3>2, <3>3
    <2>1. CASE q[i] \in S
      <3> DEFINE a == F[i - 1]
      <3>1. F[i] = Append(a, q[i])
        BY <1>2, <2>1
      <3>2. Len(F[i]) = Len(a) + 1 /\ F[i][Len(a) + 1] = q[i] /\ \A j \in 1..Len(a) : F[i][j] = a[j]
        BY <2>0, <3>1, AppendProperties
      <3>3. Len(a) \in Nat /\ i \in Nat /\ i > 0
        BY <2>0
      <3> HIDE DEF a, n
      <3>4. /\ \A j \in 1..Len(a) : \E k \in 1..(i - 1) : q[k] = a[j] /\ q[k] \in S
            /\ \A k \in 1..(i - 1) : q[k] \in S => \E j \in 1..Len(a) : a[j] = q[k]
            /\ \A j, m \in 1..Len(a) : j < m =>
                             \E k, l \in 1..(i - 1) : k < l /\ q[k] = a[j] /\ q[l] = a[m]
        BY <2>0 DEF a
      <3>5. ASSUME NEW j \in 1..Len(F[i]) PROVE \E k \in 1..i : q[k] = F[i][j] /\ q[k] \in S
        <4>1. CASE j \in 1..Len(a)
          BY <3>2, <3>3, <3>4, <4>1
        <4>2. CASE j = Len(a) + 1
          BY <2>1, <3>2, <3>3, <4>2
        <4> QED  BY <3>2, <3>3, <4>1, <4>2
      <3>6. ASSUME NEW k \in 1..i, q[k] \in S PROVE \E j \in 1..Len(F[i]) : F[i][j] = q[k]
        <4>1. CASE k \in 1..(i - 1)
          <5>1. PICK j \in 1..Len(a) : a[j] = q[k]
            BY <3>4, <3>6, <4>1
          <5>2. j \in 1..Len(F[i]) /\ F[i][j] = a[j]
            BY <3>2, <3>3
          <5> QED  BY <5>1, <5>2
        <4>2. CASE k = i
          BY <3>2, <3>3, <4>2
        <4> QED  BY <3>3, <4>1, <4>2
      <3>7. ASSUME NEW j \in 1..Len(F[i]), NEW m \in 1..Len(F[i]), j < m
            PROVE  \E k, l \in 1..i : k < l /\ q[k] = F[i][j] /\ q[l] = F[i][m]
        <4>0. j \in 1..Len(a)
          BY <3>2, <3>3, <3>7
        <4>1. CASE m \in 1..Len(a)
          <5>1. PICK k \in 1..(i - 1), l \in 1..(i - 1) : k < l /\ q[k] = a[j] /\ q[l] = a[m]
            BY <3>4, <3>7, <4>0, <4>1
          <5>2. k \in 1..i /\ l \in 1..i /\ F[i][j] = a[j] /\ F[i][m] = a[m]
            BY <3>2, <3>3, <4>0, <4>1
          <5> QED  BY <5>1, <5>2
        <4>2. CASE m = Len(a) + 1
          <5>1. PICK k \in 1..(i - 1) : q[k] = a[j]
            BY <3>4, <4>0
          <5>2. k \in 1..i /\ i \in 1..i /\ k < i /\ q[k] = F[i][j] /\ q[i] = F[i][m]
            BY <3>2, <3>3, <4>0, <4>2, <5>1
          <5> QED  BY <5>2
        <4> QED  BY <3>2, <3>3, <4>1, <4>2
      <3>8. Kept(i)
        BY <3>5, <3>6, <3>7
      <3> HIDE DEF Kept
      <3> QED  BY <2>0, <3>8
    <2>2. CASE q[i] \notin S
      <3>1. F[i] = F[i - 1]
        BY <1>2, <2>2
      <3>2. i \in Nat /\ i > 0 /\ \A k \in 1..(i - 1) : k \in 1..i
        BY <1>0
      <3>3. \A k \in 1..i : k = i \/ k \in 1..(i - 1)
        BY <3>2
      <3>4. Kept(i)
        <4> HIDE DEF n
        <4> QED  BY <2>0, <2>2, <3>1, <3>2, <3>3
      <3> HIDE DEF Kept
      <3> QED  BY <2>0, <3>4
    <2> QED  BY <2>1, <2>2
  <1>5. Kept(n)
    <2> HIDE DEF n, Kept
    <2>1. \A i \in 0..n : i \in U
      <3> HIDE DEF U
      <3> QED  BY <1>0, <1>3, <1>4, Climb
    <2> QED  BY <1>0, <2>1
  <1>6. F[n] \in Seq(T)
    BY <1>0, <1>2
  <1>7. InOrderOf(F[n], q)
    BY <1>5 DEF InOrderOf
  <1>8. Members(F[n]) = Members(q) \cap S
    <2> DEFINE a == F[n]
    <2>0. /\ \A j \in 1..Len(a) : \E k \in 1..n : q[k] = a[j] /\ q[k] \in S
          /\ \A k \in 1..n : q[k] \in S => \E j \in 1..Len(a) : a[j] = q[k]
      BY <1>5
    <2> HIDE DEF a
    <2>1. ASSUME NEW x \in Members(a) PROVE x \in Members(q) \cap S
      BY <2>0 DEF Members
    <2>2. ASSUME NEW x \in Members(q) \cap S PROVE x \in Members(a)
      <3>1. PICK k \in 1..n : q[k] = x /\ x \in S
        BY DEF Members
      <3>2. PICK j \in 1..Len(a) : a[j] = q[k]
        BY <2>0, <3>1
      <3> QED  BY <3>1, <3>2 DEF Members
    <2> USE DEF a
    <2> QED  BY <2>1, <2>2
  <1>9. Distinct(q) => Distinct(F[n])
    <2> SUFFICES ASSUME Distinct(q), NEW i \in 1..Len(F[n]), NEW j \in 1..Len(F[n]), F[n][i] = F[n][j], i < j
                 PROVE  FALSE
      BY <1>6 DEF Distinct
    <2> QED  BY <1>7 DEF InOrderOf, Distinct
  <1> QED  BY <1>1, <1>6, <1>7, <1>8, <1>9
------------------------------------------------------------------------------
\* The queue q holds the threads of A, each of them once.
Holds(q, A) == q \in Seq(Threads) /\ Distinct(q) /\ Members(q) = A

\* The ready table and the waiting lists r and s are the ones of threads with the states
\* st, the priorities pr and the calls cl.
At(st, pr, p) == {t \in Threads : st[t] = "READY" /\ pr[t] = p}
For(st, cl, o) == {t \in Threads : st[t] = "SUSPEND" /\ cl[t] = o}

ReadyIs(r, st, pr) ==
  /\ DOMAIN r = Priorities /\ r = [p \in Priorities |-> r[p]]
  /\ \A p \in Priorities : Holds(r[p], At(st, pr, p))

WaitIs(s, st, cl) ==
  /\ DOMAIN s = Objects /\ s = [o \in Objects |-> s[o]]
  /\ \A o \in Objects : Holds(s[o], For(st, cl, o))

\* The queues and the state of the threads, whatever object they share: who is
\* suspended is inside a call that has not failed, a running timer belongs to a
\* suspended thread, and the thread that runs is ready.
Queues == ReadyIs(ready, stat, priority) /\ WaitIs(suspended, stat, call)

Waits ==
  /\ \A t \in Threads : stat[t] = "SUSPEND" => call[t] # "none" /\ error[t] = "EOK"
  /\ \A t \in Threads : timer[t] => stat[t] = "SUSPEND"
  /\ rt_current_thread \in Threads /\ rt_current_thread \notin leaving => stat[rt_current_thread] = "READY"

Shape ==
  /\ ThreadTypeOK
  /\ object \in Kinds /\ flag \in {"FIFO", "PRIO"}
  /\ call \in [Threads -> Objects \cup {"none"}]
  /\ suspended \in [Objects -> Seq(Threads)]

KernelInv == Shape /\ Queues /\ Waits

\* The tokens of the semaphore.
SemInv == value \in 0..MaxValue /\ TokensKept

\* The mutexes, with what ties the owner to the call that made it the owner.
MutexShape ==
  /\ owner \in [Mutexes -> Threads \cup {None}] /\ hold \in [Mutexes -> 0..MaxHold]
  /\ original_priority \in [Mutexes -> Priorities \cup {NoPriority}]
  /\ got \in [Threads -> [Mutexes -> 0..MaxHold]]

Granted ==
  \A m \in Mutexes :
    /\ owner[m] # None => original_priority[m] \in Priorities
    /\ \A t \in Threads : call[t] = m => (owner[m] = t <=> stat[t] = "READY" /\ error[t] = "EOK")

MutexInv == MutexShape /\ OneHolder /\ Granted

\* With one mutex: what is noted for its owner is the priority the owner had of its
\* own, and threads that wait by priority are in the order of theirs.
Sorted(q) == \A i, j \in 1..Len(q) : i < j => priority[q[i]] <= priority[q[j]]

InheritInv ==
  /\ PriorityGivenBack /\ NoInversionByPriority
  /\ \A m \in Mutexes : /\ owner[m] # None => original_priority[m] = base[owner[m]]
                        /\ flag = "PRIO" => Sorted(suspended[m])

\* The event.
EventShape ==
  set \subseteq Bits /\ event_set \in [Threads -> SUBSET Bits] /\ event_info \in [Threads -> Options \cup {{}}]

EventInv == EventShape /\ NoLostEvent

IInv == KernelInv /\ SemInv /\ MutexInv /\ EventInv /\ MostUrgentRunsUnlocked
------------------------------------------------------------------------------
\* A queue that holds nothing is empty, and the other way round.
LEMMA HoldsNone ==
  /\ Holds(<<>>, {})
  /\ \A q, A : Holds(q, A) => (q = <<>> <=> A = {})
  <1>1. Holds(<<>>, {})
    BY DEF Holds, Distinct, Members
  <1>2. ASSUME NEW q, NEW A, Holds(q, A) PROVE q = <<>> <=> A = {}
    <2>1. q \in Seq(Threads) /\ A = {q[i] : i \in 1..Len(q)}
      BY <1>2 DEF Holds, Members
    <2>2. CASE q = <<>>
      BY <2>1, <2>2
    <2>3. CASE q # <<>>
      <3>1. 1 \in 1..Len(q)
        BY <2>1, <2>3
      <3> QED  BY <2>1, <2>3, <3>1
    <2> QED  BY <2>2, <2>3
  <1> QED  BY <1>1, <1>2

\* What becomes of the threads of a queue: the ones outside S leave, one leaves, one is
\* added at the end, another queue is added at the end, the first leaves.
LEMMA HoldsAmong ==
  ASSUME NEW q, NEW A, Holds(q, A), NEW S
  PROVE  Holds(Among(q, S), A \cap S)
  BY AmongKeeps DEF Holds

\* Taking a thread out of a queue.
LEMMA HoldsWithout ==
  ASSUME NEW q, NEW A, Holds(q, A), NEW t
  PROVE  Holds(Without(q, t), A \ {t})
  <1>1. Holds(Without(q, t), A \cap (Threads \ {t}))
    BY HoldsAmong DEF Without
  <1>2. A \subseteq Threads
    BY DEF Holds, Members
  <1>3. A \cap (Threads \ {t}) = A \ {t}
    BY <1>2
  <1> QED  BY <1>1, <1>3

\* Two queues without a common thread, one behind the other.
LEMMA HoldsConcat ==
  ASSUME NEW q, NEW A, Holds(q, A), NEW r, NEW B, Holds(r, B), A \cap B = {}
  PROVE  Holds(q \o r, A \cup B)
  <1> DEFINE c == q \o r
  <1>1. q \in Seq(Threads) /\ r \in Seq(Threads)
    BY DEF Holds
  <1>2. /\ c \in Seq(Threads) /\ Len(c) = Len(q) + Len(r) /\ Len(q) \in Nat /\ Len(r) \in Nat
        /\ \A i \in 1..(Len(q) + Len(r)) : c[i] = IF i <= Len(q) THEN q[i] ELSE r[i - Len(q)]
    BY <1>1, ConcatProperties
  <1> HIDE DEF c
  <1>3. /\ \A i \in 1..Len(q) : i \in 1..Len(c) /\ c[i] = q[i]
        /\ \A i \in 1..Len(r) : Len(q) + i \in 1..Len(c) /\ c[Len(q) + i] = r[i]
        /\ \A i \in 1..Len(c) : i \in 1..Len(q) \/ (i - Len(q) \in 1..Len(r) /\ c[i] = r[i - Len(q)])
    <2>1. ASSUME NEW i \in 1..Len(q) PROVE i \in 1..Len(c) /\ c[i] = q[i]
      BY <1>2
    <2>2. ASSUME NEW i \in 1..Len(r) PROVE Len(q) + i \in 1..Len(c) /\ c[Len(q) + i] = r[i]
      <3>1. Len(q) + i \in 1..(Len(q) + Len(r)) /\ ~(Len(q) + i <= Len(q)) /\ (Len(q) + i) - Len(q) = i
        BY <1>2
      <3> QED  BY <1>2, <3>1
    <2>3. ASSUME NEW i \in 1..Len(c), i \notin 1..Len(q) PROVE i - Len(q) \in 1..Len(r) /\ c[i] = r[i - Len(q)]
      BY <1>2, <2>3
    <2> QED  BY <2>1, <2>2, <2>3
  <1>4. /\ \A i \in 1..Len(q) : q[i] \in A
        /\ \A i \in 1..Len(r) : r[i] \in B
    BY DEF Holds, Members
  <1>5. Members(c) = A \cup B
    <2>1. ASSUME NEW x \in Members(c) PROVE x \in A \cup B
      <3>1. PICK i \in 1..Len(c) : x = c[i]
        BY DEF Members
      <3> QED  BY <1>3, <1>4, <3>1
    <2>2. ASSUME NEW x \in A PROVE x \in Members(c)
      <3>1. PICK i \in 1..Len(q) : x = q[i]
        BY DEF Holds, Members
      <3> QED  BY <1>3, <3>1 DEF Members
    <2>3. ASSUME NEW x \in B PROVE x \in Members(c)
      <3>1. PICK i \in 1..Len(r) : x = r[i]
        BY DEF Holds, Members
      <3>2. Len(q) + i \in 1..Len(c) /\ c[Len(q) + i] = x
        BY <1>3, <3>1
      <3> QED  BY <3>2 DEF Members
    <2> QED  BY <2>1, <2>2, <2>3
  <1>6. ASSUME NEW i \in 1..Len(c), NEW j \in 1..Len(c), c[i] = c[j] PROVE i = j
    <2>1. CASE i \in 1..Len(q) /\ j \in 1..Len(q)
      BY <1>3, <1>6, <2>1 DEF Holds, Distinct
    <2>2. CASE i \notin 1..Len(q) /\ j \notin 1..Len(q)
      <3>1. i - Len(q) \in 1..Len(r) /\ j - Len(q) \in 1..Len(r) /\ r[i - Len(q)] = r[j - Len(q)]
        BY <1>3, <1>6, <2>2
      <3>2. i - Len(q) = j - Len(q)
        BY <3>1 DEF Holds, Distinct
      <3> QED  BY <1>2, <3>2
    <2>3. CASE i \in 1..Len(q) /\ j \notin 1..Len(q)
      <3>1. c[i] \in A /\ c[j] \in B
        BY <1>3, <1>4, <2>3
      <3> QED  BY <1>6, <3>1
    <2>4. CASE i \notin 1..Len(q) /\ j \in 1..Len(q)
      <3>1. c[i] \in B /\ c[j] \in A
        BY <1>3, <1>4, <2>4
      <3> QED  BY <1>6, <3>1
    <2> QED  BY <2>1, <2>2, <2>3, <2>4
  <1>7. Distinct(c)
    BY <1>6 DEF Distinct
  <1> QED  BY <1>2, <1>5, <1>7 DEF Holds, c

\* The queue of one thread.
LEMMA HoldsOne ==
  ASSUME NEW t \in Threads
  PROVE  Holds(<<t>>, {t})
  BY DEF Holds, Distinct, Members

\* A thread is put at the end.
LEMMA HoldsAppend ==
  ASSUME NEW q, NEW A, Holds(q, A), NEW t \in Threads, t \notin A
  PROVE  Holds(Append(q, t), A \cup {t})
  <1>1. Append(q, t) = q \o <<t>>
    BY AppendIsConcat DEF Holds
  <1>2. A \cap {t} = {} /\ Holds(<<t>>, {t})
    BY HoldsOne
  <1> QED  BY <1>1, <1>2, HoldsConcat

\* The first thread leaves.
LEMMA HoldsTail ==
  ASSUME NEW q, NEW A, Holds(q, A), q # <<>>
  PROVE  Head(q) \in A /\ Holds(Tail(q), A \ {Head(q)})
  <1>1. q \in Seq(Threads) /\ Distinct(q) /\ \A x : x \in A <=> \E i \in 1..Len(q) : x = q[i]
    BY DEF Holds, Members
  <1>2. /\ Head(q) = q[1] /\ Tail(q) \in Seq(Threads) /\ Len(Tail(q)) = Len(q) - 1 /\ Len(q) \in Nat /\ Len(q) > 0
        /\ \A i \in 1..(Len(q) - 1) : Tail(q)[i] = q[i + 1]
    BY <1>1, HeadTailProperties
  <1>3. 1 \in 1..Len(q) /\ \A i \in 1..(Len(q) - 1) : i + 1 \in 1..Len(q) /\ i + 1 # 1
    BY <1>2
  <1>4. ASSUME NEW x \in Members(Tail(q)) PROVE x \in A \ {Head(q)}
    <2>1. PICK i \in 1..(Len(q) - 1) : x = q[i + 1]
      BY <1>2 DEF Members
    <2> QED  BY <1>1, <1>2, <1>3, <2>1 DEF Distinct
  <1>5. ASSUME NEW x \in A \ {Head(q)} PROVE x \in Members(Tail(q))
    <2>1. PICK i \in 1..Len(q) : x = q[i]
      BY <1>1
    <2>2. i # 1
      BY <1>2, <2>1
    <2>3. i - 1 \in 1..Len(Tail(q)) /\ Tail(q)[i - 1] = x
      BY <1>2, <2>1, <2>2
    <2> QED  BY <2>3 DEF Members
  <1>6. Distinct(Tail(q))
    <2> SUFFICES ASSUME NEW i \in 1..Len(Tail(q)), NEW j \in 1..Len(Tail(q)), Tail(q)[i] = Tail(q)[j] PROVE i = j
      BY DEF Distinct
    <2>1. i + 1 \in 1..Len(q) /\ j + 1 \in 1..Len(q) /\ q[i + 1] = q[j + 1]
      BY <1>2
    <2>2. i + 1 = j + 1
      BY <1>1, <2>1 DEF Distinct
    <2> QED  BY <2>2
  <1>7. Head(q) \in A
    BY <1>1, <1>2, <1>3
  <1> QED  BY <1>2, <1>4, <1>5, <1>6, <1>7 DEF Holds

\* The smallest number of a set, as the list of ready priorities and the waiting lists use it.
LEMMA LowestIsLeast ==
  ASSUME NEW S, S \subseteq Nat, S # {}
  PROVE  Lowest(S) \in S /\ \A y \in S : Lowest(S) <= y
  BY LeastNumber DEF Lowest

\* The waiting thread t is put at the place i of the list.
PutAt(e, q, t, i) ==
  /\ e \in Seq(Threads) /\ Len(e) = Len(q) + 1 /\ i \in 1..(Len(q) + 1)
  /\ \A j \in 1..(i - 1) : e[j] = q[j]
  /\ e[i] = t
  /\ \A j \in (i + 1)..(Len(q) + 1) : e[j] = q[j - 1]

\* rt_ipc_list_suspend puts a thread behind the ones at least as urgent.
LEMMA EnqueuePuts ==
  ASSUME priority \in [Threads -> Priorities], NEW q \in Seq(Threads), NEW t \in Threads
  PROVE  \E i \in 1..(Len(q) + 1) :
           /\ PutAt(Enqueue(q, t), q, t, i)
           /\ flag # "FIFO" => /\ \A j \in 1..(i - 1) : priority[q[j]] <= priority[t]
                               /\ i <= Len(q) => priority[t] < priority[q[i]]
  <1> DEFINE n == Len(q)
             L == Later(q, priority[t])
  <1>0. n \in Nat /\ priority[t] \in Nat /\ \A j \in 1..n : q[j] \in Threads /\ priority[q[j]] \in Nat
    <2>1. n \in Nat /\ \A j \in 1..n : q[j] \in Threads
      OBVIOUS
    <2>2. \A x \in Threads : priority[x] \in Nat
      BY ThreadAssumption
    <2> QED  BY <2>1, <2>2
  <1>1. CASE flag = "FIFO" \/ L = {}
    <2>1. Enqueue(q, t) = Append(q, t)
      BY <1>1 DEF Enqueue
    <2>2. PutAt(Append(q, t), q, t, n + 1)
      BY <1>0, AppendProperties DEF PutAt
    <2>3. ASSUME flag # "FIFO", NEW j \in 1..n PROVE priority[q[j]] <= priority[t]
      <3>1. L = {}
        BY <1>1, <2>3
      <3> QED  BY <1>0, <3>1 DEF Later
    <2> HIDE DEF n, L
    <2>4. n + 1 \in 1..(n + 1) /\ ~(n + 1 <= n) /\ (n + 1) - 1 = n
      BY <1>0
    <2> QED  BY <2>1, <2>2, <2>3, <2>4 DEF n
  <1>2. CASE flag # "FIFO" /\ L # {}
    <2> DEFINE i == Lowest(L)
               a == SubSeq(q, 1, i - 1)
               b == SubSeq(q, i, n)
    <2>1. i \in 1..n /\ priority[t] < priority[q[i]] /\ \A j \in L : i <= j
      <3>1. L \subseteq Nat
        BY DEF Later
      <3>2. i \in L /\ \A j \in L : i <= j
        <4> HIDE DEF L
        <4> QED  BY <1>2, <3>1, LowestIsLeast
      <3> QED  BY <3>2 DEF Later
    <2>2. ASSUME NEW j \in 1..(i - 1) PROVE priority[q[j]] <= priority[t]
      <3>1. j \in 1..n /\ j < i
        BY <2>1
      <3>2. j \notin L
        BY <2>1, <3>1
      <3> QED  BY <1>0, <3>1, <3>2 DEF Later
    <2>3. Enqueue(q, t) = (a \o <<t>>) \o b
      BY <1>2 DEF Enqueue
    <2> HIDE DEF i, n, L
    <2>4. a \in Seq(Threads) /\ Len(a) = i - 1 /\ \A j \in 1..(i - 1) : a[j] = q[j]
      <3>1. \A j \in 1..(i - 1) : q[j] \in Threads
        BY <1>0, <2>1
      <3>2. 1 \in Int /\ i - 1 \in Int
        BY <2>1
      <3>3. /\ a \in Seq(Threads) /\ Len(a) = IF 1 <= i - 1 THEN i - 1 - 1 + 1 ELSE 0
            /\ \A j \in 1..(i - 1 - 1 + 1) : a[j] = q[1 + j - 1]
        BY <3>1, <3>2, SubSeqProperties
      <3> QED  BY <1>0, <2>1, <3>3
    <2>5. b \in Seq(Threads) /\ Len(b) = n - i + 1 /\ \A j \in 1..(n - i + 1) : b[j] = q[i + j - 1]
      <3>1. \A j \in i..n : q[j] \in Threads
        BY <1>0, <2>1
      <3>2. i \in Int /\ n \in Int
        BY <1>0, <2>1
      <3>3. /\ b \in Seq(Threads) /\ Len(b) = IF i <= n THEN n - i + 1 ELSE 0
            /\ \A j \in 1..(n - i + 1) : b[j] = q[i + j - 1]
        BY <3>1, <3>2, SubSeqProperties
      <3> QED  BY <1>0, <2>1, <3>3
    <2> HIDE DEF a, b
    <2> DEFINE c == a \o <<t>>
               e == c \o b
    <2>6. c \in Seq(Threads) /\ Len(c) = i /\ c[i] = t /\ \A j \in 1..(i - 1) : c[j] = q[j]
      <3>1. c = Append(a, t)
        BY <2>4, AppendIsConcat
      <3>2. i - 1 + 1 = i
        BY <2>1
      <3> HIDE DEF c
      <3> QED  BY <2>4, <3>1, <3>2, AppendProperties
    <2> HIDE DEF c
    <2>7. e \in Seq(Threads) /\ Len(e) = i + (n - i + 1)
          /\ \A j \in 1..(i + (n - i + 1)) : e[j] = IF j <= i THEN c[j] ELSE b[j - i]
      <3>1. /\ e \in Seq(Threads) /\ Len(e) = Len(c) + Len(b)
            /\ \A j \in 1..(Len(c) + Len(b)) : e[j] = IF j <= Len(c) THEN c[j] ELSE b[j - Len(c)]
        BY <2>5, <2>6, ConcatProperties
      <3> HIDE DEF e
      <3> QED  BY <2>5, <2>6, <3>1
    <2> HIDE DEF e
    <2>8. Len(e) = n + 1 /\ i \in 1..(n + 1) /\ i + (n - i + 1) = n + 1
      BY <1>0, <2>1, <2>7
    <2>9. ASSUME NEW j \in 1..(i - 1) PROVE e[j] = q[j]
      BY <1>0, <2>1, <2>6, <2>7, <2>8
    <2>10. e[i] = t
      BY <1>0, <2>1, <2>6, <2>7, <2>8
    <2>11. ASSUME NEW j \in (i + 1)..(n + 1) PROVE e[j] = q[j - 1]
      <3>1. j \in 1..(n + 1) /\ ~(j <= i) /\ j - i \in 1..(n - i + 1) /\ i + (j - i) - 1 = j - 1
        BY <1>0, <2>1
      <3>2. e[j] = b[j - i]
        BY <2>7, <2>8, <3>1
      <3> QED  BY <2>5, <3>1, <3>2
    <2>12. PutAt(e, q, t, i)
      BY <2>7, <2>8, <2>9, <2>10, <2>11 DEF PutAt, n
    <2> QED  BY <2>1, <2>2, <2>3, <2>8, <2>12 DEF e, c, n
  <1> QED  BY <1>1, <1>2

\* A thread is put into the middle, as rt_ipc_list_suspend does by priority.
LEMMA HoldsPutAt ==
  ASSUME NEW q, NEW A, Holds(q, A), NEW t \in Threads, t \notin A, NEW e, NEW i, PutAt(e, q, t, i)
  PROVE  Holds(e, A \cup {t})
  <1> DEFINE n == Len(q)
  <1>0. n \in Nat /\ Len(e) = n + 1 /\ i \in 1..(n + 1) /\ \A x : x \in A <=> \E j \in 1..n : x = q[j]
    BY DEF Holds, Members, PutAt
  <1>1. /\ \A j \in 1..n : j < i => e[j] = q[j]
        /\ \A j \in 1..n : i <= j => e[j + 1] = q[j]
        /\ e[i] = t
    <2>1. \A j \in 1..n : j < i => j \in 1..(i - 1)
      BY <1>0
    <2>2. \A j \in 1..n : i <= j => j + 1 \in (i + 1)..(n + 1) /\ (j + 1) - 1 = j
      BY <1>0
    <2> QED  BY <2>1, <2>2 DEF PutAt
  <1>2. \A j \in 1..(n + 1) : \/ j = i
                              \/ j < i /\ j \in 1..n /\ e[j] = q[j]
                              \/ j > i /\ j - 1 \in 1..n /\ e[j] = q[j - 1]
    <2>1. \A j \in 1..(n + 1) : \/ j = i
                                \/ j < i /\ j \in 1..(i - 1) /\ j \in 1..n
                                \/ j > i /\ j - 1 \in 1..n /\ j \in (i + 1)..(n + 1)
      BY <1>0
    <2> QED  BY <2>1 DEF PutAt
  <1>3. Members(e) = A \cup {t}
    <2>1. ASSUME NEW x \in Members(e) PROVE x \in A \cup {t}
      <3>1. PICK j \in 1..(n + 1) : x = e[j]
        BY <1>0 DEF Members
      <3> HIDE DEF n
      <3> QED  BY <1>0, <1>1, <1>2, <3>1
    <2>2. ASSUME NEW x \in A \cup {t} PROVE x \in Members(e)
      <3>1. \E j \in 1..(n + 1) : x = e[j]
        <4>1. CASE x = t
          BY <1>0, <1>1, <4>1
        <4>2. CASE x # t
          <5>1. PICK j \in 1..n : x = q[j]
            BY <1>0, <4>2
          <5>2. CASE j < i
            BY <1>0, <1>1, <5>1, <5>2
          <5>3. CASE i <= j
            <6>1. j + 1 \in 1..(n + 1) /\ e[j + 1] = q[j]
              BY <1>0, <1>1, <5>3
            <6> HIDE DEF n
            <6> QED  BY <5>1, <6>1
          <5> QED  BY <1>0, <5>2, <5>3
        <4> QED  BY <4>1, <4>2
      <3> QED  BY <1>0, <3>1 DEF Members
    <2> QED  BY <2>1, <2>2
  <1>4. ASSUME NEW j \in 1..(n + 1), NEW k \in 1..(n + 1), e[j] = e[k] PROVE j = k
    <2>1. \A l, m \in 1..n : q[l] = q[m] => l = m
      BY DEF Holds, Distinct
    <2>2. \A l \in 1..n : q[l] # t
      BY <1>0
    <2> HIDE DEF n
    <2> QED  BY <1>0, <1>1, <1>2, <1>4, <2>1, <2>2
  <1>5. Distinct(e)
    BY <1>0, <1>4 DEF Distinct
  <1> QED  BY <1>3, <1>5 DEF Holds, PutAt

\* rt_schedule chooses a ready thread no other ready thread is more urgent than.
Chosen(h, st, pr) ==
  /\ h \in Threads \cup {Idle}
  /\ h \in Threads => st[h] = "READY"
  /\ \A t \in Threads : st[t] = "READY" => h \in Threads /\ pr[h] <= pr[t]

\* Highest is a ready thread, and none is more urgent.
LEMMA HighestIsChosen ==
  ASSUME NEW r, NEW st, NEW pr \in [Threads -> Priorities], ReadyIs(r, st, pr)
  PROVE  Chosen(Highest(r), st, pr)
  <1> DEFINE A(p) == {t \in Threads : st[t] = "READY" /\ pr[t] = p}
             U == Urgent(r)
  <1> USE DEF ReadyIs, At
  <1>1. \A p \in Priorities : p \in U <=> A(p) # {}
    <2> SUFFICES ASSUME NEW p \in Priorities PROVE r[p] = <<>> <=> A(p) = {}
      BY DEF Urgent
    <2>1. Holds(r[p], A(p))
      OBVIOUS
    <2> HIDE DEF A
    <2> QED  BY <2>1, HoldsNone
  <1>2. ASSUME NEW t \in Threads, st[t] = "READY" PROVE pr[t] \in U
    <2>1. t \in A(pr[t]) /\ pr[t] \in Priorities
      BY <1>2
    <2> HIDE DEF A, U
    <2> QED  BY <1>1, <2>1
  <1>3. CASE U = {}
    BY <1>2, <1>3, ThreadAssumption DEF Highest, Chosen
  <1>4. CASE U # {}
    <2> DEFINE l == Lowest(U)
    <2>1. l \in U /\ (\A p \in U : l <= p) /\ l \in Priorities
      <3>1. U \subseteq Nat /\ U \subseteq Priorities
        BY ThreadAssumption DEF Urgent
      <3> HIDE DEF U
      <3> QED  BY <1>4, <3>1, LowestIsLeast
    <2>2. Highest(r) = Head(r[l])
      BY <1>4 DEF Highest
    <2>3. r[l] # <<>> /\ Holds(r[l], A(l))
      BY <2>1 DEF Urgent
    <2>4. Head(r[l]) \in A(l)
      <3> HIDE DEF A, l
      <3> QED  BY <2>3, HoldsTail
    <2>5. Highest(r) \in Threads /\ st[Highest(r)] = "READY" /\ pr[Highest(r)] = l
      BY <2>2, <2>4
    <2> HIDE DEF l, U
    <2> QED  BY <1>2, <2>1, <2>5 DEF Chosen
  <1> QED  BY <1>3, <1>4

\* Such a table has its type.
LEMMA ReadyIsTyped ==
  ASSUME NEW r, NEW st, NEW pr, ReadyIs(r, st, pr)
  PROVE  r \in [Priorities -> Seq(Threads)]
  BY DEF ReadyIs, Holds

\* rt_schedule_remove_thread takes a thread out that is no longer ready.
LEMMA ReadyRemove ==
  ASSUME NEW r, NEW st, NEW pr, ReadyIs(r, st, pr), NEW t \in Threads, NEW st2,
         \A x \in Threads : x # t => st2[x] = st[x], st2[t] # "READY"
  PROVE  ReadyIs(RemoveReady(r, t), st2, pr)
  <1>1. ASSUME NEW p \in Priorities PROVE Holds(RemoveReady(r, t)[p], At(st2, pr, p))
    <2>1. Holds(RemoveReady(r, t)[p], At(st, pr, p) \ {t})
      BY HoldsWithout DEF RemoveReady, ReadyIs
    <2>2. At(st, pr, p) \ {t} = At(st2, pr, p)
      BY DEF At
    <2> QED  BY <2>1, <2>2
  <1> QED  BY <1>1 DEF ReadyIs, RemoveReady

\* rt_schedule_insert_thread puts a thread in that was not there, at a priority of its own.
LEMMA ReadyInsert ==
  ASSUME NEW r, NEW st, NEW pr, ReadyIs(r, st, pr), NEW t \in Threads, st[t] # "READY", NEW q \in Priorities,
         NEW st2, \A x \in Threads : x # t => st2[x] = st[x], st2[t] = "READY",
         NEW pr2, \A x \in Threads : x # t => pr2[x] = pr[x], pr2[t] = q
  PROVE  ReadyIs(InsertReady(r, t, q), st2, pr2)
  <1>1. ASSUME NEW p \in Priorities PROVE Holds(InsertReady(r, t, q)[p], At(st2, pr2, p))
    <2>1. InsertReady(r, t, q)[p] = IF p = q THEN Append(r[p], t) ELSE r[p]
      BY DEF InsertReady, ReadyIs
    <2>2. Holds(r[p], At(st, pr, p)) /\ t \notin At(st, pr, p)
      BY DEF ReadyIs, At
    <2>3. CASE p = q
      <3>1. Holds(Append(r[p], t), At(st, pr, p) \cup {t})
        BY <2>2, HoldsAppend
      <3>2. At(st, pr, p) \cup {t} = At(st2, pr2, p)
        BY <2>3 DEF At
      <3> QED  BY <2>1, <2>3, <3>1, <3>2
    <2>4. CASE p # q
      <3>1. At(st, pr, p) = At(st2, pr2, p)
        BY <2>2, <2>4 DEF At
      <3> QED  BY <2>1, <2>2, <2>4, <3>1
    <2> QED  BY <2>3, <2>4
  <1>2. DOMAIN InsertReady(r, t, q) = Priorities
        /\ InsertReady(r, t, q) = [p \in Priorities |-> InsertReady(r, t, q)[p]]
    BY DEF InsertReady, ReadyIs
  <1> QED  BY <1>1, <1>2 DEF ReadyIs

\* A change of priority moves a ready thread and leaves a suspended one alone.
LEMMA ReadyRequeue ==
  ASSUME NEW r, NEW pr, ReadyIs(r, stat, pr), NEW t \in Threads, NEW q \in Priorities,
         NEW pr2, \A x \in Threads : x # t => pr2[x] = pr[x], pr2[t] = q
  PROVE  ReadyIs(Requeued(r, t, q), stat, pr2)
  <1>1. CASE stat[t] = "READY"
    <2> DEFINE st == [x \in Threads |-> IF x = t THEN "SUSPEND" ELSE stat[x]]
    <2>1. st[t] # "READY" /\ \A x \in Threads : x # t => st[x] = stat[x]
      OBVIOUS
    <2> HIDE DEF st
    <2>2. ReadyIs(RemoveReady(r, t), st, pr)
      BY <2>1, ReadyRemove
    <2>3. ReadyIs(InsertReady(RemoveReady(r, t), t, q), stat, pr2)
      BY <1>1, <2>1, <2>2, ReadyInsert
    <2> QED  BY <1>1, <2>3 DEF Requeued
  <1>2. CASE stat[t] # "READY"
    <2>1. \A p \in Priorities : At(stat, pr, p) = At(stat, pr2, p)
      BY <1>2 DEF At
    <2> QED  BY <1>2, <2>1 DEF Requeued, ReadyIs
  <1> QED  BY <1>1, <1>2

\* Suspended threads are resumed together.
LEMMA ReadyResume ==
  ASSUME NEW r, NEW st, NEW pr, ReadyIs(r, st, pr), NEW queue, NEW W, Holds(queue, W),
         \A x \in W : st[x] # "READY", NEW st2, \A x \in Threads : st2[x] = IF x \in W THEN "READY" ELSE st[x],
         NEW pr0, \A x \in W : pr0[x] = pr[x]
  PROVE  ReadyIs(ResumedReady(r, queue, pr0), st2, pr)
  <1>1. ASSUME NEW p \in Priorities PROVE Holds(ResumedReady(r, queue, pr0)[p], At(st2, pr, p))
    <2> DEFINE S == {t \in Threads : pr0[t] = p}
               a == Among(queue, S)
    <2>1. ResumedReady(r, queue, pr0)[p] = r[p] \o a
      BY DEF ResumedReady
    <2>2. Holds(a, W \cap S) /\ Holds(r[p], At(st, pr, p))
      <3> HIDE DEF S
      <3> QED  BY HoldsAmong DEF ReadyIs
    <2>3. At(st, pr, p) \cap (W \cap S) = {}
      BY DEF At
    <2>4. W \subseteq Threads
      BY DEF Holds, Members
    <2>5. At(st, pr, p) \cup (W \cap S) = At(st2, pr, p)
      BY <2>4 DEF At
    <2> HIDE DEF S, a
    <2> QED  BY <2>1, <2>2, <2>3, <2>5, HoldsConcat
  <1> QED  BY <1>1 DEF ReadyIs, ResumedReady

\* A thread that was not suspended begins to wait in the list of o.
LEMMA WaitEnqueue ==
  ASSUME NEW s, NEW st, NEW cl, WaitIs(s, st, cl), NEW t \in Threads, st[t] # "SUSPEND", NEW o \in Objects,
         priority \in [Threads -> Priorities],
         NEW st2, \A x \in Threads : x # t => st2[x] = st[x], st2[t] = "SUSPEND",
         NEW cl2, \A x \in Threads : x # t => cl2[x] = cl[x], cl2[t] = o
  PROVE  WaitIs([s EXCEPT ![o] = Enqueue(@, t)], st2, cl2)
  <1> DEFINE s2 == [s EXCEPT ![o] = Enqueue(@, t)]
  <1>0. DOMAIN s = Objects /\ DOMAIN s2 = Objects /\ s2 = [y \in Objects |-> s2[y]]
        /\ \A y \in Objects : s2[y] = IF y = o THEN Enqueue(s[y], t) ELSE s[y]
    BY DEF WaitIs
  <1> HIDE DEF s2
  <1>1. ASSUME NEW y \in Objects PROVE Holds(s2[y], For(st2, cl2, y))
    <2>1. Holds(s[y], For(st, cl, y)) /\ t \notin For(st, cl, y)
      BY DEF WaitIs, For
    <2>2. CASE y = o
      <3>1. PICK i \in 1..(Len(s[o]) + 1) : PutAt(Enqueue(s[o], t), s[o], t, i)
        BY <2>1, <2>2, EnqueuePuts DEF Holds
      <3>2. Holds(Enqueue(s[o], t), For(st, cl, o) \cup {t})
        BY <2>1, <2>2, <3>1, HoldsPutAt
      <3>3. For(st, cl, o) \cup {t} = For(st2, cl2, o)
        BY DEF For
      <3> QED  BY <1>0, <2>2, <3>2, <3>3
    <2>3. CASE y # o
      <3>1. For(st, cl, y) = For(st2, cl2, y)
        BY <2>1, <2>3 DEF For
      <3> QED  BY <1>0, <2>1, <2>3, <3>1
    <2> QED  BY <2>2, <2>3
  <1> QED  BY <1>0, <1>1 DEF WaitIs, s2

\* The threads of W, which wait for o, are suspended no longer.
LEMMA WaitLeave ==
  ASSUME NEW s, NEW st, NEW cl, WaitIs(s, st, cl), NEW o \in Objects, NEW W, W \subseteq For(st, cl, o),
         NEW q, Holds(q, For(st, cl, o) \ W),
         NEW st2, \A x \in Threads : st2[x] = IF x \in W THEN "READY" ELSE st[x]
  PROVE  WaitIs([s EXCEPT ![o] = q], st2, cl)
  <1> DEFINE s2 == [s EXCEPT ![o] = q]
  <1>0. DOMAIN s = Objects /\ DOMAIN s2 = Objects /\ s2 = [y \in Objects |-> s2[y]]
        /\ \A y \in Objects : s2[y] = IF y = o THEN q ELSE s[y]
    BY DEF WaitIs
  <1> HIDE DEF s2
  <1>1. ASSUME NEW y \in Objects PROVE Holds(s2[y], For(st2, cl, y))
    <2>1. Holds(s[y], For(st, cl, y))
      BY DEF WaitIs
    <2>2. CASE y = o
      <3>1. For(st, cl, o) \ W = For(st2, cl, o)
        BY DEF For
      <3> QED  BY <1>0, <2>2, <3>1
    <2>3. CASE y # o
      <3>1. For(st, cl, y) = For(st2, cl, y)
        BY <2>3 DEF For
      <3> QED  BY <1>0, <2>1, <2>3, <3>1
    <2> QED  BY <2>2, <2>3
  <1> QED  BY <1>0, <1>1 DEF WaitIs, s2

\* The waiting lists have their type.
LEMMA WaitIsTyped ==
  ASSUME NEW s, NEW st, NEW cl, WaitIs(s, st, cl)
  PROVE  s \in [Objects -> Seq(Threads)]
  BY DEF WaitIs, Holds
------------------------------------------------------------------------------
(* KernelInv: one lemma for each way a step moves threads between queues. *)

\* The current thread goes to the end of its queue, or rt_schedule is called.
LEMMA ScheduleKeeps ==
  ASSUME KernelInv, TimeSlice \/ \E t \in Threads : rt_schedule(t), KernelOnly
  PROVE  KernelInv' /\ Chosen(rt_current_thread', stat, priority)
  <1>0. /\ UNCHANGED <<stat, priority, timer, error, base, object, flag, call, suspended>>
        /\ leaving' \subseteq leaving /\ rt_current_thread' = Highest(ready')
    BY DEF TimeSlice, rt_schedule, KernelOnly
  <1>1. ReadyIs(ready', stat, priority)
    <2>1. CASE \E t \in Threads : rt_schedule(t)
      BY <2>1 DEF rt_schedule, KernelInv, Queues
    <2>2. CASE TimeSlice
      <3> DEFINE t == rt_current_thread
                 q == priority[t]
                 a == Append(Without(ready[q], t), t)
      <3>1. t \in Threads /\ stat[t] = "READY" /\ ready' = [ready EXCEPT ![q] = a]
            /\ q \in Priorities /\ ready \in [Priorities -> Seq(Threads)]
        BY <2>2 DEF TimeSlice, KernelInv, Shape, ThreadTypeOK
      <3>2. Holds(a, At(stat, priority, q))
        <4>1. Holds(ready[q], At(stat, priority, q)) /\ t \in At(stat, priority, q)
          BY <3>1 DEF KernelInv, Queues, ReadyIs, At
        <4> HIDE DEF t, q
        <4>2. Holds(a, (At(stat, priority, q) \ {t}) \cup {t})
          BY <3>1, <4>1, HoldsWithout, HoldsAppend
        <4>3. (At(stat, priority, q) \ {t}) \cup {t} = At(stat, priority, q)
          BY <4>1
        <4> QED  BY <4>2, <4>3
      <3> HIDE DEF a, q
      <3>3. ASSUME NEW p \in Priorities PROVE Holds(ready'[p], At(stat, priority, p))
        <4>1. CASE p = q
          BY <3>1, <3>2, <4>1
        <4>2. CASE p # q
          BY <3>1, <4>2 DEF KernelInv, Queues, ReadyIs
        <4> QED  BY <4>1, <4>2
      <3> QED  BY <3>1, <3>3 DEF ReadyIs
    <2> QED  BY <2>1, <2>2
  <1>2. Chosen(rt_current_thread', stat, priority)
    <2>1. priority \in [Threads -> Priorities]
      BY DEF KernelInv, Shape, ThreadTypeOK
    <2> QED  BY <1>0, <1>1, <2>1, HighestIsChosen
  <1>3. Shape'
    <2>1. ready' \in [Priorities -> Seq(Threads)]
      BY <1>1, ReadyIsTyped
    <2> QED  BY <1>0, <1>2, <2>1 DEF KernelInv, Shape, ThreadTypeOK, Chosen
  <1>4. Queues'
    BY <1>0, <1>1 DEF KernelInv, Queues
  <1>5. Waits'
    BY <1>0, <1>2 DEF KernelInv, Waits, Chosen
  <1> QED  BY <1>2, <1>3, <1>4, <1>5 DEF KernelInv

\* A thread that runs is ready, and is one of the threads.
LEMMA RunnerIsReady ==
  ASSUME KernelInv, NEW t \in Threads, Running(t)
  PROVE  stat[t] = "READY" /\ t = rt_current_thread
  BY DEF KernelInv, Waits, Running

\* The caller suspends itself and waits for o, with the ready table and the priorities
\* of the others changed in whatever way.
LEMMA SuspendKeeps ==
  ASSUME KernelInv, NEW t \in Threads, Running(t), NEW o \in Objects, NEW timed \in BOOLEAN,
         stat' = [stat EXCEPT ![t] = "SUSPEND"],
         timer' = [timer EXCEPT ![t] = timed],
         error' = [error EXCEPT ![t] = "EOK"],
         leaving' = leaving \cup {t},
         suspended' = [suspended EXCEPT ![o] = Enqueue(@, t)],
         call' = [call EXCEPT ![t] = o],
         UNCHANGED <<rt_current_thread, base, object, flag>>,
         priority' \in [Threads -> Priorities], ReadyIs(ready', stat', priority')
  PROVE  KernelInv'
  <1> USE DEF KernelInv
  <1>1. stat[t] = "READY" /\ t = rt_current_thread
    BY RunnerIsReady
  <1>2. /\ stat' \in [Threads -> {"READY", "SUSPEND"}] /\ stat'[t] = "SUSPEND"
        /\ \A x \in Threads : x # t => stat'[x] = stat[x]
    BY DEF Shape, ThreadTypeOK
  <1>3. /\ call' \in [Threads -> Objects \cup {"none"}] /\ call'[t] = o
        /\ \A x \in Threads : x # t => call'[x] = call[x]
    BY DEF Shape
  <1>4. WaitIs(suspended', stat', call')
    <2>1. WaitIs(suspended, stat, call) /\ priority \in [Threads -> Priorities]
      BY DEF Queues, Shape, ThreadTypeOK
    <2> QED  BY <1>1, <1>2, <1>3, <2>1, WaitEnqueue
  <1>5. Shape'
    <2>1. ready' \in [Priorities -> Seq(Threads)] /\ suspended' \in [Objects -> Seq(Threads)]
      BY <1>4, ReadyIsTyped, WaitIsTyped
    <2> QED  BY <1>2, <1>3, <2>1 DEF Shape, ThreadTypeOK
  <1>6. Waits'
    <2>1. \A x \in Threads : /\ x # t => error'[x] = error[x] /\ timer'[x] = timer[x]
                             /\ error'[t] = "EOK"
      BY DEF Shape, ThreadTypeOK
    <2>2. o # "none"
      BY IpcAssumption DEF Objects
    <2>3. rt_current_thread' \in leaving'
      BY <1>1
    <2> QED  BY <1>2, <1>3, <2>1, <2>2, <2>3 DEF Waits
  <1> QED  BY <1>4, <1>5, <1>6 DEF Queues

\* Block: the caller only.
LEMMA BlockKeeps ==
  ASSUME KernelInv, NEW t \in Threads, Running(t), NEW o \in Objects, NEW timed \in BOOLEAN,
         Block(t, o, timed), UNCHANGED priority
  PROVE  KernelInv'
  <1>1. ReadyIs(ready', stat', priority')
    <2>1. \A x \in Threads : x # t => stat'[x] = stat[x]
      BY DEF Block, SuspendSelf, KernelInv, Shape, ThreadTypeOK
    <2>2. stat'[t] # "READY" /\ ready' = RemoveReady(ready, t) /\ ReadyIs(ready, stat, priority)
      BY DEF Block, SuspendSelf, KernelInv, Shape, ThreadTypeOK, Queues
    <2> QED  BY <2>1, <2>2, ReadyRemove
  <1>2. priority' \in [Threads -> Priorities]
    BY DEF KernelInv, Shape, ThreadTypeOK
  <1> QED  BY <1>1, <1>2, SuspendKeeps DEF Block, SuspendSelf

\* BlockOn: the owner of the mutex may be raised first.
LEMMA BlockOnKeeps ==
  ASSUME KernelInv, MutexShape, NEW t \in Threads, Running(t), NEW m \in Mutexes, owner[m] \notin {t, None},
         NEW timed \in BOOLEAN, BlockOn(t, m, timed)
  PROVE  KernelInv'
  <1> DEFINE o == owner[m]
             p == priority[t]
  <1>0. /\ o \in Threads /\ o # t /\ p \in Priorities /\ priority \in [Threads -> Priorities]
        /\ priority' = IF p < priority[o] THEN [priority EXCEPT ![o] = p] ELSE priority
        /\ ready' = IF priority' # priority THEN RemoveReady(Requeued(ready, o, p), t) ELSE RemoveReady(ready, t)
        /\ ReadyIs(ready, stat, priority)
        /\ stat'[t] = "SUSPEND" /\ \A x \in Threads : x # t => stat'[x] = stat[x]
    BY DEF BlockOn, Raised, MutexShape, KernelInv, Shape, ThreadTypeOK, Queues
  <1> HIDE DEF o, p
  <1>1. priority' \in [Threads -> Priorities]
    BY <1>0
  <1>2. ReadyIs(ready', stat', priority')
    <2>1. CASE priority' = priority
      BY <1>0, <2>1, ReadyRemove
    <2>2. CASE priority' # priority
      <3>1. priority'[o] = p /\ \A x \in Threads : x # o => priority'[x] = priority[x]
        BY <1>0, <2>2
      <3>2. ReadyIs(Requeued(ready, o, p), stat, priority')
        BY <1>0, <3>1, ReadyRequeue
      <3> QED  BY <1>0, <2>2, <3>2, ReadyRemove
    <2> QED  BY <2>1, <2>2
  <1>3. m \in Objects
    BY DEF Objects
  <1> QED  BY <1>1, <1>2, <1>3, SuspendKeeps DEF BlockOn

\* Threads that wait for o are resumed; the priority of the caller may change.
LEMMA ResumeKeeps ==
  ASSUME KernelInv, NEW t \in Threads, Running(t), NEW o \in Objects, NEW W, W \subseteq For(stat, call, o),
         NEW queue, Holds(queue, W), NEW q, Holds(q, For(stat, call, o) \ W), NEW r,
         ReadyIs(r, stat, priority'), priority' \in [Threads -> Priorities], \A x \in W : priority'[x] = priority[x],
         Resume(queue, r, priority), suspended' = [suspended EXCEPT ![o] = q],
         leaving' = leaving \cup {t}, UNCHANGED <<rt_current_thread, base, object, flag, call>>,
         error' \in [Threads -> {"EOK", "ETIMEOUT", "ERROR"}], \A x \in Threads \ W : error'[x] = error[x]
  PROVE  KernelInv' /\ \A x \in Threads : stat'[x] = IF x \in W THEN "READY" ELSE stat[x]
  <1> USE DEF KernelInv
  <1>1. W = Members(queue) /\ W \subseteq Threads /\ \A x \in W : stat[x] = "SUSPEND"
    BY DEF Holds, For
  <1>2. /\ stat' \in [Threads -> {"READY", "SUSPEND"}] /\ timer' \in [Threads -> BOOLEAN]
        /\ \A x \in Threads : stat'[x] = IF x \in W THEN "READY" ELSE stat[x]
        /\ \A x \in Threads : timer'[x] = (timer[x] /\ x \notin W)
        /\ ready' = ResumedReady(r, queue, priority)
    BY <1>1 DEF Resume, Shape, ThreadTypeOK
  <1>3. ReadyIs(ready', stat', priority')
    <2>1. \A x \in W : stat[x] # "READY"
      BY <1>1
    <2> QED  BY <1>2, <2>1, ReadyResume
  <1>4. WaitIs(suspended', stat', call')
    <2>1. WaitIs(suspended, stat, call)
      BY DEF Queues
    <2>s. \A x \in Threads : stat'[x] = IF x \in W THEN "READY" ELSE stat[x]
      BY <1>2
    <2>h. W \subseteq For(stat, call, o) /\ Holds(q, For(stat, call, o) \ W) /\ o \in Objects
      OBVIOUS
    <2> HIDE DEF KernelInv
    <2>2. WaitIs([suspended EXCEPT ![o] = q], stat', call)
      BY ONLY <2>1, <2>s, <2>h, WaitLeave
    <2> QED  BY <2>2
  <1>5. Shape'
    <2>1. ready' \in [Priorities -> Seq(Threads)] /\ suspended' \in [Objects -> Seq(Threads)]
      BY <1>3, <1>4, ReadyIsTyped, WaitIsTyped
    <2> QED  BY <1>2, <2>1 DEF Shape, ThreadTypeOK
  <1>6. Waits'
    <2>1. rt_current_thread' \in leaving'
      BY RunnerIsReady
    <2> QED  BY <1>2, <2>1 DEF Waits
  <1> QED  BY <1>2, <1>3, <1>4, <1>5, <1>6 DEF Queues

\* Wake: the queue is a part of the list of o.
LEMMA WakeKeeps ==
  ASSUME KernelInv, NEW t \in Threads, Running(t), NEW o \in Objects, NEW W, W \subseteq For(stat, call, o),
         NEW queue, Holds(queue, W), Wake(t, queue, o),
         error' \in [Threads -> {"EOK", "ETIMEOUT", "ERROR"}], \A x \in Threads \ W : error'[x] = error[x]
  PROVE  KernelInv' /\ \A x \in Threads : stat'[x] = IF x \in W THEN "READY" ELSE stat[x]
  <1> DEFINE q == Among(suspended[o], Threads \ W)
  <1>1. W = Members(queue) /\ ReadyIs(ready, stat, priority) /\ WaitIs(suspended, stat, call)
        /\ priority \in [Threads -> Priorities]
    BY DEF Holds, KernelInv, Queues, Shape, ThreadTypeOK
  <1>2. Holds(q, For(stat, call, o) \ W)
    <2>1. Holds(q, For(stat, call, o) \cap (Threads \ W))
      BY <1>1, HoldsAmong DEF WaitIs
    <2>2. For(stat, call, o) \cap (Threads \ W) = For(stat, call, o) \ W
      BY DEF For
    <2> QED  BY <2>1, <2>2
  <1>3. /\ Resume(queue, ready, priority) /\ suspended' = [suspended EXCEPT ![o] = q] /\ priority' = priority
        /\ leaving' = leaving \cup {t} /\ UNCHANGED <<rt_current_thread, base, object, flag, call>>
    BY <1>1 DEF Wake
  <1> HIDE DEF q
  <1> QED  BY <1>1, <1>2, <1>3, ResumeKeeps

\* Who is not satisfied by some bits is not satisfied by fewer.
LEMMA LessSatisfiesLess ==
  ASSUME NEW s, NEW u, u \subseteq s, NEW wanted, NEW option, ~Satisfied(s, wanted, option)
  PROVE  ~Satisfied(u, wanted, option)
  BY DEF Satisfied


\* What rt_event_send has done when it comes to the end of the list of waiting threads:
\* it resumes some of them, each once, and the bits that are left satisfy none of the others.
LEMMA ScanResult ==
  ASSUME KernelInv, EventShape, NEW s, s \subseteq Bits
  PROVE  /\ Scan(s).set \subseteq Bits /\ Scan(s).took \in [Threads -> SUBSET Bits]
         /\ \E W : /\ W \subseteq For(stat, call, "event") /\ Holds(Scan(s).woken, W)
                   /\ \A x \in Threads \ W : Scan(s).took[x] = event_set[x]
                   /\ \A x \in For(stat, call, "event") \ W :
                        ~Satisfied(Scan(s).set, event_set[x], event_info[x])
  <1> DEFINE queue == suspended["event"]
             n == Len(queue)
             A == For(stat, call, "event")
             X == [set : SUBSET Bits, woken : Seq(Threads), took : [Threads -> SUBSET Bits]]
             Takes(i, b) == IF "AND" \in event_info[queue[i]] THEN event_set[queue[i]]
                                                             ELSE event_set[queue[i]] \cap b.set
             Fits(i, b) == Satisfied(b.set, event_set[queue[i]], event_info[queue[i]])
             After(i, b) == [set |-> IF "CLEAR" \in event_info[queue[i]] THEN b.set \ Takes(i, b) ELSE b.set,
                             woken |-> Append(b.woken, queue[i]),
                             took |-> [b.took EXCEPT ![queue[i]] = Takes(i, b)]]
             Go(i, b) == IF ~Fits(i, b) THEN b ELSE After(i, b)
             a == [set |-> s, woken |-> <<>>, took |-> event_set]
             F == CHOOSE f : f = [i \in 0..n |-> IF i = 0 THEN a ELSE Go(i, f[i - 1])]
             g == [i \in 1..n |-> [x \in X |-> Go(i, x)]]
  <1>0. Holds(queue, A) /\ queue \in Seq(Threads) /\ n \in Nat /\ \A i \in 1..n : queue[i] \in Threads
    <2>1. Holds(queue, A)
      BY DEF KernelInv, Queues, WaitIs, Objects
    <2> QED  BY <2>1 DEF Holds
  <1>1. Scan(s) = F[n]
    BY DEF Scan
  <1> HIDE DEF queue, n, A
  <1>2. \A i \in 1..n : \A b \in X :
          /\ After(i, b).set \subseteq b.set /\ After(i, b) \in X
          /\ After(i, b).woken = Append(b.woken, queue[i])
          /\ \A x \in Threads : x # queue[i] => After(i, b).took[x] = b.took[x]
    <2> SUFFICES ASSUME NEW i \in 1..n, NEW b \in X
                 PROVE  /\ After(i, b).set \subseteq b.set /\ After(i, b) \in X
                        /\ After(i, b).woken = Append(b.woken, queue[i])
                        /\ \A x \in Threads : x # queue[i] => After(i, b).took[x] = b.took[x]
      OBVIOUS
    <2>1. queue[i] \in Threads /\ Takes(i, b) \in SUBSET Bits
      BY <1>0 DEF EventShape
    <2> HIDE DEF Takes
    <2>2. b.set \in SUBSET Bits /\ b.woken \in Seq(Threads) /\ b.took \in [Threads -> SUBSET Bits]
      OBVIOUS
    <2>3. Append(b.woken, queue[i]) \in Seq(Threads) /\ [b.took EXCEPT ![queue[i]] = Takes(i, b)] \in [Threads -> SUBSET Bits]
      BY <2>1, <2>2
    <2> QED  BY <2>1, <2>2, <2>3
  <1> HIDE DEF After, Fits
  <1>3. F \in [0..n -> X] /\ F[0] = a /\ \A i \in 1..n : F[i] = Go(i, F[i - 1])
    <2>1. a \in X
      BY DEF EventShape
    <2>2. g \in [1..n -> [X -> X]]
      <3>1. \A i \in 1..n : \A x \in X : Go(i, x) \in X
        BY <1>2
      <3> HIDE DEF Go, X
      <3> QED  BY <3>1
    <2> HIDE DEF a, X
    <2>3. PICK f \in [0..n -> X] : Computes(f, n, a, g)
      <3> HIDE DEF g
      <3> QED  BY <1>0, <2>1, <2>2, Stepwise
    <2> HIDE DEF Go
    <2>4. f = [i \in 0..n |-> IF i = 0 THEN a ELSE Go(i, f[i - 1])]
      <3>1. ASSUME NEW i \in 0..n PROVE f[i] = IF i = 0 THEN a ELSE Go(i, f[i - 1])
        <4>1. CASE i = 0
          BY <2>3, <4>1 DEF Computes
        <4>2. CASE i # 0
          <5>1. i \in 1..n /\ i - 1 \in 0..n
            BY <1>0, <4>2
          <5>x. f[i - 1] \in X
            BY <5>1
          <5>2. f[i] = g[i][f[i - 1]]
            BY <2>3, <5>1 DEF Computes
          <5> QED  BY <4>2, <5>1, <5>x, <5>2
        <4> QED  BY <4>1, <4>2
      <3> QED  BY <3>1
    <2>5. F = [i \in 0..n |-> IF i = 0 THEN a ELSE Go(i, F[i - 1])]
      BY <2>4
    <2> HIDE DEF F
    <2>6. F[0] = a
      BY <1>0, <2>5
    <2>7. ASSUME NEW i \in 1..n PROVE F[i] = Go(i, F[i - 1])
      <3>1. i \in 0..n /\ i # 0
        BY <1>0
      <3> QED  BY <2>5, <3>1
    <2>8. \A i \in 0..n : F[i] \in X
      <3> DEFINE U == {j \in 0..n : F[j] \in X}
      <3>1. 0 \in U
        BY <1>0, <2>1, <2>6
      <3>2. ASSUME NEW i \in 1..n, i - 1 \in U PROVE i \in U
        <4>1. F[i - 1] \in X /\ i \in 0..n
          BY <1>0, <3>2
        <4>2. Go(i, F[i - 1]) \in X
          BY <1>2, <4>1 DEF Go, X
        <4> QED  BY <2>7, <4>1, <4>2
      <3>3. \A i \in 0..n : i \in U
        <4> HIDE DEF U
        <4> QED  BY <1>0, <3>1, <3>2, Climb
      <3> QED  BY <3>3
    <2> QED  BY <2>5, <2>6, <2>7, <2>8
  <1> HIDE DEF F, g
  <1> DEFINE P(i) == /\ Distinct(F[i].woken)
                     /\ \A x \in Members(F[i].woken) : \E j \in 1..i : x = queue[j]
                     /\ \A x \in Threads : x \notin Members(F[i].woken) => F[i].took[x] = event_set[x]
                     /\ \A j \in 1..i : queue[j] \notin Members(F[i].woken) =>
                          ~Satisfied(F[i].set, event_set[queue[j]], event_info[queue[j]])
             U == {i \in 0..n : P(i)}
  <1>4. 0 \in U
    <2>1. F[0].woken = <<>> /\ F[0].took = event_set
      BY <1>3
    <2>2. Distinct(<<>>) /\ Members(<<>>) = {}
      BY DEF Distinct, Members
    <2> QED  BY <1>0, <2>1, <2>2
  <1>5. ASSUME NEW i \in 1..n, i - 1 \in U PROVE i \in U
    <2> DEFINE b == F[i - 1]
    <2>0. P(i - 1) /\ i \in 0..n /\ b \in X /\ queue[i] \in Threads /\ F[i] = Go(i, b)
      <3> HIDE DEF P, X, Go
      <3>1. P(i - 1)
        BY <1>5
      <3>2. i - 1 \in 0..n /\ i \in 0..n
        BY <1>0
      <3>3. b \in X /\ queue[i] \in Threads /\ F[i] = Go(i, b)
        BY <1>0, <1>3, <3>2
      <3> QED  BY <3>1, <3>2, <3>3
    <2>n. /\ \A j \in 1..(i - 1) : j \in 1..i /\ j # i
          /\ \A j \in 1..i : j = i \/ j \in 1..(i - 1)
      BY <1>0
    <2>1. CASE ~Fits(i, b)
      <3>1. F[i] = b
        BY <2>0, <2>1
      <3>2. ~Satisfied(F[i].set, event_set[queue[i]], event_info[queue[i]])
        BY <2>1, <3>1 DEF Fits
      <3>3. P(i)
        BY <2>0, <2>n, <3>1, <3>2
      <3> HIDE DEF P
      <3> QED  BY <2>0, <3>3
    <2>2. CASE Fits(i, b)
      <3> HIDE DEF b
      <3>1. F[i] = After(i, b)
        BY <2>0, <2>2
      <3>2. /\ F[i].set \subseteq b.set /\ F[i].woken = Append(b.woken, queue[i])
            /\ \A x \in Threads : x # queue[i] => F[i].took[x] = b.took[x]
        BY <1>2, <2>0, <3>1
      <3>3. b.woken \in Seq(Threads)
        BY <2>0
      <3>4. /\ Distinct(b.woken)
            /\ \A x \in Members(b.woken) : \E j \in 1..(i - 1) : x = queue[j]
            /\ \A x \in Threads : x \notin Members(b.woken) => b.took[x] = event_set[x]
            /\ \A j \in 1..(i - 1) : queue[j] \notin Members(b.woken) =>
                          ~Satisfied(b.set, event_set[queue[j]], event_info[queue[j]])
        BY <2>0 DEF b
      <3>5. \A j \in 1..(i - 1) : queue[j] # queue[i]
        <4>1. \A j, k \in 1..n : queue[j] = queue[k] => j = k
          BY <1>0 DEF Holds, Distinct, n
        <4>2. \A j \in 1..(i - 1) : j \in 1..n /\ j # i
          BY <1>0
        <4> QED  BY <4>1, <4>2
      <3>6. Holds(F[i].woken, Members(b.woken) \cup {queue[i]})
        <4>1. Holds(b.woken, Members(b.woken)) /\ queue[i] \notin Members(b.woken)
          BY <3>3, <3>4, <3>5 DEF Holds
        <4>2. queue[i] \in Threads
          BY <2>0
        <4>3. Holds(Append(b.woken, queue[i]), Members(b.woken) \cup {queue[i]})
          BY <4>1, <4>2, HoldsAppend
        <4> QED  BY <3>2, <4>3
      <3>7. Distinct(F[i].woken) /\ Members(F[i].woken) = Members(b.woken) \cup {queue[i]}
        BY <3>6 DEF Holds
      <3>8. ASSUME NEW x \in Members(F[i].woken) PROVE \E j \in 1..i : x = queue[j]
        BY <2>n, <3>4, <3>7
      <3>9. ASSUME NEW x \in Threads, x \notin Members(F[i].woken) PROVE F[i].took[x] = event_set[x]
        BY <3>2, <3>4, <3>7, <3>9
      <3>10. ASSUME NEW j \in 1..i, queue[j] \notin Members(F[i].woken)
             PROVE  ~Satisfied(F[i].set, event_set[queue[j]], event_info[queue[j]])
        <4>1. j \in 1..(i - 1) /\ queue[j] \notin Members(b.woken)
          BY <2>n, <3>7, <3>10
        <4>2. ~Satisfied(b.set, event_set[queue[j]], event_info[queue[j]])
          BY <3>4, <4>1
        <4> QED  BY <3>2, <4>2, LessSatisfiesLess
      <3>11. P(i)
        BY <3>7, <3>8, <3>9, <3>10
      <3> HIDE DEF P
      <3> QED  BY <2>0, <3>11
    <2> QED  BY <2>1, <2>2
  <1>6. P(n)
    <2> HIDE DEF P
    <2>1. \A i \in 0..n : i \in U
      <3> HIDE DEF U
      <3> QED  BY <1>0, <1>4, <1>5, Climb
    <2> QED  BY <1>0, <2>1
  <1> DEFINE W == Members(F[n].woken)
  <1>7. F[n] \in X
    BY <1>0, <1>3
  <1>8. W \subseteq A
    BY <1>0, <1>6 DEF Holds, Members, n
  <1>9. Holds(F[n].woken, W)
    BY <1>6, <1>7 DEF Holds
  <1>10. ASSUME NEW x \in A \ W PROVE ~Satisfied(F[n].set, event_set[x], event_info[x])
    <2>1. PICK j \in 1..n : x = queue[j]
      BY <1>0 DEF Holds, Members, n
    <2> QED  BY <1>6, <1>10, <2>1
  <1>11. \A x \in Threads \ W : F[n].took[x] = event_set[x]
    BY <1>6
  <1>12. F[n].set \subseteq Bits /\ F[n].took \in [Threads -> SUBSET Bits]
    BY <1>7
  <1> HIDE DEF W
  <1> QED  BY <1>1, <1>8, <1>9, <1>10, <1>11, <1>12 DEF A
------------------------------------------------------------------------------
(* KernelInv: one lemma for each operation of an object. *)

\* What a step leaves alone in the threads inside a call on o.
Same(o) ==
  \A x \in Threads : /\ call'[x] = o <=> call[x] = o
                     /\ call[x] = o => stat'[x] = stat[x] /\ error'[x] = error[x]

\* Waking threads that wait for o does not touch the ones inside another call.
LEMMA WakeSame ==
  ASSUME NEW o, NEW W, W \subseteq For(stat, call, o), UNCHANGED call,
         \A x \in Threads : stat'[x] = IF x \in W THEN "READY" ELSE stat[x],
         \A x \in Threads \ W : error'[x] = error[x],
         NEW p, p # o
  PROVE  Same(p)
  BY DEF Same, For

\* Nor does a caller that begins to wait for o.
LEMMA SuspendSame ==
  ASSUME KernelInv, NEW t \in Threads, call[t] = "none", NEW o,
         stat' = [stat EXCEPT ![t] = "SUSPEND"],
         error' = [error EXCEPT ![t] = "EOK"],
         call' = [call EXCEPT ![t] = o],
         NEW p, p # o, p # "none"
  PROVE  Same(p)
  BY DEF Same, KernelInv, Shape, ThreadTypeOK

\* A step that leaves the threads and the lists alone.
LEMMA KernelSame ==
  ASSUME KernelInv, UNCHANGED <<threadVars, object, flag, call, suspended>>
  PROVE  KernelInv' /\ \A o : Same(o)
  BY DEF KernelInv, Shape, ThreadTypeOK, Queues, Waits, threadVars, Same

\* rt_sem_release hands the token to the first waiting thread.
LEMMA HeadWakes ==
  ASSUME KernelInv, NEW t \in Threads, Running(t), NEW o \in Objects, suspended[o] # <<>>,
         Wake(t, <<Head(suspended[o])>>, o), UNCHANGED error
  PROVE  LET w == Head(suspended[o])
         IN  /\ KernelInv' /\ w \in For(stat, call, o)
             /\ \A x \in Threads : stat'[x] = IF x = w THEN "READY" ELSE stat[x]
             /\ \A p : p # o => Same(p)
  <1> DEFINE w == Head(suspended[o])
  <1>1. w \in For(stat, call, o) /\ w \in Threads
    <2>1. Holds(suspended[o], For(stat, call, o))
      BY DEF KernelInv, Queues, WaitIs
    <2> QED  BY <2>1, HoldsTail DEF For
  <1> HIDE DEF w
  <1>2. Wake(t, <<w>>, o)
    BY DEF w
  <1>3. Holds(<<w>>, {w}) /\ {w} \subseteq For(stat, call, o)
    BY <1>1, HoldsOne
  <1>4. error' \in [Threads -> {"EOK", "ETIMEOUT", "ERROR"}] /\ \A x \in Threads \ {w} : error'[x] = error[x]
    BY DEF KernelInv, Shape, ThreadTypeOK
  <1>5. KernelInv' /\ \A x \in Threads : stat'[x] = IF x \in {w} THEN "READY" ELSE stat[x]
    BY <1>2, <1>3, <1>4, WakeKeeps
  <1>6. \A p : p # o => Same(p)
    <2>1. UNCHANGED call
      BY DEF Wake
    <2> QED  BY <1>3, <1>4, <1>5, <2>1, WakeSame
  <1> QED  BY <1>1, <1>5, <1>6 DEF w

\* rt_ipc_list_resume_all empties the list, and every waiting thread gets an error.
LEMMA RefuseKeeps ==
  ASSUME KernelInv, NEW t \in Threads, Running(t), NEW o \in Objects, Refuse(t, o)
  PROVE  /\ KernelInv' /\ suspended'[o] = <<>>
         /\ \A x \in Threads : IF x \in For(stat, call, o) THEN stat'[x] = "READY" /\ error'[x] = "ERROR"
                                                          ELSE stat'[x] = stat[x] /\ error'[x] = error[x]
         /\ UNCHANGED call /\ \A p : p # o => Same(p)
  <1> DEFINE W == For(stat, call, o)
  <1>1. Holds(suspended[o], W) /\ W = Members(suspended[o]) /\ W \subseteq Threads
    BY DEF KernelInv, Queues, WaitIs, Holds, For
  <1>2. Wake(t, suspended[o], o) /\ error' = [x \in Threads |-> IF x \in W THEN "ERROR" ELSE error[x]]
    BY <1>1 DEF Refuse
  <1>3. error' \in [Threads -> {"EOK", "ETIMEOUT", "ERROR"}] /\ \A x \in Threads \ W : error'[x] = error[x]
    BY <1>2 DEF KernelInv, Shape, ThreadTypeOK
  <1>4. KernelInv' /\ \A x \in Threads : stat'[x] = IF x \in W THEN "READY" ELSE stat[x]
    <2> HIDE DEF W
    <2>1. W \subseteq For(stat, call, o)
      BY DEF W
    <2> QED  BY <1>1, <1>2, <1>3, <2>1, WakeKeeps
  <1>5. UNCHANGED call
    BY <1>2 DEF Wake
  <1>6. suspended'[o] = <<>>
    <2>1. Holds(suspended'[o], For(stat', call', o))
      BY <1>4 DEF KernelInv, Queues, WaitIs
    <2>2. For(stat', call', o) = {}
      BY <1>4, <1>5 DEF For
    <2> QED  BY <2>1, <2>2, HoldsNone
  <1>7. \A p : p # o => Same(p)
    BY <1>3, <1>4, <1>5, WakeSame
  <1> QED  BY <1>2, <1>3, <1>4, <1>5, <1>6, <1>7

\* rt_event_send.
LEMMA SendKeeps ==
  ASSUME KernelInv, EventShape, NEW t \in Threads, rt_event_send(t)
  PROVE  /\ KernelInv' /\ UNCHANGED call /\ \A p : p # "event" => Same(p)
         /\ \A x \in For(stat', call', "event") : ~Satisfied(set', event_set'[x], event_info'[x])
         /\ EventShape'
         /\ rt_current_thread' \in leaving' \/ UNCHANGED <<rt_current_thread, stat, priority, leaving>>
  <1>0. Running(t) /\ UNCHANGED <<error, event_info>> /\ "event" \in Objects
    BY DEF rt_event_send, Free, Objects
  <1>1. PICK s : /\ s \subseteq Bits /\ set' = Scan(s).set /\ event_set' = Scan(s).took
                 /\ ResumeAll(t, Scan(s).woken)
    BY DEF rt_event_send, ResumeWaiters, EventShape
  <1> DEFINE A == For(stat, call, "event")
  <1>2. /\ set' \subseteq Bits /\ event_set' \in [Threads -> SUBSET Bits]
        /\ \E W : /\ W \subseteq A /\ Holds(Scan(s).woken, W)
                  /\ \A x \in Threads \ W : event_set'[x] = event_set[x]
                  /\ \A x \in A \ W : ~Satisfied(set', event_set[x], event_info[x])
    BY <1>1, ScanResult
  <1>3. PICK W : /\ W \subseteq A /\ Holds(Scan(s).woken, W)
                 /\ \A x \in Threads \ W : event_set'[x] = event_set[x]
                 /\ \A x \in A \ W : ~Satisfied(set', event_set[x], event_info[x])
    BY <1>2
  <1> HIDE DEF A
  <1>4. /\ KernelInv' /\ UNCHANGED call /\ \A x \in Threads : stat'[x] = IF x \in W THEN "READY" ELSE stat[x]
        /\ rt_current_thread' \in leaving' \/ UNCHANGED <<rt_current_thread, stat, priority, leaving>>
    <2>1. CASE Scan(s).woken = <<>>
      <3>1. W = {} /\ UNCHANGED <<threadVars, object, flag, call, suspended>>
        BY <1>0, <1>1, <1>3, <2>1, HoldsNone DEF ResumeAll, threadVars
      <3> QED  BY <3>1, KernelSame DEF threadVars
    <2>2. CASE Scan(s).woken # <<>>
      <3>1. Wake(t, Scan(s).woken, "event")
        BY <1>1, <2>2 DEF ResumeAll
      <3>2. error' \in [Threads -> {"EOK", "ETIMEOUT", "ERROR"}] /\ \A x \in Threads \ W : error'[x] = error[x]
        BY <1>0 DEF KernelInv, Shape, ThreadTypeOK
      <3>3. W \subseteq For(stat, call, "event")
        BY <1>3 DEF A
      <3>4. KernelInv' /\ \A x \in Threads : stat'[x] = IF x \in W THEN "READY" ELSE stat[x]
        BY <1>0, <1>3, <3>1, <3>2, <3>3, WakeKeeps
      <3> QED  BY <1>0, <3>1, <3>4, RunnerIsReady DEF Wake
    <2> QED  BY <2>1, <2>2
  <1>5. ASSUME NEW x \in For(stat', call', "event") PROVE ~Satisfied(set', event_set'[x], event_info'[x])
    <2>1. x \in A \ W /\ x \in Threads
      BY <1>4 DEF For, A
    <2> QED  BY <1>0, <1>3, <2>1
  <1>6. \A p : p # "event" => Same(p)
    <2>1. W \subseteq For(stat, call, "event") /\ \A x \in Threads \ W : error'[x] = error[x]
      BY <1>0, <1>3 DEF A
    <2> QED  BY <1>4, <2>1, WakeSame
  <1>7. EventShape'
    BY <1>0, <1>2 DEF EventShape
  <1> QED  BY <1>4, <1>5, <1>6, <1>7

\* Return: a thread leaves the call it was blocked in.
LEMMA ReturnKeeps ==
  ASSUME KernelInv, NEW t \in Threads, Return(t)
  PROVE  KernelInv' /\ stat[t] = "READY" /\ \A p : p # "none" /\ p # call[t] => Same(p)
  <1>1. /\ UNCHANGED <<rt_current_thread, ready, stat, priority, timer, leaving, base, object, flag, suspended>>
        /\ call' = [call EXCEPT ![t] = "none"] /\ error' = [error EXCEPT ![t] = "EOK"] /\ Running(t)
    BY DEF Return
  <1>2. stat[t] = "READY"
    BY <1>1, RunnerIsReady
  <1>3. /\ call' \in [Threads -> Objects \cup {"none"}] /\ call'[t] = "none"
        /\ error' \in [Threads -> {"EOK", "ETIMEOUT", "ERROR"}]
        /\ \A x \in Threads : x # t => call'[x] = call[x] /\ error'[x] = error[x]
    BY <1>1 DEF KernelInv, Shape, ThreadTypeOK
  <1>4. Shape'
    BY <1>1, <1>3 DEF KernelInv, Shape, ThreadTypeOK
  <1>5. Queues'
    <2>1. \A o \in Objects : For(stat', call', o) = For(stat, call, o)
      BY <1>1, <1>2, <1>3 DEF For
    <2> QED  BY <1>1, <2>1 DEF KernelInv, Queues, WaitIs
  <1>6. Waits'
    BY <1>1, <1>2, <1>3 DEF KernelInv, Waits
  <1> QED  BY <1>1, <1>2, <1>3, <1>4, <1>5, <1>6 DEF KernelInv, Same

\* Expire: a wait ends in the tick interrupt, which also chooses who runs.
LEMMA ExpireKeeps ==
  ASSUME KernelInv, NEW t \in Threads, Expire(t)
  PROVE  /\ KernelInv' /\ Chosen(rt_current_thread', stat', priority')
         /\ stat[t] = "SUSPEND" /\ stat'[t] = "READY" /\ error'[t] = "ETIMEOUT"
         /\ \A x \in Threads : x # t => stat'[x] = stat[x] /\ error'[x] = error[x]
         /\ \A p : p # call[t] => Same(p)
  <1>1. /\ timer[t] /\ timer' = [timer EXCEPT ![t] = FALSE] /\ error' = [error EXCEPT ![t] = "ETIMEOUT"]
        /\ stat' = [stat EXCEPT ![t] = "READY"] /\ ready' = InsertReady(ready, t, priority[t])
        /\ rt_current_thread' = Highest(ready') /\ suspended' = [o \in Objects |-> Without(suspended[o], t)]
        /\ UNCHANGED <<priority, leaving, base, object, flag, call>>
    BY DEF Expire, Timeout
  <1>2. stat[t] = "SUSPEND"
    BY <1>1 DEF KernelInv, Waits
  <1>3. /\ stat' \in [Threads -> {"READY", "SUSPEND"}] /\ stat'[t] = "READY"
        /\ error' \in [Threads -> {"EOK", "ETIMEOUT", "ERROR"}] /\ error'[t] = "ETIMEOUT"
        /\ timer' \in [Threads -> BOOLEAN] /\ ~timer'[t]
        /\ \A x \in Threads : x # t => stat'[x] = stat[x] /\ error'[x] = error[x] /\ timer'[x] = timer[x]
    BY <1>1 DEF KernelInv, Shape, ThreadTypeOK
  <1>4. priority \in [Threads -> Priorities] /\ priority[t] \in Priorities
    BY DEF KernelInv, Shape, ThreadTypeOK
  <1>5. ReadyIs(ready', stat', priority')
    <2>1. ReadyIs(ready, stat, priority) /\ stat[t] # "READY"
      BY <1>2 DEF KernelInv, Queues
    <2>2. \A x \in Threads : x # t => stat'[x] = stat[x]
      BY <1>3
    <2>3. ReadyIs(InsertReady(ready, t, priority[t]), stat', priority)
      BY <1>3, <1>4, <2>1, <2>2, ReadyInsert
    <2> QED  BY <1>1, <2>3
  <1>6. Chosen(rt_current_thread', stat', priority')
    BY <1>1, <1>4, <1>5, HighestIsChosen
  <1>7. WaitIs(suspended', stat', call')
    <2>1. ASSUME NEW o \in Objects PROVE Holds(suspended'[o], For(stat', call', o))
      <3>1. Holds(suspended[o], For(stat, call, o)) /\ suspended'[o] = Without(suspended[o], t)
        BY <1>1 DEF KernelInv, Queues, WaitIs
      <3>2. For(stat, call, o) \ {t} = For(stat', call', o)
        BY <1>1, <1>3 DEF For
      <3> QED  BY <3>1, <3>2, HoldsWithout
    <2> QED  BY <1>1, <2>1 DEF WaitIs
  <1>8. Shape'
    <2>1. ready' \in [Priorities -> Seq(Threads)] /\ suspended' \in [Objects -> Seq(Threads)]
      BY <1>5, <1>7, ReadyIsTyped, WaitIsTyped
    <2> QED  BY <1>1, <1>3, <1>6, <2>1 DEF KernelInv, Shape, ThreadTypeOK, Chosen
  <1>9. Waits'
    <2>1. rt_current_thread' \in Threads => stat'[rt_current_thread'] = "READY"
      BY <1>6, ThreadAssumption DEF Chosen
    <2> QED  BY <1>1, <1>3, <2>1 DEF KernelInv, Waits
  <1>10. \A p : p # call[t] => Same(p)
    BY <1>1, <1>3 DEF Same
  <1> QED  BY <1>2, <1>3, <1>5, <1>6, <1>7, <1>8, <1>9, <1>10 DEF KernelInv, Queues

\* The last release of a mutex: the priority goes back, and the first waiting thread, if
\* there is one, is made ready.
LEMMA HandOverKeeps ==
  ASSUME KernelInv, NEW t \in Threads, Running(t), NEW m \in Mutexes, original_priority[m] \in Priorities,
         priority' = Restored(t, m), HandOver(t, m), UNCHANGED <<rt_current_thread, error, base, object, flag, call>>
  PROVE  /\ KernelInv'
         /\ suspended[m] = <<>> => UNCHANGED <<stat, suspended>>
         /\ suspended[m] # <<>> =>
              /\ Head(suspended[m]) \in For(stat, call, m)
              /\ \A x \in Threads : stat'[x] = IF x = Head(suspended[m]) THEN "READY" ELSE stat[x]
         /\ \A p : p # m => Same(p)
  <1> DEFINE r == IF priority' # priority THEN Requeued(ready, t, priority'[t]) ELSE ready
             w == Head(suspended[m])
             A == For(stat, call, m)
  <1>0. /\ priority \in [Threads -> Priorities] /\ priority' \in [Threads -> Priorities]
        /\ \A x \in Threads : x # t => priority'[x] = priority[x]
        /\ stat[t] = "READY" /\ m \in Objects /\ t = rt_current_thread
        /\ error' \in [Threads -> {"EOK", "ETIMEOUT", "ERROR"}]
    BY RunnerIsReady DEF KernelInv, Shape, ThreadTypeOK, Restored, Objects
  <1>1. ReadyIs(r, stat, priority')
    <2>1. ReadyIs(ready, stat, priority)
      BY DEF KernelInv, Queues
    <2>2. CASE priority' = priority
      BY <2>1, <2>2
    <2>3. CASE priority' # priority
      <3>1. ReadyIs(Requeued(ready, t, priority'[t]), stat, priority')
        <4>1. priority'[t] \in Priorities
          BY <1>0
        <4> QED  BY <1>0, <2>1, <4>1, ReadyRequeue
      <3> QED  BY <2>3, <3>1
    <2> QED  BY <2>2, <2>3
  <1>2. Holds(suspended[m], A)
    BY <1>0 DEF KernelInv, Queues, WaitIs
  <1>3. CASE suspended[m] = <<>>
    <2>1. ready' = r /\ UNCHANGED <<stat, timer, suspended, leaving>>
      BY <1>3 DEF HandOver
    <2> HIDE DEF r
    <2>2. ready' \in [Priorities -> Seq(Threads)]
      BY <1>1, <2>1, ReadyIsTyped
    <2>3. Shape'
      BY <1>0, <2>1, <2>2 DEF KernelInv, Shape, ThreadTypeOK
    <2>4. Queues' /\ Waits'
      BY <1>1, <2>1 DEF KernelInv, Queues, Waits
    <2>5. \A p : Same(p)
      BY <2>1 DEF Same
    <2> QED  BY <1>3, <2>1, <2>3, <2>4, <2>5 DEF KernelInv
  <1>4. CASE suspended[m] # <<>>
    <2>1. Resume(<<w>>, r, priority) /\ suspended' = [suspended EXCEPT ![m] = Tail(@)] /\ leaving' = leaving \cup {t}
      BY <1>4 DEF HandOver
    <2>2. w \in A /\ Holds(Tail(suspended[m]), A \ {w})
      BY <1>2, <1>4, HoldsTail
    <2>3. w \in Threads /\ w # t /\ A = For(stat, call, m)
      BY <1>0, <2>2 DEF For
    <2> HIDE DEF w, r, A
    <2>4. Holds(<<w>>, {w}) /\ \A x \in {w} : priority'[x] = priority[x]
      BY <1>0, <2>3, HoldsOne
    <2>5. Holds(Tail(suspended[m]), For(stat, call, m) \ {w}) /\ {w} \subseteq For(stat, call, m)
      BY <2>2, <2>3
    <2>6. suspended' = [suspended EXCEPT ![m] = Tail(suspended[m])] /\ \A x \in Threads \ {w} : error'[x] = error[x]
      BY <1>0, <2>1 DEF KernelInv, Shape
    <2>7. KernelInv' /\ \A x \in Threads : stat'[x] = IF x \in {w} THEN "READY" ELSE stat[x]
      <3>1. KernelInv /\ t \in Threads /\ Running(t) /\ m \in Objects
        BY <1>0
      <3>2. priority' \in [Threads -> Priorities] /\ error' \in [Threads -> {"EOK", "ETIMEOUT", "ERROR"}]
        BY <1>0
      <3>3. UNCHANGED <<rt_current_thread, base, object, flag, call>>
        OBVIOUS
      <3> DEFINE W == {w}
                 queue == <<w>>
                 q == Tail(suspended[m])
      <3>4. /\ W \subseteq For(stat, call, m) /\ Holds(queue, W) /\ Holds(q, For(stat, call, m) \ W)
            /\ \A x \in W : priority'[x] = priority[x]
            /\ \A x \in Threads \ W : error'[x] = error[x]
        BY <2>4, <2>5, <2>6
      <3>5. Resume(queue, r, priority) /\ suspended' = [suspended EXCEPT ![m] = q] /\ leaving' = leaving \cup {t}
        BY <2>1, <2>6
      <3> HIDE DEF W, queue, q
      <3>6. KernelInv' /\ \A x \in Threads : stat'[x] = IF x \in W THEN "READY" ELSE stat[x]
        BY ONLY <1>1, <3>1, <3>2, <3>3, <3>4, <3>5, ResumeKeeps
      <3> QED  BY <3>6 DEF W
    <2>8. \A p : p # m => Same(p)
      BY <2>5, <2>6, <2>7, WakeSame
    <2> QED  BY <1>4, <2>2, <2>3, <2>7, <2>8 DEF w
  <1> QED  BY <1>3, <1>4

\* A list as long as it has members holds each of them once.
LEMMA AllDifferent ==
  ASSUME NEW q \in Seq(Threads), Cardinality(Members(q)) = Len(q)
  PROVE  Distinct(q)
  <1> DEFINE S == 1..Len(q)
             T == Members(q)
  <1>1. IsFiniteSet(S) /\ Cardinality(S) = Len(q)
    <2>1. Len(q) \in Nat
      OBVIOUS
    <2> DEFINE n == Len(q)
    <2> HIDE DEF n
    <2>2. n \in Nat /\ n \in Int /\ 1 \in Int
      BY <2>1 DEF n
    <2>3. IsFiniteSet(1..n) /\ Cardinality(1..n) = IF 1 > n THEN 0 ELSE n - 1 + 1
      BY ONLY <2>2, FS_Interval, Zenon
    <2>4. Cardinality(1..n) = n
      BY <2>2, <2>3
    <2> QED  BY <2>3, <2>4 DEF n
  <1>2. q \in [S -> T] /\ \A y \in T : \E x \in S : q[x] = y
    <2>1. DOMAIN q = S /\ q = [i \in S |-> q[i]]
      OBVIOUS
    <2>2. \A i \in S : q[i] \in T
      BY DEF Members
    <2>3. \A y \in T : \E x \in S : q[x] = y
      BY DEF Members
    <2> HIDE DEF S, T
    <2> QED  BY <2>1, <2>2, <2>3
  <1>3. q \in Surjection(S, T)
    BY <1>2 DEF Surjection
  <1>4. q \in Injection(S, T)
    <2> HIDE DEF S, T
    <2>1. Cardinality(S) = Cardinality(T)
      BY <1>1 DEF T
    <2> QED  BY <1>1, <1>3, <2>1, FS_SurjSameCardinalityImpliesInj
  <1> QED  BY <1>4 DEF Injection, IsInjective, Distinct

\* All threads are started and none is inside a call.
LEMMA KernelInit ==
  ASSUME Init
  PROVE  KernelInv /\ MostUrgentRunsUnlocked
  <1>0. /\ base \in [Threads -> Priorities] /\ priority = base /\ rt_current_thread = Highest(ready)
        /\ stat = [t \in Threads |-> "READY"] /\ timer = [t \in Threads |-> FALSE]
        /\ error = [t \in Threads |-> "EOK"] /\ leaving = {}
        /\ object \in Kinds /\ flag \in {"FIFO", "PRIO"}
        /\ call = [t \in Threads |-> "none"] /\ suspended = [o \in Objects |-> <<>>]
    BY DEF Init, ThreadInit
  <1>1. ReadyIs(ready, stat, priority)
    <2>1. ready = [p \in Priorities |-> ready[p]]
      BY DEF Init, ThreadInit
    <2>2. ASSUME NEW p \in Priorities PROVE Holds(ready[p], At(stat, priority, p))
      <3>1. ready[p] \in Seq(Threads) /\ Cardinality(Members(ready[p])) = Len(ready[p])
        <4>0. ready[p] \in UNION {[1..n -> Threads] : n \in 0..Cardinality(Threads)}
          BY DEF Init, ThreadInit
        <4>1. PICK n \in 0..Cardinality(Threads) : ready[p] \in [1..n -> Threads]
          BY <4>0
        <4>2. n \in Nat
          BY <4>1, ThreadAssumption, FS_CardinalityType
        <4>3. Cardinality(Members(ready[p])) = Len(ready[p])
          BY DEF Init, ThreadInit
        <4> QED  BY <4>1, <4>2, <4>3
      <3>2. Members(ready[p]) = At(stat, priority, p)
        <4>1. Members(ready[p]) = {t \in Threads : base[t] = p}
          BY DEF Init, ThreadInit
        <4> QED  BY <1>0, <4>1 DEF At
      <3> QED  BY <3>1, <3>2, AllDifferent DEF Holds
    <2> QED  BY <2>1, <2>2 DEF ReadyIs
  <1>2. WaitIs(suspended, stat, call)
    <2>1. ASSUME NEW o \in Objects PROVE Holds(suspended[o], For(stat, call, o))
      <3>1. suspended[o] = <<>> /\ For(stat, call, o) = {}
        BY <1>0 DEF For
      <3> QED  BY <3>1, HoldsNone
    <2> QED  BY <1>0, <2>1 DEF WaitIs
  <1>3. Chosen(rt_current_thread, stat, priority)
    BY <1>0, <1>1, HighestIsChosen
  <1>4. Shape
    <2>1. ready \in [Priorities -> Seq(Threads)] /\ suspended \in [Objects -> Seq(Threads)]
      BY <1>1, <1>2, ReadyIsTyped, WaitIsTyped
    <2> QED  BY <1>0, <1>3, <2>1 DEF Shape, ThreadTypeOK, Chosen
  <1>5. Waits
    BY <1>0 DEF Waits
  <1>6. MostUrgentRuns
    BY <1>3, ThreadAssumption DEF MostUrgentRuns, Chosen
  <1> QED  BY <1>1, <1>2, <1>4, <1>5, <1>6 DEF KernelInv, Queues, MostUrgentRunsUnlocked
------------------------------------------------------------------------------
(* The objects: what a step may do to the invariant of an object, read from the threads. *)

\* A list is empty when nobody waits.
LEMMA NobodyWaits ==
  ASSUME KernelInv, NEW o \in Objects
  PROVE  suspended[o] = <<>> <=> For(stat, call, o) = {}
  BY HoldsNone DEF KernelInv, Queues, WaitIs

\* NoLostEvent, said of the threads that wait.
LEMMA NoLostEventByThread ==
  ASSUME KernelInv
  PROVE  NoLostEvent <=> \A x \in For(stat, call, "event") : ~Satisfied(set, event_set[x], event_info[x])
  <1>1. Holds(suspended["event"], For(stat, call, "event"))
    BY DEF KernelInv, Queues, WaitIs, Objects
  <1>2. For(stat, call, "event") = {suspended["event"][i] : i \in 1..Len(suspended["event"])}
    BY <1>1 DEF Holds, Members
  <1> QED  BY <1>2 DEF NoLostEvent

\* Tokens, when the step is not about the semaphore.
LEMMA SemSame ==
  ASSUME KernelInv, KernelInv', SemInv, Same("sem"), UNCHANGED semVars
  PROVE  SemInv'
  <1>1. Handed' = Handed
    BY DEF Handed, Same
  <1>2. For(stat', call', "sem") = For(stat, call, "sem")
    BY DEF For, Same
  <1>3. suspended["sem"] = <<>> => suspended'["sem"] = <<>>
    <2>1. Holds(suspended["sem"], For(stat, call, "sem")) /\ Holds(suspended'["sem"], For(stat', call', "sem"))
      BY DEF KernelInv, Queues, WaitIs, Objects
    <2> QED  BY <1>2, <2>1, HoldsNone
  <1> QED  BY <1>1, <1>3 DEF SemInv, TokensKept, semVars

\* The mutexes, when the step is not about them.
LEMMA MutexSame ==
  ASSUME KernelInv, KernelInv', MutexInv, \A m \in Mutexes : Same(m), UNCHANGED mutexVars
  PROVE  MutexInv'
  <1>0. UNCHANGED <<owner, hold, original_priority, got>>
    BY DEF mutexVars
  <1>1. MutexShape'
    BY <1>0 DEF MutexInv, MutexShape
  <1>2. ASSUME NEW m \in Mutexes PROVE suspended[m] = <<>> => suspended'[m] = <<>>
    <2>1. For(stat', call', m) = For(stat, call, m)
      BY DEF For, Same
    <2>2. Holds(suspended[m], For(stat, call, m)) /\ Holds(suspended'[m], For(stat', call', m))
      BY DEF KernelInv, Queues, WaitIs, Objects
    <2> QED  BY <2>1, <2>2, HoldsNone
  <1>3. OneHolder'
    <2>1. ASSUME NEW m \in Mutexes, owner[m] # None PROVE call'[owner[m]] = m <=> call[owner[m]] = m
      BY <2>1 DEF MutexInv, MutexShape, Same
    <2> QED  BY <1>0, <1>2, <2>1 DEF MutexInv, OneHolder
  <1>4. Granted'
    BY <1>0 DEF MutexInv, Granted, Same
  <1> QED  BY <1>1, <1>3, <1>4 DEF MutexInv

\* The event, when no thread begins to wait for it and its bits stay as they are.
LEMMA EventSame ==
  ASSUME KernelInv, KernelInv', EventInv, UNCHANGED eventVars,
         For(stat', call', "event") \subseteq For(stat, call, "event")
  PROVE  EventInv'
  <1>0. UNCHANGED <<set, event_set, event_info>>
    BY DEF eventVars
  <1>1. EventShape'
    BY <1>0 DEF EventInv, EventShape
  <1>2. \A x \in For(stat', call', "event") : ~Satisfied(set', event_set'[x], event_info'[x])
    BY <1>0, NoLostEventByThread DEF EventInv
  <1>3. NoLostEvent'
    <2>1. Holds(suspended'["event"], For(stat', call', "event"))
      BY DEF KernelInv, Queues, WaitIs, Objects
    <2>2. \A i \in 1..Len(suspended'["event"]) : suspended'["event"][i] \in For(stat', call', "event")
      BY <2>1 DEF Holds, Members
    <2> QED  BY <1>2, <2>2 DEF NoLostEvent
  <1> QED  BY <1>1, <1>3 DEF EventInv

\* A caller on its way to rt_schedule, and a thread rt_schedule has chosen, are right.
LEMMA LeavingRuns ==
  ASSUME rt_current_thread' \in leaving' \/ Chosen(rt_current_thread', stat', priority')
  PROVE  MostUrgentRunsUnlocked'
  BY ThreadAssumption DEF MostUrgentRunsUnlocked, MostUrgentRuns, Chosen

\* Where no thread's state moves the same thread is still the most urgent one.
LEMMA SameRuns ==
  ASSUME MostUrgentRunsUnlocked, UNCHANGED <<rt_current_thread, stat, priority, leaving, object>>
  PROVE  MostUrgentRunsUnlocked'
  BY DEF MostUrgentRunsUnlocked, MostUrgentRuns

\* Names of the kinds are no names of mutexes.
LEMMA NamesDiffer ==
  /\ "sem" \in Objects /\ "event" \in Objects /\ "sleep" \in Objects /\ Mutexes \subseteq Objects
  /\ \A o \in Objects : o # "none"
  /\ \A m \in Mutexes : m # "sem" /\ m # "event" /\ m # "sleep" /\ m # "none"
  BY IpcAssumption DEF Objects

\* An object nothing happens to has the same waiting threads.
LEMMA SameFor ==
  ASSUME NEW o, Same(o)
  PROVE  For(stat', call', o) = For(stat, call, o)
  BY DEF Same, For

\* The caller of Block is on its way to rt_schedule, and other calls are left alone.
LEMMA BlockStep ==
  ASSUME KernelInv, NEW t \in Threads, Running(t), call[t] = "none", NEW o \in Objects, NEW timed \in BOOLEAN,
         Block(t, o, timed), UNCHANGED priority
  PROVE  /\ KernelInv' /\ MostUrgentRunsUnlocked' /\ \A p : p # o /\ p # "none" => Same(p)
         /\ call'[t] = o /\ stat'[t] = "SUSPEND"
         /\ \A x \in Threads : x # t => call'[x] = call[x] /\ stat'[x] = stat[x] /\ error'[x] = error[x]
  <1>1. KernelInv'
    BY BlockKeeps
  <1>2. /\ stat' = [stat EXCEPT ![t] = "SUSPEND"] /\ error' = [error EXCEPT ![t] = "EOK"]
        /\ call' = [call EXCEPT ![t] = o] /\ rt_current_thread' \in leaving'
    BY RunnerIsReady DEF Block, SuspendSelf
  <1>3. \A p : p # o /\ p # "none" => Same(p)
    BY <1>2, SuspendSame
  <1>4. MostUrgentRunsUnlocked'
    BY <1>2, LeavingRuns
  <1>5. /\ call'[t] = o /\ stat'[t] = "SUSPEND"
        /\ \A x \in Threads : x # t => call'[x] = call[x] /\ stat'[x] = stat[x] /\ error'[x] = error[x]
    BY <1>2 DEF KernelInv, Shape, ThreadTypeOK
  <1> QED  BY <1>1, <1>3, <1>4, <1>5

\* The tokens on their way can be counted.
LEMMA HandedCounts ==
  IsFiniteSet(Handed) /\ Cardinality(Handed) \in Nat /\ Cardinality(Handed) <= Cardinality(Threads)
  <1>1. Handed \in SUBSET Threads
    BY DEF Handed
  <1>2. IsFiniteSet(Handed) /\ Cardinality(Handed) <= Cardinality(Threads)
    BY <1>1, ThreadAssumption, FS_Subset
  <1> QED  BY <1>2, FS_CardinalityType

\* rt_sem_take: the value goes down, or the caller waits.
LEMMA SemTakeStep ==
  ASSUME IInv, NEW t \in Threads, rt_sem_take(t)
  PROVE  IInv'
  <1>0. /\ KernelInv /\ SemInv /\ MutexInv /\ EventInv /\ MostUrgentRunsUnlocked
        /\ Running(t) /\ call[t] = "none" /\ UNCHANGED <<mutexVars, eventVars>>
    BY DEF IInv, rt_sem_take, Free
  <1>1. CASE value > 0 /\ value' = value - 1 /\ balance' = balance - 1
             /\ UNCHANGED <<threadVars, object, flag, call, suspended>>
    <2>1. KernelInv' /\ \A o : Same(o)
      BY <1>0, <1>1, KernelSame
    <2>2. SemInv'
      <3>1. Handed' = Handed
        BY <2>1 DEF Handed, Same
      <3> QED  BY <1>0, <1>1, <3>1, HandedCounts, IpcAssumption DEF SemInv, TokensKept
    <2>3. MutexInv' /\ EventInv'
      BY <1>0, <2>1, MutexSame, EventSame, SameFor
    <2>4. MostUrgentRunsUnlocked'
      BY <1>0, <1>1, SameRuns DEF threadVars
    <2> QED  BY <2>1, <2>2, <2>3, <2>4 DEF IInv
  <1>2. CASE value = 0 /\ (\E timed \in BOOLEAN : Block(t, "sem", timed)) /\ UNCHANGED <<priority, semVars>>
    <2>1. PICK timed \in BOOLEAN : Block(t, "sem", timed)
      BY <1>2
    <2>2. /\ KernelInv' /\ MostUrgentRunsUnlocked' /\ \A p : p # "sem" /\ p # "none" => Same(p)
          /\ call'[t] = "sem" /\ stat'[t] = "SUSPEND"
          /\ \A x \in Threads : x # t => call'[x] = call[x] /\ stat'[x] = stat[x] /\ error'[x] = error[x]
      BY <1>0, <1>2, <2>1, BlockStep, NamesDiffer
    <2>3. SemInv'
      <3>1. Handed' = Handed
        BY <1>0, <2>2 DEF Handed
      <3> QED  BY <1>0, <1>2, <3>1 DEF SemInv, TokensKept, semVars
    <2>4. MutexInv' /\ EventInv'
      <3>1. \A m \in Mutexes : Same(m)
        BY <2>2, NamesDiffer
      <3>2. For(stat', call', "event") = For(stat, call, "event")
        BY <2>2, SameFor
      <3> QED  BY <1>0, <2>2, <3>1, <3>2, MutexSame, EventSame
    <2> QED  BY <2>2, <2>3, <2>4 DEF IInv
  <1> QED  BY <1>1, <1>2 DEF rt_sem_take

\* rt_sem_release: the token goes to the first waiting thread, or to the value.
LEMMA SemReleaseStep ==
  ASSUME IInv, NEW t \in Threads, rt_sem_release(t)
  PROVE  IInv'
  <1>0. /\ KernelInv /\ SemInv /\ MutexInv /\ EventInv /\ MostUrgentRunsUnlocked
        /\ Running(t) /\ call[t] = "none" /\ UNCHANGED <<mutexVars, eventVars>>
        /\ balance' = balance + 1 /\ value < MaxValue
    BY DEF IInv, rt_sem_release, Free
  <1>1. CASE suspended["sem"] = <<>>
    <2>0. value' = value + 1 /\ UNCHANGED <<threadVars, object, flag, call, suspended>>
      BY <1>1 DEF rt_sem_release
    <2>1. KernelInv' /\ \A o : Same(o)
      BY <1>0, <2>0, KernelSame
    <2>2. SemInv'
      <3>1. Handed' = Handed
        BY <2>1 DEF Handed, Same
      <3> QED  BY <1>0, <1>1, <2>0, <3>1, HandedCounts, IpcAssumption DEF SemInv, TokensKept
    <2>3. MutexInv' /\ EventInv'
      BY <1>0, <2>1, MutexSame, EventSame, SameFor
    <2>4. MostUrgentRunsUnlocked'
      BY <1>0, <2>0, SameRuns DEF threadVars
    <2> QED  BY <2>1, <2>2, <2>3, <2>4 DEF IInv
  <1>2. CASE suspended["sem"] # <<>>
    <2> DEFINE w == Head(suspended["sem"])
    <2>0. Wake(t, <<w>>, "sem") /\ UNCHANGED <<value, error>>
      BY <1>2 DEF rt_sem_release
    <2>1. /\ KernelInv' /\ w \in For(stat, call, "sem")
          /\ \A x \in Threads : stat'[x] = IF x = w THEN "READY" ELSE stat[x]
          /\ \A p : p # "sem" => Same(p)
      BY <1>0, <1>2, <2>0, HeadWakes, NamesDiffer
    <2> HIDE DEF w
    <2>2. SemInv'
      <3>1. w \in Threads /\ stat[w] = "SUSPEND" /\ call[w] = "sem" /\ error[w] = "EOK" /\ UNCHANGED call
        <4>1. w \in Threads /\ stat[w] = "SUSPEND" /\ call[w] = "sem"
          BY <2>1 DEF For
        <4>2. UNCHANGED call
          BY <2>0 DEF Wake
        <4>3. \A x \in Threads : stat[x] = "SUSPEND" => error[x] = "EOK"
          BY <1>0 DEF KernelInv, Waits
        <4> QED  BY <4>1, <4>2, <4>3
      <3>2. Handed' = Handed \cup {w} /\ w \notin Handed
        BY <2>0, <2>1, <3>1 DEF Handed
      <3>3. Cardinality(Handed') = Cardinality(Handed) + 1
        BY <3>2, HandedCounts, FS_AddElement
      <3>4. value = 0
        BY <1>0, <1>2, IpcAssumption DEF SemInv, TokensKept
      <3> QED  BY <1>0, <2>0, <3>3, <3>4, HandedCounts DEF SemInv, TokensKept
    <2>3. MutexInv' /\ EventInv'
      <3>1. \A m \in Mutexes : Same(m)
        BY <2>1, NamesDiffer
      <3>2. For(stat', call', "event") = For(stat, call, "event")
        BY <2>1, SameFor
      <3> QED  BY <1>0, <2>1, <3>1, <3>2, MutexSame, EventSame
    <2>4. MostUrgentRunsUnlocked'
      BY <1>0, <2>0, RunnerIsReady, LeavingRuns DEF Wake
    <2> QED  BY <2>1, <2>2, <2>3, <2>4 DEF IInv
  <1> QED  BY <1>1, <1>2

\* rt_sem_control: all waiting threads are refused, and the value is set.
LEMMA SemControlStep ==
  ASSUME IInv, NEW t \in Threads, rt_sem_control(t)
  PROVE  IInv'
  <1>0. /\ KernelInv /\ SemInv /\ MutexInv /\ EventInv /\ MostUrgentRunsUnlocked
        /\ Running(t) /\ call[t] = "none" /\ UNCHANGED <<mutexVars, eventVars>> /\ Refuse(t, "sem")
    BY DEF IInv, rt_sem_control, Free
  <1>1. PICK v \in 0..MaxValue : value' = v /\ balance' = v + Cardinality(Handed)
    BY DEF rt_sem_control
  <1>2. /\ KernelInv' /\ suspended'["sem"] = <<>>
        /\ \A x \in Threads : IF x \in For(stat, call, "sem") THEN stat'[x] = "READY" /\ error'[x] = "ERROR"
                                                             ELSE stat'[x] = stat[x] /\ error'[x] = error[x]
        /\ UNCHANGED call /\ \A p : p # "sem" => Same(p)
    BY <1>0, RefuseKeeps, NamesDiffer
  <1>3. SemInv'
    <2>1. Handed' = Handed
      BY <1>2 DEF Handed, For
    <2> QED  BY <1>1, <1>2, <2>1 DEF SemInv, TokensKept
  <1>4. MutexInv' /\ EventInv'
    <2>1. \A m \in Mutexes : Same(m)
      BY <1>2, NamesDiffer
    <2>2. For(stat', call', "event") = For(stat, call, "event")
      BY <1>2, SameFor
    <2> QED  BY <1>0, <1>2, <2>1, <2>2, MutexSame, EventSame
  <1>5. MostUrgentRunsUnlocked'
    BY <1>0, RunnerIsReady, LeavingRuns DEF Refuse, Wake
  <1> QED  BY <1>2, <1>3, <1>4, <1>5 DEF IInv

\* The first take of a mutex, one more take by its owner, and a wait for it.
LEMMA MutexTakeStep ==
  ASSUME IInv, NEW t \in Threads, NEW m \in Mutexes, rt_mutex_take(t, m)
  PROVE  IInv'
  <1>0. /\ KernelInv /\ SemInv /\ MutexInv /\ EventInv /\ MostUrgentRunsUnlocked
        /\ Running(t) /\ call[t] = "none" /\ UNCHANGED <<semVars, eventVars>>
    BY DEF IInv, rt_mutex_take, Free
  <1>i. t # None /\ MaxHold \in Nat /\ MaxHold > 0
    BY ThreadAssumption, IpcAssumption DEF None
  <1>m. /\ owner \in [Mutexes -> Threads \cup {None}] /\ hold \in [Mutexes -> 0..MaxHold]
        /\ original_priority \in [Mutexes -> Priorities \cup {NoPriority}]
        /\ got \in [Threads -> [Mutexes -> 0..MaxHold]] /\ priority \in [Threads -> Priorities]
    BY <1>0 DEF MutexInv, MutexShape, KernelInv, Shape, ThreadTypeOK
  <1>1. CASE /\ (owner[m] = t /\ hold[m] < MaxHold /\ UNCHANGED <<owner, original_priority>>) \/ (owner[m] = None /\ Take(t, m))
             /\ got' = [got EXCEPT ![t][m] = @ + 1]
             /\ hold' = [hold EXCEPT ![m] = @ + 1]
             /\ UNCHANGED <<threadVars, object, flag, call, suspended>>
    <2>1. KernelInv' /\ \A o : Same(o)
      BY <1>0, <1>1, KernelSame
    <2>2. /\ owner' = [owner EXCEPT ![m] = t] /\ owner'[m] = t
          /\ original_priority' \in [Mutexes -> Priorities \cup {NoPriority}]
          /\ \A n \in Mutexes : n # m => owner'[n] = owner[n] /\ original_priority'[n] = original_priority[n]
          /\ original_priority'[m] \in Priorities
      <3>1. CASE owner[m] = t /\ UNCHANGED <<owner, original_priority>>
        <4>1. original_priority[m] \in Priorities
          BY <1>0, <1>i, <3>1 DEF MutexInv, Granted
        <4> QED  BY <1>m, <3>1, <4>1
      <3>2. CASE owner[m] = None /\ Take(t, m)
        BY <1>m, <3>2 DEF Take
      <3> QED  BY <1>1, <3>1, <3>2
    <2>3. hold[m] = got[t][m]
      <3>1. CASE owner[m] = t
        <4>1. hold[m] = got[t][m] + 0 /\ got[t][m] \in 0..MaxHold
          BY <1>0, <1>i, <1>m, <3>1, NamesDiffer DEF MutexInv, OneHolder
        <4> QED  BY <1>i, <4>1
      <3>2. CASE owner[m] = None
        <4>1. hold[m] = 0 /\ ~(got[t][m] > 0) /\ got[t][m] \in 0..MaxHold
          BY <1>0, <1>i, <1>m, <3>2 DEF MutexInv, OneHolder
        <4> QED  BY <1>i, <4>1
      <3> QED  BY <1>1, <3>1, <3>2
    <2>4. /\ hold' \in [Mutexes -> 0..MaxHold] /\ hold'[m] = hold[m] + 1 /\ hold'[m] > 0
          /\ got' \in [Threads -> [Mutexes -> 0..MaxHold]] /\ got'[t][m] = got[t][m] + 1
          /\ \A n \in Mutexes : n # m => hold'[n] = hold[n]
          /\ \A x \in Threads, n \in Mutexes : <<x, n>> # <<t, m>> => got'[x][n] = got[x][n]
      <3>1. hold[m] < MaxHold
        BY <1>0, <1>1, <1>i DEF MutexInv, OneHolder
      <3>2. hold[m] \in Nat /\ hold[m] + 1 \in 0..MaxHold
        BY <1>i, <1>m, <3>1
      <3>3. hold' \in [Mutexes -> 0..MaxHold] /\ hold'[m] = hold[m] + 1
        BY <1>1, <1>m, <3>2
      <3>4. got' \in [Threads -> [Mutexes -> 0..MaxHold]] /\ got'[t][m] = got[t][m] + 1
        BY <1>1, <1>m, <2>3, <3>2
      <3> QED  BY <1>1, <1>m, <3>2, <3>3, <3>4
    <2>5. MutexShape'
      BY <1>m, <2>2, <2>4 DEF MutexShape
    <2>6. OneHolder'
      <3> SUFFICES ASSUME NEW n \in Mutexes
                   PROVE  /\ \A x \in Threads : got'[x][n] > 0 => owner'[n] = x
                          /\ owner'[n] = None <=> hold'[n] = 0
                          /\ owner'[n] = None => suspended'[n] = <<>>
                          /\ owner'[n] # None => hold'[n] = got'[owner'[n]][n] + IF call'[owner'[n]] = n THEN 1 ELSE 0
        BY DEF OneHolder
      <3>1. CASE n = m
        <4>1. call'[t] # m
          BY <1>0, <1>1, NamesDiffer
        <4>2. ASSUME NEW x \in Threads, x # t PROVE ~(got'[x][m] > 0)
          <5>1. got'[x][m] = got[x][m]
            BY <2>4, <4>2
          <5> QED  BY <1>0, <1>1, <1>i, <4>2, <5>1, ThreadAssumption DEF MutexInv, OneHolder, None
        <4>3. got[t][m] \in Nat /\ hold'[m] = got'[t][m] + 0 /\ hold'[m] # 0
          BY <1>m, <2>3, <2>4
        <4> QED  BY <1>i, <2>2, <3>1, <4>1, <4>2, <4>3
      <3>2. CASE n # m
        <4>1. owner'[n] = owner[n] /\ hold'[n] = hold[n] /\ (\A x \in Threads : got'[x][n] = got[x][n])
              /\ UNCHANGED <<call, suspended>>
          BY <1>1, <2>2, <2>4, <3>2
        <4>2. owner[n] # None => owner[n] \in Threads
          BY <1>m
        <4> QED  BY <1>0, <4>1, <4>2 DEF MutexInv, OneHolder
      <3> QED  BY <3>1, <3>2
    <2>7. Granted'
      <3> SUFFICES ASSUME NEW n \in Mutexes
                   PROVE  /\ owner'[n] # None => original_priority'[n] \in Priorities
                          /\ \A x \in Threads : call'[x] = n => (owner'[n] = x <=> stat'[x] = "READY" /\ error'[x] = "EOK")
        BY DEF Granted
      <3>0. UNCHANGED <<call, stat, error>>
        BY <1>1 DEF threadVars
      <3>1. CASE n = m
        <4>1. ASSUME NEW x \in Threads, call[x] = m PROVE owner'[m] = x <=> stat[x] = "READY" /\ error[x] = "EOK"
          <5>1. x # t /\ owner[m] # x
            BY <1>0, <1>1, <4>1, ThreadAssumption, NamesDiffer DEF None
          <5> QED  BY <1>0, <2>2, <4>1, <5>1 DEF MutexInv, Granted
        <4> QED  BY <2>2, <3>0, <3>1, <4>1
      <3>2. CASE n # m
        BY <1>0, <2>2, <3>0, <3>2 DEF MutexInv, Granted
      <3> QED  BY <3>1, <3>2
    <2>8. SemInv' /\ EventInv'
      BY <1>0, <2>1, SemSame, EventSame, SameFor
    <2>9. MostUrgentRunsUnlocked'
      BY <1>0, <1>1, SameRuns DEF threadVars
    <2> QED  BY <2>1, <2>5, <2>6, <2>7, <2>8, <2>9 DEF IInv, MutexInv
  <1>2. CASE owner[m] \notin {t, None} /\ \E timed \in BOOLEAN : BlockOn(t, m, timed)
    <2>1. PICK timed \in BOOLEAN : BlockOn(t, m, timed)
      BY <1>2
    <2>2. KernelInv'
      BY <1>0, <1>2, <2>1, BlockOnKeeps DEF MutexInv
    <2>3. /\ stat' = [stat EXCEPT ![t] = "SUSPEND"] /\ error' = [error EXCEPT ![t] = "EOK"]
          /\ call' = [call EXCEPT ![t] = m] /\ rt_current_thread' \in leaving'
          /\ UNCHANGED <<owner, hold, original_priority, got>>
      BY <1>0, <2>1, RunnerIsReady DEF BlockOn, mutexVars
    <2>4. \A p : p # m /\ p # "none" => Same(p)
      BY <1>0, <2>3, SuspendSame
    <2>5. /\ call'[t] = m /\ stat'[t] = "SUSPEND"
          /\ \A x \in Threads : x # t => call'[x] = call[x] /\ stat'[x] = stat[x] /\ error'[x] = error[x]
      BY <1>0, <2>3 DEF KernelInv, Shape, ThreadTypeOK
    <2>6. MutexShape'
      BY <1>0, <2>3 DEF MutexInv, MutexShape
    <2>7. Granted'
      <3> SUFFICES ASSUME NEW n \in Mutexes, NEW x \in Threads, call'[x] = n
                   PROVE  owner[n] = x <=> stat'[x] = "READY" /\ error'[x] = "EOK"
        BY <1>0, <2>3 DEF MutexInv, Granted
      <3>1. CASE x = t
        BY <1>2, <2>5, <3>1
      <3>2. CASE x # t
        BY <1>0, <2>5, <3>2 DEF MutexInv, Granted
      <3> QED  BY <3>1, <3>2
    <2>8. OneHolder'
      <3>1. ASSUME NEW n \in Mutexes, owner[n] = None PROVE suspended'[n] = <<>>
        <4>1. n # m /\ suspended[n] = <<>>
          BY <1>0, <1>2, <3>1 DEF MutexInv, OneHolder
        <4>2. For(stat', call', n) = For(stat, call, n)
          BY <2>4, <4>1, SameFor, NamesDiffer
        <4>3. Holds(suspended[n], For(stat, call, n)) /\ Holds(suspended'[n], For(stat', call', n))
          BY <1>0, <2>2, NamesDiffer DEF KernelInv, Queues, WaitIs
        <4> QED  BY <4>1, <4>2, <4>3, HoldsNone
      <3>2. ASSUME NEW n \in Mutexes, owner[n] # None PROVE call'[owner[n]] = n <=> call[owner[n]] = n
        <4>1. owner[n] \in Threads
          BY <1>m, <3>2
        <4> QED  BY <1>0, <1>2, <2>5, <4>1, NamesDiffer
      <3> QED  BY <1>0, <2>3, <3>1, <3>2 DEF MutexInv, OneHolder
    <2>9. SemInv' /\ EventInv'
      <3>1. Same("sem") /\ Same("event")
        BY <2>4, NamesDiffer
      <3> QED  BY <1>0, <2>2, <3>1, SemSame, EventSame, SameFor
    <2>10. MostUrgentRunsUnlocked'
      BY <2>3, LeavingRuns
    <2> QED  BY <2>2, <2>6, <2>7, <2>8, <2>9, <2>10 DEF IInv, MutexInv
  <1> QED  BY <1>1, <1>2 DEF rt_mutex_take, Take

\* A release that is not the last, and the last one.
LEMMA MutexReleaseStep ==
  ASSUME IInv, NEW t \in Threads, NEW m \in Mutexes, rt_mutex_release(t, m)
  PROVE  IInv'
  <1>0. /\ KernelInv /\ SemInv /\ MutexInv /\ EventInv /\ MostUrgentRunsUnlocked
        /\ Running(t) /\ call[t] = "none" /\ UNCHANGED <<object, flag, call, semVars, eventVars>>
        /\ object = "mutex" /\ owner[m] = t /\ got' = [got EXCEPT ![t][m] = @ - 1]
    BY DEF IInv, rt_mutex_release, Free
  <1>i. t # None /\ MaxHold \in Nat /\ MaxHold > 0
    BY ThreadAssumption, IpcAssumption DEF None
  <1>m. /\ owner \in [Mutexes -> Threads \cup {None}] /\ hold \in [Mutexes -> 0..MaxHold]
        /\ original_priority \in [Mutexes -> Priorities \cup {NoPriority}]
        /\ got \in [Threads -> [Mutexes -> 0..MaxHold]] /\ priority \in [Threads -> Priorities]
    BY <1>0 DEF MutexInv, MutexShape, KernelInv, Shape, ThreadTypeOK
  <1>h. hold[m] = got[t][m] /\ hold[m] \in 1..MaxHold
    <2>1. hold[m] = got[t][m] + 0 /\ got[t][m] \in 0..MaxHold /\ hold[m] # 0
      BY <1>0, <1>i, <1>m, NamesDiffer DEF MutexInv, OneHolder
    <2> QED  BY <1>i, <2>1
  <1>g. /\ got' \in [Threads -> [Mutexes -> 0..MaxHold]] /\ got'[t][m] = got[t][m] - 1
        /\ \A x \in Threads, n \in Mutexes : <<x, n>> # <<t, m>> => got'[x][n] = got[x][n]
    <2>1. got[t][m] - 1 \in 0..MaxHold
      BY <1>i, <1>h
    <2> QED  BY <1>0, <1>m, <2>1
  <1>u. MostUrgentRunsUnlocked'
    BY <1>0 DEF MostUrgentRunsUnlocked
  <1>x. ASSUME NEW x \in Threads, x # t PROVE got'[x][m] = got[x][m] /\ got'[x][m] = 0
    <2>1. ~(got[x][m] > 0) /\ got[x][m] \in 0..MaxHold
      BY <1>0, <1>m, <1>x DEF MutexInv, OneHolder
    <2> QED  BY <1>g, <1>i, <1>x, <2>1
  <1>1. CASE hold[m] > 1
    <2>1. hold' = [hold EXCEPT ![m] = @ - 1] /\ UNCHANGED <<threadVars, object, flag, call, suspended, owner, original_priority>>
      BY <1>0, <1>1 DEF rt_mutex_release
    <2>2. KernelInv' /\ \A o : Same(o)
      BY <1>0, <2>1, KernelSame
    <2>3. hold' \in [Mutexes -> 0..MaxHold] /\ hold'[m] = hold[m] - 1 /\ hold'[m] # 0 /\ \A n \in Mutexes : n # m => hold'[n] = hold[n]
      BY <1>1, <1>i, <1>m, <1>h, <2>1
    <2>4. MutexShape'
      BY <1>m, <1>g, <2>1, <2>3 DEF MutexShape
    <2>5. Granted'
      BY <1>0, <2>1 DEF MutexInv, Granted, threadVars
    <2>6. OneHolder'
      <3> SUFFICES ASSUME NEW n \in Mutexes
                   PROVE  /\ \A x \in Threads : got'[x][n] > 0 => owner'[n] = x
                          /\ owner'[n] = None <=> hold'[n] = 0
                          /\ owner'[n] = None => suspended'[n] = <<>>
                          /\ owner'[n] # None => hold'[n] = got'[owner'[n]][n] + IF call'[owner'[n]] = n THEN 1 ELSE 0
        BY DEF OneHolder
      <3>1. CASE n = m
        <4>1. call'[t] # m /\ owner'[m] = t
          BY <1>0, <2>1, NamesDiffer
        <4>2. hold'[m] = got'[t][m] + 0
          BY <1>h, <1>g, <2>3
        <4>3. \A x \in Threads : got'[x][m] > 0 => x = t
          BY <1>x
        <4> QED  BY <1>i, <2>3, <3>1, <4>1, <4>2, <4>3
      <3>2. CASE n # m
        <4>1. hold'[n] = hold[n] /\ (\A x \in Threads : got'[x][n] = got[x][n])
          BY <1>g, <2>3, <3>2
        <4>2. owner[n] # None => owner[n] \in Threads
          BY <1>m
        <4> QED  BY <1>0, <2>1, <4>1, <4>2 DEF MutexInv, OneHolder
      <3> QED  BY <3>1, <3>2
    <2>7. SemInv' /\ EventInv'
      BY <1>0, <2>2, SemSame, EventSame, SameFor
    <2> QED  BY <1>u, <2>2, <2>4, <2>5, <2>6, <2>7 DEF IInv, MutexInv
  <1>2. CASE ~(hold[m] > 1)
    <2>1. priority' = Restored(t, m) /\ HandOver(t, m) /\ UNCHANGED <<rt_current_thread, error, base>>
      BY <1>2 DEF rt_mutex_release
    <2>2. hold[m] = 1 /\ got'[t][m] = 0
      BY <1>2, <1>i, <1>h, <1>g
    <2>3. original_priority[m] \in Priorities
      BY <1>0, <1>i DEF MutexInv, Granted
    <2>4. /\ KernelInv'
          /\ suspended[m] = <<>> => UNCHANGED <<stat, suspended>>
          /\ suspended[m] # <<>> =>
               /\ Head(suspended[m]) \in For(stat, call, m)
               /\ \A x \in Threads : stat'[x] = IF x = Head(suspended[m]) THEN "READY" ELSE stat[x]
          /\ \A p : p # m => Same(p)
      BY <1>0, <2>1, <2>3, HandOverKeeps
    <2>5. SemInv' /\ EventInv'
      <3>1. Same("sem") /\ Same("event")
        BY <2>4, NamesDiffer
      <3> QED  BY <1>0, <2>4, <3>1, SemSame, EventSame, SameFor
    <2>6. \A x \in Threads : got'[x][m] = 0
      BY <1>x, <2>2
    <2>7. ASSUME NEW n \in Mutexes, n # m, owner' = [owner EXCEPT ![m] = owner'[m]], hold'[n] = hold[n],
                 original_priority'[n] = original_priority[n]
          PROVE  /\ \A x \in Threads : got'[x][n] > 0 => owner'[n] = x
                 /\ owner'[n] = None <=> hold'[n] = 0
                 /\ owner'[n] = None => suspended'[n] = <<>>
                 /\ owner'[n] # None => hold'[n] = got'[owner'[n]][n] + IF call'[owner'[n]] = n THEN 1 ELSE 0
                 /\ owner'[n] # None => original_priority'[n] \in Priorities
                 /\ \A x \in Threads : call'[x] = n => (owner'[n] = x <=> stat'[x] = "READY" /\ error'[x] = "EOK")
      <3>1. owner'[n] = owner[n] /\ \A x \in Threads : got'[x][n] = got[x][n]
        BY <1>m, <1>g, <2>7
      <3>2. owner[n] # None => owner[n] \in Threads
        BY <1>m
      <3>3. suspended[n] = <<>> => suspended'[n] = <<>>
        <4>1. For(stat', call', n) = For(stat, call, n)
          BY <2>4, <2>7, SameFor
        <4>2. Holds(suspended[n], For(stat, call, n)) /\ Holds(suspended'[n], For(stat', call', n))
          BY <1>0, <2>4, NamesDiffer DEF KernelInv, Queues, WaitIs
        <4> QED  BY <4>1, <4>2, HoldsNone
      <3>4. \A x \in Threads : call'[x] = n => (owner'[n] = x <=> stat'[x] = "READY" /\ error'[x] = "EOK")
        BY <1>0, <2>4, <2>7, <3>1 DEF Same, MutexInv, Granted
      <3> QED  BY <1>0, <2>7, <3>1, <3>2, <3>3, <3>4 DEF MutexInv, OneHolder, Granted
    <2>8. CASE suspended[m] = <<>>
      <3>1. /\ owner' = [owner EXCEPT ![m] = None] /\ hold' = [hold EXCEPT ![m] = 0]
            /\ original_priority' = [original_priority EXCEPT ![m] = NoPriority] /\ UNCHANGED <<stat, suspended>>
        BY <2>1, <2>4, <2>8 DEF HandOver
      <3>2. /\ MutexShape' /\ owner'[m] = None /\ hold'[m] = 0 /\ owner' = [owner EXCEPT ![m] = owner'[m]]
            /\ \A n \in Mutexes : n # m => hold'[n] = hold[n] /\ original_priority'[n] = original_priority[n]
        BY <1>m, <1>i, <1>g, <3>1 DEF MutexShape
      <3>3. ASSUME NEW x \in Threads, call[x] = m PROVE ~(stat[x] = "READY" /\ error[x] = "EOK")
        <4>1. x # t
          BY <1>0, <3>3, NamesDiffer
        <4> QED  BY <1>0, <3>3, <4>1 DEF MutexInv, Granted
      <3>4. OneHolder'
        <4>1. /\ \A x \in Threads : ~(got'[x][m] > 0)
              /\ suspended'[m] = <<>>
          BY <2>6, <2>8, <3>1
        <4> QED  BY <2>7, <3>2, <4>1 DEF OneHolder
      <3>5. Granted'
        <4>1. \A x \in Threads : call'[x] = m => (owner'[m] = x <=> stat'[x] = "READY" /\ error'[x] = "EOK")
          BY <1>0, <2>1, <3>1, <3>2, <3>3, ThreadAssumption DEF None
        <4> QED  BY <2>7, <3>2, <4>1 DEF Granted
      <3> QED  BY <1>u, <2>4, <2>5, <3>2, <3>4, <3>5 DEF IInv, MutexInv
    <2>9. CASE suspended[m] # <<>>
      <3> DEFINE w == Head(suspended[m])
      <3>1. /\ owner' = [owner EXCEPT ![m] = w] /\ UNCHANGED hold
            /\ original_priority' = [original_priority EXCEPT ![m] = priority[w]]
        BY <2>1, <2>9 DEF HandOver
      <3>2. w \in For(stat, call, m) /\ \A x \in Threads : stat'[x] = IF x = w THEN "READY" ELSE stat[x]
        BY <2>4, <2>9
      <3> HIDE DEF w
      <3>3. w \in Threads /\ stat[w] = "SUSPEND" /\ call[w] = m /\ w # None
        BY <3>2, ThreadAssumption DEF For, None
      <3>4. error[w] = "EOK"
        BY <1>0, <3>3 DEF KernelInv, Waits
      <3>5. /\ MutexShape' /\ owner'[m] = w /\ owner' = [owner EXCEPT ![m] = owner'[m]]
            /\ original_priority'[m] \in Priorities
            /\ \A n \in Mutexes : n # m => hold'[n] = hold[n] /\ original_priority'[n] = original_priority[n]
        BY <1>m, <1>g, <3>1, <3>3 DEF MutexShape
      <3>6. OneHolder'
        <4>1. /\ \A x \in Threads : ~(got'[x][m] > 0)
              /\ hold'[m] = got'[w][m] + 1 /\ hold'[m] # 0 /\ call'[w] = m
          BY <1>0, <2>2, <2>6, <3>1, <3>3
        <4>2. /\ \A x \in Threads : got'[x][m] > 0 => owner'[m] = x
              /\ owner'[m] = None <=> hold'[m] = 0
              /\ owner'[m] = None => suspended'[m] = <<>>
              /\ owner'[m] # None => hold'[m] = got'[owner'[m]][m] + IF call'[owner'[m]] = m THEN 1 ELSE 0
          BY <3>3, <3>5, <4>1
        <4> QED  BY <2>7, <3>5, <4>2 DEF OneHolder
      <3>7. Granted'
        <4>1. ASSUME NEW x \in Threads, call'[x] = m PROVE owner'[m] = x <=> stat'[x] = "READY" /\ error'[x] = "EOK"
          <5>1. CASE x = w
            BY <2>1, <3>2, <3>4, <3>5, <5>1
          <5>2. CASE x # w
            <6>1. x # t /\ call[x] = m
              BY <1>0, <4>1, NamesDiffer
            <6>2. ~(stat[x] = "READY" /\ error[x] = "EOK")
              BY <1>0, <6>1 DEF MutexInv, Granted
            <6> QED  BY <2>1, <3>2, <3>5, <5>2, <6>2
          <5> QED  BY <5>1, <5>2
        <4> QED  BY <2>7, <3>5, <4>1 DEF Granted
      <3> QED  BY <1>u, <2>4, <2>5, <3>5, <3>6, <3>7 DEF IInv, MutexInv
    <2> QED  BY <2>8, <2>9
  <1> QED  BY <1>1, <1>2

\* The event after a step that leaves its bits and the waits of the others alone: the
\* threads that wait are not satisfied.
LEMMA EventByThread ==
  ASSUME KernelInv', EventShape',
         \A x \in For(stat', call', "event") : ~Satisfied(set', event_set'[x], event_info'[x])
  PROVE  EventInv'
  <1>1. Holds(suspended'["event"], For(stat', call', "event"))
    BY DEF KernelInv, Queues, WaitIs, Objects
  <1>2. \A i \in 1..Len(suspended'["event"]) : suspended'["event"][i] \in For(stat', call', "event")
    BY <1>1 DEF Holds, Members
  <1> QED  BY <1>2 DEF NoLostEvent, EventInv

\* rt_event_recv: the bits are there, or the caller waits for them.
LEMMA EventRecvStep ==
  ASSUME IInv, NEW t \in Threads, rt_event_recv(t)
  PROVE  IInv'
  <1>0. /\ KernelInv /\ SemInv /\ MutexInv /\ EventInv /\ MostUrgentRunsUnlocked
        /\ Running(t) /\ call[t] = "none" /\ UNCHANGED <<semVars, mutexVars>>
    BY DEF IInv, rt_event_recv, Free
  <1>1. PICK wanted \in SUBSET Bits \ {{}}, option \in Options :
          \/ /\ Satisfied(set, wanted, option)
             /\ set' = IF "CLEAR" \in option THEN set \ wanted ELSE set
             /\ UNCHANGED <<threadVars, object, flag, call, suspended, event_set, event_info>>
          \/ /\ ~Satisfied(set, wanted, option)
             /\ event_set' = [event_set EXCEPT ![t] = wanted]
             /\ event_info' = [event_info EXCEPT ![t] = option]
             /\ \E timed \in BOOLEAN : Block(t, "event", timed)
             /\ UNCHANGED <<priority, set>>
    BY DEF rt_event_recv
  <1>2. \A x \in For(stat, call, "event") : ~Satisfied(set, event_set[x], event_info[x])
    BY <1>0, NoLostEventByThread DEF EventInv
  <1>3. EventShape
    BY <1>0 DEF EventInv
  <1>4. CASE /\ set' = IF "CLEAR" \in option THEN set \ wanted ELSE set
             /\ UNCHANGED <<threadVars, object, flag, call, suspended, event_set, event_info>>
    <2>1. KernelInv' /\ \A o : Same(o)
      BY <1>0, <1>4, KernelSame
    <2>2. set' \subseteq set /\ EventShape'
      BY <1>3, <1>4 DEF EventShape
    <2>3. \A x \in For(stat', call', "event") : ~Satisfied(set', event_set'[x], event_info'[x])
      BY <1>2, <1>4, <2>1, <2>2, SameFor, LessSatisfiesLess
    <2>4. EventInv' /\ SemInv' /\ MutexInv'
      BY <1>0, <2>1, <2>2, <2>3, EventByThread, SemSame, MutexSame
    <2>5. MostUrgentRunsUnlocked'
      BY <1>0, <1>4, SameRuns DEF threadVars
    <2> QED  BY <2>1, <2>4, <2>5 DEF IInv
  <1>5. CASE /\ ~Satisfied(set, wanted, option)
             /\ event_set' = [event_set EXCEPT ![t] = wanted]
             /\ event_info' = [event_info EXCEPT ![t] = option]
             /\ \E timed \in BOOLEAN : Block(t, "event", timed)
             /\ UNCHANGED <<priority, set>>
    <2>1. PICK timed \in BOOLEAN : Block(t, "event", timed)
      BY <1>5
    <2>2. /\ KernelInv' /\ MostUrgentRunsUnlocked' /\ \A p : p # "event" /\ p # "none" => Same(p)
          /\ call'[t] = "event" /\ stat'[t] = "SUSPEND"
          /\ \A x \in Threads : x # t => call'[x] = call[x] /\ stat'[x] = stat[x] /\ error'[x] = error[x]
      BY <1>0, <1>5, <2>1, BlockStep, NamesDiffer
    <2>3. /\ EventShape' /\ event_set'[t] = wanted /\ event_info'[t] = option
          /\ \A x \in Threads : x # t => event_set'[x] = event_set[x] /\ event_info'[x] = event_info[x]
      BY <1>3, <1>5 DEF EventShape
    <2>4. ASSUME NEW x \in For(stat', call', "event") PROVE ~Satisfied(set', event_set'[x], event_info'[x])
      <3>1. CASE x = t
        BY <1>5, <2>3, <3>1
      <3>2. CASE x # t
        <4>1. x \in For(stat, call, "event") /\ x \in Threads
          BY <2>2, <3>2 DEF For
        <4>2. ~Satisfied(set, event_set[x], event_info[x])
          BY <1>2, <4>1
        <4> QED  BY <1>5, <2>3, <3>2, <4>1, <4>2
      <3> QED  BY <3>1, <3>2
    <2>5. EventInv'
      BY <2>2, <2>3, <2>4, EventByThread
    <2>6. SemInv' /\ MutexInv'
      <3>1. Same("sem") /\ \A m \in Mutexes : Same(m)
        BY <2>2, NamesDiffer
      <3> QED  BY <1>0, <2>2, <3>1, SemSame, MutexSame
    <2> QED  BY <2>2, <2>5, <2>6 DEF IInv
  <1> QED  BY <1>1, <1>4, <1>5

\* rt_event_send: the scan wakes every thread whose bits have come.
LEMMA EventSendStep ==
  ASSUME IInv, NEW t \in Threads, rt_event_send(t)
  PROVE  IInv'
  <1>0. /\ KernelInv /\ SemInv /\ MutexInv /\ EventShape /\ MostUrgentRunsUnlocked
        /\ UNCHANGED <<semVars, mutexVars>>
    BY DEF IInv, EventInv, rt_event_send
  <1>1. /\ KernelInv' /\ UNCHANGED call /\ \A p : p # "event" => Same(p)
        /\ \A x \in For(stat', call', "event") : ~Satisfied(set', event_set'[x], event_info'[x])
        /\ EventShape'
        /\ rt_current_thread' \in leaving' \/ UNCHANGED <<rt_current_thread, stat, priority, leaving>>
    BY <1>0, SendKeeps
  <1>2. EventInv'
    BY <1>1, EventByThread
  <1>3. SemInv' /\ MutexInv'
    <2>1. Same("sem") /\ \A m \in Mutexes : Same(m)
      BY <1>1, NamesDiffer
    <2> QED  BY <1>0, <1>1, <2>1, SemSame, MutexSame
  <1>4. UNCHANGED object
    BY DEF rt_event_send, ResumeWaiters, ResumeAll, Wake
  <1>5. MostUrgentRunsUnlocked'
    BY <1>0, <1>1, <1>4, LeavingRuns, SameRuns
  <1> QED  BY <1>1, <1>2, <1>3, <1>5 DEF IInv

\* rt_event_control: all waiting threads are refused, and the bits are cleared.
LEMMA EventControlStep ==
  ASSUME IInv, NEW t \in Threads, rt_event_control(t)
  PROVE  IInv'
  <1>0. /\ KernelInv /\ SemInv /\ MutexInv /\ EventShape /\ MostUrgentRunsUnlocked
        /\ Running(t) /\ Refuse(t, "event") /\ set' = {}
        /\ UNCHANGED <<event_set, event_info, semVars, mutexVars>>
    BY DEF IInv, EventInv, rt_event_control, Free
  <1>1. /\ KernelInv' /\ UNCHANGED call /\ suspended'["event"] = <<>> /\ \A p : p # "event" => Same(p)
    BY <1>0, RefuseKeeps, NamesDiffer
  <1>2. EventInv'
    BY <1>0, <1>1 DEF EventInv, EventShape, NoLostEvent
  <1>3. SemInv' /\ MutexInv'
    <2>1. Same("sem") /\ \A m \in Mutexes : Same(m)
      BY <1>1, NamesDiffer
    <2> QED  BY <1>0, <1>1, <2>1, SemSame, MutexSame
  <1>4. MostUrgentRunsUnlocked'
    BY <1>0, RunnerIsReady, LeavingRuns DEF Refuse, Wake
  <1> QED  BY <1>1, <1>2, <1>3, <1>4 DEF IInv

\* rt_thread_sleep: the caller waits for its timer only.
LEMMA SleepStep ==
  ASSUME IInv, NEW t \in Threads, rt_thread_sleep(t)
  PROVE  IInv'
  <1>0. /\ KernelInv /\ SemInv /\ MutexInv /\ EventInv
        /\ Running(t) /\ call[t] = "none" /\ Block(t, "sleep", TRUE)
        /\ UNCHANGED <<priority, semVars, mutexVars, eventVars>>
    BY DEF IInv, rt_thread_sleep
  <1>1. /\ KernelInv' /\ MostUrgentRunsUnlocked' /\ \A p : p # "sleep" /\ p # "none" => Same(p)
    BY <1>0, BlockStep, NamesDiffer
  <1>2. Same("sem") /\ Same("event") /\ \A m \in Mutexes : Same(m)
    BY <1>1, NamesDiffer
  <1>3. SemInv' /\ MutexInv' /\ EventInv'
    BY <1>0, <1>1, <1>2, SemSame, MutexSame, EventSame, SameFor
  <1> QED  BY <1>1, <1>3 DEF IInv

\* A time slice ends, or rt_schedule switches.
LEMMA ScheduleStep ==
  ASSUME IInv, TimeSlice \/ \E t \in Threads : rt_schedule(t), KernelOnly
  PROVE  IInv'
  <1>0. /\ KernelInv /\ SemInv /\ MutexInv /\ EventInv
        /\ UNCHANGED <<stat, error, priority, call, semVars, mutexVars, eventVars>>
    BY DEF IInv, KernelOnly, TimeSlice, rt_schedule
  <1>1. KernelInv' /\ Chosen(rt_current_thread', stat', priority')
    BY <1>0, ScheduleKeeps
  <1>2. \A p : Same(p)
    BY <1>0 DEF Same
  <1>3. SemInv' /\ MutexInv' /\ EventInv'
    BY <1>0, <1>1, <1>2, SemSame, MutexSame, EventSame, SameFor
  <1> QED  BY <1>1, <1>3, LeavingRuns DEF IInv

\* The tail of a call: a thread that was handed a token or a mutex is now told so.
LEMMA ReturnStep ==
  ASSUME IInv, NEW t \in Threads, Return(t)
  PROVE  IInv'
  <1>0. /\ KernelInv /\ SemInv /\ MutexInv /\ EventInv /\ MostUrgentRunsUnlocked
        /\ Running(t) /\ call[t] # "none"
        /\ call' = [call EXCEPT ![t] = "none"] /\ error' = [error EXCEPT ![t] = "EOK"]
        /\ event_set' = [event_set EXCEPT ![t] = {}] /\ event_info' = [event_info EXCEPT ![t] = {}]
        /\ balance' = IF call[t] = "sem" /\ error[t] = "EOK" THEN balance - 1 ELSE balance
        /\ got' = IF call[t] \in Mutexes /\ error[t] = "EOK" THEN [got EXCEPT ![t][call[t]] = @ + 1] ELSE got
        /\ UNCHANGED <<rt_current_thread, stat, priority, leaving, object, suspended, value, owner, hold, original_priority, set>>
    BY DEF IInv, Return
  <1>1. KernelInv' /\ stat[t] = "READY"
    BY <1>0, ReturnKeeps
  <1>2. /\ call'[t] = "none" /\ \A x \in Threads : x # t => call'[x] = call[x] /\ error'[x] = error[x]
    BY <1>0 DEF KernelInv, Shape, ThreadTypeOK
  <1>3. SemInv'
    <2>1. CASE call[t] = "sem" /\ error[t] = "EOK"
      <3>1. t \in Handed
        BY <1>1, <2>1 DEF Handed
      <3>2. Handed' = Handed \ {t}
        BY <1>0, <1>2 DEF Handed
      <3>3. Cardinality(Handed') = Cardinality(Handed) - 1
        BY <3>1, <3>2, HandedCounts, FS_RemoveElement
      <3> QED  BY <1>0, <2>1, <3>3, HandedCounts, IpcAssumption DEF SemInv, TokensKept
    <2>2. CASE ~(call[t] = "sem" /\ error[t] = "EOK")
      <3>1. Handed' = Handed
        BY <1>0, <1>2, <2>2 DEF Handed
      <3> QED  BY <1>0, <2>2, <3>1 DEF SemInv, TokensKept
    <2> QED  BY <2>1, <2>2
  <1>4. EventInv'
    <2>1. EventShape'
      BY <1>0 DEF EventInv, EventShape
    <2>2. ASSUME NEW x \in For(stat', call', "event") PROVE ~Satisfied(set', event_set'[x], event_info'[x])
      <3>1. x # t /\ x \in For(stat, call, "event") /\ x \in Threads
        BY <1>0, <1>2 DEF For
      <3>2. event_set'[x] = event_set[x] /\ event_info'[x] = event_info[x]
        BY <1>0, <3>1 DEF EventInv, EventShape
      <3> QED  BY <1>0, <3>1, <3>2, NoLostEventByThread DEF EventInv
    <2> QED  BY <1>1, <2>1, <2>2, EventByThread
  <1>5. MutexInv'
    <2>0. /\ owner \in [Mutexes -> Threads \cup {None}] /\ hold \in [Mutexes -> 0..MaxHold]
          /\ got \in [Threads -> [Mutexes -> 0..MaxHold]] /\ MaxHold \in Nat
      BY <1>0, IpcAssumption DEF MutexInv, MutexShape
    <2>1. /\ got' \in [Threads -> [Mutexes -> 0..MaxHold]]
          /\ \A x \in Threads, n \in Mutexes :
               got'[x][n] = IF x = t /\ n = call[t] /\ error[t] = "EOK" THEN got[x][n] + 1 ELSE got[x][n]
      <3>1. CASE call[t] \in Mutexes /\ error[t] = "EOK"
        <4>1. owner[call[t]] = t /\ t # None
          BY <1>0, <1>1, <3>1, ThreadAssumption DEF MutexInv, Granted, None
        <4>2. hold[call[t]] = got[t][call[t]] + 1
          BY <1>0, <3>1, <4>1 DEF MutexInv, OneHolder
        <4>3. got[t][call[t]] + 1 \in 0..MaxHold
          BY <2>0, <3>1, <4>2
        <4> QED  BY <1>0, <2>0, <3>1, <4>3
      <3>2. CASE ~(call[t] \in Mutexes /\ error[t] = "EOK")
        BY <1>0, <2>0, <3>2
      <3> QED  BY <3>1, <3>2
    <2>2. MutexShape'
      BY <1>0, <2>1 DEF MutexInv, MutexShape
    <2>3. Granted'
      <3> SUFFICES ASSUME NEW n \in Mutexes, NEW x \in Threads, call'[x] = n
                   PROVE  owner[n] = x <=> stat[x] = "READY" /\ error'[x] = "EOK"
        BY <1>0 DEF MutexInv, Granted
      <3>1. x # t
        BY <1>2, NamesDiffer
      <3> QED  BY <1>0, <1>2, <3>1 DEF MutexInv, Granted
    <2>4. OneHolder'
      <3> SUFFICES ASSUME NEW n \in Mutexes
                   PROVE  /\ \A x \in Threads : got'[x][n] > 0 => owner[n] = x
                          /\ owner[n] = None <=> hold[n] = 0
                          /\ owner[n] = None => suspended[n] = <<>>
                          /\ owner[n] # None => hold[n] = got'[owner[n]][n] + IF call'[owner[n]] = n THEN 1 ELSE 0
        BY <1>0 DEF OneHolder
      <3>1. /\ \A x \in Threads : got[x][n] > 0 => owner[n] = x
            /\ owner[n] = None <=> hold[n] = 0
            /\ owner[n] = None => suspended[n] = <<>>
            /\ owner[n] # None => hold[n] = got[owner[n]][n] + IF call[owner[n]] = n THEN 1 ELSE 0
            /\ call[t] = n => (owner[n] = t <=> error[t] = "EOK")
        BY <1>0, <1>1 DEF MutexInv, OneHolder, Granted
      <3>2. ASSUME NEW x \in Threads, got'[x][n] > 0 PROVE owner[n] = x
        BY <2>1, <3>1, <3>2
      <3>3. ASSUME owner[n] # None PROVE hold[n] = got'[owner[n]][n] + IF call'[owner[n]] = n THEN 1 ELSE 0
        <4>1. owner[n] \in Threads /\ got[owner[n]][n] \in Nat
          BY <2>0, <3>3
        <4>2. CASE owner[n] = t /\ call[t] = n
          <5>1. got'[t][n] = got[t][n] + 1 /\ call'[t] # n /\ hold[n] = got[t][n] + 1
            BY <1>2, <2>1, <3>1, <3>3, <4>2, NamesDiffer
          <5> QED  BY <4>1, <4>2, <5>1
        <4>3. CASE owner[n] = t /\ call[t] # n
          <5>1. got'[t][n] = got[t][n] /\ call'[t] # n
            BY <1>2, <2>1, <4>3, NamesDiffer
          <5> QED  BY <3>1, <3>3, <4>3, <5>1
        <4>4. CASE owner[n] # t
          <5>1. got'[owner[n]][n] = got[owner[n]][n] /\ call'[owner[n]] = call[owner[n]]
            BY <1>2, <2>1, <4>1, <4>4
          <5> QED  BY <3>1, <3>3, <5>1
        <4> QED  BY <4>2, <4>3, <4>4
      <3> QED  BY <3>1, <3>2, <3>3
    <2> QED  BY <2>2, <2>3, <2>4 DEF MutexInv
  <1>6. MostUrgentRunsUnlocked'
    BY <1>0, SameRuns
  <1> QED  BY <1>1, <1>3, <1>4, <1>5, <1>6 DEF IInv

\* A wait that times out gets neither the token nor the mutex, nor the event.
LEMMA ExpireStep ==
  ASSUME IInv, NEW t \in Threads, Expire(t)
  PROVE  IInv'
  <1>0. /\ KernelInv /\ SemInv /\ MutexInv /\ EventInv
        /\ UNCHANGED <<call, semVars, mutexVars, eventVars>>
    BY DEF IInv, Expire
  <1>1. /\ KernelInv' /\ Chosen(rt_current_thread', stat', priority')
        /\ stat[t] = "SUSPEND" /\ stat'[t] = "READY" /\ error'[t] = "ETIMEOUT"
        /\ \A x \in Threads : x # t => stat'[x] = stat[x] /\ error'[x] = error[x]
    BY <1>0, ExpireKeeps
  <1>2. \A o : For(stat', call', o) \subseteq For(stat, call, o)
    BY <1>0, <1>1 DEF For
  <1>3. ASSUME NEW o \in Objects, suspended[o] = <<>> PROVE suspended'[o] = <<>>
    <2>1. Holds(suspended[o], For(stat, call, o)) /\ Holds(suspended'[o], For(stat', call', o))
      BY <1>0, <1>1 DEF KernelInv, Queues, WaitIs
    <2>2. For(stat, call, o) = {}
      BY <1>3, <2>1, HoldsNone
    <2>3. For(stat', call', o) = {}
      BY <1>2, <2>2
    <2> QED  BY <2>1, <2>3, HoldsNone
  <1>4. SemInv'
    <2>1. Handed' = Handed
      BY <1>0, <1>1 DEF Handed
    <2> QED  BY <1>0, <1>3, <2>1, NamesDiffer DEF SemInv, TokensKept, semVars
  <1>5. MutexInv'
    <2>0. UNCHANGED <<owner, hold, original_priority, got, call>>
      BY <1>0 DEF mutexVars
    <2>1. MutexShape'
      BY <1>0, <2>0 DEF MutexInv, MutexShape
    <2>2. OneHolder'
      BY <1>0, <1>3, <2>0, NamesDiffer DEF MutexInv, OneHolder
    <2>3. Granted'
      BY <1>0, <1>1, <2>0 DEF MutexInv, Granted
    <2> QED  BY <2>1, <2>2, <2>3 DEF MutexInv
  <1>6. EventInv'
    BY <1>0, <1>1, <1>2, EventSame
  <1> QED  BY <1>1, <1>4, <1>5, <1>6, LeavingRuns DEF IInv

\* The threads are started, the objects are free.
LEMMA InitIInv == Init => IInv
  <1> SUFFICES ASSUME Init PROVE IInv
    OBVIOUS
  <1>1. KernelInv /\ MostUrgentRunsUnlocked
    BY KernelInit
  <1>2. /\ call = [t \in Threads |-> "none"] /\ suspended = [o \in Objects |-> <<>>]
        /\ value \in {0, 1} /\ balance = value
        /\ owner = [m \in Mutexes |-> None] /\ hold = [m \in Mutexes |-> 0]
        /\ original_priority = [m \in Mutexes |-> NoPriority]
        /\ got = [t \in Threads |-> [m \in Mutexes |-> 0]] /\ set = {}
        /\ event_set = [t \in Threads |-> {}] /\ event_info = [t \in Threads |-> {}]
    BY DEF Init
  <1>3. SemInv
    <2>1. Handed = {}
      BY <1>2 DEF Handed
    <2>2. suspended["sem"] = <<>>
      BY <1>2, NamesDiffer
    <2> QED  BY <1>2, <2>1, <2>2, FS_EmptySet, IpcAssumption DEF SemInv, TokensKept
  <1>4. MutexInv
    <2>1. MutexShape
      BY <1>2, IpcAssumption DEF MutexShape
    <2>2. \A m \in Mutexes : /\ owner[m] = None /\ hold[m] = 0 /\ suspended[m] = <<>>
                             /\ \A t \in Threads : got[t][m] = 0 /\ call[t] # m
      BY <1>2, NamesDiffer
    <2> QED  BY <2>1, <2>2 DEF MutexInv, OneHolder, Granted
  <1>5. EventInv
    <2>1. suspended["event"] = <<>>
      BY <1>2, NamesDiffer
    <2> QED  BY <1>2, <2>1 DEF EventInv, EventShape, NoLostEvent
  <1> QED  BY <1>1, <1>3, <1>4, <1>5 DEF IInv

\* Every step keeps the invariant.
LEMMA StepIInv == IInv /\ [Next]_vars => IInv'
  <1> SUFFICES ASSUME IInv, [Next]_vars PROVE IInv'
    OBVIOUS
  <1>1. CASE UNCHANGED vars
    <2>1. UNCHANGED <<threadVars, object, flag, call, suspended>> /\ UNCHANGED <<semVars, mutexVars, eventVars>>
      BY <1>1 DEF vars
    <2>2. KernelInv /\ SemInv /\ MutexInv /\ EventInv /\ MostUrgentRunsUnlocked
      BY DEF IInv
    <2>3. KernelInv' /\ \A o : Same(o)
      BY <2>1, <2>2, KernelSame
    <2>4. SemInv' /\ MutexInv' /\ EventInv'
      BY <2>1, <2>2, <2>3, SemSame, MutexSame, EventSame, SameFor
    <2>5. MostUrgentRunsUnlocked'
      BY <2>1, <2>2, SameRuns DEF threadVars
    <2> QED  BY <2>3, <2>4, <2>5 DEF IInv
  <1>2. CASE TimeSlice /\ KernelOnly
    BY <1>2, ScheduleStep
  <1>3. ASSUME NEW t \in Threads, rt_schedule(t) /\ KernelOnly PROVE IInv'
    BY <1>3, ScheduleStep
  <1>4. ASSUME NEW t \in Threads, rt_sem_take(t) \/ rt_sem_release(t) \/ rt_sem_control(t) PROVE IInv'
    BY <1>4, SemTakeStep, SemReleaseStep, SemControlStep
  <1>5. ASSUME NEW t \in Threads, NEW m \in Mutexes, rt_mutex_take(t, m) \/ rt_mutex_release(t, m) PROVE IInv'
    BY <1>5, MutexTakeStep, MutexReleaseStep
  <1>6. ASSUME NEW t \in Threads, rt_event_recv(t) \/ rt_event_send(t) \/ rt_event_control(t) PROVE IInv'
    BY <1>6, EventRecvStep, EventSendStep, EventControlStep
  <1>7. ASSUME NEW t \in Threads, rt_thread_sleep(t) \/ Return(t) \/ Expire(t) PROVE IInv'
    BY <1>7, SleepStep, ReturnStep, ExpireStep
  <1> QED  BY <1>1, <1>2, <1>3, <1>4, <1>5, <1>6, <1>7 DEF Next

\* The invariant the properties follow from.
THEOREM IpcInvariant == Spec => []IInv
  BY InitIInv, StepIInv, PTL DEF Spec
------------------------------------------------------------------------------
(* The properties. *)

\* A queue that holds a thread has it at one place.
LEMMA HoldsCount ==
  ASSUME NEW q, NEW A, Holds(q, A), NEW t
  PROVE  Cardinality({i \in 1..Len(q) : q[i] = t}) = IF t \in A THEN 1 ELSE 0
  <1>1. Distinct(q) /\ A = {q[i] : i \in 1..Len(q)}
    BY DEF Holds, Members
  <1>2. CASE t \in A
    <2>1. PICK j \in 1..Len(q) : q[j] = t
      BY <1>1, <1>2
    <2>2. {i \in 1..Len(q) : q[i] = t} = {j}
      BY <1>1, <2>1 DEF Distinct
    <2> QED  BY <1>2, <2>2, FS_Singleton
  <1>3. CASE t \notin A
    <2>1. {i \in 1..Len(q) : q[i] = t} = {}
      BY <1>1, <1>3
    <2> QED  BY <1>3, <2>1, FS_EmptySet
  <1> QED  BY <1>2, <1>3

\* A queue that holds a set of threads has each of them once.
LEMMA IInvQueuedOnce == IInv => QueuedOnce
  <1> SUFFICES ASSUME IInv PROVE QueuedOnce
    OBVIOUS
  <1>0. KernelInv /\ SemInv /\ MutexInv /\ EventInv
    BY DEF IInv
  <1>1. balance \in 0..(MaxValue + Cardinality(Threads))
    <2>1. value \in 0..MaxValue /\ balance = value + Cardinality(Handed)
      BY <1>0 DEF SemInv, TokensKept
    <2>2. MaxValue \in Nat /\ Cardinality(Threads) \in Nat
      BY IpcAssumption, ThreadAssumption, FS_CardinalityType
    <2> DEFINE h == Cardinality(Handed)
               n == Cardinality(Threads)
    <2>3. h \in Nat /\ h <= n
      BY HandedCounts
    <2> HIDE DEF h, n
    <2>4. balance = value + h /\ n \in Nat
      BY <2>1, <2>2 DEF h, n
    <2>5. balance \in 0..(MaxValue + n)
      BY <2>1, <2>2, <2>3, <2>4
    <2> QED  BY <2>5 DEF n
  <1>2. TypeOK
    BY <1>0, <1>1 DEF TypeOK, KernelInv, Shape, SemInv, MutexInv, MutexShape, EventInv, EventShape
  <1>3. ASSUME NEW t \in Threads, NEW p \in Priorities
        PROVE  Cardinality({i \in 1..Len(ready[p]) : ready[p][i] = t}) = IF stat[t] = "READY" /\ p = priority[t] THEN 1 ELSE 0
    <2>1. Holds(ready[p], At(stat, priority, p))
      BY <1>0 DEF KernelInv, Queues, ReadyIs
    <2>2. t \in At(stat, priority, p) <=> stat[t] = "READY" /\ p = priority[t]
      BY DEF At
    <2> QED  BY <2>1, <2>2, HoldsCount
  <1>4. ASSUME NEW t \in Threads, NEW o \in Objects
        PROVE  Cardinality({i \in 1..Len(suspended[o]) : suspended[o][i] = t}) = IF stat[t] = "SUSPEND" /\ o = call[t] THEN 1 ELSE 0
    <2>1. Holds(suspended[o], For(stat, call, o))
      BY <1>0 DEF KernelInv, Queues, WaitIs
    <2>2. t \in For(stat, call, o) <=> stat[t] = "SUSPEND" /\ o = call[t]
      BY DEF For
    <2> QED  BY <2>1, <2>2, HoldsCount
  <1>5. \A t \in Threads : timer[t] => stat[t] = "SUSPEND"
    BY <1>0 DEF KernelInv, Waits
  <1> QED  BY <1>2, <1>3, <1>4, <1>5 DEF QueuedOnce

\* rt_thread_suspend, rt_thread_resume, rt_thread_timeout, a change of priority and
\* rt_ipc_list_suspend leave every thread in exactly one queue, the one its state names,
\* for any number of threads and priorities.
THEOREM ThreadsQueuedOnce == Spec => []QueuedOnce
  BY IpcInvariant, IInvQueuedOnce, PTL

\* rt_sem_take, rt_sem_release, a reset and timeouts neither lose nor invent a token.
THEOREM TokensAreKept == Spec => []TokensKept
  <1>1. IInv => TokensKept
    BY DEF IInv, SemInv
  <1> QED  BY <1>1, IpcInvariant, PTL

\* A mutex has one holder, and takes and releases balance, for any number of mutexes.
THEOREM MutexHasOneHolder == Spec => []OneHolder
  <1>1. IInv => OneHolder
    BY DEF IInv, MutexInv
  <1> QED  BY <1>1, IpcInvariant, PTL

\* rt_event_send resumes every thread whose bits are there.
THEOREM EventsAreNotLost == Spec => []NoLostEvent
  <1>1. IInv => NoLostEvent
    BY DEF IInv, EventInv
  <1> QED  BY <1>1, IpcInvariant, PTL

\* Where no mutex is involved the most urgent ready thread runs, whatever interrupts come
\* between the wake-up of a thread and the rt_schedule that follows it.
THEOREM MostUrgentThreadRuns == Spec => []MostUrgentRunsUnlocked
  <1>1. IInv => MostUrgentRunsUnlocked
    BY DEF IInv
  <1> QED  BY <1>1, IpcInvariant, PTL
------------------------------------------------------------------------------
(* The priority a mutex lends, with one mutex: a thread that holds two gets back what was *)
(* noted when it took the second, and PriorityGivenBack does not hold. *)

OneMutex == \A m, n \in Mutexes : m = n

\* A step that leaves priorities and owners alone and lets no thread begin to wait.
LEMMA InheritSame ==
  ASSUME InheritInv, UNCHANGED <<priority, base, flag, owner, original_priority>>,
         \A m \in Mutexes : /\ InOrderOf(suspended'[m], suspended[m])
                            /\ Members(suspended'[m]) \subseteq Members(suspended[m])
  PROVE  InheritInv'
  <1>1. PriorityGivenBack'
    BY DEF InheritInv, PriorityGivenBack
  <1>2. ASSUME NEW m \in Mutexes, flag = "PRIO", NEW i \in 1..Len(suspended'[m])
        PROVE  priority[owner[m]] <= priority[suspended'[m][i]]
    <2>1. suspended'[m][i] \in Members(suspended[m])
      BY DEF Members
    <2>2. PICK j \in 1..Len(suspended[m]) : suspended'[m][i] = suspended[m][j]
      BY <2>1 DEF Members
    <2> QED  BY <1>2, <2>2 DEF InheritInv, NoInversionByPriority, NoInversion
  <1>3. ASSUME NEW m \in Mutexes, flag = "PRIO", NEW i \in 1..Len(suspended'[m]), NEW j \in 1..Len(suspended'[m]), i < j
        PROVE  priority[suspended'[m][i]] <= priority[suspended'[m][j]]
    <2>1. PICK k \in 1..Len(suspended[m]), l \in 1..Len(suspended[m]) :
            k < l /\ suspended[m][k] = suspended'[m][i] /\ suspended[m][l] = suspended'[m][j]
      BY <1>3 DEF InOrderOf
    <2> QED  BY <1>3, <2>1 DEF InheritInv, Sorted
  <1>4. NoInversionByPriority'
    BY <1>2 DEF NoInversionByPriority, NoInversion
  <1>5. ASSUME NEW m \in Mutexes PROVE (flag' = "PRIO" => Sorted(suspended[m])')
    BY <1>3 DEF Sorted
  <1> QED  BY <1>1, <1>4, <1>5 DEF InheritInv

\* A list keeps the order of itself.
LEMMA InOrderOfItself ==
  ASSUME NEW q
  PROVE  InOrderOf(q, q)
  BY DEF InOrderOf

\* Steps that leave priorities and mutexes alone.
LEMMA InheritUnmoved ==
  ASSUME InheritInv, UNCHANGED <<priority, base, flag, owner, original_priority>>,
         \A m \in Mutexes : suspended'[m] = suspended[m]
  PROVE  InheritInv'
  BY InheritSame, InOrderOfItself

\* Who waits for the mutex does not own it.
LEMMA WaiterIsNoOwner ==
  ASSUME KernelInv, MutexInv, NEW m \in Mutexes, NEW i \in 1..Len(suspended[m])
  PROVE  suspended[m][i] \in Threads /\ suspended[m][i] # owner[m] /\ suspended[m][i] \in For(stat, call, m)
  <1>1. Holds(suspended[m], For(stat, call, m))
    BY DEF KernelInv, Queues, WaitIs, Objects
  <1>2. suspended[m][i] \in For(stat, call, m)
    BY <1>1 DEF Holds, Members
  <1> QED  BY <1>2 DEF For, MutexInv, Granted

\* rt_mutex_take: a more urgent caller raises the owner.
LEMMA InheritTake ==
  ASSUME OneMutex, IInv, InheritInv, NEW t \in Threads, NEW m \in Mutexes, rt_mutex_take(t, m)
  PROVE  InheritInv'
  <1>0. /\ KernelInv /\ MutexInv /\ PriorityGivenBack /\ NoInversionByPriority
        /\ owner \in [Mutexes -> Threads \cup {None}] /\ \A n \in Mutexes : n = m
        /\ original_priority \in [Mutexes -> Priorities \cup {NoPriority}]
        /\ priority \in [Threads -> Priorities] /\ Running(t) /\ call[t] = "none" /\ t # None
    BY ThreadAssumption DEF IInv, InheritInv, OneMutex, MutexInv, MutexShape, KernelInv, Shape, ThreadTypeOK, rt_mutex_take, Free, None
  <1>1. CASE owner[m] = t /\ UNCHANGED <<threadVars, object, flag, call, suspended, owner, original_priority>>
    BY <1>1, InheritUnmoved DEF threadVars
  <1>2. CASE owner[m] = None /\ Take(t, m) /\ UNCHANGED <<threadVars, object, flag, call, suspended>>
    <2>1. /\ owner'[m] = t /\ original_priority'[m] = priority[t] /\ UNCHANGED <<priority, base, suspended>>
      BY <1>0, <1>2 DEF Take, threadVars
    <2>2. suspended[m] = <<>>
      BY <1>0, <1>2 DEF MutexInv, OneHolder
    <2>3. priority[t] = base[t]
      BY <1>0, <1>2 DEF PriorityGivenBack
    <2>4. PriorityGivenBack'
      <3> SUFFICES ASSUME NEW x \in Threads, \A n \in Mutexes : owner'[n] # x PROVE priority[x] = base[x]
        BY <2>1 DEF PriorityGivenBack
      <3> QED  BY <1>0, <1>2, ThreadAssumption DEF PriorityGivenBack, None
    <2>5. NoInversionByPriority' /\ \A n \in Mutexes : Sorted(suspended[n])'
      BY <1>0, <2>1, <2>2 DEF NoInversionByPriority, NoInversion, Sorted
    <2> QED  BY <1>0, <2>1, <2>3, <2>4, <2>5 DEF InheritInv
  <1>3. CASE owner[m] \notin {t, None} /\ \E timed \in BOOLEAN : BlockOn(t, m, timed)
    <2> DEFINE o == owner[m]
               q == suspended[m]
    <2>1. /\ priority' = IF priority[t] < priority[o] THEN [priority EXCEPT ![o] = priority[t]] ELSE priority
          /\ suspended' = [suspended EXCEPT ![m] = Enqueue(@, t)] /\ UNCHANGED <<base, flag, owner, original_priority>>
      BY <1>3 DEF BlockOn, Raised, mutexVars
    <2>2. o \in Threads /\ o # t /\ q \in Seq(Threads) /\ suspended'[m] = Enqueue(q, t)
      BY <1>0, <1>3, <2>1, NamesDiffer DEF KernelInv, Shape
    <2>3. \A i \in 1..Len(q) : q[i] \in Threads /\ q[i] # o
      BY <1>0, WaiterIsNoOwner
    <2>4. \A x \in Threads : x # o => priority'[x] = priority[x]
      BY <1>0, <2>1
    <2>5. \A x \in Threads : priority[x] \in Nat
      BY <1>0, ThreadAssumption
    <2>6. priority'[o] \in Nat /\ priority'[o] <= priority[o] /\ priority'[o] <= priority[t]
      BY <1>0, <2>1, <2>2, <2>5
    <2>7. PriorityGivenBack'
      <3> SUFFICES ASSUME NEW x \in Threads, \A n \in Mutexes : owner'[n] # x PROVE priority'[x] = base'[x]
        BY DEF PriorityGivenBack
      <3>1. x # o /\ \A n \in Mutexes : owner[n] # x
        BY <2>1
      <3> QED  BY <1>0, <2>1, <2>4, <3>1 DEF PriorityGivenBack
    <2> DEFINE e == Enqueue(q, t)
    <2>8. PICK i \in 1..(Len(q) + 1) :
             /\ PutAt(e, q, t, i)
             /\ flag # "FIFO" => /\ \A j \in 1..(i - 1) : priority[q[j]] <= priority[t]
                                 /\ i <= Len(q) => priority[t] < priority[q[i]]
      <3> HIDE DEF q
      <3> QED  BY <1>0, <2>2, EnqueuePuts
    <2>9. /\ Len(q) \in Nat /\ i \in Nat /\ i >= 1 /\ i <= Len(q) + 1
          /\ Len(e) = Len(q) + 1 /\ e[i] = t
          /\ \A j \in 1..(i - 1) : e[j] = q[j]
          /\ \A j \in (i + 1)..(Len(q) + 1) : e[j] = q[j - 1]
      BY <2>2, <2>8 DEF PutAt
    <2> HIDE DEF e, q, o
    <2>10. ASSUME NEW j \in 1..Len(e) PROVE \/ j = i /\ e[j] = t
                                            \/ j < i /\ j \in 1..Len(q) /\ e[j] = q[j]
                                            \/ j > i /\ j - 1 \in 1..Len(q) /\ e[j] = q[j - 1]
      <3>1. CASE j < i
        BY <2>9, <3>1
      <3>2. CASE j > i
        BY <2>9, <3>2
      <3> QED  BY <2>9, <3>1, <3>2
    <2>11. ASSUME flag = "PRIO", NEW j \in 1..Len(q) PROVE priority[o] <= priority[q[j]]
      BY <1>0, <2>11 DEF NoInversionByPriority, NoInversion, o, q
    <2>12. ASSUME flag = "PRIO", NEW j \in 1..Len(e) PROVE priority'[o] <= priority'[e[j]]
      <3>1. CASE e[j] = t
        BY <2>2, <2>4, <2>6, <3>1
      <3>2. ASSUME NEW k \in 1..Len(q), e[j] = q[k] PROVE priority'[o] <= priority'[e[j]]
        <4>1. priority[o] <= priority[q[k]] /\ priority'[q[k]] = priority[q[k]] /\ priority[q[k]] \in Nat /\ priority[o] \in Nat
          BY <2>2, <2>3, <2>4, <2>5, <2>11, <2>12
        <4> QED  BY <2>6, <3>2, <4>1
      <3> QED  BY <2>10, <3>1, <3>2
    <2>13. ASSUME flag = "PRIO", NEW j \in 1..Len(e), NEW k \in 1..Len(e), j < k PROVE priority'[e[j]] <= priority'[e[k]]
      <3>0. \A x, y \in 1..Len(q) : x < y => priority[q[x]] <= priority[q[y]]
        BY <2>13 DEF InheritInv, Sorted, q
      <3>n. \A x \in 1..Len(q) : priority'[q[x]] = priority[q[x]] /\ priority[q[x]] \in Nat
        BY <2>3, <2>4, <2>5
      <3>t. priority'[t] = priority[t] /\ priority[t] \in Nat
        BY <2>2, <2>4, <2>5
      <3>p. /\ \A x \in 1..(i - 1) : priority[q[x]] <= priority[t]
            /\ i <= Len(q) => priority[t] < priority[q[i]]
        BY <2>8, <2>13
      <3>1. CASE j < i /\ k < i
        <4>1. j \in 1..Len(q) /\ e[j] = q[j] /\ k \in 1..Len(q) /\ e[k] = q[k] /\ j < k
          BY <2>9, <2>10, <2>13, <3>1
        <4> QED  BY <3>0, <3>n, <4>1
      <3>2. CASE j < i /\ k = i
        <4>1. j \in 1..(i - 1) /\ e[j] = q[j] /\ e[k] = t /\ j \in 1..Len(q)
          BY <2>9, <2>10, <3>2
        <4> QED  BY <3>n, <3>t, <3>p, <4>1
      <3>3. CASE j < i /\ k > i
        <4>1. j \in 1..Len(q) /\ e[j] = q[j] /\ k - 1 \in 1..Len(q) /\ e[k] = q[k - 1] /\ j < k - 1
          BY <2>9, <2>10, <3>3
        <4> QED  BY <3>0, <3>n, <4>1
      <3>4. CASE j = i
        <4>1. e[j] = t /\ k > i /\ k - 1 \in 1..Len(q) /\ e[k] = q[k - 1] /\ i \in 1..Len(q) /\ (i = k - 1 \/ i < k - 1)
          BY <2>9, <2>10, <2>13, <3>4
        <4>2. priority[t] < priority[q[i]]
          BY <3>p, <4>1
        <4>3. priority[q[i]] <= priority[q[k - 1]]
          BY <3>0, <3>n, <4>1
        <4>4. priority[q[i]] \in Nat /\ priority[q[k - 1]] \in Nat /\ priority'[q[k - 1]] = priority[q[k - 1]]
          BY <3>n, <4>1
        <4>5. priority[t] <= priority[q[k - 1]]
          BY ONLY <3>t, <4>2, <4>3, <4>4
        <4> QED  BY ONLY <3>t, <4>1, <4>4, <4>5
      <3>5. CASE j > i
        <4>1. j - 1 \in 1..Len(q) /\ e[j] = q[j - 1] /\ k - 1 \in 1..Len(q) /\ e[k] = q[k - 1] /\ j - 1 < k - 1
          BY <2>9, <2>10, <2>13, <3>5
        <4> QED  BY <3>0, <3>n, <4>1
      <3> QED  BY <2>9, <3>1, <3>2, <3>3, <3>4, <3>5
    <2>14. suspended'[m] = e /\ owner'[m] = o
      BY <2>1, <2>2 DEF e, o
    <2>15. NoInversionByPriority'
      BY <1>0, <2>1, <2>12, <2>14 DEF NoInversionByPriority, NoInversion
    <2>16. flag' = "PRIO" => Sorted(suspended[m])'
      BY <2>1, <2>13, <2>14 DEF Sorted
    <2>17. owner'[m] # None => original_priority'[m] = base'[owner'[m]]
      BY <2>1 DEF InheritInv
    <2> QED  BY <1>0, <2>7, <2>15, <2>16, <2>17 DEF InheritInv
  <1> QED  BY <1>1, <1>2, <1>3 DEF rt_mutex_take

\* rt_mutex_release: the owner comes down, and the next one is the most urgent waiter.
LEMMA InheritRelease ==
  ASSUME OneMutex, IInv, InheritInv, NEW t \in Threads, NEW m \in Mutexes, rt_mutex_release(t, m)
  PROVE  InheritInv'
  <1>0. /\ KernelInv /\ MutexInv /\ PriorityGivenBack /\ NoInversionByPriority
        /\ owner \in [Mutexes -> Threads \cup {None}] /\ \A n \in Mutexes : n = m
        /\ original_priority \in [Mutexes -> Priorities \cup {NoPriority}]
        /\ priority \in [Threads -> Priorities] /\ owner[m] = t /\ t # None /\ UNCHANGED flag
        /\ original_priority[m] = base[t]
    BY ThreadAssumption DEF IInv, InheritInv, OneMutex, MutexInv, MutexShape, KernelInv, Shape, ThreadTypeOK, rt_mutex_release, None
  <1>1. CASE hold[m] > 1
    BY <1>0, <1>1, InheritUnmoved DEF rt_mutex_release, threadVars
  <1>2. CASE ~(hold[m] > 1)
    <2>1. priority' = [priority EXCEPT ![t] = base[t]] /\ HandOver(t, m) /\ UNCHANGED base
      BY <1>0, <1>2 DEF rt_mutex_release, Restored
    <2>2. priority'[t] = base[t] /\ \A x \in Threads : x # t => priority'[x] = priority[x]
      BY <1>0, <2>1
    <2>3. \A x \in Threads : priority'[x] = base'[x]
      <3>1. ASSUME NEW x \in Threads, x # t PROVE priority[x] = base[x]
        BY <1>0, <3>1 DEF PriorityGivenBack
      <3> QED  BY <2>1, <2>2, <3>1
    <2>4. PriorityGivenBack'
      BY <2>3 DEF PriorityGivenBack
    <2>5. CASE suspended[m] = <<>>
      <3>1. owner'[m] = None /\ suspended'[m] = <<>>
        BY <1>0, <2>1, <2>5 DEF HandOver
      <3>2. NoInversionByPriority' /\ Sorted(suspended[m])'
        BY <1>0, <3>1 DEF NoInversionByPriority, NoInversion, Sorted
      <3> QED  BY <1>0, <2>4, <3>1, <3>2 DEF InheritInv
    <2>6. CASE suspended[m] # <<>>
      <3> DEFINE q == suspended[m]
                 w == Head(q)
      <3>1. owner'[m] = w /\ original_priority'[m] = priority[w] /\ suspended'[m] = Tail(q)
        <4>1. m \in Objects /\ suspended \in [Objects -> Seq(Threads)]
          BY <1>0, NamesDiffer DEF KernelInv, Shape
        <4> QED  BY <1>0, <2>1, <2>6, <4>1 DEF HandOver
      <3>2. /\ q \in Seq(Threads) /\ w = q[1] /\ Len(q) \in Nat /\ Len(q) > 0 /\ Len(Tail(q)) = Len(q) - 1
            /\ \A i \in 1..(Len(q) - 1) : Tail(q)[i] = q[i + 1]
        <4>1. q \in Seq(Threads)
          BY <1>0, NamesDiffer DEF KernelInv, Shape
        <4> QED  BY <2>6, <4>1, HeadTailProperties
      <3>3. \A i \in 1..Len(q) : q[i] \in Threads /\ q[i] # t /\ priority'[q[i]] = priority[q[i]]
        BY <1>0, <2>2, WaiterIsNoOwner
      <3> HIDE DEF q, w
      <3>4. ASSUME flag = "PRIO", NEW i \in 1..Len(q), NEW j \in 1..Len(q), i < j PROVE priority'[q[i]] <= priority'[q[j]]
        <4>1. priority[q[i]] <= priority[q[j]]
          BY <3>4 DEF InheritInv, Sorted, q
        <4> QED  BY <3>3, <4>1
      <3>5. \A i \in 1..Len(Tail(q)) : /\ i + 1 \in 1..Len(q) /\ 1 \in 1..Len(q) /\ 1 < i + 1
                                       /\ Tail(q)[i] = q[i + 1]
        BY <3>2
      <3>6. NoInversionByPriority'
        <4>1. ASSUME flag = "PRIO", NEW i \in 1..Len(Tail(q)) PROVE priority'[w] <= priority'[Tail(q)[i]]
          BY <3>2, <3>4, <3>5, <4>1
        <4> QED  BY <1>0, <3>1, <4>1 DEF NoInversionByPriority, NoInversion
      <3>7. flag' = "PRIO" => Sorted(suspended[m])'
        <4>1. ASSUME flag = "PRIO", NEW i \in 1..Len(Tail(q)), NEW j \in 1..Len(Tail(q)), i < j
              PROVE  priority'[Tail(q)[i]] <= priority'[Tail(q)[j]]
          <5>1. i + 1 \in 1..Len(q) /\ j + 1 \in 1..Len(q) /\ i + 1 < j + 1
            BY <3>2, <3>5, <4>1
          <5> QED  BY <3>4, <3>5, <4>1, <5>1
        <4> QED  BY <1>0, <3>1, <4>1 DEF Sorted
      <3>8. original_priority'[m] = base'[w]
        <4>1. w \in Threads /\ w # t /\ priority'[w] = priority[w]
          BY <3>2, <3>3
        <4> QED  BY <2>3, <3>1, <4>1
      <3> QED  BY <1>0, <2>4, <3>1, <3>6, <3>7, <3>8 DEF InheritInv
    <2> QED  BY <2>5, <2>6
  <1> QED  BY <1>1, <1>2

\* A wait that times out leaves the owner where it is.
LEMMA InheritExpire ==
  ASSUME KernelInv, InheritInv, NEW t \in Threads, Expire(t)
  PROVE  InheritInv'
  <1>1. UNCHANGED <<priority, base, flag, owner, original_priority>>
    BY DEF Expire, Timeout, mutexVars
  <1>2. ASSUME NEW m \in Mutexes
        PROVE  InOrderOf(suspended'[m], suspended[m]) /\ Members(suspended'[m]) \subseteq Members(suspended[m])
    <2>1. suspended'[m] = Among(suspended[m], Threads \ {t}) /\ suspended[m] \in Seq(Threads)
      BY NamesDiffer DEF Expire, Without, KernelInv, Shape
    <2> QED  BY <2>1, AmongKeeps
  <1> QED  BY <1>1, <1>2, InheritSame

\* The steps that are not about a mutex leave its list alone.
LEMMA InheritOther ==
  ASSUME KernelInv, InheritInv, NEW t \in Threads,
         \/ rt_sem_take(t) \/ rt_sem_release(t) \/ rt_sem_control(t)
         \/ rt_event_recv(t) \/ rt_event_send(t) \/ rt_event_control(t)
         \/ rt_thread_sleep(t) \/ Return(t)
  PROVE  InheritInv'
  <1>0. suspended \in [Objects -> Seq(Threads)]
    BY DEF KernelInv, Shape
  <1>1. ASSUME NEW o \in Objects, o \notin Mutexes, NEW q, suspended' = [suspended EXCEPT ![o] = q],
               UNCHANGED <<priority, base, flag, owner, original_priority>>
        PROVE  InheritInv'
    <2>1. \A m \in Mutexes : suspended'[m] = suspended[m]
      BY <1>0, <1>1, NamesDiffer
    <2> QED  BY <1>1, <2>1, InheritUnmoved
  <1>2. ASSUME UNCHANGED <<priority, base, flag, owner, original_priority, suspended>> PROVE InheritInv'
    BY <1>2, InheritUnmoved
  <1>3. ASSUME NEW o \in Objects, o \notin Mutexes, NEW timed, Block(t, o, timed), UNCHANGED <<priority, owner, original_priority>>
        PROVE  InheritInv'
    BY <1>0, <1>1, <1>3 DEF Block, SuspendSelf
  <1>4. ASSUME NEW o \in Objects, o \notin Mutexes, NEW queue, Wake(t, queue, o), UNCHANGED <<owner, original_priority>>
        PROVE  InheritInv'
    BY <1>0, <1>1, <1>4 DEF Wake
  <1>n. /\ "sem" \in Objects /\ "sem" \notin Mutexes /\ "event" \in Objects /\ "event" \notin Mutexes
        /\ "sleep" \in Objects /\ "sleep" \notin Mutexes
    BY NamesDiffer
  <1>5. CASE rt_sem_take(t)
    BY <1>2, <1>3, <1>n, <1>5 DEF rt_sem_take, threadVars, mutexVars
  <1>6. CASE rt_sem_release(t)
    BY <1>2, <1>4, <1>n, <1>6 DEF rt_sem_release, threadVars, mutexVars
  <1>7. CASE rt_sem_control(t)
    BY <1>4, <1>n, <1>7 DEF rt_sem_control, Refuse, mutexVars
  <1>8. CASE rt_event_recv(t)
    BY <1>2, <1>3, <1>n, <1>8 DEF rt_event_recv, threadVars, mutexVars
  <1>9. CASE rt_event_send(t)
    <2>1. PICK s : ResumeAll(t, s)
      BY <1>9 DEF rt_event_send, ResumeWaiters
    <2>2. UNCHANGED <<owner, original_priority>>
      BY <1>9 DEF rt_event_send, mutexVars
    <2> QED  BY <1>2, <1>4, <1>n, <2>1, <2>2 DEF ResumeAll
  <1>10. CASE rt_event_control(t)
    BY <1>4, <1>n, <1>10 DEF rt_event_control, Refuse, mutexVars
  <1>11. CASE rt_thread_sleep(t)
    BY <1>3, <1>n, <1>11 DEF rt_thread_sleep, mutexVars
  <1>12. CASE Return(t)
    BY <1>2, <1>12 DEF Return
  <1> QED  BY <1>5, <1>6, <1>7, <1>8, <1>9, <1>10, <1>11, <1>12

\* No mutex is held at the start.
LEMMA InitInherit == Init => InheritInv
  <1> SUFFICES ASSUME Init PROVE InheritInv
    OBVIOUS
  <1>1. /\ priority = base /\ suspended = [o \in Objects |-> <<>>] /\ owner = [m \in Mutexes |-> None]
    BY DEF Init, ThreadInit
  <1>2. \A m \in Mutexes : suspended[m] = <<>> /\ owner[m] = None
    BY <1>1, NamesDiffer
  <1> QED  BY <1>1, <1>2 DEF InheritInv, PriorityGivenBack, NoInversionByPriority, NoInversion, Sorted

\* Every step keeps what a single mutex has lent.
LEMMA StepInherit == OneMutex /\ IInv /\ InheritInv /\ [Next]_vars => InheritInv'
  <1> SUFFICES ASSUME OneMutex, IInv, InheritInv, [Next]_vars PROVE InheritInv'
    OBVIOUS
  <1>0. KernelInv
    BY DEF IInv
  <1>1. CASE UNCHANGED vars
    BY <1>1, InheritUnmoved DEF vars, threadVars, mutexVars
  <1>2. CASE TimeSlice /\ KernelOnly
    BY <1>2, InheritUnmoved DEF TimeSlice, KernelOnly, mutexVars
  <1>3. ASSUME NEW t \in Threads, rt_schedule(t) /\ KernelOnly PROVE InheritInv'
    BY <1>3, InheritUnmoved DEF rt_schedule, KernelOnly, mutexVars
  <1>4. ASSUME NEW t \in Threads, NEW m \in Mutexes, rt_mutex_take(t, m) \/ rt_mutex_release(t, m) PROVE InheritInv'
    BY <1>4, InheritTake, InheritRelease
  <1>5. ASSUME NEW t \in Threads, Expire(t) PROVE InheritInv'
    BY <1>0, <1>5, InheritExpire
  <1> QED  BY <1>0, <1>1, <1>2, <1>3, <1>4, <1>5, InheritOther DEF Next

\* With one mutex, rt_mutex_take and rt_mutex_release keep the mutex and the priority it
\* lends together, for any number of threads and priorities: one holder, back at its own
\* priority once it holds nothing, and never less urgent than one that waits by priority.
THEOREM MutexIsSound ==
  ASSUME OneMutex
  PROVE  Spec => []MutexSound
  <1>1. Init => IInv /\ InheritInv
    BY InitIInv, InitInherit
  <1>2. IInv /\ InheritInv /\ [Next]_vars => (IInv /\ InheritInv)'
    BY StepIInv, StepInherit
  <1>3. IInv /\ InheritInv => MutexSound
    BY DEF IInv, MutexInv, InheritInv, MutexSound
  <1> QED  BY <1>1, <1>2, <1>3, PTL DEF Spec
==============================================================================
