------------------------------ MODULE RtThread ------------------------------
(***************************************************************************)
(* Threads and the scheduler of the kernel: Middlewares/RTOS/src           *)
(* scheduler.c, thread.c and clock.c.                                      *)
(*                                                                         *)
(* A part of the code between rt_hw_interrupt_disable and _enable is one   *)
(* step.  rt_schedule is a step of its own where the code enables          *)
(* interrupts before it calls it, so that an interrupt can come between.   *)
(* A priority is a number, a smaller one is more urgent.                   *)
(***************************************************************************)
EXTENDS Naturals, Sequences, FiniteSets

CONSTANTS
    Threads,
    Priorities,  \* 0..RT_THREAD_PRIORITY_MAX - 1
    Idle         \* the idle thread: always ready, below every priority

ASSUME ThreadAssumption ==
    /\ Idle \notin Threads /\ IsFiniteSet(Threads)
    /\ Priorities \subseteq Nat /\ IsFiniteSet(Priorities) /\ Priorities # {}

VARIABLES
    rt_current_thread,
    ready,       \* rt_thread_priority_table: priority -> queue of threads
    stat,        \* "READY" or "SUSPEND"
    priority,    \* current_priority
    timer,       \* thread_timer is running
    error,       \* thread->error
    leaving,     \* threads that are about to call rt_schedule
    base         \* init_priority; never changes

threadVars == <<rt_current_thread, ready, stat, priority, timer, error, leaving, base>>

Lowest(S) == CHOOSE x \in S : \A y \in S : x <= y
Members(queue) == {queue[i] : i \in 1..Len(queue)}

\* What is left of a queue when only the threads of S stay in it.
Among(queue, S) ==
    LET f[i \in 0..Len(queue)] ==
            IF i = 0 THEN <<>>
            ELSE IF queue[i] \in S THEN Append(f[i - 1], queue[i]) ELSE f[i - 1]
    IN f[Len(queue)]

Without(queue, t) == Among(queue, Threads \ {t})

\* rt_schedule_insert_thread and rt_schedule_remove_thread.
InsertReady(r, t, p) == [r EXCEPT ![p] = Append(@, t)]
RemoveReady(r, t) == [p \in Priorities |-> Without(r[p], t)]

\* rt_schedule switches to the head of the most urgent queue.
Urgent(r) == {p \in Priorities : r[p] # <<>>}
Highest(r) == IF Urgent(r) = {} THEN Idle ELSE Head(r[Lowest(Urgent(r))])

\* All threads are started, each at its own priority.
ThreadInit ==
    /\ base \in [Threads -> Priorities]
    /\ priority = base
    /\ ready \in [Priorities -> {q \in UNION {[1..n -> Threads] : n \in 0..Cardinality(Threads)} :
                                    Cardinality(Members(q)) = Len(q)}]
    /\ \A p \in Priorities : Members(ready[p]) = {t \in Threads : base[t] = p}
    /\ rt_current_thread = Highest(ready)
    /\ stat = [t \in Threads |-> "READY"]
    /\ timer = [t \in Threads |-> FALSE]
    /\ error = [t \in Threads |-> "EOK"]
    /\ leaving = {}

\* A thread runs its own code: it is the current one and has left rt_schedule.
Running(t) == rt_current_thread = t /\ t \notin leaving

rt_schedule(t) ==
    /\ rt_current_thread = t /\ t \in leaving
    /\ rt_current_thread' = Highest(ready)
    /\ leaving' = leaving \ {t}
    /\ UNCHANGED <<ready, stat, priority, timer, error, base>>

\* rt_thread_suspend of the caller, and its timer started if it waits for a time.
SuspendSelf(t, timed) ==
    /\ stat' = [stat EXCEPT ![t] = "SUSPEND"]
    /\ ready' = RemoveReady(ready, t)
    /\ timer' = [timer EXCEPT ![t] = timed]
    /\ leaving' = leaving \cup {t}
    /\ UNCHANGED <<rt_current_thread, base>>

\* rt_thread_resume of each thread of a queue, in order, at the priorities p.
ResumedReady(r, queue, p) ==
    [q \in Priorities |-> r[q] \o Among(queue, {t \in Threads : p[t] = q})]

Resume(queue, r, p) ==
    /\ ready' = ResumedReady(r, queue, p)
    /\ stat' = [t \in Threads |-> IF t \in Members(queue) THEN "READY" ELSE stat[t]]
    /\ timer' = [t \in Threads |-> timer[t] /\ t \notin Members(queue)]

\* RT_THREAD_CTRL_CHANGE_PRIORITY: a ready thread goes to the end of its new queue.
Requeued(r, t, p) ==
    IF stat[t] = "READY" THEN InsertReady(RemoveReady(r, t), t, p) ELSE r

\* The tick interrupt ends the time slice of the current thread: rt_thread_yield.
TimeSlice ==
    LET t == rt_current_thread
        p == priority[t]
    IN /\ t # Idle /\ stat[t] = "READY"
       /\ Len(ready[p]) > 1
       /\ ready' = [ready EXCEPT ![p] = Append(Without(@, t), t)]
       /\ rt_current_thread' = Highest(ready')
       /\ UNCHANGED <<stat, priority, timer, error, leaving, base>>

\* rt_thread_timeout, in the tick interrupt: the wait of t is over.
Timeout(t) ==
    /\ timer[t]
    /\ timer' = [timer EXCEPT ![t] = FALSE]
    /\ error' = [error EXCEPT ![t] = "ETIMEOUT"]
    /\ stat' = [stat EXCEPT ![t] = "READY"]
    /\ ready' = InsertReady(ready, t, priority[t])
    /\ rt_current_thread' = Highest(ready')
    /\ UNCHANGED <<priority, leaving, base>>

ThreadTypeOK ==
    /\ rt_current_thread \in Threads \cup {Idle}
    /\ ready \in [Priorities -> Seq(Threads)]
    /\ stat \in [Threads -> {"READY", "SUSPEND"}]
    /\ priority \in [Threads -> Priorities] /\ base \in [Threads -> Priorities]
    /\ timer \in [Threads -> BOOLEAN]
    /\ error \in [Threads -> {"EOK", "ETIMEOUT", "ERROR"}]
    /\ leaving \subseteq Threads
=============================================================================
