-------------------------------- MODULE RtIpc --------------------------------
(***************************************************************************)
(* The kernel objects the application uses, Middlewares/RTOS/src/ipc.c:    *)
(* semaphore, mutex and event, with waiting, timeouts and the priority     *)
(* inheritance of the mutex.  The threads are clients that call any        *)
(* operation at any time; which kind of object they share, and the order   *)
(* of its waiting list, is chosen once.                                    *)
(***************************************************************************)
EXTENDS RtThread, TLC

CONSTANTS
    Kinds,       \* the kinds of object that are looked at
    Mutexes,
    Bits,        \* the event bits
    Options,     \* how a thread may wait for bits: sets of "AND" and "CLEAR"
    MaxValue,    \* bound: the value of the semaphore
    MaxHold      \* bound: how deep a thread takes the same mutex

ASSUME IpcAssumption ==
    /\ Kinds \subseteq {"sem", "mutex", "event"} /\ Options \subseteq SUBSET {"AND", "CLEAR"}
    /\ Mutexes \cap {"none", "sem", "event", "sleep"} = {}
    /\ MaxValue \in Nat \ {0} /\ MaxHold \in Nat \ {0}

VARIABLES
    object,      \* the kind of object this behaviour is about
    flag,        \* RT_IPC_FLAG_FIFO or RT_IPC_FLAG_PRIO
    call,        \* the call a thread is blocked in, or "none"
    suspended,   \* the waiting lists: object -> queue of threads
    value,       \* of the semaphore
    owner, hold, original_priority,    \* of each mutex
    set,         \* of the event
    event_set, event_info,             \* what a waiting thread asks the event for
    balance,     \* history: the value set or released so far less the takes returned
    got          \* history: takes of a mutex that returned less the releases

semVars == <<value, balance>>
mutexVars == <<owner, hold, original_priority, got>>
eventVars == <<set, event_set, event_info>>
vars == <<threadVars, object, flag, call, suspended, semVars, mutexVars, eventVars>>

None == Idle
Objects == {"sem", "event", "sleep"} \cup Mutexes
NoPriority == 255                  \* original_priority of a free mutex

Init ==
    /\ ThreadInit
    /\ object \in Kinds
    /\ flag \in {"FIFO", "PRIO"}
    /\ call = [t \in Threads |-> "none"]
    /\ suspended = [o \in Objects |-> <<>>]
    /\ value \in IF object = "sem" THEN {0, 1} ELSE {0}
    /\ balance = value
    /\ owner = [m \in Mutexes |-> None] /\ hold = [m \in Mutexes |-> 0]
    /\ original_priority = [m \in Mutexes |-> NoPriority]
    /\ got = [t \in Threads |-> [m \in Mutexes |-> 0]]
    /\ set = {}
    /\ event_set = [t \in Threads |-> {}]
    /\ event_info = [t \in Threads |-> {}]
------------------------------------------------------------------------------
\* rt_ipc_list_suspend: at the end, or before the first less urgent thread.
Later(queue, p) == {i \in 1..Len(queue) : p < priority[queue[i]]}

Enqueue(queue, t) ==
    IF flag = "FIFO" \/ Later(queue, priority[t]) = {} THEN Append(queue, t)
    ELSE LET i == Lowest(Later(queue, priority[t]))
         IN SubSeq(queue, 1, i - 1) \o <<t>> \o SubSeq(queue, i, Len(queue))

\* The caller waits in the list of o, for a time or for ever.
Block(t, o, timed) ==
    /\ SuspendSelf(t, timed)
    /\ error' = [error EXCEPT ![t] = "EOK"]
    /\ suspended' = [suspended EXCEPT ![o] = Enqueue(@, t)]
    /\ call' = [call EXCEPT ![t] = o]
    /\ UNCHANGED <<object, flag>>

Free(t, kind) == object = kind /\ Running(t) /\ call[t] = "none"

\* Fault: rt_schedule is forgotten.
WakeOnly(t, queue, o) ==
    /\ Resume(queue, ready, priority)
    /\ suspended' = [suspended EXCEPT ![o] = Among(@, Threads \ Members(queue))]
    /\ UNCHANGED <<rt_current_thread, priority, base, object, flag, call, leaving>>

\* The threads of the queue are made ready, and the caller goes to rt_schedule.
Wake(t, queue, o) ==
    /\ Resume(queue, ready, priority)
    /\ suspended' = [suspended EXCEPT ![o] = Among(@, Threads \ Members(queue))]
    /\ leaving' = leaving \cup {t}
    /\ UNCHANGED <<rt_current_thread, priority, base, object, flag, call>>
------------------------------------------------------------------------------
\* Semaphore.
rt_sem_take(t) ==
    /\ Free(t, "sem")
    /\ \/ /\ value > 0
          /\ value' = value - 1 /\ balance' = balance - 1
          /\ UNCHANGED <<threadVars, object, flag, call, suspended>>
       \/ /\ value = 0
          /\ \E timed \in BOOLEAN : Block(t, "sem", timed)
          /\ UNCHANGED <<priority, semVars>>
    /\ UNCHANGED <<mutexVars, eventVars>>

\* Fault: the value is raised although a waiting thread gets the token.
rt_sem_release_twice(t) ==
    /\ Free(t, "sem") /\ value < MaxValue
    /\ balance' = balance + 1
    /\ IF suspended["sem"] # <<>>
       THEN Wake(t, <<Head(suspended["sem"])>>, "sem") /\ value' = value + 1 /\ UNCHANGED error
       ELSE /\ value' = value + 1
            /\ UNCHANGED <<threadVars, object, flag, call, suspended>>
    /\ UNCHANGED <<mutexVars, eventVars>>

rt_sem_release(t) ==
    /\ Free(t, "sem") /\ value < MaxValue
    /\ balance' = balance + 1
    /\ IF suspended["sem"] # <<>>
       THEN Wake(t, <<Head(suspended["sem"])>>, "sem") /\ UNCHANGED <<value, error>>
       ELSE /\ value' = value + 1
            /\ UNCHANGED <<threadVars, object, flag, call, suspended>>
    /\ UNCHANGED <<mutexVars, eventVars>>

\* rt_ipc_list_resume_all: every waiting thread returns with an error.
Refuse(t, o) ==
    /\ Wake(t, suspended[o], o)
    /\ error' = [x \in Threads |-> IF x \in Members(suspended[o]) THEN "ERROR" ELSE error[x]]

\* RT_IPC_CMD_RESET.  Tokens already handed over stay with their threads.
Handed == {t \in Threads : call[t] = "sem" /\ stat[t] = "READY" /\ error[t] = "EOK"}

rt_sem_control(t) ==
    /\ Free(t, "sem")
    /\ Refuse(t, "sem")
    /\ \E v \in 0..MaxValue : value' = v /\ balance' = v + Cardinality(Handed)
    /\ UNCHANGED <<mutexVars, eventVars>>
------------------------------------------------------------------------------
Take(t, m) ==
    /\ owner' = [owner EXCEPT ![m] = t]
    /\ original_priority' = [original_priority EXCEPT ![m] = priority[t]]
    /\ hold' = [hold EXCEPT ![m] = @ + 1]

\* The owner takes over the priority of a more urgent thread that will wait.
Raised(m, p) ==
    IF p < priority[owner[m]] THEN [priority EXCEPT ![owner[m]] = p] ELSE priority

BlockOn(t, m, timed) ==
    /\ stat' = [stat EXCEPT ![t] = "SUSPEND"]
    /\ priority' = Raised(m, priority[t])
    /\ ready' = IF priority' # priority
                THEN RemoveReady(Requeued(ready, owner[m], priority[t]), t)
                ELSE RemoveReady(ready, t)
    /\ timer' = [timer EXCEPT ![t] = timed]
    /\ error' = [error EXCEPT ![t] = "EOK"]
    /\ leaving' = leaving \cup {t}
    /\ suspended' = [suspended EXCEPT ![m] = Enqueue(@, t)]
    /\ call' = [call EXCEPT ![t] = m]
    /\ UNCHANGED <<rt_current_thread, base, object, flag, mutexVars>>

rt_mutex_take(t, m) ==
    /\ Free(t, "mutex")
    /\ \/ /\ owner[m] = t /\ hold[m] < MaxHold
          /\ hold' = [hold EXCEPT ![m] = @ + 1]
          /\ got' = [got EXCEPT ![t][m] = @ + 1]
          /\ UNCHANGED <<threadVars, object, flag, call, suspended, owner, original_priority>>
       \/ /\ owner[m] = None
          /\ Take(t, m)
          /\ got' = [got EXCEPT ![t][m] = @ + 1]
          /\ UNCHANGED <<threadVars, object, flag, call, suspended>>
       \/ /\ owner[m] \notin {t, None}
          /\ \E timed \in BOOLEAN : BlockOn(t, m, timed)
    /\ UNCHANGED <<semVars, eventVars>>

\* Fault: a raised owner keeps the priority it was given.
RestoredNever(t, m) == priority

\* The last release: the priority goes back, the first waiting thread becomes the
\* owner.  Only then is rt_schedule called.
Restored(t, m) == [priority EXCEPT ![t] = original_priority[m]]

HandOver(t, m) ==
    LET r == IF priority' # priority THEN Requeued(ready, t, priority'[t]) ELSE ready
    IN IF suspended[m] # <<>>
       THEN LET w == Head(suspended[m])
            IN /\ owner' = [owner EXCEPT ![m] = w]
               /\ original_priority' = [original_priority EXCEPT ![m] = priority[w]]
               /\ UNCHANGED hold
               /\ Resume(<<w>>, r, priority)
               /\ suspended' = [suspended EXCEPT ![m] = Tail(@)]
               /\ leaving' = leaving \cup {t}
       ELSE /\ owner' = [owner EXCEPT ![m] = None]
            /\ original_priority' = [original_priority EXCEPT ![m] = NoPriority]
            /\ hold' = [hold EXCEPT ![m] = 0]
            /\ ready' = r
            /\ UNCHANGED <<stat, timer, suspended, leaving>>

rt_mutex_release(t, m) ==
    /\ Free(t, "mutex") /\ owner[m] = t
    /\ got' = [got EXCEPT ![t][m] = @ - 1]
    /\ IF hold[m] > 1
       THEN /\ hold' = [hold EXCEPT ![m] = @ - 1]
            /\ UNCHANGED <<threadVars, suspended, owner, original_priority>>
       ELSE /\ priority' = Restored(t, m)
            /\ HandOver(t, m)
            /\ UNCHANGED <<rt_current_thread, error, base>>
    /\ UNCHANGED <<object, flag, call, semVars, eventVars>>
------------------------------------------------------------------------------
\* Event.
Satisfied(s, wanted, option) ==
    IF "AND" \in option THEN wanted \subseteq s ELSE wanted \cap s # {}

rt_event_recv(t) ==
    /\ Free(t, "event")
    /\ \E wanted \in SUBSET Bits \ {{}}, option \in Options :
        \/ /\ Satisfied(set, wanted, option)
           /\ set' = IF "CLEAR" \in option THEN set \ wanted ELSE set
           /\ UNCHANGED <<threadVars, object, flag, call, suspended, event_set, event_info>>
        \/ /\ ~Satisfied(set, wanted, option)
           /\ event_set' = [event_set EXCEPT ![t] = wanted]
           /\ event_info' = [event_info EXCEPT ![t] = option]
           /\ \E timed \in BOOLEAN : Block(t, "event", timed)
           /\ UNCHANGED <<priority, set>>
    /\ UNCHANGED <<semVars, mutexVars>>

\* The waiting threads in order: each that is satisfied by what the ones before
\* it have left is resumed, and clears what it received if it asked for that.
Scan(s) ==
    LET queue == suspended["event"]
        step[i \in 0..Len(queue)] ==
            IF i = 0 THEN [set |-> s, woken |-> <<>>, took |-> event_set]
            ELSE LET before == step[i - 1]
                     t == queue[i]
                     info == event_info[t]
                     takes == IF "AND" \in info THEN event_set[t] ELSE event_set[t] \cap before.set
                 IN IF ~Satisfied(before.set, event_set[t], info) THEN before
                    ELSE [set |-> IF "CLEAR" \in info THEN before.set \ takes ELSE before.set,
                          woken |-> Append(before.woken, t),
                          took |-> [before.took EXCEPT ![t] = takes]]
    IN step[Len(queue)]

ResumeAll(t, woken) ==
    IF woken # <<>>
    THEN Wake(t, woken, "event")
    ELSE UNCHANGED <<rt_current_thread, ready, stat, priority, timer,
                     leaving, base, object, flag, call, suspended>>

\* Fault: only the first thread that waits for these bits is resumed.
ResumeFirst(t, woken) == ResumeAll(t, IF woken = <<>> THEN woken ELSE <<woken[1]>>)

ResumeWaiters(t, woken) == ResumeAll(t, woken)

rt_event_send(t) ==
    /\ Free(t, "event")
    /\ \E bits \in SUBSET Bits \ {{}} :
        LET after == Scan(set \cup bits)
        IN /\ set' = after.set
           /\ event_set' = after.took
           /\ ResumeWaiters(t, after.woken)
    /\ UNCHANGED <<error, event_info, semVars, mutexVars>>

rt_event_control(t) ==
    /\ Free(t, "event")
    /\ Refuse(t, "event")
    /\ set' = {}
    /\ UNCHANGED <<event_set, event_info, semVars, mutexVars>>
------------------------------------------------------------------------------
rt_thread_sleep(t) ==
    /\ Running(t) /\ call[t] = "none"
    /\ Block(t, "sleep", TRUE)
    /\ UNCHANGED <<priority, semVars, mutexVars, eventVars>>

\* The tail of a call that blocked: thread->error says how it ended.  What the call
\* left in the thread is written again before it is read, so the model forgets it.
Return(t) ==
    /\ Running(t) /\ call[t] # "none"
    /\ LET o == call[t]
       IN /\ balance' = IF o = "sem" /\ error[t] = "EOK" THEN balance - 1 ELSE balance
          /\ got' = IF o \in Mutexes /\ error[t] = "EOK"
                    THEN [got EXCEPT ![t][o] = @ + 1] ELSE got
    /\ call' = [call EXCEPT ![t] = "none"]
    /\ error' = [error EXCEPT ![t] = "EOK"]
    /\ event_set' = [event_set EXCEPT ![t] = {}]
    /\ event_info' = [event_info EXCEPT ![t] = {}]
    /\ UNCHANGED <<rt_current_thread, ready, stat, priority, timer, leaving, base, object,
                   flag, suspended, value, owner, hold, original_priority, set>>

\* Fault: the thread stays in the list it waited in.
ExpireStays(t) ==
    /\ Timeout(t)
    /\ UNCHANGED <<suspended, object, flag, call, semVars, mutexVars, eventVars>>

\* The interrupt takes the thread from the list it waits in.
Expire(t) ==
    /\ Timeout(t)
    /\ suspended' = [o \in Objects |-> Without(suspended[o], t)]
    /\ UNCHANGED <<object, flag, call, semVars, mutexVars, eventVars>>

KernelOnly == UNCHANGED <<object, flag, call, suspended, semVars, mutexVars, eventVars>>

Next ==
    \/ TimeSlice /\ KernelOnly
    \/ \E t \in Threads :
        \/ rt_schedule(t) /\ KernelOnly
        \/ rt_sem_take(t) \/ rt_sem_release(t) \/ rt_sem_control(t)
        \/ \E m \in Mutexes : rt_mutex_take(t, m) \/ rt_mutex_release(t, m)
        \/ rt_event_recv(t) \/ rt_event_send(t) \/ rt_event_control(t)
        \/ rt_thread_sleep(t) \/ Return(t) \/ Expire(t)

Spec == Init /\ [][Next]_vars

IpcSymmetry == Permutations(Threads) \cup Permutations(Bits)
------------------------------------------------------------------------------
TypeOK ==
    /\ ThreadTypeOK
    /\ object \in Kinds /\ flag \in {"FIFO", "PRIO"}
    /\ call \in [Threads -> Objects \cup {"none"}]
    /\ suspended \in [Objects -> Seq(Threads)]
    /\ value \in 0..MaxValue /\ balance \in 0..(MaxValue + Cardinality(Threads))
    /\ owner \in [Mutexes -> Threads \cup {None}] /\ hold \in [Mutexes -> 0..MaxHold]
    /\ original_priority \in [Mutexes -> Priorities \cup {NoPriority}]
    /\ got \in [Threads -> [Mutexes -> 0..MaxHold]]
    /\ set \subseteq Bits /\ event_set \in [Threads -> SUBSET Bits]
    /\ event_info \in [Threads -> Options \cup {{}}]

\* A thread is in exactly one queue: the ready queue of its current priority, or
\* the waiting list of the object it is blocked on; a running timer belongs to a
\* suspended thread, as rt_thread_timeout asserts.  A priority that changes, a
\* timeout and a release all move threads between these queues.
QueuedOnce ==
    /\ TypeOK
    /\ \A t \in Threads :
        /\ \A p \in Priorities :
            Cardinality({i \in 1..Len(ready[p]) : ready[p][i] = t})
                = IF stat[t] = "READY" /\ p = priority[t] THEN 1 ELSE 0
        /\ \A o \in Objects :
            Cardinality({i \in 1..Len(suspended[o]) : suspended[o][i] = t})
                = IF stat[t] = "SUSPEND" /\ o = call[t] THEN 1 ELSE 0
        /\ timer[t] => stat[t] = "SUSPEND"

\* Every token of the semaphore is either in its value, taken by a call that has
\* returned RT_EOK, or on its way to one thread that will return RT_EOK: a wait
\* that times out while a release comes neither loses nor invents one.
TokensKept ==
    /\ balance = value + Cardinality(Handed)
    /\ value > 0 => suspended["sem"] = <<>>

\* A mutex has one holder: whoever was told RT_EOK is the owner, takes and
\* releases balance, and nobody waits for a mutex that is free.
OneHolder ==
    \A m \in Mutexes :
        /\ \A t \in Threads : got[t][m] > 0 => owner[m] = t
        /\ owner[m] = None <=> hold[m] = 0
        /\ owner[m] = None => suspended[m] = <<>>
        /\ owner[m] # None =>
             hold[m] = got[owner[m]][m] + IF call[owner[m]] = m THEN 1 ELSE 0

\* A thread that owns no mutex runs at its own priority: what it inherited is
\* given back, whether the waiting threads got the mutex or gave up.
PriorityGivenBack ==
    \A t \in Threads : (\A m \in Mutexes : owner[m] # t) => priority[t] = base[t]

\* The owner is never less urgent than a thread that waits for it.  It does not
\* hold for RT_IPC_FLAG_FIFO, the flag of the application's mutex.
NoInversion ==
    \A m \in Mutexes : \A i \in 1..Len(suspended[m]) :
        priority[owner[m]] <= priority[suspended[m][i]]

\* With RT_IPC_FLAG_PRIO a mutex passes to the most urgent waiting thread, so the
\* new owner is urgent enough for the ones that still wait.
NoInversionByPriority == flag = "PRIO" => NoInversion

\* rt_mutex_take and rt_mutex_release keep the mutex and the priority it lends
\* together: one holder, urgent enough for those who wait by priority, and back
\* at its own priority once it holds nothing.
MutexSound == OneHolder /\ PriorityGivenBack /\ NoInversionByPriority

\* No thread waits for an event that has what it waits for.
NoLostEvent ==
    \A i \in 1..Len(suspended["event"]) :
        LET t == suspended["event"][i] IN ~Satisfied(set, event_set[t], event_info[t])

\* The most urgent ready thread runs, except while the current one is on its way
\* to rt_schedule.  It does not hold for a mutex whose waiting thread gave up.
MostUrgentRuns ==
    rt_current_thread \notin leaving =>
        /\ rt_current_thread # Idle => stat[rt_current_thread] = "READY"
        /\ \A t \in Threads : stat[t] = "READY" =>
             rt_current_thread # Idle /\ priority[rt_current_thread] <= priority[t]

\* It holds wherever no mutex is involved.
MostUrgentRunsUnlocked == object # "mutex" => MostUrgentRuns
==============================================================================
