------------------------------- MODULE RtTimer -------------------------------
(***************************************************************************)
(* Hard timers, Middlewares/RTOS/src/timer.c and the tick of clock.c: one  *)
(* list sorted by timeout_tick (the skip list has one level), checked in   *)
(* the tick interrupt.  Ticks are unsigned and wrap, so every comparison   *)
(* is of a difference with RT_TICK_MAX / 2.                                *)
(*                                                                         *)
(* A thread works on the timers; where timer.c enables interrupts in the   *)
(* middle of a call, ticks may come.  The interrupt runs the time-out      *)
(* functions, which may themselves stop, start or delete a timer.          *)
(***************************************************************************)
EXTENDS Integers, FiniteSets, SequencesExt, TLC

CONSTANTS
    Timers,
    TickCount,   \* RT_TICK_MAX + 1
    Times,       \* the values of init_tick in use
    Spared,      \* what time-out functions refrain from: touching a timer a call is under
                 \* way on ("busy"), deleting their own timer ("own")
    MaxDelay     \* bound: ticks during one call of the thread

ASSUME TimerAssumption ==
    /\ TickCount \in Nat \ {0} /\ TickCount % 2 = 0
    /\ Times \subseteq 1..(TickCount \div 2 - 2)    \* the assertion of rt_timer_start
    /\ Spared \subseteq {"busy", "own"} /\ MaxDelay \in Nat

VARIABLES
    rt_tick,
    rt_timer_list,
    timeout_tick, init_tick, periodic, activated,   \* of each timer
    alive,       \* the timers that are initialised
    step,        \* where the thread is: [at, on], with on a set of at most one timer
    checking,    \* the tick interrupt is in rt_timer_check
    delay,       \* ticks since the call began
    left         \* history: ticks that are left until the timer is due

timerVars == <<rt_tick, rt_timer_list, timeout_tick, init_tick, periodic, activated,
               alive, step, checking, delay, left>>

Half == TickCount \div 2 - 1       \* RT_TICK_MAX / 2
Minus(x, y) == (x - y) % TickCount
Outside == [at |-> "none", on |-> {}]
\* _rt_timer_remove; timeout_tick is not read again before it is set, and forgotten.
Cut(list, t) ==
    LET places == {i \in 1..Len(list) : list[i] = t}
    IN IF places = {} THEN list ELSE RemoveAt(list, Min(places))
Listed == {rt_timer_list[i] : i \in 1..Len(rt_timer_list)}

TimerInit ==
    /\ rt_tick = 0
    /\ rt_timer_list = <<>>
    /\ timeout_tick = [t \in Timers |-> 0] /\ left = [t \in Timers |-> 0]
    /\ init_tick = [t \in Timers |-> 0]
    /\ periodic = [t \in Timers |-> FALSE] /\ activated = [t \in Timers |-> FALSE]
    /\ alive = {}
    /\ step = Outside /\ checking = FALSE /\ delay = 0
------------------------------------------------------------------------------
\* Fault: the ticks are compared as they are.
LaterPlain(x, y) == x > y

\* The timer of the list is due after the new one.
LaterThan(x, y) == Minus(x, y) \in 1..(Half - 1)

\* Before the first timer that is due later, so behind those due at the same tick.
Insert(list, t, due) ==
    LET later == {i \in 1..Len(list) : LaterThan(due[list[i]], due[t])}
    IN InsertAt(list, IF later = {} THEN Len(list) + 1 ELSE Min(later), t)
------------------------------------------------------------------------------
\* The thread.

Idle(t) == ~checking /\ step = Outside /\ t \in alive
At(at, t) == ~checking /\ step = [at |-> at, on |-> {t}]
Goto(at, t) == step' = [at |-> at, on |-> {t}]

Forget(t) ==
    timeout_tick' = [timeout_tick EXCEPT ![t] = 0] /\ left' = [left EXCEPT ![t] = 0]

\* rt_timer_create or rt_timer_init
rt_timer_create(t) ==
    /\ ~checking /\ step = Outside /\ t \notin alive
    /\ \E time \in Times, p \in BOOLEAN :
        /\ init_tick' = [init_tick EXCEPT ![t] = time]
        /\ periodic' = [periodic EXCEPT ![t] = p]
    /\ activated' = [activated EXCEPT ![t] = FALSE]
    /\ alive' = alive \cup {t}
    /\ UNCHANGED <<rt_tick, rt_timer_list, timeout_tick, step, checking, delay, left>>

\* rt_timer_delete or rt_timer_detach
rt_timer_delete(t) ==
    /\ Idle(t)
    /\ rt_timer_list' = Cut(rt_timer_list, t)
    /\ alive' = alive \ {t}
    /\ activated' = [activated EXCEPT ![t] = FALSE]
    /\ periodic' = [periodic EXCEPT ![t] = FALSE]
    /\ init_tick' = [init_tick EXCEPT ![t] = 0]
    /\ Forget(t)
    /\ UNCHANGED <<rt_tick, step, checking, delay>>

\* rt_timer_start: the timer is removed, its tick is computed, it is inserted.
StartRemove(t) ==
    /\ Idle(t)
    /\ rt_timer_list' = Cut(rt_timer_list, t)
    /\ activated' = [activated EXCEPT ![t] = FALSE]
    /\ Goto("start", t) /\ delay' = 0 /\ Forget(t)
    /\ UNCHANGED <<rt_tick, init_tick, periodic, alive, checking>>

StartTimeout(t) ==
    /\ At("start", t)
    /\ timeout_tick' = [timeout_tick EXCEPT ![t] = (rt_tick + init_tick[t]) % TickCount]
    /\ left' = [left EXCEPT ![t] = init_tick[t]]
    /\ Goto("insert", t)
    /\ UNCHANGED <<rt_tick, rt_timer_list, init_tick, periodic, activated, alive, checking, delay>>

StartInsert(t) ==
    /\ At("insert", t)
    /\ rt_timer_list' = Insert(rt_timer_list, t, timeout_tick)
    /\ activated' = [activated EXCEPT ![t] = TRUE]
    /\ step' = Outside /\ delay' = 0
    /\ UNCHANGED <<rt_tick, timeout_tick, init_tick, periodic, alive, checking, left>>

\* rt_timer_stop: the flag is tested, the timer is removed, the flag is cleared.
StopCheck(t) ==
    /\ Idle(t) /\ activated[t]
    /\ Goto("remove", t) /\ delay' = 0
    /\ UNCHANGED <<rt_tick, rt_timer_list, timeout_tick, init_tick, periodic, activated,
                   alive, checking, left>>

StopRemove(t) ==
    /\ At("remove", t)
    /\ rt_timer_list' = Cut(rt_timer_list, t)
    /\ Goto("clear", t) /\ Forget(t)
    /\ UNCHANGED <<rt_tick, init_tick, periodic, activated, alive, checking, delay>>

StopClear(t) ==
    /\ At("clear", t)
    /\ activated' = [activated EXCEPT ![t] = FALSE]
    /\ step' = Outside /\ delay' = 0
    /\ UNCHANGED <<rt_tick, rt_timer_list, timeout_tick, init_tick, periodic, alive,
                   checking, left>>

\* rt_timer_control, RT_TIMER_CTRL_SET_TIME: for the next start.
rt_timer_control(t) ==
    /\ Idle(t)
    /\ \E time \in Times : init_tick' = [init_tick EXCEPT ![t] = time]
    /\ UNCHANGED <<rt_tick, rt_timer_list, timeout_tick, periodic, activated, alive, step,
                   checking, delay, left>>
------------------------------------------------------------------------------
\* The tick interrupt.

\* rt_tick_increase
Tick ==
    /\ ~checking /\ delay < MaxDelay
    /\ rt_tick' = (rt_tick + 1) % TickCount
    /\ checking' = TRUE
    /\ delay' = IF step = Outside THEN 0 ELSE delay + 1
    /\ left' = [t \in Timers |-> left[t] - IF t \in Listed \/ At("insert", t) THEN 1 ELSE 0]
    /\ UNCHANGED <<rt_timer_list, timeout_tick, init_tick, periodic, activated, alive, step>>

\* Fault: a tick that has wrapped around is taken for an earlier one.
DuePlain(t) == rt_tick >= timeout_tick[t]

Due(t) == Minus(rt_tick, timeout_tick[t]) < Half

\* What the calls do in the interrupt, to the parts of the state they work on.
Now == [list |-> rt_timer_list, due |-> timeout_tick, on |-> activated, left |-> left, alive |-> alive]

Started(s, t) ==
    LET due == [s.due EXCEPT ![t] = (rt_tick + init_tick[t]) % TickCount]
    IN [s EXCEPT !.due = due, !.list = Insert(Cut(s.list, t), t, due),
                 !.on[t] = TRUE, !.left[t] = init_tick[t]]
Stopped(s, t) ==
    IF s.on[t] THEN [s EXCEPT !.list = Cut(@, t), !.on[t] = FALSE, !.due[t] = 0, !.left[t] = 0]
    ELSE s
Deleted(s, t) == [s EXCEPT !.list = Cut(@, t), !.alive = @ \ {t}]

\* The states a time-out function of t can leave behind.
Called(s, t) ==
    LET others == IF "busy" \in Spared THEN alive \ step.on ELSE alive
    IN {s} \cup {Started(s, x) : x \in others} \cup {Stopped(s, x) : x \in others}
           \cup {Deleted(s, x) : x \in others \ IF "own" \in Spared THEN {t} ELSE {}}

\* A periodic timer that was not stopped is started again.
Ended(s, t) ==
    IF periodic[t] /\ s.on[t] THEN Started(s, t) ELSE [s EXCEPT !.on[t] = FALSE]

\* rt_timer_check, one timer
Fire ==
    /\ checking /\ rt_timer_list # <<>> /\ Due(Head(rt_timer_list))
    /\ LET t == Head(rt_timer_list)
       IN \E s \in Called([Now EXCEPT !.list = Tail(@), !.due[t] = 0, !.left[t] = 0], t) :
            LET end == Ended(s, t)
            IN /\ rt_timer_list' = end.list /\ timeout_tick' = end.due
               /\ activated' = end.on /\ left' = end.left /\ alive' = end.alive
    /\ UNCHANGED <<rt_tick, init_tick, periodic, step, checking, delay>>

Leave ==
    /\ checking
    /\ rt_timer_list # <<>> => ~Due(Head(rt_timer_list))
    /\ checking' = FALSE
    /\ UNCHANGED <<rt_tick, rt_timer_list, timeout_tick, init_tick, periodic, activated,
                   alive, step, delay, left>>

TimerNext ==
    \/ \E t \in Timers :
        \/ rt_timer_create(t) \/ rt_timer_delete(t) \/ rt_timer_control(t)
        \/ StartRemove(t) \/ StartTimeout(t) \/ StartInsert(t)
        \/ StopCheck(t) \/ StopRemove(t) \/ StopClear(t)
    \/ Tick \/ Fire \/ Leave

TimerSymmetry == Permutations(Timers)

TimerSpec == TimerInit /\ [][TimerNext]_timerVars
------------------------------------------------------------------------------
TimerTypeOK ==
    /\ rt_tick \in 0..(TickCount - 1)
    /\ rt_timer_list \in Seq(Timers)
    /\ timeout_tick \in [Timers -> 0..(TickCount - 1)]
    /\ init_tick \in [Timers -> Times \cup {0}]
    /\ periodic \in [Timers -> BOOLEAN] /\ activated \in [Timers -> BOOLEAN]
    /\ alive \subseteq Timers
    /\ step.at \in {"none", "start", "insert", "remove", "clear"} /\ step.on \subseteq alive
    /\ checking \in BOOLEAN /\ delay \in 0..MaxDelay

\* The list is in the order in which the timers are really due, also when the
\* tick has wrapped around between two starts and when ticks came in the middle
\* of one; rt_timer_check looks at the head only.
TimersSorted ==
    \A i, j \in 1..Len(rt_timer_list) :
        i < j => left[rt_timer_list[i]] <= left[rt_timer_list[j]]

\* A timer is in the list once, and only while it exists.  A time-out function
\* that starts a timer the thread is starting too breaks it, and so does one that
\* deletes its own timer, which rt_timer_check then starts again.
TimerListedOnce ==
    Cardinality(Listed) = Len(rt_timer_list) /\ Listed \subseteq alive

\* An activated timer is in the list and so will run out; only the thread that
\* is about to clear the flag sees it otherwise.
ActiveIsListed ==
    \A t \in alive : activated[t] => t \in Listed \/ step = [at |-> "clear", on |-> {t}]

\* The list of rt_timer_start and rt_timer_check is sound at every tick.
TimerListSound == TimerTypeOK /\ TimersSorted /\ TimerListedOnce /\ ActiveIsListed

\* A time-out function runs when the time of its timer is over, never before,
\* and no timer that is due is left when rt_timer_check is.
RunsWhenDue ==
    [][/\ Fire => left[Head(rt_timer_list)] <= 0
       /\ Leave => \A t \in Listed : left[t] > 0]_timerVars

\* A timer that is in the list can be stopped.  It does not hold for a one-shot
\* timer whose time-out function starts it again: rt_timer_check then clears the
\* flag, and rt_timer_stop refuses.
ListedIsActive == \A t \in Listed : activated[t]
==============================================================================
