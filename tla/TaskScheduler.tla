--------------------------- MODULE TaskScheduler ---------------------------
(***************************************************************************)
(* The deferred-work queue of the language module (src/task_scheduler.hpp, *)
(* src/task_scheduler.cpp) and the timer built-ins that feed it            *)
(* (src/builtin/timers.hpp).                                               *)
(*                                                                         *)
(* `tasks' is the std::set _tasks: a set of records ordered by             *)
(* (executeTime, id), in which two records with the same key cannot both   *)
(* be.  Run() holds the recursive mutex from its first to its last line,   *)
(* callbacks included, so it is split into the steps RunEnter, RunFire,    *)
(* RunReturn and RunExit, with `owner' the thread inside Run; the other    *)
(* operations lock, work and unlock and are one step each.  A callback is  *)
(* whatever JavaScript does between RunFire and RunReturn: it may add      *)
(* tasks and remove any task, its own included.                            *)
(*                                                                         *)
(* Time is the steady clock, in milliseconds.  `serial', `added',          *)
(* `cancelled', `spent' and `wiped' are history: the code keeps none of    *)
(* them and no guard reads them (but for the bound MaxAdds).               *)
(***************************************************************************)
EXTENDS Integers, FiniteSets

CONSTANTS
    Threads,      \* threads that call into the scheduler
    NoThread,     \* the mutex is free
    Delays,       \* delays given to setTimeout and AddTask, in ms
    Periods,      \* delays given to setInterval, in ms
    NewDelays,    \* delays given to RescheduleTask: {} as this repository has it
    IdSpace,      \* number of task ids: 2^32 in the code (uint32_t)
    MaxAdds,      \* bound: number of AddTask calls in a behaviour
    MaxTime       \* bound: last value of the clock

ASSUME SchedulerConstants ==
    /\ NoThread \notin Threads
    /\ Delays \subseteq Int
    /\ Periods \subseteq Int
    /\ NewDelays \subseteq Int
    /\ IdSpace \in Nat \ {0}
    /\ MaxAdds \in Nat
    /\ MaxTime \in Nat

VARIABLES
    tasks,        \* _tasks
    nextId,       \* _nextId
    clock,        \* what Clock::now() returns
    owner,        \* the thread inside Run(), holding _mutex
    pc,           \* where Run() is: "idle", "loop" (its while), "action"
    now,          \* Run()'s local `now'
    it,           \* Run()'s iterator: the serial of the task it points at
    added,        \* history: AddTask calls so far
    cancelled,    \* history: serials RemoveTask has found
    spent,        \* history: serials of one-shot tasks that have fired
    wiped         \* history: serials Reset discarded

vars == <<tasks, nextId, clock, owner, pc, now, it, added, cancelled, spent, wiped>>

runVars == <<owner, pc, now, it>>
history == <<cancelled, spent, wiped>>

Ids == 0 .. IdSpace - 1
Serials == 0 .. MaxAdds - 1

Task == [serial : Serials, id : Ids, repeat : BOOLEAN, exec : BOOLEAN,
         kill : BOOLEAN, executeTime : Int, delay : Int]

----------------------------------------------------------------------------
\* Mutant: operator< puts the larger id first.
BeforeLargerId(a, b) ==
    \/ a.executeTime < b.executeTime
    \/ a.executeTime = b.executeTime /\ a.id > b.id

\* Task::operator<.
Before(a, b) ==
    \/ a.executeTime < b.executeTime
    \/ a.executeTime = b.executeTime /\ a.id < b.id

SameKey(a, b) == a.executeTime = b.executeTime /\ a.id = b.id

\* Mutant: *_tasks.rbegin().
IsLast(t) == t \in tasks /\ \A u \in tasks \ {t} : Before(u, t)

\* t is *_tasks.begin().
IsFirst(t) == t \in tasks /\ \A u \in tasks \ {t} : Before(t, u)

\* t is the task std::find_if stops at: the first, in key order, with that id.
Found(t, id) ==
    /\ t \in tasks
    /\ t.id = id
    /\ \A u \in tasks \ {t} : u.id = id => Before(t, u)

\* emplace and insert of a node leave a set that already has the key alone.
Inserted(S, t) == IF \E u \in S : SameKey(u, t) THEN S ELSE S \union {t}

\* Taking the lock: the mutex is free, or this thread is inside Run (the mutex
\* is recursive) and running a callback.
CanLock(th) ==
    \/ owner = NoThread
    \/ owner = th /\ pc = "action"

\* Mutant: the id is the number of tasks there are.
NextIdBySize == Cardinality(tasks) % IdSpace

\* ++_nextId, in uint32_t.
NextId == IF nextId = IdSpace - 1 THEN 0 ELSE nextId + 1

----------------------------------------------------------------------------
Init ==
    /\ tasks = {}
    /\ nextId = IdSpace - 1
    /\ clock = 0
    /\ owner = NoThread
    /\ pc = "idle"
    /\ now = 0
    /\ it = 0
    /\ added = 0
    /\ cancelled = {}
    /\ spent = {}
    /\ wiped = {}

\* The task AddTask builds.
NewTask(delay, repeat) ==
    [serial |-> added, id |-> NextId, repeat |-> repeat, exec |-> FALSE,
     kill |-> FALSE, executeTime |-> clock + delay, delay |-> delay]

AddTask(th, delay, repeat) ==
    /\ CanLock(th)
    /\ added < MaxAdds
    /\ nextId' = NextId
    /\ added' = added + 1
    /\ tasks' = Inserted(tasks, NewTask(delay, repeat))
    /\ UNCHANGED <<clock, runVars, history>>

\* Mutant: the executing task is erased too.
RemovedAlways(t) == tasks \ {t}

\* What RemoveTask does to the task it finds: the one that is executing is
\* only marked, so that Run()'s iterator stays valid.
Removed(t) ==
    IF t.exec THEN (tasks \ {t}) \union {[t EXCEPT !.kill = TRUE]}
              ELSE tasks \ {t}

RemoveTask(th, id) ==
    /\ CanLock(th)
    /\ \E t \in tasks :
         /\ Found(t, id)
         /\ tasks' = Removed(t)
         /\ cancelled' = cancelled \union {t.serial}
    /\ UNCHANGED <<nextId, clock, runVars, added, spent, wiped>>

Moved(t, newDelay) == [t EXCEPT !.delay = newDelay, !.executeTime = clock + newDelay]

\* Part of the class's interface that nothing in this repository calls.
RescheduleTask(th, id, newDelay) ==
    /\ CanLock(th)
    /\ \E t \in tasks :
         /\ Found(t, id)
         /\ ~ t.exec
         /\ tasks' = Inserted(tasks \ {t}, Moved(t, newDelay))
    /\ UNCHANGED <<nextId, clock, runVars, added, history>>

Reset(th) ==
    /\ owner = NoThread
    /\ th \in Threads
    /\ tasks # {}
    /\ wiped' = wiped \union {t.serial : t \in tasks}
    /\ tasks' = {}
    /\ UNCHANGED <<nextId, clock, runVars, added, cancelled, spent>>

----------------------------------------------------------------------------
\* Run(): lock, sample the clock.
RunEnter(th) ==
    /\ owner = NoThread
    /\ owner' = th
    /\ pc' = "loop"
    /\ now' = clock
    /\ UNCHANGED <<tasks, nextId, clock, it, added, history>>

\* The first task is due: mark it and call its action.
RunFire ==
    /\ pc = "loop"
    /\ \E t \in tasks :
         /\ IsFirst(t)
         /\ now >= t.executeTime
         /\ tasks' = (tasks \ {t}) \union {[t EXCEPT !.exec = TRUE]}
         /\ it' = t.serial
         /\ spent' = IF t.repeat THEN spent ELSE spent \union {t.serial}
    /\ pc' = "action"
    /\ UNCHANGED <<nextId, clock, owner, now, added, cancelled, wiped>>

\* Mutants: an interval is due one period after it was last due; at once.
RearmedFromDueTime(t) == [t EXCEPT !.exec = FALSE, !.executeTime = @ + t.delay]
RearmedAtOnce(t) == [t EXCEPT !.exec = FALSE, !.executeTime = clock]

\* What Run() puts back for the task whose action has returned.
Rearmed(t) == [t EXCEPT !.exec = FALSE, !.executeTime = clock + t.delay]

\* Mutants: Run() does not look at kill; at repeat; never re-arms.
FinishedIgnoringKill(t) ==
    IF t.repeat THEN Inserted(tasks \ {t}, Rearmed(t)) ELSE tasks \ {t}
FinishedIgnoringRepeat(t) ==
    IF ~ t.kill THEN Inserted(tasks \ {t}, Rearmed(t)) ELSE tasks \ {t}
FinishedNeverRearms(t) == tasks \ {t}

\* What Run() does after the action: re-arm a repeating task that was not
\* removed meanwhile, erase any other.
Finished(t) ==
    IF t.repeat /\ ~ t.kill
    THEN Inserted(tasks \ {t}, Rearmed(t))
    ELSE tasks \ {t}

RunReturn ==
    /\ pc = "action"
    /\ \E t \in tasks :
         /\ t.serial = it
         /\ tasks' = Finished(t)
    /\ pc' = "loop"
    /\ UNCHANGED <<nextId, clock, owner, now, it, added, history>>

\* The set is empty or its first task is not due: leave, unlock.
RunExit ==
    /\ pc = "loop"
    /\ \A t \in tasks : IsFirst(t) => now < t.executeTime
    /\ pc' = "idle"
    /\ owner' = NoThread
    /\ UNCHANGED <<tasks, nextId, clock, now, it, added, history>>

RunStep == RunFire \/ RunReturn \/ RunExit

----------------------------------------------------------------------------
\* The timer built-ins.  Both clear functions are RemoveTask on any id.
SetTimeout(th) == \E d \in Delays : AddTask(th, d, FALSE)

SetInterval(th) == \E d \in Periods : AddTask(th, d, TRUE)

ClearTimer(th) == \E id \in Ids : RemoveTask(th, id)

Reschedule(th) == \E id \in Ids, d \in NewDelays : RescheduleTask(th, id, d)

Tick ==
    /\ clock < MaxTime
    /\ clock' = clock + 1
    /\ UNCHANGED <<tasks, nextId, runVars, added, history>>

Next ==
    \/ \E th \in Threads :
         SetTimeout(th) \/ SetInterval(th) \/ ClearTimer(th) \/ Reschedule(th)
           \/ Reset(th) \/ RunEnter(th)
    \/ RunStep
    \/ Tick

Spec == Init /\ [][Next]_vars

\* The host calls OnUpdate, hence Run, on every tick (the module reports
\* hasUpdate), callbacks return, and the loop of Run is sequential code.
Fairness ==
    /\ WF_vars(\E th \in Threads : RunEnter(th))
    /\ WF_vars(RunStep)

FairSpec == Spec /\ Fairness

----------------------------------------------------------------------------
TypeOK ==
    /\ tasks \subseteq Task
    /\ nextId \in Ids
    /\ clock \in 0 .. MaxTime
    /\ owner \in Threads \union {NoThread}
    /\ pc \in {"idle", "loop", "action"}
    /\ now \in 0 .. MaxTime
    /\ it \in Nat
    /\ added \in 0 .. MaxAdds
    /\ cancelled \subseteq Serials
    /\ spent \subseteq Serials
    /\ wiped \subseteq Serials

\* Run()'s iterator is valid whenever Run() uses it: from the moment an action
\* is called until it returns, the task it points at is in the set and marked,
\* and no other task is.  Callbacks removing themselves or each other must not
\* erase the node that Run() reads (repeat, kill, extract, erase) afterwards.
IteratorValid ==
    /\ \A t \in tasks : t.exec <=> (pc = "action" /\ t.serial = it)
    /\ pc = "action" => \E t \in tasks : t.serial = it

\* While fewer than IdSpace tasks have been made, the id that setTimeout
\* returned names one task: clearing it can remove no other (timers, settled
\* fetches and dynamic imports draw their ids from the same counter).
IdsUnique == added <= IdSpace => \A t, u \in tasks : t.id = u.id => t = u

\* Nothing is lost: while ids have not wrapped around, each task ever added is
\* still in the set, or has fired (one-shot), was removed, or was dropped by a
\* Reset; in particular re-inserting a repeating task never loses it.  (After
\* 2^32 tasks the set may already hold the key, and the insertion is lost.)
Accounted ==
    added <= IdSpace =>
        0 .. added - 1 = {t.serial : t \in tasks} \union spent \union cancelled \union wiped

\* The tasks that left the set without having fired, been removed or reset.
Lost == (0 .. added - 1) \ ({t.serial : t \in tasks} \union spent \union cancelled \union wiped)

\* At least IdSpace AddTask calls lie between the two tasks.
FarApart(r, s) == r - s >= IdSpace \/ s - r >= IdSpace

\* What the wrap of a 32-bit id can do and no more: _nextId goes on counting
\* whatever is still in the set, so two waiting tasks can have one id, with
\* clearTimeout removing the earlier due of them and not the one it was asked
\* for; and emplace, or the re-insertion after an action or a reschedule, can
\* find the key taken and drop a task without a word.  Both happen only
\* between tasks that 2^32 AddTask calls or more separate, however tasks
\* fired, were removed and were re-armed in between.
OnlyWrapMixesTasks ==
    [][/\ \A s \in Lost' \ Lost : \E u \in tasks' : FarApart(s, u.serial)
       /\ \A t, u \in tasks' : t.id = u.id /\ t # u => FarApart(t.serial, u.serial)]_vars

\* No one-shot task overtakes an older one of the same delay: setTimeout
\* callbacks with equal delays run in the order they were registered.
SameDelayInOrder ==
    added <= IdSpace =>
        \A t, u \in tasks :
            /\ t.serial < u.serial
            /\ t.delay = u.delay
            /\ ~ t.repeat
            => Before(t, u)

\* A task that was removed is never called again, whether it was waiting, due
\* in the Run that removed it, or executing.
RemovedNeverFires ==
    [][RunFire => it' \notin cancelled]_vars

\* A setTimeout callback is called at most once.
OneShotFiresOnce ==
    [][RunFire => it' \notin spent]_vars

\* Within one Run() a task whose period is not negative comes up again only if
\* the clock stands where Run() sampled it: an interval cannot keep Run()
\* going once time has passed, however late the Run is.
RefiresOnlyInSameInstant ==
    [][RunReturn => \A t \in tasks' :
         (t.serial = it /\ t.delay >= 0 /\ t.executeTime <= now) => clock = now]_vars

\* Run() ends when every period is positive and its callbacks return (fairness)
\* and stop adding tasks that are due at once (MaxAdds).
RunEnds == (pc # "idle") ~> (pc = "idle")

\* A task that is due is called, removed, rescheduled or dropped: later tasks,
\* intervals that keep coming back and tasks added by callbacks cannot starve it.
DueTaskLeaves ==
    \A s \in Serials, d \in 0 .. MaxTime :
        LET waiting == \E t \in tasks : t.serial = s /\ t.executeTime = d
        IN  (waiting /\ d <= clock) ~> ~ waiting

\* What the scheduler promises, with the lock, the loop of Run() and the marks
\* hidden: a timer is pending until it is cancelled, dropped or, if it is a
\* one-shot, called.
Pending(t) == ~ (t.exec /\ (t.kill \/ ~ t.repeat))

AsTimer(t) == [serial |-> t.serial, repeat |-> t.repeat, due |-> t.executeTime,
               delay |-> t.delay]

Promise == INSTANCE Timers WITH
    pending <- {AsTimer(t) : t \in {u \in tasks : Pending(u)}},
    calling <- IF pc = "action" THEN it ELSE -1

\* As long as ids do not wrap around the scheduler implements Timers.
ImplementsTimers == Promise!Spec
=============================================================================
