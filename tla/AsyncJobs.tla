----------------------------- MODULE AsyncJobs -----------------------------
(***************************************************************************)
(* The module's threads around the task scheduler: the host thread's       *)
(* OnUpdate and Shutdown (src/module.cpp), other native threads that call  *)
(* JavaScript, and the detached threads behind fetch                       *)
(* (src/builtin/fetch.hpp) and the asynchronous half of fs                 *)
(* (src/builtin/fs.hpp), which post their result as a 0 ms task.           *)
(*                                                                         *)
(* Two locks: the isolate's v8::Locker (`locker') and the scheduler's      *)
(* mutex (Sched!CanLock).  A job's JavaScript handle (the promise resolver *)
(* or the callback) is a shared v8::Global; `refs' is who holds a          *)
(* shared_ptr to it.  fs moves its pointer into the task it posts, fetch's *)
(* callbacks are copied, so the thread keeps one until it ends.            *)
(*                                                                         *)
(* Shutdown joins nobody and asks nobody to leave: other native threads    *)
(* may be in scripts while it runs, and jobs post their tasks after it,    *)
(* into the scheduler, which is a member of a global object and lives      *)
(* until the process's static objects are destroyed.                       *)
(***************************************************************************)
EXTENDS Integers, FiniteSets

CONSTANTS
    Host,         \* the thread that drives the module
    Callers,      \* other native threads that call JavaScript functions
    FetchJobs,    \* jobs (each one thread) started by fetch()
    FsJobs,       \* jobs started by an fs function with a callback
    Script,       \* the closure of a timer set by a script
    Delays,       \* delays given to setTimeout: any number passes its test
    Periods,      \* delays given to setInterval, which tests no more
    NoThread,
    MaxAdds, MaxTime

Jobs == FetchJobs \union FsJobs
Entrants == {Host} \union Callers

ASSUME AsyncConstants ==
    /\ NoThread \notin Entrants \union Jobs
    /\ Entrants \intersect Jobs = {}      \* a job has a thread of its own
    /\ FetchJobs \intersect FsJobs = {}
    /\ Script \notin Jobs
    /\ Delays \subseteq Int /\ Periods \subseteq Int
    /\ MaxAdds \in Nat /\ MaxTime \in Nat

VARIABLES
    tasks, nextId, clock, owner, pc, now, it, added, cancelled, spent, wiped,
    locker,       \* the thread that holds the v8::Locker, or NoThread
    stage,        \* where each entrant is: "out", "js", "update", "ran"
    life,         \* "up", "reset" (in Shutdown), "down", "terminated"
    job,          \* where each job's thread is
    result,       \* what a job's thread computed
    settled,      \* what JavaScript was told of the job
    closure,      \* the closure of each task, by serial
    refs,         \* holders of a job's handle: "thread", "task"
    fate,         \* history: who destroyed a job's handle, see Fate
    missed        \* history: jobs that posted after Shutdown's Reset

schedVars == <<tasks, nextId, clock, owner, pc, now, it, added, cancelled, spent, wiped>>
vars == <<schedVars, locker, stage, life, job, result, settled, closure, refs, fate, missed>>

\* Results are posted with no delay.  Ids do not wrap here (TaskScheduler has
\* that).
Sched == INSTANCE TaskScheduler WITH
    Threads <- Entrants \union Jobs, Delays <- Delays \union {0}, NewDelays <- {},
    IdSpace <- MaxAdds + 1

----------------------------------------------------------------------------
Init ==
    /\ Sched!Init
    /\ locker = NoThread
    /\ stage = [th \in Entrants |-> "out"]
    /\ life = "up"
    /\ job = [j \in Jobs |-> "idle"]
    /\ result = [j \in Jobs |-> "none"]
    /\ settled = [j \in Jobs |-> "no"]
    /\ closure = [s \in 0 .. MaxAdds - 1 |-> Script]
    /\ refs = [j \in Jobs |-> {}]
    /\ fate = [j \in Jobs |-> "alive"]
    /\ missed = {}

\* Thread th may be executing a script: in a call from native code, in a task
\* (a timer's callback, fs's callback, what hangs on fetch's promise), or in the
\* microtask checkpoint at the end of OnUpdate.
InScript(th) ==
    \/ stage[th] = "js"
    \/ stage[th] = "update" /\ pc = "action"
    \/ stage[th] = "ran"

\* What a v8::Global meets that is destroyed by thread th now.
Fate(th) ==
    CASE life = "down"     -> "late"      \* the isolate is gone
      [] locker = th       -> "holder"    \* as V8 wants it
      [] locker = NoThread -> "unlocked"  \* nobody has the Locker
      [] OTHER             -> "raced"     \* another thread has it

\* Thread th lets go of its pointer to the handles of the jobs in J; the last
\* pointer destroys the v8::Global.
Release(th, J, holder) ==
    /\ refs' = [j \in Jobs |-> IF j \in J THEN refs[j] \ {holder} ELSE refs[j]]
    /\ fate' = [j \in Jobs |-> IF j \in J /\ refs[j] = {holder} THEN Fate(th) ELSE fate[j]]

----------------------------------------------------------------------------
\* InternalCall and the plugin callbacks: take the Locker, run JavaScript.
\* Nothing in the code keeps a thread out while the host is in Shutdown.
EnterScript(th) ==
    /\ stage[th] = "out"
    /\ life \in {"up", "reset"}
    /\ th = Host => life = "up"
    /\ locker = NoThread
    /\ locker' = th
    /\ stage' = [stage EXCEPT ![th] = "js"]
    /\ UNCHANGED <<schedVars, life, job, result, settled, closure, refs, fate, missed>>

LeaveScript(th) ==
    /\ stage[th] = "js"
    /\ locker' = NoThread
    /\ stage' = [stage EXCEPT ![th] = "out"]
    /\ UNCHANGED <<schedVars, life, job, result, settled, closure, refs, fate, missed>>

\* Mutant: OnUpdate without the Locker.
UpdateBeginUnlocked ==
    /\ stage[Host] = "out"
    /\ life = "up"
    /\ locker' = Host
    /\ stage' = [stage EXCEPT ![Host] = "update"]
    /\ UNCHANGED <<schedVars, life, job, result, settled, closure, refs, fate, missed>>

\* OnUpdate: Locker; Run(); microtask checkpoint; unlock.
UpdateBegin ==
    /\ stage[Host] = "out"
    /\ life = "up"
    /\ locker = NoThread
    /\ locker' = Host
    /\ stage' = [stage EXCEPT ![Host] = "update"]
    /\ UNCHANGED <<schedVars, life, job, result, settled, closure, refs, fate, missed>>

UpdateRun ==
    /\ stage[Host] = "update"
    /\ Sched!RunEnter(Host)
    /\ UNCHANGED <<locker, stage, life, job, result, settled, closure, refs, fate, missed>>

\* Run() calls a task: a job's task settles its promise or calls its callback.
UpdateFire ==
    /\ Sched!RunFire
    /\ settled' = [j \in Jobs |-> IF closure[it'] = j THEN result[j] ELSE settled[j]]
    /\ UNCHANGED <<locker, stage, life, job, result, closure, refs, fate, missed>>

\* An interval is re-armed; any other task is erased, its closure with it.
UpdateReturn ==
    /\ Sched!RunReturn
    /\ Release(Host, Jobs \intersect {closure[it]}, "task")
    /\ UNCHANGED <<locker, stage, life, job, result, settled, closure, missed>>

UpdateRunEnd ==
    /\ Sched!RunExit
    /\ stage' = [stage EXCEPT ![Host] = "ran"]
    /\ UNCHANGED <<locker, life, job, result, settled, closure, refs, fate, missed>>

UpdateEnd ==
    /\ stage[Host] = "ran"
    /\ locker' = NoThread
    /\ stage' = [stage EXCEPT ![Host] = "out"]
    /\ UNCHANGED <<schedVars, life, job, result, settled, closure, refs, fate, missed>>

----------------------------------------------------------------------------
\* The bound MaxAdds leaves room for every job's task.
RoomForTimer ==
    added + Cardinality({j \in Jobs : job[j] \in {"idle", "work", "post"}}) < MaxAdds

\* setTimeout and setInterval in a script.
SetTimer(th) ==
    /\ InScript(th)
    /\ RoomForTimer
    /\ \/ \E d \in Delays : Sched!AddTask(th, d, FALSE)
       \/ \E d \in Periods : Sched!AddTask(th, d, TRUE)
    /\ UNCHANGED <<locker, stage, life, job, result, settled, closure, refs, fate, missed>>

\* clearTimeout and clearInterval in a script, on an id that it was given.
ClearTimer(th) ==
    /\ InScript(th)
    /\ \E t \in tasks : closure[t.serial] = Script /\ Sched!RemoveTask(th, t.id)
    /\ UNCHANGED <<locker, stage, life, job, result, settled, closure, refs, fate, missed>>

\* fetch(url), fs.readFile(path, f) and the like: start a detached thread.
StartJob(th, j) ==
    /\ InScript(th)
    /\ job[j] = "idle"
    /\ job' = [job EXCEPT ![j] = "work"]
    /\ refs' = [refs EXCEPT ![j] = {"thread"}]
    /\ UNCHANGED <<schedVars, locker, stage, life, result, settled, closure, fate, missed>>

\* The request or the file operation, which may fail; fs catches what its
\* operation throws.
Work(j) ==
    /\ job[j] = "work"
    /\ \E r \in {"value", "error"} : result' = [result EXCEPT ![j] = r]
    /\ job' = [job EXCEPT ![j] = "post"]
    /\ UNCHANGED <<schedVars, locker, stage, life, settled, closure, refs, fate, missed>>

\* curl_easy_init fails: the exception leaves the thread's function, and the
\* process ends.
CurlInitFails(j) ==
    /\ j \in FetchJobs
    /\ job[j] = "work"
    /\ life' = "terminated"
    /\ UNCHANGED <<schedVars, locker, stage, job, result, settled, closure, refs, fate, missed>>

\* Mutants: the task has a raw pointer; every callback is copied.
HoldersThreadOnly(j) == {"thread"}
HoldersBoth(j) == {"thread", "task"}

\* Who holds the handle once the task is posted.
HoldersAfterPost(j) == IF j \in FsJobs THEN {"task"} ELSE {"thread", "task"}

\* Mutant: an error is not posted.
PostValueOnly(j) ==
    /\ job[j] = "post"
    /\ job' = [job EXCEPT ![j] = "unwind"]
    /\ IF result[j] = "value"
       THEN /\ Sched!AddTask(j, 0, FALSE)
            /\ closure' = [closure EXCEPT ![added] = j]
            /\ refs' = [refs EXCEPT ![j] = HoldersAfterPost(j)]
       ELSE UNCHANGED <<schedVars, closure, refs>>
    /\ UNCHANGED <<locker, stage, life, result, settled, fate, missed>>

\* Execute (fs), onSuccess and onError (fetch): AddTask, at any time.
Post(j) ==
    /\ job[j] = "post"
    /\ Sched!AddTask(j, 0, FALSE)
    /\ closure' = [closure EXCEPT ![added] = j]
    /\ job' = [job EXCEPT ![j] = "unwind"]
    /\ refs' = [refs EXCEPT ![j] = HoldersAfterPost(j)]
    /\ missed' = IF life = "up" THEN missed ELSE missed \union {j}
    /\ UNCHANGED <<locker, stage, life, result, settled, fate>>

\* The thread's function returns and destroys what it captured.
Unwind(j) ==
    /\ job[j] = "unwind"
    /\ job' = [job EXCEPT ![j] = "gone"]
    /\ IF "thread" \in refs[j] THEN Release(j, {j}, "thread") ELSE UNCHANGED <<refs, fate>>
    /\ UNCHANGED <<schedVars, locker, stage, life, result, settled, closure, missed>>

----------------------------------------------------------------------------
\* Every task is erased, and its closure with it.
DropTasks ==
    /\ \/ Sched!Reset(Host)
       \/ tasks = {} /\ owner = NoThread /\ UNCHANGED schedVars
    /\ Release(Host, {j \in Jobs : \E t \in tasks : closure[t.serial] = j}, "task")

\* Shutdown: _taskScheduler.Reset(), without the Locker and whoever holds it ...
ShutdownReset ==
    /\ life = "up"
    /\ stage[Host] = "out"
    /\ life' = "reset"
    /\ DropTasks
    /\ UNCHANGED <<locker, stage, job, result, settled, closure, missed>>

\* ... then the handles are dropped and the isolate is disposed of.  V8 aborts
\* the process when a thread is inside the isolate.
ShutdownDispose ==
    /\ life = "reset"
    /\ life' = IF locker = NoThread THEN "down" ELSE "terminated"
    /\ UNCHANGED <<schedVars, locker, stage, job, result, settled, closure, refs, fate, missed>>

\* The process exits: the destructor of the global module object, whose
\* _taskScheduler holds what was posted after the Reset.
StaticDestruction ==
    /\ life = "down"
    /\ life' = "terminated"
    /\ DropTasks
    /\ UNCHANGED <<locker, stage, job, result, settled, closure, missed>>

\* Nothing runs in a process that has ended; after Shutdown the host is idle.
Ended ==
    /\ life \in {"down", "terminated"}
    /\ UNCHANGED vars

Tick ==
    /\ Sched!Tick
    /\ UNCHANGED <<locker, stage, life, job, result, settled, closure, refs, fate, missed>>

HostStep ==
    \/ UpdateBegin \/ UpdateRun \/ UpdateFire \/ UpdateReturn \/ UpdateRunEnd \/ UpdateEnd

Alive == life # "terminated"

Next ==
    \/ Alive /\ (HostStep \/ ShutdownReset \/ ShutdownDispose \/ StaticDestruction \/ Tick)
    \/ Alive /\ \E th \in Entrants :
         \/ EnterScript(th) \/ LeaveScript(th) \/ SetTimer(th) \/ ClearTimer(th)
         \/ \E j \in Jobs : StartJob(th, j)
    \/ Alive /\ \E j \in Jobs : Work(j) \/ CurlInitFails(j) \/ Post(j) \/ Unwind(j)
    \/ Ended

Spec == Init /\ [][Next]_vars

\* The host updates on every tick and its calls and callbacks return; a native
\* caller's call returns; an operation of a job ends.  Both locks are contended
\* for: they are granted to a thread that keeps asking (strong fairness), which
\* operating systems provide in practice.
Fairness ==
    /\ SF_vars(Alive /\ UpdateBegin)
    /\ WF_vars(Alive /\ (UpdateRun \/ UpdateFire \/ UpdateReturn \/ UpdateRunEnd \/ UpdateEnd))
    /\ \A th \in Entrants : WF_vars(Alive /\ LeaveScript(th))
    /\ \A j \in Jobs : WF_vars(Alive /\ Work(j)) /\ SF_vars(Alive /\ Post(j))

FairSpec == Spec /\ Fairness

----------------------------------------------------------------------------
TypeOK ==
    /\ locker \in Entrants \union {NoThread}
    /\ stage \in [Entrants -> {"out", "js", "update", "ran"}]
    /\ life \in {"up", "reset", "down", "terminated"}
    /\ job \in [Jobs -> {"idle", "work", "post", "unwind", "gone"}]
    /\ result \in [Jobs -> {"none", "value", "error"}]
    /\ settled \in [Jobs -> {"no", "value", "error"}]
    /\ closure \in [0 .. MaxAdds - 1 -> Jobs \union {Script}]
    /\ refs \in [Jobs -> SUBSET {"thread", "task"}]
    /\ fate \in [Jobs -> {"alive", "holder", "unlocked", "raced", "late"}]
    /\ missed \subseteq Jobs

\* Scripts, timer callbacks and settlements run on one thread at a time, the
\* one with the Locker; the mutex is held across callbacks only under it, so
\* the two locks are always taken in the same order.
OneThreadInIsolate ==
    /\ \A th \in Entrants : stage[th] # "out" => locker = th
    /\ owner # NoThread => locker = owner

\* While a job's task waits or runs, the handle that it uses is alive, and it is
\* the job's only task; until it is called the job is not settled, so a promise
\* is settled, and a callback called, once.
HandleOutlivesTask ==
    \A t \in tasks : closure[t.serial] # Script =>
        /\ "task" \in refs[closure[t.serial]]
        /\ ~ t.exec => settled[closure[t.serial]] = "no"
        /\ \A u \in tasks : closure[u.serial] = closure[t.serial] => u = t

\* The callback handle of an fs operation moves with its task: a running module
\* destroys it on the thread that holds the isolate and on no other.  It is
\* destroyed without the Locker, or while another thread has it, only if Shutdown's
\* Reset found the task still waiting, and outlives the isolate only if the job posted
\* after that Reset.
FsHandleReleasedSafely ==
    \A j \in FsJobs :
        /\ fate[j] \in {"unlocked", "raced"} => \E s \in wiped : closure[s] = j
        /\ fate[j] = "late" => j \in missed

\* v8-locker.h: only one thread at a time is allowed to use an isolate, and
\* using it includes accessing handles.  fetch's thread destroys its copies of
\* the resolver handle when its function returns, without the Locker.
FetchHandleReleasedSafely == life = "up" => \A j \in FetchJobs : fate[j] # "raced"

\* A job that was started is settled, or the module is shut down or the process
\* ends first, unless one call of Run() never returns (an interval with a
\* period below zero, or of zero on a clock that stands still): other threads
\* cannot keep the job's thread from the mutex for ever, and a Run() that
\* returns has called every task that was due, timers of any delay before it.
JobSettles ==
    \/ <>[](pc # "idle")
    \/ \A j \in Jobs : (job[j] # "idle") ~> (settled[j] # "no" \/ life # "up")
=============================================================================
