-------------------------- MODULE AsyncJobsProofs --------------------------
(***************************************************************************)
(* Proofs about AsyncJobs, for any number of threads, callers and jobs.    *)
(* AsyncJobs drives the scheduler as one of its clients (UsesScheduler),   *)
(* so that the invariant proved in TaskSchedulerProofs holds of it; IndInv *)
(* is what the locks, the closures and the handles add.                    *)
(***************************************************************************)
EXTENDS AsyncJobs, TLAPS

\* The scheduler with its proofs, instantiated as in AsyncJobs.
Queue == INSTANCE TaskSchedulerProofs WITH
    Threads <- Entrants \union Jobs, Delays <- Delays \union {0}, NewDelays <- {},
    IdSpace <- MaxAdds + 1

\* The isolate is used under the Locker alone, and Run only by the host's
\* update; the host is out of it when it shuts down, others when it is gone.
LocksOK ==
    /\ \A th \in Entrants : stage[th] # "out" => locker = th
    /\ locker # NoThread => stage[locker] # "out"
    /\ owner # NoThread => owner = Host /\ stage[Host] = "update"
    /\ life \in {"reset", "down"} => stage[Host] = "out"
    /\ life = "down" => locker = NoThread

\* A job posts one task, which does not repeat.
ClosuresOK ==
    /\ \A t \in tasks : closure[t.serial] # Script => ~ t.repeat
    /\ \A s \in 0 .. MaxAdds - 1 : s >= added => closure[s] = Script
    /\ \A s, u \in 0 .. MaxAdds - 1 : closure[s] = closure[u] /\ closure[s] # Script => s = u

\* How far a job's thread is tells what there is of its task and its handle.
JobsOK ==
    /\ \A j \in Jobs : job[j] \in {"idle", "work", "post"} =>
         settled[j] = "no" /\ \A s \in 0 .. MaxAdds - 1 : closure[s] # j
    /\ \A j \in Jobs : result[j] = "none" => job[j] \in {"idle", "work"}
    /\ \A j \in FsJobs : job[j] \in {"unwind", "gone"} => "thread" \notin refs[j]
    /\ \A t \in tasks : closure[t.serial] # Script =>
         /\ "task" \in refs[closure[t.serial]]
         /\ ~ t.exec => settled[closure[t.serial]] = "no"

\* Where a destroyed handle was destroyed; and the tasks that wait after
\* Shutdown's Reset are those that were posted after it.
FatesOK ==
    /\ FsHandleReleasedSafely
    /\ life \in {"reset", "down"} =>
         \A t \in tasks : closure[t.serial] # Script => closure[t.serial] \in missed

\* The inductive invariant, relative to the scheduler's own.
IndInv == TypeOK /\ LocksOK /\ ClosuresOK /\ JobsOK /\ FatesOK
SchedInv == Queue!IndInv

----------------------------------------------------------------------------
\* AsyncJobs gives the scheduler's constants values that it allows.
LEMMA QueueConstants == Queue!SchedulerConstants
BY AsyncConstants DEF Queue!SchedulerConstants

\* What the scheduler's invariant says of the tasks and of Run.
LEMMA QueueFacts ==
  ASSUME SchedInv
  PROVE  /\ \A t \in tasks : /\ t.serial \in 0 .. MaxAdds - 1 /\ t.serial < added
                             /\ t.id \in 0 .. MaxAdds /\ t \in Queue!Task
                             /\ t.exec <=> (pc = "action" /\ t.serial = it)
         /\ \A t, u \in tasks : t.serial = u.serial => t = u
         /\ added \in Int /\ added <= MaxAdds /\ 0 <= added
         /\ owner = NoThread <=> pc = "idle"
         /\ wiped \subseteq 0 .. added - 1
<1> USE AsyncConstants
<1>1. tasks \subseteq Queue!Task /\ added \in 0 .. MaxAdds
  BY DEF SchedInv, Queue!IndInv, Queue!TypeOK
<1>2. \A t \in Queue!Task : t.serial \in 0 .. MaxAdds - 1 /\ t.id \in 0 .. MaxAdds
  BY DEF Queue!Task, Queue!Serials, Queue!Ids
<1>3. /\ \A t \in tasks : t.serial < added
      /\ \A t, u \in tasks : t.serial = u.serial => t = u
  BY DEF SchedInv, Queue!IndInv, Queue!SerialsUnique
<1>4. \A t \in tasks : t.exec <=> (pc = "action" /\ t.serial = it)
  BY DEF SchedInv, Queue!IndInv, Queue!IteratorValid
<1>5. owner = NoThread <=> pc = "idle"
  BY DEF SchedInv, Queue!IndInv, Queue!InRun
<1>6. wiped \subseteq 0 .. added - 1
  BY DEF SchedInv, Queue!IndInv, Queue!Marks
<1> QED BY <1>1, <1>2, <1>3, <1>4, <1>5, <1>6

----------------------------------------------------------------------------
\* Whatever the threads do, the scheduler sees one of its own operations.
LEMMA StepUsesScheduler ==
  ASSUME SchedInv, [Next]_vars
  PROVE  [Queue!Next]_(Queue!vars)
<1> DEFINE Idle == UNCHANGED schedVars
<1> SUFFICES ASSUME ~ Idle PROVE Queue!Next
  BY DEF schedVars, Queue!vars
<1>1. CASE Sched!RunEnter(Host)
  <2>1. Queue!RunEnter(Host)
    BY <1>1 DEF Sched!RunEnter, Queue!RunEnter, Sched!history, Queue!history
  <2> QED BY <2>1 DEF Queue!Next, Entrants
<1>2. CASE Sched!RunFire
  <2>1. Queue!RunFire
    BY <1>2 DEF Sched!RunFire, Queue!RunFire, Sched!IsFirst, Queue!IsFirst, Sched!Before, Queue!Before
  <2> QED BY <2>1 DEF Queue!Next, Queue!RunStep
<1>3. CASE Sched!RunReturn
  <2>1. Queue!RunReturn
    BY <1>3 DEF Sched!RunReturn, Queue!RunReturn, Sched!Finished, Queue!Finished,
                Sched!Rearmed, Queue!Rearmed, Sched!Inserted, Queue!Inserted,
                Sched!SameKey, Queue!SameKey, Sched!history, Queue!history
  <2> QED BY <2>1 DEF Queue!Next, Queue!RunStep
<1>4. CASE Sched!RunExit
  <2>1. Queue!RunExit
    BY <1>4 DEF Sched!RunExit, Queue!RunExit, Sched!IsFirst, Queue!IsFirst,
                Sched!Before, Queue!Before, Sched!history, Queue!history
  <2> QED BY <2>1 DEF Queue!Next, Queue!RunStep
<1>5. CASE Sched!Tick
  <2>1. Queue!Tick
    BY <1>5 DEF Sched!Tick, Queue!Tick, Sched!runVars, Queue!runVars, Sched!history, Queue!history
  <2> QED BY <2>1 DEF Queue!Next
<1>6. CASE Sched!Reset(Host)
  <2>1. Queue!Reset(Host)
    BY <1>6 DEF Sched!Reset, Queue!Reset, Sched!runVars, Queue!runVars
  <2> QED BY <2>1 DEF Queue!Next, Entrants
<1>7. ASSUME NEW th \in Entrants \union Jobs, NEW d \in Int, NEW r \in BOOLEAN,
             Sched!AddTask(th, d, r),
             \/ r = FALSE /\ d \in Delays \union {0}
             \/ r = TRUE /\ d \in Periods
      PROVE  Queue!Next
  <2>1. Queue!AddTask(th, d, r)
    BY <1>7 DEF Sched!AddTask, Queue!AddTask, Sched!CanLock, Queue!CanLock,
                Sched!NewTask, Queue!NewTask, Sched!NextId, Queue!NextId,
                Sched!Inserted, Queue!Inserted, Sched!SameKey, Queue!SameKey,
                Sched!runVars, Queue!runVars, Sched!history, Queue!history
  <2> QED BY <2>1, <1>7 DEF Queue!Next, Queue!SetTimeout, Queue!SetInterval
<1>8. ASSUME NEW th \in Entrants, NEW t \in tasks, Sched!RemoveTask(th, t.id)
      PROVE  Queue!Next
  <2>1. Queue!RemoveTask(th, t.id)
    BY <1>8 DEF Sched!RemoveTask, Queue!RemoveTask, Sched!CanLock, Queue!CanLock,
                Sched!Found, Queue!Found, Sched!Before, Queue!Before,
                Sched!Removed, Queue!Removed, Sched!runVars, Queue!runVars
  <2>2. t.id \in Queue!Ids
    BY QueueFacts, AsyncConstants DEF Queue!Ids
  <2> QED BY <2>1, <2>2 DEF Queue!Next, Queue!ClearTimer
<1>9. CASE UNCHANGED vars \/ Ended
  BY <1>9 DEF vars, Ended
<1>10. CASE HostStep \/ ShutdownReset \/ ShutdownDispose \/ StaticDestruction \/ Tick
  BY <1>1, <1>2, <1>3, <1>4, <1>5, <1>6, <1>10
     DEF HostStep, UpdateBegin, UpdateRun, UpdateFire, UpdateReturn, UpdateRunEnd, UpdateEnd,
         ShutdownReset, ShutdownDispose, StaticDestruction, DropTasks, Tick
<1>11. ASSUME NEW th \in Entrants,
              \/ EnterScript(th) \/ LeaveScript(th) \/ SetTimer(th) \/ ClearTimer(th)
              \/ \E j \in Jobs : StartJob(th, j)
       PROVE  Queue!Next
  <2>1. SetTimer(th) => Queue!Next
    BY <1>7, AsyncConstants DEF SetTimer
  <2> QED BY <1>8, <1>11, <2>1 DEF EnterScript, LeaveScript, ClearTimer, StartJob
<1>12. ASSUME NEW j \in Jobs, Work(j) \/ CurlInitFails(j) \/ Post(j) \/ Unwind(j)
       PROVE  Queue!Next
  <2>1. Sched!AddTask(j, 0, FALSE) => Queue!Next
    <3>1. 0 \in Int /\ 0 \in Delays \union {0} /\ j \in Entrants \union Jobs /\ FALSE \in BOOLEAN
      OBVIOUS
    <3> QED BY <3>1, <1>7
  <2> QED BY <1>12, <2>1 DEF Work, CurlInitFails, Post, Unwind
<1> QED BY <1>9, <1>10, <1>11, <1>12 DEF Next

\* The scheduler starts empty.
LEMMA InitUsesScheduler == Init => Queue!Init
BY DEF Init, Sched!Init, Queue!Init

\* The scheduler's invariant holds among the threads of the module.
LEMMA SchedulerInvariant == Spec => []SchedInv
<1>1. Init => SchedInv
  BY InitUsesScheduler, QueueConstants, Queue!InitInv DEF SchedInv
<1>2. SchedInv /\ [Next]_vars => SchedInv'
  BY StepUsesScheduler, QueueConstants, Queue!NextInv DEF SchedInv
<1> QED BY <1>1, <1>2, PTL DEF Spec

\* The threads of the module are clients of the task scheduler: what is proved
\* of the scheduler holds of it in the module too.
THEOREM UsesScheduler == Spec => Queue!Spec
<1>1. Init => Queue!Init
  BY InitUsesScheduler
<1>2. SchedInv /\ [Next]_vars => [Queue!Next]_(Queue!vars)
  BY StepUsesScheduler
<1> QED BY <1>1, <1>2, SchedulerInvariant, PTL DEF Spec, Queue!Spec

----------------------------------------------------------------------------
\* Nothing has been started.
LEMMA InitInv == Init => IndInv
<1> SUFFICES ASSUME Init PROVE IndInv
  OBVIOUS
<1> USE AsyncConstants
<1>1. tasks = {} /\ owner = NoThread
  BY DEF Init, Sched!Init
<1>2. TypeOK
  BY DEF Init, TypeOK
<1>3. LocksOK
  BY <1>1 DEF Init, LocksOK
<1>4. ClosuresOK
  BY <1>1 DEF Init, ClosuresOK
<1>5. JobsOK
  BY <1>1 DEF Init, JobsOK, Jobs
<1>6. FatesOK
  BY <1>1 DEF Init, FatesOK, FsHandleReleasedSafely, Jobs
<1> QED BY <1>2, <1>3, <1>4, <1>5, <1>6 DEF IndInv

\* Native code and the host enter and leave the isolate under the Locker.
LEMMA LockerInv ==
  ASSUME IndInv, NEW th \in Entrants,
         EnterScript(th) \/ LeaveScript(th) \/ UpdateBegin \/ UpdateEnd
  PROVE  IndInv'
<1> USE AsyncConstants
<1>1. /\ UNCHANGED <<tasks, added, wiped, owner, life, job, result, settled, closure, refs, fate, missed>>
      /\ Host \in Entrants
  BY DEF EnterScript, LeaveScript, UpdateBegin, UpdateEnd, schedVars, Entrants
<1>2. TypeOK'
  BY <1>1 DEF IndInv, TypeOK, EnterScript, LeaveScript, UpdateBegin, UpdateEnd
<1>3. LocksOK'
  <2>1. CASE EnterScript(th)
    BY <1>1, <2>1 DEF EnterScript, IndInv, TypeOK, LocksOK
  <2>2. CASE LeaveScript(th)
    BY <1>1, <2>2 DEF LeaveScript, IndInv, TypeOK, LocksOK
  <2>3. CASE UpdateBegin
    BY <1>1, <2>3 DEF UpdateBegin, IndInv, TypeOK, LocksOK
  <2>4. CASE UpdateEnd
    BY <1>1, <2>4 DEF UpdateEnd, IndInv, TypeOK, LocksOK
  <2> QED BY <2>1, <2>2, <2>3, <2>4
<1>4. (ClosuresOK /\ JobsOK /\ FatesOK)'
  BY <1>1 DEF IndInv, ClosuresOK, JobsOK, FatesOK, FsHandleReleasedSafely
<1> QED BY <1>2, <1>3, <1>4 DEF IndInv

\* A task is a script's or some job's.
LEMMA TaskClosure ==
  ASSUME SchedInv, TypeOK, NEW t \in tasks
  PROVE  closure[t.serial] \in Jobs \union {Script}
BY QueueFacts DEF TypeOK

\* A job is started and works: it has posted no task yet.
LEMMA WorkInv ==
  ASSUME SchedInv, IndInv, NEW j \in Jobs,
         (\E th \in Entrants : StartJob(th, j)) \/ Work(j) \/ CurlInitFails(j)
  PROVE  IndInv'
<1> USE AsyncConstants
<1>1. /\ UNCHANGED <<tasks, added, wiped, owner, locker, stage, settled, closure, fate, missed>>
      /\ life' \in {life, "terminated"}
      /\ job[j] \in {"idle", "work"}
      /\ job' \in [Jobs -> {"idle", "work", "post", "unwind", "gone"}]
      /\ job'[j] \in {"work", "post"} /\ \A k \in Jobs \ {j} : job'[k] = job[k]
      /\ refs' \in [Jobs -> SUBSET {"thread", "task"}]
      /\ \A k \in Jobs \ {j} : refs'[k] = refs[k] /\ result'[k] = result[k]
      /\ result' \in [Jobs -> {"none", "value", "error"}]
      /\ result'[j] = "none" => job'[j] = "work"
  BY DEF StartJob, Work, CurlInitFails, schedVars, IndInv, TypeOK
<1>2. TypeOK'
  BY <1>1 DEF IndInv, TypeOK
<1>3. LocksOK'
  BY <1>1 DEF IndInv, LocksOK
<1>4. ClosuresOK' /\ FatesOK'
  BY <1>1 DEF IndInv, ClosuresOK, FatesOK, FsHandleReleasedSafely
<1>5. JobsOK'
  <2>1. \A k \in Jobs : job'[k] \in {"idle", "work", "post"} =>
          settled[k] = "no" /\ \A s \in 0 .. MaxAdds - 1 : closure[s] # k
    BY <1>1 DEF IndInv, JobsOK
  <2>2. \A k \in Jobs : result'[k] = "none" => job'[k] \in {"idle", "work"}
    BY <1>1 DEF IndInv, JobsOK
  <2>3. \A k \in FsJobs : job'[k] \in {"unwind", "gone"} => "thread" \notin refs'[k]
    BY <1>1 DEF IndInv, JobsOK, Jobs
  <2>4. \A t \in tasks : closure[t.serial] # j
    <3>1. \A s \in 0 .. MaxAdds - 1 : closure[s] # j
      BY <1>1 DEF IndInv, JobsOK
    <3> QED BY <3>1, QueueFacts
  <2>5. \A t \in tasks : closure[t.serial] # Script =>
          /\ "task" \in refs'[closure[t.serial]]
          /\ ~ t.exec => settled[closure[t.serial]] = "no"
    <3> SUFFICES ASSUME NEW t \in tasks, closure[t.serial] # Script
                 PROVE  /\ "task" \in refs'[closure[t.serial]]
                        /\ ~ t.exec => settled[closure[t.serial]] = "no"
      OBVIOUS
    <3>1. closure[t.serial] \in Jobs \ {j}
      BY <2>4, TaskClosure DEF IndInv
    <3> QED BY <1>1, <3>1 DEF IndInv, JobsOK
  <2> QED BY <1>1, <2>1, <2>2, <2>3, <2>5 DEF JobsOK
<1> QED BY <1>2, <1>3, <1>4, <1>5 DEF IndInv

\* A script sets a timer.
LEMMA SetTimerInv ==
  ASSUME SchedInv, IndInv, NEW th \in Entrants, SetTimer(th)
  PROVE  IndInv'
<1> USE AsyncConstants
<1>0. PICK d \in Int, r \in BOOLEAN : Sched!AddTask(th, d, r)
  BY DEF SetTimer
<1>1. /\ tasks' \subseteq tasks \union {Sched!NewTask(d, r)}
      /\ added' = added + 1
      /\ UNCHANGED <<wiped, owner, locker, stage, life, job, result, settled, closure, refs, fate, missed>>
  BY <1>0 DEF SetTimer, Sched!AddTask, Sched!runVars, Sched!history, Sched!Inserted
<1> DEFINE n == Sched!NewTask(d, r)
<1>2. n.serial = added /\ added \in 0 .. MaxAdds - 1 /\ added' \in Int
  BY <1>0, QueueFacts DEF Sched!AddTask, Sched!NewTask
<1> HIDE DEF n
<1>3. closure[n.serial] = Script
  <2>1. closure[added] = Script
    BY <1>2 DEF IndInv, ClosuresOK
  <2> QED BY <1>2, <2>1
<1>4. TypeOK' /\ LocksOK'
  BY <1>1 DEF IndInv, TypeOK, LocksOK
<1>7. \A t \in tasks' : closure[t.serial] # Script => t \in tasks
  BY <1>1, <1>3 DEF n
<1>8. FatesOK'
  BY <1>1, <1>7 DEF IndInv, FatesOK, FsHandleReleasedSafely
<1>5. ClosuresOK'
  <2>1. \A t \in tasks' : closure[t.serial] # Script => ~ t.repeat
    BY <1>7 DEF IndInv, ClosuresOK
  <2>2. \A s \in 0 .. MaxAdds - 1 : s >= added' => closure[s] = Script
    BY <1>1, <1>2 DEF IndInv, ClosuresOK
  <2> QED BY <1>1, <2>1, <2>2 DEF IndInv, ClosuresOK
<1>6. JobsOK'
  BY <1>1, <1>7 DEF IndInv, JobsOK
<1> QED BY <1>4, <1>5, <1>6, <1>8 DEF IndInv

\* A script clears a timer of its own: no job's task goes.
LEMMA ClearTimerInv ==
  ASSUME SchedInv, IndInv, NEW th \in Entrants, ClearTimer(th)
  PROVE  IndInv'
<1> USE AsyncConstants
<1>1. PICK t \in tasks : closure[t.serial] = Script /\ Sched!RemoveTask(th, t.id)
  BY DEF ClearTimer
<1>2. PICK u \in tasks : u.id = t.id /\ Sched!Found(u, t.id) /\ tasks' = Sched!Removed(u)
  BY <1>1 DEF Sched!RemoveTask, Sched!Found
<1> DEFINE k == [u EXCEPT !.kill = TRUE]
<1>3. /\ k.serial = u.serial /\ k.repeat = u.repeat /\ k.exec = u.exec
      /\ tasks' \subseteq tasks \union {k}
  BY <1>2, QueueFacts DEF Queue!Task, Sched!Removed
<1>4. UNCHANGED <<added, wiped, owner, locker, stage, life, job, result, settled, closure, refs, fate, missed>>
  BY <1>1 DEF ClearTimer, Sched!RemoveTask, Sched!runVars
<1> HIDE DEF k
<1>5. TypeOK' /\ LocksOK'
  BY <1>4 DEF IndInv, TypeOK, LocksOK
<1>8. FatesOK'
  BY <1>3, <1>4 DEF IndInv, FatesOK, FsHandleReleasedSafely
<1>6. ClosuresOK'
  BY <1>3, <1>4 DEF IndInv, ClosuresOK
<1>7. JobsOK'
  <2>1. \A v \in tasks' : \E w \in tasks : v.serial = w.serial /\ v.exec = w.exec
    BY <1>3
  <2> QED BY <1>4, <2>1 DEF IndInv, JobsOK
<1> QED BY <1>5, <1>6, <1>7, <1>8 DEF IndInv

\* A job's thread posts its task: the one that names the job.
LEMMA PostInv ==
  ASSUME SchedInv, IndInv, NEW j \in Jobs, Post(j)
  PROVE  IndInv'
<1> USE AsyncConstants
<1> DEFINE n == Sched!NewTask(0, FALSE)
<1>1. /\ tasks' \subseteq tasks \union {n}
      /\ added' = added + 1
      /\ closure' = [closure EXCEPT ![added] = j]
      /\ job[j] = "post" /\ job' = [job EXCEPT ![j] = "unwind"]
      /\ refs' = [refs EXCEPT ![j] = HoldersAfterPost(j)]
      /\ missed' = IF life = "up" THEN missed ELSE missed \union {j}
      /\ UNCHANGED <<wiped, owner, locker, stage, life, result, settled, fate>>
  BY DEF Post, Sched!AddTask, Sched!runVars, Sched!history, Sched!Inserted
<1>2. n.serial = added /\ ~ n.repeat /\ ~ n.exec /\ added \in 0 .. MaxAdds - 1 /\ added' \in Int
  BY QueueFacts DEF Post, Sched!AddTask, Sched!NewTask
<1> HIDE DEF n
<1>3. /\ \A s \in 0 .. MaxAdds - 1 : closure[s] # j
      /\ settled[j] = "no" /\ result[j] # "none"
      /\ \A s \in 0 .. MaxAdds - 1 : s >= added => closure[s] = Script
  BY <1>1 DEF IndInv, JobsOK, ClosuresOK
<1>4. closure'[added] = j /\ \A s \in 0 .. MaxAdds - 1 : s # added => closure'[s] = closure[s]
  BY <1>1, <1>2 DEF IndInv, TypeOK
<1>5. /\ "task" \in HoldersAfterPost(j) /\ HoldersAfterPost(j) \subseteq {"thread", "task"}
      /\ j \in FsJobs => "thread" \notin HoldersAfterPost(j)
  BY DEF HoldersAfterPost
<1>6. TypeOK'
  BY <1>1, <1>2, <1>5 DEF IndInv, TypeOK
<1>7. LocksOK'
  BY <1>1 DEF IndInv, LocksOK
<1>10. FatesOK'
  <2>1. FsHandleReleasedSafely'
    <3> SUFFICES ASSUME NEW k \in FsJobs
                 PROVE  /\ fate[k] \in {"unlocked", "raced"} => \E s \in wiped : closure'[s] = k
                        /\ fate[k] = "late" => k \in missed'
      BY <1>1 DEF FsHandleReleasedSafely
    <3>1. \A s \in wiped : closure'[s] = closure[s]
      BY <1>2, <1>4, QueueFacts
    <3> QED BY <1>1, <3>1 DEF IndInv, FatesOK, FsHandleReleasedSafely
  <2>2. ASSUME NEW t \in tasks', life \in {"reset", "down"}, closure'[t.serial] # Script
        PROVE  closure'[t.serial] \in missed'
    <3>1. CASE t = n
      BY <1>1, <1>2, <1>4, <2>2, <3>1
    <3>2. CASE t \in tasks
      <4>1. t.serial \in 0 .. MaxAdds - 1 /\ t.serial # added
        BY <1>2, <3>2, QueueFacts
      <4> QED BY <1>1, <1>4, <2>2, <3>2, <4>1 DEF IndInv, FatesOK
    <3> QED BY <1>1, <3>1, <3>2
  <2> QED BY <1>1, <2>1, <2>2 DEF FatesOK
<1>8. ClosuresOK'
  <2>1. \A t \in tasks' : closure'[t.serial] # Script => ~ t.repeat
    <3> SUFFICES ASSUME NEW t \in tasks, closure'[t.serial] # Script PROVE ~ t.repeat
      BY <1>1, <1>2
    <3>1. t.serial \in 0 .. MaxAdds - 1 /\ t.serial # added
      BY <1>2, QueueFacts
    <3> QED BY <1>4, <3>1 DEF IndInv, ClosuresOK
  <2>2. \A s \in 0 .. MaxAdds - 1 : s >= added' => closure'[s] = Script
    BY <1>1, <1>2, <1>3, <1>4
  <2>3. \A s, u \in 0 .. MaxAdds - 1 : closure'[s] = closure'[u] /\ closure'[s] # Script => s = u
    BY <1>2, <1>3, <1>4 DEF IndInv, ClosuresOK
  <2> QED BY <2>1, <2>2, <2>3 DEF ClosuresOK
<1>9. JobsOK'
  <2>1. \A k \in Jobs : job'[k] \in {"idle", "work", "post"} =>
          settled[k] = "no" /\ \A s \in 0 .. MaxAdds - 1 : closure'[s] # k
    BY <1>1, <1>4 DEF IndInv, JobsOK, TypeOK
  <2>2. \A k \in Jobs : result[k] = "none" => job'[k] \in {"idle", "work"}
    BY <1>1, <1>3 DEF IndInv, JobsOK, TypeOK
  <2>3. \A k \in FsJobs : job'[k] \in {"unwind", "gone"} => "thread" \notin refs'[k]
    BY <1>1, <1>5 DEF IndInv, JobsOK, TypeOK, Jobs
  <2>4. \A t \in tasks' : closure'[t.serial] # Script =>
          /\ "task" \in refs'[closure'[t.serial]]
          /\ ~ t.exec => settled[closure'[t.serial]] = "no"
    <3> SUFFICES ASSUME NEW t \in tasks', closure'[t.serial] # Script
                 PROVE  /\ "task" \in refs'[closure'[t.serial]]
                        /\ ~ t.exec => settled[closure'[t.serial]] = "no"
      OBVIOUS
    <3>1. CASE t = n
      BY <1>1, <1>2, <1>3, <1>4, <1>5, <3>1 DEF IndInv, TypeOK
    <3>2. CASE t \in tasks
      <4>1. t.serial \in 0 .. MaxAdds - 1 /\ t.serial # added
        BY <1>2, <3>2, QueueFacts
      <4>2. closure'[t.serial] = closure[t.serial] /\ closure[t.serial] \in Jobs \ {j}
        BY <1>3, <1>4, <3>2, <4>1, TaskClosure DEF IndInv
      <4> QED BY <1>1, <3>2, <4>2 DEF IndInv, JobsOK, TypeOK
    <3> QED BY <1>1, <3>1, <3>2
  <2> QED BY <1>1, <2>1, <2>2, <2>3, <2>4 DEF JobsOK
<1> QED BY <1>6, <1>7, <1>8, <1>9, <1>10 DEF IndInv

----------------------------------------------------------------------------
\* The host's Run: it is under the Locker.
LEMMA RunBoundsInv ==
  ASSUME SchedInv, IndInv, UpdateRun \/ UpdateRunEnd \/ Tick
  PROVE  IndInv'
<1> USE AsyncConstants
<1>1. /\ UNCHANGED <<tasks, added, wiped, locker, life, job, result, settled, closure, refs, fate, missed>>
      /\ Host \in Entrants
  BY DEF UpdateRun, UpdateRunEnd, Tick, Sched!RunEnter, Sched!RunExit, Sched!Tick, Sched!history,
         Entrants
<1>2. /\ stage' \in [Entrants -> {"out", "js", "update", "ran"}]
      /\ \A th \in Entrants : stage'[th] # "out" <=> stage[th] # "out"
      /\ owner' # NoThread => owner' = Host /\ stage'[Host] = "update"
  <2>1. CASE UpdateRun
    BY <2>1 DEF UpdateRun, Sched!RunEnter, IndInv, TypeOK
  <2>2. CASE UpdateRunEnd
    <3>1. owner # NoThread /\ owner' = NoThread /\ stage' = [stage EXCEPT ![Host] = "ran"]
      BY <2>2, QueueFacts DEF UpdateRunEnd, Sched!RunExit
    <3>2. stage[Host] = "update"
      BY <3>1 DEF IndInv, LocksOK
    <3> QED BY <3>1, <3>2 DEF IndInv, TypeOK
  <2>3. CASE Tick
    BY <2>3 DEF Tick, Sched!Tick, Sched!runVars, IndInv, TypeOK, LocksOK
  <2> QED BY <2>1, <2>2, <2>3
<1>3. TypeOK'
  BY <1>1, <1>2 DEF IndInv, TypeOK
<1>4. LocksOK'
  BY <1>1, <1>2 DEF IndInv, TypeOK, LocksOK
<1>5. (ClosuresOK /\ JobsOK /\ FatesOK)'
  BY <1>1 DEF IndInv, ClosuresOK, JobsOK, FatesOK, FsHandleReleasedSafely
<1> QED BY <1>3, <1>4, <1>5 DEF IndInv

\* Run calls a task: its job, if it has one, is settled.
LEMMA FireInv ==
  ASSUME SchedInv, SchedInv', IndInv, UpdateFire
  PROVE  IndInv'
<1> USE AsyncConstants
<1>1. PICK t \in tasks : /\ tasks' = (tasks \ {t}) \union {[t EXCEPT !.exec = TRUE]}
                         /\ it' = t.serial
  BY DEF UpdateFire, Sched!RunFire
<1> DEFINE k == [t EXCEPT !.exec = TRUE]
<1>2. /\ k.serial = t.serial /\ k.repeat = t.repeat /\ k.exec
      /\ tasks' = (tasks \ {t}) \union {k}
  BY <1>1, QueueFacts DEF Queue!Task
<1> HIDE DEF k
<1>3. /\ UNCHANGED <<added, wiped, owner, locker, stage, life, job, result, closure, refs, fate, missed>>
      /\ settled' = [j \in Jobs |-> IF closure[t.serial] = j THEN result[j] ELSE settled[j]]
  BY <1>1 DEF UpdateFire, Sched!RunFire
<1>4. ASSUME NEW j \in Jobs, closure[t.serial] = j
      PROVE  result[j] \in {"value", "error"} /\ job[j] \in {"unwind", "gone"}
  <2>1. t.serial \in 0 .. MaxAdds - 1
    BY QueueFacts
  <2>2. job[j] \notin {"idle", "work", "post"}
    BY <1>4, <2>1 DEF IndInv, JobsOK
  <2> QED BY <2>2 DEF IndInv, JobsOK, TypeOK
<1>5. TypeOK'
  BY <1>3, <1>4 DEF IndInv, TypeOK
<1>6. LocksOK'
  BY <1>3 DEF IndInv, LocksOK
<1>9. FatesOK'
  BY <1>2, <1>3 DEF IndInv, FatesOK, FsHandleReleasedSafely
<1>7. ClosuresOK'
  BY <1>2, <1>3 DEF IndInv, ClosuresOK
<1>8. JobsOK'
  <2>1. \A j \in Jobs : job[j] \in {"idle", "work", "post"} =>
          settled'[j] = "no" /\ \A s \in 0 .. MaxAdds - 1 : closure[s] # j
    BY <1>3, <1>4 DEF IndInv, JobsOK
  <2>2. \A u \in tasks' : closure[u.serial] # Script =>
          /\ "task" \in refs[closure[u.serial]]
          /\ ~ u.exec => settled'[closure[u.serial]] = "no"
    <3> SUFFICES ASSUME NEW u \in tasks', closure[u.serial] # Script
                 PROVE  /\ "task" \in refs[closure[u.serial]]
                        /\ ~ u.exec => settled'[closure[u.serial]] = "no"
      OBVIOUS
    <3>1. CASE u = k
      BY <1>2, <3>1 DEF IndInv, JobsOK
    <3>2. CASE u \in tasks \ {t}
      <4>1. u.serial # t.serial /\ u.serial \in 0 .. MaxAdds - 1 /\ t.serial \in 0 .. MaxAdds - 1
        BY <3>2, QueueFacts
      <4>2. closure[u.serial] # closure[t.serial] /\ closure[u.serial] \in Jobs
        BY <3>2, <4>1, TaskClosure DEF IndInv, ClosuresOK
      <4> QED BY <1>3, <3>2, <4>2 DEF IndInv, JobsOK
    <3> QED BY <1>2, <3>1, <3>2
  <2> QED BY <1>3, <2>1, <2>2 DEF IndInv, JobsOK
<1> QED BY <1>5, <1>6, <1>7, <1>8, <1>9 DEF IndInv

\* What letting go does to the pointers and to where handles are destroyed.
LEMMA Releases ==
  ASSUME IndInv, NEW th, NEW J \in SUBSET Jobs, NEW h, Release(th, J, h)
  PROVE  /\ refs' \in [Jobs -> SUBSET {"thread", "task"}]
         /\ \A j \in Jobs : refs'[j] \subseteq refs[j]
         /\ \A j \in Jobs \ J : refs'[j] = refs[j] /\ fate'[j] = fate[j]
         /\ fate' \in [Jobs -> {"alive", "holder", "unlocked", "raced", "late"}]
         /\ \A j \in Jobs : fate'[j] \in {fate[j], Fate(th)}
<1>1. Fate(th) \in {"alive", "holder", "unlocked", "raced", "late"}
  BY DEF Fate
<1> QED BY <1>1 DEF Release, IndInv, TypeOK

\* A task's action has returned: the task goes, and no other is of its job.
LEMMA ReturnInv ==
  ASSUME SchedInv, IndInv, UpdateReturn
  PROVE  IndInv'
<1> USE AsyncConstants
<1>1. PICK t \in tasks : t.serial = it /\ tasks' = Sched!Finished(t)
  BY DEF UpdateReturn, Sched!RunReturn
<1>2. /\ t.serial \in 0 .. MaxAdds - 1
      /\ \A u \in tasks' : \/ u \in tasks \ {t}
                           \/ /\ u.serial = t.serial /\ u.repeat = t.repeat
                              /\ closure[t.serial] = Script
  <2>1. \/ tasks' = tasks \ {t}
        \/ t.repeat /\ tasks' \subseteq (tasks \ {t}) \union {Sched!Rearmed(t)}
    BY <1>1 DEF Sched!Finished, Sched!Inserted
  <2>2. t.repeat => closure[t.serial] = Script
    BY DEF IndInv, ClosuresOK
  <2>3. Sched!Rearmed(t).serial = t.serial /\ Sched!Rearmed(t).repeat = t.repeat
    BY QueueFacts DEF Sched!Rearmed, Queue!Task
  <2> HIDE DEF Sched!Rearmed
  <2> QED BY <2>1, <2>2, <2>3, QueueFacts
<1>3. /\ UNCHANGED <<added, wiped, owner, locker, stage, life, job, result, settled, closure, missed>>
      /\ pc = "action"
      /\ Release(Host, Jobs \intersect {closure[it]}, "task")
  BY DEF UpdateReturn, Sched!RunReturn, Sched!history
<1>4. owner # NoThread /\ Host \in Entrants
  BY <1>3, QueueFacts DEF Entrants
<1>5. Fate(Host) = "holder" /\ life \notin {"reset", "down"}
  BY <1>4 DEF IndInv, LocksOK, Fate
<1>6. /\ refs' \in [Jobs -> SUBSET {"thread", "task"}]
      /\ \A j \in Jobs : refs'[j] \subseteq refs[j]
      /\ \A j \in Jobs \ {closure[it]} : refs'[j] = refs[j]
      /\ fate' \in [Jobs -> {"alive", "holder", "unlocked", "raced", "late"}]
      /\ \A j \in Jobs : fate'[j] \in {fate[j], "holder"}
  <2> DEFINE J == Jobs \intersect {closure[it]}
  <2>1. J \in SUBSET Jobs
    OBVIOUS
  <2>2. Release(Host, J, "task") /\ Jobs \ J = Jobs \ {closure[it]}
    BY <1>3
  <2> HIDE DEF J
  <2> QED BY <2>1, <2>2, <1>5, Releases
<1>7. TypeOK' /\ LocksOK'
  BY <1>3, <1>6 DEF IndInv, TypeOK, LocksOK
<1>10. FatesOK'
  BY <1>3, <1>5, <1>6 DEF IndInv, FatesOK, FsHandleReleasedSafely, Jobs
<1>8. ClosuresOK'
  BY <1>2, <1>3 DEF IndInv, ClosuresOK
<1>9. JobsOK'
  <2>1. \A j \in FsJobs : job[j] \in {"unwind", "gone"} => "thread" \notin refs'[j]
    BY <1>6 DEF IndInv, JobsOK, Jobs
  <2>2. \A u \in tasks' : closure[u.serial] # Script =>
          /\ "task" \in refs'[closure[u.serial]]
          /\ ~ u.exec => settled[closure[u.serial]] = "no"
    <3> SUFFICES ASSUME NEW u \in tasks', closure[u.serial] # Script
                 PROVE  /\ "task" \in refs'[closure[u.serial]]
                        /\ ~ u.exec => settled[closure[u.serial]] = "no"
      OBVIOUS
    <3>1. /\ u \in tasks /\ u.serial # it
          /\ u.serial \in 0 .. MaxAdds - 1 /\ it \in 0 .. MaxAdds - 1
      BY <1>1, <1>2, <1>3, QueueFacts
    <3>2. closure[u.serial] # closure[it] /\ closure[u.serial] \in Jobs
      BY <3>1, TaskClosure DEF IndInv, ClosuresOK
    <3> QED BY <1>6, <3>1, <3>2 DEF IndInv, JobsOK
  <2> QED BY <1>3, <2>1, <2>2 DEF IndInv, JobsOK
<1> QED BY <1>7, <1>8, <1>9, <1>10 DEF IndInv

\* A job's thread ends.  An fs thread has nothing left to let go of.
LEMMA UnwindInv ==
  ASSUME SchedInv, IndInv, NEW j \in Jobs, Unwind(j)
  PROVE  IndInv'
<1> USE AsyncConstants
<1>1. /\ UNCHANGED <<tasks, added, wiped, owner, locker, stage, life, result, settled, closure, missed>>
      /\ job[j] = "unwind" /\ job' = [job EXCEPT ![j] = "gone"]
  BY DEF Unwind, schedVars
<1>2. /\ refs' \in [Jobs -> SUBSET {"thread", "task"}]
      /\ \A k \in Jobs : refs'[k] \subseteq refs[k] /\ refs'[k] \in {refs[k], refs[k] \ {"thread"}}
      /\ fate' \in [Jobs -> {"alive", "holder", "unlocked", "raced", "late"}]
      /\ \A k \in Jobs : fate'[k] # fate[k] => k = j /\ "thread" \in refs[j]
  <2>1. CASE "thread" \in refs[j]
    <3>1. Release(j, {j}, "thread") /\ {j} \in SUBSET Jobs
      BY <2>1 DEF Unwind
    <3>2. \A k \in Jobs : refs'[k] \in {refs[k], refs[k] \ {"thread"}}
      BY <3>1 DEF Release
    <3>3. /\ refs' \in [Jobs -> SUBSET {"thread", "task"}]
          /\ \A k \in Jobs : refs'[k] \subseteq refs[k]
          /\ \A k \in Jobs \ {j} : fate'[k] = fate[k]
          /\ fate' \in [Jobs -> {"alive", "holder", "unlocked", "raced", "late"}]
      BY <3>1, Releases
    <3> QED BY <2>1, <3>2, <3>3
  <2>2. CASE "thread" \notin refs[j]
    BY <2>2 DEF Unwind, IndInv, TypeOK
  <2> QED BY <2>1, <2>2
<1>3. FatesOK'
  <2>1. \A k \in FsJobs : fate'[k] = fate[k]
    BY <1>1, <1>2 DEF IndInv, JobsOK, Jobs
  <2> QED BY <1>1, <2>1 DEF IndInv, FatesOK, FsHandleReleasedSafely
<1>4. TypeOK'
  BY <1>1, <1>2 DEF IndInv, TypeOK
<1>5. LocksOK' /\ ClosuresOK'
  BY <1>1 DEF IndInv, LocksOK, ClosuresOK
<1>6. JobsOK'
  <2>1. \A k \in Jobs : job'[k] \in {"idle", "work", "post"} => job[k] = job'[k]
    BY <1>1 DEF IndInv, TypeOK
  <2>2. \A k \in Jobs : result[k] = "none" => job'[k] \in {"idle", "work"}
    BY <1>1 DEF IndInv, TypeOK, JobsOK
  <2>3. \A k \in FsJobs : job'[k] \in {"unwind", "gone"} => "thread" \notin refs'[k]
    BY <1>1, <1>2 DEF IndInv, TypeOK, JobsOK, Jobs
  <2>4. \A k \in Jobs : "task" \in refs[k] => "task" \in refs'[k]
    BY <1>2
  <2> QED BY <1>1, <2>1, <2>2, <2>3, <2>4, TaskClosure DEF IndInv, JobsOK
<1> QED BY <1>3, <1>4, <1>5, <1>6 DEF IndInv

\* The tasks that are dropped take their handles with them.
LEMMA DropTasksFacts ==
  ASSUME SchedInv, IndInv, DropTasks
  PROVE  /\ UNCHANGED <<added, owner>>
         /\ tasks' = {} /\ wiped \subseteq wiped' /\ owner = NoThread
         /\ refs' \in [Jobs -> SUBSET {"thread", "task"}]
         /\ \A j \in Jobs : refs'[j] \subseteq refs[j]
         /\ fate' \in [Jobs -> {"alive", "holder", "unlocked", "raced", "late"}]
         /\ \A j \in Jobs : fate'[j] # fate[j] =>
              /\ fate'[j] = Fate(Host)
              /\ \E t \in tasks : t.serial \in wiped' /\ closure[t.serial] = j
<1> USE AsyncConstants
<1> DEFINE J == {j \in Jobs : \E t \in tasks : closure[t.serial] = j}
<1>1. /\ UNCHANGED <<added, owner>> /\ tasks' = {} /\ owner = NoThread
      /\ wiped \subseteq wiped' /\ \A t \in tasks : t.serial \in wiped'
  BY DEF DropTasks, Sched!Reset, Sched!runVars, schedVars
<1>2. J \in SUBSET Jobs /\ Release(Host, J, "task")
  BY DEF DropTasks
<1>3. \A j \in J : \E t \in tasks : closure[t.serial] = j
  OBVIOUS
<1> HIDE DEF J
<1> QED BY <1>1, <1>2, <1>3, Releases

\* Shutdown and the end of the process drop the tasks, whoever is inside.
LEMMA ShutdownInv ==
  ASSUME SchedInv, IndInv, ShutdownReset \/ ShutdownDispose \/ StaticDestruction
  PROVE  IndInv'
<1> USE AsyncConstants
<1>1. CASE ShutdownReset \/ StaticDestruction
  <2>1. /\ DropTasks /\ UNCHANGED <<locker, stage, job, result, settled, closure, missed>>
        /\ \/ life = "up" /\ life' = "reset" /\ stage[Host] = "out"
           \/ life = "down" /\ life' = "terminated"
    BY <1>1 DEF ShutdownReset, StaticDestruction
  <2>2. TypeOK' /\ LocksOK' /\ ClosuresOK'
    BY <2>1, DropTasksFacts DEF IndInv, TypeOK, LocksOK, ClosuresOK
  <2>3. JobsOK'
    <3>1. \A j \in FsJobs : job[j] \in {"unwind", "gone"} => "thread" \notin refs'[j]
      BY <2>1, DropTasksFacts DEF IndInv, JobsOK, Jobs
    <3> QED BY <2>1, <3>1, DropTasksFacts DEF IndInv, JobsOK
  <2>4. FsHandleReleasedSafely'
    <3> SUFFICES ASSUME NEW j \in FsJobs
                 PROVE  /\ fate'[j] \in {"unlocked", "raced"} => \E s \in wiped' : closure[s] = j
                        /\ fate'[j] = "late" => j \in missed
      BY <2>1 DEF FsHandleReleasedSafely
    <3>1. CASE fate'[j] = fate[j]
      BY <2>1, <3>1, DropTasksFacts DEF IndInv, FatesOK, FsHandleReleasedSafely
    <3>2. CASE fate'[j] # fate[j]
      <4>1. PICK t \in tasks : t.serial \in wiped' /\ closure[t.serial] = j /\ fate'[j] = Fate(Host)
        BY <2>1, <3>2, DropTasksFacts DEF Jobs
      <4>2. fate'[j] = "late" => life = "down"
        BY <4>1 DEF Fate
      <4>3. life = "down" => j \in missed
        BY <4>1 DEF IndInv, FatesOK, Jobs
      <4> QED BY <4>1, <4>2, <4>3
    <3> QED BY <3>1, <3>2
  <2>5. FatesOK'
    BY <2>1, <2>4, DropTasksFacts DEF FatesOK
  <2> QED BY <2>2, <2>3, <2>5 DEF IndInv
<1>2. CASE ShutdownDispose
  <2>1. /\ UNCHANGED <<tasks, added, wiped, owner, locker, stage, job, result, settled, closure,
                       refs, fate, missed>>
        /\ life = "reset"
        /\ life' = IF locker = NoThread THEN "down" ELSE "terminated"
    BY <1>2 DEF ShutdownDispose, schedVars
  <2>2. TypeOK' /\ ClosuresOK' /\ JobsOK'
    BY <2>1 DEF IndInv, TypeOK, ClosuresOK, JobsOK
  <2>3. LocksOK' /\ FatesOK'
    BY <2>1 DEF IndInv, LocksOK, FatesOK, FsHandleReleasedSafely
  <2> QED BY <2>2, <2>3 DEF IndInv
<1> QED BY <1>1, <1>2

\* Every step of every thread preserves the invariant.
LEMMA NextInv ==
  ASSUME SchedInv, SchedInv', IndInv, [Next]_vars
  PROVE  IndInv'
<1>1. CASE UpdateBegin \/ UpdateEnd
  <2>1. Host \in Entrants
    BY DEF Entrants
  <2> QED BY <1>1, <2>1, LockerInv
<1>2. CASE UpdateRun \/ UpdateRunEnd \/ Tick
  BY <1>2, RunBoundsInv
<1>3. CASE UpdateFire
  BY <1>3, FireInv
<1>4. CASE UpdateReturn
  BY <1>4, ReturnInv
<1>5. CASE ShutdownReset \/ ShutdownDispose \/ StaticDestruction
  BY <1>5, ShutdownInv
<1>6. ASSUME NEW th \in Entrants, EnterScript(th) \/ LeaveScript(th) PROVE IndInv'
  BY <1>6, LockerInv
<1>7. ASSUME NEW th \in Entrants, SetTimer(th) PROVE IndInv'
  BY <1>7, SetTimerInv
<1>8. ASSUME NEW th \in Entrants, ClearTimer(th) PROVE IndInv'
  BY <1>8, ClearTimerInv
<1>9. ASSUME NEW j \in Jobs,
             (\E th \in Entrants : StartJob(th, j)) \/ Work(j) \/ CurlInitFails(j)
      PROVE  IndInv'
  BY <1>9, WorkInv
<1>10. ASSUME NEW j \in Jobs, Post(j) PROVE IndInv'
  BY <1>10, PostInv
<1>11. ASSUME NEW j \in Jobs, Unwind(j) PROVE IndInv'
  BY <1>11, UnwindInv
<1>12. CASE Ended \/ UNCHANGED vars
  <2>1. UNCHANGED vars
    BY <1>12 DEF Ended
  <2> QED BY <2>1 DEF vars, schedVars, IndInv, TypeOK, LocksOK, ClosuresOK, JobsOK,
                      FatesOK, FsHandleReleasedSafely
<1> QED BY <1>1, <1>2, <1>3, <1>4, <1>5, <1>6, <1>7, <1>8, <1>9, <1>10, <1>11, <1>12
        DEF Next, HostStep

\* The task of a job is its only one: serials and closures tell them apart.
LEMMA InvHandles == SchedInv /\ IndInv => HandleOutlivesTask
<1> SUFFICES ASSUME SchedInv, IndInv, NEW t \in tasks, closure[t.serial] # Script
             PROVE  /\ "task" \in refs[closure[t.serial]]
                    /\ ~ t.exec => settled[closure[t.serial]] = "no"
                    /\ \A u \in tasks : closure[u.serial] = closure[t.serial] => u = t
  BY DEF HandleOutlivesTask
<1>1. \A u \in tasks : closure[u.serial] = closure[t.serial] => u = t
  BY QueueFacts DEF IndInv, ClosuresOK
<1> QED BY <1>1 DEF IndInv, JobsOK

----------------------------------------------------------------------------
\* The invariant holds throughout (OnUpdate, InternalCall, fetch, the
\* asynchronous fs functions and Shutdown, in any order of their steps).
THEOREM Invariant == Spec => []IndInv
<1>1. Init => IndInv
  BY InitInv
<1>2. SchedInv /\ SchedInv' /\ IndInv /\ [Next]_vars => IndInv'
  BY NextInv
<1> QED BY <1>1, <1>2, SchedulerInvariant, PTL DEF Spec

\* Every variable keeps its type.
THEOREM TypeCorrect == Spec => []TypeOK
<1>1. IndInv => TypeOK
  BY DEF IndInv
<1> QED BY <1>1, Invariant, PTL

\* Scripts, timer callbacks and settlements of any number of threads and jobs
\* run one at a time, and the two locks are taken in one order.
THEOREM IsolateIsExclusive == Spec => []OneThreadInIsolate
<1>1. IndInv => OneThreadInIsolate
  BY DEF IndInv, TypeOK, LocksOK, OneThreadInIsolate, Entrants
<1> QED BY <1>1, Invariant, PTL

\* A job's task finds its handle alive and settles it for the first time.
THEOREM HandlesOutliveTasks == Spec => []HandleOutlivesTask
BY Invariant, SchedulerInvariant, InvHandles, PTL

\* The callback of an fs operation is destroyed under the Locker as long as the
\* module runs, and outlives the isolate only if its job posted too late.
THEOREM FsHandlesReleasedSafely == Spec => []FsHandleReleasedSafely
<1>1. IndInv => FsHandleReleasedSafely
  BY DEF IndInv, FatesOK
<1> QED BY <1>1, Invariant, PTL
=============================================================================
