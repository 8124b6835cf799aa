------------------------ MODULE TaskSchedulerProofs ------------------------
(***************************************************************************)
(* Machine-checked facts about TaskScheduler, for every set of threads and *)
(* delays, every number of ids and every bound.                            *)
(*                                                                         *)
(* None of the safety properties is inductive by itself.  IndInv adds what *)
(* links them: the marks `exec' and `kill' of a task say exactly what the  *)
(* history says of its serial (Marks), serials identify tasks (Serials-    *)
(* Unique), and until the counter wraps an id is a serial (IdIsSerial).    *)
(***************************************************************************)
EXTENDS TaskScheduler, TLAPS

\* The std::set's own invariant: no two tasks compare equal.
KeysUnique == \A t, u \in tasks : SameKey(t, u) => t = u

SerialsUnique ==
    /\ \A t \in tasks : t.serial < added
    /\ \A t, u \in tasks : t.serial = u.serial => t = u

IdIsSerial ==
    added <= IdSpace =>
        /\ \A t \in tasks : t.id = t.serial
        /\ nextId = IF added = 0 THEN IdSpace - 1 ELSE added - 1

\* Ids are handed out in a circle: the counter stands as far after the id of a
\* young task as that task has successors, and no two tasks that share an id
\* are within one turn of the circle.
IdCircle ==
    /\ \A t \in tasks :
         added - t.serial <= IdSpace =>
            \/ nextId = t.id + (added - 1 - t.serial)
            \/ nextId = t.id + (added - 1 - t.serial) - IdSpace
    /\ \A t, u \in tasks : t.id = u.id /\ t # u => FarApart(t.serial, u.serial)

Marks ==
    /\ cancelled \subseteq 0 .. added - 1
    /\ spent \subseteq 0 .. added - 1
    /\ wiped \subseteq 0 .. added - 1
    /\ \A t \in tasks :
         /\ t.kill => t.exec
         /\ t.kill <=> t.serial \in cancelled
         /\ (t.exec /\ ~ t.repeat) <=> t.serial \in spent

InRun ==
    /\ owner = NoThread <=> pc = "idle"
    /\ now <= clock

IndInv ==
    /\ TypeOK
    /\ SerialsUnique
    /\ IteratorValid
    /\ KeysUnique
    /\ IdIsSerial
    /\ IdCircle
    /\ Marks
    /\ InRun
    /\ Accounted

----------------------------------------------------------------------------
\* The initial state satisfies the inductive invariant.
LEMMA InitInv == Init => IndInv
  BY SchedulerConstants
     DEF Init, IndInv, TypeOK, SerialsUnique, IteratorValid, KeysUnique, IdIsSerial,
         IdCircle, FarApart, Marks, InRun, Accounted, Ids, Serials

\* A waiting task with the id that AddTask gives next is a whole turn away.
LEMMA NextIdIsFar ==
  ASSUME IndInv, NEW u \in tasks, u.id = NextId
  PROVE  FarApart(u.serial, added) /\ FarApart(added, u.serial)
<1> USE SchedulerConstants
<1>1. /\ added \in Nat /\ nextId \in Ids /\ NextId \in Ids /\ IdSpace \in Nat \ {0}
      /\ NextId = nextId + 1 \/ NextId = nextId + 1 - IdSpace
  BY DEF IndInv, TypeOK, NextId, Ids
<1>2. u.serial \in Nat /\ u.serial < added /\ u.id \in Ids
  BY DEF IndInv, TypeOK, Task, SerialsUnique, Serials
<1> SUFFICES ASSUME added - u.serial < IdSpace PROVE FALSE
  BY <1>1, <1>2 DEF FarApart
<1>3. \/ nextId = u.id + (added - 1 - u.serial)
      \/ nextId = u.id + (added - 1 - u.serial) - IdSpace
  BY <1>1, <1>2 DEF IndInv, IdCircle
<1> QED BY <1>1, <1>2, <1>3 DEF Ids

\* AddTask keeps the inductive invariant: the new task has a fresh serial and,
\* until the ids wrap around, a fresh id.
LEMMA AddTaskInv ==
  ASSUME IndInv, NEW th \in Threads, NEW delay \in Int, NEW repeat \in BOOLEAN,
         AddTask(th, delay, repeat)
  PROVE  IndInv'
<1> DEFINE t == NewTask(delay, repeat)
<1> USE SchedulerConstants
<1>1. /\ t \in Task
      /\ t.serial = added /\ t.id = NextId /\ t.repeat = repeat
      /\ ~ t.exec /\ ~ t.kill
  BY DEF IndInv, TypeOK, NewTask, Task, NextId, Ids, Serials, AddTask
<1>2. added' = added + 1 /\ nextId' = NextId /\ added < MaxAdds
  BY DEF AddTask
<1>3. /\ tasks' = tasks \union {t} \/ (tasks' = tasks /\ \E u \in tasks : SameKey(u, t))
      /\ (\A u \in tasks : ~ SameKey(u, t)) => tasks' = tasks \union {t}
      /\ tasks' # tasks => \A u \in tasks : ~ SameKey(u, t)
  BY DEF AddTask, Inserted
<1>4. UNCHANGED <<clock, owner, pc, now, it, cancelled, spent, wiped>>
  BY DEF AddTask, runVars, history
<1> HIDE DEF t
<1>5. TypeOK'
  BY <1>1, <1>2, <1>3, <1>4 DEF IndInv, TypeOK, NextId, Ids
<1>6. SerialsUnique'
  BY <1>1, <1>2, <1>3 DEF IndInv, TypeOK, SerialsUnique, Task, Serials
<1>7. IteratorValid'
  BY <1>1, <1>3, <1>4 DEF IndInv, TypeOK, IteratorValid, SerialsUnique
<1>8. KeysUnique'
  BY <1>3 DEF IndInv, KeysUnique, SameKey
<1>9. IdIsSerial'
  BY <1>1, <1>2, <1>3 DEF IndInv, TypeOK, IdIsSerial, NextId, Task, Ids
<1>10. Marks'
  BY <1>1, <1>2, <1>3, <1>4 DEF IndInv, TypeOK, Marks
<1>11. InRun'
  BY <1>4 DEF IndInv, InRun
<1>12. Accounted'
  <2> SUFFICES ASSUME added' <= IdSpace
               PROVE  0 .. added' - 1 = {u.serial : u \in tasks'} \union spent' \union cancelled' \union wiped'
    BY DEF Accounted
  <2>1. added \in Nat /\ added <= IdSpace /\ added < IdSpace
    BY <1>2 DEF IndInv, TypeOK
  <2>2. NextId = added
    BY <2>1 DEF IndInv, IdIsSerial, NextId
  <2>3. \A u \in tasks : ~ SameKey(u, t)
    BY <1>1, <2>1, <2>2 DEF IndInv, IdIsSerial, SerialsUnique, SameKey
  <2>4. tasks' = tasks \union {t}
    BY <2>3, <1>3
  <2>5. {u.serial : u \in tasks'} = {u.serial : u \in tasks} \union {added}
    BY <2>4, <1>1
  <2>6. 0 .. added' - 1 = (0 .. added - 1) \union {added}
    BY <2>1, <1>2
  <2> QED BY <2>1, <2>5, <2>6, <1>4 DEF IndInv, Accounted
<1>13. IdCircle'
  <2>1. /\ added \in Nat /\ nextId \in Ids /\ NextId \in Ids /\ IdSpace \in Nat \ {0}
        /\ NextId = nextId + 1 \/ NextId = nextId + 1 - IdSpace
    BY DEF IndInv, TypeOK, NextId, Ids
  <2>2. \A u \in tasks : u.serial \in Nat /\ u.serial < added /\ u.id \in Ids
    BY DEF IndInv, TypeOK, Task, SerialsUnique, Serials
  <2>3. ASSUME NEW u \in tasks, added' - u.serial <= IdSpace
        PROVE  /\ nextId' = u.id + (added' - 1 - u.serial) \/ nextId' = u.id + (added' - 1 - u.serial) - IdSpace
    <3>1. \/ nextId = u.id + (added - 1 - u.serial)
          \/ nextId = u.id + (added - 1 - u.serial) - IdSpace
      BY <2>1, <2>2, <2>3, <1>2 DEF IndInv, IdCircle
    <3>2. /\ u.serial \in Int /\ u.id \in Int /\ added \in Int /\ nextId \in Int /\ IdSpace \in Int
          /\ 0 <= u.id /\ u.id < IdSpace /\ 0 <= nextId' /\ nextId' < IdSpace
          /\ added' = added + 1 /\ u.serial < added
          /\ nextId' = nextId + 1 \/ nextId' = nextId + 1 - IdSpace
      BY <2>1, <2>2, <1>2 DEF Ids
    <3> QED BY <3>1, <3>2, <2>3
  <2>5. tasks' \subseteq tasks \union {t}
    BY <1>3
  <2>6. nextId' = t.id + (added' - 1 - t.serial)
    BY <1>1, <1>2, <2>1 DEF Ids
  <2>8. ASSUME NEW u \in tasks', added' - u.serial <= IdSpace
        PROVE  \/ nextId' = u.id + (added' - 1 - u.serial)
               \/ nextId' = u.id + (added' - 1 - u.serial) - IdSpace
    BY <2>3, <2>5, <2>6, <2>8
  <2>9. ASSUME NEW u \in tasks', NEW v \in tasks', u.id = v.id, u # v
        PROVE  FarApart(u.serial, v.serial)
    <3>1. CASE u \in tasks /\ v \in tasks
      BY <3>1, <2>9 DEF IndInv, IdCircle
    <3>2. CASE u \in tasks /\ v = t
      BY <3>2, <2>9, <1>1, NextIdIsFar
    <3>3. CASE u = t /\ v \in tasks
      BY <3>3, <2>9, <1>1, NextIdIsFar
    <3> QED BY <3>1, <3>2, <3>3, <2>5, <2>9
  <2> QED BY <2>8, <2>9 DEF IdCircle
<1> QED BY <1>13, <1>5, <1>6, <1>7, <1>8, <1>9, <1>10, <1>11, <1>12 DEF IndInv

\* RemoveTask keeps the inductive invariant: it erases a waiting task, and of
\* the executing one only the mark changes.
LEMMA RemoveTaskInv ==
  ASSUME IndInv, NEW th \in Threads, NEW id \in Ids, RemoveTask(th, id)
  PROVE  IndInv'
<1> USE SchedulerConstants
<1>1. PICK t \in tasks : tasks' = Removed(t) /\ cancelled' = cancelled \union {t.serial}
  BY DEF RemoveTask
<1>2. UNCHANGED <<nextId, clock, owner, pc, now, it, added, spent, wiped>>
  BY DEF RemoveTask, runVars
<1> DEFINE u == [t EXCEPT !.kill = TRUE]
<1>3. /\ t \in Task /\ u \in Task
      /\ u.serial = t.serial /\ u.id = t.id /\ u.repeat = t.repeat /\ u.exec = t.exec
      /\ u.kill /\ u.executeTime = t.executeTime
  BY DEF IndInv, TypeOK, Task
<1>4. \/ t.exec /\ tasks' = (tasks \ {t}) \union {u}
      \/ ~ t.exec /\ tasks' = tasks \ {t}
  BY <1>1 DEF Removed
<1> HIDE DEF u
<1>5. TypeOK'
  BY <1>1, <1>2, <1>3, <1>4 DEF IndInv, TypeOK, Task
<1>6. SerialsUnique'
  BY <1>2, <1>3, <1>4 DEF IndInv, SerialsUnique
<1>7. IteratorValid'
  BY <1>2, <1>3, <1>4 DEF IndInv, IteratorValid
<1>8. KeysUnique'
  BY <1>3, <1>4 DEF IndInv, KeysUnique, SameKey
<1>9. IdIsSerial'
  BY <1>2, <1>3, <1>4 DEF IndInv, IdIsSerial
<1>10. Marks'
  <2>1. t.serial \in 0 .. added - 1
    BY <1>3 DEF IndInv, TypeOK, SerialsUnique, Task, Serials
  <2>2. ASSUME NEW v \in tasks' PROVE (v \in tasks /\ v.serial # t.serial) \/ (v = u /\ t.exec)
    <3>1. (v \in tasks /\ v # t) \/ (v = u /\ t.exec)
      BY <1>4
    <3> QED BY <3>1 DEF IndInv, SerialsUnique
  <2> QED BY <2>1, <2>2, <1>1, <1>2, <1>3 DEF IndInv, Marks
<1>11. InRun'
  BY <1>2 DEF IndInv, InRun
<1>12. Accounted'
  BY <1>1, <1>2, <1>3, <1>4 DEF IndInv, Accounted
<1>13. IdCircle'
  BY <1>2, <1>3, <1>4 DEF IndInv, IdCircle, FarApart
<1> QED BY <1>13, <1>5, <1>6, <1>7, <1>8, <1>9, <1>10, <1>11, <1>12 DEF IndInv

\* RescheduleTask keeps the inductive invariant.
LEMMA RescheduleTaskInv ==
  ASSUME IndInv, NEW th \in Threads, NEW id \in Ids, NEW d \in Int, RescheduleTask(th, id, d)
  PROVE  IndInv'
<1> USE SchedulerConstants
<1>1. PICK t \in tasks : ~ t.exec /\ tasks' = Inserted(tasks \ {t}, Moved(t, d))
  BY DEF RescheduleTask
<1>2. UNCHANGED <<nextId, clock, owner, pc, now, it, added, cancelled, spent, wiped>>
  BY DEF RescheduleTask, runVars, history
<1> DEFINE u == Moved(t, d)
<1>3. /\ t \in Task /\ u \in Task
      /\ u.serial = t.serial /\ u.id = t.id /\ u.repeat = t.repeat /\ u.exec = t.exec
      /\ u.kill = t.kill
  <2>1. t \in Task /\ clock + d \in Int
    BY DEF IndInv, TypeOK
  <2> QED BY <2>1 DEF Task, Moved
<1>4. \/ tasks' = (tasks \ {t}) \union {u} /\ \A v \in tasks \ {t} : ~ SameKey(v, u)
      \/ tasks' = tasks \ {t} /\ \E v \in tasks \ {t} : SameKey(v, u)
  BY <1>1 DEF Inserted
<1> HIDE DEF u
<1>5. TypeOK'
  BY <1>2, <1>3, <1>4 DEF IndInv, TypeOK
<1>6. SerialsUnique'
  BY <1>2, <1>3, <1>4 DEF IndInv, SerialsUnique
<1>7. IteratorValid'
  BY <1>1, <1>2, <1>3, <1>4 DEF IndInv, IteratorValid
<1>8. KeysUnique'
  BY <1>3, <1>4 DEF IndInv, KeysUnique, SameKey
<1>9. IdIsSerial'
  BY <1>2, <1>3, <1>4 DEF IndInv, IdIsSerial
<1>10. Marks'
  BY <1>2, <1>3, <1>4 DEF IndInv, Marks
<1>11. InRun'
  BY <1>2 DEF IndInv, InRun
<1>12. Accounted'
  <2> SUFFICES ASSUME added <= IdSpace PROVE Accounted'
    BY <1>2 DEF Accounted
  <2>1. \A v \in tasks \ {t} : ~ SameKey(v, u)
    BY <1>3 DEF IndInv, IdIsSerial, SerialsUnique, SameKey
  <2>2. {v.serial : v \in tasks'} = {v.serial : v \in tasks}
    BY <2>1, <1>3, <1>4
  <2> QED BY <2>2, <1>2 DEF IndInv, Accounted
<1>13. IdCircle'
  BY <1>2, <1>3, <1>4 DEF IndInv, IdCircle, FarApart
<1> QED BY <1>13, <1>5, <1>6, <1>7, <1>8, <1>9, <1>10, <1>11, <1>12 DEF IndInv

\* Reset keeps the inductive invariant.
LEMMA ResetInv ==
  ASSUME IndInv, NEW th \in Threads, Reset(th)
  PROVE  IndInv'
<1> USE SchedulerConstants DEF Reset, runVars
<1>1. TypeOK'
  BY DEF IndInv, TypeOK, Task
<1>2. SerialsUnique' /\ KeysUnique' /\ IdIsSerial' /\ IdCircle' /\ InRun'
  BY DEF IndInv, SerialsUnique, KeysUnique, IdIsSerial, IdCircle, InRun
<1>3. IteratorValid'
  BY DEF IndInv, IteratorValid, InRun
<1>4. Marks'
  <2>1. \A t \in tasks : t.serial \in 0 .. added - 1
    BY DEF IndInv, TypeOK, SerialsUnique, Task, Serials
  <2> QED BY <2>1 DEF IndInv, Marks
<1>5. Accounted'
  BY DEF IndInv, Accounted
<1> QED BY <1>1, <1>2, <1>3, <1>4, <1>5 DEF IndInv

\* Entering and leaving Run, and the clock, keep the inductive invariant.
LEMMA QuietStepInv ==
  ASSUME IndInv, (\E th \in Threads : RunEnter(th)) \/ RunExit \/ Tick
  PROVE  IndInv'
<1> USE SchedulerConstants
<1>1. UNCHANGED <<tasks, nextId, it, added, cancelled, spent, wiped>>
  BY DEF RunEnter, RunExit, Tick, runVars, history
<1>2. TypeOK'
  BY DEF IndInv, TypeOK, RunEnter, RunExit, Tick, runVars, history
<1>3. SerialsUnique' /\ KeysUnique' /\ IdIsSerial' /\ IdCircle' /\ Marks' /\ Accounted'
  BY <1>1 DEF IndInv, SerialsUnique, KeysUnique, SameKey, IdIsSerial, IdCircle, FarApart,
              Marks, Accounted
<1>4. (pc # "action" /\ pc' # "action") \/ pc' = pc
  BY DEF RunEnter, RunExit, Tick, runVars, IndInv, InRun
<1>5. IteratorValid'
  BY <1>1, <1>4 DEF IndInv, IteratorValid
<1>6. InRun'
  BY DEF IndInv, TypeOK, InRun, RunEnter, RunExit, Tick, runVars
<1> QED BY <1>2, <1>3, <1>5, <1>6 DEF IndInv

\* Calling an action keeps the inductive invariant.
LEMMA RunFireInv ==
  ASSUME IndInv, RunFire
  PROVE  IndInv'
<1> USE SchedulerConstants
<1>1. PICK t \in tasks :
        /\ tasks' = (tasks \ {t}) \union {[t EXCEPT !.exec = TRUE]}
        /\ it' = t.serial
        /\ spent' = IF t.repeat THEN spent ELSE spent \union {t.serial}
  BY DEF RunFire
<1>2. /\ UNCHANGED <<nextId, clock, owner, now, added, cancelled, wiped>>
      /\ pc = "loop" /\ pc' = "action"
  BY DEF RunFire
<1> DEFINE u == [t EXCEPT !.exec = TRUE]
<1>3. /\ t \in Task /\ u \in Task
      /\ u.serial = t.serial /\ u.id = t.id /\ u.repeat = t.repeat /\ u.exec
      /\ u.kill = t.kill /\ u.executeTime = t.executeTime
  BY DEF IndInv, TypeOK, Task
<1>4. tasks' = (tasks \ {t}) \union {u}
  BY <1>1
<1>5. \A v \in tasks : ~ v.exec /\ ~ v.kill
  BY <1>2 DEF IndInv, IteratorValid, Marks
<1> HIDE DEF u
<1>6. TypeOK'
  BY <1>1, <1>2, <1>3, <1>4 DEF IndInv, TypeOK, Task, Serials
<1>7. SerialsUnique'
  BY <1>2, <1>3, <1>4 DEF IndInv, SerialsUnique
<1>8. IteratorValid'
  BY <1>1, <1>2, <1>3, <1>4, <1>5 DEF IndInv, IteratorValid, SerialsUnique
<1>9. KeysUnique'
  BY <1>3, <1>4 DEF IndInv, KeysUnique, SameKey
<1>10. IdIsSerial'
  BY <1>2, <1>3, <1>4 DEF IndInv, IdIsSerial
<1>11. Marks'
  BY <1>1, <1>2, <1>3, <1>4, <1>5 DEF IndInv, TypeOK, Marks, SerialsUnique, Task, Serials
<1>12. InRun'
  BY <1>2 DEF IndInv, InRun
<1>13. Accounted'
  <2>1. {v.serial : v \in tasks'} = {v.serial : v \in tasks}
    BY <1>3, <1>4
  <2> QED BY <2>1, <1>1, <1>2 DEF IndInv, Accounted
<1>14. IdCircle'
  BY <1>2, <1>3, <1>4 DEF IndInv, IdCircle, FarApart
<1> QED BY <1>14, <1>6, <1>7, <1>8, <1>9, <1>10, <1>11, <1>12, <1>13 DEF IndInv

\* Re-arming or erasing the task whose action returned keeps the inductive
\* invariant.
LEMMA RunReturnInv ==
  ASSUME IndInv, RunReturn
  PROVE  IndInv'
<1> USE SchedulerConstants
<1>1. PICK t \in tasks : t.serial = it /\ tasks' = Finished(t)
  BY DEF RunReturn
<1>2. /\ UNCHANGED <<nextId, clock, owner, now, it, added, cancelled, spent, wiped>>
      /\ pc = "action" /\ pc' = "loop"
  BY DEF RunReturn, history
<1> DEFINE u == Rearmed(t)
<1>3. /\ t \in Task /\ u \in Task
      /\ u.serial = t.serial /\ u.id = t.id /\ u.repeat = t.repeat /\ ~ u.exec
      /\ u.kill = t.kill
  <2>1. t \in Task /\ clock + t.delay \in Int
    BY DEF IndInv, TypeOK, Task
  <2> QED BY <2>1 DEF Task, Rearmed
<1>4. \/ /\ t.repeat /\ ~ t.kill
         /\ tasks' = (tasks \ {t}) \union {u} /\ \A v \in tasks \ {t} : ~ SameKey(v, u)
      \/ /\ t.repeat /\ ~ t.kill
         /\ tasks' = tasks \ {t} /\ \E v \in tasks \ {t} : SameKey(v, u)
      \/ ~ (t.repeat /\ ~ t.kill) /\ tasks' = tasks \ {t}
  BY <1>1 DEF Finished, Inserted
<1>5. t.exec /\ \A v \in tasks \ {t} : ~ v.exec /\ v.serial # it
  BY <1>1, <1>2 DEF IndInv, IteratorValid, SerialsUnique
<1> HIDE DEF u
<1>6. TypeOK'
  BY <1>2, <1>3, <1>4 DEF IndInv, TypeOK
<1>7. SerialsUnique'
  BY <1>2, <1>3, <1>4 DEF IndInv, SerialsUnique
<1>8. IteratorValid'
  BY <1>2, <1>3, <1>4, <1>5 DEF IteratorValid
<1>9. KeysUnique'
  BY <1>3, <1>4 DEF IndInv, KeysUnique, SameKey
<1>10. IdIsSerial'
  BY <1>2, <1>3, <1>4 DEF IndInv, IdIsSerial
<1>11. Marks'
  BY <1>2, <1>3, <1>4, <1>5 DEF IndInv, Marks
<1>12. InRun'
  BY <1>2 DEF IndInv, InRun
<1>13. Accounted'
  <2> SUFFICES ASSUME added <= IdSpace PROVE Accounted'
    BY <1>2 DEF Accounted
  <2>1. \A v \in tasks \ {t} : ~ SameKey(v, u)
    BY <1>3 DEF IndInv, IdIsSerial, SerialsUnique, SameKey
  <2>2. CASE t.repeat /\ ~ t.kill
    <3>1. {v.serial : v \in tasks'} = {v.serial : v \in tasks}
      BY <2>1, <2>2, <1>3, <1>4
    <3> QED BY <3>1, <1>2 DEF IndInv, Accounted
  <2>3. CASE ~ (t.repeat /\ ~ t.kill)
    <3>1. t.serial \in spent \union cancelled
      BY <2>3, <1>3, <1>5 DEF IndInv, Marks, Task
    <3> QED BY <3>1, <2>3, <1>2, <1>4 DEF IndInv, Accounted
  <2> QED BY <2>2, <2>3
<1>14. IdCircle'
  BY <1>2, <1>3, <1>4 DEF IndInv, IdCircle, FarApart
<1> QED BY <1>14, <1>6, <1>7, <1>8, <1>9, <1>10, <1>11, <1>12, <1>13 DEF IndInv

\* Every step keeps the inductive invariant.
LEMMA NextInv == IndInv /\ [Next]_vars => IndInv'
<1> SUFFICES ASSUME IndInv, [Next]_vars PROVE IndInv'
  OBVIOUS
<1> USE SchedulerConstants
<1>1. ASSUME NEW th \in Threads, SetTimeout(th) PROVE IndInv'
  BY <1>1, AddTaskInv DEF SetTimeout
<1>2. ASSUME NEW th \in Threads, SetInterval(th) PROVE IndInv'
  BY <1>2, AddTaskInv DEF SetInterval
<1>3. ASSUME NEW th \in Threads, ClearTimer(th) PROVE IndInv'
  BY <1>3, RemoveTaskInv DEF ClearTimer
<1>4. ASSUME NEW th \in Threads, Reschedule(th) PROVE IndInv'
  BY <1>4, RescheduleTaskInv DEF Reschedule
<1>5. ASSUME NEW th \in Threads, Reset(th) PROVE IndInv'
  BY <1>5, ResetInv
<1>6. CASE (\E th \in Threads : RunEnter(th)) \/ RunExit \/ Tick
  BY <1>6, QuietStepInv
<1>7. CASE RunFire
  BY <1>7, RunFireInv
<1>8. CASE RunReturn
  BY <1>8, RunReturnInv
<1>9. CASE UNCHANGED vars
  BY <1>9 DEF vars, IndInv, TypeOK, SerialsUnique, IteratorValid, KeysUnique, SameKey,
              IdIsSerial, IdCircle, FarApart, Marks, InRun, Accounted
<1> QED
  BY <1>1, <1>2, <1>3, <1>4, <1>5, <1>6, <1>7, <1>8, <1>9 DEF Next, RunStep

----------------------------------------------------------------------------
\* The inductive invariant holds in every behaviour.
THEOREM Invariant == Spec => []IndInv
  BY InitInv, NextInv, PTL DEF Spec

\* Every variable of the scheduler keeps its type.
THEOREM TypeCorrect == Spec => []TypeOK
  BY Invariant, PTL DEF IndInv

\* Whatever callbacks remove, reschedule and add, the iterator that Run() uses
\* after an action returns is that of the task it called.
THEOREM IteratorStaysValid == Spec => []IteratorValid
  BY Invariant, PTL DEF IndInv

\* A step loses a task only to one that has its key, hence its id.
LEMMA LostMeansClash ==
  ASSUME IndInv, Next, NEW s \in Lost' \ Lost
  PROVE  \E u \in tasks' : FarApart(s, u.serial)
<1> USE SchedulerConstants
<1> DEFINE Here == {t.serial : t \in tasks} \union spent \union cancelled \union wiped
<1> DEFINE There == {t.serial : t \in tasks'} \union spent' \union cancelled' \union wiped'
<1>1. s \in 0 .. added' - 1 /\ s \notin There /\ (s \in Here \/ s \notin 0 .. added - 1)
  BY DEF Lost
<1>2. s \in Here \/ s >= added
  BY <1>1 DEF IndInv, TypeOK
<1>3. ASSUME NEW th \in Threads, NEW delay \in Int, NEW repeat \in BOOLEAN,
             AddTask(th, delay, repeat)
      PROVE  \E u \in tasks' : FarApart(s, u.serial)
  <2> DEFINE t == NewTask(delay, repeat)
  <2>1. /\ t.serial = added /\ t.id = NextId /\ added' = added + 1
        /\ UNCHANGED <<spent, cancelled, wiped>>
    BY <1>3 DEF NewTask, AddTask, history
  <2>2. \/ tasks' = tasks \union {t}
        \/ tasks' = tasks /\ \E u \in tasks : SameKey(u, t)
    BY <1>3 DEF AddTask, Inserted
  <2> HIDE DEF t
  <2>3. Here \subseteq There
    BY <2>1, <2>2
  <2>4. s = added
    BY <1>1, <1>2, <2>1, <2>3 DEF IndInv, TypeOK
  <2>5. PICK u \in tasks : tasks' = tasks /\ SameKey(u, t)
    BY <1>1, <2>1, <2>2, <2>4
  <2> QED BY <2>1, <2>4, <2>5, NextIdIsFar DEF SameKey
<1> HIDE DEF There
<1>4. \/ s < added /\ s \in Here
      \/ \E th \in Threads, delay \in Int, repeat \in BOOLEAN : AddTask(th, delay, repeat)
  <2>1. added' = added
        \/ \E th \in Threads, delay \in Int, repeat \in BOOLEAN : AddTask(th, delay, repeat)
    <3>1. ASSUME NEW th \in Threads, SetTimeout(th) \/ SetInterval(th)
          PROVE  \E delay \in Int, repeat \in BOOLEAN : AddTask(th, delay, repeat)
      BY <3>1 DEF SetTimeout, SetInterval
    <3>2. ASSUME NEW th \in Threads,
                 ClearTimer(th) \/ Reschedule(th) \/ Reset(th) \/ RunEnter(th)
          PROVE  added' = added
      BY <3>2 DEF ClearTimer, RemoveTask, Reschedule, RescheduleTask, Reset, RunEnter
    <3>3. RunStep \/ Tick => added' = added
      BY DEF RunStep, RunFire, RunReturn, RunExit, Tick
    <3> QED BY <3>1, <3>2, <3>3 DEF Next
  <2>2. added \in Int
    BY DEF IndInv, TypeOK
  <2> QED BY <2>1, <2>2, <1>1, <1>2
<1> USE DEF There
\* The task t of the old state is taken out and put back as u, under its id.
<1>5. ASSUME NEW t \in tasks, NEW u, u.serial = t.serial, u.id = t.id,
             tasks' = Inserted(tasks \ {t}, u), UNCHANGED <<spent, cancelled, wiped>>, s \in Here
      PROVE  \E v \in tasks' : FarApart(s, v.serial)
  <2>1. PICK v \in tasks \ {t} : tasks' = tasks \ {t} /\ SameKey(v, u)
    <3>1. tasks' = (tasks \ {t}) \union {u} => Here \subseteq There
      BY <1>5
    <3> QED BY <3>1, <1>1, <1>5 DEF Inserted
  <2>2. s = t.serial
    BY <2>1, <1>1, <1>5
  <2> QED BY <2>1, <2>2, <1>5 DEF IndInv, IdCircle, SameKey
<1>6. ASSUME Here \subseteq There, s \in Here PROVE FALSE
  BY <1>1, <1>6
<1>7. ASSUME NEW th \in Threads, NEW id \in Ids, RemoveTask(th, id) PROVE Here \subseteq There
  <2>1. PICK t \in tasks : tasks' = Removed(t) /\ cancelled' = cancelled \union {t.serial}
    BY <1>7 DEF RemoveTask
  <2>2. tasks \ {t} \subseteq tasks' /\ UNCHANGED <<spent, wiped>>
    BY <2>1, <1>7 DEF RemoveTask, Removed
  <2> QED BY <2>1, <2>2
<1>8. ASSUME NEW th \in Threads, NEW id \in Ids, NEW d \in Int, RescheduleTask(th, id, d), s \in Here
      PROVE  \E v \in tasks' : FarApart(s, v.serial)
  <2>1. PICK t \in tasks : tasks' = Inserted(tasks \ {t}, Moved(t, d))
    BY <1>8 DEF RescheduleTask
  <2>2. Moved(t, d).serial = t.serial /\ Moved(t, d).id = t.id
    BY DEF IndInv, TypeOK, Task, Moved
  <2> QED BY <2>1, <2>2, <1>5, <1>8 DEF RescheduleTask, history
<1>9. ASSUME RunReturn, s \in Here PROVE \E v \in tasks' : FarApart(s, v.serial)
  <2>1. PICK t \in tasks : t.serial = it /\ tasks' = Finished(t)
    BY <1>9 DEF RunReturn
  <2>2. UNCHANGED <<spent, cancelled, wiped>> /\ pc = "action"
    BY <1>9 DEF RunReturn, history
  <2>3. Rearmed(t).serial = t.serial /\ Rearmed(t).id = t.id
    BY DEF IndInv, TypeOK, Task, Rearmed
  <2>4. CASE t.repeat /\ ~ t.kill
    BY <2>1, <2>2, <2>3, <2>4, <1>5, <1>9 DEF Finished
  <2>5. CASE ~ (t.repeat /\ ~ t.kill)
    <3>1. tasks' = tasks \ {t}
      BY <2>1, <2>5 DEF Finished
    <3>2. t.serial \in spent \union cancelled
      BY <2>1, <2>2, <2>5 DEF IndInv, TypeOK, Task, Marks, IteratorValid
    <3> QED BY <3>1, <3>2, <2>2, <1>6, <1>9
  <2> QED BY <2>4, <2>5
<1>10. ASSUME RunFire PROVE Here \subseteq There
  <2>1. PICK t \in tasks : tasks' = (tasks \ {t}) \union {[t EXCEPT !.exec = TRUE]}
    BY <1>10 DEF RunFire
  <2>2. [t EXCEPT !.exec = TRUE].serial = t.serial
    BY DEF IndInv, TypeOK, Task
  <2>3. UNCHANGED <<cancelled, wiped>> /\ spent \subseteq spent'
    BY <1>10 DEF RunFire
  <2> QED BY <2>1, <2>2, <2>3
<1>11. ASSUME (\E th \in Threads : Reset(th) \/ RunEnter(th)) \/ RunExit \/ Tick
       PROVE  Here \subseteq There
  BY <1>11 DEF Reset, RunEnter, RunExit, Tick, runVars, history
<1> HIDE DEF Here, There
<1>12. CASE \E th \in Threads, delay \in Int, repeat \in BOOLEAN : AddTask(th, delay, repeat)
  BY <1>3, <1>12
<1>13. ASSUME s \in Here PROVE \E v \in tasks' : FarApart(s, v.serial)
  <2>1. ASSUME NEW th \in Threads, SetTimeout(th) \/ SetInterval(th)
        PROVE  \E v \in tasks' : FarApart(s, v.serial)
    BY <2>1, <1>3 DEF SetTimeout, SetInterval
  <2>2. ASSUME NEW th \in Threads, ClearTimer(th) PROVE FALSE
    BY <2>2, <1>6, <1>7, <1>13 DEF ClearTimer
  <2>3. ASSUME NEW th \in Threads, Reschedule(th) PROVE \E v \in tasks' : FarApart(s, v.serial)
    BY <2>3, <1>8, <1>13 DEF Reschedule
  <2> QED BY <2>1, <2>2, <2>3, <1>6, <1>9, <1>10, <1>11, <1>13 DEF Next, RunStep
<1> QED BY <1>4, <1>12, <1>13

\* Ids clash, tasks get lost and a removal can hit another task only between
\* tasks that IdSpace AddTask calls or more separate.
THEOREM WrapAloneMixesTasks == Spec => OnlyWrapMixesTasks
<1> DEFINE A == /\ \A s \in Lost' \ Lost : \E u \in tasks' : FarApart(s, u.serial)
                /\ \A t, u \in tasks' : t.id = u.id /\ t # u => FarApart(t.serial, u.serial)
<1>1. IndInv /\ IndInv' /\ [Next]_vars => [A]_vars
  <2> SUFFICES ASSUME IndInv, IndInv', Next PROVE A
    OBVIOUS
  <2>1. \A t, u \in tasks' : t.id = u.id /\ t # u => FarApart(t.serial, u.serial)
    BY DEF IndInv, IdCircle
  <2>2. ASSUME NEW s \in Lost' \ Lost PROVE \E u \in tasks' : FarApart(s, u.serial)
    BY <2>2, LostMeansClash DEF IndInv
  <2> QED BY <2>1, <2>2
<1> QED BY <1>1, Invariant, PTL DEF Spec, OnlyWrapMixesTasks

\* The first IdSpace tasks have ids of their own.
THEOREM IdsStayUnique == Spec => []IdsUnique
<1>1. IndInv => IdsUnique
  BY DEF IndInv, IdIsSerial, SerialsUnique, IdsUnique
<1> QED BY <1>1, Invariant, PTL

\* Until ids wrap around, no task disappears without having fired or having
\* been removed or reset.
THEOREM NothingLost == Spec => []Accounted
  BY Invariant, PTL DEF IndInv

\* Run() never calls a task that RemoveTask has found.
THEOREM RemovedStaysRemoved == Spec => RemovedNeverFires
<1>1. IndInv /\ [Next]_vars => [RunFire => it' \notin cancelled]_vars
  <2> SUFFICES ASSUME IndInv, RunFire PROVE it' \notin cancelled
    OBVIOUS
  <2>1. PICK t \in tasks : it' = t.serial
    BY DEF RunFire
  <2>2. ~ t.exec
    BY DEF IndInv, IteratorValid, RunFire
  <2>3. ~ t.kill
    BY <2>2 DEF IndInv, Marks
  <2> QED BY <2>1, <2>3 DEF IndInv, Marks
<1> QED BY <1>1, Invariant, PTL DEF Spec, RemovedNeverFires

\* Run() never calls a one-shot task twice.
THEOREM OneShotOnce == Spec => OneShotFiresOnce
<1>1. IndInv /\ [Next]_vars => [RunFire => it' \notin spent]_vars
  <2> SUFFICES ASSUME IndInv, RunFire PROVE it' \notin spent
    OBVIOUS
  <2>1. PICK t \in tasks : it' = t.serial
    BY DEF RunFire
  <2>2. ~ t.exec
    BY DEF IndInv, IteratorValid, RunFire
  <2> QED BY <2>1, <2>2 DEF IndInv, Marks
<1> QED BY <1>1, Invariant, PTL DEF Spec, OneShotFiresOnce

\* An interval with a period that is not negative is due again in the Run that
\* called it only if the clock has not moved since that Run started.
THEOREM NoRefireLater == Spec => RefiresOnlyInSameInstant
<1> DEFINE P == RunReturn => \A t \in tasks' :
                  (t.serial = it /\ t.delay >= 0 /\ t.executeTime <= now) => clock = now
<1>1. IndInv /\ [Next]_vars => [P]_vars
  <2> SUFFICES ASSUME IndInv, RunReturn, NEW t \in tasks',
                      t.serial = it, t.delay >= 0, t.executeTime <= now
               PROVE  clock = now
    OBVIOUS
  <2>1. PICK v \in tasks : v.serial = it /\ tasks' = Finished(v)
    BY DEF RunReturn
  <2>2. v \in Task /\ clock \in Int /\ now \in Int /\ now <= clock
    BY SchedulerConstants DEF IndInv, TypeOK, InRun
  <2>3. t \notin tasks \ {v}
    BY <2>1 DEF IndInv, SerialsUnique
  <2>4. t = Rearmed(v)
    BY <2>1, <2>3 DEF Finished, Inserted
  <2>5. t.executeTime = clock + v.delay /\ t.delay = v.delay /\ v.delay \in Int
    BY <2>2, <2>4 DEF Rearmed, Task
  <2> QED BY <2>2, <2>5
<1> QED BY <1>1, Invariant, PTL DEF Spec, RefiresOnlyInSameInstant
----------------------------------------------------------------------------
\* A task is due no later than its delay from now: the clock does not go back.
DueWithinDelay == \A t \in tasks : t.executeTime <= clock + t.delay

OrderInv == DueWithinDelay /\ SameDelayInOrder

\* A step that adds no task, moves none and lets no time pass backwards keeps
\* the order: each task it leaves has the key and the kind of one before.
LEMMA SameKeysKeepOrder ==
  ASSUME IndInv, IndInv', OrderInv, added' = added, clock <= clock',
         \A t \in tasks' : \E u \in tasks :
             /\ t.serial = u.serial /\ t.id = u.id /\ t.delay = u.delay
             /\ t.repeat = u.repeat /\ t.executeTime = u.executeTime
  PROVE  OrderInv'
<1>1. clock \in Int /\ clock' \in Int
  BY SchedulerConstants DEF IndInv, TypeOK
<1>2. \A t \in tasks' : t.executeTime \in Int /\ t.delay \in Int
  BY DEF IndInv, TypeOK, Task
<1>3. DueWithinDelay'
  BY <1>1, <1>2 DEF OrderInv, DueWithinDelay
<1>4. SameDelayInOrder'
  BY DEF OrderInv, SameDelayInOrder, Before
<1> QED BY <1>3, <1>4 DEF OrderInv

\* A step that puts one task in, due its delay from now and (unless it repeats)
\* younger than all the others, keeps the order.
LEMMA LatestKeepsOrder ==
  ASSUME IndInv, IndInv', OrderInv, clock' = clock, added <= added',
         NEW u \in Task, u.executeTime = clock + u.delay,
         tasks' \subseteq tasks \union {u},
         u.repeat \/ \A t \in tasks : t.serial < u.serial
  PROVE  OrderInv'
<1>1. clock \in Int /\ added \in Int /\ added' \in Int /\ IdSpace \in Int
  BY SchedulerConstants DEF IndInv, TypeOK
<1>2. \A t \in tasks \union {u} : /\ t.executeTime \in Int /\ t.delay \in Int
                                /\ t.serial \in Int /\ t.id \in Int
  BY SchedulerConstants DEF IndInv, TypeOK, Task, Ids, Serials
<1>3. DueWithinDelay'
  BY <1>1, <1>2 DEF OrderInv, DueWithinDelay
<1>4. SameDelayInOrder'
  <2> SUFFICES ASSUME added' <= IdSpace, NEW t \in tasks', NEW v \in tasks',
                      t.serial < v.serial, t.delay = v.delay, ~ t.repeat
               PROVE  Before(t, v)
    BY DEF SameDelayInOrder
  <2>1. t.id = t.serial /\ v.id = v.serial
    BY DEF IndInv, IdIsSerial
  <2>2. CASE v \in tasks
    <3>1. t \in tasks
      BY <2>2, <1>2
    <3> QED BY <3>1, <2>2, <1>1 DEF OrderInv, SameDelayInOrder, Before
  <2>3. CASE v = u
    <3>1. t \in tasks
      BY <2>3, <1>2
    <3>2. t.executeTime <= v.executeTime
      BY <3>1, <2>3, <1>1, <1>2 DEF OrderInv, DueWithinDelay
    <3> QED BY <3>2, <2>1, <1>2 DEF Before
  <2> QED BY <2>2, <2>3
<1> QED BY <1>3, <1>4 DEF OrderInv

\* Without RescheduleTask every step keeps the order.
LEMMA OrderNext ==
  ASSUME NewDelays = {}, IndInv, IndInv', OrderInv, [Next]_vars
  PROVE  OrderInv'
<1> USE SchedulerConstants
<1>1. clock \in Int /\ added \in Int /\ tasks \subseteq Task
  BY DEF IndInv, TypeOK
<1>2. ASSUME NEW th \in Threads, NEW d \in Int, NEW r \in BOOLEAN, AddTask(th, d, r)
      PROVE  OrderInv'
  <2> DEFINE u == NewTask(d, r)
  <2>1. /\ u \in Task /\ u.executeTime = clock + u.delay /\ u.serial = added
        /\ tasks' \subseteq tasks \union {u}
        /\ added' = added + 1 /\ clock' = clock
    BY <1>1, <1>2 DEF AddTask, NewTask, Inserted, Task, NextId, Ids, Serials, IndInv, TypeOK
  <2>2. \A t \in tasks : t.serial < u.serial
    BY <2>1 DEF IndInv, SerialsUnique
  <2> HIDE DEF u
  <2> QED BY <1>1, <2>1, <2>2, LatestKeepsOrder
<1>3. ASSUME NEW th \in Threads, ClearTimer(th) PROVE OrderInv'
  <2>1. PICK t \in tasks : tasks' = Removed(t)
    BY <1>3 DEF ClearTimer, RemoveTask
  <2>2. added' = added /\ clock' = clock
    BY <1>3 DEF ClearTimer, RemoveTask
  <2> DEFINE k == [t EXCEPT !.kill = TRUE]
  <2>3. /\ k.serial = t.serial /\ k.id = t.id /\ k.delay = t.delay
        /\ k.repeat = t.repeat /\ k.executeTime = t.executeTime
    BY <1>1 DEF Task
  <2>4. tasks' \subseteq tasks \union {k}
    BY <2>1 DEF Removed
  <2> HIDE DEF k
  <2> QED BY <1>1, <2>2, <2>3, <2>4, SameKeysKeepOrder
<1>4. ASSUME NEW th \in Threads, Reset(th) PROVE OrderInv'
  BY <1>4 DEF Reset, OrderInv, DueWithinDelay, SameDelayInOrder
<1>5. CASE (\E th \in Threads : RunEnter(th)) \/ RunExit \/ Tick \/ UNCHANGED vars
  <2>1. tasks' = tasks /\ added' = added /\ clock <= clock'
    BY <1>5, <1>1 DEF RunEnter, RunExit, Tick, vars
  <2> QED BY <2>1, SameKeysKeepOrder
<1>6. CASE RunFire
  <2>1. PICK t \in tasks : tasks' = (tasks \ {t}) \union {[t EXCEPT !.exec = TRUE]}
    BY <1>6 DEF RunFire
  <2>2. added' = added /\ clock' = clock
    BY <1>6 DEF RunFire
  <2> DEFINE k == [t EXCEPT !.exec = TRUE]
  <2>3. /\ k.serial = t.serial /\ k.id = t.id /\ k.delay = t.delay
        /\ k.repeat = t.repeat /\ k.executeTime = t.executeTime
    BY <1>1 DEF Task
  <2>4. tasks' \subseteq tasks \union {k}
    BY <2>1
  <2> HIDE DEF k
  <2> QED BY <1>1, <2>2, <2>3, <2>4, SameKeysKeepOrder
<1>7. CASE RunReturn
  <2>1. PICK t \in tasks : tasks' = Finished(t)
    BY <1>7 DEF RunReturn
  <2>2. added' = added /\ clock' = clock
    BY <1>7 DEF RunReturn
  <2>3. CASE t.repeat
    <3> DEFINE u == Rearmed(t)
    <3>1. t \in Task /\ clock + t.delay \in Int
      BY <1>1 DEF Task
    <3>2. u \in Task /\ u.executeTime = clock + u.delay /\ u.repeat
      BY <2>3, <3>1 DEF Rearmed, Task
    <3>3. tasks' \subseteq tasks \union {u}
      BY <2>1 DEF Finished, Inserted
    <3> HIDE DEF u
    <3> QED BY <1>1, <2>2, <3>2, <3>3, LatestKeepsOrder
  <2>4. CASE ~ t.repeat
    <3>1. tasks' \subseteq tasks
      BY <2>1, <2>4 DEF Finished
    <3> QED BY <1>1, <2>2, <3>1, SameKeysKeepOrder
  <2> QED BY <2>3, <2>4
<1> QED
  BY <1>2, <1>3, <1>4, <1>5, <1>6, <1>7
     DEF Next, RunStep, SetTimeout, SetInterval, Reschedule

\* In a program that does not reschedule, as this repository has it, one-shot
\* timers of equal delay fire in the order in which they were set.
THEOREM EqualDelaysInOrder == NewDelays = {} => (Spec => []SameDelayInOrder)
<1> SUFFICES ASSUME NewDelays = {} PROVE Spec => []SameDelayInOrder
  OBVIOUS
<1>1. Init => OrderInv
  BY DEF Init, OrderInv, DueWithinDelay, SameDelayInOrder
<1>2. IndInv /\ IndInv' /\ OrderInv /\ [Next]_vars => OrderInv'
  BY OrderNext
<1>3. OrderInv => SameDelayInOrder
  BY DEF OrderInv
<1> QED BY <1>1, <1>2, <1>3, Invariant, PTL DEF Spec

----------------------------------------------------------------------------
(***************************************************************************)
(* TaskScheduler implements Timers as long as its 32-bit ids do not wrap   *)
(* around: each step of the scheduler is, seen through Pending and         *)
(* AsTimer, a step of Timers or no step at all.                            *)
(***************************************************************************)
AbsPending == {AsTimer(t) : t \in {u \in tasks : Pending(u)}}
AbsCalling == IF pc = "action" THEN it ELSE -1

\* AddTask creates a timer.
LEMMA AddTaskCreates ==
  ASSUME IndInv, MaxAdds <= IdSpace,
         NEW th \in Threads, NEW d \in Int, NEW r \in BOOLEAN, AddTask(th, d, r)
  PROVE  Promise!Create(d, r)
<1> USE SchedulerConstants
<1> DEFINE t == NewTask(d, r)
<1>1. added \in Nat /\ added < MaxAdds /\ added < IdSpace /\ added' = added + 1
  BY DEF IndInv, TypeOK, AddTask
<1>2. NextId = added
  BY <1>1 DEF IndInv, IdIsSerial, NextId
<1>3. \A u \in tasks : ~ SameKey(u, t)
  BY <1>1, <1>2 DEF IndInv, IdIsSerial, SerialsUnique, SameKey, NewTask
<1>4. tasks' = tasks \union {t}
  BY <1>3 DEF AddTask, Inserted
<1>5. Pending(t) /\ AsTimer(t) = Promise!Timer(added, r, clock + d, d)
  BY DEF Pending, AsTimer, NewTask, Promise!Timer
<1> HIDE DEF t
<1>6. AbsPending' = AbsPending \union {Promise!Timer(added, r, clock + d, d)}
  BY <1>4, <1>5 DEF AbsPending
<1>7. UNCHANGED <<clock, AbsCalling>>
  BY DEF AddTask, runVars, AbsCalling
<1> QED BY <1>1, <1>6, <1>7 DEF Promise!Create, AbsPending, AbsCalling

\* Two tasks of the set that look the same as timers are one task.
LEMMA AsTimerInjective ==
  ASSUME IndInv, NEW t \in tasks, NEW u \in tasks, AsTimer(t) = AsTimer(u)
  PROVE  t = u
  BY DEF AsTimer, IndInv, SerialsUnique

\* RemoveTask cancels a pending timer, or finds one that no longer is.
LEMMA RemoveTaskCancels ==
  ASSUME IndInv, NEW th \in Threads, NEW id \in Ids, RemoveTask(th, id)
  PROVE  (\E t \in AbsPending : Promise!Cancel(t)) \/ UNCHANGED <<clock, AbsPending, AbsCalling, added>>
<1>1. PICK t \in tasks : tasks' = Removed(t)
  BY DEF RemoveTask
<1>2. UNCHANGED <<clock, AbsCalling, added>>
  BY DEF RemoveTask, runVars, AbsCalling
<1> DEFINE u == [t EXCEPT !.kill = TRUE]
<1>3. t \in Task /\ u.exec = t.exec /\ u.kill
  BY DEF IndInv, TypeOK, Task
<1>4. AbsPending' = AbsPending \ {AsTimer(t)}
  <2>1. t.exec => ~ Pending(u)
    BY <1>3 DEF Pending
  <2>2. {v \in tasks' : Pending(v)} = {v \in tasks : Pending(v)} \ {t}
    BY <1>1, <2>1 DEF Removed, IndInv, Marks, Pending
  <2> QED BY <2>2, AsTimerInjective DEF AbsPending
<1>5. CASE AsTimer(t) \in AbsPending
  BY <1>2, <1>4, <1>5 DEF Promise!Cancel, AbsPending, AbsCalling
<1>6. CASE AsTimer(t) \notin AbsPending
  BY <1>2, <1>4, <1>6
<1> QED BY <1>5, <1>6

\* RescheduleTask postpones a pending timer.
LEMMA RescheduleTaskPostpones ==
  ASSUME IndInv, MaxAdds <= IdSpace,
         NEW th \in Threads, NEW id \in Ids, NEW d \in Int, RescheduleTask(th, id, d)
  PROVE  \E t \in AbsPending : Promise!Postpone(t, d)
<1> USE SchedulerConstants
<1>1. PICK t \in tasks : ~ t.exec /\ tasks' = Inserted(tasks \ {t}, Moved(t, d))
  BY DEF RescheduleTask
<1>2. UNCHANGED <<clock, AbsCalling, added>>
  BY DEF RescheduleTask, runVars, AbsCalling
<1> DEFINE u == Moved(t, d)
<1>3. /\ t \in Task
      /\ u.serial = t.serial /\ u.id = t.id /\ u.repeat = t.repeat /\ u.exec = t.exec
      /\ u.executeTime = clock + d /\ u.delay = d
  BY DEF IndInv, TypeOK, Task, Moved
<1>4. added <= IdSpace
  BY DEF IndInv, TypeOK
<1>5. tasks' = (tasks \ {t}) \union {u}
  BY <1>1, <1>3, <1>4 DEF IndInv, IdIsSerial, SerialsUnique, SameKey, Inserted
<1>6. Pending(t) /\ Pending(u)
  BY <1>1, <1>3 DEF Pending
<1>7. AsTimer(u) = Promise!Timer(AsTimer(t).serial, AsTimer(t).repeat, clock + d, d)
  BY <1>3 DEF AsTimer, Promise!Timer
<1> HIDE DEF u
<1>8. AbsPending' = (AbsPending \ {AsTimer(t)}) \union {AsTimer(u)}
  <2>1. {v \in tasks' : Pending(v)} = ({v \in tasks : Pending(v)} \ {t}) \union {u}
    BY <1>5, <1>6
  <2> QED BY <2>1, AsTimerInjective DEF AbsPending
<1>9. AsTimer(t).serial # AbsCalling
  <2>1. t.serial \in Nat
    BY <1>3 DEF Task, Serials
  <2> QED BY <1>1, <2>1 DEF AsTimer, AbsCalling, IndInv, IteratorValid
<1> QED BY <1>2, <1>6, <1>7, <1>8, <1>9 DEF Promise!Postpone, AbsPending, AbsCalling

\* Reset drops every timer.
LEMMA ResetDrops ==
  ASSUME IndInv, NEW th \in Threads, Reset(th)
  PROVE  Promise!DropAll
<1>1. pc # "action" /\ UNCHANGED <<clock, pc, it, added>> /\ tasks' = {}
  BY DEF IndInv, InRun, Reset, runVars
<1> QED BY <1>1 DEF Promise!DropAll

\* Run() calling an action is the call of the earliest pending timer.
LEMMA RunFireCalls ==
  ASSUME IndInv, MaxAdds <= IdSpace, RunFire
  PROVE  \E t \in AbsPending : Promise!Call(t)
<1> USE SchedulerConstants
<1>1. PICK t \in tasks :
        /\ IsFirst(t)
        /\ now >= t.executeTime
        /\ tasks' = (tasks \ {t}) \union {[t EXCEPT !.exec = TRUE]}
        /\ it' = t.serial
  BY DEF RunFire
<1>2. UNCHANGED <<clock, added>> /\ pc = "loop" /\ pc' = "action"
  BY DEF RunFire
<1> DEFINE u == [t EXCEPT !.exec = TRUE]
<1>3. /\ t \in Task
      /\ u.serial = t.serial /\ u.repeat = t.repeat /\ u.exec /\ u.kill = t.kill
      /\ u.executeTime = t.executeTime /\ u.delay = t.delay
  BY DEF IndInv, TypeOK, Task
<1>4. \A v \in tasks : Pending(v) /\ ~ v.kill
  BY <1>2 DEF IndInv, IteratorValid, Marks, Pending
<1>5. Pending(u) <=> t.repeat
  BY <1>3, <1>4 DEF Pending, Task
<1>6. AsTimer(u) = AsTimer(t)
  BY <1>3 DEF AsTimer
<1>7. tasks' = (tasks \ {t}) \union {u}
  BY <1>1
<1> HIDE DEF u
<1>8. AbsPending' = IF t.repeat THEN AbsPending ELSE AbsPending \ {AsTimer(t)}
  BY <1>4, <1>5, <1>6, <1>7, AsTimerInjective DEF AbsPending
<1>9. AsTimer(t).due <= clock
  BY <1>1, <1>3 DEF IndInv, TypeOK, InRun, AsTimer, Task
<1>10. \A v \in AbsPending \ {AsTimer(t)} : Promise!Earlier(AsTimer(t), v)
  <2> SUFFICES ASSUME NEW w \in tasks, AsTimer(w) # AsTimer(t)
               PROVE  Promise!Earlier(AsTimer(t), AsTimer(w))
    BY DEF AbsPending
  <2>1. Before(t, w)
    BY <1>1 DEF IsFirst
  <2>2. t.id = t.serial /\ w.id = w.serial
    BY DEF IndInv, TypeOK, IdIsSerial
  <2> QED BY <2>1, <2>2 DEF Before, Promise!Earlier, AsTimer
<1>11. AsTimer(t).repeat = t.repeat /\ AsTimer(t).serial = t.serial
  BY DEF AsTimer
<1> QED
  BY <1>1, <1>2, <1>4, <1>8, <1>9, <1>10, <1>11 DEF Promise!Call, AbsPending

\* Run() going on after an action is the return of the call.
LEMMA RunReturnReturns ==
  ASSUME IndInv, MaxAdds <= IdSpace, RunReturn
  PROVE  Promise!Return
<1> USE SchedulerConstants
<1>1. PICK t \in tasks : t.serial = it /\ tasks' = Finished(t)
  BY DEF RunReturn
<1>2. UNCHANGED <<clock, it, added>> /\ pc = "action" /\ pc' = "loop"
  BY DEF RunReturn
<1> DEFINE u == Rearmed(t)
           Aged(x) == IF x.serial = it THEN Promise!Timer(x.serial, x.repeat, clock + x.delay, x.delay)
                                       ELSE x
<1>3. /\ t \in Task
      /\ u.serial = t.serial /\ u.id = t.id /\ u.repeat = t.repeat /\ ~ u.exec
      /\ u.executeTime = clock + t.delay /\ u.delay = t.delay
  BY DEF IndInv, TypeOK, Task, Rearmed
<1>4. t.exec /\ \A v \in tasks \ {t} : ~ v.exec /\ v.serial # it /\ Pending(v)
  BY <1>1, <1>2 DEF IndInv, IteratorValid, SerialsUnique, Pending
<1>5. AsTimer(u) = Aged(AsTimer(t)) /\ Pending(u)
  BY <1>1, <1>3 DEF AsTimer, Promise!Timer, Pending
<1>6. \A v \in tasks \ {t} : Aged(AsTimer(v)) = AsTimer(v)
  BY <1>4 DEF AsTimer
<1>7. added <= IdSpace
  BY DEF IndInv, TypeOK
<1>8. \A v \in tasks \ {t} : ~ SameKey(v, u)
  BY <1>3, <1>7 DEF IndInv, IdIsSerial, SerialsUnique, SameKey
<1>9. Pending(t) <=> (t.repeat /\ ~ t.kill)
  BY <1>3, <1>4 DEF Pending, Task
<1>10. tasks' = IF Pending(t) THEN (tasks \ {t}) \union {u} ELSE tasks \ {t}
  BY <1>1, <1>8, <1>9 DEF Finished, Inserted
<1> HIDE DEF u, Aged
<1>11. AbsPending' = {Aged(x) : x \in AbsPending}
  <2>1. CASE Pending(t)
    BY <2>1, <1>4, <1>5, <1>6, <1>10 DEF AbsPending
  <2>2. CASE ~ Pending(t)
    BY <2>2, <1>4, <1>6, <1>10 DEF AbsPending
  <2> QED BY <2>1, <2>2
<1>12. it # -1
  BY <1>1, <1>3 DEF Task, Serials
<1> QED BY <1>2, <1>11, <1>12 DEF Promise!Return, AbsPending, Aged

\* Seen as timers, the scheduler starts with none.
LEMMA InitRefines == Init => Promise!Init
  BY DEF Init, Promise!Init

\* Every step of the scheduler is a step of Timers or leaves them alone.
LEMMA NextRefines ==
  ASSUME IndInv, MaxAdds <= IdSpace, [Next]_vars
  PROVE  [Promise!Next]_(Promise!vars)
<1> USE SchedulerConstants
<1>1. ASSUME NEW th \in Threads, SetTimeout(th) PROVE Promise!Next
  BY <1>1, AddTaskCreates DEF SetTimeout, Promise!Next
<1>2. ASSUME NEW th \in Threads, SetInterval(th) PROVE Promise!Next
  BY <1>2, AddTaskCreates DEF SetInterval, Promise!Next
<1>3. ASSUME NEW th \in Threads, ClearTimer(th) PROVE [Promise!Next]_(Promise!vars)
  BY <1>3, RemoveTaskCancels DEF ClearTimer, Promise!Next, Promise!vars, AbsPending, AbsCalling
<1>4. ASSUME NEW th \in Threads, Reschedule(th) PROVE Promise!Next
  BY <1>4, RescheduleTaskPostpones DEF Reschedule, Promise!Next, AbsPending
<1>5. ASSUME NEW th \in Threads, Reset(th) PROVE Promise!Next
  BY <1>5, ResetDrops DEF Promise!Next
<1>6. ASSUME NEW th \in Threads, RunEnter(th) PROVE UNCHANGED Promise!vars
  BY <1>6 DEF RunEnter, Promise!vars, IndInv, InRun
<1>7. CASE RunFire
  BY <1>7, RunFireCalls DEF Promise!Next, AbsPending
<1>8. CASE RunReturn
  BY <1>8, RunReturnReturns DEF Promise!Next
<1>9. CASE RunExit
  BY <1>9 DEF RunExit, Promise!vars
<1>10. CASE Tick
  BY <1>10 DEF Tick, runVars, Promise!Next, Promise!Tick
<1>11. CASE UNCHANGED vars
  BY <1>11 DEF vars, Promise!vars
<1> QED
  BY <1>1, <1>2, <1>3, <1>4, <1>5, <1>6, <1>7, <1>8, <1>9, <1>10, <1>11 DEF Next, RunStep

\* The scheduler (its lock, its loop, its marks and its ordered set) implements
\* Timers, for any number of tasks up to the number of ids.
THEOREM SchedulerImplementsTimers ==
  ASSUME MaxAdds <= IdSpace
  PROVE  Spec => ImplementsTimers
<1>1. IndInv /\ [Next]_vars => [Promise!Next]_(Promise!vars)
  BY NextRefines
<1> QED BY <1>1, InitRefines, Invariant, PTL DEF Spec, ImplementsTimers, Promise!Spec
=============================================================================
