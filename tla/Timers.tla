------------------------------- MODULE Timers -------------------------------
(***************************************************************************)
(* What setTimeout, setInterval, clearTimeout and clearInterval promise:   *)
(* a set of pending timers, each called when it is due, in order of        *)
(* deadline and then of creation, one call at a time, never after it was   *)
(* cleared, and a one-shot never twice.  TaskScheduler is shown to         *)
(* implement it.                                                           *)
(***************************************************************************)
EXTENDS Integers

CONSTANTS Delays, Periods, NewDelays, MaxAdds, MaxTime

VARIABLES
    clock,
    pending,   \* the timers that are armed
    calling,   \* the serial of the timer whose callback is running, or -1
    added      \* number of timers created so far

vars == <<clock, pending, calling, added>>

Init ==
    /\ clock = 0
    /\ pending = {}
    /\ calling = -1
    /\ added = 0

Timer(serial, repeat, due, delay) ==
    [serial |-> serial, repeat |-> repeat, due |-> due, delay |-> delay]

Create(delay, repeat) ==
    /\ added < MaxAdds
    /\ added' = added + 1
    /\ pending' = pending \union {Timer(added, repeat, clock + delay, delay)}
    /\ UNCHANGED <<clock, calling>>

Cancel(t) ==
    /\ pending' = pending \ {t}
    /\ UNCHANGED <<clock, calling, added>>

Postpone(t, delay) ==
    /\ t.serial # calling
    /\ pending' = (pending \ {t}) \union {Timer(t.serial, t.repeat, clock + delay, delay)}
    /\ UNCHANGED <<clock, calling, added>>

DropAll ==
    /\ calling = -1
    /\ pending' = {}
    /\ UNCHANGED <<clock, calling, added>>

Earlier(t, u) ==
    \/ t.due < u.due
    \/ t.due = u.due /\ t.serial < u.serial

Call(t) ==
    /\ calling = -1
    /\ t.due <= clock
    /\ \A u \in pending \ {t} : Earlier(t, u)
    /\ calling' = t.serial
    /\ pending' = IF t.repeat THEN pending ELSE pending \ {t}
    /\ UNCHANGED <<clock, added>>

\* The callback returns: the timer it belongs to, if it is still pending, is
\* due one period from now.
Return ==
    /\ calling # -1
    /\ calling' = -1
    /\ pending' = {IF t.serial = calling
                     THEN Timer(t.serial, t.repeat, clock + t.delay, t.delay)
                     ELSE t : t \in pending}
    /\ UNCHANGED <<clock, added>>

Tick ==
    /\ clock < MaxTime
    /\ clock' = clock + 1
    /\ UNCHANGED <<pending, calling, added>>

Next ==
    \/ \E d \in Delays : Create(d, FALSE)
    \/ \E d \in Periods : Create(d, TRUE)
    \/ \E t \in pending : Cancel(t) \/ Call(t) \/ \E d \in NewDelays : Postpone(t, d)
    \/ DropAll
    \/ Return
    \/ Tick

Spec == Init /\ [][Next]_vars
=============================================================================
