---------------------------- MODULE SimulatedClock ----------------------------
(***************************************************************************)
(* The simulated clock (core/clock.py).  advance_to() awaits the callbacks *)
(* it fires, and a callback may itself schedule, cancel, advance the clock *)
(* or suspend while another task does.  A step is what one task does       *)
(* between two such points.                                                *)
(***************************************************************************)
EXTENDS Integers, Sequences, SequencesExt

CONSTANTS Caller,        \* the tasks that use the clock
          Delay,       \* the delays they pass to schedule()
          MaxTime,     \* bound: the last instant advanced to
          MaxTimers,   \* bound: calls of schedule()
          MaxDepth     \* bound: advance_to() inside a callback inside ...

ASSUME DelayAssumption == Delay \subseteq Nat

ASSUME HorizonAssumption == MaxTime \in Nat /\ MaxTimers \in Nat /\ MaxDepth \in Nat

Timer == [at : Nat, id : Nat]

VARIABLES
  now,     \* _current
  pending,     \* _pending; its stable order is that of (at, id)
  scheduled,   \* number of schedule() calls so far
  frames,      \* frames[t]: targets of the advance_to() calls t is inside of,
               \* outermost first; each awaits a callback
  fired,       \* history: the timers fired, in order
  turnedBack   \* history: the clock has been moved backwards

clockVars == <<now, pending, scheduled, frames, fired, turnedBack>>

ClockTypeOK ==
  /\ now \in Nat /\ scheduled \in Nat
  /\ pending \in SUBSET Timer
  /\ frames \in [Caller -> Seq(Nat)]
  /\ fired \in Seq(Timer)
  /\ turnedBack \in BOOLEAN

ClockInit ==
  /\ now = 0 /\ scheduled = 0 /\ pending = {}
  /\ frames = [t \in Caller |-> <<>>]
  /\ fired = <<>> /\ turnedBack = FALSE

SetClock(time) ==
  /\ now' = time
  /\ turnedBack' = (turnedBack \/ time < now)

-------------------------------------------------------------------------------
\* The order of the list: append, then a stable sort by the trigger time.
Before(p, q) == p.at < q.at \/ (p.at = q.at /\ p.id < q.id)

Schedule(delay) ==
  /\ scheduled < MaxTimers
  /\ scheduled' = scheduled + 1
  /\ pending' = pending \cup {[at |-> now + delay, id |-> scheduled + 1]}
  /\ UNCHANGED <<now, frames, fired, turnedBack>>

CancelAll ==
  /\ pending # {}
  /\ pending' = {}
  /\ UNCHANGED <<now, scheduled, frames, fired, turnedBack>>

\* Mutant: the clock is set to the target before the callbacks run.
Fire_AtTarget(t, outer, target) ==
  \E p \in pending :
    /\ p.at <= target /\ \A q \in pending \ {p} : Before(p, q)
    /\ pending' = pending \ {p}
    /\ SetClock(target)
    /\ fired' = Append(fired, p)
    /\ frames' = [frames EXCEPT ![t] = Append(outer, target)]

\* Mutant: the timer leaves the list after its callback, not before.
Fire_NotPopped(t, outer, target) ==
  \E p \in pending :
    /\ p.at <= target /\ \A q \in pending \ {p} : Before(p, q)
    /\ SetClock(p.at)
    /\ fired' = Append(fired, p)
    /\ frames' = [frames EXCEPT ![t] = Append(outer, target)]
    /\ UNCHANGED pending

\* Mutant: of the timers of one instant the last is taken first.
Fire_LastIn(t, outer, target) ==
  \E p \in pending :
    /\ p.at <= target
    /\ \A q \in pending \ {p} : p.at < q.at \/ (p.at = q.at /\ p.id > q.id)
    /\ pending' = pending \ {p}
    /\ SetClock(p.at)
    /\ fired' = Append(fired, p)
    /\ frames' = [frames EXCEPT ![t] = Append(outer, target)]

\* A turn of the loop: the first timer is popped and its callback entered.
Fire(t, outer, target) ==
  \E p \in pending :
    /\ p.at <= target /\ \A q \in pending \ {p} : Before(p, q)
    /\ pending' = pending \ {p}
    /\ SetClock(p.at)
    /\ fired' = Append(fired, p)
    /\ frames' = [frames EXCEPT ![t] = Append(outer, target)]

\* The loop ends: nothing pending is due, the clock shows the target.
Finish(t, outer, target) ==
  /\ \A p \in pending : p.at > target
  /\ SetClock(target)
  /\ frames' = [frames EXCEPT ![t] = outer]
  /\ UNCHANGED <<pending, fired>>

\* Mutant: the target is compared with nothing.
AdvanceTo_Unchecked(t, target) ==
  /\ Len(frames[t]) < MaxDepth
  /\ Fire(t, frames[t], target) \/ Finish(t, frames[t], target)
  /\ UNCHANGED scheduled

\* A target in the past is a ValueError.  advance_by() adds to the clock first.
AdvanceTo(t, target) ==
  /\ Len(frames[t]) < MaxDepth /\ target >= now
  /\ Fire(t, frames[t], target) \/ Finish(t, frames[t], target)
  /\ UNCHANGED scheduled

\* The callback returns, or raises, which is logged: the loop goes on, with the
\* target it has had from the start.
CallbackReturns(t) ==
  /\ frames[t] # <<>>
  /\ \/ Fire(t, Front(frames[t]), Last(frames[t]))
     \/ Finish(t, Front(frames[t]), Last(frames[t]))
  /\ UNCHANGED scheduled

\* The task is cancelled while a callback is suspended: CancelledError is no
\* Exception, every advance_to() of the task ends where it is.
TaskCancelled(t) ==
  /\ frames[t] # <<>>
  /\ frames' = [frames EXCEPT ![t] = <<>>]
  /\ UNCHANGED <<now, pending, scheduled, fired, turnedBack>>

ClockNext ==
  \/ \E delay \in Delay : Schedule(delay)
  \/ CancelAll
  \/ \E t \in Caller : \/ \E target \in 0 .. MaxTime : AdvanceTo(t, target)
                     \/ CallbackReturns(t)
                     \/ TaskCancelled(t)

ClockSpec == ClockInit /\ [][ClockNext]_clockVars

-------------------------------------------------------------------------------
(* Properties *)

\* The clock has never passed a timer that is still pending: whatever nests or
\* interleaves, a callback due is called before the clock moves on.
NothingOverdue == \A p \in pending : now <= p.at

\* No timer is fired twice, nor is one still pending that was fired, even when a callback
\* re-enters the loop that is about to fire the rest.
FiredOnce ==
  /\ \A i, j \in DOMAIN fired : fired[i].id = fired[j].id => i = j
  /\ \A i \in DOMAIN fired, p \in pending : fired[i].id # p.id

\* An advance_to() in progress whose target the clock has already passed.
Overtaken == \E t \in Caller : \E i \in DOMAIN frames[t] : frames[t][i] < now

\* The clock moves backwards only when an advance_to() ends that was overtaken,
\* by one its own callbacks made or by another task's.
BackOnlyIfOvertaken == [][now' < now => Overtaken]_clockVars

\* As long as the clock has not been moved back, callbacks are called in the
\* order of their trigger times, those of one instant as they were scheduled.
FiresInOrder ==
  turnedBack \/ \A i, j \in DOMAIN fired : i < j => Before(fired[i], fired[j])
===============================================================================
