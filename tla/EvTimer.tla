------------------------------- MODULE EvTimer -------------------------------
(* The timer service, timer/EvTimer: a thread runs event_base_dispatch,    *)
(* any number of other threads call TimerNew and TimerDelete, and so may   *)
(* the callbacks of the timers.                                            *)
(*                                                                         *)
(* Of libevent: event_base_dispatch returns when no event is pending;      *)
(* event_del, called from another thread while the event's callback runs,  *)
(* waits for the end of the callback, here with m_mutex held.              *)
EXTENDS Naturals

CONSTANTS
  Timer,     \* the events event_new can return; none is ever freed
  NoTimer    \* NULL

ASSUME EvTimerAssumption == NoTimer \notin Timer

VARIABLES
  thread,    \* the thread that dispatches: "running" or "exited"
  pending,   \* libevent: the events that have been added
  running,   \* libevent: the event whose callback runs
  cb,        \* what that callback is doing
  cbArg,     \* the timer it wants to create or delete
  flags,     \* m_map_evtimer_flag
  del,       \* a thread inside TimerDelete, with m_mutex: the timer
  made,      \* the events event_new has returned
  persist,   \* history: those made with flag true
  fired,     \* history: how often a timer has fired, up to 2
  gone       \* history: timers that TimerDelete has deleted for a thread

loopVars  == <<thread, running, cb, cbArg, fired>>
newVars   == <<pending, flags, made, persist>>
timerVars == <<loopVars, newVars, del, gone>>

TimerInit ==
  /\ thread = "running" /\ pending = {} /\ running = NoTimer
  /\ cb = "none" /\ cbArg = NoTimer
  /\ flags = [t \in {} |-> FALSE] /\ del = NoTimer
  /\ made = {} /\ persist = {} /\ fired = [t \in Timer |-> 0] /\ gone = {}

MutexFree == del = NoTimer

-----------------------------------------------------------------------------
(* What TimerNew and TimerDelete do.                                       *)

EventNew == (Timer \ made) \cup {NoTimer}

Allocated(t) == t # NoTimer

\* Mutated form: event_add is left out.
NotAdded(t) == pending
EventAdd(t) == pending \cup {t}

New(t, flag) ==
  IF Allocated(t)
  THEN /\ pending' = EventAdd(t)
       /\ flags' = [u \in DOMAIN flags \cup {t} |->
                      IF u = t THEN flag ELSE flags[u]]
       /\ made' = made \cup {t}
       /\ persist' = IF flag THEN persist \cup {t} ELSE persist
  ELSE UNCHANGED newVars

\* Mutated form: the timer is forgotten, not deleted.
KeptPending(t) == pending
EventDel(t) == pending \ {t}

Erase(t) ==
  /\ pending' = EventDel(t)
  /\ flags' = [u \in DOMAIN flags \ {t} |-> flags[u]]

-----------------------------------------------------------------------------
(* The threads that use the service.                                       *)

TimerNew(flag) ==
  /\ MutexFree
  /\ \E t \in EventNew : New(t, flag)
  /\ UNCHANGED <<loopVars, del, gone>>

\* A timer that is not in the map is ignored: no step.
TimerDelete(t) ==
  /\ MutexFree /\ t \in DOMAIN flags
  /\ del' = t
  /\ UNCHANGED <<loopVars, newVars, gone>>

EvtimerDel ==
  /\ ~MutexFree /\ running # del
  /\ Erase(del)
  /\ gone' = gone \cup {del} /\ del' = NoTimer
  /\ UNCHANGED <<loopVars, made, persist>>

-----------------------------------------------------------------------------
(* The thread that dispatches.                                             *)

Exit ==
  /\ thread = "running" /\ running = NoTimer /\ pending = {}
  /\ thread' = "exited"
  /\ UNCHANGED <<newVars, running, cb, cbArg, fired, del, gone>>

\* Mutated form: EV_TIMEOUT | EV_PERSIST for every timer.
AlwaysPersist(t) == TRUE
Persists(t) == flags[t]

\* A persistent timer is added again before its callback is called.
Fire(t) ==
  /\ thread = "running" /\ running = NoTimer /\ t \in pending
  /\ pending' = IF t \in DOMAIN flags /\ Persists(t) THEN pending
                                                    ELSE pending \ {t}
  /\ running' = t /\ cb' = "run"
  /\ fired' = [fired EXCEPT ![t] = IF @ < 2 THEN @ + 1 ELSE 2]
  /\ UNCHANGED <<thread, cbArg, flags, made, persist, del, gone>>

(* A callback may call TIMERNEW or TIMERDEL, once here.                    *)
CbWantsNew ==
  /\ cb = "run"
  /\ cb' = "new"
  /\ UNCHANGED <<thread, running, cbArg, fired, newVars, del, gone>>

CbWantsDelete(t) ==
  /\ cb = "run" /\ t \in DOMAIN flags
  /\ cb' = "delete" /\ cbArg' = t
  /\ UNCHANGED <<thread, running, fired, newVars, del, gone>>

CbNew(flag) ==
  /\ MutexFree /\ cb = "new"
  /\ \E t \in EventNew : New(t, flag)
  /\ cb' = "done"
  /\ UNCHANGED <<thread, running, cbArg, fired, del, gone>>

\* In the dispatching thread event_del does not wait.
CbDelete ==
  /\ MutexFree /\ cb = "delete"
  /\ IF cbArg \in DOMAIN flags THEN Erase(cbArg) ELSE UNCHANGED <<pending, flags>>
  /\ cb' = "done" /\ cbArg' = NoTimer
  /\ UNCHANGED <<thread, running, fired, made, persist, del, gone>>

CbReturn ==
  /\ cb \in {"run", "done"}
  /\ cb' = "none" /\ running' = NoTimer
  /\ UNCHANGED <<thread, cbArg, fired, newVars, del, gone>>

-----------------------------------------------------------------------------

Callback == (\E flag \in BOOLEAN : CbNew(flag)) \/ CbDelete \/ CbReturn

TimerNext ==
  \/ \E flag \in BOOLEAN : TimerNew(flag)
  \/ \E t \in Timer : TimerDelete(t) \/ Fire(t) \/ CbWantsDelete(t)
  \/ EvtimerDel \/ Exit \/ CbWantsNew \/ Callback

TimerSpec == TimerInit /\ [][TimerNext]_timerVars

(* Every timer that is due is served, the thread in TimerDelete goes on,   *)
(* and callbacks come to an end.                                           *)
TimerFairness ==
  /\ \A t \in Timer : SF_timerVars(Fire(t))
  /\ WF_timerVars(Exit) /\ WF_timerVars(EvtimerDel) /\ WF_timerVars(Callback)

TimerLiveSpec == TimerSpec /\ TimerFairness

-----------------------------------------------------------------------------
(* Properties.                                                             *)

TimerTypeOK ==
  /\ thread \in {"running", "exited"}
  /\ pending \subseteq Timer /\ running \in Timer \cup {NoTimer}
  /\ cb \in {"none", "run", "new", "delete", "done"}
  /\ cbArg \in Timer \cup {NoTimer}
  /\ DOMAIN flags \subseteq Timer /\ flags \in [DOMAIN flags -> BOOLEAN]
  /\ del \in Timer \cup {NoTimer}
  /\ made \subseteq Timer /\ persist \subseteq made /\ fired \in [Timer -> 0..2] /\ gone \subseteq Timer

(* When TimerDelete has returned to a thread, the callback does not run    *)
(* and is not called again: its argument may be freed.                     *)
DeletedIsQuiet ==
  \A t \in gone : t \notin pending /\ running # t

(* EvTimer.h:71, "flag false:onetime": such a timer fires once at most,    *)
(* whoever deletes it and whatever its callback does.                      *)
OneTimeFiresOnce ==
  \A t \in Timer \ persist : fired[t] < 2

(* What is pending can be deleted: the map knows it.                       *)
PendingIsKnown == pending \subseteq DOMAIN flags

(* A thread in TimerDelete waits for the callback of its timer, and that   *)
(* callback waits for m_mutex.                                             *)
LockCycle == ~MutexFree /\ running = del /\ cb \in {"new", "delete"}

(* A timer that is made while the dispatching thread lives fires or is     *)
(* deleted, and keeps the thread alive until then, unless threads block    *)
(* each other.                                                             *)
TimerIsServed ==
  \A t \in Timer :
    (t \in DOMAIN flags /\ fired[t] = 0 /\ thread = "running")
      ~> (fired[t] > 0 \/ t \notin DOMAIN flags \/ LockCycle)
=============================================================================
