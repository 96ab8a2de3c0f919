---------------------------- MODULE EvTimerProofs ----------------------------
(* Proofs about EvTimer.                                                   *)
EXTENDS EvTimer, TLAPS

(* That a timer which was deleted for a thread stays quiet needs that its  *)
(* address is not given out again, that the map and libevent's events      *)
(* agree, and that a one-time timer is no longer pending once it fired.    *)
TimerInv ==
  /\ TimerTypeOK
  /\ PendingIsKnown
  /\ DeletedIsQuiet
  /\ DOMAIN flags \subseteq made /\ gone \subseteq made
  /\ DOMAIN flags \cap gone = {}
  /\ \A t \in DOMAIN flags : flags[t] => t \in persist
  /\ \A t \in Timer : fired[t] > 0 => t \in made
  /\ \A t \in Timer \ persist : fired[t] > 0 => t \notin pending /\ fired[t] < 2
  /\ del # NoTimer => del \in DOMAIN flags
  /\ cb = "none" <=> running = NoTimer

LEMMA TimerInitInv == TimerInit => TimerInv
  BY EvTimerAssumption
  DEF TimerInit, TimerInv, TimerTypeOK, PendingIsKnown, DeletedIsQuiet

(* What New does, whichever thread calls it.                               *)
LEMMA NewKeepsInv ==
  ASSUME TimerInv, NEW flag \in BOOLEAN, NEW t \in EventNew, New(t, flag),
         UNCHANGED <<thread, running, cbArg, fired, del, gone>>,
         (cb' = cb) \/ (cb = "new" /\ cb' = "done")
  PROVE  TimerInv'
<1> USE DEF TimerInv, TimerTypeOK, PendingIsKnown, DeletedIsQuiet
<1>1. CASE t # NoTimer
  <2>1. t \in Timer /\ t \notin made
    BY <1>1 DEF EventNew
  <2>2. /\ pending' = pending \cup {t} /\ made' = made \cup {t}
        /\ flags' = [u \in DOMAIN flags \cup {t} |-> IF u = t THEN flag ELSE flags[u]]
        /\ persist' = IF flag THEN persist \cup {t} ELSE persist
    BY <1>1 DEF New, Allocated, EventAdd
  <2> QED
    BY <2>1, <2>2, EvTimerAssumption
<1>2. CASE t = NoTimer
  BY <1>2 DEF New, Allocated, newVars
<1> QED
  BY <1>1, <1>2

(* Every step keeps the invariant.                                         *)
LEMMA TimerStepInv == TimerInv /\ [TimerNext]_timerVars => TimerInv'
<1> SUFFICES ASSUME TimerInv, [TimerNext]_timerVars PROVE TimerInv'
  OBVIOUS
<1> USE EvTimerAssumption
<1>1. ASSUME NEW flag \in BOOLEAN, TimerNew(flag) PROVE TimerInv'
  <2>1. \E t \in EventNew : New(t, flag)
    BY <1>1 DEF TimerNew
  <2>2. UNCHANGED <<thread, running, cbArg, fired, del, gone>>
    BY <1>1 DEF TimerNew, loopVars
  <2>3. (cb' = cb) \/ (cb = "new" /\ cb' = "done")
    BY <1>1 DEF TimerNew, loopVars
  <2> QED
    BY <1>1, <2>1, <2>2, <2>3, NewKeepsInv
<1>2. ASSUME NEW t \in Timer, TimerDelete(t) PROVE TimerInv'
  BY <1>2 DEF TimerDelete, loopVars, newVars, TimerInv, TimerTypeOK, PendingIsKnown,
              DeletedIsQuiet
<1>3. ASSUME NEW t \in Timer, Fire(t) PROVE TimerInv'
  BY <1>3 DEF Fire, Persists, TimerInv, TimerTypeOK, PendingIsKnown, DeletedIsQuiet
<1>4. ASSUME NEW t \in Timer, CbWantsDelete(t) PROVE TimerInv'
  BY <1>4 DEF CbWantsDelete, newVars, TimerInv, TimerTypeOK, PendingIsKnown,
              DeletedIsQuiet
<1>5. CASE EvtimerDel
  BY <1>5 DEF EvtimerDel, MutexFree, Erase, EventDel, loopVars, TimerInv, TimerTypeOK,
              PendingIsKnown, DeletedIsQuiet
<1>6. CASE Exit
  BY <1>6 DEF Exit, newVars, TimerInv, TimerTypeOK, PendingIsKnown, DeletedIsQuiet
<1>7. CASE CbWantsNew
  BY <1>7 DEF CbWantsNew, newVars, TimerInv, TimerTypeOK, PendingIsKnown, DeletedIsQuiet
<1>8. ASSUME NEW flag \in BOOLEAN, CbNew(flag) PROVE TimerInv'
  BY <1>8, NewKeepsInv DEF CbNew
<1>9. CASE CbDelete
  BY <1>9 DEF CbDelete, MutexFree, Erase, EventDel, TimerInv, TimerTypeOK,
              PendingIsKnown, DeletedIsQuiet
<1>10. CASE CbReturn
  BY <1>10 DEF CbReturn, newVars, TimerInv, TimerTypeOK, PendingIsKnown, DeletedIsQuiet
<1>11. CASE UNCHANGED timerVars
  BY <1>11 DEF timerVars, loopVars, newVars, TimerInv, TimerTypeOK, PendingIsKnown,
               DeletedIsQuiet
<1> QED
  BY <1>1, <1>2, <1>3, <1>4, <1>5, <1>6, <1>7, <1>8, <1>9, <1>10, <1>11
  DEF TimerNext, Callback

LEMMA TimerInvHolds == TimerSpec => []TimerInv
  BY TimerInitInv, TimerStepInv, PTL DEF TimerSpec

(* Type correctness of the timer service.                                  *)
THEOREM TimerTypeCorrect == TimerSpec => []TimerTypeOK
<1>1. TimerInv => TimerTypeOK
  BY DEF TimerInv
<1> QED
  BY <1>1, TimerInvHolds, PTL

(* However many threads and callbacks create and delete timers: once       *)
(* TimerDelete has returned to a thread, the callback of that timer does   *)
(* not run and is not called again.                                        *)
THEOREM DeletedStaysQuiet == TimerSpec => []DeletedIsQuiet
<1>1. TimerInv => DeletedIsQuiet
  BY DEF TimerInv
<1> QED
  BY <1>1, TimerInvHolds, PTL

(* A timer made with flag false fires once at most.                        *)
THEOREM OneTimeIsOnce == TimerSpec => []OneTimeFiresOnce
<1>1. TimerInv => OneTimeFiresOnce
  <2> SUFFICES ASSUME TimerInv, NEW t \in Timer \ persist PROVE fired[t] < 2
    BY DEF OneTimeFiresOnce
  <2>1. fired[t] \in 0..2
    BY DEF TimerInv, TimerTypeOK
  <2>2. fired[t] > 0 => fired[t] < 2
    BY DEF TimerInv
  <2> QED
    BY <2>1, <2>2
<1> QED
  BY <1>1, TimerInvHolds, PTL

(* No timer is pending that TimerDelete would not find.                    *)
THEOREM PendingStaysKnown == TimerSpec => []PendingIsKnown
<1>1. TimerInv => PendingIsKnown
  BY DEF TimerInv
<1> QED
  BY <1>1, TimerInvHolds, PTL
=============================================================================
