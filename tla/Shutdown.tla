------------------------------ MODULE Shutdown -------------------------------
(* The life of the broker object: EvTcpHandler's constructor starts the    *)
(* event thread, EvCoreServer's the handler thread and a thread of its     *)
(* own, and the destructors run in the opposite order of the classes: the  *)
(* subclass is gone before Deinit of the base class stops the handler      *)
(* thread, which calls the subclass's virtual functions.                   *)
(*                                                                         *)
(* The steps of the threads are those of EvCoreServer.tla.                 *)
EXTENDS EvCoreServer

VARIABLES
  main,        \* where the main thread is
  m_listenner, \* "bound" or "null"
  m_runFlag,   \* EvTcpHandler's
  coreFlag,    \* EvCoreServer's m_runFlag
  coreTask,    \* the thread of CoreTask
  hand,        \* the handler thread: not begun, at its while, inside, done
  dispatch,    \* the event thread, in event_base_dispatch
  tofree       \* what the loop of Deinit has still to free

stopVars == <<main, m_listenner, m_runFlag, coreFlag, coreTask, hand, dispatch,
              tofree>>
shutVars == <<coreVars, stopVars>>

(* Init of the base class.  When the port is taken there is no event       *)
(* thread.                                                                 *)
ShutInit ==
  /\ CoreInit
  /\ main = "built"
  /\ \/ m_listenner = "bound" /\ dispatch = "run"
     \/ m_listenner = "null" /\ dispatch = "none"
  /\ m_runFlag = FALSE /\ coreFlag = FALSE
  /\ coreTask = "none" /\ hand = "none" /\ tofree = {}

\* The process has not ended.
Alive == main \notin {"gone", "abort", "crash"}

\* The part of the object that EvCoreServer adds, its virtuals included.
SubclassAlive == main \in {"built", "run", "joincore"}

-----------------------------------------------------------------------------
(* The threads.                                                            *)

TopOfLoop ==
  /\ Alive /\ hand = "top"
  /\ hand' = IF m_runFlag THEN "in" ELSE "done"
  /\ UNCHANGED <<coreVars, main, m_listenner, m_runFlag, coreFlag, coreTask,
                 dispatch, tofree>>

\* What the handler thread is about to do is call a virtual.
CallsVirtual ==
  \/ pc = "extract" /\ DOMAIN vecuint8 # {}
  \/ pc = "handle" /\ (epair # NoBev \/ DOMAIN listvecProtocol \ visited # {})

(* The batch goes on whatever m_runFlag is.  Inside a virtual of the       *)
(* subclass that has been destroyed the thread may go on for a while.      *)
HandlerStep ==
  /\ Alive /\ hand = "in" /\ (SubclassAlive \/ ~CallsVirtual)
  /\ HandlerThread
  /\ hand' = IF pc \in {"extract", "handle"} /\ pc' = "extract" THEN "top" ELSE "in"
  /\ UNCHANGED <<main, m_listenner, m_runFlag, coreFlag, coreTask, dispatch,
                 tofree>>

(* The virtuals of the base class are pure; and the maps a virtual of the  *)
(* subclass works on are gone.                                             *)
PureVirtualCall ==
  /\ Alive /\ hand = "in" /\ ~SubclassAlive
  /\ CallsVirtual \/ pc \in {"call", "write", "free"}
  /\ main' = "abort"
  /\ UNCHANGED <<coreVars, m_listenner, m_runFlag, coreFlag, coreTask, hand,
                 dispatch, tofree>>

Callback(b) ==
  /\ Alive /\ dispatch \in {"run", "exit"}
  /\ EventThread(b)
  /\ UNCHANGED stopVars

Peers ==
  /\ Alive
  /\ PeerNext
  /\ UNCHANGED <<subVars, procVars, stopVars>>

\* event_base_dispatch returns, between two callbacks.
DispatchEnds ==
  /\ Alive /\ dispatch = "exit" /\ ev = Idle
  /\ dispatch' = "done"
  /\ UNCHANGED <<coreVars, main, m_listenner, m_runFlag, coreFlag, coreTask,
                 hand, tofree>>

CoreTask ==
  /\ Alive /\ coreTask = "loop" /\ ~coreFlag
  /\ coreTask' = "done"
  /\ UNCHANGED <<coreVars, main, m_listenner, m_runFlag, coreFlag, hand,
                 dispatch, tofree>>

-----------------------------------------------------------------------------
(* The main thread.                                                        *)

\* Start, in the constructor of the subclass, which starts CoreTask as well.
Start ==
  /\ main = "built"
  /\ main' = "run"
  /\ IF m_listenner = "bound" THEN m_runFlag' = TRUE /\ hand' = "top"
                              ELSE UNCHANGED <<m_runFlag, hand>>
  /\ coreFlag' = TRUE /\ coreTask' = "loop"
  /\ UNCHANGED <<coreVars, m_listenner, dispatch, tofree>>

Destruct ==
  /\ main = "run"
  /\ coreFlag' = FALSE /\ main' = "joincore"
  /\ UNCHANGED <<coreVars, m_listenner, m_runFlag, coreTask, hand, dispatch,
                 tofree>>

\* Mutated form: a thread is not waited for.
AnyThread(t) == TRUE
Joined(t) == t \in {"none", "done"}

JoinCore ==
  /\ main = "joincore" /\ Joined(coreTask)
  /\ main' = "deinit"
  /\ UNCHANGED <<coreVars, m_listenner, m_runFlag, coreFlag, coreTask, hand,
                 dispatch, tofree>>

Deinit ==
  /\ main = "deinit"
  /\ m_runFlag' = FALSE /\ main' = "joinhand"
  /\ UNCHANGED <<coreVars, m_listenner, coreFlag, coreTask, hand, dispatch,
                 tofree>>

\* Mutated form: event_base_loopexit is left out.
NoLoopexit == dispatch
Loopexit == IF dispatch = "run" THEN "exit" ELSE dispatch

JoinHandler ==
  /\ main = "joinhand" /\ Joined(hand)
  /\ dispatch' = Loopexit /\ main' = "joinevent"
  /\ UNCHANGED <<coreVars, m_listenner, m_runFlag, coreFlag, coreTask, hand,
                 tofree>>

JoinEvent ==
  /\ main = "joinevent" /\ Joined(dispatch)
  /\ tofree' = DOMAIN vecuint8 /\ main' = "free"
  /\ UNCHANGED <<coreVars, m_listenner, m_runFlag, coreFlag, coreTask, hand,
                 dispatch>>

FreeSocket(b) ==
  /\ main = "free" /\ b \in tofree
  /\ BuffereventFree(b) /\ tofree' = tofree \ {b}
  /\ UNCHANGED <<vecuint8, ev, handlerVars, subVars, procVars, main,
                 m_listenner, m_runFlag, coreFlag, coreTask, hand, dispatch>>

\* evconnlistener_free does not take a null pointer.
FreeListener ==
  /\ main = "free" /\ tofree = {}
  /\ main' = IF m_listenner = "bound" THEN "gone" ELSE "crash"
  /\ UNCHANGED <<coreVars, m_listenner, m_runFlag, coreFlag, coreTask, hand,
                 dispatch, tofree>>

-----------------------------------------------------------------------------

Handler == TopOfLoop \/ HandlerStep \/ PureVirtualCall

Destructor ==
  \/ JoinCore \/ Deinit \/ JoinHandler \/ JoinEvent
  \/ \E b \in Bev : FreeSocket(b)
  \/ FreeListener

ShutNext ==
  \/ Handler \/ Peers \/ DispatchEnds \/ CoreTask
  \/ \E b \in Bev : Callback(b)
  \/ Start \/ Destruct \/ Destructor

ShutSpec == ShutInit /\ [][ShutNext]_shutVars

(* All threads run, and a socket that is ready is served.  Nobody has to   *)
(* end the program.                                                        *)
ShutLiveSpec ==
  /\ ShutSpec
  /\ WF_shutVars(Handler) /\ WF_shutVars(CoreTask)
  /\ WF_shutVars(DispatchEnds) /\ WF_shutVars(Destructor)
  /\ \A b \in Bev : WF_shutVars(Callback(b) /\ ~ListenerCb(b))

-----------------------------------------------------------------------------
(* Properties.                                                             *)

(* When Deinit frees the sockets both threads that use them have ended,    *)
(* what it frees is what is still allocated, each once, and no socket      *)
(* outlives the object: whatever the threads did while they were stopped.  *)
NothingLeftBehind ==
  main \in {"free", "gone"} =>
    /\ hand \in {"none", "done"} /\ dispatch \in {"none", "done"}
    /\ ev = Idle
    /\ Live = tofree

(* The destructors end, unless the handler thread calls a virtual of the   *)
(* subclass that is gone, the two threads block each other, or there is no *)
(* listener to be freed.                                                   *)
DestructorReturns ==
  (main = "joincore") ~>
    (main \in {"gone", "abort"} \/ LockCycle \/ m_listenner = "null")
=============================================================================
