----------------------------- MODULE NodeThreads ----------------------------
(***************************************************************************)
(* The threads of a process: the main thread calls the Thread Manager, at  *)
(* last to create the periodic thread of its loop and to wait for it, as   *)
(* the last steps of ControlNode::entry do.  Its other calls stand for any *)
(* use of the Thread Manager, by callers that go on when a call fails.     *)
(***************************************************************************)
EXTENDS PeriodicThread

CONSTANTS
  Ids,                \* identifiers of threads
  LoopThread,         \* the one that the loop's thread gets
  Priorities,
  MaxManagerFaults    \* bound: calls of the system that fail in the manager

VARIABLES
  initialized, initPriority, irqPriority, state, priority, args, mThreadList,
  ret, joined, told, managerFaults

TM == INSTANCE ThreadManager WITH
  faults <- managerFaults, MaxFaults <- MaxManagerFaults

ASSUME NodeThreadsAssumption ==
  /\ LoopThread \in Ids
  /\ TM!NoId \notin Ids
  /\ Priorities \subseteq Nat
  /\ MaxManagerFaults \in Nat

managerVars ==
  <<initialized, initPriority, irqPriority, state, priority, args, mThreadList,
    ret, joined, told, managerFaults>>

nodeVars == <<vars, managerVars>>

NodeInit == Init /\ TM!Init

Up == process = "up"

(* The main thread, before its wait for the loop returns.                  *)
ManagerCall ==
  /\ Up /\ joined # LoopThread
  /\ \/ TM!GetInstance \/ TM!GetInstanceFails
     \/ TM!CreateInvalid
     \/ TM!CreateFails
     \/ \E t \in Ids \ {LoopThread} :
          \/ \E p \in Priorities, hasArgs \in BOOLEAN :
               TM!Create(t, p, hasArgs) \/ TM!CreateUnlisted(t, p, hasArgs)
          \/ TM!Wait(t) \/ TM!WaitFails(t)
  /\ UNCHANGED vars

(* createPeriodicThread: there always are arguments, the period and two    *)
(* functions at least.                                                     *)
StartLoop ==
  /\ Up /\ pc = "create"
  /\ \E p \in Priorities : TM!Create(LoopThread, p, TRUE)
  /\ UNCHANGED vars

(* exitOnError, also when the thread was created and runs.                 *)
StartLoopFails ==
  /\ Up /\ pc = "create"
  /\ TM!CreateFails \/ \E p \in Priorities : TM!CreateUnlisted(LoopThread, p, TRUE)
  /\ MainFails

OtherThread ==
  /\ Up
  /\ \E t \in Ids \ {LoopThread} : TM!Finish(t)
  /\ UNCHANGED vars

LoopStarted == Up /\ state[LoopThread] = "running"

Ends == IF pc' = "ended" THEN TM!Finish(LoopThread) ELSE UNCHANGED managerVars

LoopExpire == LoopStarted /\ Expire /\ UNCHANGED managerVars

LoopStep == LoopStarted /\ ThreadStep /\ Ends

LoopFault == LoopStarted /\ ThreadFault /\ Ends

WaitForLoop == Up /\ TM!Wait(LoopThread) /\ UNCHANGED vars

(* exitOnError *)
WaitForLoopFails == Up /\ TM!WaitFails(LoopThread) /\ MainFails

(* A mistake: the main thread goes on when the loop ended with E_SUCCESS   *)
(* or without time.                                                        *)
BugExit ==
  /\ Up /\ joined = LoopThread
  /\ threadRet \notin {"E_SUCCESS", "E_TIMER_EXPIRED_MORE_THAN_ONCE"}
  /\ MainExits
  /\ UNCHANGED managerVars

Exit == Up /\ joined = LoopThread /\ MainExits /\ UNCHANGED managerVars

NodeNext ==
  \/ ManagerCall \/ StartLoop \/ StartLoopFails \/ OtherThread
  \/ LoopExpire \/ LoopStep \/ LoopFault
  \/ WaitForLoop \/ WaitForLoopFails \/ Exit

NodeSpec == NodeInit /\ [][NodeNext]_nodeVars

(* The loop's thread has a core of its own and the timer goes on; the main *)
(* thread is in its wait for the loop.                                     *)
NodeFairSpec ==
  /\ NodeSpec
  /\ WF_nodeVars(LoopStep) /\ WF_nodeVars(LoopExpire)
  /\ WF_nodeVars(WaitForLoop) /\ WF_nodeVars(Exit)

-----------------------------------------------------------------------------
ThreadsRunBelowTheKernel == TM!ThreadsRunBelowTheKernel

ArgumentsFollowThreads == TM!ArgumentsFollowThreads

(* A loop with a period runs again and again, and when its thread ends, so *)
(* does the process: a node does not stay up without its loop.             *)
KeepsRunning ==
  Armed => (state[LoopThread] # "free") ~> (pc = "run" \/ ~Up)
=============================================================================
