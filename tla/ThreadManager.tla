--------------------------- MODULE ThreadManager ----------------------------
(***************************************************************************)
(* The Thread Manager: the priorities of the kernel's threads, which the   *)
(* first getInstance sets, and the list of the threads it created.  It is  *)
(* called by one thread (ThreadManager.hpp, warning #1), so that a call is *)
(* one step; the threads it creates finish at any time.                    *)
(*                                                                         *)
(* An identifier (pthread_t) is free again when its thread was joined, and *)
(* the next thread may get it.                                             *)
(***************************************************************************)
EXTENDS Integers, Sequences, SequencesExt

CONSTANTS
  Ids,            \* identifiers of threads
  Priorities,     \* priorities that callers ask for
  MaxFaults       \* bound: calls of the system that fail

RCU_PRIORITY == 1
HW_IRQ_PRIORITY == 15
SW_IRQ_PRIORITY == HW_IRQ_PRIORITY - 1
FSW_INIT_THREAD_PRIORITY == SW_IRQ_PRIORITY - 1
MAX_NEW_THREAD_PRIORITY == FSW_INIT_THREAD_PRIORITY - 1
MIN_NEW_THREAD_PRIORITY == RCU_PRIORITY + 1

(* The software interrupt threads in the order in which they are verified  *)
(* and changed, and the priorities the kernel gave them.                   *)
SwIrq == <<"ksoftirqd/0", "ksoftirqd/1", "ktimersoftd/0", "ktimersoftd/1">>
KernelPriority == <<8, 8, 1, 1>>

VARIABLES
  initialized,    \* of getInstance
  initPriority,   \* of the thread that calls the Thread Manager; 0 is none
  irqPriority,    \* of the software interrupt threads
  state,          \* of each identifier: "free", "running" or "finished"
  priority,       \* of the thread
  args,           \* the copy of its arguments: "none", "live" or "freed"
  mThreadList,
  ret,            \* what the last call returned
  joined,         \* the thread that the last call waited for, if any
  told,           \* history: its creation was reported as a success
  faults

kernelVars == <<initialized, initPriority, irqPriority>>
threadVars == <<state, priority, args, mThreadList>>
vars == <<kernelVars, threadVars, ret, joined, told, faults>>

NoId == "no thread"

Init ==
  /\ initialized = FALSE
  /\ initPriority = 0
  /\ irqPriority = KernelPriority
  /\ state = [t \in Ids |-> "free"]
  /\ priority = [t \in Ids |-> 0]
  /\ args = [t \in Ids |-> "none"]
  /\ mThreadList = <<>>
  /\ ret = "E_SUCCESS"
  /\ joined = NoId
  /\ told = [t \in Ids |-> FALSE]
  /\ faults = 0

Fault == faults < MaxFaults /\ faults' = faults + 1

Listed(t) == \E k \in 1 .. Len(mThreadList) : mThreadList[k] = t

-----------------------------------------------------------------------------
(* initKernelSchedulingEnvironment: 1 sets the caller's priority, 2 its    *)
(* core, 3 to 6 verify the names of the interrupt threads, 7 to 10 raise   *)
(* their priorities.  The first step that fails ends it; what was set      *)
(* stays, and the next getInstance begins again.                           *)

(* What the steps before k have done. *)
InitStepsBefore(k) ==
  /\ initPriority' = IF k > 1 THEN FSW_INIT_THREAD_PRIORITY ELSE initPriority
  /\ irqPriority' = [j \in 1 .. 4 |-> IF k > 6 + j THEN SW_IRQ_PRIORITY
                                                   ELSE irqPriority[j]]

(* A mistake: initialized is set before the steps. *)
BugGetInstanceFails ==
  /\ ~initialized /\ Fault
  /\ \E k \in 1 .. 10 : InitStepsBefore(k)
  /\ ret' = "E_FAILED_TO_INIT_KERNEL_ENV"
  /\ initialized' = TRUE
  /\ joined' = NoId
  /\ UNCHANGED <<threadVars, told>>

GetInstanceFails ==
  /\ ~initialized /\ Fault
  /\ \E k \in 1 .. 10 : InitStepsBefore(k)
  /\ ret' = "E_FAILED_TO_INIT_KERNEL_ENV"
  /\ joined' = NoId
  /\ UNCHANGED <<initialized, threadVars, told>>

GetInstance ==
  /\ InitStepsBefore(IF initialized THEN 1 ELSE 11)
  /\ initialized' = TRUE
  /\ ret' = "E_SUCCESS"
  /\ joined' = NoId
  /\ UNCHANGED <<threadVars, told, faults>>

-----------------------------------------------------------------------------
(* createThread, and createPeriodicThread, which checks and packs its      *)
(* arguments and calls it.                                                 *)

ValidPriority(p) == p >= MIN_NEW_THREAD_PRIORITY /\ p <= MAX_NEW_THREAD_PRIORITY

CreateInvalid ==
  /\ initialized
  /\ ret' \in {"E_INVALID_POINTER", "E_INVALID_AFFINITY", "E_INVALID_ARGS_LENGTH"}
             \cup (IF \E p \in Priorities : ~ValidPriority(p)
                   THEN {"E_INVALID_PRIORITY"} ELSE {})
  /\ joined' = NoId
  /\ UNCHANGED <<kernelVars, threadVars, told, faults>>

(* Before there is a thread.  The copy of the arguments is lost.           *)
CreateFails ==
  /\ initialized /\ Fault
  /\ ret' \in {"E_FAILED_TO_ALLOCATE_ARGS", "E_FAILED_TO_INIT_THREAD_ATR",
               "E_FAILED_TO_SET_SCHED_POL", "E_FAILED_TO_SET_PRIORITY",
               "E_FAILED_TO_SET_SCHED_INH", "E_FAILED_TO_CREATE_THREAD"}
  /\ joined' = NoId
  /\ UNCHANGED <<kernelVars, threadVars, told>>

Start(t, p, hasArgs) ==
  /\ initialized /\ state[t] = "free" /\ ValidPriority(p)
  /\ state' = [state EXCEPT ![t] = "running"]
  /\ priority' = [priority EXCEPT ![t] = p]
  /\ args' = [args EXCEPT ![t] = IF hasArgs THEN "live" ELSE "none"]
  /\ joined' = NoId
  /\ UNCHANGED kernelVars

Create(t, p, hasArgs) ==
  /\ Start(t, p, hasArgs)
  /\ mThreadList' = <<t>> \o mThreadList
  /\ ret' = "E_SUCCESS"
  /\ told' = [told EXCEPT ![t] = TRUE]
  /\ UNCHANGED faults

(* The core cannot be set, or the list's record not be allocated: the      *)
(* thread runs, but is not in the list.                                    *)
CreateUnlisted(t, p, hasArgs) ==
  /\ Start(t, p, hasArgs)
  /\ Fault
  /\ ret' \in {"E_FAILED_TO_SET_AFFINITY", "E_FAILED_TO_ALLOCATE_THREAD"}
  /\ told' = [told EXCEPT ![t] = FALSE]
  /\ UNCHANGED mThreadList

Finish(t) ==
  /\ state[t] = "running"
  /\ state' = [state EXCEPT ![t] = "finished"]
  /\ UNCHANGED <<kernelVars, priority, args, mThreadList, ret, joined, told, faults>>

-----------------------------------------------------------------------------
(* waitForThread, for a thread that was created and not waited for; other  *)
(* identifiers have undefined behavior.                                    *)

(* A mistake: the first record of the list is taken for the thread's. *)
BugWait(t) ==
  /\ state[t] = "finished"
  /\ state' = [state EXCEPT ![t] = "free"]
  /\ IF mThreadList # <<>>
     THEN /\ mThreadList' = Tail(mThreadList)
          /\ args' = [args EXCEPT ![Head(mThreadList)] =
                        IF @ = "live" THEN "freed" ELSE @]
     ELSE UNCHANGED <<args, mThreadList>>
  /\ joined' = t
  /\ ret' = IF mThreadList = <<>> THEN "E_THREAD_NOT_FOUND" ELSE "E_SUCCESS"
  /\ UNCHANGED <<kernelVars, priority, told, faults>>

(* The first record of the thread leaves the list.                         *)
Unlist(t) ==
  \E k \in 1 .. Len(mThreadList) :
    /\ mThreadList[k] = t /\ \A j \in 1 .. k - 1 : mThreadList[j] # t
    /\ mThreadList' = RemoveAt(mThreadList, k)

(* foundInList is set when the list is not empty, whether or not the       *)
(* thread is in it: E_SUCCESS does not mean that it was found.             *)
Wait(t) ==
  /\ state[t] = "finished"
  /\ state' = [state EXCEPT ![t] = "free"]
  /\ IF Listed(t)
     THEN /\ Unlist(t)
          /\ args' = [args EXCEPT ![t] = IF @ = "live" THEN "freed" ELSE @]
     ELSE UNCHANGED <<args, mThreadList>>
  /\ joined' = t
  /\ ret' = IF mThreadList = <<>> THEN "E_THREAD_NOT_FOUND" ELSE "E_SUCCESS"
  /\ UNCHANGED <<kernelVars, priority, told, faults>>

WaitFails(t) ==
  /\ state[t] # "free" /\ Fault
  /\ ret' = "E_FAILED_TO_WAIT_ON_THREAD"
  /\ joined' = NoId
  /\ UNCHANGED <<kernelVars, threadVars, told>>

Next ==
  \/ GetInstance \/ GetInstanceFails
  \/ CreateInvalid
  \/ CreateFails
  \/ \E t \in Ids, p \in Priorities, hasArgs \in BOOLEAN :
       Create(t, p, hasArgs) \/ CreateUnlisted(t, p, hasArgs)
  \/ \E t \in Ids : Finish(t) \/ Wait(t) \/ WaitFails(t)

Spec == Init /\ [][Next]_vars

-----------------------------------------------------------------------------
(* A thread only runs once the whole environment is set, also if it took   *)
(* several attempts: below the thread that created it, which is below the  *)
(* interrupt threads that serve timers and network, and above the RCU.     *)
ThreadsRunBelowTheKernel ==
  \A t \in Ids : state[t] # "free" =>
    /\ RCU_PRIORITY < priority[t] /\ priority[t] < initPriority
    /\ \A j \in 1 .. 4 : initPriority < irqPriority[j]
                         /\ irqPriority[j] < HW_IRQ_PRIORITY

(* The arguments of a thread are there as long as it runs, and freed when  *)
(* it was waited for, unless createThread reported that there is no such   *)
(* thread; the list names no thread twice and none that is gone, whichever *)
(* identifiers are used again and whichever threads never came into it.    *)
ArgumentsFollowThreads ==
  /\ \A t \in Ids : /\ state[t] = "running" => args[t] # "freed"
                    /\ state[t] = "free" /\ told[t] => args[t] # "live"
  /\ IsInjective(mThreadList)
  /\ \A k \in 1 .. Len(mThreadList) : state[mThreadList[k]] # "free"
=============================================================================
