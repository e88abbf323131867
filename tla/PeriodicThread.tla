--------------------------- MODULE PeriodicThread ---------------------------
(***************************************************************************)
(* The thread that runs a function once per period (createPeriodicThread,  *)
(* periodicWrapperFunc), with the error handler of the Control Node and    *)
(* its main thread, which waits for it.  The timer counts its expirations  *)
(* until they are read.  After a run, a read that does not block finds the *)
(* expirations that came during it, which are a missed deadline; a second  *)
(* read blocks for the expiration with which the next run starts.          *)
(***************************************************************************)
EXTENDS Naturals

CONSTANTS
  PeriodMs,         \* the period, a uint32_t of milliseconds
  MaxExpirations,   \* bound: expirations of the timer between two checks
  MaxMissCount,     \* the maximum of DV_ELEM_CN_LOOP_DEADLINE_MISS_COUNT
  MaxErrorCount,    \* the maximum of DV_ELEM_CN_ERROR_COUNT
  MaxFaults         \* bound: system calls and runs that fail

ASSUME PeriodicThreadAssumption ==
  /\ PeriodMs \in Nat
  /\ MaxExpirations \in Nat
  /\ MaxMissCount \in Nat \ {0}
  /\ MaxErrorCount \in Nat
  /\ MaxFaults \in Nat

VARIABLES
  pc,           \* the step of periodicWrapperFunc that comes next
  unread,       \* expirations of the timer that have not been read
  ticks,        \* ticksSinceLastRead
  missCount,    \* DV_ELEM_CN_LOOP_DEADLINE_MISS_COUNT
  errorCount,   \* DV_ELEM_CN_ERROR_COUNT, as far as the handler counts it
  threadRet,    \* what the thread returned
  process,      \* "up" or "exited"
  faults,
  sinceCheck,   \* history: expirations since the last read that does not block
  misses,       \* history: runs during which the timer expired, up to MaxMisses
  lastWait      \* history: what became of the last wait, "read" or "failed"

history == <<sinceCheck, misses, lastWait>>
counts == <<missCount, errorCount>>
vars == <<pc, unread, ticks, counts, threadRet, process, faults, history>>

Place == {"create", "run", "setNonBlocking", "check", "setBlocking", "wait",
          "ended"}

Error_t == {"E_SUCCESS", "E_FAILED_TO_CREATE_TIMERFD",
            "E_FAILED_TO_ARM_TIMERFD", "E_FAILED_TO_GET_TIMER_FLAGS",
            "E_FAILED_TO_SET_TIMER_FLAGS", "E_FAILED_TO_READ_TIMERFD",
            "E_TIMER_EXPIRED_MORE_THAN_ONCE", "error of the function"}

(* createPeriodicThread puts the period in front of the arguments, byte by *)
(* byte, and the wrapper takes it from there as a little endian uint32_t.  *)
ArgsBuffer == [k \in 0 .. 3 |-> (PeriodMs \div 256 ^ k) % 256]
periodMs == ArgsBuffer[0] + 256 * (ArgsBuffer[1] + 256 * (ArgsBuffer[2]
              + 256 * ArgsBuffer[3]))

(* struct itimerspec: a timer that is set to zero seconds and nanoseconds  *)
(* is disarmed.                                                            *)
Seconds == periodMs \div 1000
Nanoseconds == (periodMs - Seconds * 1000) * 1000000
Armed == Seconds # 0 \/ Nanoseconds # 0

Init ==
  /\ pc = "create"
  /\ unread = 0 /\ ticks = 0
  /\ missCount = 0 /\ errorCount = 0
  /\ threadRet = "E_SUCCESS"
  /\ process = "up"
  /\ faults = 0
  /\ sinceCheck = 0 /\ misses = 0 /\ lastWait = "read"

MaxMisses == MaxMissCount + MaxErrorCount

Fault == faults < MaxFaults /\ faults' = faults + 1

End(error) == pc' = "ended" /\ threadRet' = error

-----------------------------------------------------------------------------

(* The timer exists from the second step of create on.                     *)
Expire ==
  /\ pc \notin {"create", "ended"}
  /\ Armed
  /\ sinceCheck < MaxExpirations
  /\ unread' = unread + 1
  /\ sinceCheck' = sinceCheck + 1
  /\ UNCHANGED <<pc, ticks, counts, threadRet, process, faults, misses, lastWait>>

CreateTimer ==
  /\ pc = "create"
  /\ pc' = "run"
  /\ UNCHANGED <<unread, ticks, counts, threadRet, process, faults, history>>

CreateTimerFails ==
  /\ pc = "create" /\ Fault
  /\ \E e \in {"E_FAILED_TO_CREATE_TIMERFD", "E_FAILED_TO_ARM_TIMERFD"} : End(e)
  /\ UNCHANGED <<unread, ticks, counts, process, history>>

(* 3a) *)
Run ==
  /\ pc = "run"
  /\ pc' = "setNonBlocking"
  /\ UNCHANGED <<unread, ticks, counts, threadRet, process, faults, history>>

(* 3a) periodicErrorHandler returns every error but a missed deadline.     *)
RunFails ==
  /\ pc = "run" /\ Fault
  /\ End("error of the function")
  /\ UNCHANGED <<unread, ticks, counts, process, history>>

(* 3b), 3d) *)
SetNonBlocking ==
  /\ pc = "setNonBlocking"
  /\ pc' = "check"
  /\ UNCHANGED <<unread, ticks, counts, threadRet, process, faults, history>>

SetBlocking ==
  /\ pc = "setBlocking"
  /\ pc' = "wait"
  /\ UNCHANGED <<unread, ticks, counts, threadRet, process, faults, history>>

FcntlFails ==
  /\ Fault
  /\ \/ /\ pc = "setNonBlocking"
        /\ \E e \in {"E_FAILED_TO_GET_TIMER_FLAGS", "E_FAILED_TO_SET_TIMER_FLAGS"} :
             End(e)
     \/ /\ pc = "setBlocking"
        /\ End("E_FAILED_TO_SET_TIMER_FLAGS")
  /\ UNCHANGED <<unread, ticks, counts, process, history>>

UpTo(n, max) == IF n < max THEN n ELSE max

(* A mistake: an increment that fails is not an error of the node.         *)
BugCountMiss ==
  missCount' = UpTo(missCount + 1, MaxMissCount) /\ UNCHANGED errorCount

(* periodicErrorHandler (E_MISSED_SCHEDULER_DEADLINE): one miss, however   *)
(* many periods it lasted; increment fails at the maximum, which is an     *)
(* error of the node, and is ignored when those cannot be counted either.  *)
CountMiss ==
  IF missCount < MaxMissCount
  THEN missCount' = missCount + 1 /\ UNCHANGED errorCount
  ELSE errorCount' = UpTo(errorCount + 1, MaxErrorCount) /\ UNCHANGED missCount

(* A mistake: the expirations of a missed deadline are left in the timer.  *)
BugCheck ==
  /\ pc = "check"
  /\ ticks' = 0
  /\ IF unread > 0 THEN CountMiss /\ misses' = UpTo(misses + 1, MaxMisses)
                   ELSE UNCHANGED <<counts, misses>>
  /\ pc' = "setBlocking"
  /\ sinceCheck' = 0
  /\ UNCHANGED <<unread, threadRet, process, faults, lastWait>>

(* 3c) Nothing to read is EAGAIN, and ticksSinceLastRead stays 0.          *)
Check ==
  /\ pc = "check"
  /\ ticks' = unread /\ unread' = 0
  /\ IF unread > 0 THEN CountMiss /\ misses' = UpTo(misses + 1, MaxMisses)
                   ELSE UNCHANGED <<counts, misses>>
  /\ pc' = "setBlocking"
  /\ sinceCheck' = 0
  /\ UNCHANGED <<threadRet, process, faults, lastWait>>

CheckFails ==
  /\ pc = "check" /\ Fault
  /\ End("E_FAILED_TO_READ_TIMERFD")
  /\ UNCHANGED <<unread, ticks, counts, process, history>>

(* A mistake: one expiration is already too many. *)
BugGoOn(t) ==
  IF t > 0 THEN End("E_TIMER_EXPIRED_MORE_THAN_ONCE")
           ELSE pc' = "run" /\ UNCHANGED threadRet

(* 3e) *)
GoOn(t) ==
  IF t > 1 THEN End("E_TIMER_EXPIRED_MORE_THAN_ONCE")
           ELSE pc' = "run" /\ UNCHANGED threadRet

Wait ==
  /\ pc = "wait" /\ unread > 0
  /\ ticks' = unread /\ unread' = 0
  /\ GoOn(unread)
  /\ lastWait' = "read"
  /\ UNCHANGED <<counts, process, faults, sinceCheck, misses>>

(* The result of this read is not looked at, and ticksSinceLastRead is     *)
(* still that of the check.                                                *)
WaitFails ==
  /\ pc = "wait" /\ Fault
  /\ GoOn(ticks)
  /\ lastWait' = "failed"
  /\ UNCHANGED <<unread, ticks, counts, process, sinceCheck, misses>>

(* waitForThread returns, and whether or not the thread's error is         *)
(* E_SUCCESS, the main thread ends the process.                            *)
MainExits ==
  /\ pc = "ended"
  /\ process' = "exited"
  /\ UNCHANGED <<pc, unread, ticks, counts, threadRet, faults, history>>

(* createPeriodicThread or waitForThread fails, which ends the process,    *)
(* too.                                                                    *)
MainFails ==
  /\ Fault
  /\ process' = "exited"
  /\ UNCHANGED <<pc, unread, ticks, counts, threadRet, history>>

ThreadStep ==
  \/ CreateTimer \/ Run \/ SetNonBlocking \/ Check \/ SetBlocking \/ Wait

ThreadFault ==
  \/ CreateTimerFails \/ RunFails \/ FcntlFails \/ CheckFails \/ WaitFails

Next ==
  /\ process = "up"
  /\ Expire \/ ThreadStep \/ ThreadFault \/ MainExits \/ MainFails

Spec == Init /\ [][Next]_vars

-----------------------------------------------------------------------------
TypeOK ==
  /\ pc \in Place
  /\ unread \in 0 .. MaxExpirations
  /\ ticks \in 0 .. MaxExpirations
  /\ missCount \in 0 .. MaxMissCount
  /\ errorCount \in 0 .. MaxErrorCount
  /\ threadRet \in Error_t
  /\ process \in {"up", "exited"}
  /\ faults \in 0 .. MaxFaults
  /\ sinceCheck \in 0 .. MaxExpirations
  /\ misses \in 0 .. MaxMisses
  /\ lastWait \in {"read", "failed"}

(* A run is started by exactly one expiration, which came after the check  *)
(* of the run before: expirations that were a missed deadline start no     *)
(* run, and none is passed over.  The exception is a wait that failed.     *)
StartsOnItsExpiration ==
  [][pc # "create" /\ pc' = "run" /\ pc # "run"
       => lastWait' = "failed" \/ (sinceCheck = 1 /\ unread' = 0)]_vars

(* Every missed deadline is counted once, as a miss or, with the counter   *)
(* at its maximum, as an error.                                            *)
MissesAreCounted == missCount + errorCount = misses

(* A thread ends for want of time only when two periods passed between its *)
(* check and its wait, or after a failed wait that followed a miss of two. *)
EndsForGoodReason ==
  threadRet = "E_TIMER_EXPIRED_MORE_THAN_ONCE" =>
    IF lastWait = "failed" THEN misses > 0 /\ ticks > 1 ELSE sinceCheck > 1
=============================================================================
