-------------------------- MODULE SharedDataVector --------------------------
(***************************************************************************)
(* The Data Vector between the threads of a node: read, write, increment   *)
(* and the copies of regions and of the whole, as threads that are         *)
(* preempted between any two bytes execute them.  One mutex, of the type   *)
(* PTHREAD_MUTEX_ERRORCHECK, is meant to make each of them atomic.         *)
(***************************************************************************)
EXTENDS DvCalls

CONSTANTS
  Threads,
  NoThread

ASSUME ThreadAssumption == NoThread \notin Threads

VARIABLES
  mBuffer,
  mLock,    \* the owner of the mutex
  pc,       \* of each thread: its place in the call
  call,     \* the call
  left,     \* the bytes that are still to be copied
  local,    \* the variable or buffer of the caller or of increment
  ret

vars == <<mBuffer, mLock, pc, call, left, local, ret>>

Place == {"idle", "check", "lock", "verify", "copyOut", "max", "copyIn",
          "unlock", "return"}

Error_t == {"none", "E_SUCCESS", "E_INVALID_ELEM", "E_INVALID_REGION",
            "E_INVALID_TYPE", "E_INCORRECT_TYPE", "E_INCORRECT_SIZE",
            "E_ALREADY_MAX", "E_FAILED_TO_LOCK", "E_FAILED_TO_UNLOCK"}

Init ==
  /\ mBuffer \in Contents
  /\ mLock = NoThread
  /\ pc = [t \in Threads |-> "idle"]
  /\ call = [t \in Threads |-> CHOOSE c \in Calls : TRUE]
  /\ left = [t \in Threads |-> {}]
  /\ local = [t \in Threads |-> Blank]
  /\ ret = [t \in Threads |-> "none"]

Goto(t, place) == pc' = [pc EXCEPT ![t] = place]

-----------------------------------------------------------------------------

Invoke(t, c) ==
  /\ pc[t] = "idle"
  /\ Goto(t, IF ChecksFirst(c) THEN "check" ELSE "lock")
  /\ call' = [call EXCEPT ![t] = c]
  /\ local' = [local EXCEPT ![t] = IF c.op = "write" THEN c.data ELSE Blank]
  /\ UNCHANGED <<mBuffer, mLock, left, ret>>

(* The first checks of increment, readRegion, writeRegion, readDataVector  *)
(* and writeDataVector, which return before they lock.                     *)
CheckArguments(t) ==
  /\ pc[t] = "check"
  /\ IF Accepted(call[t])
     THEN Goto(t, "lock") /\ UNCHANGED ret
     ELSE Goto(t, "return") /\ ret' = [ret EXCEPT ![t] = Verdict(call[t])]
  /\ UNCHANGED <<mBuffer, mLock, call, left, local>>

(* Where a call goes on, with the bytes it is about.                       *)
Begin(t) ==
  /\ Goto(t, IF call[t].op = "write" THEN "copyIn" ELSE "copyOut")
  /\ left' = [left EXCEPT ![t] = At[call[t].on]]

(* pthread_mutex_lock: blocks while another thread owns the mutex, and     *)
(* fails for the owner itself.                                             *)
AcquireLock(t) ==
  /\ pc[t] = "lock"
  /\ mLock \in {NoThread, t}
  /\ mLock' = t
  /\ IF mLock = t
     THEN /\ Goto(t, "return")
          /\ ret' = [ret EXCEPT ![t] = "E_FAILED_TO_LOCK"]
          /\ UNCHANGED left
     ELSE IF ChecksFirst(call[t])
          THEN Begin(t) /\ UNCHANGED ret
          ELSE Goto(t, "verify") /\ UNCHANGED <<left, ret>>
  /\ UNCHANGED <<mBuffer, call, local>>

VerifyElement(t) ==
  /\ pc[t] = "verify"
  /\ IF Accepted(call[t])
     THEN Begin(t) /\ UNCHANGED ret
     ELSE /\ Goto(t, "unlock")
          /\ ret' = [ret EXCEPT ![t] = Verdict(call[t])]
          /\ UNCHANGED left
  /\ UNCHANGED <<mBuffer, mLock, call, local>>

CopyOut(t) ==
  /\ pc[t] = "copyOut"
  /\ \E b \in left[t] :
       /\ local' = [local EXCEPT ![t][b] = mBuffer[b]]
       /\ left' = [left EXCEPT ![t] = @ \ {b}]
  /\ UNCHANGED <<mBuffer, mLock, pc, call, ret>>

CopyOutEnds(t) ==
  /\ pc[t] = "copyOut" /\ left[t] = {}
  /\ IF call[t].op = "increment"
     THEN Goto(t, "max") /\ UNCHANGED ret
     ELSE Goto(t, "unlock") /\ ret' = [ret EXCEPT ![t] = "E_SUCCESS"]
  /\ UNCHANGED <<mBuffer, mLock, call, left, local>>

(* A mistake: the early return leaves the mutex locked.                    *)
BugAlreadyMax(t) ==
  /\ pc[t] = "max" /\ IsMax(local[t], call[t].on)
  /\ Goto(t, "return")
  /\ ret' = [ret EXCEPT ![t] = "E_ALREADY_MAX"]
  /\ UNCHANGED <<mBuffer, mLock, call, left, local>>

AlreadyMax(t) ==
  /\ pc[t] = "max" /\ IsMax(local[t], call[t].on)
  /\ Goto(t, "unlock")
  /\ ret' = [ret EXCEPT ![t] = "E_ALREADY_MAX"]
  /\ UNCHANGED <<mBuffer, mLock, call, left, local>>

(* A mistake: the mutex is only held to read the element.                  *)
BugIncrement(t) ==
  /\ pc[t] = "max" /\ ~IsMax(local[t], call[t].on)
  /\ local' = [local EXCEPT ![t] = PlusOne(local[t], call[t].on)]
  /\ Goto(t, "copyIn")
  /\ left' = [left EXCEPT ![t] = At[call[t].on]]
  /\ mLock' = NoThread
  /\ UNCHANGED <<mBuffer, call, ret>>

Increment(t) ==
  /\ pc[t] = "max" /\ ~IsMax(local[t], call[t].on)
  /\ local' = [local EXCEPT ![t] = PlusOne(local[t], call[t].on)]
  /\ Goto(t, "copyIn")
  /\ left' = [left EXCEPT ![t] = At[call[t].on]]
  /\ UNCHANGED <<mBuffer, mLock, call, ret>>

CopyIn(t) ==
  /\ pc[t] = "copyIn"
  /\ \E b \in left[t] :
       /\ mBuffer' = [mBuffer EXCEPT ![b] = local[t][b]]
       /\ left' = [left EXCEPT ![t] = @ \ {b}]
  /\ UNCHANGED <<mLock, pc, call, local, ret>>

CopyInEnds(t) ==
  /\ pc[t] = "copyIn" /\ left[t] = {}
  /\ Goto(t, "unlock")
  /\ ret' = [ret EXCEPT ![t] = "E_SUCCESS"]
  /\ UNCHANGED <<mBuffer, mLock, call, left, local>>

(* pthread_mutex_unlock fails if the thread is not the owner.              *)
ReleaseLock(t) ==
  /\ pc[t] = "unlock"
  /\ Goto(t, "return")
  /\ IF mLock = t
     THEN mLock' = NoThread /\ UNCHANGED ret
     ELSE UNCHANGED mLock /\ ret' = [ret EXCEPT ![t] = "E_FAILED_TO_UNLOCK"]
  /\ UNCHANGED <<mBuffer, call, left, local>>

(* The caller takes the result; what the call kept on its stack is gone.   *)
Return(t) ==
  /\ pc[t] = "return"
  /\ Goto(t, "idle")
  /\ local' = [local EXCEPT ![t] = Blank]
  /\ ret' = [ret EXCEPT ![t] = "none"]
  /\ UNCHANGED <<mBuffer, mLock, call, left>>

(* What a thread does inside of a call.                                    *)
Body(t) ==
  \/ CheckArguments(t) \/ VerifyElement(t)
  \/ CopyOut(t) \/ CopyOutEnds(t)
  \/ AlreadyMax(t) \/ Increment(t)
  \/ CopyIn(t) \/ CopyInEnds(t)
  \/ ReleaseLock(t)

Next ==
  \E t \in Threads :
    \/ \E c \in Calls : Invoke(t, c)
    \/ AcquireLock(t)
    \/ Body(t)
    \/ Return(t)

Spec == Init /\ [][Next]_vars

-----------------------------------------------------------------------------
TypeOK ==
  /\ mBuffer \in Contents
  /\ mLock \in Threads \cup {NoThread}
  /\ pc \in [Threads -> Place]
  /\ call \in [Threads -> Calls]
  /\ left \in [Threads -> SUBSET Bytes]
  /\ local \in [Threads -> Contents]
  /\ ret \in [Threads -> Error_t]

Critical == {"verify", "copyOut", "max", "copyIn", "unlock"}

(* A call takes effect when it gets the mutex: the bytes as others will    *)
(* find them, once the owner of the mutex has done what it began.          *)
Memory ==
  IF mLock = NoThread \/ pc[mLock] \in {"unlock", "return"} THEN mBuffer
  ELSE IF pc[mLock] = "copyIn"
       THEN Overlay(mBuffer, local[mLock], left[mLock])
       ELSE After(mBuffer, call[mLock])

Phase(t) ==
  CASE pc[t] = "idle" -> "idle"
    [] pc[t] \in {"check", "lock"} -> "called"
    [] pc[t] \in Critical \cup {"return"} -> "done"

Answer(t) ==
  CASE pc[t] \in {"idle", "check", "lock"} -> [ret |-> "none", data |-> Blank]
    [] pc[t] \in {"verify", "copyOut", "max"} ->
         [ret |-> ReturnOf(mBuffer, call[t]), data |-> DataOf(mBuffer, call[t])]
    [] pc[t] = "copyIn" -> [ret |-> "E_SUCCESS", data |-> Blank]
    [] pc[t] \in {"unlock", "return"} ->
         [ret |-> ret[t],
          data |-> IF ret[t] = "E_SUCCESS" /\ call[t].op = "read"
                   THEN local[t] ELSE Blank]

Atomic == INSTANCE AtomicDataVector WITH
  mem <- Memory,
  phase <- [t \in Threads |-> Phase(t)],
  req <- call,
  answer <- [t \in Threads |-> Answer(t)]

(* Every call of the Data Vector happens at once: no increment is lost, no *)
(* copy of a region is torn, and every path gives the lock back.           *)
CallsAreAtomic == Atomic!Spec
=============================================================================
