------------------------ MODULE PeriodicThreadProofs ------------------------
(***************************************************************************)
(* Proofs about PeriodicThread: the expirations of the timer are accounted *)
(* for, whatever their number, the maxima of the counters and the period.  *)
(* Then about NodeThreads: a process with its main thread implements both  *)
(* PeriodicThread and ThreadManager, and the list of the Thread Manager is *)
(* in step with the threads, whatever their number and whatever fails.     *)
(***************************************************************************)
EXTENDS NodeThreads, SequenceTheorems, TLAPS

USE DEF vars, counts, history

(* A thread that returned has ended.                                       *)
Returned == threadRet # "E_SUCCESS" => pc = "ended"

(* After the check nothing has been read from the timer until the wait.    *)
Unread == pc \in {"setBlocking", "wait"} => unread = sinceCheck

(* What the check read was counted before it can end the thread.           *)
Counted == pc \in {"setBlocking", "wait"} /\ ticks > 1 => misses > 0

IInv ==
  /\ TypeOK
  /\ unread <= sinceCheck
  /\ Returned
  /\ Unread
  /\ Counted
  /\ MissesAreCounted
  /\ EndsForGoodReason

-----------------------------------------------------------------------------

LEMMA InitInvariant == Init => IInv
  BY PeriodicThreadAssumption
     DEF Init, IInv, TypeOK, Place, Error_t, MaxMisses, Returned, Unread,
         Counted, MissesAreCounted, EndsForGoodReason

(* One miss more changes the counters, and what was missed, by the same    *)
(* number: none once all of them are at their maxima.                      *)
LEMMA CountMissCounts ==
  ASSUME missCount \in 0 .. MaxMissCount, errorCount \in 0 .. MaxErrorCount,
         misses = missCount + errorCount,
         CountMiss, misses' = UpTo(misses + 1, MaxMisses)
  PROVE  /\ missCount' \in 0 .. MaxMissCount
         /\ errorCount' \in 0 .. MaxErrorCount
         /\ misses' \in 0 .. MaxMisses
         /\ missCount' + errorCount' = misses'
         /\ misses' >= misses
         /\ MaxMisses > 0 => misses' > 0
  BY PeriodicThreadAssumption DEF CountMiss, UpTo, MaxMisses

(* A fault is counted within its bound.                                    *)
LEMMA FaultCounts ==
  ASSUME faults \in 0 .. MaxFaults, Fault
  PROVE  faults' \in 0 .. MaxFaults
  BY PeriodicThreadAssumption DEF Fault

(* What holds of a thread that has not returned survives its end with an   *)
(* error that is not about its time.                                       *)
LEMMA EndKeepsInvariant ==
  ASSUME IInv, NEW e \in Error_t \ {"E_SUCCESS", "E_TIMER_EXPIRED_MORE_THAN_ONCE"},
         Fault, End(e), UNCHANGED <<unread, ticks, counts, process, history>>
  PROVE  IInv'
<1>1. TypeOK'
  BY FaultCounts DEF IInv, TypeOK, End, Place, MaxMisses
<1>2. /\ pc' = "ended"
      /\ threadRet' # "E_TIMER_EXPIRED_MORE_THAN_ONCE"
      /\ unread' <= sinceCheck'
      /\ MissesAreCounted'
  BY DEF IInv, End, MissesAreCounted
<1>3. QED
  BY <1>1, <1>2 DEF IInv, Returned, Unread, Counted, EndsForGoodReason

(* After its wait the thread goes on, or ends because of its time, which   *)
(* is what the counts then say.                                            *)
LEMMA GoOnKeepsInvariant ==
  ASSUME IInv, pc = "wait", NEW t \in Nat, GoOn(t),
         unread' \in {0, unread}, ticks' \in 0 .. MaxExpirations,
         faults' \in 0 .. MaxFaults, lastWait' \in {"read", "failed"},
         UNCHANGED <<counts, process, sinceCheck, misses>>,
         t > 1 => IF lastWait' = "failed" THEN misses > 0 /\ ticks' > 1
                                          ELSE sinceCheck > 1
  PROVE  IInv'
<1>1. pc' \in {"ended", "run"}
  BY DEF GoOn, End
<1>2. threadRet = "E_SUCCESS"
  BY DEF IInv, Returned
<1>3. \/ t > 1 /\ pc' = "ended" /\ threadRet' = "E_TIMER_EXPIRED_MORE_THAN_ONCE"
      \/ ~(t > 1) /\ pc' = "run" /\ threadRet' = "E_SUCCESS"
  <2>1. CASE t > 1
    BY <2>1 DEF GoOn, End
  <2>2. CASE ~(t > 1)
    BY <2>2, <1>2 DEF GoOn
  <2>3. QED
    BY <2>1, <2>2
<1>4. TypeOK'
  <2>1. pc' \in Place /\ threadRet' \in Error_t
    BY <1>1, <1>3 DEF Place, Error_t
  <2>2. unread' \in 0 .. MaxExpirations
    BY PeriodicThreadAssumption DEF IInv, TypeOK
  <2>3. QED
    BY <2>1, <2>2 DEF IInv, TypeOK, MaxMisses
<1>5. unread' <= sinceCheck' /\ MissesAreCounted' /\ Returned'
  BY <1>3, PeriodicThreadAssumption
     DEF IInv, TypeOK, MissesAreCounted, Returned
<1>6. Unread' /\ Counted'
  BY <1>1 DEF Unread, Counted
<1>7. EndsForGoodReason'
  BY <1>3 DEF EndsForGoodReason
<1>8. QED
  BY <1>4, <1>5, <1>6, <1>7 DEF IInv

LEMMA StepInvariant == IInv /\ [Next]_vars => IInv'
<1> SUFFICES ASSUME IInv, [Next]_vars PROVE IInv'
  OBVIOUS
<1> USE PeriodicThreadAssumption
<1>1. CASE Expire
  BY <1>1 DEF IInv, TypeOK, Expire, Place, Returned, Unread, Counted,
              MissesAreCounted, MaxMisses, EndsForGoodReason
<1>2. CASE CreateTimer \/ Run \/ SetNonBlocking \/ SetBlocking
  BY <1>2 DEF IInv, TypeOK, CreateTimer, Run, SetNonBlocking, SetBlocking,
              Place, Returned, Unread, Counted, MissesAreCounted, MaxMisses,
              EndsForGoodReason
<1>3. CASE CreateTimerFails \/ RunFails \/ FcntlFails \/ CheckFails
  <2>1. PICK e \in Error_t \ {"E_SUCCESS", "E_TIMER_EXPIRED_MORE_THAN_ONCE"} :
          Fault /\ End(e)
    BY <1>3 DEF CreateTimerFails, RunFails, FcntlFails, CheckFails, Error_t
  <2>2. UNCHANGED <<unread, ticks, counts, process, history>>
    BY <1>3 DEF CreateTimerFails, RunFails, FcntlFails, CheckFails
  <2>3. QED
    BY <2>1, <2>2, EndKeepsInvariant
<1>4. CASE Check
  <2>1. CASE unread > 0
    <3>1. /\ missCount' \in 0 .. MaxMissCount
          /\ errorCount' \in 0 .. MaxErrorCount
          /\ misses' \in 0 .. MaxMisses
          /\ missCount' + errorCount' = misses'
          /\ MaxMisses > 0 => misses' > 0
      BY <1>4, <2>1, CountMissCounts DEF IInv, TypeOK, Check, MissesAreCounted
    <3>2. QED
      BY <1>4, <2>1, <3>1 DEF IInv, TypeOK, Check, Place, Returned, Unread,
         Counted, MissesAreCounted, MaxMisses, EndsForGoodReason
  <2>2. CASE ~(unread > 0)
    BY <1>4, <2>2 DEF IInv, TypeOK, Check, Place, Returned, Unread, Counted,
       MissesAreCounted, MaxMisses, EndsForGoodReason
  <2>3. QED
    BY <2>1, <2>2
<1>5. CASE Wait
  <2>1. /\ pc = "wait" /\ unread \in Nat /\ GoOn(unread)
        /\ unread' = 0 /\ ticks' \in 0 .. MaxExpirations
        /\ faults' \in 0 .. MaxFaults /\ lastWait' = "read"
        /\ UNCHANGED <<counts, process, sinceCheck, misses>>
    BY <1>5 DEF Wait, IInv, TypeOK
  <2>2. unread > 1 => sinceCheck > 1
    BY <2>1 DEF IInv, Unread
  <2>3. QED
    BY <2>1, <2>2, GoOnKeepsInvariant
<1>6. CASE WaitFails
  <2>1. /\ pc = "wait" /\ ticks \in Nat /\ GoOn(ticks)
        /\ unread' = unread /\ ticks' = ticks
        /\ ticks' \in 0 .. MaxExpirations /\ lastWait' = "failed"
        /\ UNCHANGED <<counts, process, sinceCheck, misses>>
    BY <1>6 DEF WaitFails, IInv, TypeOK
  <2>2. faults' \in 0 .. MaxFaults
    BY <1>6, FaultCounts DEF WaitFails, IInv, TypeOK
  <2>3. ticks > 1 => misses > 0 /\ ticks' > 1
    BY <2>1 DEF IInv, Counted
  <2>4. QED
    BY <2>1, <2>2, <2>3, GoOnKeepsInvariant
<1>7. CASE MainExits \/ MainFails
  <2>1. /\ UNCHANGED <<pc, unread, ticks, counts, threadRet, history>>
        /\ process' = "exited"
    BY <1>7 DEF MainExits, MainFails
  <2>2. faults' \in 0 .. MaxFaults
    BY <1>7, FaultCounts DEF MainExits, MainFails, IInv, TypeOK
  <2>3. TypeOK'
    BY <2>1, <2>2 DEF IInv, TypeOK, MaxMisses
  <2>4. QED
    BY <2>1, <2>3 DEF IInv, Returned, Unread, Counted, MissesAreCounted,
                      EndsForGoodReason
<1>8. CASE UNCHANGED vars
  BY <1>8 DEF IInv, TypeOK, Returned, Unread, Counted, MissesAreCounted,
              MaxMisses, EndsForGoodReason
<1>9. QED
  BY <1>1, <1>2, <1>3, <1>4, <1>5, <1>6, <1>7, <1>8
     DEF Next, ThreadStep, ThreadFault

(* A step that starts a run of the function, other than the first, is a    *)
(* wait that read exactly one expiration, or one that failed.              *)
LEMMA StartIsAnExpiration ==
  ASSUME IInv, Next, pc # "create", pc' = "run", pc # "run"
  PROVE  lastWait' = "failed" \/ (sinceCheck = 1 /\ unread' = 0)
<1>1. CASE Wait
  <2>1. pc = "wait" /\ unread > 0 /\ unread' = 0 /\ ~(unread > 1)
    BY <1>1 DEF Wait, GoOn, End
  <2>2. unread = sinceCheck
    BY <2>1 DEF IInv, Unread
  <2>3. QED
    BY <2>1, <2>2 DEF IInv, TypeOK
<1>2. CASE WaitFails
  BY <1>2 DEF WaitFails
<1>3. CASE Next /\ ~Wait /\ ~WaitFails
  BY <1>3 DEF Next, ThreadStep, ThreadFault, Expire, CreateTimer, Run,
     SetNonBlocking, SetBlocking, Check, CreateTimerFails, RunFails,
     FcntlFails, CheckFails, End, MainExits, MainFails
<1>4. QED
  BY <1>1, <1>2, <1>3

-----------------------------------------------------------------------------

LEMMA Invariance == Spec => []IInv
  BY InitInvariant, StepInvariant, PTL DEF Spec

(* Type correctness of the periodic thread, for every period and bound.    *)
THEOREM TypeCorrect == Spec => []TypeOK
  BY Invariance, PTL DEF IInv

(* periodicErrorHandler accounts for every missed deadline exactly once,   *)
(* whatever the maxima of the two counters of the Data Vector.             *)
THEOREM MissesCounted == Spec => []MissesAreCounted
  BY Invariance, PTL DEF IInv

(* periodicWrapperFunc ends a thread for want of time only when two        *)
(* periods had passed, or after a wait that failed.                        *)
THEOREM GoodReason == Spec => []EndsForGoodReason
  BY Invariance, PTL DEF IInv

(* Every run of the function is started by one expiration of its own.      *)
THEOREM OwnExpiration == Spec => StartsOnItsExpiration
<1>1. IInv /\ [Next]_vars =>
        [pc # "create" /\ pc' = "run" /\ pc # "run"
           => lastWait' = "failed" \/ (sinceCheck = 1 /\ unread' = 0)]_vars
  BY StartIsAnExpiration
<1>2. QED
  BY <1>1, Invariance, PTL DEF Spec, StartsOnItsExpiration

-----------------------------------------------------------------------------
(* The Thread Manager of a process.                                        *)

(* Both programs of the process go their way: a step of the process is one *)
(* of the periodic thread and one of the Thread Manager, or leaves it be.  *)
LEMMA NodeStepIsThreadStep == [NodeNext]_nodeVars => [Next]_vars
  <1> SUFFICES ASSUME NodeNext PROVE Next \/ UNCHANGED vars
    BY DEF nodeVars
  <1>1. CASE ManagerCall \/ StartLoop \/ OtherThread \/ WaitForLoop
    BY <1>1 DEF ManagerCall, StartLoop, OtherThread, WaitForLoop
  <1>2. CASE StartLoopFails \/ WaitForLoopFails
    BY <1>2 DEF StartLoopFails, WaitForLoopFails, Up, Next
  <1>3. CASE LoopExpire \/ LoopStep \/ LoopFault
    BY <1>3 DEF LoopExpire, LoopStep, LoopFault, LoopStarted, Up, Next
  <1>4. CASE Exit
    BY <1>4 DEF Exit, Up, Next
  <1> QED  BY <1>1, <1>2, <1>3, <1>4 DEF NodeNext

(* The process implements the periodic thread (periodicWrapperFunc).       *)
THEOREM NodeImplementsPeriodicThread == NodeSpec => Spec
  BY NodeStepIsThreadStep, PTL DEF NodeSpec, NodeInit, Spec

(* So its loop keeps its time as the thread alone does.                    *)
THEOREM LoopKeepsItsTime ==
  NodeSpec => /\ [](MissesAreCounted /\ EndsForGoodReason)
              /\ StartsOnItsExpiration
  BY NodeImplementsPeriodicThread, MissesCounted, GoodReason, OwnExpiration, PTL

LEMMA NodeStepIsManagerStep == [NodeNext]_nodeVars => [TM!Next]_(TM!vars)
  <1> USE NodeThreadsAssumption
         DEF managerVars, TM!vars, TM!kernelVars, TM!threadVars
  <1> SUFFICES ASSUME NodeNext PROVE TM!Next \/ UNCHANGED TM!vars
    BY DEF nodeVars
  <1>1. CASE ManagerCall
    BY <1>1 DEF ManagerCall, TM!Next
  <1>2. CASE StartLoop \/ StartLoopFails
    BY <1>2 DEF StartLoop, StartLoopFails, TM!Next
  <1>3. CASE OtherThread \/ LoopStep \/ LoopFault
    BY <1>3 DEF OtherThread, LoopStep, LoopFault, Ends, TM!Next
  <1>4. CASE WaitForLoop \/ WaitForLoopFails
    BY <1>4 DEF WaitForLoop, WaitForLoopFails, TM!Next
  <1>5. CASE LoopExpire \/ Exit
    BY <1>5 DEF LoopExpire, Exit
  <1> QED  BY <1>1, <1>2, <1>3, <1>4, <1>5 DEF NodeNext

(* The process implements the Thread Manager.                              *)
THEOREM NodeImplementsThreadManager == NodeSpec => TM!Spec
  BY NodeStepIsManagerStep, PTL DEF NodeSpec, NodeInit, TM!Spec

(* The state of the Thread Manager.                                        *)
ManagerTypeOK ==
  /\ initialized \in BOOLEAN
  /\ initPriority \in Nat
  /\ irqPriority \in [1 .. 4 -> Nat]
  /\ state \in [Ids -> {"free", "running", "finished"}]
  /\ priority \in [Ids -> Nat]
  /\ args \in [Ids -> {"none", "live", "freed"}]
  /\ mThreadList \in Seq(Ids)
  /\ told \in [Ids -> BOOLEAN]

(* The first getInstance that succeeds sets all priorities, those that fail*)
(* before it some of them; threads are only created after it.              *)
EnvironmentIsSet ==
  /\ initialized =>
       /\ initPriority = TM!FSW_INIT_THREAD_PRIORITY
       /\ \A j \in 1 .. 4 : irqPriority[j] = TM!SW_IRQ_PRIORITY
  /\ \A t \in Ids : state[t] # "free" =>
       initialized /\ TM!ValidPriority(priority[t])

(* A thread whose arguments are still there is in the list, unless its     *)
(* creation was reported as a failure.                                     *)
ToldThreadsAreListed ==
  \A t \in Ids :
    state[t] # "free" /\ told[t] /\ args[t] = "live" => TM!Listed(t)

ManagerInv ==
  /\ ManagerTypeOK
  /\ EnvironmentIsSet
  /\ ToldThreadsAreListed
  /\ ArgumentsFollowThreads

-----------------------------------------------------------------------------
(* The list: a thread is put in front of it, and a record taken out.       *)

LEMMA FrontKeepsInjective ==
  ASSUME NEW S, NEW s \in Seq(S), NEW t \in S, TM!IsInjective(s),
         \A k \in 1 .. Len(s) : s[k] # t
  PROVE  LET r == <<t>> \o s
         IN  /\ r \in Seq(S) /\ Len(r) = Len(s) + 1 /\ r[1] = t
             /\ \A k \in 1 .. Len(s) : r[k + 1] = s[k]
             /\ \A k \in 2 .. Len(r) : r[k] = s[k - 1] /\ k - 1 \in 1 .. Len(s)
             /\ TM!IsInjective(r)
  <1> DEFINE r == <<t>> \o s
  <1>1. /\ r \in Seq(S) /\ Len(r) = Len(s) + 1 /\ r[1] = t
        /\ \A k \in 1 .. Len(s) : r[k + 1] = s[k]
        /\ \A k \in 2 .. Len(r) : r[k] = s[k - 1] /\ k - 1 \in 1 .. Len(s)
    OBVIOUS
  <1>2. DOMAIN r = 1 .. Len(s) + 1 /\ DOMAIN s = 1 .. Len(s) /\ Len(s) \in Nat
    BY <1>1
  <1> HIDE DEF r
  <1>3. ASSUME NEW a \in DOMAIN r, NEW b \in DOMAIN r, r[a] = r[b]
        PROVE  a = b
    <2>1. CASE a = 1 \/ b = 1
      BY <1>1, <1>2, <1>3, <2>1
    <2>2. CASE a # 1 /\ b # 1
      <3>1. a - 1 \in DOMAIN s /\ b - 1 \in DOMAIN s /\ s[a - 1] = s[b - 1]
        BY <1>1, <1>2, <1>3, <2>2
      <3>2. a - 1 = b - 1
        BY <3>1 DEF TM!IsInjective
      <3> QED  BY <1>2, <3>2
    <2> QED  BY <2>1, <2>2
  <1>4. TM!IsInjective(r)
    BY <1>3 DEF TM!IsInjective
  <1> QED  BY <1>1, <1>4 DEF r

LEMMA RemovalKeepsInjective ==
  ASSUME NEW S, NEW s \in Seq(S), TM!IsInjective(s), NEW i \in 1 .. Len(s)
  PROVE  LET r == TM!RemoveAt(s, i)
         IN  /\ r \in Seq(S) /\ TM!IsInjective(r)
             /\ \A k \in 1 .. Len(r) :
                  r[k] # s[i] /\ \E j \in 1 .. Len(s) : r[k] = s[j]
             /\ \A j \in 1 .. Len(s) :
                  j # i => \E k \in 1 .. Len(r) : r[k] = s[j]
  <1> DEFINE r == TM!RemoveAt(s, i)
             Old(k) == IF k < i THEN k ELSE k + 1
  <1>1. /\ r \in Seq(S) /\ Len(r) = Len(s) - 1
        /\ \A k \in 1 .. Len(r) : r[k] = s[Old(k)] /\ Old(k) \in 1 .. Len(s)
    <2> DEFINE front == SubSeq(s, 1, i - 1)
               back == SubSeq(s, i + 1, Len(s))
    <2>1. front \in Seq(S) /\ Len(front) = i - 1
          /\ \A k \in 1 .. i - 1 : front[k] = s[k]
      OBVIOUS
    <2>2. back \in Seq(S) /\ Len(back) = Len(s) - i
          /\ \A k \in 1 .. Len(s) - i : back[k] = s[k + i]
      OBVIOUS
    <2>3. r = front \o back
      BY DEF TM!RemoveAt
    <2> HIDE DEF front, back, r
    <2>4. /\ r \in Seq(S) /\ Len(r) = Len(front) + Len(back)
          /\ \A k \in 1 .. Len(r) :
               r[k] = IF k <= Len(front) THEN front[k] ELSE back[k - Len(front)]
      <3>1. front \in Seq(S) /\ back \in Seq(S)
        BY <2>1, <2>2
      <3>2. Len(front) + Len(back) = Len(front \o back)
        BY <3>1, ConcatProperties
      <3> QED  BY <2>3, <3>1, <3>2, ConcatProperties
    <2>5. Len(r) = Len(s) - 1 /\ Len(s) \in Nat
      BY <2>1, <2>2, <2>4
    <2>6. ASSUME NEW k \in 1 .. Len(r)
          PROVE  r[k] = s[Old(k)] /\ Old(k) \in 1 .. Len(s)
      <3>1. CASE k < i
        BY <2>1, <2>4, <2>5, <3>1
      <3>2. CASE k >= i
        <4>1. k - (i - 1) \in 1 .. Len(s) - i /\ ~(k <= Len(front))
          BY <2>1, <2>5, <3>2
        <4>2. r[k] = back[k - (i - 1)]
          BY <2>1, <2>4, <4>1
        <4>3. (k - (i - 1)) + i = k + 1
          BY <2>5
        <4> QED  BY <2>2, <2>5, <3>2, <4>1, <4>2, <4>3
      <3> QED  BY <2>5, <3>1, <3>2
    <2> QED  BY <2>4, <2>5, <2>6
  <1>2. DOMAIN r = 1 .. Len(r) /\ DOMAIN s = 1 .. Len(s) /\ Len(s) \in Nat
    BY <1>1
  <1>3. ASSUME NEW j \in 1 .. Len(s), j # i
        PROVE  \E k \in 1 .. Len(r) : r[k] = s[j]
    <2>1. CASE j < i
      <3>1. j \in 1 .. Len(r) /\ Old(j) = j
        BY <1>1, <1>2, <2>1
      <3> QED  BY <1>1, <3>1
    <2>2. CASE j > i
      <3>1. j - 1 \in 1 .. Len(r) /\ Old(j - 1) = j
        BY <1>1, <1>2, <2>2
      <3> QED  BY <1>1, <3>1
    <2> QED  BY <1>2, <1>3, <2>1, <2>2
  <1> HIDE DEF r
  <1>4. ASSUME NEW k \in 1 .. Len(r) PROVE r[k] # s[i]
    <2>1. Old(k) # i
      BY <1>2
    <2> QED  BY <1>1, <1>2, <2>1 DEF TM!IsInjective
  <1>5. TM!IsInjective(r)
    <2> SUFFICES ASSUME NEW a \in DOMAIN r, NEW b \in DOMAIN r, r[a] = r[b]
        PROVE  a = b
      BY DEF TM!IsInjective
    <2>1. s[Old(a)] = s[Old(b)] /\ Old(a) \in DOMAIN s /\ Old(b) \in DOMAIN s
      BY <1>1, <1>2
    <2>2. Old(a) = Old(b)
      BY <2>1 DEF TM!IsInjective
    <2> QED  BY <1>2, <2>2
  <1>6. \A k \in 1 .. Len(r) : \E j \in 1 .. Len(s) : r[k] = s[j]
    BY <1>1
  <1> QED  BY <1>1, <1>3, <1>4, <1>5, <1>6 DEF r

-----------------------------------------------------------------------------

LEMMA ManagerInitInvariant == NodeInit => ManagerInv
  <1> SUFFICES ASSUME TM!Init PROVE ManagerInv
    BY DEF NodeInit
  <1>1. ManagerTypeOK
    <2>1. irqPriority \in [1 .. 4 -> Nat]
      BY DEF TM!Init, TM!KernelPriority
    <2>2. told \in [Ids -> BOOLEAN] /\ initialized \in BOOLEAN
      BY ZenonT(30) DEF TM!Init
    <2> QED  BY <2>1, <2>2 DEF TM!Init, ManagerTypeOK
  <1>2. EnvironmentIsSet /\ ToldThreadsAreListed
    BY DEF TM!Init, EnvironmentIsSet, ToldThreadsAreListed
  <1>3. DOMAIN mThreadList = {} /\ Len(mThreadList) = 0
    BY DEF TM!Init
  <1>4. ArgumentsFollowThreads
    BY <1>3 DEF TM!Init, ArgumentsFollowThreads, TM!ArgumentsFollowThreads,
                TM!IsInjective
  <1> QED  BY <1>1, <1>2, <1>4 DEF ManagerInv

(* What the threads' part of the invariant says survives a step that       *)
(* leaves the threads and their list alone.                                *)
LEMMA ThreadsAloneKeepLists ==
  ASSUME ManagerInv, UNCHANGED <<TM!threadVars, told>>
  PROVE  ToldThreadsAreListed' /\ ArgumentsFollowThreads'
  BY DEF ManagerInv, TM!threadVars, ToldThreadsAreListed, TM!Listed,
         ArgumentsFollowThreads, TM!ArgumentsFollowThreads, TM!IsInjective

LEMMA GetInstanceKeepsManager ==
  ASSUME ManagerInv, TM!GetInstance \/ TM!GetInstanceFails
  PROVE  ManagerInv'
  <1>1. UNCHANGED <<TM!threadVars, told>>
    BY DEF TM!GetInstance, TM!GetInstanceFails
  <1>2. /\ initPriority' \in Nat
        /\ irqPriority' \in [1 .. 4 -> Nat]
        /\ initialized' \in BOOLEAN
    <2>1. ASSUME NEW k \in 1 .. 11, TM!InitStepsBefore(k)
          PROVE  initPriority' \in Nat /\ irqPriority' \in [1 .. 4 -> Nat]
      <3>1. TM!SW_IRQ_PRIORITY \in Nat /\ TM!FSW_INIT_THREAD_PRIORITY \in Nat
        BY DEF TM!SW_IRQ_PRIORITY, TM!HW_IRQ_PRIORITY, TM!FSW_INIT_THREAD_PRIORITY
      <3>2. initPriority' \in Nat
        BY <2>1, <3>1 DEF TM!InitStepsBefore, ManagerInv, ManagerTypeOK
      <3>3. \A j \in 1 .. 4 : (IF k > 6 + j THEN TM!SW_IRQ_PRIORITY
                                ELSE irqPriority[j]) \in Nat
        BY <3>1 DEF ManagerInv, ManagerTypeOK
      <3> QED  BY <2>1, <3>2, <3>3 DEF TM!InitStepsBefore
    <2>2. CASE TM!GetInstance
      <3>1. \E k \in 1 .. 11 : TM!InitStepsBefore(k)
        BY <2>2 DEF TM!GetInstance
      <3> QED  BY <2>1, <2>2, <3>1 DEF TM!GetInstance
    <2>3. CASE TM!GetInstanceFails
      <3>1. \E k \in 1 .. 11 : TM!InitStepsBefore(k)
        BY <2>3 DEF TM!GetInstanceFails
      <3> QED  BY <2>1, <2>3, <3>1
               DEF TM!GetInstanceFails, ManagerInv, ManagerTypeOK
    <2> QED  BY <2>2, <2>3
  <1>3. ManagerTypeOK'
    BY <1>1, <1>2 DEF ManagerInv, ManagerTypeOK, TM!threadVars
  <1>4. EnvironmentIsSet'
    <2>1. CASE ~initialized /\ TM!GetInstance
      <3>1. /\ initPriority' = TM!FSW_INIT_THREAD_PRIORITY
            /\ \A j \in 1 .. 4 : irqPriority'[j] = TM!SW_IRQ_PRIORITY
        BY <2>1 DEF TM!GetInstance, TM!InitStepsBefore
      <3>2. \A t \in Ids : state'[t] = "free"
        BY <1>1, <2>1 DEF TM!threadVars, ManagerInv, EnvironmentIsSet
      <3> QED  BY <3>1, <3>2 DEF EnvironmentIsSet
    <2>2. CASE ~initialized /\ TM!GetInstanceFails
      <3>1. initialized' = FALSE /\ \A t \in Ids : state'[t] = "free"
        BY <1>1, <2>2 DEF TM!threadVars, ManagerInv, EnvironmentIsSet,
             TM!GetInstanceFails, ManagerTypeOK
      <3> QED  BY <3>1 DEF EnvironmentIsSet
    <2>3. CASE initialized
      <3>1. /\ initPriority' = initPriority /\ initialized' = TRUE
            /\ \A j \in 1 .. 4 : irqPriority'[j] = irqPriority[j]
        BY <2>3 DEF TM!GetInstance, TM!GetInstanceFails, TM!InitStepsBefore
      <3> QED  BY <1>1, <2>3, <3>1 DEF ManagerInv, EnvironmentIsSet, TM!threadVars
    <2> QED  BY <2>1, <2>2, <2>3
  <1> QED  BY <1>1, <1>3, <1>4, ThreadsAloneKeepLists DEF ManagerInv

(* A call that fails before it does anything to a thread.                  *)
LEMMA RefusedCallKeepsManager ==
  ASSUME ManagerInv, UNCHANGED <<TM!kernelVars, TM!threadVars, told>>
  PROVE  ManagerInv'
  <1>1. ManagerTypeOK' /\ EnvironmentIsSet'
    BY DEF ManagerInv, ManagerTypeOK, EnvironmentIsSet, TM!kernelVars, TM!threadVars
  <1> QED  BY <1>1, ThreadsAloneKeepLists DEF ManagerInv

(* A new thread gets an identifier that no thread of the list has.         *)
LEMMA FreeIsUnlisted ==
  ASSUME ManagerInv, NEW t \in Ids, state[t] = "free"
  PROVE  /\ \A k \in 1 .. Len(mThreadList) : mThreadList[k] # t
         /\ ~TM!Listed(t)
  BY DEF ManagerInv, ArgumentsFollowThreads, TM!ArgumentsFollowThreads, TM!Listed

LEMMA StartKeepsEnvironment ==
  ASSUME ManagerInv, NEW t \in Ids, NEW p \in Priorities, NEW hasArgs \in BOOLEAN,
         TM!Start(t, p, hasArgs)
  PROVE  /\ EnvironmentIsSet'
         /\ UNCHANGED <<initialized, initPriority, irqPriority>>
         /\ state \in [Ids -> {"free", "running", "finished"}]
         /\ state' \in [Ids -> {"free", "running", "finished"}]
         /\ priority' \in [Ids -> Nat]
         /\ args' \in [Ids -> {"none", "live", "freed"}]
         /\ state[t] = "free" /\ state'[t] = "running"
         /\ args'[t] # "freed"
         /\ \A u \in Ids \ {t} : state'[u] = state[u] /\ args'[u] = args[u]
  <1> USE NodeThreadsAssumption DEF TM!Start, TM!kernelVars, ManagerInv, ManagerTypeOK
  <1>1. EnvironmentIsSet'
    BY DEF EnvironmentIsSet
  <1> QED  BY <1>1

LEMMA CreateKeepsManager ==
  ASSUME ManagerInv, NEW t \in Ids, NEW p \in Priorities, NEW hasArgs \in BOOLEAN,
         TM!Create(t, p, hasArgs)
  PROVE  ManagerInv'
  <1>1. TM!Start(t, p, hasArgs) /\ mThreadList' = <<t>> \o mThreadList
        /\ told' = [told EXCEPT ![t] = TRUE]
    BY DEF TM!Create
  <1>2. mThreadList \in Seq(Ids) /\ TM!IsInjective(mThreadList)
    BY DEF ManagerInv, ManagerTypeOK, ArgumentsFollowThreads,
           TM!ArgumentsFollowThreads
  <1>3. state[t] = "free"
    BY <1>1 DEF TM!Start
  <1>4. /\ mThreadList' \in Seq(Ids) /\ Len(mThreadList') = Len(mThreadList) + 1
        /\ mThreadList'[1] = t
        /\ \A k \in 1 .. Len(mThreadList) : mThreadList'[k + 1] = mThreadList[k]
        /\ \A k \in 2 .. Len(mThreadList') :
             mThreadList'[k] = mThreadList[k - 1] /\ k - 1 \in 1 .. Len(mThreadList)
        /\ TM!IsInjective(mThreadList')
    BY <1>1, <1>2, <1>3, FreeIsUnlisted, FrontKeepsInjective
  <1>5. Len(mThreadList) \in Nat
    BY <1>2
  <1>6. told' \in [Ids -> BOOLEAN] /\ \A u \in Ids \ {t} : told'[u] = told[u]
    BY <1>1, Zenon DEF ManagerInv, ManagerTypeOK
  <1>7. ManagerTypeOK' /\ EnvironmentIsSet'
    BY <1>1, <1>4, <1>6, StartKeepsEnvironment DEF ManagerInv, ManagerTypeOK
  <1>8. ToldThreadsAreListed'
    <2> SUFFICES ASSUME NEW u \in Ids,
                        state'[u] # "free", told'[u], args'[u] = "live"
        PROVE  \E k \in 1 .. Len(mThreadList') : mThreadList'[k] = u
      BY DEF ToldThreadsAreListed, TM!Listed
    <2>1. CASE u = t
      BY <1>4, <1>5, <2>1
    <2>2. CASE u # t
      <3>1. PICK k \in 1 .. Len(mThreadList) : mThreadList[k] = u
        BY <1>1, <1>6, <2>2, StartKeepsEnvironment
           DEF ManagerInv, ToldThreadsAreListed, TM!Listed
      <3>2. k + 1 \in 1 .. Len(mThreadList') /\ mThreadList'[k + 1] = u
        BY <1>4, <1>5, <3>1
      <3> QED  BY <3>2
    <2> QED  BY <2>1, <2>2
  <1>9. ArgumentsFollowThreads'
    <2>1. ASSUME NEW u \in Ids
          PROVE  /\ state'[u] = "running" => args'[u] # "freed"
                 /\ state'[u] = "free" /\ told'[u] => args'[u] # "live"
      BY <1>1, <1>6, StartKeepsEnvironment
         DEF ManagerInv, ArgumentsFollowThreads, TM!ArgumentsFollowThreads
    <2>2. ASSUME NEW k \in 1 .. Len(mThreadList')
          PROVE  state'[mThreadList'[k]] # "free"
      <3>1. CASE k = 1
        BY <1>1, <1>4, <3>1, StartKeepsEnvironment
      <3>2. CASE k # 1
        <4>1. k \in 2 .. Len(mThreadList')
          BY <1>4, <1>5, <3>2
        <4>2. /\ mThreadList'[k] = mThreadList[k - 1]
              /\ state[mThreadList[k - 1]] # "free"
              /\ mThreadList[k - 1] \in Ids
          BY <1>2, <1>4, <4>1
             DEF ManagerInv, ArgumentsFollowThreads, TM!ArgumentsFollowThreads
        <4> QED  BY <1>1, <1>3, <4>2, StartKeepsEnvironment
      <3> QED  BY <3>1, <3>2
    <2> QED  BY <1>4, <2>1, <2>2 DEF ArgumentsFollowThreads, TM!ArgumentsFollowThreads
  <1> QED  BY <1>7, <1>8, <1>9 DEF ManagerInv

LEMMA CreateUnlistedKeepsManager ==
  ASSUME ManagerInv, NEW t \in Ids, NEW p \in Priorities, NEW hasArgs \in BOOLEAN,
         TM!CreateUnlisted(t, p, hasArgs)
  PROVE  ManagerInv'
  <1>1. TM!Start(t, p, hasArgs) /\ mThreadList' = mThreadList
        /\ told' = [told EXCEPT ![t] = FALSE]
    BY DEF TM!CreateUnlisted
  <1>2. /\ told' \in [Ids -> BOOLEAN] /\ ~told'[t]
        /\ \A u \in Ids \ {t} : told'[u] = told[u]
    BY <1>1, Zenon DEF ManagerInv, ManagerTypeOK
  <1>3. ManagerTypeOK' /\ EnvironmentIsSet'
    BY <1>1, <1>2, StartKeepsEnvironment DEF ManagerInv, ManagerTypeOK
  <1>4. ToldThreadsAreListed'
    <2> SUFFICES ASSUME NEW u \in Ids,
                        state'[u] # "free", told'[u], args'[u] = "live"
        PROVE  TM!Listed(u)'
      BY DEF ToldThreadsAreListed
    <2>1. TM!Listed(u)
      BY <1>1, <1>2, StartKeepsEnvironment DEF ManagerInv, ToldThreadsAreListed
    <2> QED  BY <1>1, <2>1 DEF TM!Listed
  <1>5. ArgumentsFollowThreads'
    <2>1. ASSUME NEW u \in Ids
          PROVE  /\ state'[u] = "running" => args'[u] # "freed"
                 /\ state'[u] = "free" /\ told'[u] => args'[u] # "live"
      BY <1>1, <1>2, StartKeepsEnvironment
         DEF ManagerInv, ArgumentsFollowThreads, TM!ArgumentsFollowThreads
    <2>2. ASSUME NEW k \in 1 .. Len(mThreadList)
          PROVE  state'[mThreadList[k]] # "free"
      <3>1. mThreadList[k] \in Ids /\ state[mThreadList[k]] # "free"
        BY DEF ManagerInv, ManagerTypeOK, ArgumentsFollowThreads,
               TM!ArgumentsFollowThreads
      <3> QED  BY <1>1, <3>1, StartKeepsEnvironment
    <2>3. TM!IsInjective(mThreadList)
      BY DEF ManagerInv, ArgumentsFollowThreads, TM!ArgumentsFollowThreads
    <2> QED  BY <1>1, <2>1, <2>2, <2>3
             DEF ArgumentsFollowThreads, TM!ArgumentsFollowThreads
  <1> QED  BY <1>3, <1>4, <1>5 DEF ManagerInv

LEMMA FinishKeepsManager ==
  ASSUME ManagerInv, NEW t \in Ids, TM!Finish(t)
  PROVE  ManagerInv'
  <1>1. /\ UNCHANGED <<initialized, initPriority, irqPriority, priority, args,
                       mThreadList, told>>
        /\ state[t] = "running" /\ state'[t] = "finished"
        /\ state' \in [Ids -> {"free", "running", "finished"}]
        /\ \A u \in Ids \ {t} : state'[u] = state[u]
    BY DEF TM!Finish, TM!kernelVars, ManagerInv, ManagerTypeOK
  <1>2. ManagerTypeOK'
    BY <1>1 DEF ManagerInv, ManagerTypeOK
  <1>3. EnvironmentIsSet'
    BY <1>1 DEF ManagerInv, EnvironmentIsSet
  <1>4. ToldThreadsAreListed'
    BY <1>1 DEF ManagerInv, ToldThreadsAreListed, TM!Listed
  <1>5. ArgumentsFollowThreads'
    <2>1. \A k \in 1 .. Len(mThreadList) : state'[mThreadList[k]] # "free"
      <3> TAKE k \in 1 .. Len(mThreadList)
      <3>1. mThreadList[k] \in Ids /\ state[mThreadList[k]] # "free"
        BY DEF ManagerInv, ManagerTypeOK, ArgumentsFollowThreads,
               TM!ArgumentsFollowThreads
      <3> QED  BY <1>1, <3>1
    <2> QED  BY <1>1, <2>1 DEF ManagerInv, ArgumentsFollowThreads,
                               TM!ArgumentsFollowThreads, TM!IsInjective
  <1> QED  BY <1>2, <1>3, <1>4, <1>5 DEF ManagerInv

LEMMA WaitKeepsManager ==
  ASSUME ManagerInv, NEW t \in Ids, TM!Wait(t)
  PROVE  ManagerInv'
  <1>1. /\ UNCHANGED <<initialized, initPriority, irqPriority, priority, told>>
        /\ state[t] = "finished" /\ state'[t] = "free"
        /\ state' \in [Ids -> {"free", "running", "finished"}]
        /\ \A u \in Ids \ {t} : state'[u] = state[u]
    BY DEF TM!Wait, TM!kernelVars, ManagerInv, ManagerTypeOK
  <1>2. EnvironmentIsSet'
    BY <1>1 DEF ManagerInv, EnvironmentIsSet
  <1>3. /\ mThreadList \in Seq(Ids) /\ TM!IsInjective(mThreadList)
        /\ \A k \in 1 .. Len(mThreadList) :
             mThreadList[k] \in Ids /\ state[mThreadList[k]] # "free"
    BY DEF ManagerInv, ManagerTypeOK, ArgumentsFollowThreads,
           TM!ArgumentsFollowThreads
  (* Afterwards the list is the old one without the thread.                *)
  <1>4. /\ mThreadList' \in Seq(Ids) /\ TM!IsInjective(mThreadList')
        /\ \A k \in 1 .. Len(mThreadList') :
             /\ mThreadList'[k] # t
             /\ \E j \in 1 .. Len(mThreadList) : mThreadList'[k] = mThreadList[j]
        /\ \A j \in 1 .. Len(mThreadList) : mThreadList[j] # t =>
             \E k \in 1 .. Len(mThreadList') : mThreadList'[k] = mThreadList[j]
    <2>1. CASE TM!Listed(t)
      <3>1. PICK i \in 1 .. Len(mThreadList) :
              /\ mThreadList[i] = t
              /\ mThreadList' = TM!RemoveAt(mThreadList, i)
        BY <2>1 DEF TM!Wait, TM!Unlist
      <3> QED  BY <1>3, <3>1, RemovalKeepsInjective
    <2>2. CASE ~TM!Listed(t)
      <3>1. mThreadList' = mThreadList
        BY <2>2 DEF TM!Wait
      <3> QED  BY <1>3, <2>2, <3>1 DEF TM!Listed
    <2> QED  BY <2>1, <2>2
  <1>5. /\ args' \in [Ids -> {"none", "live", "freed"}]
        /\ \A u \in Ids \ {t} : args'[u] = args[u]
        /\ TM!Listed(t) => args'[t] # "live"
        /\ ~TM!Listed(t) => args'[t] = args[t]
    BY DEF TM!Wait, ManagerInv, ManagerTypeOK
  <1>6. ManagerTypeOK'
    BY <1>1, <1>4, <1>5 DEF ManagerInv, ManagerTypeOK
  <1>7. ToldThreadsAreListed'
    <2> SUFFICES ASSUME NEW u \in Ids,
                        state'[u] # "free", told'[u], args'[u] = "live"
        PROVE  \E k \in 1 .. Len(mThreadList') : mThreadList'[k] = u
      BY DEF ToldThreadsAreListed, TM!Listed
    <2>1. u # t /\ state[u] # "free" /\ told[u] /\ args[u] = "live"
      BY <1>1, <1>5
    <2>2. PICK j \in 1 .. Len(mThreadList) : mThreadList[j] = u
      BY <2>1 DEF ManagerInv, ToldThreadsAreListed, TM!Listed
    <2> QED  BY <1>4, <2>1, <2>2
  <1>8. ArgumentsFollowThreads'
    <2>1. ASSUME NEW u \in Ids
          PROVE  /\ state'[u] = "running" => args'[u] # "freed"
                 /\ state'[u] = "free" /\ told'[u] => args'[u] # "live"
      <3>1. CASE u = t
        <4>1. told[t] /\ ~TM!Listed(t) => args[t] # "live"
          BY <1>1 DEF ManagerInv, ToldThreadsAreListed
        <4> QED  BY <1>1, <1>5, <3>1, <4>1
      <3>2. CASE u # t
        BY <1>1, <1>5, <3>2
           DEF ManagerInv, ArgumentsFollowThreads, TM!ArgumentsFollowThreads
      <3> QED  BY <3>1, <3>2
    <2>2. ASSUME NEW k \in 1 .. Len(mThreadList')
          PROVE  state'[mThreadList'[k]] # "free"
      BY <1>1, <1>3, <1>4
    <2> QED  BY <1>4, <2>1, <2>2 DEF ArgumentsFollowThreads, TM!ArgumentsFollowThreads
  <1> QED  BY <1>2, <1>6, <1>7, <1>8 DEF ManagerInv

LEMMA ManagerStepInvariant == ManagerInv /\ [TM!Next]_(TM!vars) => ManagerInv'
  <1> SUFFICES ASSUME ManagerInv, [TM!Next]_(TM!vars) PROVE ManagerInv'
    OBVIOUS
  <1>1. CASE TM!GetInstance \/ TM!GetInstanceFails
    BY <1>1, GetInstanceKeepsManager
  <1>2. CASE TM!CreateInvalid \/ TM!CreateFails
    BY <1>2, RefusedCallKeepsManager DEF TM!CreateInvalid, TM!CreateFails
  <1>3. ASSUME NEW t \in Ids, NEW p \in Priorities, NEW hasArgs \in BOOLEAN,
               TM!Create(t, p, hasArgs) \/ TM!CreateUnlisted(t, p, hasArgs)
        PROVE  ManagerInv'
    BY <1>3, CreateKeepsManager, CreateUnlistedKeepsManager
  <1>4. ASSUME NEW t \in Ids, TM!Finish(t) \/ TM!Wait(t) PROVE ManagerInv'
    BY <1>4, FinishKeepsManager, WaitKeepsManager
  <1>5. ASSUME NEW t \in Ids, TM!WaitFails(t) PROVE ManagerInv'
    BY <1>5, RefusedCallKeepsManager DEF TM!WaitFails
  <1>6. CASE UNCHANGED TM!vars
    BY <1>6, RefusedCallKeepsManager DEF TM!vars
  <1> QED  BY <1>1, <1>2, <1>3, <1>4, <1>5, <1>6 DEF TM!Next

LEMMA ManagerInvariance == NodeSpec => []ManagerInv
  BY ManagerInitInvariant, ManagerStepInvariant, NodeStepIsManagerStep, PTL
     DEF NodeSpec

(* No thread runs before the priorities of the whole environment are set,  *)
(* and none runs above the threads that serve the timers and the network   *)
(* (initKernelSchedulingEnvironment, createThread), whatever fails.        *)
THEOREM PrioritiesAreOrdered == NodeSpec => []ThreadsRunBelowTheKernel
  <1>1. ManagerInv => ThreadsRunBelowTheKernel
    BY DEF ManagerInv, EnvironmentIsSet, ThreadsRunBelowTheKernel, ManagerTypeOK,
           TM!ThreadsRunBelowTheKernel, TM!ValidPriority, TM!RCU_PRIORITY,
           TM!HW_IRQ_PRIORITY, TM!SW_IRQ_PRIORITY, TM!FSW_INIT_THREAD_PRIORITY,
           TM!MAX_NEW_THREAD_PRIORITY, TM!MIN_NEW_THREAD_PRIORITY
  <1> QED  BY <1>1, ManagerInvariance, PTL

(* No running thread loses its arguments, and those of every thread that   *)
(* was reported as created are freed (waitForThread).                      *)
THEOREM ArgumentsAreKept == NodeSpec => []ArgumentsFollowThreads
  <1>1. ManagerInv => ArgumentsFollowThreads
    BY DEF ManagerInv
  <1> QED  BY <1>1, ManagerInvariance, PTL
=============================================================================
