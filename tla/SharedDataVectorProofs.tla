----------------------- MODULE SharedDataVectorProofs -----------------------
(***************************************************************************)
(* Proofs about SharedDataVector, for every layout of the bytes, every set *)
(* of calls and any number of threads: the calls are atomic.  They still   *)
(* are when one of the threads is the Data Vector logger                   *)
(* (SnapshotLogger), and that makes its rows snapshots.                    *)
(***************************************************************************)
EXTENDS SnapshotLogger, TLAPS

(* The thread between a successful lock and its unlock is the owner. *)
Exclusive == \A t \in Threads : pc[t] \in Critical <=> mLock = t

(* What a call has done so far. *)
Progress(t) ==
  /\ pc[t] \in {"check", "lock", "verify"} =>
       local[t] = IF call[t].op = "write" THEN call[t].data ELSE Blank
  /\ pc[t] = "lock" /\ ChecksFirst(call[t]) => Accepted(call[t])
  /\ pc[t] \in {"copyOut", "max", "copyIn"} =>
       Accepted(call[t]) /\ left[t] \subseteq At[call[t].on]
  /\ pc[t] = "copyOut" =>
       /\ call[t].op # "write"
       /\ local[t] = Overlay(Blank, mBuffer, At[call[t].on] \ left[t])
  /\ pc[t] = "max" =>
       /\ call[t].op = "increment"
       /\ local[t] = Overlay(Blank, mBuffer, At[call[t].on])
  /\ pc[t] = "copyIn" => call[t].op # "read"

IInv == TypeOK /\ Exclusive /\ \A t \in Threads : Progress(t)

-----------------------------------------------------------------------------
(* Facts about the bytes. *)

LEMMA AcceptedCall ==
  ASSUME NEW c \in Calls, Accepted(c)
  PROVE  c.on \in Elem \cup Region /\ At[c.on] \subseteq Bytes
  <1>1. c \in AllCalls
    BY DvCallsAssumption
  <1>2. c.on \in Elem \cup Region \cup {NoElem, NoRegion}
    BY <1>1 DEF AllCalls
  <1>3. c.on # NoElem /\ c.on # NoRegion
    BY DEF Accepted, Verdict
  <1> QED
    BY <1>2, <1>3, DvBytesAssumption

LEMMA VerdictType ==
  ASSUME NEW c \in Calls
  PROVE  Verdict(c) \in Error_t
  <1>1. c \in AllCalls
    BY DvCallsAssumption
  <1>2. /\ c.on \in Elem \cup Region \cup {NoElem, NoRegion}
        /\ c.op = "increment" => c.on \in Elem \cup {NoElem}
    BY <1>1 DEF AllCalls
  <1> QED
    BY <1>2 DEF Verdict, Error_t

LEMMA CallData ==
  ASSUME NEW c \in Calls
  PROVE  c.data \in Contents /\ c.op \in {"read", "write", "increment"}
  <1>1. c \in AllCalls
    BY DvCallsAssumption
  <1> QED
    BY <1>1 DEF AllCalls

LEMMA BlankType == Blank \in Contents
  BY DvBytesAssumption DEF Blank, Contents, ByteValue

LEMMA OverlayType ==
  ASSUME NEW m \in Contents, NEW d \in Contents, NEW S
  PROVE  Overlay(m, d, S) \in Contents
  BY DEF Overlay, Contents

LEMMA PlusOneType ==
  ASSUME NEW m \in Contents, NEW e
  PROVE  PlusOne(m, e) \in Contents
  <1>1. \A b \in Bytes : m[b] \in ByteValue
    BY DEF Contents
  <1>2. \A k \in ByteValue : (k + 1) % ByteSize \in ByteValue
    BY DvBytesAssumption DEF ByteValue
  <1> QED
    BY <1>1, <1>2 DEF PlusOne, Contents

(* An element and its copy in a local variable. *)
LEMMA CopyOfElement ==
  ASSUME NEW m \in Contents, NEW e \in Elem \cup Region,
         NEW v, v = Overlay(Blank, m, At[e])
  PROVE  /\ IsMax(v, e) <=> IsMax(m, e)
         /\ Overlay(m, PlusOne(v, e), At[e]) = PlusOne(m, e)
  <1>1. At[e] \subseteq Bytes
    BY DvBytesAssumption
  <1>2. \A b \in At[e] : v[b] = m[b]
    BY <1>1 DEF Overlay
  <1>3. IsMax(v, e) <=> IsMax(m, e)
    BY <1>2 DEF IsMax
  <1>4. \A b \in At[e] : PlusOne(v, e)[b] = PlusOne(m, e)[b]
    BY <1>1, <1>2 DEF PlusOne
  <1>5. \A b \in Bytes \ At[e] : PlusOne(m, e)[b] = m[b]
    BY DEF PlusOne
  <1>6. Overlay(m, PlusOne(v, e), At[e]) = [b \in Bytes |-> PlusOne(m, e)[b]]
    BY <1>1, <1>4, <1>5 DEF Overlay
  <1>7. PlusOne(m, e) = [b \in Bytes |-> PlusOne(m, e)[b]]
    BY DEF PlusOne
  <1> QED
    BY <1>3, <1>6, <1>7

LEMMA OverlayNothing ==
  ASSUME NEW m \in Contents, NEW d
  PROVE  Overlay(m, d, {}) = m
  BY DEF Overlay, Contents

-----------------------------------------------------------------------------
LEMMA InitInductive == Init => IInv
  <1> SUFFICES ASSUME Init PROVE IInv
    OBVIOUS
  <1>1. (CHOOSE c \in Calls : TRUE) \in Calls
    BY DvCallsAssumption
  <1>2. TypeOK
    BY <1>1, BlankType DEF Init, TypeOK, Place, Error_t
  <1>3. Exclusive
    BY ThreadAssumption DEF Init, Exclusive, Critical
  <1>4. \A t \in Threads : Progress(t)
    BY DEF Init, Progress
  <1> QED
    BY <1>2, <1>3, <1>4 DEF IInv

(* The types, one action at a time. *)
LEMMA TypeStep == IInv /\ [Next]_vars => TypeOK'
  <1> SUFFICES ASSUME IInv, [Next]_vars PROVE TypeOK'
    OBVIOUS
  <1> USE DEF Goto
  <1>0. TypeOK /\ Exclusive /\ \A t \in Threads : Progress(t)
    BY DEF IInv
  <1>1. CASE UNCHANGED vars
    BY <1>0, <1>1 DEF vars, TypeOK
  <1>2. ASSUME NEW t \in Threads, NEW c \in Calls, Invoke(t, c) PROVE TypeOK'
    BY <1>0, <1>2, CallData, BlankType DEF Invoke, TypeOK, Place
  <1>3. ASSUME NEW t \in Threads, CheckArguments(t) PROVE TypeOK'
    BY <1>0, <1>3, VerdictType DEF CheckArguments, TypeOK, Place
  <1>4. ASSUME NEW t \in Threads, Accepted(call[t]) PROVE At[call[t].on] \in SUBSET Bytes
    BY <1>0, <1>4, AcceptedCall DEF TypeOK
  <1>5. ASSUME NEW t \in Threads, AcquireLock(t) PROVE TypeOK'
    <2>1. ChecksFirst(call[t]) => Accepted(call[t])
      BY <1>0, <1>5 DEF Progress, AcquireLock
    <2>2. ChecksFirst(call[t]) => At[call[t].on] \in SUBSET Bytes
      BY <2>1, <1>4
    <2> QED
      BY <1>0, <1>5, <2>2 DEF AcquireLock, Begin, TypeOK, Place, Error_t
  <1>6. ASSUME NEW t \in Threads, VerifyElement(t) PROVE TypeOK'
    BY <1>0, <1>4, <1>6, VerdictType DEF VerifyElement, Begin, TypeOK, Place
  <1>7. ASSUME NEW t \in Threads, CopyOut(t) PROVE TypeOK'
    <2>1. PICK b \in left[t] :
            /\ local' = [local EXCEPT ![t][b] = mBuffer[b]]
            /\ left' = [left EXCEPT ![t] = @ \ {b}]
      BY <1>7 DEF CopyOut
    <2>2. b \in Bytes /\ mBuffer[b] \in ByteValue
      BY <1>0 DEF TypeOK, Contents
    <2>3. local' \in [Threads -> Contents]
      BY <1>0, <2>1, <2>2 DEF TypeOK, Contents
    <2> QED
      BY <1>0, <1>7, <2>1, <2>3 DEF CopyOut, TypeOK
  <1>8. ASSUME NEW t \in Threads, CopyOutEnds(t) \/ AlreadyMax(t) \/ CopyInEnds(t)
        PROVE TypeOK'
    BY <1>0, <1>8 DEF CopyOutEnds, AlreadyMax, CopyInEnds, TypeOK, Place, Error_t
  <1>9. ASSUME NEW t \in Threads, Increment(t) PROVE TypeOK'
    <2>1. Accepted(call[t])
      BY <1>0, <1>9 DEF Progress, Increment
    <2>2. PlusOne(local[t], call[t].on) \in Contents
      BY <1>0, PlusOneType DEF TypeOK
    <2> QED
      BY <1>0, <1>4, <1>9, <2>1, <2>2 DEF Increment, TypeOK, Place
  <1>10. ASSUME NEW t \in Threads, CopyIn(t) PROVE TypeOK'
    <2>1. PICK b \in left[t] :
            /\ mBuffer' = [mBuffer EXCEPT ![b] = local[t][b]]
            /\ left' = [left EXCEPT ![t] = @ \ {b}]
      BY <1>10 DEF CopyIn
    <2>2. b \in Bytes /\ local[t][b] \in ByteValue
      BY <1>0 DEF TypeOK, Contents
    <2>3. mBuffer' \in Contents
      BY <1>0, <2>1, <2>2 DEF TypeOK, Contents
    <2> QED
      BY <1>0, <1>10, <2>1, <2>3 DEF CopyIn, TypeOK
  <1>11. ASSUME NEW t \in Threads, ReleaseLock(t) PROVE TypeOK'
    BY <1>0, <1>11 DEF ReleaseLock, TypeOK, Place, Error_t
  <1>12. ASSUME NEW t \in Threads, Return(t) PROVE TypeOK'
    BY <1>0, <1>12, BlankType DEF Return, TypeOK, Place, Error_t
  <1> QED
    BY <1>1, <1>2, <1>3, <1>5, <1>6, <1>7, <1>8, <1>9, <1>10, <1>11, <1>12
    DEF Next, Body

(* Nobody but the owner works on the bytes. *)
LEMMA ExclusiveStep == IInv /\ [Next]_vars => Exclusive'
  <1> SUFFICES ASSUME IInv, [Next]_vars PROVE Exclusive'
    OBVIOUS
  <1> USE DEF Goto, Critical
  <1>0. /\ pc \in [Threads -> Place]
        /\ \A t \in Threads : pc[t] \in Critical <=> mLock = t
        /\ mLock \in Threads \cup {NoThread}
    BY DEF IInv, TypeOK, Exclusive
  <1>1. CASE UNCHANGED vars
    BY <1>0, <1>1 DEF vars, Exclusive
  <1>2. ASSUME NEW t \in Threads,
               \/ \E c \in Calls : Invoke(t, c)
               \/ CheckArguments(t) \/ Return(t)
        PROVE Exclusive'
    BY <1>0, <1>2 DEF Invoke, CheckArguments, Return, Exclusive
  <1>3. ASSUME NEW t \in Threads, AcquireLock(t) PROVE Exclusive'
    <2>1. mLock = NoThread /\ mLock' = t /\ pc'[t] \in Critical
      BY <1>0, <1>3 DEF AcquireLock, Begin
    <2>2. \A u \in Threads \ {t} : pc'[u] = pc[u]
      BY <1>0, <1>3 DEF AcquireLock, Begin
    <2> QED
      BY <1>0, <2>1, <2>2, ThreadAssumption DEF Exclusive
  <1>4. ASSUME NEW t \in Threads,
               \/ VerifyElement(t) \/ CopyOut(t) \/ CopyOutEnds(t)
               \/ AlreadyMax(t) \/ Increment(t) \/ CopyIn(t) \/ CopyInEnds(t)
        PROVE Exclusive'
    <2>1. mLock' = mLock /\ pc[t] \in Critical /\ pc'[t] \in Critical
      BY <1>0, <1>4 DEF VerifyElement, Begin, CopyOut, CopyOutEnds, AlreadyMax,
                        Increment, CopyIn, CopyInEnds
    <2>2. \A u \in Threads \ {t} : pc'[u] = pc[u]
      BY <1>0, <1>4 DEF VerifyElement, Begin, CopyOut, CopyOutEnds, AlreadyMax,
                        Increment, CopyIn, CopyInEnds
    <2> QED
      BY <1>0, <2>1, <2>2 DEF Exclusive
  <1>5. ASSUME NEW t \in Threads, ReleaseLock(t) PROVE Exclusive'
    <2>1. mLock = t /\ mLock' = NoThread /\ pc'[t] \notin Critical
      BY <1>0, <1>5 DEF ReleaseLock
    <2>2. \A u \in Threads \ {t} : pc'[u] = pc[u]
      BY <1>0, <1>5 DEF ReleaseLock
    <2> QED
      BY <1>0, <2>1, <2>2, ThreadAssumption DEF Exclusive
  <1> QED
    BY <1>1, <1>2, <1>3, <1>4, <1>5 DEF Next, Body

(* A thread that does not move keeps what it has, as the bytes only change *)
(* under the owner's hands. *)
LEMMA OthersKeepProgress ==
  ASSUME IInv, NEW t \in Threads, NEW u \in Threads \ {t},
         pc'[u] = pc[u], call'[u] = call[u], left'[u] = left[u],
         local'[u] = local[u],
         mBuffer' = mBuffer \/ mLock = t
  PROVE  Progress(u)'
  <1>1. Progress(u) /\ (pc[u] \in Critical <=> mLock = u)
    BY DEF IInv, Exclusive
  <1>2. CASE mBuffer' = mBuffer
    BY <1>1, <1>2 DEF Progress
  <1>3. CASE mLock = t
    <2>1. pc[u] \notin Critical
      BY <1>1, <1>3
    <2> QED
      BY <1>1, <2>1 DEF Progress, Critical
  <1> QED
    BY <1>2, <1>3

LEMMA ProgressStep == IInv /\ [Next]_vars => \A t \in Threads : Progress(t)'
  <1> SUFFICES ASSUME IInv, [Next]_vars PROVE \A t \in Threads : Progress(t)'
    OBVIOUS
  <1> USE DEF Goto
  <1>0. TypeOK /\ Exclusive /\ \A t \in Threads : Progress(t)
    BY DEF IInv
  <1>1. CASE UNCHANGED vars
    BY <1>0, <1>1 DEF vars, Progress
  <1>2. SUFFICES ASSUME NEW t \in Threads,
                        \/ \E c \in Calls : Invoke(t, c)
                        \/ AcquireLock(t) \/ Body(t) \/ Return(t)
                 PROVE  \A u \in Threads : Progress(u)'
    BY <1>1 DEF Next
  <1>3. \A u \in Threads \ {t} : Progress(u)'
    <2>1. TAKE u \in Threads \ {t}
    <2>2. /\ pc'[u] = pc[u] /\ call'[u] = call[u] /\ left'[u] = left[u]
          /\ local'[u] = local[u]
      BY <1>0, <1>2 DEF Body, Invoke, CheckArguments, AcquireLock, Begin,
           VerifyElement, CopyOut, CopyOutEnds, AlreadyMax, Increment, CopyIn,
           CopyInEnds, ReleaseLock, Return, TypeOK
    <2>3. mBuffer' = mBuffer \/ mLock = t
      BY <1>0, <1>2 DEF Body, Invoke, CheckArguments, AcquireLock, VerifyElement,
           CopyOut, CopyOutEnds, AlreadyMax, Increment, CopyIn, CopyInEnds,
           ReleaseLock, Return, Exclusive, Critical
    <2> QED
      BY <2>2, <2>3, OthersKeepProgress
  <1>4. Progress(t)'
    <2>0. Progress(t) /\ pc \in [Threads -> Place] /\ call \in [Threads -> Calls]
          /\ left \in [Threads -> SUBSET Bytes] /\ local \in [Threads -> Contents]
      BY <1>0 DEF TypeOK
    <2>1. ASSUME NEW c \in Calls, Invoke(t, c) PROVE Progress(t)'
      BY <2>0, <2>1 DEF Invoke, Progress
    <2>2. CASE CheckArguments(t)
      BY <2>0, <2>2 DEF CheckArguments, Progress, Accepted
    <2>3. ASSUME Begin(t), Accepted(call[t]), UNCHANGED <<mBuffer, call, local>>,
                 local[t] = IF call[t].op = "write" THEN call[t].data ELSE Blank
          PROVE Progress(t)'
      <3>1. left'[t] = At[call[t].on] /\ call'[t] = call[t] /\ local'[t] = local[t]
        BY <2>0, <2>3 DEF Begin
      <3>2. pc'[t] = IF call[t].op = "write" THEN "copyIn" ELSE "copyOut"
        BY <2>0, <2>3 DEF Begin
      <3>3. Overlay(Blank, mBuffer, At[call[t].on] \ left'[t]) = Blank
        BY <3>1 DEF Overlay, Blank
      <3> QED
        BY <2>3, <3>1, <3>2, <3>3 DEF Progress, Accepted
    <2>4. CASE AcquireLock(t)
      <3>1. local[t] = IF call[t].op = "write" THEN call[t].data ELSE Blank
        BY <2>0, <2>4 DEF AcquireLock, Progress
      <3>2. CASE ChecksFirst(call[t]) /\ Begin(t)
        <4>1. Accepted(call[t])
          BY <2>0, <2>4, <3>2 DEF AcquireLock, Progress
        <4> QED
          BY <2>3, <2>4, <3>1, <3>2, <4>1 DEF AcquireLock
      <3>3. CASE Goto(t, "return") \/ Goto(t, "verify")
        BY <2>0, <2>4, <3>1, <3>3 DEF AcquireLock, Progress
      <3> QED
        BY <2>4, <3>2, <3>3 DEF AcquireLock
    <2>5. CASE VerifyElement(t)
      <3>1. CASE Accepted(call[t])
        BY <2>0, <2>3, <2>5, <3>1 DEF VerifyElement, Progress
      <3>2. CASE ~Accepted(call[t])
        BY <2>0, <2>5, <3>2 DEF VerifyElement, Progress
      <3> QED
        BY <3>1, <3>2
    <2>6. CASE CopyOut(t)
      <3>1. PICK b \in left[t] :
              /\ local' = [local EXCEPT ![t][b] = mBuffer[b]]
              /\ left' = [left EXCEPT ![t] = @ \ {b}]
        BY <2>6 DEF CopyOut
      <3>2. Accepted(call[t]) /\ left[t] \subseteq At[call[t].on]
            /\ local[t] = Overlay(Blank, mBuffer, At[call[t].on] \ left[t])
            /\ call[t].op # "write"
        BY <2>0, <2>6 DEF CopyOut, Progress
      <3>3. At[call[t].on] \in SUBSET Bytes
        BY <2>0, <3>2, AcceptedCall
      <3>4. local'[t] = [Overlay(Blank, mBuffer, At[call[t].on] \ left[t])
                           EXCEPT ![b] = mBuffer[b]]
        BY <2>0, <3>1, <3>2
      <3>5. left'[t] = left[t] \ {b}
        BY <2>0, <3>1
      <3>6. local'[t] = Overlay(Blank, mBuffer, At[call[t].on] \ left'[t])
        <4>1. mBuffer \in Contents /\ left[t] \in SUBSET At[call[t].on]
          BY <1>0, <3>2 DEF TypeOK
        <4>2. [Overlay(Blank, mBuffer, At[call[t].on] \ left[t])
                 EXCEPT ![b] = mBuffer[b]]
                = Overlay(Blank, mBuffer, At[call[t].on] \ (left[t] \ {b}))
          BY <4>1, <3>3 DEF Overlay, Blank
        <4> QED
          BY <3>4, <3>5, <4>2
      <3> QED
        BY <2>6, <3>2, <3>5, <3>6 DEF CopyOut, Progress, Accepted
    <2>7. CASE CopyOutEnds(t)
      <3>1. Overlay(Blank, mBuffer, At[call[t].on] \ left[t])
              = Overlay(Blank, mBuffer, At[call[t].on])
        BY <2>7 DEF CopyOutEnds
      <3>2. CASE call[t].op = "increment"
        BY <2>0, <2>7, <3>1, <3>2 DEF CopyOutEnds, Progress, Accepted
      <3>3. CASE call[t].op # "increment"
        BY <2>0, <2>7, <3>3 DEF CopyOutEnds, Progress
      <3> QED
        BY <3>2, <3>3
    <2>8. CASE Increment(t)
      BY <2>0, <2>8 DEF Increment, Progress, Accepted
    <2>9. CASE CopyIn(t)
      <3>1. left'[t] \subseteq left[t] /\ pc' = pc /\ call' = call
        BY <2>0, <2>9 DEF CopyIn
      <3> QED
        BY <2>0, <2>9, <3>1 DEF CopyIn, Progress, Accepted
    <2>10. CASE AlreadyMax(t) \/ CopyInEnds(t) \/ ReleaseLock(t) \/ Return(t)
      BY <2>0, <2>10 DEF AlreadyMax, CopyInEnds, ReleaseLock, Return, Progress
    <2> QED
      BY <1>2, <2>1, <2>2, <2>4, <2>5, <2>6, <2>7, <2>8, <2>9, <2>10 DEF Body
  <1> QED
    BY <1>3, <1>4

LEMMA Inductive == IInv /\ [Next]_vars => IInv'
  BY TypeStep, ExclusiveStep, ProgressStep DEF IInv

(* The variables keep their types: the lock has an owner or none, and what *)
(* threads keep are bytes (mBuffer, mLock of DataVector.hpp). *)
THEOREM TypeCorrect == Spec => []TypeOK
  <1>1. IInv => TypeOK
    BY DEF IInv
  <1> QED
    BY InitInductive, Inductive, <1>1, PTL DEF Spec

-----------------------------------------------------------------------------
(* The refinement. *)

LEMMA SameCalls ==
  ASSUME NEW m, NEW c
  PROVE  /\ Atomic!After(m, c) = After(m, c)
         /\ Atomic!ReturnOf(m, c) = ReturnOf(m, c)
         /\ Atomic!DataOf(m, c) = DataOf(m, c)
         /\ Atomic!Contents = Contents
         /\ Atomic!NoAnswer = [ret |-> "none", data |-> Blank]
  <1>1. Atomic!Verdict(c) = Verdict(c) /\ Atomic!Blank = Blank
    BY DEF Atomic!Verdict, Verdict, Atomic!Blank, Blank
  <1>2. Atomic!Accepted(c) <=> Accepted(c)
    BY <1>1 DEF Atomic!Accepted, Accepted
  <1>3. /\ \A d, S : Atomic!Overlay(m, d, S) = Overlay(m, d, S)
        /\ \A S : Atomic!Overlay(Atomic!Blank, m, S) = Overlay(Blank, m, S)
    BY <1>1 DEF Atomic!Overlay, Overlay
  <1>4. /\ Atomic!IsMax(m, c.on) <=> IsMax(m, c.on)
        /\ Atomic!PlusOne(m, c.on) = PlusOne(m, c.on)
    BY DEF Atomic!IsMax, IsMax, Atomic!IsLast, IsLast, Atomic!PlusOne, PlusOne
  <1>5. Atomic!ReturnOf(m, c) = ReturnOf(m, c)
    BY <1>1, <1>2, <1>4 DEF Atomic!ReturnOf, ReturnOf
  <1>6. Atomic!DataOf(m, c) = DataOf(m, c)
    BY <1>1, <1>2, <1>3 DEF Atomic!DataOf, DataOf
  <1>7. Atomic!After(m, c) = After(m, c)
    BY <1>3, <1>4, <1>5 DEF Atomic!After, After
  <1>8. Atomic!Contents = Contents
    BY DEF Atomic!Contents, Contents, Atomic!ByteValue, ByteValue
  <1> QED
    BY <1>1, <1>5, <1>6, <1>7, <1>8 DEF Atomic!NoAnswer

(* A call that is refused, or that only reads, leaves the bytes alone. *)
LEMMA AfterRefused ==
  ASSUME NEW m, NEW c \in Calls, ~Accepted(c)
  PROVE  /\ After(m, c) = m
         /\ ReturnOf(m, c) = Verdict(c)
         /\ DataOf(m, c) = Blank
         /\ Verdict(c) # "E_SUCCESS"
  BY DEF After, ReturnOf, DataOf, Accepted

LEMMA AfterRead ==
  ASSUME NEW m, NEW c \in Calls, Accepted(c), c.op = "read"
  PROVE  /\ After(m, c) = m
         /\ ReturnOf(m, c) = "E_SUCCESS"
         /\ DataOf(m, c) = Overlay(Blank, m, At[c.on])
  BY DEF After, ReturnOf, DataOf, Accepted

LEMMA AfterWrite ==
  ASSUME NEW m, NEW c \in Calls, Accepted(c), c.op = "write"
  PROVE  /\ After(m, c) = Overlay(m, c.data, At[c.on])
         /\ ReturnOf(m, c) = "E_SUCCESS"
         /\ DataOf(m, c) = Blank
  BY DEF After, ReturnOf, DataOf, Accepted

LEMMA AfterIncrement ==
  ASSUME NEW m, NEW c \in Calls, Accepted(c), c.op = "increment"
  PROVE  /\ IsMax(m, c.on) => After(m, c) = m /\ ReturnOf(m, c) = "E_ALREADY_MAX"
         /\ ~IsMax(m, c.on) => /\ After(m, c) = PlusOne(m, c.on)
                               /\ ReturnOf(m, c) = "E_SUCCESS"
         /\ DataOf(m, c) = Blank
  BY DEF After, ReturnOf, DataOf, Accepted

(* What t does leaves the other threads' part of the abstract state alone. *)
Still(t) ==
  \A u \in Threads \ {t} :
    /\ pc'[u] = pc[u] /\ call'[u] = call[u] /\ left'[u] = left[u]
    /\ local'[u] = local[u] /\ ret'[u] = ret[u]

LEMMA OthersAreStill ==
  ASSUME TypeOK, NEW t \in Threads,
         \/ \E c \in Calls : Invoke(t, c)
         \/ AcquireLock(t) \/ Body(t) \/ Return(t)
  PROVE  Still(t)
  BY DEF Still, Body, Invoke, CheckArguments, AcquireLock, Begin, VerifyElement,
     CopyOut, CopyOutEnds, AlreadyMax, Increment, CopyIn, CopyInEnds,
     ReleaseLock, Return, TypeOK, Goto

LEMMA OthersAnswer ==
  ASSUME IInv, NEW t \in Threads, Still(t), mBuffer' = mBuffer \/ mLock = t,
         NEW u \in Threads \ {t}
  PROVE  Phase(u)' = Phase(u) /\ Answer(u)' = Answer(u)
  <1>1. pc'[u] = pc[u] /\ call'[u] = call[u] /\ local'[u] = local[u]
        /\ ret'[u] = ret[u]
    BY DEF Still
  <1>2. Phase(u)' = Phase(u)
    BY <1>1 DEF Phase, Critical
  <1>3. mBuffer' = mBuffer \/ pc[u] \notin Critical
    BY DEF IInv, Exclusive
  <1>4. ASSUME mBuffer' = mBuffer PROVE Answer(u)' = Answer(u)
    BY <1>1, <1>4 DEF Answer
  <1>5. ASSUME pc[u] \notin Critical PROVE Answer(u)' = Answer(u)
    <2>1. pc[u] \in {"idle", "check", "lock", "return"}
      BY <1>5 DEF IInv, TypeOK, Place, Critical
    <2> QED
      BY <1>1, <2>1 DEF Answer
  <1> QED
    BY <1>2, <1>3, <1>4, <1>5

(* The four ways a step looks from outside. *)
LEMMA LooksUnchanged ==
  ASSUME IInv, NEW t \in Threads, Still(t), mBuffer' = mBuffer \/ mLock = t,
         Memory' = Memory, call' = call,
         Phase(t)' = Phase(t), Answer(t)' = Answer(t)
  PROVE  UNCHANGED Atomic!vars
  <1>1. \A u \in Threads : Phase(u)' = Phase(u) /\ Answer(u)' = Answer(u)
    BY OthersAnswer
  <1>2. /\ [u \in Threads |-> Phase(u)]' = [u \in Threads |-> Phase(u)]
        /\ [u \in Threads |-> Answer(u)]' = [u \in Threads |-> Answer(u)]
    BY <1>1
  <1> QED
    BY <1>2 DEF Atomic!vars

LEMMA Functions ==
  ASSUME IInv, NEW t \in Threads, Still(t), mBuffer' = mBuffer \/ mLock = t
  PROVE  /\ [u \in Threads |-> Phase(u)]'
               = [[u \in Threads |-> Phase(u)] EXCEPT ![t] = Phase(t)']
         /\ [u \in Threads |-> Answer(u)]'
               = [[u \in Threads |-> Answer(u)] EXCEPT ![t] = Answer(t)']
         /\ [u \in Threads |-> Phase(u)][t] = Phase(t)
         /\ [u \in Threads |-> Answer(u)][t] = Answer(t)
  <1>1. \A u \in Threads \ {t} : Phase(u)' = Phase(u) /\ Answer(u)' = Answer(u)
    BY OthersAnswer
  <1> QED
    BY <1>1

LEMMA LooksInvoked ==
  ASSUME IInv, NEW t \in Threads, Still(t), mBuffer' = mBuffer,
         Memory' = Memory, NEW c \in Calls, call' = [call EXCEPT ![t] = c],
         Phase(t) = "idle", Phase(t)' = "called", Answer(t)' = Answer(t)
  PROVE  Atomic!Next
  <1>1. [u \in Threads |-> Answer(u)]' = [u \in Threads |-> Answer(u)]
    <2>1. \A u \in Threads : Answer(u)' = Answer(u)
      BY OthersAnswer
    <2> QED
      BY <2>1
  <1>2. Atomic!Invoke(t)
    BY <1>1, Functions DEF Atomic!Invoke
  <1> QED
    BY <1>2 DEF Atomic!Next

LEMMA LooksHappened ==
  ASSUME IInv, NEW t \in Threads, Still(t), mBuffer' = mBuffer,
         Memory' = After(Memory, call[t]), call' = call,
         Phase(t) = "called", Phase(t)' = "done",
         Answer(t)' = [ret |-> ReturnOf(Memory, call[t]),
                       data |-> DataOf(Memory, call[t])]
  PROVE  Atomic!Next
  <1>1. /\ Atomic!After(Memory, call[t]) = After(Memory, call[t])
        /\ Atomic!ReturnOf(Memory, call[t]) = ReturnOf(Memory, call[t])
        /\ Atomic!DataOf(Memory, call[t]) = DataOf(Memory, call[t])
    BY SameCalls
  <1>2. Atomic!Happen(t)
    BY <1>1, Functions DEF Atomic!Happen
  <1> QED
    BY <1>2 DEF Atomic!Next

LEMMA LooksReturned ==
  ASSUME IInv, NEW t \in Threads, Still(t), mBuffer' = mBuffer,
         Memory' = Memory, call' = call,
         Phase(t) = "done", Phase(t)' = "idle",
         Answer(t)' = [ret |-> "none", data |-> Blank]
  PROVE  Atomic!Next
  <1>1. Atomic!Return(t)
    BY Functions, SameCalls DEF Atomic!Return
  <1> QED
    BY <1>1 DEF Atomic!Next

(* The bytes as others will find them, when t is not the owner. *)
LEMMA MemoryOfOthers ==
  ASSUME IInv, NEW t \in Threads, Still(t), mLock # t, mLock' = mLock,
         mBuffer' = mBuffer
  PROVE  Memory' = Memory
  <1>1. CASE mLock = NoThread
    BY <1>1 DEF Memory
  <1>2. CASE mLock # NoThread
    <2>1. mLock \in Threads \ {t}
      BY <1>2 DEF IInv, TypeOK
    <2>2. /\ pc'[mLock] = pc[mLock] /\ call'[mLock] = call[mLock]
          /\ left'[mLock] = left[mLock] /\ local'[mLock] = local[mLock]
      BY <2>1 DEF Still
    <2> QED
      BY <2>2 DEF Memory
  <1> QED
    BY <1>1, <1>2

(* What the call of the owner is going to have done. *)
LEMMA MemoryOfOwner ==
  ASSUME TypeOK, mLock \in Threads
  PROVE  /\ pc[mLock] \in {"unlock", "return"} => Memory = mBuffer
         /\ pc[mLock] = "copyIn" =>
              Memory = Overlay(mBuffer, local[mLock], left[mLock])
         /\ pc[mLock] \in {"verify", "copyOut", "max"} =>
              Memory = After(mBuffer, call[mLock])
  BY ThreadAssumption DEF Memory

LEMMA MemoryOfOwnerNext ==
  ASSUME TypeOK', mLock' \in Threads
  PROVE  /\ pc'[mLock'] \in {"unlock", "return"} => Memory' = mBuffer'
         /\ pc'[mLock'] = "copyIn" =>
              Memory' = Overlay(mBuffer', local'[mLock'], left'[mLock'])
         /\ pc'[mLock'] \in {"verify", "copyOut", "max"} =>
              Memory' = After(mBuffer', call'[mLock'])
  BY ThreadAssumption DEF Memory

(* A call that begins to copy looks as if it had already happened. *)
LEMMA BeginLooksDone ==
  ASSUME IInv, IInv', NEW t \in Threads, Begin(t), Accepted(call[t]),
         local[t] = IF call[t].op = "write" THEN call[t].data ELSE Blank,
         mLock' = t, UNCHANGED <<mBuffer, call, local>>
  PROVE  /\ Memory' = After(mBuffer, call[t])
         /\ Phase(t)' = "done"
         /\ Answer(t)' = [ret |-> ReturnOf(mBuffer, call[t]),
                          data |-> DataOf(mBuffer, call[t])]
  <1>0. TypeOK /\ TypeOK' /\ call[t] \in Calls
    BY DEF IInv, TypeOK
  <1>1. /\ left'[t] = At[call[t].on]
        /\ pc'[t] = IF call[t].op = "write" THEN "copyIn" ELSE "copyOut"
    BY <1>0 DEF Begin, Goto, TypeOK
  <1>2. CASE call[t].op = "write"
    <2>1. Memory' = Overlay(mBuffer, call[t].data, At[call[t].on])
      BY <1>0, <1>1, <1>2, MemoryOfOwnerNext
    <2> QED
      BY <1>0, <1>1, <1>2, <2>1, AfterWrite DEF Phase, Answer, Critical
  <1>3. CASE call[t].op # "write"
    <2>1. Memory' = After(mBuffer, call[t])
      BY <1>0, <1>1, <1>3, MemoryOfOwnerNext
    <2> QED
      BY <1>1, <1>3, <2>1 DEF Phase, Answer, Critical
  <1> QED
    BY <1>2, <1>3

LEMMA OutsideSteps ==
  ASSUME IInv, IInv', NEW t \in Threads, Still(t),
         (\E c \in Calls : Invoke(t, c)) \/ CheckArguments(t) \/ Return(t)
  PROVE  [Atomic!Next]_Atomic!vars
  <1>0. TypeOK /\ call[t] \in Calls /\ pc[t] \in Place
    BY DEF IInv, TypeOK
  <1>1. mBuffer' = mBuffer /\ mLock' = mLock /\ pc[t] \notin Critical
    BY DEF Invoke, CheckArguments, Return, Critical
  <1>2. Memory' = Memory
    <2>1. mLock # t
      BY <1>1 DEF IInv, Exclusive
    <2> QED
      BY <1>1, <2>1, MemoryOfOthers
  <1>3. ASSUME NEW c \in Calls, Invoke(t, c) PROVE Atomic!Next
    <2>1. pc[t] = "idle" /\ pc'[t] \in {"check", "lock"}
      BY <1>0, <1>3 DEF Invoke, Goto, TypeOK
    <2>2. call' = [call EXCEPT ![t] = c]
      BY <1>3 DEF Invoke
    <2>3. Phase(t) = "idle" /\ Phase(t)' = "called" /\ Answer(t)' = Answer(t)
      BY <2>1 DEF Phase, Answer, Critical
    <2> QED
      BY <1>1, <1>2, <2>2, <2>3, LooksInvoked
  <1>4. CASE CheckArguments(t) /\ Accepted(call[t])
    <2>1. pc[t] = "check" /\ pc'[t] = "lock" /\ call' = call
      BY <1>0, <1>4 DEF CheckArguments, Goto, TypeOK
    <2>2. Phase(t)' = Phase(t) /\ Answer(t)' = Answer(t)
      BY <2>1 DEF Phase, Answer
    <2> QED
      BY <1>1, <1>2, <2>1, <2>2, LooksUnchanged
  <1>5. CASE CheckArguments(t) /\ ~Accepted(call[t])
    <2>1. pc[t] = "check" /\ pc'[t] = "return" /\ call' = call
          /\ ret'[t] = Verdict(call[t])
      BY <1>0, <1>5 DEF CheckArguments, Goto, TypeOK
    <2>2. /\ After(Memory, call[t]) = Memory
          /\ ReturnOf(Memory, call[t]) = Verdict(call[t])
          /\ DataOf(Memory, call[t]) = Blank
          /\ Verdict(call[t]) # "E_SUCCESS"
      BY <1>0, <1>5, AfterRefused
    <2>3. Phase(t) = "called" /\ Phase(t)' = "done"
      BY <2>1 DEF Phase, Critical
    <2>4. Answer(t)' = [ret |-> ReturnOf(Memory, call[t]),
                        data |-> DataOf(Memory, call[t])]
      BY <2>1, <2>2 DEF Answer
    <2> QED
      BY <1>1, <1>2, <2>1, <2>2, <2>3, <2>4, LooksHappened
  <1>6. CASE Return(t)
    <2>1. pc[t] = "return" /\ pc'[t] = "idle" /\ call' = call
      BY <1>0, <1>6 DEF Return, Goto, TypeOK
    <2>2. Phase(t) = "done" /\ Phase(t)' = "idle"
          /\ Answer(t)' = [ret |-> "none", data |-> Blank]
      BY <2>1 DEF Phase, Answer, Critical
    <2> QED
      BY <1>1, <1>2, <2>1, <2>2, LooksReturned
  <1> QED
    BY <1>3, <1>4, <1>5, <1>6

(* A call happens when it gets the lock. *)
LEMMA AcquireHappens ==
  ASSUME IInv, IInv', NEW t \in Threads, Still(t), AcquireLock(t)
  PROVE  Atomic!Next
  <1>0. TypeOK /\ TypeOK' /\ call[t] \in Calls /\ Progress(t)
    BY DEF IInv, TypeOK
  <1>1. pc[t] = "lock" /\ mLock = NoThread /\ mLock' = t
        /\ UNCHANGED <<mBuffer, call, local>>
    BY DEF AcquireLock, IInv, Exclusive, Critical
  <1>2. Memory = mBuffer /\ Phase(t) = "called"
    BY <1>1 DEF Memory, Phase, Critical
  <1>3. local[t] = IF call[t].op = "write" THEN call[t].data ELSE Blank
    BY <1>0, <1>1 DEF Progress
  <1>4. /\ Memory' = After(mBuffer, call[t])
        /\ Phase(t)' = "done"
        /\ Answer(t)' = [ret |-> ReturnOf(mBuffer, call[t]),
                         data |-> DataOf(mBuffer, call[t])]
    <2>1. CASE ChecksFirst(call[t])
      <3>1. Begin(t) /\ Accepted(call[t])
        BY <1>0, <1>1, <2>1, ThreadAssumption DEF AcquireLock, Progress
      <3> QED
        BY <1>1, <1>3, <3>1, BeginLooksDone
    <2>2. CASE ~ChecksFirst(call[t])
      <3>1. pc'[t] = "verify"
        BY <1>0, <1>1, <2>2, ThreadAssumption DEF AcquireLock, Goto, TypeOK
      <3>2. Memory' = After(mBuffer, call[t])
        BY <1>0, <1>1, <3>1, MemoryOfOwnerNext
      <3> QED
        BY <1>1, <3>1, <3>2 DEF Phase, Answer, Critical
    <2> QED
      BY <2>1, <2>2
  <1> QED
    BY <1>1, <1>2, <1>4, LooksHappened

(* What the owner does afterwards is invisible. *)
LEMMA OwnerIsInvisible ==
  ASSUME IInv, IInv', NEW t \in Threads, Still(t),
         \/ VerifyElement(t) \/ CopyOut(t) \/ CopyOutEnds(t)
         \/ AlreadyMax(t) \/ Increment(t) \/ CopyIn(t) \/ CopyInEnds(t)
         \/ ReleaseLock(t)
  PROVE  UNCHANGED Atomic!vars
  <1>0. TypeOK /\ TypeOK' /\ call[t] \in Calls /\ Progress(t) /\ Progress(t)'
    BY DEF IInv, TypeOK
  <1>1. call' = call /\ mLock = t /\ pc[t] \in Critical
    BY DEF VerifyElement, CopyOut, CopyOutEnds, AlreadyMax, Increment, CopyIn,
       CopyInEnds, ReleaseLock, IInv, Exclusive, Critical
  <1>2. SUFFICES Memory' = Memory /\ Phase(t)' = Phase(t) /\ Answer(t)' = Answer(t)
    BY <1>1, LooksUnchanged
  <1>3. CASE VerifyElement(t) /\ Accepted(call[t])
    <2>1. Memory = After(mBuffer, call[t])
      BY <1>0, <1>1, <1>3, MemoryOfOwner DEF VerifyElement
    <2>2. Phase(t) = "done" /\ Answer(t) = [ret |-> ReturnOf(mBuffer, call[t]),
                                            data |-> DataOf(mBuffer, call[t])]
      BY <1>3 DEF VerifyElement, Phase, Answer, Critical
    <2>3. local[t] = IF call[t].op = "write" THEN call[t].data ELSE Blank
      BY <1>0, <1>3 DEF VerifyElement, Progress
    <2> QED
      BY <1>1, <1>3, <2>1, <2>2, <2>3, BeginLooksDone DEF VerifyElement
  <1>4. CASE VerifyElement(t) /\ ~Accepted(call[t])
    <2>1. pc[t] = "verify" /\ pc'[t] = "unlock" /\ ret'[t] = Verdict(call[t])
          /\ mBuffer' = mBuffer /\ mLock' = t
      BY <1>0, <1>1, <1>4 DEF VerifyElement, Goto, TypeOK
    <2>2. Memory = After(mBuffer, call[t]) /\ Memory' = mBuffer
      BY <1>0, <1>1, <2>1, MemoryOfOwner, MemoryOfOwnerNext
    <2>3. /\ After(mBuffer, call[t]) = mBuffer
          /\ ReturnOf(mBuffer, call[t]) = Verdict(call[t])
          /\ DataOf(mBuffer, call[t]) = Blank
          /\ Verdict(call[t]) # "E_SUCCESS"
      BY <1>0, <1>4, AfterRefused
    <2> QED
      BY <1>1, <2>1, <2>2, <2>3 DEF Phase, Answer, Critical
  <1>5. CASE CopyOut(t)
    <2>1. pc[t] = "copyOut" /\ pc'[t] = "copyOut" /\ mBuffer' = mBuffer /\ mLock' = t
      BY <1>1, <1>5 DEF CopyOut
    <2>2. Memory = After(mBuffer, call[t]) /\ Memory' = After(mBuffer, call[t])
      BY <1>0, <1>1, <2>1, MemoryOfOwner, MemoryOfOwnerNext
    <2> QED
      BY <1>1, <2>1, <2>2 DEF Phase, Answer
  <1>6. CASE CopyOutEnds(t)
    <2>0. pc[t] = "copyOut" /\ mBuffer' = mBuffer /\ mLock' = t /\ left[t] = {}
          /\ local' = local
      BY <1>1, <1>6 DEF CopyOutEnds
    <2>1. Memory = After(mBuffer, call[t])
      BY <1>0, <1>1, <2>0, MemoryOfOwner
    <2>2. CASE call[t].op = "increment"
      <3>1. pc'[t] = "max"
        BY <1>0, <1>6, <2>2 DEF CopyOutEnds, Goto, TypeOK
      <3>2. Memory' = After(mBuffer, call[t])
        BY <1>0, <1>1, <2>0, <3>1, MemoryOfOwnerNext
      <3> QED
        BY <1>1, <2>0, <2>1, <3>1, <3>2 DEF Phase, Answer, Critical
    <2>3. CASE call[t].op # "increment"
      <3>1. pc'[t] = "unlock" /\ ret'[t] = "E_SUCCESS"
        BY <1>0, <1>6, <2>3 DEF CopyOutEnds, Goto, TypeOK
      <3>2. Memory' = mBuffer
        BY <1>0, <1>1, <2>0, <3>1, MemoryOfOwnerNext
      <3>3. /\ call[t].op = "read" /\ Accepted(call[t])
            /\ local[t] = Overlay(Blank, mBuffer, At[call[t].on])
        <4>1. call[t].op = "read"
          BY <1>0, <2>0, <2>3, CallData DEF Progress
        <4>2. At[call[t].on] \ {} = At[call[t].on]
          OBVIOUS
        <4> QED
          BY <1>0, <2>0, <4>1, <4>2 DEF Progress
      <3>4. /\ After(mBuffer, call[t]) = mBuffer
            /\ ReturnOf(mBuffer, call[t]) = "E_SUCCESS"
            /\ DataOf(mBuffer, call[t]) = local[t]
        BY <1>0, <3>3, AfterRead
      <3> QED
        BY <1>1, <2>0, <2>1, <3>1, <3>2, <3>3, <3>4 DEF Phase, Answer, Critical
    <2> QED
      BY <2>2, <2>3
  <1>7. CASE AlreadyMax(t) \/ Increment(t)
    <2>0. /\ pc[t] = "max" /\ mBuffer' = mBuffer /\ mLock' = t
          /\ call[t].op = "increment" /\ Accepted(call[t])
          /\ local[t] = Overlay(Blank, mBuffer, At[call[t].on])
      BY <1>0, <1>1, <1>7 DEF AlreadyMax, Increment, Progress
    <2>1. Memory = After(mBuffer, call[t])
      BY <1>0, <1>1, <2>0, MemoryOfOwner
    <2>2. /\ IsMax(local[t], call[t].on) <=> IsMax(mBuffer, call[t].on)
          /\ Overlay(mBuffer, PlusOne(local[t], call[t].on), At[call[t].on])
               = PlusOne(mBuffer, call[t].on)
      <3>1. call[t].on \in Elem \cup Region /\ mBuffer \in Contents
        BY <1>0, <2>0, AcceptedCall DEF TypeOK
      <3> QED
        BY <2>0, <3>1, CopyOfElement
    <2>3. CASE AlreadyMax(t)
      <3>1. pc'[t] = "unlock" /\ ret'[t] = "E_ALREADY_MAX"
        BY <1>0, <2>3 DEF AlreadyMax, Goto, TypeOK
      <3>2. Memory' = mBuffer
        BY <1>0, <1>1, <2>0, <3>1, MemoryOfOwnerNext
      <3>3. /\ After(mBuffer, call[t]) = mBuffer
            /\ ReturnOf(mBuffer, call[t]) = "E_ALREADY_MAX"
            /\ DataOf(mBuffer, call[t]) = Blank
        BY <1>0, <2>0, <2>2, <2>3, AfterIncrement DEF AlreadyMax
      <3> QED
        BY <1>1, <2>0, <2>1, <3>1, <3>2, <3>3 DEF Phase, Answer, Critical
    <2>4. CASE Increment(t)
      <3>1. /\ pc'[t] = "copyIn" /\ left'[t] = At[call[t].on]
            /\ local'[t] = PlusOne(local[t], call[t].on)
        BY <1>0, <2>4 DEF Increment, Goto, TypeOK
      <3>2. Memory' = PlusOne(mBuffer, call[t].on)
        BY <1>0, <1>1, <2>0, <2>2, <3>1, MemoryOfOwnerNext
      <3>3. /\ After(mBuffer, call[t]) = PlusOne(mBuffer, call[t].on)
            /\ ReturnOf(mBuffer, call[t]) = "E_SUCCESS"
            /\ DataOf(mBuffer, call[t]) = Blank
        BY <1>0, <2>0, <2>2, <2>4, AfterIncrement DEF Increment
      <3> QED
        BY <1>1, <2>0, <2>1, <3>1, <3>2, <3>3 DEF Phase, Answer, Critical
    <2> QED
      BY <1>7, <2>3, <2>4
  <1>8. CASE CopyIn(t)
    <2>1. PICK b \in left[t] :
            /\ mBuffer' = [mBuffer EXCEPT ![b] = local[t][b]]
            /\ left' = [left EXCEPT ![t] = @ \ {b}]
      BY <1>8 DEF CopyIn
    <2>2. pc[t] = "copyIn" /\ pc'[t] = "copyIn" /\ local' = local /\ mLock' = t
          /\ left'[t] = left[t] \ {b} /\ mBuffer \in Contents
      BY <1>0, <1>1, <1>8, <2>1 DEF CopyIn, TypeOK
    <2>3. /\ Memory = Overlay(mBuffer, local[t], left[t])
          /\ Memory' = Overlay(mBuffer', local[t], left[t] \ {b})
      BY <1>0, <1>1, <2>2, MemoryOfOwner, MemoryOfOwnerNext
    <2>4. Memory' = Memory
      <3>1. \A d \in Bytes : IF d \in left[t] \ {b}
                             THEN TRUE
                             ELSE mBuffer'[d] = IF d \in left[t] THEN local[t][d]
                                                                 ELSE mBuffer[d]
        BY <2>1, <2>2 DEF Contents
      <3> QED
        BY <2>3, <3>1 DEF Overlay
    <2> QED
      BY <1>1, <2>2, <2>4 DEF Phase, Answer
  <1>9. CASE CopyInEnds(t)
    <2>1. pc[t] = "copyIn" /\ left[t] = {} /\ pc'[t] = "unlock" /\ mLock' = t
          /\ ret'[t] = "E_SUCCESS" /\ mBuffer' = mBuffer /\ mBuffer \in Contents
          /\ call[t].op # "read"
      BY <1>0, <1>1, <1>9 DEF CopyInEnds, Goto, TypeOK, Progress
    <2>2. Memory = Overlay(mBuffer, local[t], {}) /\ Memory' = mBuffer
      BY <1>0, <1>1, <2>1, MemoryOfOwner, MemoryOfOwnerNext
    <2>3. Memory' = Memory
      BY <2>1, <2>2, OverlayNothing
    <2> QED
      BY <1>1, <2>1, <2>3 DEF Phase, Answer, Critical
  <1>10. CASE ReleaseLock(t)
    <2>1. pc[t] = "unlock" /\ pc'[t] = "return" /\ mLock' = NoThread
          /\ UNCHANGED <<mBuffer, local, ret>>
      BY <1>0, <1>1, <1>10 DEF ReleaseLock, Goto, TypeOK
    <2>2. Memory = mBuffer /\ Memory' = mBuffer
      BY <1>1, <2>1 DEF Memory
    <2> QED
      BY <1>1, <2>1, <2>2 DEF Phase, Answer, Critical
  <1> QED
    BY <1>3, <1>4, <1>5, <1>6, <1>7, <1>8, <1>9, <1>10

LEMMA InitAtomic == Init => Atomic!Init
  <1> SUFFICES ASSUME Init PROVE Atomic!Init
    OBVIOUS
  <1>1. TypeOK
    BY InitInductive DEF IInv
  <1>2. Memory = mBuffer
    BY DEF Init, Memory
  <1>3. \A t \in Threads : Phase(t) = "idle"
                           /\ Answer(t) = [ret |-> "none", data |-> Blank]
    BY DEF Init, Phase, Answer, Critical
  <1>4. /\ Atomic!Contents = Contents
        /\ Atomic!NoAnswer = [ret |-> "none", data |-> Blank]
    BY SameCalls
  <1> QED
    BY <1>1, <1>2, <1>3, <1>4 DEF Atomic!Init, TypeOK

(* Every step of the threads looks from outside like one of these. *)
LEMMA AtomicStep ==
  ASSUME IInv, IInv', [Next]_vars
  PROVE  [Atomic!Next]_Atomic!vars
  <1>1. CASE UNCHANGED vars
    <2>1. \A t \in Threads : Phase(t)' = Phase(t) /\ Answer(t)' = Answer(t)
      BY <1>1 DEF vars, Phase, Answer
    <2>2. Memory' = Memory
      BY <1>1 DEF vars, Memory
    <2> QED
      BY <1>1, <2>1, <2>2 DEF vars, Atomic!vars
  <1>2. ASSUME NEW t \in Threads,
               \/ \E c \in Calls : Invoke(t, c)
               \/ AcquireLock(t) \/ Body(t) \/ Return(t)
        PROVE  [Atomic!Next]_Atomic!vars
    <2>1. Still(t)
      BY <1>2, OthersAreStill DEF IInv
    <2> QED
      BY <1>2, <2>1, OutsideSteps, AcquireHappens, OwnerIsInvisible DEF Body
  <1> QED
    BY <1>1, <1>2 DEF Next

(* Every call of the Data Vector happens at once, between its beginning    *)
(* and its end, for any number of threads, any layout of elements and      *)
(* regions and any calls (acquireLock and releaseLock in DataVector.hpp    *)
(* and DataVector.cpp). *)
THEOREM Atomicity == Spec => CallsAreAtomic
  <1>1. IInv /\ IInv' /\ [Next]_vars => [Atomic!Next]_Atomic!vars
    BY AtomicStep
  <1> QED
    BY InitInductive, Inductive, InitAtomic, <1>1, PTL
    DEF Spec, CallsAreAtomic, Atomic!Spec

-----------------------------------------------------------------------------
(* The logger. *)

(* Whatever else happens, the threads go on as they do without a logger. *)
LEMMA LoggerStep == [LogNext]_allVars => [Next]_vars
  <1> SUFFICES ASSUME [LogNext]_allVars PROVE [Next]_vars
    OBVIOUS
  <1>1. CASE UNCHANGED allVars
    BY <1>1 DEF allVars
  <1>2. CASE Construct \/ CopyByte \/ CopyLock \/ WriteSnapshot \/ WriteRow
             \/ WriteRowFails
    BY <1>2 DEF Construct, CopyByte, CopyLock, WriteSnapshot, WriteRow,
                WriteRowFails
  <1>3. CASE Log \/ DataVectorRead
    BY <1>3, LoggerAssumption DEF Log, DataVectorRead, Next
  <1>4. ASSUME NEW t \in Threads, ThreadCalls(t) \/ ThreadLocks(t) \/ ThreadGoesOn(t)
        PROVE  Next
    BY <1>4 DEF ThreadCalls, ThreadLocks, ThreadGoesOn, Next
  <1> QED
    BY <1>1, <1>2, <1>3, <1>4 DEF LogNext, LogStep

(* What an answer of the Data Vector can become in one step: it stays, it  *)
(* is what the call finds when it happens, or the caller has taken it.     *)
LEMMA AnswersInAStep ==
  ASSUME IInv, IInv', [Next]_vars, NEW u \in Threads
  PROVE  \/ Answer(u)' = Answer(u)
         \/ Answer(u)' = [ret |-> ReturnOf(Memory, call[u]),
                          data |-> DataOf(Memory, call[u])]
         \/ Answer(u)' = [ret |-> "none", data |-> Blank]
  <1> DEFINE answers == [t \in Threads |-> Answer(t)]
  <1>1. answers[u] = Answer(u) /\ answers'[u] = Answer(u)'
    OBVIOUS
  <1>2. /\ Atomic!ReturnOf(Memory, call[u]) = ReturnOf(Memory, call[u])
        /\ Atomic!DataOf(Memory, call[u]) = DataOf(Memory, call[u])
        /\ Atomic!NoAnswer = [ret |-> "none", data |-> Blank]
    BY SameCalls
  <1>3. CASE UNCHANGED Atomic!vars
    BY <1>1, <1>3 DEF Atomic!vars
  <1>4. ASSUME NEW t \in Threads, Atomic!Invoke(t) \/ Atomic!Happen(t) \/ Atomic!Return(t)
        PROVE  \/ answers'[u] = answers[u]
               \/ answers'[u] = [ret |-> Atomic!ReturnOf(Memory, call[u]),
                                 data |-> Atomic!DataOf(Memory, call[u])]
               \/ answers'[u] = Atomic!NoAnswer
    BY <1>4 DEF Atomic!Invoke, Atomic!Happen, Atomic!Return
  <1> QED
    BY AtomicStep, <1>1, <1>2, <1>3, <1>4 DEF Atomic!Next

(* What the logger has of the Data Vector is a state that the history      *)
(* has: on the way to it, while it is in the call of readDataVector, in    *)
(* its buffer, and at last in the snapshot.                                *)
RowInv ==
  /\ logPc = "read" =>
       /\ call[Logger] = ReadAll /\ pc[Logger] # "idle"
       /\ Memory \in seen
       /\ Answer(Logger).ret = "E_SUCCESS" => Answer(Logger).data \in seen
  /\ logPc = "snapshot" => mCopyBuffer \in seen
  /\ logPc = "write" => snapshot \in seen

LEMMA MemoryType ==
  ASSUME TypeOK
  PROVE  Memory = [b \in Bytes |-> Memory[b]]
  <1> DEFINE OfBytes(m) == m = [b \in Bytes |-> m[b]]
  <1>1. \A m, d, S : OfBytes(Overlay(m, d, S))
    BY DEF Overlay
  <1>2. \A m, e : OfBytes(PlusOne(m, e))
    BY DEF PlusOne
  <1>3. OfBytes(mBuffer)
    BY DEF TypeOK, Contents
  <1> SUFFICES OfBytes(Memory)
    OBVIOUS
  <1> HIDE DEF OfBytes
  <1>4. CASE mLock = NoThread \/ pc[mLock] \in {"unlock", "return"}
    BY <1>3, <1>4 DEF Memory
  <1>5. CASE ~(mLock = NoThread \/ pc[mLock] \in {"unlock", "return"})
             /\ pc[mLock] = "copyIn"
    BY <1>1, <1>5 DEF Memory
  <1>6. CASE ~(mLock = NoThread \/ pc[mLock] \in {"unlock", "return"})
             /\ pc[mLock] # "copyIn"
    <2>1. mLock \in Threads /\ call[mLock] \in Calls
      BY <1>6 DEF TypeOK
    <2>2. call[mLock].op \in {"read", "write", "increment"}
      BY <2>1, CallData
    <2>3. Memory = After(mBuffer, call[mLock])
      BY <1>6 DEF Memory
    <2>4. \/ After(mBuffer, call[mLock]) = mBuffer
          \/ After(mBuffer, call[mLock])
               = Overlay(mBuffer, call[mLock].data, At[call[mLock].on])
          \/ After(mBuffer, call[mLock]) = PlusOne(mBuffer, call[mLock].on)
      BY <2>2 DEF After
    <2> QED
      BY <1>1, <1>2, <1>3, <2>3, <2>4
  <1> QED
    BY <1>4, <1>5, <1>6

(* The logger's call of readDataVector answers with the whole of the bytes. *)
LEMMA ReadsAll ==
  ASSUME TypeOK
  PROVE  /\ ChecksFirst(ReadAll) /\ Accepted(ReadAll)
         /\ DataOf(Memory, ReadAll) = Memory
  <1>1. ReadAll.op = "read" /\ ReadAll.fits /\ At[ReadAll.on] = Bytes
        /\ ReadAll.on \in Region
    BY LoggerAssumption
  <1>2. ReadAll.on # NoElem /\ ReadAll.on # NoRegion
    BY <1>1, DvBytesAssumption
  <1>3. ChecksFirst(ReadAll) /\ Accepted(ReadAll)
    BY <1>1, <1>2 DEF ChecksFirst, Accepted, Verdict
  <1>4. DataOf(Memory, ReadAll) = [b \in Bytes |-> Memory[b]]
    BY <1>1, <1>3 DEF DataOf, Overlay
  <1> QED
    BY <1>3, <1>4, MemoryType

(* A step of a thread, while the logger is in its call and watches. *)
LEMMA WatchedStep ==
  ASSUME IInv, IInv', RowInv, [Next]_vars, logPc = "read", logPc' = "read",
         seen' = seen \cup {Memory'},
         call'[Logger] = ReadAll, pc'[Logger] # "idle",
         UNCHANGED <<mCopyBuffer, snapshot>>
  PROVE  RowInv'
  <1>1. /\ call[Logger] = ReadAll /\ Memory \in seen /\ Logger \in Threads
        /\ Answer(Logger).ret = "E_SUCCESS" => Answer(Logger).data \in seen
    BY LoggerAssumption DEF RowInv
  <1>2. DataOf(Memory, ReadAll) = Memory
    BY ReadsAll DEF IInv
  <1>3. (Answer(Logger)').ret = "E_SUCCESS" => (Answer(Logger)').data \in seen
    <2>1. CASE Answer(Logger)' = Answer(Logger)
      BY <1>1, <2>1
    <2>2. CASE Answer(Logger)' = [ret |-> ReturnOf(Memory, call[Logger]),
                                  data |-> DataOf(Memory, call[Logger])]
      BY <1>1, <1>2, <2>2
    <2>3. CASE Answer(Logger)' = [ret |-> "none", data |-> Blank]
      BY <2>3
    <2> QED
      BY <1>1, <2>1, <2>2, <2>3, AnswersInAStep
  <1> QED
    BY <1>3 DEF RowInv

LEMMA RowStep ==
  ASSUME IInv, IInv', RowInv, [LogNext]_allVars
  PROVE  RowInv'
  <1>0. [Next]_vars /\ Logger \in Threads /\ TypeOK
    BY LoggerStep, LoggerAssumption DEF IInv
  <1>1. ASSUME UNCHANGED vars
        PROVE  Memory' = Memory /\ Answer(Logger)' = Answer(Logger)
    BY <1>1 DEF vars, Memory, Answer
  <1>2. CASE UNCHANGED allVars
    BY <1>1, <1>2 DEF allVars, logVars, vars, RowInv
  <1>3. CASE Construct \/ CopyByte \/ CopyLock \/ WriteRow \/ WriteRowFails
    BY <1>3 DEF Construct, CopyByte, CopyLock, WriteRow, WriteRowFails, RowInv
  <1>4. CASE Log
    <2>1. Invoke(Logger, ReadAll) /\ logPc' = "read" /\ seen' = {Memory}
      BY <1>4 DEF Log
    <2>2. pc'[Logger] = "check" /\ call'[Logger] = ReadAll
      BY <1>0, <2>1, ReadsAll DEF Invoke, Goto, TypeOK
    <2>3. Memory' = Memory
      <3>1. /\ mBuffer' = mBuffer /\ mLock' = mLock /\ pc[Logger] = "idle"
            /\ ReadAll \in Calls
        BY <2>1, LoggerAssumption DEF Invoke
      <3>2. mLock # Logger
        BY <1>0, <3>1 DEF IInv, Exclusive, Critical
      <3>3. Still(Logger)
        BY <1>0, <2>1, <3>1, OthersAreStill
      <3> QED
        BY <1>0, <3>1, <3>2, <3>3, MemoryOfOthers
    <2>4. Answer(Logger)' = [ret |-> "none", data |-> Blank]
      BY <2>2 DEF Answer
    <2> QED
      BY <2>1, <2>2, <2>3, <2>4 DEF RowInv
  <1>5. CASE DataVectorRead
    <2>1. /\ logPc = "read" /\ pc[Logger] = "return"
          /\ IF ret[Logger] = "E_SUCCESS"
             THEN mCopyBuffer' = local[Logger] /\ logPc' = "snapshot"
             ELSE logPc' = "ready"
          /\ seen' = seen
      BY <1>5 DEF DataVectorRead, Return
    <2>2. ret[Logger] = "E_SUCCESS" => local[Logger] \in seen
      <3>1. call[Logger].op = "read"
        BY <2>1, LoggerAssumption DEF RowInv
      <3> QED
        BY <2>1, <3>1 DEF RowInv, Answer
    <2> QED
      BY <2>1, <2>2 DEF RowInv
  <1>6. CASE WriteSnapshot
    BY <1>6 DEF WriteSnapshot, RowInv
  <1>7. ASSUME NEW t \in Threads, ThreadCalls(t) \/ ThreadLocks(t) \/ ThreadGoesOn(t)
        PROVE  RowInv'
    <2>1. Watch
      BY <1>7 DEF ThreadCalls, ThreadLocks, ThreadGoesOn
    <2>2. CASE logPc = "read"
      <3>1. call[Logger] = ReadAll /\ pc[Logger] # "idle"
        BY <2>2 DEF RowInv
      <3>2. call'[Logger] = ReadAll /\ pc'[Logger] # "idle"
        <4>1. CASE t = Logger
          <5>1. AcquireLock(Logger) \/ Body(Logger)
            BY <1>7, <2>2, <4>1
            DEF ThreadCalls, ThreadLocks, ThreadGoesOn, Calling
          <5> QED
            BY <1>0, <3>1, <5>1 DEF TypeOK, AcquireLock, Begin, Body,
                 CheckArguments, VerifyElement, CopyOut, CopyOutEnds, AlreadyMax,
                 Increment, CopyIn, CopyInEnds, ReleaseLock, Goto
        <4>2. CASE t # Logger
          <5>1. Still(t)
            BY <1>0, <1>7, OthersAreStill
            DEF ThreadCalls, ThreadLocks, ThreadGoesOn
          <5> QED
            BY <1>0, <3>1, <4>2, <5>1 DEF Still
        <4> QED
          BY <4>1, <4>2
      <3> QED
        BY <1>0, <2>1, <2>2, <3>2, WatchedStep DEF Watch, logVars
    <2>3. CASE logPc # "read"
      BY <2>1, <2>3 DEF Watch, logVars, RowInv
    <2> QED
      BY <2>2, <2>3
  <1> QED
    BY <1>2, <1>3, <1>4, <1>5, <1>6, <1>7 DEF LogNext, LogStep

LEMMA LogInductive == LogSpec => [](IInv /\ RowInv)
  <1>1. LogInit => IInv /\ RowInv
    BY InitInductive DEF LogInit, RowInv
  <1>2. IInv /\ RowInv /\ [LogNext]_allVars => IInv' /\ RowInv'
    BY LoggerStep, Inductive, RowStep
  <1> QED
    BY <1>1, <1>2, PTL DEF LogSpec

(* The logger is one more user of the Data Vector: with it, too, every     *)
(* call of every thread happens at once (DataVectorLogger::log calls       *)
(* readDataVector like everybody else). *)
THEOREM LoggerKeepsAtomicity == LogSpec => CallsAreAtomic
  <1>1. LogInit => Init
    BY DEF LogInit
  <1> QED
    BY <1>1, LoggerStep, Atomicity, PTL DEF LogSpec, Spec

(* A row that log writes is one state of the Data Vector, which it had     *)
(* while log ran, for any number of threads that write meanwhile (log in   *)
(* DataVectorLogger.cpp). *)
THEOREM RowsAreWhole == LogSpec => RowsAreSnapshots
  <1>1. RowInv /\ [LogNext]_allVars
          => [row' \notin {row, NoRow} => row' \in seen]_allVars
    <2> SUFFICES ASSUME RowInv, LogNext, row' \notin {row, NoRow}
                 PROVE  row' \in seen
      OBVIOUS
    <2>1. row' = row \/ row' = NoRow \/ WriteRow
      BY DEF LogNext, LogStep, Construct, Log, CopyByte, CopyLock, DataVectorRead,
             WriteSnapshot, WriteRowFails, ThreadCalls, ThreadLocks,
             ThreadGoesOn, Watch, logVars
    <2> QED
      BY <2>1 DEF WriteRow, RowInv
  <1> QED
    BY LogInductive, <1>1, PTL DEF LogSpec, RowsAreSnapshots
=============================================================================
