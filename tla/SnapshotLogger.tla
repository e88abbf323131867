--------------------------- MODULE SnapshotLogger ---------------------------
(***************************************************************************)
(* The Data Vector logger in one thread, while other threads use the Data  *)
(* Vector.  log copies the bytes under the lock to a second Data Vector,   *)
(* the snapshot, and formats its row from there.  The constructor makes    *)
(* the snapshot with the copy constructor of DataVector, which takes no    *)
(* lock and copies mLock as it is: with its owner, who will never unlock   *)
(* the copy.                                                               *)
(***************************************************************************)
EXTENDS SharedDataVector

CONSTANTS
  Logger,     \* the thread that creates and calls the logger
  ReadAll,    \* its call of readDataVector
  NoRow

ASSUME LoggerAssumption ==
  /\ Logger \in Threads
  /\ ReadAll \in Calls
  /\ ReadAll.op = "read" /\ ReadAll.fits
  /\ ReadAll.on \in Region /\ At[ReadAll.on] = Bytes

VARIABLES
  logPc,         \* where the logger is
  toCopy,        \* bytes the copy constructor has not copied yet
  mCopyBuffer,
  snapshot,      \* mBuffer of mPDataVectorSnapshot
  snapshotLock,  \* the owner of its mutex
  row,           \* what this call of log, or else the last, wrote to the file
  seen           \* history: the states of the Data Vector during the last log

logVars == <<logPc, toCopy, mCopyBuffer, snapshot, snapshotLock, row>>
allVars == <<vars, logVars, seen>>

LogPlace == {"none", "construct", "ready", "read", "snapshot", "write"}

LogInit ==
  /\ Init
  /\ logPc = "none"
  /\ toCopy = {}
  /\ mCopyBuffer = Blank
  /\ snapshot = Blank
  /\ snapshotLock = NoThread
  /\ row = NoRow
  /\ seen = {}

-----------------------------------------------------------------------------

(* createNew: the file is open and the header is written.                  *)
Construct ==
  /\ logPc = "none" /\ pc[Logger] = "idle"
  /\ logPc' = "construct"
  /\ toCopy' = Bytes
  /\ UNCHANGED <<vars, mCopyBuffer, snapshot, snapshotLock, row, seen>>

CopyByte ==
  /\ logPc = "construct"
  /\ \E b \in toCopy :
       /\ snapshot' = [snapshot EXCEPT ![b] = mBuffer[b]]
       /\ toCopy' = toCopy \ {b}
  /\ UNCHANGED <<vars, logPc, mCopyBuffer, snapshotLock, row, seen>>

(* mLock is the last member of the class.                                  *)
CopyLock ==
  /\ logPc = "construct" /\ toCopy = {}
  /\ snapshotLock' = mLock
  /\ logPc' = "ready"
  /\ UNCHANGED <<vars, toCopy, mCopyBuffer, snapshot, row, seen>>

Log ==
  /\ logPc = "ready"
  /\ Invoke(Logger, ReadAll)
  /\ logPc' = "read"
  /\ seen' = {Memory} /\ row' = NoRow
  /\ UNCHANGED <<toCopy, mCopyBuffer, snapshot, snapshotLock>>

(* readDataVector returns.                                                 *)
DataVectorRead ==
  /\ logPc = "read"
  /\ Return(Logger)
  /\ IF ret[Logger] = "E_SUCCESS"
     THEN mCopyBuffer' = local[Logger] /\ logPc' = "snapshot"
     ELSE UNCHANGED mCopyBuffer /\ logPc' = "ready"
  /\ UNCHANGED <<toCopy, snapshot, snapshotLock, row, seen>>

(* writeDataVector on the snapshot, which no other thread uses: it blocks  *)
(* while somebody owns the mutex.  The thread of the logger is in no call  *)
(* when it constructs the logger, and does not own it.                     *)
WriteSnapshot ==
  /\ logPc = "snapshot"
  /\ snapshotLock = NoThread
  /\ snapshot' = mCopyBuffer
  /\ logPc' = "write"
  /\ UNCHANGED <<vars, toCopy, mCopyBuffer, snapshotLock, row, seen>>

(* A mistake: the values are read from the Data Vector itself.             *)
BugWriteRow ==
  /\ logPc = "write"
  /\ row' = mBuffer
  /\ logPc' = "ready" /\ seen' = {}
  /\ UNCHANGED <<vars, toCopy, mCopyBuffer, snapshot, snapshotLock>>

(* writeCsvRow, writeWatch: the values are read from the snapshot.         *)
WriteRow ==
  /\ logPc = "write"
  /\ row' = snapshot
  /\ logPc' = "ready" /\ seen' = {}
  /\ UNCHANGED <<vars, toCopy, mCopyBuffer, snapshot, snapshotLock>>

(* E_FAILED_TO_WRITE_FILE, E_FAILED_TO_SEEK *)
WriteRowFails ==
  /\ logPc = "write"
  /\ logPc' = "ready" /\ seen' = {}
  /\ UNCHANGED <<vars, toCopy, mCopyBuffer, snapshot, snapshotLock, row>>

(* The thread of the logger may be in a call of its own when it is in none *)
(* of the logger's functions.                                              *)
Calling(t) == t # Logger \/ logPc \in {"none", "ready"}

(* What the logger and the history see of a step of the Data Vector.       *)
Watch ==
  /\ seen' = IF logPc = "read" THEN seen \cup {Memory'} ELSE seen
  /\ UNCHANGED logVars

ThreadCalls(t) == Calling(t) /\ (\E c \in Calls : Invoke(t, c)) /\ Watch

ThreadLocks(t) == AcquireLock(t) /\ Watch

ThreadGoesOn(t) == (Body(t) \/ (Calling(t) /\ Return(t))) /\ Watch

LogStep ==
  \/ CopyByte \/ CopyLock
  \/ DataVectorRead \/ WriteSnapshot
  \/ WriteRow \/ WriteRowFails

LogNext ==
  \/ Construct \/ Log \/ LogStep
  \/ \E t \in Threads : ThreadCalls(t) \/ ThreadLocks(t) \/ ThreadGoesOn(t)

LogSpec == LogInit /\ [][LogNext]_allVars

(* The threads and the logger go on with what they have begun, and a       *)
(* waiting thread gets the mutex at last: those that wait are served in    *)
(* the order of their priorities and then of their arrival, and threads of *)
(* a higher priority wait for their next period between their calls.       *)
LogFairSpec ==
  /\ LogSpec
  /\ WF_allVars(LogStep)
  /\ \A t \in Threads : WF_allVars(ThreadGoesOn(t)) /\ SF_allVars(ThreadLocks(t))

-----------------------------------------------------------------------------
(* What log writes is one state of the Data Vector, which it had while log *)
(* ran, however much other threads write meanwhile, and although the copy  *)
(* that the constructor made may be torn.                                  *)
RowsAreSnapshots == [][row' \notin {row, NoRow} => row' \in seen]_allVars

(* A logger that was made while no thread had the lock always returns from *)
(* log.                                                                    *)
LogReturns ==
  (logPc = "read" /\ snapshotLock = NoThread) ~> (logPc = "ready")

(* "A lock is used for thread synchronization to ensure only 1 thread is   *)
(* accessing the Data Vector at once" (DataVector.hpp).                    *)
OneThreadAtOnce ==
  [][LogStep /\ snapshot' # snapshot /\ logPc = "construct"
       => mLock = NoThread]_allVars
=============================================================================
