-------------------------- MODULE AtomicDataVector --------------------------
(***************************************************************************)
(* What the Data Vector promises to the threads of a node: every call      *)
(* happens at once, at some time between its beginning and its end, so     *)
(* that "only 1 thread is accessing the Data Vector at once".              *)
(***************************************************************************)
EXTENDS DvCalls

CONSTANT Threads

VARIABLES
  mem,      \* the bytes
  phase,    \* of each thread: "idle", "called" or "done"
  req,      \* its call
  answer    \* what the call answered, when it is done

vars == <<mem, phase, req, answer>>

NoAnswer == [ret |-> "none", data |-> Blank]

Init ==
  /\ mem \in Contents
  /\ phase = [t \in Threads |-> "idle"]
  /\ req \in [Threads -> Calls]
  /\ answer = [t \in Threads |-> NoAnswer]

Invoke(t) ==
  /\ phase[t] = "idle"
  /\ phase' = [phase EXCEPT ![t] = "called"]
  /\ \E c \in Calls : req' = [req EXCEPT ![t] = c]
  /\ UNCHANGED <<mem, answer>>

Happen(t) ==
  /\ phase[t] = "called"
  /\ phase' = [phase EXCEPT ![t] = "done"]
  /\ mem' = After(mem, req[t])
  /\ answer' = [answer EXCEPT ![t] =
                  [ret |-> ReturnOf(mem, req[t]), data |-> DataOf(mem, req[t])]]
  /\ UNCHANGED req

Return(t) ==
  /\ phase[t] = "done"
  /\ phase' = [phase EXCEPT ![t] = "idle"]
  /\ answer' = [answer EXCEPT ![t] = NoAnswer]
  /\ UNCHANGED <<mem, req>>

Next == \E t \in Threads : Invoke(t) \/ Happen(t) \/ Return(t)

Spec == Init /\ [][Next]_vars
=============================================================================
