--------------------------- MODULE CommandService ---------------------------
(***************************************************************************)
(* What the Command Handler promises to the State Machine: a command takes *)
(* effect at most once, never after a later one, and then expires.         *)
(***************************************************************************)
EXTENDS Naturals

CONSTANTS
  Number,    \* numbers of requests
  Command,   \* what a request can ask for
  None       \* no command

VARIABLES
  done,      \* the numbers of the requests that have taken effect
  active     \* the command the State Machine sees

Init ==
  /\ done = {}
  /\ active = None

(* A request later than all that took effect takes effect. *)
Perform(n, c) ==
  /\ \A m \in done : m < n
  /\ done' = done \cup {n}
  /\ active' = c

Expire ==
  /\ active' = None
  /\ UNCHANGED done

Next ==
  \/ \E n \in Number, c \in Command : Perform(n, c)
  \/ Expire

Spec == Init /\ [][Next]_<<done, active>>
=============================================================================
