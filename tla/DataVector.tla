----------------------------- MODULE DataVector -----------------------------
(***************************************************************************)
(* The Data Vector as the code that owns a node's loop sees it: a function *)
(* from the configured elements to their values.  Every call locks, works  *)
(* and unlocks (DataVector.hpp), so for one thread a call is one step.     *)
(*                                                                         *)
(* Elements are numbers, as the enumerators of DataVectorElement_t are: a  *)
(* request from ground names its element by number and may name one that   *)
(* is not in the configuration.  Values are natural numbers below the      *)
(* modulus of their type, so that the widths of the casts are kept; the    *)
(* moduli are constants, which model checking scales down.                 *)
(***************************************************************************)
EXTENDS Naturals

CONSTANTS
  Elem,     \* the elements of the configuration (keys of mElementToElementInfo)
  Type,     \* the type of each of them
  Modulus   \* number of values of each type

TypeName == {"DV_T_UINT8", "DV_T_UINT32", "DV_T_UINT64", "DV_T_BOOL"}

ASSUME ElemAssumption == Elem \subseteq Nat

ASSUME TypeAssumption == Type \in [Elem -> TypeName]

ASSUME ModulusAssumption ==
  /\ Modulus \in [TypeName -> Nat \ {0, 1}]
  /\ Modulus["DV_T_BOOL"] = 2

VARIABLES
  dv,       \* the values of the elements
  ret       \* the Error_t returned by the call made last

-----------------------------------------------------------------------------

Values(e) == 0 .. Modulus[Type[e]] - 1

DataVectors == {d \in [Elem -> Nat] : \A e \in Elem : d[e] \in Values(e)}

Error_t == {"E_SUCCESS", "E_INVALID_ELEM", "E_INVALID_CMD", "E_INVALID_TIME",
            "E_INVALID_ENUM", "E_ALREADY_MAX", "E_NETWORK_MANAGER_TX_FAIL",
            "E_NETWORK_MANAGER_RX_FAIL", "E_DATA_VECTOR_WRITE",
            "E_FAILED_TO_GET_TIME"}

(* elementExists *)
ElementExists(e) == e \in Elem

(* The value a C++ cast of a uint64_t gives in the type of element e. *)
CastTo(e, val) ==
  IF Type[e] = "DV_T_BOOL" THEN (IF val = 0 THEN 0 ELSE 1)
                           ELSE val % Modulus[Type[e]]

(* increment: a counter at the maximum of its type stays there, with the   *)
(* error E_ALREADY_MAX; a bool cannot be incremented.                      *)
CanIncrement(d, e) ==
  /\ Type[e] # "DV_T_BOOL"
  /\ d[e] < Modulus[Type[e]] - 1

Incremented(d, e) ==
  IF CanIncrement(d, e) THEN [d EXCEPT ![e] = @ + 1] ELSE d
=============================================================================
