------------------------------ MODULE DvCalls -------------------------------
(***************************************************************************)
(* The calls of a Data Vector as functions of its bytes: what a call       *)
(* stores and what it answers when nothing else happens meanwhile.         *)
(* Elements, regions and the whole Data Vector are ranges of bytes in one  *)
(* buffer, which overlap: a region and its elements are the same bytes.    *)
(*                                                                         *)
(* A byte has ByteSize values, a number that model checking scales down;   *)
(* integers are little endian (DataVector.hpp, assumption #1).             *)
(***************************************************************************)
EXTENDS Naturals

CONSTANTS
  Bytes,      \* indices of mBuffer
  ByteSize,   \* number of values of a byte
  Elem,       \* elements of the configuration
  Region,     \* its regions, and the whole Data Vector as one more
  At,         \* the bytes of an element or a region
  Integer,    \* elements of an integer type
  Signed,     \* those of a signed one
  NoElem,     \* an element that is not in the configuration
  NoRegion,   \* a region that is not in the configuration
  Calls       \* the calls that threads make

ByteValue == 0 .. ByteSize - 1
Contents == [Bytes -> ByteValue]

Blank == [b \in Bytes |-> 0]

ASSUME DvBytesAssumption ==
  /\ Bytes \subseteq Nat
  /\ ByteSize \in Nat \ {0, 1}
  /\ At \in [Elem \cup Region -> SUBSET Bytes]
  /\ Integer \subseteq Elem
  /\ NoElem \notin Elem \cup Region
  /\ NoRegion \notin Elem \cup Region

(* fits: the variable has the type of the element, the buffer the size of  *)
(* the region.  data: the bytes to be written.                             *)
AllCalls ==
  [op : {"read", "write"}, on : Elem \cup Region \cup {NoElem, NoRegion},
   fits : BOOLEAN, data : Contents]
  \cup [op : {"increment"}, on : Elem \cup {NoElem},
        fits : BOOLEAN, data : Contents]

ASSUME DvCallsAssumption == Calls \subseteq AllCalls /\ Calls # {}

-----------------------------------------------------------------------------
(* Checks of the arguments.  Those of increment, and of regions, need      *)
(* nothing that changes and precede the lock; those of read and write      *)
(* (verifyElement) are made under it.                                      *)

ChecksFirst(c) == c.op = "increment" \/ c.on \in Region \cup {NoRegion}

Verdict(c) ==
  IF c.on = NoElem THEN "E_INVALID_ELEM"
  ELSE IF c.on = NoRegion THEN "E_INVALID_REGION"
  ELSE IF c.op = "increment"
       THEN IF c.on \in Integer THEN "E_SUCCESS" ELSE "E_INVALID_TYPE"
  ELSE IF c.fits THEN "E_SUCCESS"
  ELSE IF c.on \in Elem THEN "E_INCORRECT_TYPE" ELSE "E_INCORRECT_SIZE"

Accepted(c) == Verdict(c) = "E_SUCCESS"

-----------------------------------------------------------------------------
(* increment.  At the maximum of the type, all bytes are full, but the     *)
(* last one of a signed type, which is half full.                          *)

IsLast(b, bytes) == \A d \in bytes : d <= b

IsMax(m, e) ==
  \A b \in At[e] :
    m[b] = IF e \in Signed /\ IsLast(b, At[e]) THEN ByteSize \div 2 - 1
                                               ELSE ByteSize - 1

(* ++val: a byte changes when all the lower ones are full.                 *)
PlusOne(m, e) ==
  [b \in Bytes |->
     IF /\ b \in At[e]
        /\ \A d \in At[e] : d < b => m[d] = ByteSize - 1
     THEN (m[b] + 1) % ByteSize
     ELSE m[b]]

-----------------------------------------------------------------------------
(* A call that happens at once in a Data Vector with the bytes m.          *)

Overlay(m, data, bytes) == [b \in Bytes |-> IF b \in bytes THEN data[b] ELSE m[b]]

ReturnOf(m, c) ==
  IF Accepted(c) /\ c.op = "increment" /\ IsMax(m, c.on)
  THEN "E_ALREADY_MAX"
  ELSE Verdict(c)

DataOf(m, c) ==
  IF Accepted(c) /\ c.op = "read" THEN Overlay(Blank, m, At[c.on]) ELSE Blank

After(m, c) ==
  CASE ReturnOf(m, c) # "E_SUCCESS" -> m
    [] ReturnOf(m, c) = "E_SUCCESS" /\ c.op = "read" -> m
    [] ReturnOf(m, c) = "E_SUCCESS" /\ c.op = "write" ->
         Overlay(m, c.data, At[c.on])
    [] ReturnOf(m, c) = "E_SUCCESS" /\ c.op = "increment" -> PlusOne(m, c.on)
=============================================================================
