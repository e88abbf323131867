------------------------------ MODULE DvLayout ------------------------------
(***************************************************************************)
(* How a Data Vector is laid out: the checks of its configuration, which   *)
(* is a sequence of regions, each a sequence of elements, and the indices  *)
(* that the constructor gives to elements and regions in mBuffer.          *)
(***************************************************************************)
EXTENDS Naturals, Sequences, FiniteSets, FiniteSetsExt

CONSTANTS
  ValidRegions,   \* the regions of DataVectorRegion_t before DV_REG_LAST
  ValidElems,     \* the elements of DataVectorElement_t before DV_ELEM_LAST
  MaxRecvBytes    \* NetworkManager::MAX_RECV_BYTES

(* getSizeBytesFromType *)
SizeBytes ==
  [DV_T_UINT8 |-> 1, DV_T_UINT16 |-> 2, DV_T_UINT32 |-> 4, DV_T_UINT64 |-> 8,
   DV_T_INT8 |-> 1, DV_T_INT16 |-> 2, DV_T_INT32 |-> 4, DV_T_INT64 |-> 8,
   DV_T_FLOAT |-> 4, DV_T_DOUBLE |-> 8, DV_T_BOOL |-> 1]

(* A vector of regions, each with its vector of elements. *)
IsConfiguration(config) ==
  /\ config \in Seq(Range(config))
  /\ \A r \in DOMAIN config : config[r].elems \in Seq(Range(config[r].elems))

(* Where an element stands in a configuration. *)
Positions(config) ==
  UNION {{r} \X DOMAIN config[r].elems : r \in DOMAIN config}

ElemAt(config, p) == config[p[1]].elems[p[2]]

Before(p, q) == p[1] < q[1] \/ (p[1] = q[1] /\ p[2] < q[2])

(* The bytes of elements, each told apart by its place, to be counted.     *)
BytesOf(config, places) ==
  UNION {{p} \X (1 .. SizeBytes[ElemAt(config, p).type]) : p \in places}

SizeOf(config, places) == Cardinality(BytesOf(config, places))

-----------------------------------------------------------------------------
(* verifyConfig *)

(* A mistake: elements are only compared within their region. *)
BugElemsUnique(config) ==
  \A p, q \in Positions(config) :
    p[1] = q[1] /\ ElemAt(config, p).elem = ElemAt(config, q).elem => p = q

ElemsUnique(config) ==
  \A p, q \in Positions(config) :
    ElemAt(config, p).elem = ElemAt(config, q).elem => p = q

RegionsUnique(config) ==
  \A r, s \in DOMAIN config : config[r].region = config[s].region => r = s

RegionVerified(region) ==
  /\ region.elems # <<>>
  /\ region.region \in ValidRegions

DvVerified(config) ==
  /\ config # <<>>
  /\ \A r \in DOMAIN config : RegionVerified(config[r])
  /\ RegionsUnique(config)
  /\ \A p \in Positions(config) :
       /\ ElemAt(config, p).elem \in ValidElems
       /\ ElemAt(config, p).type \in DOMAIN SizeBytes
  /\ ElemsUnique(config)

-----------------------------------------------------------------------------
(* The constructor *)

BufferSize(config) == SizeOf(config, Positions(config))

InRegion(config, r) == {p \in Positions(config) : p[1] = r}

RegionSize(config, r) == SizeOf(config, InRegion(config, r))

StartIdx(config, p) ==
  SizeOf(config, {q \in Positions(config) : Before(q, p)})

(* The records of the two maps; of two with one key the later stays.       *)
Elems(config) == {ElemAt(config, p).elem : p \in Positions(config)}

Regions(config) == {config[r].region : r \in DOMAIN config}

ElementInfo(config, e) ==
  LET last == CHOOSE p \in Positions(config) :
                /\ ElemAt(config, p).elem = e
                /\ \A q \in Positions(config) :
                     ElemAt(config, q).elem = e => q = p \/ Before(q, p)
  IN  [startIdx |-> StartIdx(config, last), type |-> ElemAt(config, last).type]

RegionInfo(config, region) ==
  LET last == Max({r \in DOMAIN config : config[r].region = region})
  IN  [startIdx |-> SizeOf(config, {p \in Positions(config) : p[1] < last}),
       sizeBytes |-> RegionSize(config, last)]

RegionsFit(config) ==
  \A r \in DOMAIN config : RegionSize(config, r) <= MaxRecvBytes

(* createNew returns E_SUCCESS, unless the lock cannot be initialized.     *)
DvCreated(config) == DvVerified(config) /\ RegionsFit(config)

-----------------------------------------------------------------------------
(* The bytes that the calls of the Data Vector touch. *)

ElemBytes(config, e) ==
  LET info == ElementInfo(config, e)
  IN  info.startIdx .. info.startIdx + SizeBytes[info.type] - 1

RegionBytes(config, region) ==
  LET info == RegionInfo(config, region)
  IN  info.startIdx .. info.startIdx + info.sizeBytes - 1

(* Every byte belongs to exactly one element, and a region has the bytes   *)
(* of its elements, so that copying it copies them and nothing else.       *)
LayoutIsExact(config) ==
  /\ UNION {ElemBytes(config, e) : e \in Elems(config)}
       = 0 .. BufferSize(config) - 1
  /\ \A e, f \in Elems(config) :
       e # f => ElemBytes(config, e) \cap ElemBytes(config, f) = {}
  /\ \A r \in DOMAIN config :
       RegionBytes(config, config[r].region)
         = UNION {ElemBytes(config, ElemAt(config, p).elem) :
                    p \in InRegion(config, r)}
=============================================================================
