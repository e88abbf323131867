----------------------------- MODULE MCStartup ------------------------------
(* Startup with two Device Nodes: the setup of PlatformLEDSystemTest, and  *)
(* others that differ from it in one place.                                *)
EXTENDS Startup

MCClients == {1, 2}

(* The region of the last Device Node is one byte long, as in              *)
(* PlatformLEDSystemTest_Config.cpp.                                       *)
MCLastClient == {2}

Elem(elem, type) == [elem |-> elem, type |-> type]

Count(elem) == Elem(elem, "DV_T_UINT32")

RegionOf(region, elems) == [region |-> region, elems |-> elems]

CnRegion ==
  RegionOf(Own("DV_REG_CN"),
    <<Count(Own("DV_ELEM_CN_LOOP_COUNT")), Count(Own("DV_ELEM_CN_ERROR_COUNT")),
      Count(<<"TX", 0>>), Count(<<"RX", 0>>),
      Count(<<"DV_ELEM_DN_RX_MISS_COUNT", 1>>),
      Count(<<"DV_ELEM_DN_RX_MISS_COUNT", 2>>),
      Count(Own("DV_ELEM_CN_LOOP_DEADLINE_MISS_COUNT")),
      Count(Own("DV_ELEM_CN_COMMS_DEADLINE_MISS_COUNT")),
      Elem(Own("DV_ELEM_CN_TIME_NS"), "DV_T_UINT64"),
      Count(Own("DV_ELEM_STATE"))>>)

GroundRegion ==
  RegionOf(Own("DV_REG_GROUND_TO_CN"),
    <<Elem(<<"REQ", 0>>, "DV_T_UINT8"), Elem(<<"VAL", 0>>, "DV_T_UINT64")>>)

ToDnRegion(c) ==
  RegionOf(ToDn(c), IF c \in MCLastClient
                    THEN <<Elem(<<"MODE", c>>, "DV_T_UINT8")>>
                    ELSE <<Elem(<<"LED0", c>>, "DV_T_BOOL"),
                           Elem(<<"LED1", c>>, "DV_T_BOOL")>>)

FromDnRegion(c) ==
  RegionOf(FromDn(c),
    <<Count(<<"TX", c>>), Count(<<"RX", c>>),
      Count(<<"DV_ELEM_DN_LOOP_COUNT", c>>),
      Count(<<"DV_ELEM_DN_ERROR_COUNT", c>>)>>)

Ip(n) == [regions |-> <<10, 0, 0, n + 1>>, zeros |-> FALSE]

Channel(n, m, port) == [node1 |-> n, node2 |-> m, port |-> port]

Base ==
  [nodeToIp |-> [n \in {0, 1, 2, 4} |-> Ip(n)],
   channels |-> <<Channel(0, 1, 2201), Channel(0, 2, 2202), Channel(4, 0, 2299)>>,
   dv |-> [n \in {0, 1, 2, 4} |->
             CASE n = 0 -> <<CnRegion, ToDnRegion(1), ToDnRegion(2),
                             FromDnRegion(1), FromDnRegion(2), GroundRegion>>
               [] n = 4 -> <<GroundRegion,
                             RegionOf(<<"DV_REG_GROUND", 4>>,
                               <<Count(<<"TX", 4>>), Count(<<"RX", 4>>)>>)>>
               [] OTHER -> <<ToDnRegion(n), FromDnRegion(n)>>],
   counters |-> [n \in {0, 1, 2, 4} |-> {<<"TX", n>>, <<"RX", n>>}]]

WithIp(n, regions, zeros) ==
  [Base EXCEPT !.nodeToIp[n] = [regions |-> regions, zeros |-> zeros]]

WithChannel(k, channel) == [Base EXCEPT !.channels[k] = channel]

MoreElems(n, r, elems) == [Base EXCEPT !.dv[n][r].elems = @ \o elems]

MCSetups ==
  {Base,
   \* the address of another node, in the same and in another spelling
   WithIp(1, <<10, 0, 0, 3>>, FALSE), WithIp(1, <<10, 0, 0, 3>>, TRUE),
   WithIp(2, <<10, 0, 256, 3>>, FALSE), WithIp(2, <<10, 0, 3>>, FALSE),
   WithIp(2, <<10, 0, NoNumber, 3>>, FALSE),
   [Base EXCEPT !.nodeToIp = [n \in {0, 1, 2} |-> Ip(n)]],
   [Base EXCEPT !.nodeToIp = [n \in {0, 1, 2, 4, 5} |-> Ip(n)]],
   \* a port that is not allowed, and one that two channels have
   WithChannel(1, Channel(0, 1, 2200)), WithChannel(1, Channel(0, 1, 2300)),
   WithChannel(1, Channel(0, 1, 2202)),
   \* a channel twice, missing, of a node without address, and one more
   [Base EXCEPT !.channels = Append(@, Channel(1, 0, 2204))],
   [Base EXCEPT !.channels = Tail(@)],
   [Base EXCEPT !.channels = Append(@, Channel(0, 3, 2204))],
   [Base EXCEPT !.channels = Append(@, Channel(1, 4, 2202))],
   \* a region twice, empty, too large and missing
   [Base EXCEPT !.dv[1] = Append(@, RegionOf(ToDn(1), <<Count(<<"MODE", 2>>)>>))],
   [Base EXCEPT !.dv[0][6].elems = <<>>],
   MoreElems(0, 1, <<Elem(<<"LED2", 0>>, "DV_T_BOOL")>>),
   [Base EXCEPT !.dv[1] = Tail(@)],
   \* an element twice, of no type, of no name, and missing
   MoreElems(1, 1, <<Count(<<"TX", 1>>)>>),
   MoreElems(1, 1, <<Elem(<<"LED2", 0>>, "DV_T_LAST")>>),
   MoreElems(1, 1, <<Count(<<"DV_ELEM_LAST", 0>>)>>),
   [Base EXCEPT !.dv[2][2].elems = Tail(@)],
   [Base EXCEPT !.dv[0][1].elems = Tail(@)]}

MCRegions == Regions(Base.dv[0]) \cup Regions(Base.dv[4])

MCElems ==
  UNION {Elems(Base.dv[n]) : n \in {0, 1, 2, 4}} \cup {<<"LED2", 0>>}
=============================================================================
