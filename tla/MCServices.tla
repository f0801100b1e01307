----------------------------- MODULE MCServices -----------------------------
(* Three slaves of which two share a vendor, two parts of an address with  *)
(* two bits; objects of one and two bytes, a dummy and wrong mapping       *)
(* entries; texts of digits, blanks, comments, quotes and paddings; lines  *)
(* of commands with a node and without, a value longer than the buffers    *)
(* and one with a wrong digit, LSS commands and scans, and the commands    *)
(* that show texts; safety parameters in use, not in use and out of range; *)
(* the objects of this device, and of a stack with everything, whose       *)
(* number is fixed or, with the caller's NMT object, configured; every     *)
(* beginning of a dictionary with objects of all types, without memory,    *)
(* with functions disabled and with padding between elements.              *)
EXTENDS Services, TLC
MCSubjects == {"lss", "sync", "tpdo", "config", "fifo", "text", "gateway", "srdo",
               "objects", "dictionary"}

Addr(v, n) == (0 :> v) @@ (1 :> n)
MCLssSlaves == {Addr(1, 2), Addr(1, 3), Addr(2, 2)}
MCLssTargets == {Addr(1, 3), Addr(0, 2)}
MCLssSupported == (Addr(1, 3) :> {125}) @@ (Addr(2, 2) :> {125, 500})
MCLssScans == {[scan |-> (0 :> "scan") @@ (1 :> "scan"), match |-> Addr(0, 0)],
               [scan |-> (0 :> "match") @@ (1 :> "scan"), match |-> Addr(1, 0)]}

MCObjectSize == [a |-> 2, b |-> 1]
Mapping(o, l) == [obj |-> o, len |-> l, aligned |-> TRUE]
MCObjectMaps == {Mapping("a", 2), Mapping("b", 1), Mapping("b", 2), Mapping("dummy", 2),
                 Mapping("missing", 1), [Mapping("a", 1) EXCEPT !.aligned = FALSE]}

MCTextBytes == [hex |-> {0, 31}, vs |-> {1, 100, 103}, b64 |-> {0, 201}]
MCTextChars == [hex |-> {1, 100, 102, 103}, vs |-> {1, 100, 102, 103}, b64 |-> {1, 100, 102, 104}]

(* Tokens as Gateway has them.                                             *)
L(s, k) == [t |-> "line", seq |-> s, kind |-> k]
W(s) == [t |-> "write", seq |-> s, kind |-> "write"]
Unit == [t |-> "data"]
Wrong == [t |-> "junk"]
Newline == [t |-> "nl"]
MCGatewayLines ==
  { <<L(1, "nmt"), Newline, L(2, "set_node"), L(3, "nmt"), L(4, "bad")>>,
    <<L(1, "set_node"), W(2), Unit, Unit, Unit, Newline, L(3, "nmt")>>,
    <<L(1, "set_node"), W(2), Unit, Wrong, Newline, L(3, "read")>>,
    <<L(1, "lss"), L(2, "lss_off"), L(3, "_lss_fastscan"), L(4, "lss_off")>>,
    <<L(1, "lss_allnodes"), L(2, "lss"), L(3, "lss_allnodes_bad")>>,
    <<L(1, "help"), L(2, "log"), L(3, "led"), L(4, "lss_off")>> }

SMap(n, m) == [len |-> n, mappable |-> m]
MCSrdoMaps == {SMap(1, TRUE), SMap(2, TRUE), SMap(1, FALSE)}
SPar(used, com, count, m1, m2) == [used |-> used, com |-> com, count |-> count, maps |-> <<m1, m2>>]
MCSrdoStored ==
  { SPar(TRUE, "stored", 2, SMap(1, TRUE), SMap(1, TRUE)),
    SPar(FALSE, "stored", 0, SMap(1, TRUE), SMap(2, TRUE)),
    SPar(TRUE, "bad", 2, SMap(1, TRUE), SMap(1, TRUE)) }

Parts == {"NMT", "HB_CONS", "EM", "SDO_SRV", "SDO_CLI", "TIME", "SYNC", "RPDO", "TPDO", "LEDS",
          "GFC", "SRDO", "LSS_SLV", "LSS_MST", "GTWA", "TRACE"}
Each(n) == [k \in Parts |-> n]
Counts(multi, n) == [multi |-> multi, nodes |-> 2, n |-> n]
MCConfigs ==
  { Counts(FALSE, [Each(0) EXCEPT !["NMT"] = 1, !["EM"] = 1, !["SDO_SRV"] = 1,
                                  !["RPDO"] = 4, !["TPDO"] = 4, !["LSS_SLV"] = 1]),
    Counts(FALSE, [Each(1) EXCEPT !["SRDO"] = 2]),
    Counts(TRUE, [Each(1) EXCEPT !["SRDO"] = 2, !["NMT"] = 0]) }

Extension(r, w) == [read |-> r, write |-> w]
Plain == Extension("original", "original")
Var(i, a, l, x) == [index |-> i, type |-> "VAR", addr |-> a, length |-> l, extension |-> x]
Arr(i, n, a0, a, x) ==
  [index |-> i, type |-> "ARR", count |-> n, addr0 |-> a0, addr |-> a, size |-> 2, length |-> 1,
   extension |-> x]
Rec(i, r) == [index |-> i, type |-> "REC", records |-> r, extension |-> Plain]
Record(s, a, l) == [sub |-> s, addr |-> a, length |-> l]
MCDictionary ==
  << Var(2, 0, 3, Plain), Arr(4, 3, 3, 4, Plain), Rec(6, <<Record(0, 8, 1), Record(2, 9, 2)>>),
     Var(8, -1, 2, Plain), Var(10, 11, 1, Extension("original", "disabled")),
     Arr(12, 2, 12, -1, Extension("disabled", "disabled")), Rec(14, <<>>) >>
MCDictionaries == {SubSeq(MCDictionary, 1, n) : n \in 0 .. 7}
MCOdIndexes == 1 .. 15
MCOdSubIndexes == 0 .. 3
MCOdCounts == 1 .. 4
Padding == <<0, 0>>
MCDictionaryLayout ==
  [a \in 0 .. 12 |->
     <<<<2, 0>>, <<2, 0>>, <<2, 0>>, <<4, 0>>, <<4, 1>>, Padding, <<4, 2>>, Padding,
       <<6, 0>>, <<6, 2>>, <<6, 2>>, <<10, 0>>, <<12, 0>>>>[a + 1]]
=============================================================================
