----------------------------- MODULE MCPeriods ------------------------------
(***************************************************************************)
(* The calendar of 2024-2028 in Sweden, by days since the beginning of     *)
(* 2024.  Summer time begins on the last day of March in 2024, and ends on *)
(* the last day of October in 2027.                                        *)
(***************************************************************************)
EXTENDS Periods

FirstDays == << 0, 31, 60, 91, 121, 152, 182, 213, 244, 274, 305, 335,
                366, 397, 425, 456, 486, 517, 547, 578, 609, 639, 670, 700,
                731, 762, 790, 821, 851, 882, 912, 943, 974, 1004, 1035, 1065,
                1096, 1127, 1155, 1186, 1216, 1247, 1277, 1308, 1339, 1369,
                1400, 1430, 1461, 1492 >>
MCMonthStart == [m \in 0..49 |-> FirstDays[m + 1]]
MCSummers == {<<91, 300>>, <<455, 664>>, <<819, 1028>>, <<1183, 1399>>}
=============================================================================
