---------------------------- MODULE MCOrdersModel ----------------------------
(* One order and two older swaps, of which a filter lets through one; or no *)
(* order and a history of three swaps.                                      *)
EXTENDS OrdersModel

CONSTANTS O1, S1, S2, All, Some

MCOldSwaps == <<S1, S2>>

MCLongHistory == <<O1, S1, S2>>

MCPasses(f) == IF f = All THEN {O1, S1, S2} ELSE {O1, S2}
=============================================================================
