---------------------------- MODULE MCStateStorage ----------------------------
(* A persisted state and one that lives in memory only, with the three      *)
(* statuses of the code and the lengths of their JSON texts: "DONE",        *)
(* "ERROR" and "PROCESSING" with their quotes.                              *)
EXTENDS StateStorage

MCStatuses == {"DONE", "ERROR", "PROCESSING"}
MCSize == [v \in MCStatuses |-> CASE v = "DONE" -> 6
                                  [] v = "ERROR" -> 7
                                  [] v = "PROCESSING" -> 12]

MCStates == {"EXCHANGES_SWAP", "SUPPORTED_POOL"}
MCPersisted == {"EXCHANGES_SWAP"}
MCDefault == [s \in MCStates |-> Undefined]
===============================================================================
