---------------------------- MODULE MCInitFeatures ----------------------------
(* Instances of InitFeatures. *)
EXTENDS InitFeatures

(* Three features: chains, whose own request is not health-checked, and two *)
(* that share a state, of which initAll takes only the first.               *)
SharedOrder == <<"chains", "exchangesSwap">>
SharedStates == {"CHAINS", "EXCHANGES_SWAP"}
SharedStateOf ==
  [f \in {"chains", "exchangesSwap", "binance"} |->
     IF f = "chains" THEN "CHAINS" ELSE "EXCHANGES_SWAP"]
SharedDefault == [s \in SharedStates |-> IF s = "CHAINS" THEN "DONE" ELSE Undefined]

(* One persisted feature. *)
OneOrder == <<"exchangesSwap">>
OneState == {"EXCHANGES_SWAP"}
OneStateOf == [f \in {"exchangesSwap"} |-> "EXCHANGES_SWAP"]
OneDefault == [s \in OneState |-> Undefined]
===============================================================================
