---------------------------- MODULE MCUserStatuses ----------------------------
(* Instances of UserStatuses for TLC. *)
EXTENDS UserStatuses, TLC

CONSTANTS evm, sol

MCGroupOf == [w \in Wallets |-> IF w = evm THEN "EVM" ELSE "SOL"]

(* The user has registered before anything else, and then adds or deletes    *)
(* wallets, logs in and changes the currency.                               *)
Registered ==
  /\ \A q \in Requests : req[q].kind \in {"register", "login", "currency"} \/ Stage(q) = "idle"
  /\ (\E q \in Requests : req[q].kind = "register") => Own = {}
  /\ Own # {} => held # {}
  /\ \A w \in Wallets : wallet[w] \in {"unused", "own", "gone"}
  /\ lost = {}

(* Only the transactions are initialised. *)
TransactionsOnly ==
  /\ Registered
  /\ \A i \in Inits : init[i].column = "txs"

(* The account is left alone. *)
NoChanges ==
  /\ Registered
  /\ \A q \in Requests : req[q].kind = "register" \/ Stage(q) = "idle"

InitSymmetry == Permutations(Inits)
===============================================================================
