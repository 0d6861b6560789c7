-------------------------------- MODULE MCTrade --------------------------------
(* Orders at an exchange, payments and visits to Transak, each on its own: a   *)
(* behaviour is of one of them.                                                *)
EXTENDS CexOrders, Payments, Ramps

CONSTANTS c1, c2, p1, p2, r1, r2, v1, v2, eth, usdt

VARIABLE part

MCTerms == {[enabled |-> TRUE, min |-> 2, fee |-> 1, limit |-> 2],
            [enabled |-> FALSE, min |-> 1, fee |-> 1, limit |-> 3]}

Holds(native, token, lent, shares, staked, position) ==
  [native |-> native, token |-> token, lent |-> lent, shares |-> shares,
   staked |-> staked, position |-> position]
MCWallets ==
  {[holds |-> Holds(3, 2, 2, 9, 1, 10),
    delegated |-> [g \in Gateways |-> FALSE],
    allowance |-> [s \in Spenders |-> 0]],
   [holds |-> Holds(2, 3, 1, 10, 2, 9),
    delegated |-> [g \in Gateways |-> g = "aaveBorrow"],
    allowance |-> [s \in Spenders |->
                     IF s \in {"rango", "lidoWithdraw"} THEN 2 ELSE 0]]}
MCNativeName == [c \in {c1, c2} |-> IF c = c1 THEN "0x0" ELSE "111"]
MCNativeSymbol == [c \in {c1, c2} |-> IF c = c1 THEN "ETH" ELSE "SOL"]

MCInit ==
  /\ part \in {"orders", "payments", "ramps"}
  /\ CexInit /\ PayInit /\ RampInit
  /\ part # "orders" =>
       exchange = "kucoin" /\ terms = CHOOSE t \in MCTerms : TRUE
  /\ part # "payments" =>
       wallet = (CHOOSE w \in MCWallets : TRUE) /\ link = c1

(* Bounds. Orders: the trades, with a coin of a contract and no deposits; or   *)
(* quotes, addresses, destinations and listings on open terms. The second      *)
(* request is a plain one: it is there to come between the steps of the first. *)
Open == CHOOSE t \in MCTerms : t.enabled
Trading == \A r \in Requests : order[r] # None =>
             order[r].kind \in Trades /\ order[r].coin # NativeCoin
             /\ order[r].chain = "eth" /\ (r = r2 => order[r].amount = 2)
Visiting == /\ terms = Open /\ Len(records) <= 1
            /\ \A r \in Requests : order[r] # None =>
                 order[r].kind \in {"quote", "address", "destination", "assets"}
                 /\ order[r].amount \in {0, 2}
                 /\ (r = r2 => order[r].kind \in {"address", "destination"}
                               /\ order[r].chain = "eth")
BoundedOrders == (Trading /\ \A i \in 1..Len(records) : records[i].kind # "deposit")
                 \/ Visiting

(* Payments: a quote and its payment; or two of a kind, one of them a plain    *)
(* one, and both unless they share the client of 0x or the first, at deBridge, *)
(* sells what the fee of the second is paid from; or a plain one and a plain   *)
(* supply to Aave.                                                             *)
Plain(p) ==
  IF payment[p].kind \in Dex
  THEN /\ Asked(p).sell = "token" /\ Asked(p).buy = "native"
       /\ Asked(p).amount = 1 /\ Asked(p).to = c1
  ELSE Asked(p).reserve \in {"token", "eth", Nothing} /\ Asked(p).native
       /\ Asked(p).amount \in {1, 9, 500}
Quoted(p, q) == /\ payment[p].kind \in Dex /\ Asked(q).quote
                /\ Asked(p) = [Asked(q) EXCEPT !.quote = FALSE]
BoundedPayments ==
  payment[p1] # Nothing /\ payment[p2] # Nothing =>
    \/ payment[p1].kind = payment[p2].kind /\ Quoted(p1, p2)
    \/ /\ payment[p1].kind = payment[p2].kind /\ Plain(p2)
       /\ \/ Plain(p1) \/ payment[p1].kind = "zerox"
          \/ payment[p1].kind = "debridge" /\ Asked(p1).sell = "native"
    \/ Plain(p1) /\ Plain(p2) /\ payment[p2].kind = "aaveSupply"

(* Ramps: two requests with one body.                                          *)
BoundedRamps == \A v, w \in Visits :
  ramp[v] # Absent /\ ramp[w] # Absent => ramp[v].body = ramp[w].body

(* A request does nothing until it moves on: the first may as well come first. *)
InOrder == /\ order[r2] # None => order[r1] # None
           /\ payment[p2] # Nothing => payment[p1] # Nothing
           /\ ramp[v2] # Absent => ramp[v1] # Absent

Bounded == BoundedOrders /\ BoundedPayments /\ BoundedRamps /\ InOrder

-------------------------------------------------------------------------------
MCNext ==
  /\ UNCHANGED part
  /\ \/ part = "orders" /\ CexNext /\ UNCHANGED <<payVars, ramp>>
     \/ part = "payments" /\ PayNext /\ UNCHANGED <<cexVars, ramp>>
     \/ part = "ramps" /\ RampNext /\ UNCHANGED <<cexVars, payVars>>
  /\ Bounded'

MCSpec == MCInit /\ [][MCNext]_<<part, cexVars, payVars, ramp>> /\ CexFairness

===============================================================================
