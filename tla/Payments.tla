-------------------------------- MODULE Payments --------------------------------
(* Swaps and transactions on positions, signed from one wallet.                *)
EXTENDS Swaps, Positions

payVars == <<wallet, payment, link, rate>>

PayInit == SwapInit /\ PositionInit

PayNext ==
  \/ SwapNext /\ UNCHANGED rate
  \/ PositionNext /\ UNCHANGED link
  \/ SigningNext /\ UNCHANGED <<link, rate>>

PaySpec == PayInit /\ [][PayNext]_payVars

-------------------------------------------------------------------------------
(* Properties.                                                                 *)

(* A payment takes what was asked for and nothing of the chain's own coin but  *)
(* a service's fee, and fails on chain for three reasons only. The wallet did  *)
(* not hold the amount already: nobody looks, but at Compound. Or another      *)
(* transaction was signed since the request relied on what the wallet holds:   *)
(* two approvals of one token for one contract, signed one after the other,    *)
(* leave only the second. Or stETH is withdrawn, for which no answer has an    *)
(* approval, and the user had given none of its own accord.                    *)
SignedDoesWhatWasAsked ==
  \A p \in Payers : payment[p] # Nothing =>
    LET q == payment[p] IN
    /\ q.at = "reverted" =>
         \/ q.touched \/ ~q.enough
         \/ ~q.allowed /\ q.kind = "lidoWithdraw" /\ q.request.reserve = "eth"
    /\ q.at = "done" /\ q.kind \in Supplies \union {"zerox", "rango", "aaveWithdraw"} =>
         q.took = q.request.amount
    /\ q.body # Nothing /\ q.body.value > 0 =>
         q.body.pot = "native" \/ q.kind = "debridge"

(* What the user agreed to by its request, or by a quote, is what it is given  *)
(* to sign, and what it signs goes through but for the reasons named above.    *)
DealsAreKept ==
  /\ AskedForWhatIsMeant /\ ChargedAsQuoted
  /\ GivesWhatWasNamed /\ SharesAreTaken /\ SharesAreCompared
  /\ SignedDoesWhatWasAsked
===============================================================================
