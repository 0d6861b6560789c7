-------------------------------- MODULE Signing --------------------------------
(* The user's side of the transactions that the server forms. The server reads *)
(* the chain or asks a service, answers with a body to sign and, where a token *)
(* is spent, with an approval to sign before it, and forgets the request. The  *)
(* user signs when it pleases: the wallet may have moved since.                *)
EXTENDS Integers, Sequences

CONSTANTS
  Payers,    \* requests of the user
  Wallets,   \* what the wallet may hold at first: see Holdings
  MaxHeld,   \* bound: amounts of the wallet
  Nothing

VARIABLES
  wallet,   \* external: what the wallet holds, has approved and delegated
  payment   \* per request: what is left of it

Dex == {"debridge", "zerox", "rango"}
Supplies == {"aaveSupply", "compoundSupply", "lidoStake"}
Redeems == {"aaveWithdraw", "aaveBorrow", "compoundWithdraw", "lidoWithdraw",
            "uniRemove", "uniClaim"}
Pots == {"native", "token", "lent", "shares", "staked", "position"}
Spenders == Dex \union Supplies \union {"lidoWithdraw"}

(* What Aave's gateway must be allowed once: to take the shares of a loan, in  *)
(* withdrawals of the native coin, and to borrow for the user, in loans of it. *)
Gateways == {"aaveWithdraw", "aaveBorrow"}
Holdings == [holds : [Pots -> 0..MaxHeld], allowance : [Spenders -> 0..MaxHeld],
             delegated : [Gateways -> BOOLEAN]]

(* Why a request is refused.                                                   *)
Whys == {"collector", "service", "chain", "library", "lacking"}

SigningAssumption ==
  /\ Wallets \subseteq Holdings /\ MaxHeld \in Nat
  /\ Nothing \notin Whys \union Spenders \union Pots
ASSUME SigningAssumption

Stage(p, place) == payment[p] # Nothing /\ payment[p].at = place
OfKind(p, kind) == payment[p].kind = kind
Asked(p) == payment[p].request
Held(pot) == wallet.holds[pot]
Move(p, now) == payment' = [payment EXCEPT ![p] = now] /\ UNCHANGED wallet
Go(p, place) == Move(p, [payment[p] EXCEPT !.at = place])

SigningInit ==
  /\ wallet \in Wallets
  /\ payment = [p \in Payers |-> Nothing]

(* A request passes the guards of its controller.                              *)
Enter(p, kind, request) ==
  /\ payment[p] = Nothing
  /\ Move(p, [kind |-> kind, request |-> request, at |-> "begin",
              asked |-> Nothing, says |-> Nothing, charged |-> 0, shares |-> 0,
              body |-> Nothing, why |-> Nothing, enough |-> FALSE,
              allowed |-> FALSE, approved |-> FALSE, touched |-> FALSE, took |-> 0])

Refuse(p, why) == Move(p, [payment[p] EXCEPT !.at = "refused", !.why = why])

-------------------------------------------------------------------------------
(* Bodies. pot is what the transaction takes from, value what it sends of the  *)
(* chain's own coin, spender and approves the approval to sign first, gives    *)
(* what comes back, gate whether the body only opens a gateway: it is then the *)
(* first of a list whose last is the action, takes nothing and gives nothing.  *)

Spend(kind, coin, takes, approves) ==
  [pot |-> IF coin = "native" THEN "native" ELSE "token", takes |-> takes,
   value |-> IF coin = "native" THEN takes ELSE 0,
   spender |-> IF coin = "native" THEN Nothing ELSE kind,
   approves |-> IF coin = "native" THEN 0 ELSE approves,
   gives |-> Nothing, gate |-> FALSE]

Redeem(pot, takes, gives) ==
  [pot |-> pot, takes |-> takes, value |-> 0, spender |-> Nothing,
   approves |-> 0, gives |-> gives, gate |-> FALSE]

OpenGate == [Redeem("lent", 0, Nothing) EXCEPT !.gate = TRUE]

(* enough remembers whether the wallet had what the body takes, and allowed    *)
(* whether the body's spender may take it, or will after the approval.         *)
Allowed(b) == \/ b.spender = Nothing \/ b.approves > 0
              \/ wallet.allowance[b.spender] >= b.takes
Formed(p, b) ==
  Move(p, [payment[p] EXCEPT !.at = "formed", !.body = b,
                             !.enough = Held(b.pot) >= b.takes,
                             !.allowed = Allowed(b)])

-------------------------------------------------------------------------------
(* A transaction on chain touches every request that had read, or had relied   *)
(* on, what the wallet holds. An approval replaces the one before it.          *)

Underway(p) == \/ Stage(p, "formed") \/ Stage(p, "rate")
               \/ Stage(p, "begin") /\ OfKind(p, "debridge")
               \/ Stage(p, "ask") /\ OfKind(p, "debridge")
Touching(p, now) ==
  payment' = [r \in Payers |-> IF r = p THEN now
                ELSE IF Underway(r) THEN [payment[r] EXCEPT !.touched = TRUE]
                ELSE payment[r]]

SignApproval(p) ==
  /\ Stage(p, "formed") /\ ~payment[p].approved
  /\ LET b == payment[p].body IN
     /\ b.approves > 0
     /\ wallet' = [wallet EXCEPT !.allowance[b.spender] = b.approves]
  /\ Touching(p, [payment[p] EXCEPT !.approved = TRUE])

GoesThrough(b) ==
  /\ Held(b.pot) >= b.takes /\ Held("native") >= b.value
  /\ b.spender # Nothing => wallet.allowance[b.spender] >= b.takes

(* The native coin of Aave comes through a gateway of the action's own.         *)
GatewayOpen(p) ==
  payment[p].kind \in Gateways /\ payment[p].body.gives = "native" =>
    wallet.delegated[payment[p].kind]

Taken(b) == [pot \in Pots |->
  IF pot = "native" THEN Held(pot) - b.value
  ELSE IF pot = b.pot THEN Held(pot) - b.takes ELSE Held(pot)]

StillAllowed(b) == [spender \in Spenders |->
  IF spender = b.spender THEN wallet.allowance[spender] - b.takes
  ELSE wallet.allowance[spender]]

SignGate(p) ==
  /\ Stage(p, "formed") /\ payment[p].body.gate
  /\ wallet' = [wallet EXCEPT !.delegated[payment[p].kind] = TRUE]
  /\ Touching(p, [payment[p] EXCEPT !.at = "delegated"])

Sign(p) ==
  /\ Stage(p, "formed") /\ ~payment[p].body.gate
  /\ LET b == payment[p].body IN
     /\ b.approves > 0 => payment[p].approved
     /\ IF GoesThrough(b) /\ GatewayOpen(p)
        THEN /\ wallet' = [wallet EXCEPT !.holds = Taken(b), !.allowance = StillAllowed(b)]
             /\ Touching(p, [payment[p] EXCEPT !.at = "done", !.took = b.takes])
        ELSE Go(p, "reverted")

SigningNext == \E p \in Payers : SignApproval(p) \/ SignGate(p) \/ Sign(p)
===============================================================================
