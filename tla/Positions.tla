------------------------------- MODULE Positions -------------------------------
(* Transactions on positions: lending, withdrawing and borrowing at Aave,      *)
(* lending and withdrawing at Compound, staking and withdrawing at Lido, and   *)
(* taking liquidity and fees out of Uniswap.                                   *)
EXTENDS Signing

CONSTANTS
  Sums,      \* sums the user asks for
  Backs,     \* sums asked back from Compound
  Percents   \* tenths of a percent of a Uniswap position to take out

VARIABLE rate   \* external: what a share of Compound is worth

positionVars == <<wallet, payment, rate>>

(* Reserves as the client names them. A native coin's reserve has a name of    *)
(* its own beside that of the wrapped coin; Compound and Lido have one only.   *)
Reserves == {"custom", "wrapped", "token"}
Symbols == {"eth", "matic"}

PositionAssumption ==
  /\ Sums \subseteq Nat \ {0} /\ Backs \subseteq 1..99 /\ Percents \subseteq 10..1000
  /\ MaxHeld < 100
ASSUME PositionAssumption

PositionInit == SigningInit /\ rate = 1
Still == UNCHANGED rate

Of(reserve, native, amount) == [reserve |-> reserve, native |-> native, amount |-> amount]
Sum(p) == Asked(p).amount
Begun(p, kind) == Stage(p, "begin") /\ OfKind(p, kind)

-------------------------------------------------------------------------------
(* Aave. Each controller lets only a reserve that is known pass.               *)

EnterAaveSupply(p, reserve, sum) == Enter(p, "aaveSupply", Of(reserve, TRUE, sum)) /\ Still
EnterAaveWithdraw(p, reserve, native, sum) ==
  Enter(p, "aaveWithdraw", Of(reserve, native, sum)) /\ Still
EnterAaveBorrow(p, reserve, native, sum) ==
  Enter(p, "aaveBorrow", Of(reserve, native, sum)) /\ Still

(* A supply is of the native coin only under that coin's own name.             *)
SupplyNative(p) == Spend("aaveSupply", "native", Sum(p), 0)
SupplyToken(p) == Spend("aaveSupply", "token", Sum(p), Sum(p))
FormAaveSupply(p) ==
  /\ Begun(p, "aaveSupply")
  /\ Formed(p, IF Asked(p).reserve = "custom" THEN SupplyNative(p) ELSE SupplyToken(p))
  /\ Still

(* A reserve has a native coin if its name says so, or if another reserve's    *)
(* name does.                                                                  *)
WithdrawIsNative(reserve) == reserve = "custom" \/ reserve = "wrapped"
(* A mutant of BorrowIsNative: the other reserve is not looked for.            *)
CustomIsNative(reserve) == reserve = "custom"

BorrowIsNative(reserve) == reserve = "custom" \/ reserve = "wrapped"

(* The native coin goes through a gateway that must be opened once; the pool   *)
(* then lists two transactions, and the body is the first.                     *)

(* A mutant of FormAaveWithdraw: it takes the borrower's gateway for its own.  *)
GatewayOfLoans(p) ==
  /\ Begun(p, "aaveWithdraw")
  /\ LET native == Asked(p).native /\ WithdrawIsNative(Asked(p).reserve)
     IN  Formed(p, IF native /\ ~wallet.delegated["aaveBorrow"] THEN OpenGate
                   ELSE Redeem("lent", Sum(p),
                               IF native THEN "native" ELSE Asked(p).reserve))
  /\ Still

FormAaveWithdraw(p) ==
  /\ Begun(p, "aaveWithdraw")
  /\ LET native == Asked(p).native /\ WithdrawIsNative(Asked(p).reserve)
     IN  Formed(p, IF native /\ ~wallet.delegated["aaveWithdraw"] THEN OpenGate
                   ELSE Redeem("lent", Sum(p),
                               IF native THEN "native" ELSE Asked(p).reserve))
  /\ Still

(* To borrow the native coin, the reserve is that of the wrapped coin.         *)
ReserveOfNative(reserve) == IF reserve = "custom" THEN "wrapped" ELSE reserve
FormAaveBorrow(p) ==
  /\ Begun(p, "aaveBorrow")
  /\ LET native == BorrowIsNative(Asked(p).reserve) /\ Asked(p).native
         reserve == IF native THEN ReserveOfNative(Asked(p).reserve)
                    ELSE Asked(p).reserve
     IN  Formed(p, IF native /\ ~wallet.delegated["aaveBorrow"] THEN OpenGate
                   ELSE Redeem("lent", 0,
                               IF native /\ reserve = "wrapped" THEN "native"
                               ELSE reserve))
  /\ Still

-------------------------------------------------------------------------------
(* Compound gives back shares. The two numbers are compared as they are        *)
(* written, digit by digit; the model's have two digits before the point.      *)

EnterCompoundSupply(p, reserve, sum) ==
  Enter(p, "compoundSupply", Of(reserve, TRUE, sum)) /\ Still
EnterCompoundWithdraw(p, reserve, sum) ==
  Enter(p, "compoundWithdraw", Of(reserve, TRUE, sum)) /\ Still

MintNative(p) == Spend("compoundSupply", "native", Sum(p), 0)
MintToken(p) == Spend("compoundSupply", "token", Sum(p), Sum(p))
FormCompoundSupply(p) ==
  /\ Begun(p, "compoundSupply")
  /\ Formed(p, IF Asked(p).reserve = "custom" THEN MintNative(p) ELSE MintToken(p))
  /\ Still

Digits(n) == IF n < 10 THEN <<n>> ELSE <<n \div 10, n % 10>>
Point == -1
Written(n, half) == IF half THEN Digits(n) \o <<Point, 5>> ELSE Digits(n)

WrittenLess(s, t) ==
  \E k \in 0 .. Len(s) :
    /\ k <= Len(t) /\ \A i \in 1..k : s[i] = t[i]
    /\ \/ k = Len(s) /\ k < Len(t)
       \/ k < Len(s) /\ k < Len(t) /\ s[k + 1] < t[k + 1]

ReadShares(p) ==
  /\ Begun(p, "compoundWithdraw")
  /\ Move(p, [payment[p] EXCEPT !.at = "rate", !.shares = Held("shares")])
  /\ Still

(* What is asked back, in shares at the rate: halves are the fractions of the  *)
(* model's rates. The body asks for it rounded, a half upwards.                *)
FormCompoundWithdraw(p) ==
  /\ Stage(p, "rate")
  /\ LET whole == Sum(p) \div rate
         half == Sum(p) % rate # 0
     IN  IF WrittenLess(Written(payment[p].shares, FALSE), Written(whole, half))
         THEN Refuse(p, "lacking")
         ELSE Formed(p, Redeem("shares", IF half THEN whole + 1 ELSE whole,
                               Nothing))
  /\ Still

-------------------------------------------------------------------------------
(* Lido is paid in the chain's own coin or in a token. A withdrawal names its  *)
(* coin by a symbol, and a guard lets two of them pass.                        *)

EnterLidoStake(p, reserve, sum) == Enter(p, "lidoStake", Of(reserve, TRUE, sum)) /\ Still
EnterLidoWithdraw(p, symbol, sum) ==
  Enter(p, "lidoWithdraw", Of(symbol, TRUE, sum)) /\ Still

SubmitNative(p) == Spend("lidoStake", "native", Sum(p), 0)
SubmitToken(p) == Spend("lidoStake", "token", Sum(p), Sum(p))
(* A mutant of FormLidoStake: the token is not approved.                       *)
StakeUnapproved(p) ==
  /\ Begun(p, "lidoStake")
  /\ Formed(p, Spend("lidoStake", 
                       IF Asked(p).reserve = "custom" THEN "native" ELSE "token", Sum(p), 0))
  /\ Still

FormLidoStake(p) ==
  /\ Begun(p, "lidoStake")
  /\ Formed(p, IF Asked(p).reserve = "custom" THEN SubmitNative(p) ELSE SubmitToken(p))
  /\ Still

(* Lido's queue takes stETH by transferFrom, and the answer has no approval.   *)
WithdrawSteth(p) ==
  [Redeem("staked", Sum(p), "native") EXCEPT !.spender = "lidoWithdraw"]
WithdrawStmatic(p) == Redeem("staked", Sum(p), "token")
FormLidoWithdraw(p) ==
  /\ Begun(p, "lidoWithdraw")
  /\ Formed(p, IF Asked(p).reserve = "eth" THEN WithdrawSteth(p) ELSE WithdrawStmatic(p))
  /\ Still

-------------------------------------------------------------------------------
(* Uniswap. The percentage is rounded to a whole one; taking all of a position *)
(* takes the fees with it. Fees below 10^-6 are written with an exponent,      *)
(* which the count of their decimals may fail on.                              *)

EnterRemove(p, included, tenths) ==
  Enter(p, "uniRemove", Of(Nothing, included, tenths)) /\ Still
EnterClaim(p) == Enter(p, "uniClaim", Of(Nothing, FALSE, 0)) /\ Still

FeesForm(included) == IF included THEN BOOLEAN ELSE {TRUE}

WithFees(p) == Sum(p) >= 1000 \/ Asked(p).native
WholePercent(tenths) == (tenths + 5) \div 10

FormRemove(p) ==
  /\ Begun(p, "uniRemove")
  /\ \E forms \in FeesForm(WithFees(p)) :
       LET taken == (Held("position") * WholePercent(Sum(p))) \div 100
       IN  IF forms /\ taken > 0
           THEN Formed(p, Redeem("position", taken, Nothing))
           ELSE Refuse(p, "library")
  /\ Still

FormClaim(p) ==
  /\ Begun(p, "uniClaim")
  /\ \E forms \in FeesForm(FALSE) :
       IF forms THEN Formed(p, Redeem("position", 0, Nothing))
       ELSE Refuse(p, "library")
  /\ Still

-------------------------------------------------------------------------------
(* A read of the chain that fails fails the request.                           *)
ReadFails(p) ==
  /\ Stage(p, "begin") \/ Stage(p, "rate")
  /\ payment[p].kind \in Supplies \union Redeems
  /\ Refuse(p, "chain") /\ Still

RateRises ==
  /\ rate = 1 /\ rate' = 2
  /\ UNCHANGED <<wallet, payment>>

PositionNext ==
  \/ \E p \in Payers, reserve \in Reserves, sum \in Sums :
       \/ EnterAaveSupply(p, reserve, sum)
       \/ reserve # "wrapped" /\ EnterCompoundSupply(p, reserve, sum)
       \/ reserve # "wrapped" /\ EnterLidoStake(p, reserve, sum)
       \/ \E native \in BOOLEAN : \/ EnterAaveWithdraw(p, reserve, native, sum)
                                  \/ EnterAaveBorrow(p, reserve, native, sum)
  \/ \E p \in Payers :
       \/ \E sum \in Backs : EnterCompoundWithdraw(p, "token", sum)
       \/ \E symbol \in Symbols, sum \in Sums : EnterLidoWithdraw(p, symbol, sum)
       \/ \E included \in BOOLEAN, percent \in Percents : EnterRemove(p, included, percent)
       \/ EnterClaim(p)
  \/ \E p \in Payers :
       \/ FormAaveSupply(p) \/ FormAaveWithdraw(p) \/ FormAaveBorrow(p)
       \/ FormCompoundSupply(p) \/ ReadShares(p) \/ FormCompoundWithdraw(p)
       \/ FormLidoStake(p) \/ FormLidoWithdraw(p) \/ FormRemove(p) \/ FormClaim(p)
       \/ ReadFails(p)
  \/ RateRises

-------------------------------------------------------------------------------
(* Properties.                                                                 *)

PositionAt(p, kinds, places) ==
  payment[p] # Nothing /\ payment[p].kind \in kinds /\ payment[p].at \in places

(* Who asks for a native coin of a reserve that has one is given it, under     *)
(* either of the reserve's names, and who does not is given the reserve's own. *)
(* Only who asks for a native coin may be given a gateway to open instead, and *)
(* never again once that request's own gateway is open.                        *)
GivesWhatWasNamed ==
  \A p \in Payers : PositionAt(p, Gateways, {"formed", "delegated", "done"}) =>
    LET native == Asked(p).native /\ Asked(p).reserve # "token"
        body == payment[p].body
    IN  /\ body.gate => native /\ body.takes = 0 /\ payment[p].at # "done"
        /\ ~body.gate => body.gives = IF native THEN "native" ELSE Asked(p).reserve
        /\ body.gate /\ wallet.delegated[payment[p].kind] /\ payment[p].at = "formed" =>
             payment[p].touched

(* At Compound more shares are asked for than there were only where the two    *)
(* numbers, compared as they are written, have not as many digits. The message *)
(* of the refusal says that nobody can withdraw more than there is.            *)
SharesAreCompared ==
  \A p \in Payers :
    PositionAt(p, {"compoundWithdraw"}, {"formed", "done", "reverted"}) =>
      \/ payment[p].body.takes <= payment[p].shares
      \/ payment[p].shares < 10 /\ payment[p].body.takes >= 10

(* A share of a position is taken to within half a percent of it, and nothing  *)
(* is taken beyond the position.                                               *)
SharesAreTaken ==
  \A p \in Payers : PositionAt(p, {"uniRemove"}, {"formed"}) /\ ~payment[p].touched =>
    LET all == Held("position") * 1000
        took == payment[p].body.takes * 1000
        due == Held("position") * Sum(p)
    IN  took <= all /\ took <= due + 5 * Held("position")
        /\ took + 1000 > due - 5 * Held("position")
===============================================================================
