--------------------------------- MODULE Swaps ---------------------------------
(* Swaps at deBridge, 0x and Rango: a quote, or the payment for it. Each asks  *)
(* its service about the two tokens, by the names the service has for them.    *)
EXTENDS Signing

CONSTANTS
  Sales,       \* amounts to sell
  SwapChains,    \* chains of the application
  FeeChains,     \* those on which the application has an account for its fees
  NativeName,    \* deBridge's name of a chain's own coin
  NativeSymbol,  \* the symbol of a chain's own coin
  CoinChains,    \* chains whose own coin has a row in the database
  FixedFee       \* deBridge's fee, in the chain's own coin

VARIABLE link    \* the base address of the client for 0x, shared by all requests

swapVars == <<wallet, payment, link>>

SwapAssumption ==
  /\ Sales \subseteq Nat \ {0} /\ FixedFee \in Nat /\ FeeChains \subseteq SwapChains
  /\ CoinChains \subseteq SwapChains
  /\ NativeName \in [SwapChains -> STRING] /\ NativeSymbol \in [SwapChains -> STRING]
  /\ \A c \in SwapChains : NativeName[c] # "token" /\ NativeSymbol[c] # "token"
ASSUME SwapAssumption

SwapInit == SigningInit /\ link \in SwapChains

Swap(quote, from, to, sell, buy, amount) ==
  [quote |-> quote, from |-> from, to |-> to, sell |-> sell, buy |-> buy,
   amount |-> amount]

(* What a service is asked for; charged is the part of the swap, in steps of   *)
(* its own, that the request tells the service to keep for the application.    *)
AskService(p, chain, sell, to, buy, charged) ==
  Move(p, [payment[p] EXCEPT !.at = "ask", !.charged = charged,
             !.asked = [chain |-> chain, sell |-> sell, to |-> to, buy |-> buy]])

Says(p, sell, buy, sold, fee) ==
  Move(p, [payment[p] EXCEPT !.at = "quoted",
             !.says = [sell |-> sell, buy |-> buy, sold |-> sold, fee |-> fee]])

-------------------------------------------------------------------------------
(* deBridge. Two guards: the wallet holds the fixed fee, and a sale of the     *)
(* chain's own coin is of more than it.                                        *)

EnoughForFee == Held("native") >= FixedFee
SaleCoversFee(amount) == amount > FixedFee

BalanceGuard == EnoughForFee
SaleGuard(q) == q.sell = "native" => SaleCoversFee(q.amount)

(* A mutant of EnterDeBridge: the guard of the balance is left out.            *)
EnterUnfunded(p, q) ==
  /\ SaleGuard(q)
  /\ Enter(p, "debridge", q) /\ UNCHANGED link

EnterDeBridge(p, q) ==
  /\ BalanceGuard /\ SaleGuard(q)
  /\ Enter(p, "debridge", q) /\ UNCHANGED link

DeBridgeName(chain, token) == IF token = "native" THEN NativeName[chain] ELSE token

(* deBridge's names are translated back: any chain's own name is "native".     *)
FromDeBridge(name) ==
  IF \E c \in SwapChains : NativeName[c] = name THEN "native" ELSE name

PrepareDeBridge(q) ==
  [chain |-> q.from, sell |-> DeBridgeName(q.from, q.sell),
   to |-> q.to, buy |-> DeBridgeName(q.to, q.buy)]

(* Within a chain nothing is charged; between two, the account of the buying   *)
(* chain is looked up.                                                         *)
Within(q) == q.from = q.to
EstimateCharge(q) == IF Within(q) THEN 0 ELSE 3
PaymentCharge(q) == IF Within(q) THEN 0 ELSE 3

AskDeBridge(p) ==
  /\ Stage(p, "begin") /\ OfKind(p, "debridge")
  /\ LET q == Asked(p)
         a == PrepareDeBridge(q)
     IN  IF ~Within(q) /\ q.to \notin FeeChains THEN Refuse(p, "collector")
         ELSE AskService(p, a.chain, a.sell, a.to, a.buy,
                  IF q.quote THEN EstimateCharge(q) ELSE PaymentCharge(q))
  /\ UNCHANGED link

(* The quote has the service's own amounts: with its fees it may take more of  *)
(* the token than was asked for. The fixed fee is listed with it, 0 is none.   *)
QuoteWithWei(p, sold) ==
  [sell |-> FromDeBridge(payment[p].asked.sell),
   buy |-> FromDeBridge(payment[p].asked.buy), sold |-> sold]
AttachFixedFee(chain) == IF chain \in CoinChains THEN FixedFee ELSE 0

Estimates(p) == IF Asked(p).sell = "native" THEN {Asked(p).amount}
                ELSE {Asked(p).amount, Asked(p).amount + 1}

QuoteDeBridge(p) ==
  /\ Stage(p, "ask") /\ OfKind(p, "debridge") /\ Asked(p).quote
  /\ \E sold \in Estimates(p) :
       LET q == QuoteWithWei(p, sold)
       IN  Says(p, q.sell, q.buy, q.sold, AttachFixedFee(Asked(p).from))
  /\ UNCHANGED link

(* The body is the service's own. Of the chain's own coin it sends the sale,   *)
(* or with a token what deBridge's contract takes: its fee, or nothing.        *)
ServiceValues(sell, sold) == IF sell = "native" THEN {sold} ELSE {0, FixedFee}

PayDeBridge(p) ==
  /\ Stage(p, "ask") /\ OfKind(p, "debridge") /\ ~Asked(p).quote
  /\ \E sold \in Estimates(p) :
       LET q == QuoteWithWei(p, sold)
       IN  \E value \in ServiceValues(q.sell, sold) :
             Formed(p, [Spend("debridge", q.sell, sold, q.sold) EXCEPT !.value = value])
  /\ UNCHANGED link

-------------------------------------------------------------------------------
(* 0x. The other token is named as its own chain names it, but the sale's      *)
(* chain alone is asked, over the client's link.                               *)

Enter0x(p, q) == Enter(p, "zerox", q) /\ UNCHANGED link

ZeroxName(chain, token) == IF token = "native" THEN NativeSymbol[chain] ELSE token

Prepare0x(q) == [sell |-> ZeroxName(q.from, q.sell), buy |-> ZeroxName(q.to, q.buy)]

(* The price is asked with half the charge of the payment.                     *)
PriceCharge == 1
QuoteCharge == 2

Begin0x(p) ==
  /\ Stage(p, "begin") /\ OfKind(p, "zerox")
  /\ LET q == Asked(p)
         a == Prepare0x(q)
     IN  IF q.to \notin FeeChains THEN Refuse(p, "collector")
         ELSE Move(p, [payment[p] EXCEPT !.at = "link",
                !.charged = IF q.quote THEN PriceCharge ELSE QuoteCharge,
                !.asked = [chain |-> Nothing, sell |-> a.sell, to |-> Nothing,
                           buy |-> a.buy]])
  /\ UNCHANGED link

SetLink(p) == link' = Asked(p).from
OverLink(p, l) ==
  Move(p, [payment[p] EXCEPT !.at = "ask", !.asked.chain = l, !.asked.to = l])

(* A mutant of GetPrice: it goes over the link of the request before.          *)
PriceBeforeLink(p) ==
  /\ Stage(p, "link") /\ Asked(p).quote
  /\ SetLink(p) /\ OverLink(p, link)

(* The link is set and used at once, for the price and for the payment.        *)
GetPrice(p) ==
  /\ Stage(p, "link") /\ Asked(p).quote
  /\ SetLink(p) /\ OverLink(p, link')
GetQuote(p) ==
  /\ Stage(p, "link") /\ ~Asked(p).quote
  /\ SetLink(p) /\ OverLink(p, link')

Quote0x(p) ==
  /\ Stage(p, "ask") /\ OfKind(p, "zerox") /\ Asked(p).quote
  /\ Says(p, Asked(p).sell, Asked(p).buy, Asked(p).amount, 0)
  /\ UNCHANGED link

(* 0x names no contract to approve for a chain's own coin.                     *)
AllowanceTarget(p) ==
  Spend("zerox", Asked(p).sell, Asked(p).amount, Asked(p).amount)
Pay0x(p) ==
  /\ Stage(p, "ask") /\ OfKind(p, "zerox") /\ ~Asked(p).quote
  /\ Formed(p, AllowanceTarget(p))
  /\ UNCHANGED link

-------------------------------------------------------------------------------
(* Rango. A quote takes no account of fees; the payment looks their account up.*)

EnterRango(p, q) == Enter(p, "rango", q) /\ UNCHANGED link

RangoName(token) == IF token = "native" THEN "null" ELSE token

(* A mutant of PrepareRango: the two sides are swapped.                        *)
RangoBackwards(q) == [chain |-> q.to, sell |-> RangoName(q.buy),
                      to |-> q.from, buy |-> RangoName(q.sell)]

PrepareRango(q) == [chain |-> q.from, sell |-> RangoName(q.sell),
                    to |-> q.to, buy |-> RangoName(q.buy)]

AskRango(p) ==
  /\ Stage(p, "begin") /\ OfKind(p, "rango")
  /\ LET q == Asked(p)
         a == PrepareRango(q)
     IN  IF ~q.quote /\ q.to \notin FeeChains THEN Refuse(p, "collector")
         ELSE AskService(p, a.chain, a.sell, a.to, a.buy, IF q.quote THEN 0 ELSE 3)
  /\ UNCHANGED link

QuoteRango(p) ==
  /\ Stage(p, "ask") /\ OfKind(p, "rango") /\ Asked(p).quote
  /\ Says(p, Asked(p).sell, Asked(p).buy, Asked(p).amount, 0)
  /\ UNCHANGED link

(* Rango names an approval only while the allowance does not cover the sale.   *)
CheckOrAttachApproval(b) ==
  IF b.spender # Nothing /\ wallet.allowance["rango"] >= b.takes
  THEN [b EXCEPT !.approves = 0] ELSE b

PayRango(p) ==
  /\ Stage(p, "ask") /\ OfKind(p, "rango") /\ ~Asked(p).quote
  /\ Formed(p, CheckOrAttachApproval(
       Spend("rango", Asked(p).sell, Asked(p).amount, Asked(p).amount)))
  /\ UNCHANGED link

-------------------------------------------------------------------------------
(* A service that fails, or finds no route, fails the request.                 *)
ServiceFails(p) ==
  /\ Stage(p, "ask") /\ payment[p].kind \in Dex
  /\ Refuse(p, "service") /\ UNCHANGED link

SwapNext ==
  \/ \E p \in Payers, quote \in BOOLEAN, from, to \in SwapChains,
        sell, buy \in {"native", "token"}, amount \in Sales :
       LET q == Swap(quote, from, to, sell, buy, amount)
       IN  EnterDeBridge(p, q) \/ Enter0x(p, q) \/ EnterRango(p, q)
  \/ \E p \in Payers :
       \/ AskDeBridge(p) \/ QuoteDeBridge(p) \/ PayDeBridge(p)
       \/ Begin0x(p) \/ GetPrice(p) \/ GetQuote(p) \/ Quote0x(p) \/ Pay0x(p)
       \/ AskRango(p) \/ QuoteRango(p) \/ PayRango(p) \/ ServiceFails(p)

-------------------------------------------------------------------------------
(* Properties.                                                                 *)

Means(kind, chain, name) ==
  CASE kind = "debridge" -> IF name = NativeName[chain] THEN "native" ELSE name
    [] kind = "zerox" -> IF name = NativeSymbol[chain] THEN "native" ELSE name
    [] OTHER -> IF name = "null" THEN "native" ELSE name

SwapAt(p, places) ==
  payment[p] # Nothing /\ payment[p].kind \in Dex /\ payment[p].at \in places

(* A service is asked, on the chain of the sale, for the two tokens that the   *)
(* request names, and the quote names them again. At 0x the token to buy is    *)
(* not: when it is on another chain its name is read as one of the first.      *)
AskedForWhatIsMeant ==
  \A p \in Payers : SwapAt(p, {"ask", "quoted", "formed", "done"}) =>
    LET q == Asked(p)
        a == payment[p].asked
        s == payment[p].says
    IN
    /\ a.chain = q.from
    /\ Means(payment[p].kind, a.chain, a.sell) = q.sell
    /\ ~OfKind(p, "zerox") \/ q.from = q.to =>
         a.to = q.to /\ Means(payment[p].kind, a.to, a.buy) = q.buy
    /\ s # Nothing => s.sell = q.sell /\ s.buy = q.buy

(* What a quote says is charged is what its payment is charged, and a request  *)
(* that has a quote can be paid for: at deBridge. 0x and Rango charge the      *)
(* payment more than they quoted, and Rango quotes sales to chains on which it *)
(* then has nobody to charge for.                                              *)
ChargedAsQuoted ==
  \A p, r \in Payers :
    SwapAt(p, {"quoted"}) /\ SwapAt(r, {"formed", "done", "reverted", "refused"})
    /\ payment[r].kind = payment[p].kind
    /\ Asked(r) = [Asked(p) EXCEPT !.quote = FALSE] =>
      /\ \/ payment[p].charged = payment[r].charged
         \/ ~OfKind(p, "debridge") /\ payment[p].charged < payment[r].charged
         \/ payment[r].at = "refused"
      /\ payment[r].why = "collector" => OfKind(p, "rango")
===============================================================================
