------------------------------- MODULE CexOrders -------------------------------
(* Requests of one user for an account at an exchange (Binance or KuCoin):    *)
(* quotes and calls of withdrawals, swaps, deposit addresses, destinations    *)
(* for a trade, the listing of what the account holds, and the polling of     *)
(* statuses. The server keeps nothing: each request is a chain of calls, one  *)
(* step each, to an exchange whose terms, records and addresses move between  *)
(* them and whose answers may be lost.                                        *)
EXTENDS Integers, Sequences

CONSTANTS
  Requests,     \* requests of the user
  Amounts,      \* amounts asked for
  Terms,        \* what an exchange may ask: see TermsIn
  Coins,        \* currencies; NativeCoin is the chain's own
  NativeCoin,
  MaxRecords,   \* bound: orders and deposits the exchange holds
  None

VARIABLES
  exchange,  \* external: the exchange whose keys the user sends
  terms,     \* external: the exchange's current terms for withdrawals
  records,   \* external: withdrawals, swaps and deposits of the account
  addresses, \* external: per coin, the deposit addresses 1 .. n of the account
  order,     \* per request: what is left of it, or its answer
  told,      \* history: per record, the last status answered; per coin, the
             \* last address answered and whether two requests raced to make it
  refused    \* history: what the exchange itself refused, and on what terms

cexVars == <<exchange, terms, records, addresses, order, told, refused>>

Exchanges == {"binance", "kucoin"}
TermsIn == [enabled : BOOLEAN, min : Nat, fee : Nat, limit : Nat]
Kinds == {"quote", "lenient", "call", "swap", "address", "destination", "assets"}
Trades == {"quote", "lenient", "call", "swap"}
Chains == {"eth", "other", "unknown"}
Exclusions == Exchanges \union {"none", "unsupported"}

(* A request: where it is, its answer, and what it has found on the way.       *)
Places == {"begin", "checked", "made", "route", "routed", "create", "found",
           "prices", "answered"}
Replies == {"none", "ok", "unlisted", "lost", "refused", "error"}
Order == [kind : Kinds, coin : Coins, amount : Amounts \union {0}, chain : Chains,
          exclude : Exclusions, at : Places, reply : Replies, quoted : Int,
          seen : TermsIn \union {None}, address : Nat,
          offers : SUBSET (Coins \union Exchanges), record : 0..MaxRecords,
          left : SUBSET Coins]

CexAssumption == /\ Amounts \subseteq Nat /\ Terms \subseteq TermsIn
                 /\ NativeCoin \in Coins /\ MaxRecords \in Nat
                 /\ None \notin Requests \union TermsIn \union Order
ASSUME CexAssumption

(* The codes an order goes through at the exchange: under way, and settled.    *)
(* Binance numbers them, KuCoin names them for orders and deposits alike.      *)
OnBinance == exchange = "binance"
OnKucoin == exchange = "kucoin"
UnderWay(kind) == IF OnKucoin THEN "PROCESSING" ELSE IF kind = "withdraw" THEN 4 ELSE 0
Success(kind) == IF kind = "withdraw" THEN 6 ELSE 1
Failure(kind) == IF kind = "withdraw" THEN 5 ELSE IF kind = "deposit" THEN 7 ELSE 2
(* A withdrawal may also be cancelled or rejected.                             *)
Dropped(kind) == IF kind = "withdraw" THEN {1, 3} ELSE {}
Meaning(kind, code) ==
  IF OnKucoin THEN code
  ELSE IF code = Success(kind) THEN "SUCCESS"
  ELSE IF code = Failure(kind) THEN "FAILURE"
  ELSE IF code \in Dropped(kind) THEN "DROPPED" ELSE "PROCESSING"
(* Binance explains a failed withdrawal in a text of its own, or does not.     *)
Explained(kind, code) ==
  IF OnBinance /\ kind = "withdraw" /\ code = Failure(kind) THEN BOOLEAN ELSE {FALSE}
Codes(kind) == IF OnKucoin THEN {"SUCCESS", "FAILURE"}
               ELSE {Success(kind), Failure(kind)} \union Dropped(kind)

Answered(r) == order[r] # None /\ order[r].at = "answered"
At(r, place) == order[r] # None /\ order[r].at = place
Is(r, kinds) == order[r].kind \in kinds

Goto(r, place) == order' = [order EXCEPT ![r].at = place]
Answer(r, reply) ==
  order' = [order EXCEPT ![r].at = "answered", ![r].reply = reply]
StayExternal == UNCHANGED <<exchange, terms, records, addresses>>
StayTold == UNCHANGED <<told, refused>>

-------------------------------------------------------------------------------
CexInit ==
  /\ exchange \in Exchanges
  /\ terms \in Terms
  /\ records = <<>>
  /\ addresses = [c \in Coins |-> 0]
  /\ order = [r \in Requests |-> None]
  /\ told = [status |-> [i \in 1..MaxRecords |-> "none"],
             address |-> [c \in Coins |-> 0], raced |-> [c \in Coins |-> FALSE]]
  /\ refused = {}

(* A request reaches its controller. exclude is read by destinations only, and *)
(* holds is what the account is found to hold, for a listing.                 *)
(* KuCoin's guard lets only the chain of Ethereum pass and fails on a chain   *)
(* that does not exist; the routes of Binance look the chain up themselves.   *)
PassChain(r, kind, chain) ==
  CASE kind \in {"swap", "assets"} -> "begin"
    [] kind \in {"quote", "call", "address"} /\ OnKucoin ->
         IF chain = "eth" THEN "begin" ELSE "answered"
    [] OTHER -> IF chain = "unknown" THEN "answered" ELSE "begin"

Ask(r, kind, coin, amount, chain, exclude, holds) ==
  /\ order[r] = None
  /\ kind \in {"lenient", "swap"} => OnBinance
  /\ order' = [order EXCEPT ![r] =
       [kind |-> kind, coin |-> coin, amount |-> amount, chain |-> chain,
        exclude |-> exclude, at |-> PassChain(r, kind, chain),
        reply |-> IF PassChain(r, kind, chain) = "begin" THEN "none" ELSE "error",
        quoted |-> 0, seen |-> None, address |-> 0, offers |-> {},
        record |-> 0, left |-> holds]]
  /\ StayExternal /\ StayTold

-------------------------------------------------------------------------------
(* Quotes. What each exchange's quote refuses an amount for.                  *)

BinanceRefuses(t, amount) == ~t.enabled \/ amount < t.min

(* KuCoin: the last check compares with the amount that may still be          *)
(* withdrawn, and refuses the amounts below it.                               *)
KucoinRefuses(t, amount) == ~t.enabled \/ amount < t.min \/ amount < t.limit

(* A quote, and the quote a call of Binance makes first. A lenient quote      *)
(* passes over what the exchange says of the amount. The token's row may be   *)
(* missing: the quote then fails on it.                                       *)
BinanceQuote(r) ==
  /\ OnBinance /\ At(r, "begin") /\ Is(r, {"quote", "lenient", "call"})
  /\ LET o == order[r] IN
     IF BinanceRefuses(terms, o.amount) /\ o.kind # "lenient"
     THEN Answer(r, "refused")
     ELSE order' = [order EXCEPT
            ![r].seen = terms, ![r].quoted = o.amount - terms.fee,
            ![r].at = IF o.kind = "call" THEN "checked" ELSE "answered",
            ![r].reply = IF o.kind = "call" THEN "none" ELSE "ok"]
  /\ StayExternal /\ StayTold

KucoinQuote(r) ==
  /\ OnKucoin /\ At(r, "begin") /\ Is(r, {"quote"})
  /\ IF KucoinRefuses(terms, order[r].amount)
     THEN Answer(r, "refused")
     ELSE order' = [order EXCEPT ![r].at = "route", ![r].seen = terms]
  /\ StayExternal /\ StayTold

(* The quote is of the coin at the deposit's contract. For the chain's own    *)
(* coin the exchange gives an empty contract, which no row has.               *)
KucoinQuoteFindsCoin(r) ==
  /\ At(r, "routed") /\ Is(r, {"quote"})
  /\ IF order[r].address = 0 \/ order[r].coin = NativeCoin
     THEN Answer(r, "error")
     ELSE Goto(r, "found")
  /\ StayExternal /\ StayTold

KucoinQuoteAnswers(r) ==
  /\ At(r, "found")
  /\ order' = [order EXCEPT ![r].at = "answered", ![r].reply = "ok",
                            ![r].quoted = order[r].amount - order[r].seen.fee]
  /\ StayExternal /\ StayTold

-------------------------------------------------------------------------------
(* Withdrawals and swaps. Binance checks by a quote first, KuCoin does not.   *)

(* A mutant of ReadyToMake: Binance makes the withdrawal at once, and the     *)
(* quote is left for a retry to find out.                                     *)
MakeUnchecked(r) == At(r, "begin") /\ Is(r, {"call", "swap"})

ReadyToMake(r) ==
  \/ At(r, "checked")
  \/ At(r, "begin") /\ OnKucoin /\ Is(r, {"call"})
  \/ At(r, "begin") /\ OnBinance /\ Is(r, {"swap"})

(* The exchange takes the order. Its answer reaches the server or is lost;    *)
(* KuCoin's call goes on to look its order up.                                *)
ExchangeMakes(r) ==
  /\ ReadyToMake(r)
  /\ Len(records) < MaxRecords
  /\ order[r].kind = "call" => /\ terms.enabled /\ terms.min <= order[r].amount
                               /\ order[r].amount <= terms.limit
  /\ records' = Append(records,
       [kind |-> IF order[r].kind = "call" THEN "withdraw" ELSE "swap", by |-> r,
        coin |-> order[r].coin, amount |-> order[r].amount, fee |-> terms.fee,
        code |-> UnderWay(IF order[r].kind = "call" THEN "withdraw" ELSE "swap"),
        info |-> FALSE])
  /\ \E lost \in BOOLEAN :
       order' = [order EXCEPT ![r].record = Len(records) + 1,
         ![r].at = IF ~lost /\ OnKucoin THEN "made" ELSE "answered",
         ![r].reply = IF lost THEN "lost" ELSE IF OnKucoin THEN "none" ELSE "ok"]
  /\ UNCHANGED <<exchange, terms, addresses>> /\ StayTold

(* The exchange refuses the order, by its terms or for what the account has.  *)
ExchangeRefuses(r) ==
  /\ ReadyToMake(r)
  /\ Answer(r, "refused")
  /\ refused' = IF order[r].kind = "swap" THEN refused ELSE
       refused \union {[amount |-> order[r].amount, terms |-> terms,
         byTerms |-> ~(terms.enabled /\ terms.min <= order[r].amount
                                     /\ order[r].amount <= terms.limit)]}
  /\ StayExternal /\ UNCHANGED told

(* KuCoin: the list of withdrawals is read for the new one's transaction. The *)
(* answer names the order even when the list does not show it yet.            *)
KucoinListsAfter(r) ==
  /\ At(r, "made")
  /\ \E reply \in {"ok", "unlisted"} : Answer(r, reply)
  /\ StayExternal /\ StayTold

-------------------------------------------------------------------------------
(* Deposit addresses. KuCoin: the addresses of the coin are read, and one is  *)
(* made if there is none; of several any may be listed first.                 *)

(* Which exchanges a destination leaves out: both are left out                 *)
(* when KuCoin, or an exchange that is not known, is to be excluded.           *)
BinanceExcluded(r) == order[r].exclude \in {"kucoin", "unsupported"}
KucoinExcluded(r) == order[r].exclude \in {"kucoin", "unsupported"}

NeedsRoute(r) ==
  \/ At(r, "begin") /\ OnKucoin /\ Is(r, {"address"})
  \/ At(r, "begin") /\ OnKucoin /\ Is(r, {"destination"})
       /\ ~KucoinExcluded(r) /\ order[r].chain = "eth"
  \/ At(r, "route")

Racing(r) == \E q \in Requests \ {r} :
               At(q, "create") /\ order[q].coin = order[r].coin

(* A mutant of FetchAddress: the addresses that exist are not looked at.      *)
FetchNoAddress(r) ==
  /\ NeedsRoute(r) /\ Goto(r, "create")
  /\ StayExternal /\ UNCHANGED <<told, refused>>

FetchAddress(r) ==
  /\ NeedsRoute(r)
  /\ \/ \E a \in 1..addresses[order[r].coin] :
          order' = [order EXCEPT ![r].at = "routed", ![r].address = a]
     \/ addresses[order[r].coin] = 0 /\ Goto(r, "create")
  /\ told' = [told EXCEPT !.raced[order[r].coin] =
                @ \/ (Racing(r) /\ addresses[order[r].coin] = 0)]
  /\ StayExternal /\ UNCHANGED refused

(* The exchange makes an address, which the answer may not bring back.        *)
CreateAddress(r) ==
  /\ At(r, "create")
  /\ LET c == order[r].coin IN
     \/ /\ addresses' = [addresses EXCEPT ![c] = @ + 1]
        /\ \E a \in {0, addresses[c] + 1} :
             order' = [order EXCEPT ![r].at = "routed", ![r].address = a]
     \/ order' = [order EXCEPT ![r].at = "routed"] /\ UNCHANGED addresses
  /\ UNCHANGED <<exchange, terms, records>> /\ StayTold

Tell(r, spot) ==
  /\ order' = [order EXCEPT ![r].at = "answered", ![r].reply = "ok",
                            ![r].offers = {spot}]
  /\ told' = [told EXCEPT !.address[order[r].coin] = order[r].address]

(* The deposit address of KuCoin: without one the request is refused.          *)
KucoinAddress(r) ==
  /\ At(r, "routed") /\ Is(r, {"address"})
  /\ \/ order[r].address # 0 /\ Tell(r, "kucoin")
     \/ order[r].address = 0 /\ Answer(r, "refused") /\ UNCHANGED told
  /\ StayExternal /\ UNCHANGED refused

(* Binance has one address for a coin on a chain, made when it is first read. *)
BinanceReads(r) ==
  /\ addresses' = [addresses EXCEPT ![order[r].coin] = 1]
  /\ order' = [order EXCEPT ![r].at = "answered", ![r].reply = "ok",
                            ![r].offers = {"binance"}, ![r].address = 1]
  /\ told' = [told EXCEPT !.address[order[r].coin] = 1]
  /\ UNCHANGED <<exchange, terms, records, refused>>

BinanceAddress(r) ==
  /\ OnBinance /\ At(r, "begin") /\ Is(r, {"address"})
  /\ BinanceReads(r)

-------------------------------------------------------------------------------
(* Destinations for a trade: Binance is asked, then KuCoin.                    *)

(* Without an address, for a failed call too, the answer leaves Binance out.   *)
BinanceDestination(r) ==
  /\ OnBinance /\ At(r, "begin") /\ Is(r, {"destination"}) /\ ~BinanceExcluded(r)
  /\ \/ BinanceReads(r)
     \/ Answer(r, "ok") /\ StayExternal /\ StayTold

(* KuCoin is asked on the chain of Ethereum only.                              *)
KucoinDestination(r) ==
  /\ At(r, "routed") /\ Is(r, {"destination"})
  /\ \/ order[r].address # 0 /\ Tell(r, "kucoin")
     \/ order[r].address = 0 /\ Answer(r, "ok") /\ UNCHANGED told
  /\ StayExternal /\ UNCHANGED refused

NoDestination(r) ==
  /\ At(r, "begin") /\ Is(r, {"destination"})
  /\ \/ OnBinance /\ BinanceExcluded(r)
     \/ OnKucoin /\ (KucoinExcluded(r) \/ order[r].chain # "eth")
  /\ Answer(r, "ok") /\ StayExternal /\ StayTold

-------------------------------------------------------------------------------
(* The account's assets with their worth. Binance: the coins that are on a     *)
(* chain of the user are kept, and each is listed with the first price found   *)
(* on its chains, or with none.                                                *)
BinanceKeepsChains(r) ==
  /\ OnBinance /\ At(r, "begin") /\ Is(r, {"assets"})
  /\ \E kept \in SUBSET order[r].left :
       order' = [order EXCEPT ![r].at = "prices", ![r].left = kept]
  /\ StayExternal /\ StayTold

BinancePricesAsset(r) ==
  /\ At(r, "prices")
  /\ \E c \in order[r].left :
       order' = [order EXCEPT ![r].left = @ \ {c}, ![r].offers = @ \union {c}]
  /\ StayExternal /\ StayTold

ListAnswers(r) ==
  /\ At(r, "prices") \/ (At(r, "begin") /\ OnKucoin)
  /\ Is(r, {"assets"}) /\ order[r].left = {}
  /\ Answer(r, "ok") /\ StayExternal /\ StayTold

(* KuCoin: the deposit route of each coin is looked for, and made, one after   *)
(* another; coins without a route or a price are passed over.                  *)
KucoinNextAsset(r) ==
  /\ OnKucoin /\ At(r, "begin") /\ Is(r, {"assets"})
  /\ \E c \in order[r].left :
       order' = [order EXCEPT ![r].coin = c, ![r].at = "route",
                   ![r].address = 0, ![r].left = @ \ {c}]
  /\ StayExternal /\ StayTold

KucoinPricesAsset(r) ==
  /\ At(r, "routed") /\ Is(r, {"assets"})
  /\ \E priced \in BOOLEAN :
       order' = [order EXCEPT ![r].at = "begin",
         ![r].offers = IF order[r].address # 0 /\ priced
                       THEN @ \union {order[r].coin} ELSE @]
  /\ StayExternal /\ StayTold

-------------------------------------------------------------------------------
(* Statuses, polled by the client until one is final: what each route says of  *)
(* the order found under the client's id or transaction.                       *)
Flags(executed, error) == IF executed THEN "executed"
                          ELSE IF error THEN "error" ELSE "pending"

(* Mutants: a withdrawal awaiting approval is an error; a failed deposit goes  *)
(* on.                                                                         *)
AwaitingIsError(code, info) == Flags(code = 6, code \in 1..5)
WrongDepositGoesOn(code) == Flags(code = 1, code \in {2})

(* The error of a failed withdrawal is Binance's text: without one the client  *)
(* is told neither that it was carried out nor that it failed.                 *)
BinanceWithdrawStatus(code, info) == Flags(code = 6, code = 5 /\ info)
BinanceDepositStatus(code) == Flags(code = 1, code \in {7})
BinanceSwapStatus(code) == Flags(code = 1, code = 2)
KucoinWithdrawStatus(code) == Flags(code = "SUCCESS", code = "FAILURE")
KucoinDepositStatus(code) == Flags(code = "SUCCESS", code = "FAILURE")

(* KuCoin looks the order up in the list of its currency: until it is listed   *)
(* the poll is answered 404 and nothing is told.                               *)
Poll(i) ==
  /\ i \in 1..Len(records)
  /\ told.status[i] \notin {"executed", "error"}
  /\ told' = [told EXCEPT !.status[i] =
       LET code == records[i].code
           withdrawal == records[i].kind = "withdraw"
       IN  IF records[i].kind = "swap" THEN BinanceSwapStatus(code)
           ELSE IF OnBinance THEN IF withdrawal THEN BinanceWithdrawStatus(code, records[i].info)
                                  ELSE BinanceDepositStatus(code)
           ELSE IF withdrawal THEN KucoinWithdrawStatus(code)
                ELSE KucoinDepositStatus(code)]
  /\ StayExternal /\ UNCHANGED <<order, refused>>

-------------------------------------------------------------------------------
(* The exchange on its own.                                                   *)

(* An order is settled, for good.                                             *)
Settle(i) ==
  /\ i \in 1..Len(records)
  /\ Meaning(records[i].kind, records[i].code) = "PROCESSING"
  /\ \E code \in Codes(records[i].kind) : \E info \in Explained(records[i].kind, code) :
       records' = [records EXCEPT ![i].code = code, ![i].info = info]
  /\ UNCHANGED <<exchange, terms, addresses, order>> /\ StayTold

(* A deposit of the user at the address last told shows in the account.       *)
Deposit(c) ==
  /\ told.address[c] # 0 /\ Len(records) < MaxRecords
  /\ records' = Append(records, [kind |-> "deposit", by |-> None, coin |-> c,
                  amount |-> 0, fee |-> 0, code |-> UnderWay("deposit"), info |-> FALSE])
  /\ UNCHANGED <<exchange, terms, addresses, order>> /\ StayTold

TermsMove ==
  /\ \E t \in Terms \ {terms} : terms' = t
  /\ UNCHANGED <<exchange, records, addresses, order>> /\ StayTold

(* Any call of a request may fail, which fails the request; KuCoin's listing  *)
(* after a withdrawal too. A destination catches them and leaves the exchange *)
(* out.                                                                       *)
Fails(r) ==
  /\ order[r] # None /\ ~Answered(r)
  /\ order[r].kind # "destination"
  /\ Answer(r, "error") /\ StayExternal /\ StayTold

Handle(r) ==
  \/ BinanceQuote(r) \/ KucoinQuote(r) \/ KucoinQuoteFindsCoin(r) \/ KucoinQuoteAnswers(r)
  \/ ExchangeMakes(r) \/ ExchangeRefuses(r) \/ KucoinListsAfter(r)
  \/ FetchAddress(r) \/ CreateAddress(r) \/ KucoinAddress(r)
  \/ BinanceAddress(r) \/ BinanceDestination(r) \/ KucoinDestination(r)
  \/ NoDestination(r) \/ BinanceKeepsChains(r) \/ BinancePricesAsset(r)
  \/ ListAnswers(r) \/ KucoinNextAsset(r) \/ KucoinPricesAsset(r)
  \/ Fails(r)

CexNext ==
  \/ \E r \in Requests : Handle(r)
  \/ \E r \in Requests, kind \in Kinds :
       \E c \in IF kind = "assets" THEN {NativeCoin} ELSE Coins,
          amount \in IF kind \in Trades THEN Amounts ELSE {0},
          chain \in IF kind \in {"swap", "assets"} THEN {"eth"} ELSE Chains,
          exclude \in IF kind = "destination" THEN Exclusions ELSE {"none"},
          holds \in IF kind = "assets" THEN SUBSET Coins ELSE {{}} :
         Ask(r, kind, c, amount, chain, exclude, holds)
  \/ \E i \in 1..MaxRecords : Poll(i) \/ Settle(i)
  \/ \E c \in Coins : Deposit(c)
  \/ TermsMove

(* The client polls an order until the answer is final.                       *)
CexFairness == \A i \in 1..MaxRecords : WF_cexVars(Poll(i))
CexSpec == CexInit /\ [][CexNext]_cexVars /\ CexFairness

-------------------------------------------------------------------------------
(* Properties.                                                                *)

MadeBy(r) == {i \in 1..Len(records) : records[i].by = r}

(* What a client may conclude from the answer to a withdrawal or a swap: one  *)
(* that is refused was not made, one that is answered was made once and as    *)
(* asked, and one that failed was made only if the exchange's answer was lost *)
(* or, at KuCoin, if the list read after it failed. Binance makes none that   *)
(* its own quote has not accepted first.                                      *)
AnswersTellWhatWasMade ==
  \A r \in Requests : Answered(r) /\ Is(r, {"call", "swap"}) =>
    /\ \A i \in MadeBy(r) : /\ i = order[r].record
                            /\ records[i].amount = order[r].amount
                            /\ records[i].coin = order[r].coin
    /\ order[r].reply \in {"ok", "unlisted", "lost"} => MadeBy(r) # {}
    /\ order[r].reply = "refused" => MadeBy(r) = {}
    /\ order[r].reply = "error" /\ MadeBy(r) # {} => OnKucoin
    /\ OnBinance /\ Is(r, {"call"}) /\ MadeBy(r) # {} =>
         order[r].seen # None /\ ~BinanceRefuses(order[r].seen, order[r].amount)

(* A quote holds as long as the terms it was made on: what it says arrives,   *)
(* and the exchange refuses the amount for no term but its limit, which       *)
(* neither quote compares the right way.                                      *)
QuotesHold ==
  \A r \in Requests : Answered(r) /\ Is(r, {"quote"}) /\ order[r].reply = "ok" =>
    /\ \A i \in 1..Len(records) :
         records[i].kind = "withdraw" /\ records[i].coin = order[r].coin
         /\ records[i].amount = order[r].amount /\ records[i].fee = order[r].seen.fee
         => order[r].quoted = records[i].amount - records[i].fee
    /\ \A f \in refused :
         f.amount = order[r].amount /\ f.terms = order[r].seen /\ f.byTerms
         => order[r].amount > order[r].seen.limit

CexKeepsItsWord == AnswersTellWhatWasMade /\ QuotesHold

(* What a client was told stays so: a final status is the order's own and is  *)
(* never taken back, and the deposit address of a coin is never another one,  *)
(* unless two requests found none at the same time and both made one.         *)
WhatIsToldStays ==
  [][/\ \A i \in 1..MaxRecords :
          told'.status[i] \in {"executed", "error"} =>
            /\ Meaning(records'[i].kind, records'[i].code) =
                 IF told'.status[i] = "executed" THEN "SUCCESS" ELSE "FAILURE"
            /\ records[i] = records'[i]
     /\ \A c \in Coins : told.address[c] # 0 =>
          \/ told'.address[c] = told.address[c]
          \/ told.raced[c]]_cexVars

(* An order that the exchange carries out or fails is finally told so to the  *)
(* client that polls it. Two sorts of withdrawals at Binance never are, and   *)
(* their polling goes on for ever: those that are cancelled or rejected, and  *)
(* those that fail without an explanation.                                    *)
Unexplained(record) ==
  /\ OnBinance /\ record.kind = "withdraw" /\ ~record.info
  /\ Meaning(record.kind, record.code) = "FAILURE"

SettledIsTold ==
  \A i \in 1..MaxRecords :
    (/\ i <= Len(records) /\ ~Unexplained(records[i])
     /\ Meaning(records[i].kind, records[i].code) \in {"SUCCESS", "FAILURE"}) ~>
      (told.status[i] \in {"executed", "error"})

-------------------------------------------------------------------------------
(* The inductive invariant: what the types are, and what each request, record *)
(* and history knows of the others.                                           *)

Code == IF OnKucoin THEN {"PROCESSING", "SUCCESS", "FAILURE"} ELSE 0..7
Record == [kind : {"withdraw", "swap", "deposit"}, by : Requests \union {None},
           coin : Coins, amount : Nat, fee : Nat, code : Code, info : BOOLEAN]
Refusal == [amount : Nat, terms : TermsIn, byTerms : BOOLEAN]

CexTypeOK ==
  /\ exchange \in Exchanges /\ terms \in TermsIn
  /\ records \in Seq(Record) /\ Len(records) <= MaxRecords
  /\ addresses \in [Coins -> Nat]
  /\ order \in [Requests -> Order \union {None}]
  /\ told \in [status : [1..MaxRecords -> {"none", "pending", "executed", "error"}],
               address : [Coins -> Nat], raced : [Coins -> BOOLEAN]]
  /\ refused \subseteq Refusal

(* What a request has at each of its steps.                                   *)
StageOK(o) ==
  /\ o.record # 0 => o.at \in {"made", "answered"} /\ o.kind \in {"call", "swap"}
  /\ o.at = "checked" => OnBinance /\ o.kind = "call"
  /\ o.at = "made" => OnKucoin /\ o.kind = "call" /\ o.record # 0
  /\ o.at \in {"route", "routed", "create", "found"} =>
       OnKucoin /\ o.kind \in {"quote", "address", "destination", "assets"}
  /\ o.at = "found" => o.kind = "quote"
  /\ o.at = "prices" => o.kind = "assets"
  /\ o.kind \in {"swap", "lenient"} => OnBinance

(* The terms a quote was made on, and a call of Binance, accept its amount.   *)
HasTerms(o) ==
  \/ OnBinance /\ o.kind = "call" /\ (o.at = "checked" \/ o.record # 0)
  \/ o.kind = "quote" /\ o.at \in {"route", "routed", "create", "found"}
  \/ o.kind = "quote" /\ o.at = "answered" /\ o.reply = "ok"
AcceptedOK(o) ==
  /\ HasTerms(o) => o.seen \in TermsIn /\ ~BinanceRefuses(o.seen, o.amount)
  /\ o.kind = "quote" /\ o.at = "answered" /\ o.reply = "ok" =>
       o.quoted = o.amount - o.seen.fee

(* What an answer says of the order it has made.                              *)
ReplyOK(o) ==
  o.at = "answered" /\ o.kind \in {"call", "swap"} =>
    /\ o.reply \in {"ok", "unlisted", "lost"} => o.record # 0
    /\ o.reply = "refused" => o.record = 0
    /\ o.reply = "error" /\ o.record # 0 => OnKucoin

OrderOK(o) == StageOK(o) /\ AcceptedOK(o) /\ ReplyOK(o)

(* A record and the request it is by name each other.                         *)
RecordOK(i) ==
  /\ records[i].kind = "swap" => OnBinance
  /\ records[i].by # None =>
       LET o == order[records[i].by] IN
       o # None /\ o.record = i /\ o.amount = records[i].amount /\ o.coin = records[i].coin
OwnerOK(r) ==
  order[r] # None /\ order[r].record # 0 =>
    order[r].record <= Len(records) /\ records[order[r].record].by = r

RefusedOK == \A f \in refused : f.byTerms =>
  ~(f.terms.enabled /\ f.terms.min <= f.amount /\ f.amount <= f.terms.limit)

(* A final status was told of an order that has come to it.                   *)
ToldOK(i) ==
  /\ told.status[i] = "executed" =>
       i <= Len(records) /\ Meaning(records[i].kind, records[i].code) = "SUCCESS"
  /\ told.status[i] = "error" =>
       i <= Len(records) /\ Meaning(records[i].kind, records[i].code) = "FAILURE"

(* While no two requests race there is one address of a coin at most, and the *)
(* one that makes it is alone.                                                *)
AddressOK(c) ==
  ~told.raced[c] =>
    /\ addresses[c] <= 1 /\ told.address[c] <= 1
    /\ \A r \in Requests : order[r] # None /\ order[r].coin = c =>
         /\ order[r].address <= 1
         /\ order[r].at = "create" =>
              /\ addresses[c] = 0
              /\ \A q \in Requests : At(q, "create") /\ order[q].coin = c => q = r

CexInv ==
  /\ CexTypeOK
  /\ \A r \in Requests : order[r] # None => OrderOK(order[r]) /\ OwnerOK(r)
  /\ \A i \in 1..Len(records) : RecordOK(i)
  /\ RefusedOK
  /\ \A i \in 1..MaxRecords : ToldOK(i)
  /\ \A c \in Coins : AddressOK(c)
===============================================================================
