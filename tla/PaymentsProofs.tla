----------------------------- MODULE PaymentsProofs -----------------------------
(* Proofs about the payments: what a request comes to stays what was asked for *)
(* from its controller to the signature, whatever is signed in between. The    *)
(* inductive invariant says of every request what its record holds at each of  *)
(* its places (Good), and what the wallet still has for it while no other      *)
(* transaction was signed (Covered).                                           *)
EXTENDS Payments, Ramps, TLAPS

-------------------------------------------------------------------------------
(* The type of a request, and of the wallet.                                   *)

SwapRequests ==
  [quote : BOOLEAN, from : SwapChains, to : SwapChains, sell : {"native", "token"},
   buy : {"native", "token"}, amount : Sales]
PositionRequests ==
  [reserve : Reserves \union Symbols \union {Nothing}, native : BOOLEAN, amount : Nat]

PayKinds == Dex \union Supplies \union Redeems
PayPlaces == {"begin", "link", "ask", "rate", "quoted", "formed", "delegated", "done",
           "reverted", "refused"}
Bodied == {"formed", "delegated", "done", "reverted"}
Sent == {"ask", "quoted", "formed", "done", "reverted"}

Names == {"native", "token", "null"} \union {NativeName[c] : c \in SwapChains}
         \union {NativeSymbol[c] : c \in SwapChains}
Askings == [chain : SwapChains \union {Nothing}, sell : Names,
            to : SwapChains \union {Nothing}, buy : Names]
Sayings == [sell : Names, buy : Names, sold : Nat, fee : Nat]
PayBodies == [pot : Pots, takes : Nat, value : Nat, spender : Spenders \union {Nothing},
              approves : Nat, gives : {"native"} \union Reserves \union {Nothing},
              gate : BOOLEAN]

PaymentRecords ==
  [kind : PayKinds, request : SwapRequests \union PositionRequests, at : PayPlaces,
   asked : Askings \union {Nothing}, says : Sayings \union {Nothing},
   charged : Nat, shares : Nat, body : PayBodies \union {Nothing},
   why : Whys \union {Nothing},
   enough : BOOLEAN, allowed : BOOLEAN, approved : BOOLEAN, touched : BOOLEAN, took : Nat]

WalletRecords ==
  [holds : [Pots -> Nat], allowance : [Spenders -> Nat],
   delegated : [Gateways -> BOOLEAN]]

PaymentTypeOK ==
  /\ wallet \in WalletRecords /\ wallet.holds["shares"] <= MaxHeld
  /\ payment \in [Payers -> PaymentRecords \union {Nothing}]
  /\ link \in SwapChains
  /\ rate \in {1, 2}

-------------------------------------------------------------------------------
(* What the record of a request holds.                                         *)

(* What its service is asked for, and what it is charged.                      *)
AskedOf(q) ==
  IF q.kind = "debridge" THEN PrepareDeBridge(q.request)
  ELSE IF q.kind = "rango" THEN PrepareRango(q.request)
  ELSE [chain |-> q.request.from, sell |-> Prepare0x(q.request).sell,
        to |-> q.request.from, buy |-> Prepare0x(q.request).buy]
ChargeOf(q) ==
  IF q.kind = "debridge" THEN (IF Within(q.request) THEN 0 ELSE 3)
  ELSE IF q.kind = "rango" THEN (IF q.request.quote THEN 0 ELSE 3)
  ELSE (IF q.request.quote THEN PriceCharge ELSE QuoteCharge)

(* Whether somebody is there to charge for it.                                 *)
HasCollector(q) ==
  \/ q.request.to \in FeeChains
  \/ q.kind = "debridge" /\ Within(q.request)
  \/ q.kind = "rango" /\ q.request.quote

SwapGood(q) ==
  /\ q.request \in SwapRequests
  /\ q.at \in Sent \union {"begin", "link", "refused"}
  /\ q.kind = "debridge" => SaleGuard(q.request)
  /\ q.at \in Sent => q.asked = AskedOf(q)
  /\ q.at \in Sent => q.charged = ChargeOf(q)
  /\ q.at \in Sent \union {"link"} => HasCollector(q)
  /\ q.at = "link" =>
       /\ q.kind = "zerox"
       /\ q.asked = [chain |-> Nothing, sell |-> Prepare0x(q.request).sell,
                     to |-> Nothing, buy |-> Prepare0x(q.request).buy]
       /\ q.charged = ChargeOf(q)
  /\ q.at = "quoted" =>
       /\ q.request.quote
       /\ q.says.sell = q.request.sell /\ q.says.buy = q.request.buy
  /\ q.at # "quoted" => q.says = Nothing
  /\ q.at \in Bodied => ~q.request.quote
  /\ q.why = "collector" => ~HasCollector(q)
  /\ q.why # Nothing => q.at = "refused"

PositionGood(q) ==
  /\ q.request \in PositionRequests
  /\ q.at \in Bodied \union {"begin", "rate", "refused"}
  /\ q.kind \in Supplies => q.request.amount \in Sums
  /\ q.kind \in {"aaveWithdraw", "aaveBorrow"} => q.request.reserve \in Reserves
  /\ q.kind = "uniRemove" => q.request.amount \in Percents
  /\ q.kind = "compoundWithdraw" => q.request.amount \in Backs
  /\ q.at = "rate" => q.kind = "compoundWithdraw" /\ q.shares <= MaxHeld

(* The withdrawals for which Lido asks an approval that no answer has, and the *)
(* shares of Compound that a body may take.                                    *)
Steth(q) == q.kind = "lidoWithdraw" /\ q.request.reserve = "eth"
Compared(takes, shares) == takes <= shares \/ (shares < 10 /\ takes >= 10)

(* Whether the native coin of a reserve was asked for.                         *)
AskedNative(q) == q.request.native /\ q.request.reserve # "token"

(* What a body takes, sends, approves and gives.                               *)
BodyGood(q, b) ==
  /\ b \in PayBodies
  /\ b.value > 0 => b.pot = "native" \/ q.kind = "debridge"
  /\ b.gate => q.kind \in Gateways /\ AskedNative(q) /\ b.takes = 0
  /\ q.kind \in Supplies \union {"zerox", "rango"} => b.takes = q.request.amount
  /\ q.kind = "aaveWithdraw" /\ ~b.gate => b.takes = q.request.amount
  /\ q.kind = "compoundWithdraw" => Compared(b.takes, q.shares)
  /\ q.kind \in Gateways /\ ~b.gate =>
       b.gives = IF AskedNative(q) THEN "native" ELSE q.request.reserve
  /\ b.approves > 0 => b.spender \in Spenders /\ b.approves = b.takes

Good(q) ==
  /\ q.kind \in Dex => SwapGood(q)
  /\ q.kind \notin Dex => PositionGood(q)
  /\ q.at \in Bodied => BodyGood(q, q.body)
  /\ q.at \notin Bodied => q.body = Nothing /\ ~q.approved
  /\ q.at \in Bodied => q.allowed \/ Steth(q)
  /\ q.at = "done" => q.took = q.body.takes /\ ~q.body.gate
  /\ q.at = "delegated" => q.body.gate
  /\ q.at = "reverted" => q.touched \/ ~q.enough \/ ~q.allowed

(* What the wallet w has for it, until another transaction is signed.          *)
BodyCovered(q, b, w) ==
  /\ q.enough =>
       /\ w.holds[b.pot] >= b.takes /\ w.holds["native"] >= b.value
       /\ b.spender # Nothing /\ (q.approved \/ (b.approves = 0 /\ q.allowed)) =>
            w.allowance[b.spender] >= b.takes
  /\ q.kind \in Gateways /\ b.gives = "native" => w.delegated[q.kind]
  /\ b.gate => ~w.delegated[q.kind]
  /\ q.kind = "uniRemove" =>
       b.takes = (w.holds["position"] * WholePercent(q.request.amount)) \div 100

Covered(q, w) ==
  ~q.touched =>
    /\ q.kind = "debridge" /\ q.at \in {"begin", "ask"} => w.holds["native"] >= FixedFee
    /\ q.at = "formed" => BodyCovered(q, q.body, w)

PaymentInv ==
  /\ PaymentTypeOK
  /\ \A p \in Payers : payment[p] # Nothing => Good(payment[p])
  /\ \A p \in Payers : payment[p] # Nothing => Covered(payment[p], wallet)


-------------------------------------------------------------------------------
(* The records that the steps before a signature make: each is the record of a *)
(* request again, and changes only the fields it names.                        *)

AskedNow(q, c, a) == [q EXCEPT !.at = "ask", !.charged = c, !.asked = a]
LinkedNow(q, c, a) == [q EXCEPT !.at = "link", !.charged = c, !.asked = a]
OverNow(q, l) == [q EXCEPT !.at = "ask", !.asked.chain = l, !.asked.to = l]
QuotedNow(q, s) == [q EXCEPT !.at = "quoted", !.says = s]
RefusedNow(q, why) == [q EXCEPT !.at = "refused", !.why = why]
FormedNow(q, b, e, a) ==
  [q EXCEPT !.at = "formed", !.body = b, !.enough = e, !.allowed = a]
SharesNow(q, n) == [q EXCEPT !.at = "rate", !.shares = n]

Kept(o, q) == /\ o.kind = q.kind /\ o.request = q.request
              /\ o.touched = q.touched /\ o.approved = q.approved

LEMMA AskFields ==
  ASSUME NEW q \in PaymentRecords, NEW c \in Nat, NEW a \in Askings
  PROVE  /\ AskedNow(q, c, a) \in PaymentRecords
         /\ Kept(AskedNow(q, c, a), q)
         /\ AskedNow(q, c, a).at = "ask" /\ AskedNow(q, c, a).charged = c /\ AskedNow(q, c, a).asked = a
         /\ AskedNow(q, c, a).says = q.says /\ AskedNow(q, c, a).body = q.body /\ AskedNow(q, c, a).why = q.why
BY DEF PaymentRecords, Kept, PayPlaces, AskedNow

LEMMA LinkFields ==
  ASSUME NEW q \in PaymentRecords, NEW c \in Nat, NEW a \in Askings
  PROVE  /\ LinkedNow(q, c, a) \in PaymentRecords
         /\ Kept(LinkedNow(q, c, a), q)
         /\ LinkedNow(q, c, a).at = "link" /\ LinkedNow(q, c, a).charged = c /\ LinkedNow(q, c, a).asked = a
         /\ LinkedNow(q, c, a).says = q.says /\ LinkedNow(q, c, a).body = q.body /\ LinkedNow(q, c, a).why = q.why
BY DEF PaymentRecords, Kept, PayPlaces, LinkedNow

LEMMA OverFields ==
  ASSUME NEW q \in PaymentRecords, q.asked \in Askings, NEW l \in SwapChains
  PROVE  /\ OverNow(q, l) \in PaymentRecords
         /\ Kept(OverNow(q, l), q)
         /\ OverNow(q, l).at = "ask" /\ OverNow(q, l).charged = q.charged
         /\ OverNow(q, l).asked = [chain |-> l, sell |-> q.asked.sell, to |-> l, buy |-> q.asked.buy]
         /\ OverNow(q, l).says = q.says /\ OverNow(q, l).body = q.body /\ OverNow(q, l).why = q.why
BY DEF PaymentRecords, Kept, PayPlaces, OverNow, Askings

LEMMA QuotedFields ==
  ASSUME NEW q \in PaymentRecords, NEW s \in Sayings
  PROVE  /\ QuotedNow(q, s) \in PaymentRecords
         /\ Kept(QuotedNow(q, s), q)
         /\ QuotedNow(q, s).at = "quoted" /\ QuotedNow(q, s).says = s
         /\ QuotedNow(q, s).asked = q.asked /\ QuotedNow(q, s).charged = q.charged
         /\ QuotedNow(q, s).body = q.body /\ QuotedNow(q, s).why = q.why
BY DEF PaymentRecords, Kept, PayPlaces, QuotedNow

LEMMA RefusedFields ==
  ASSUME NEW q \in PaymentRecords, NEW why \in Whys
  PROVE  /\ RefusedNow(q, why) \in PaymentRecords
         /\ Kept(RefusedNow(q, why), q)
         /\ RefusedNow(q, why).at = "refused" /\ RefusedNow(q, why).why = why
         /\ RefusedNow(q, why).asked = q.asked /\ RefusedNow(q, why).charged = q.charged
         /\ RefusedNow(q, why).says = q.says /\ RefusedNow(q, why).body = q.body
BY DEF PaymentRecords, Kept, PayPlaces, RefusedNow

LEMMA FormedFields ==
  ASSUME NEW q \in PaymentRecords, NEW b \in PayBodies, NEW e \in BOOLEAN, NEW a \in BOOLEAN
  PROVE  LET o == FormedNow(q, b, e, a)
         IN  /\ o \in PaymentRecords
             /\ Kept(o, q)
             /\ o.at = "formed" /\ o.body = b /\ o.enough = e /\ o.allowed = a
             /\ o.asked = q.asked /\ o.charged = q.charged /\ o.shares = q.shares
             /\ o.says = q.says /\ o.why = q.why
<1> DEFINE o == FormedNow(q, b, e, a)
<1>1. /\ o.kind = q.kind /\ o.request = q.request /\ o.asked = q.asked /\ o.says = q.says
      /\ o.charged = q.charged /\ o.shares = q.shares /\ o.why = q.why
      /\ o.approved = q.approved /\ o.touched = q.touched
      /\ o.at = "formed" /\ o.body = b /\ o.enough = e /\ o.allowed = a
  BY DEF FormedNow, PaymentRecords
<1>2. o \in PaymentRecords
  BY DEF PaymentRecords, PayPlaces, FormedNow
<1> QED
  BY <1>1, <1>2 DEF Kept

LEMMA SharesFields ==
  ASSUME NEW q \in PaymentRecords, NEW n \in Nat
  PROVE  LET o == SharesNow(q, n)
         IN  /\ o \in PaymentRecords
             /\ Kept(o, q)
             /\ o.at = "rate" /\ o.shares = n
             /\ o.says = q.says /\ o.body = q.body /\ o.why = q.why
<1> DEFINE o == SharesNow(q, n)
<1>1. /\ o.kind = q.kind /\ o.request = q.request /\ o.asked = q.asked /\ o.says = q.says
      /\ o.charged = q.charged /\ o.body = q.body /\ o.why = q.why /\ o.enough = q.enough
      /\ o.allowed = q.allowed /\ o.approved = q.approved /\ o.touched = q.touched
      /\ o.took = q.took /\ o.at = "rate" /\ o.shares = n
  BY DEF SharesNow, PaymentRecords
<1>2. o \in PaymentRecords
  BY DEF PaymentRecords, PayPlaces, SharesNow
<1> QED
  BY <1>1, <1>2 DEF Kept

-------------------------------------------------------------------------------
(* Steps that change one request only, and nothing in the wallet.              *)

LEMMA PaymentFacts ==
  ASSUME PaymentInv, NEW p \in Payers, payment[p] # Nothing
  PROVE  /\ payment[p] \in PaymentRecords
         /\ Good(payment[p]) /\ Covered(payment[p], wallet)
BY DEF PaymentInv, PaymentTypeOK

LEMMA MoveKeeps ==
  ASSUME PaymentInv, NEW p \in Payers, NEW o \in PaymentRecords,
         Good(o), Covered(o, wallet), Move(p, o),
         link' \in SwapChains, rate' \in {1, 2}
  PROVE  PaymentInv'
<1>1. /\ payment' = [payment EXCEPT ![p] = o] /\ wallet' = wallet
  BY DEF Move
<1>2. PaymentTypeOK'
  BY <1>1 DEF PaymentInv, PaymentTypeOK
<1>3. \A r \in Payers : payment'[r] = IF r = p THEN o ELSE payment[r]
  BY <1>1 DEF PaymentInv, PaymentTypeOK
<1>4. \A r \in Payers : payment'[r] # Nothing => Good(payment'[r])
  BY <1>3 DEF PaymentInv
<1>5. \A r \in Payers : payment'[r] # Nothing => Covered(payment'[r], wallet')
  BY <1>1, <1>3 DEF PaymentInv
<1> QED
  BY <1>2, <1>4, <1>5 DEF PaymentInv

(* A request that is refused keeps nothing but why: of a swap that nobody is   *)
(* there to charge for, only that.                                             *)
LEMMA RefusedKeeps ==
  ASSUME PaymentInv, NEW p \in Payers, payment[p] # Nothing,
         payment[p].at \notin Bodied \union {"quoted"},
         NEW why \in Whys,
         why = "collector" => payment[p].kind \in Dex /\ ~HasCollector(payment[p]),
         Refuse(p, why), link' \in SwapChains, rate' \in {1, 2}
  PROVE  PaymentInv'
<1> DEFINE q == payment[p]
           o == RefusedNow(q, why)
<1>1. q \in PaymentRecords /\ Good(q) /\ Covered(q, wallet)
  BY PaymentFacts
<1>2. Move(p, o)
  BY DEF Refuse, RefusedNow
<1>3. /\ o \in PaymentRecords /\ Kept(o, q) /\ o.at = "refused" /\ o.why = why
      /\ o.says = q.says /\ o.body = q.body
  BY <1>1, RefusedFields
<1> HIDE DEF o
<1>4. o.kind \in Dex => SwapGood(o)
  BY <1>1, <1>3 DEF Good, SwapGood, Kept, Sent, Bodied, HasCollector
<1>5. o.kind \notin Dex => PositionGood(o)
  BY <1>1, <1>3 DEF Good, PositionGood, Kept, Bodied
<1>6. Good(o)
  BY <1>1, <1>3, <1>4, <1>5 DEF Good, Bodied, Kept
<1>7. Covered(o, wallet)
  BY <1>3 DEF Covered
<1> QED
  BY <1>2, <1>3, <1>6, <1>7, MoveKeeps

-------------------------------------------------------------------------------
(* Swaps.                                                                      *)

LEMMA AskedOfType ==
  ASSUME NEW q, q.request \in SwapRequests
  PROVE  AskedOf(q) \in Askings /\ ChargeOf(q) \in Nat
<1>1. /\ q.request.from \in SwapChains /\ q.request.to \in SwapChains
      /\ q.request.sell \in {"native", "token"} /\ q.request.buy \in {"native", "token"}
  BY DEF SwapRequests
<1>2. /\ NativeName[q.request.from] \in Names /\ NativeName[q.request.to] \in Names
      /\ NativeSymbol[q.request.from] \in Names /\ NativeSymbol[q.request.to] \in Names
      /\ "native" \in Names /\ "token" \in Names /\ "null" \in Names
  BY <1>1 DEF Names
<1>3. AskedOf(q) \in Askings
  BY <1>1, <1>2 DEF AskedOf, Askings, PrepareDeBridge, PrepareRango, Prepare0x, DeBridgeName,
     RangoName, ZeroxName
<1>4. ChargeOf(q) \in Nat
  BY DEF ChargeOf, PriceCharge, QuoteCharge
<1> QED
  BY <1>3, <1>4

(* A swap enters, with the guards of its controller.                           *)
LEMMA SwapEnters ==
  ASSUME PaymentInv, NEW p \in Payers, NEW kind \in Dex, NEW q \in SwapRequests,
         kind = "debridge" => SaleGuard(q) /\ BalanceGuard,
         Enter(p, kind, q), link' \in SwapChains, rate' \in {1, 2}
  PROVE  PaymentInv'
<1> DEFINE o == [kind |-> kind, request |-> q, at |-> "begin",
                 asked |-> Nothing, says |-> Nothing, charged |-> 0, shares |-> 0,
                 body |-> Nothing, why |-> Nothing, enough |-> FALSE,
                 allowed |-> FALSE, approved |-> FALSE, touched |-> FALSE, took |-> 0]
<1>1. o \in PaymentRecords
  BY DEF PaymentRecords, PayKinds, PayPlaces
<1>2. Move(p, o)
  BY DEF Enter
<1>3. /\ o.kind = kind /\ o.request = q /\ o.at = "begin" /\ o.says = Nothing
      /\ o.body = Nothing /\ o.why = Nothing /\ ~o.approved
  OBVIOUS
<1> HIDE DEF o
<1>4. Nothing # "collector"
  BY SigningAssumption DEF SigningAssumption, Whys
<1>5. Good(o)
  BY <1>3, <1>4 DEF Good, SwapGood, Sent, Bodied
<1>6. Covered(o, wallet)
  BY <1>3 DEF Covered, BalanceGuard, EnoughForFee, Held
<1> QED
  BY <1>1, <1>2, <1>5, <1>6, MoveKeeps

(* A swap asks its service.                                                    *)
LEMMA AskedKeeps ==
  ASSUME PaymentInv, NEW p \in Payers, payment[p] # Nothing,
         payment[p].at = "begin", payment[p].kind \in {"debridge", "rango"},
         HasCollector(payment[p]),
         Move(p, AskedNow(payment[p], ChargeOf(payment[p]), AskedOf(payment[p]))),
         link' \in SwapChains, rate' \in {1, 2}
  PROVE  PaymentInv'
<1> DEFINE q == payment[p]
           c == ChargeOf(q)
           a == AskedOf(q)
           o == AskedNow(q, c, a)
<1>1. q \in PaymentRecords /\ Good(q) /\ Covered(q, wallet)
  BY PaymentFacts
<1>2. SwapGood(q)
  BY <1>1 DEF Good, Dex
<1>3. a \in Askings /\ c \in Nat
  BY <1>2, AskedOfType DEF SwapGood
<1> HIDE DEF c, a
<1>4. /\ o \in PaymentRecords /\ Kept(o, q) /\ o.at = "ask" /\ o.charged = c /\ o.asked = a
      /\ o.says = q.says /\ o.body = q.body /\ o.why = q.why
  BY <1>1, <1>3, AskFields
<1> HIDE DEF o
<1>5. AskedOf(o) = a /\ ChargeOf(o) = c /\ HasCollector(o)
  BY <1>4 DEF Kept, AskedOf, ChargeOf, HasCollector, a, c
<1>6. SwapGood(o)
  BY <1>2, <1>4, <1>5 DEF SwapGood, Kept, Sent, Bodied
<1>7. Good(o)
  BY <1>1, <1>4, <1>6 DEF Good, Kept, Bodied, Dex
<1>8. Covered(o, wallet)
  BY <1>1, <1>4 DEF Covered, Kept
<1>9. Move(p, o)
  BY DEF o, a, c
<1> QED
  BY <1>4, <1>7, <1>8, <1>9, MoveKeeps

LEMMA AskDeBridgeKeeps ==
  ASSUME PaymentInv, NEW p \in Payers, AskDeBridge(p), rate' \in {1, 2}
  PROVE  PaymentInv'
<1> DEFINE q == payment[p]
<1>1. q # Nothing /\ q.at = "begin" /\ q.kind = "debridge" /\ link' \in SwapChains
  BY DEF AskDeBridge, Stage, OfKind, PaymentInv, PaymentTypeOK
<1>2. CASE ~Within(q.request) /\ q.request.to \notin FeeChains
  <2>1. Refuse(p, "collector")
    BY <1>2 DEF AskDeBridge, Asked
  <2> QED
    BY <1>1, <1>2, <2>1, RefusedKeeps DEF HasCollector, Bodied, Dex, Whys
<1>3. CASE ~(~Within(q.request) /\ q.request.to \notin FeeChains)
  <2>1. HasCollector(q)
    BY <1>1, <1>3 DEF HasCollector
  <2>2. Move(p, AskedNow(q, ChargeOf(q), AskedOf(q)))
    BY <1>1, <1>3 DEF AskDeBridge, Asked, AskService, AskedNow, ChargeOf, AskedOf,
       PrepareDeBridge, EstimateCharge, PaymentCharge
  <2> QED
    BY <1>1, <2>1, <2>2, AskedKeeps
<1> QED
  BY <1>2, <1>3

LEMMA AskRangoKeeps ==
  ASSUME PaymentInv, NEW p \in Payers, AskRango(p), rate' \in {1, 2}
  PROVE  PaymentInv'
<1> DEFINE q == payment[p]
<1>1. q # Nothing /\ q.at = "begin" /\ q.kind = "rango" /\ link' \in SwapChains
  BY DEF AskRango, Stage, OfKind, PaymentInv, PaymentTypeOK
<1>2. CASE ~q.request.quote /\ q.request.to \notin FeeChains
  <2>1. Refuse(p, "collector")
    BY <1>2 DEF AskRango, Asked
  <2> QED
    BY <1>1, <1>2, <2>1, RefusedKeeps DEF HasCollector, Bodied, Dex, Whys
<1>3. CASE ~(~q.request.quote /\ q.request.to \notin FeeChains)
  <2>1. HasCollector(q)
    BY <1>1, <1>3 DEF HasCollector
  <2>2. Move(p, AskedNow(q, ChargeOf(q), AskedOf(q)))
    BY <1>1, <1>3 DEF AskRango, Asked, AskService, AskedNow, ChargeOf, AskedOf, PrepareRango
  <2> QED
    BY <1>1, <2>1, <2>2, AskedKeeps
<1> QED
  BY <1>2, <1>3

LEMMA Begin0xKeeps ==
  ASSUME PaymentInv, NEW p \in Payers, Begin0x(p), rate' \in {1, 2}
  PROVE  PaymentInv'
<1> DEFINE q == payment[p]
           c == IF q.request.quote THEN PriceCharge ELSE QuoteCharge
           a == [chain |-> Nothing, sell |-> Prepare0x(q.request).sell,
                 to |-> Nothing, buy |-> Prepare0x(q.request).buy]
           o == LinkedNow(q, c, a)
<1>1. q # Nothing /\ q.at = "begin" /\ q.kind = "zerox" /\ link' \in SwapChains
  BY DEF Begin0x, Stage, OfKind, PaymentInv, PaymentTypeOK
<1>2. q \in PaymentRecords /\ Good(q) /\ Covered(q, wallet) /\ SwapGood(q)
  BY <1>1, PaymentFacts DEF Good, Dex
<1>3. CASE q.request.to \notin FeeChains
  <2>1. Refuse(p, "collector")
    BY <1>3 DEF Begin0x, Asked
  <2> QED
    BY <1>1, <1>3, <2>1, RefusedKeeps DEF HasCollector, Bodied, Dex, Whys
<1>4. CASE q.request.to \in FeeChains
  <2>1. Move(p, o)
    BY <1>4 DEF Begin0x, Asked, LinkedNow
  <2>2. c \in Nat
    BY DEF PriceCharge, QuoteCharge
  <2>3. Prepare0x(q.request).sell \in Names /\ Prepare0x(q.request).buy \in Names
    BY <1>2 DEF SwapGood, SwapRequests, Prepare0x, ZeroxName, Names
  <2>4. a \in Askings
    BY <2>3 DEF Askings
  <2>5. a.sell = Prepare0x(q.request).sell /\ a.buy = Prepare0x(q.request).buy
    OBVIOUS
  <2>6. c = ChargeOf(q)
    BY <1>1 DEF ChargeOf
  <2> HIDE DEF c, a
  <2>7. /\ o \in PaymentRecords /\ Kept(o, q) /\ o.at = "link" /\ o.charged = c /\ o.asked = a
        /\ o.says = q.says /\ o.body = q.body /\ o.why = q.why
    BY <1>2, <2>2, <2>4, LinkFields
  <2> HIDE DEF o
  <2>8. HasCollector(q) /\ HasCollector(o) /\ ChargeOf(o) = c
    BY <1>4, <2>6, <2>7 DEF Kept, HasCollector, ChargeOf
  <2>9. SwapGood(o)
    BY <1>1, <1>2, <2>7, <2>8 DEF SwapGood, Kept, Sent, Bodied, a
  <2>10. Good(o)
    BY <1>1, <1>2, <2>7, <2>9 DEF Good, Kept, Bodied, Dex
  <2>11. Covered(o, wallet)
    BY <2>7 DEF Covered
  <2> QED
    BY <1>1, <2>1, <2>7, <2>10, <2>11, MoveKeeps
<1> QED
  BY <1>3, <1>4

(* The price and the payment go over the link of their own request.            *)
LEMMA OverLinkKeeps ==
  ASSUME PaymentInv, NEW p \in Payers, Stage(p, "link"), SetLink(p),
         OverLink(p, link'), rate' \in {1, 2}
  PROVE  PaymentInv'
<1> DEFINE q == payment[p]
           l == q.request.from
           o == OverNow(q, l)
<1>1. q # Nothing /\ q.at = "link"
  BY DEF Stage
<1>2. q \in PaymentRecords /\ Good(q) /\ Covered(q, wallet)
  BY <1>1, PaymentFacts
<1>3. q.kind = "zerox" /\ SwapGood(q)
  <2>1. q.kind \in Dex
    BY <1>1, <1>2 DEF Good, PositionGood, Bodied
  <2> QED
    BY <1>1, <1>2, <2>1 DEF Good, SwapGood
<1>4. l \in SwapChains /\ link' = l
  BY <1>3 DEF SetLink, Asked, SwapGood, SwapRequests
<1>5. Move(p, o)
  BY <1>4 DEF OverLink, OverNow
<1>6. q.asked = [chain |-> Nothing, sell |-> Prepare0x(q.request).sell,
                 to |-> Nothing, buy |-> Prepare0x(q.request).buy]
  BY <1>1, <1>3 DEF SwapGood
<1>7. q.asked \in Askings
  <2>1. Prepare0x(q.request).sell \in Names /\ Prepare0x(q.request).buy \in Names
    BY <1>3 DEF SwapGood, SwapRequests, Prepare0x, ZeroxName, Names
  <2> QED
    BY <1>6, <2>1 DEF Askings
<1> HIDE DEF l
<1>8. /\ o \in PaymentRecords /\ Kept(o, q) /\ o.at = "ask" /\ o.charged = q.charged
      /\ o.asked = [chain |-> l, sell |-> q.asked.sell, to |-> l, buy |-> q.asked.buy]
      /\ o.says = q.says /\ o.body = q.body /\ o.why = q.why
  BY <1>2, <1>4, <1>7, OverFields
<1> HIDE DEF o
<1>9. o.asked = AskedOf(o)
  BY <1>3, <1>6, <1>8 DEF AskedOf, Kept, l
<1>10. o.charged = ChargeOf(o) /\ HasCollector(o)
  BY <1>1, <1>3, <1>8 DEF SwapGood, ChargeOf, HasCollector, Kept
<1>11. SwapGood(o)
  BY <1>1, <1>3, <1>8, <1>9, <1>10 DEF SwapGood, Kept, Sent, Bodied
<1>12. Good(o)
  BY <1>1, <1>2, <1>3, <1>8, <1>11 DEF Good, Kept, Bodied, Dex
<1>13. Covered(o, wallet)
  BY <1>3, <1>8 DEF Covered, Kept
<1> QED
  BY <1>4, <1>5, <1>8, <1>12, <1>13, MoveKeeps

(* The quote of a swap names its two tokens again.                             *)
LEMMA QuotedKeeps ==
  ASSUME PaymentInv, NEW p \in Payers, payment[p] # Nothing,
         payment[p].kind \in Dex, payment[p].at = "ask", payment[p].request.quote,
         NEW s \in Sayings,
         s.sell = payment[p].request.sell, s.buy = payment[p].request.buy,
         Move(p, QuotedNow(payment[p], s)), link' \in SwapChains, rate' \in {1, 2}
  PROVE  PaymentInv'
<1> DEFINE q == payment[p]
           o == QuotedNow(q, s)
<1>1. q \in PaymentRecords /\ Good(q) /\ Covered(q, wallet) /\ SwapGood(q)
  BY PaymentFacts DEF Good
<1>2. /\ o \in PaymentRecords /\ Kept(o, q) /\ o.at = "quoted" /\ o.says = s
      /\ o.asked = q.asked /\ o.charged = q.charged /\ o.body = q.body /\ o.why = q.why
  BY <1>1, QuotedFields
<1>3. Move(p, o)
  OBVIOUS
<1> HIDE DEF o
<1>4. AskedOf(o) = AskedOf(q) /\ ChargeOf(o) = ChargeOf(q) /\ (HasCollector(q) => HasCollector(o))
  BY <1>2 DEF Kept, AskedOf, ChargeOf, HasCollector
<1>5. SwapGood(o)
  BY <1>1, <1>2, <1>4 DEF SwapGood, Kept, Sent, Bodied
<1>6. Good(o)
  BY <1>1, <1>2, <1>5 DEF Good, Kept, Bodied
<1>7. Covered(o, wallet)
  BY <1>2 DEF Covered
<1> QED
  BY <1>2, <1>3, <1>6, <1>7, MoveKeeps

(* deBridge's names are translated back to those of the request.               *)
LEMMA TranslatedBack ==
  ASSUME NEW q, q.request \in SwapRequests
  PROVE  /\ FromDeBridge(PrepareDeBridge(q.request).sell) = q.request.sell
         /\ FromDeBridge(PrepareDeBridge(q.request).buy) = q.request.buy
<1>1. ASSUME NEW c \in SwapChains, NEW token \in {"native", "token"}
      PROVE  FromDeBridge(DeBridgeName(c, token)) = token
  BY <1>1, SwapAssumption DEF FromDeBridge, DeBridgeName, SwapAssumption
<1> QED
  BY <1>1 DEF SwapRequests, PrepareDeBridge

LEMMA QuoteDeBridgeKeeps ==
  ASSUME PaymentInv, NEW p \in Payers, QuoteDeBridge(p), rate' \in {1, 2}
  PROVE  PaymentInv'
<1> DEFINE q == payment[p]
<1>1. /\ q # Nothing /\ q.at = "ask" /\ q.kind = "debridge" /\ q.request.quote
      /\ link' \in SwapChains
  BY DEF QuoteDeBridge, Stage, OfKind, Asked, PaymentInv, PaymentTypeOK
<1>2. SwapGood(q)
  BY <1>1, PaymentFacts DEF Good, Dex
<1>3. q.asked = PrepareDeBridge(q.request)
  BY <1>1, <1>2 DEF SwapGood, Sent, AskedOf
<1>4. PICK sold \in Estimates(p) :
        Says(p, QuoteWithWei(p, sold).sell, QuoteWithWei(p, sold).buy,
             QuoteWithWei(p, sold).sold, AttachFixedFee(Asked(p).from))
  BY DEF QuoteDeBridge
<1> DEFINE s == [sell |-> q.request.sell, buy |-> q.request.buy,
                 sold |-> sold, fee |-> AttachFixedFee(q.request.from)]
<1>5. /\ QuoteWithWei(p, sold).sell = q.request.sell
      /\ QuoteWithWei(p, sold).buy = q.request.buy /\ QuoteWithWei(p, sold).sold = sold
  BY <1>2, <1>3, TranslatedBack DEF QuoteWithWei, SwapGood
<1>6. Move(p, QuotedNow(q, s))
  BY <1>4, <1>5 DEF Says, QuotedNow, Asked
<1>7. sold \in Nat
  <2>1. q.request.amount \in Nat
    BY <1>2, SwapAssumption DEF SwapGood, SwapRequests, SwapAssumption
  <2> QED
    BY <2>1 DEF Estimates, Asked
<1>8. s \in Sayings
  <2>1. AttachFixedFee(q.request.from) \in Nat
    BY SwapAssumption DEF AttachFixedFee, SwapAssumption
  <2> QED
    BY <1>2, <1>7, <2>1 DEF Sayings, Names, SwapGood, SwapRequests
<1>9. s.sell = q.request.sell /\ s.buy = q.request.buy
  OBVIOUS
<1> HIDE DEF s
<1> QED
  BY <1>1, <1>6, <1>8, <1>9, QuotedKeeps DEF Dex

(* At 0x and Rango.                                                            *)
LEMMA QuoteOtherKeeps ==
  ASSUME PaymentInv, NEW p \in Payers, Quote0x(p) \/ QuoteRango(p), rate' \in {1, 2}
  PROVE  PaymentInv'
<1> DEFINE q == payment[p]
           s == [sell |-> q.request.sell, buy |-> q.request.buy,
                 sold |-> q.request.amount, fee |-> 0]
<1>1. /\ q # Nothing /\ q.at = "ask" /\ q.kind \in {"zerox", "rango"} /\ q.request.quote
      /\ link' \in SwapChains
  BY DEF Quote0x, QuoteRango, Stage, OfKind, Asked, PaymentInv, PaymentTypeOK
<1>2. SwapGood(q)
  BY <1>1, PaymentFacts DEF Good, Dex
<1>3. Move(p, QuotedNow(q, s))
  BY DEF Quote0x, QuoteRango, Says, QuotedNow, Asked
<1>4. q.request.amount \in Nat
  BY <1>2, SwapAssumption DEF SwapGood, SwapRequests, SwapAssumption
<1>5. s \in Sayings
  BY <1>2, <1>4 DEF Sayings, Names, SwapGood, SwapRequests
<1>6. s.sell = q.request.sell /\ s.buy = q.request.buy
  OBVIOUS
<1> HIDE DEF s
<1> QED
  BY <1>1, <1>3, <1>5, <1>6, QuotedKeeps DEF Dex

-------------------------------------------------------------------------------
(* Bodies.                                                                     *)

SpendIs(b, kind, coin, takes, approves) ==
  /\ b \in PayBodies /\ b.takes = takes /\ ~b.gate /\ kind \in Spenders
  /\ coin = "native" => /\ b.pot = "native" /\ b.value = takes
                        /\ b.spender = Nothing /\ b.approves = 0
  /\ coin # "native" => /\ b.pot = "token" /\ b.value = 0
                        /\ b.spender = kind /\ b.approves = approves

LEMMA SpendFields ==
  ASSUME NEW kind \in Spenders, NEW coin \in {"native", "token"},
         NEW takes \in Nat, NEW approves \in Nat
  PROVE  SpendIs(Spend(kind, coin, takes, approves), kind, coin, takes, approves)
BY DEF SpendIs, Spend, PayBodies, Pots

LEMMA RedeemFields ==
  ASSUME NEW pot \in Pots \ {"native"}, NEW takes \in Nat,
         NEW gives \in {"native"} \union Reserves \union {Nothing}
  PROVE  LET b == Redeem(pot, takes, gives)
         IN  /\ b \in PayBodies /\ b.takes = takes /\ b.pot = pot /\ b.value = 0
             /\ b.spender = Nothing /\ b.approves = 0 /\ b.gives = gives
             /\ ~b.gate
BY DEF Redeem, PayBodies, Pots

LEMMA BlankFields ==
  ASSUME NEW pot \in Pots \ {"native"}, NEW takes \in Nat
  PROVE  LET b == Redeem(pot, takes, Nothing)
         IN  /\ b \in PayBodies /\ b.takes = takes /\ b.pot = pot /\ b.value = 0
             /\ b.spender = Nothing /\ b.approves = 0 /\ ~b.gate
BY DEF Redeem, PayBodies, Pots

(* A body is formed.                                                           *)
LEMMA FormedKeeps ==
  ASSUME PaymentInv, NEW p \in Payers, payment[p] # Nothing,
         payment[p].at \in {"begin", "ask", "rate"}, NEW b \in PayBodies,
         payment[p].kind \in Dex => payment[p].at = "ask" /\ ~payment[p].request.quote,
         BodyGood(payment[p], b),
         ~payment[p].touched =>
           /\ wallet.holds[b.pot] >= b.takes => wallet.holds["native"] >= b.value
           /\ payment[p].kind = "uniRemove" =>
                b.takes = (wallet.holds["position"]
                             * WholePercent(payment[p].request.amount)) \div 100,
         Allowed(b) \/ Steth(payment[p]),
         payment[p].kind \in Gateways /\ b.gives = "native" => wallet.delegated[payment[p].kind],
         b.gate => ~wallet.delegated[payment[p].kind],
         Formed(p, b), link' \in SwapChains, rate' \in {1, 2}
  PROVE  PaymentInv'
<1> DEFINE q == payment[p]
           e == wallet.holds[b.pot] >= b.takes
           a == Allowed(b)
           o == FormedNow(q, b, e, a)
<1>1. q \in PaymentRecords /\ Good(q) /\ Covered(q, wallet)
  BY PaymentFacts
<1>2. Move(p, o)
  BY DEF Formed, FormedNow, Held
<1>3. e \in BOOLEAN /\ a \in BOOLEAN
  BY DEF Allowed
<1>4. ~q.approved
  BY <1>1 DEF Good, Bodied
<1>5. /\ e => wallet.holds[b.pot] >= b.takes
      /\ a \/ Steth(q)
      /\ a /\ b.spender # Nothing /\ b.approves = 0 => wallet.allowance[b.spender] >= b.takes
  BY DEF Allowed
<1> HIDE DEF e, a
<1>6. /\ o \in PaymentRecords /\ Kept(o, q) /\ o.at = "formed" /\ o.body = b /\ o.enough = e
      /\ o.allowed = a /\ o.shares = q.shares
      /\ o.asked = q.asked /\ o.charged = q.charged /\ o.says = q.says /\ o.why = q.why
  BY <1>1, <1>3, FormedFields
<1> HIDE DEF o
<1>7. AskedOf(o) = AskedOf(q) /\ ChargeOf(o) = ChargeOf(q) /\ (HasCollector(q) => HasCollector(o))
  BY <1>6 DEF Kept, AskedOf, ChargeOf, HasCollector
<1>8. o.kind \in Dex => SwapGood(o)
  BY <1>1, <1>6, <1>7 DEF Good, SwapGood, Kept, Sent, Bodied
<1>9. o.kind \notin Dex => PositionGood(o)
  BY <1>1, <1>6 DEF Good, PositionGood, Kept, Bodied
<1>10. BodyGood(o, b)
  BY <1>6 DEF BodyGood, Kept, AskedNative
<1>11. Good(o)
  BY <1>5, <1>6, <1>8, <1>9, <1>10 DEF Good, Bodied, Steth, Kept
<1>12. Covered(o, wallet)
  BY <1>4, <1>5, <1>6 DEF Covered, BodyCovered, Kept
<1> QED
  BY <1>2, <1>6, <1>11, <1>12, MoveKeeps

(* The payment for a swap at deBridge: what it sends of the chain's own coin   *)
(* beside a token the wallet has had since the request entered.                *)
LEMMA PayDeBridgeKeeps ==
  ASSUME PaymentInv, NEW p \in Payers, PayDeBridge(p), rate' \in {1, 2}
  PROVE  PaymentInv'
<1> DEFINE q == payment[p]
<1>1. /\ q # Nothing /\ q.at = "ask" /\ q.kind = "debridge" /\ ~q.request.quote
      /\ link' \in SwapChains
  BY DEF PayDeBridge, Stage, OfKind, Asked, PaymentInv, PaymentTypeOK
<1>2. q \in PaymentRecords /\ Good(q) /\ Covered(q, wallet) /\ SwapGood(q)
  BY <1>1, PaymentFacts DEF Good, Dex
<1>3. q.asked = PrepareDeBridge(q.request)
  BY <1>1, <1>2 DEF SwapGood, Sent, AskedOf
<1>4. PICK sold \in Estimates(p) :
        \E value \in ServiceValues(QuoteWithWei(p, sold).sell, sold) :
          Formed(p, [Spend("debridge", QuoteWithWei(p, sold).sell, sold,
                           QuoteWithWei(p, sold).sold) EXCEPT !.value = value])
  BY DEF PayDeBridge
<1>5. QuoteWithWei(p, sold).sell = q.request.sell /\ QuoteWithWei(p, sold).sold = sold
  BY <1>2, <1>3, TranslatedBack DEF QuoteWithWei, SwapGood
<1>6. /\ q.request.amount \in Nat \ {0} /\ q.request.sell \in {"native", "token"}
      /\ FixedFee \in Nat
  BY <1>2, SwapAssumption DEF SwapGood, SwapRequests, SwapAssumption
<1>7. sold \in Nat \ {0}
  BY <1>6 DEF Estimates, Asked
<1> DEFINE b == Spend("debridge", q.request.sell, sold, sold)
<1>8. PICK value \in ServiceValues(q.request.sell, sold) : Formed(p, [b EXCEPT !.value = value])
  BY <1>4, <1>5
<1>9. SpendIs(b, "debridge", q.request.sell, sold, sold)
  BY <1>6, <1>7, SpendFields DEF Spenders, Dex
<1> HIDE DEF b
<1> DEFINE d == [b EXCEPT !.value = value]
<1>10. /\ d \in PayBodies /\ d.takes = sold /\ ~d.gate
       /\ q.request.sell = "native" =>
            d.pot = "native" /\ d.value = sold /\ d.spender = Nothing /\ d.approves = 0
       /\ q.request.sell # "native" =>
            /\ d.pot = "token" /\ d.value \in {0, FixedFee}
            /\ d.spender = "debridge" /\ d.approves = sold
  BY <1>6, <1>7, <1>8, <1>9 DEF PayBodies, SpendIs, ServiceValues
<1> HIDE DEF d
<1>11. BodyGood(q, d)
  BY <1>1, <1>6, <1>7, <1>10 DEF BodyGood, Supplies, Spenders, Dex, Gateways
<1>12. ~q.touched => wallet.holds["native"] >= FixedFee
  BY <1>1, <1>2 DEF Covered
<1>13. wallet.holds["native"] \in Nat
  BY DEF PaymentInv, PaymentTypeOK, WalletRecords, Pots
<1>14. /\ ~q.touched =>
            (wallet.holds[d.pot] >= d.takes => wallet.holds["native"] >= d.value)
       /\ q.kind # "uniRemove" /\ q.kind \notin Gateways
  BY <1>1, <1>6, <1>7, <1>10, <1>12, <1>13 DEF Gateways
<1>15. Allowed(d)
  BY <1>6, <1>7, <1>10 DEF Allowed
<1> QED
  BY <1>1, <1>8, <1>10, <1>11, <1>14, <1>15, FormedKeeps DEF d

(* At 0x.                                                                      *)
LEMMA Pay0xKeeps ==
  ASSUME PaymentInv, NEW p \in Payers, Pay0x(p), rate' \in {1, 2}
  PROVE  PaymentInv'
<1> DEFINE q == payment[p]
           n == q.request.amount
           b == Spend("zerox", q.request.sell, n, n)
<1>1. /\ q # Nothing /\ q.at = "ask" /\ q.kind = "zerox" /\ ~q.request.quote
      /\ link' \in SwapChains
  BY DEF Pay0x, Stage, OfKind, Asked, PaymentInv, PaymentTypeOK
<1>2. SwapGood(q)
  BY <1>1, PaymentFacts DEF Good, Dex
<1>3. n \in Nat \ {0} /\ q.request.sell \in {"native", "token"}
  BY <1>2, SwapAssumption DEF SwapGood, SwapRequests, SwapAssumption
<1>4. Formed(p, b)
  BY DEF Pay0x, AllowanceTarget, Asked
<1>5. SpendIs(b, "zerox", q.request.sell, n, n)
  BY <1>3, SpendFields DEF Spenders, Dex
<1> HIDE DEF b
<1>6. BodyGood(q, b)
  BY <1>1, <1>3, <1>5 DEF BodyGood, SpendIs, Gateways
<1>7. wallet.holds[b.pot] >= b.takes => wallet.holds["native"] >= b.value
  <2>1. wallet.holds["native"] \in Nat
    BY DEF PaymentInv, PaymentTypeOK, WalletRecords, Pots
  <2> QED
    BY <1>3, <1>5, <2>1 DEF SpendIs
<1>8. Allowed(b)
  BY <1>3, <1>5 DEF SpendIs, Allowed
<1> QED
  BY <1>1, <1>4, <1>5, <1>6, <1>7, <1>8, FormedKeeps DEF SpendIs, Gateways

(* At Rango the approval is left out only while the allowance covers the sale. *)
LEMMA PayRangoKeeps ==
  ASSUME PaymentInv, NEW p \in Payers, PayRango(p), rate' \in {1, 2}
  PROVE  PaymentInv'
<1> DEFINE q == payment[p]
           n == q.request.amount
           b == Spend("rango", q.request.sell, n, n)
           d == CheckOrAttachApproval(b)
<1>1. /\ q # Nothing /\ q.at = "ask" /\ q.kind = "rango" /\ ~q.request.quote
      /\ link' \in SwapChains
  BY DEF PayRango, Stage, OfKind, Asked, PaymentInv, PaymentTypeOK
<1>2. SwapGood(q)
  BY <1>1, PaymentFacts DEF Good, Dex
<1>3. n \in Nat \ {0} /\ q.request.sell \in {"native", "token"}
  BY <1>2, SwapAssumption DEF SwapGood, SwapRequests, SwapAssumption
<1>4. Formed(p, d)
  BY DEF PayRango, Asked
<1>5. SpendIs(b, "rango", q.request.sell, n, n)
  BY <1>3, SpendFields DEF Spenders, Dex
<1> HIDE DEF b
<1>6. /\ d \in PayBodies /\ d.takes = b.takes /\ d.pot = b.pot /\ d.value = b.value
      /\ d.spender = b.spender /\ d.gate = b.gate
      /\ IF b.spender # Nothing /\ wallet.allowance["rango"] >= b.takes
         THEN d.approves = 0 ELSE d.approves = b.approves
  BY <1>5 DEF CheckOrAttachApproval, PayBodies, SpendIs
<1> HIDE DEF d
<1>7. BodyGood(q, d)
  BY <1>1, <1>3, <1>5, <1>6 DEF BodyGood, SpendIs, Gateways
<1>8. wallet.holds[d.pot] >= d.takes => wallet.holds["native"] >= d.value
  <2>1. wallet.holds["native"] \in Nat
    BY DEF PaymentInv, PaymentTypeOK, WalletRecords, Pots
  <2> QED
    BY <1>3, <1>5, <1>6, <2>1 DEF SpendIs
<1>9. Allowed(d) /\ ~d.gate
  BY <1>3, <1>5, <1>6 DEF SpendIs, Allowed
<1> QED
  BY <1>1, <1>4, <1>6, <1>7, <1>8, <1>9, FormedKeeps DEF Gateways

LEMMA ServiceFailsKeeps ==
  ASSUME PaymentInv, NEW p \in Payers, ServiceFails(p), rate' \in {1, 2}
  PROVE  PaymentInv'
<1>1. /\ payment[p] # Nothing /\ payment[p].at = "ask" /\ Refuse(p, "service")
      /\ link' \in SwapChains
  BY DEF ServiceFails, Stage, PaymentInv, PaymentTypeOK
<1> QED
  BY <1>1, RefusedKeeps DEF Bodied, Whys

LEMMA SwapNextKeeps ==
  ASSUME PaymentInv, SwapNext, UNCHANGED rate
  PROVE  PaymentInv'
<1>1. rate' \in {1, 2} /\ link \in SwapChains
  BY DEF PaymentInv, PaymentTypeOK
<1>2. ASSUME NEW p \in Payers, NEW quote \in BOOLEAN, NEW from \in SwapChains,
             NEW to \in SwapChains, NEW sell \in {"native", "token"},
             NEW buy \in {"native", "token"}, NEW amount \in Sales,
             LET q == Swap(quote, from, to, sell, buy, amount)
             IN  EnterDeBridge(p, q) \/ Enter0x(p, q) \/ EnterRango(p, q)
      PROVE  PaymentInv'
  <2> DEFINE q == Swap(quote, from, to, sell, buy, amount)
  <2>1. q \in SwapRequests
    BY DEF Swap, SwapRequests
  <2> HIDE DEF q
  <2>2. EnterDeBridge(p, q) \/ Enter0x(p, q) \/ EnterRango(p, q)
    BY <1>2 DEF q
  <2>3. CASE EnterDeBridge(p, q)
    BY <1>1, <2>1, <2>3, SwapEnters DEF EnterDeBridge, Dex
  <2>4. CASE Enter0x(p, q)
    BY <1>1, <2>1, <2>4, SwapEnters DEF Enter0x, Dex
  <2>5. CASE EnterRango(p, q)
    BY <1>1, <2>1, <2>5, SwapEnters DEF EnterRango, Dex
  <2> QED
    BY <2>2, <2>3, <2>4, <2>5
<1>3. ASSUME NEW p \in Payers,
             \/ AskDeBridge(p) \/ QuoteDeBridge(p) \/ PayDeBridge(p)
             \/ Begin0x(p) \/ GetPrice(p) \/ GetQuote(p) \/ Quote0x(p) \/ Pay0x(p)
             \/ AskRango(p) \/ QuoteRango(p) \/ PayRango(p) \/ ServiceFails(p)
      PROVE  PaymentInv'
  <2>1. CASE AskDeBridge(p) \/ QuoteDeBridge(p) \/ PayDeBridge(p)
    BY <1>1, <2>1, AskDeBridgeKeeps, QuoteDeBridgeKeeps, PayDeBridgeKeeps
  <2>2. CASE Begin0x(p) \/ Quote0x(p) \/ Pay0x(p)
    BY <1>1, <2>2, Begin0xKeeps, QuoteOtherKeeps, Pay0xKeeps
  <2>3. CASE GetPrice(p) \/ GetQuote(p)
    BY <1>1, <2>3, OverLinkKeeps DEF GetPrice, GetQuote
  <2>4. CASE AskRango(p) \/ QuoteRango(p) \/ PayRango(p)
    BY <1>1, <2>4, AskRangoKeeps, QuoteOtherKeeps, PayRangoKeeps
  <2>5. CASE ServiceFails(p)
    BY <1>1, <2>5, ServiceFailsKeeps
  <2> QED
    BY <1>3, <2>1, <2>2, <2>3, <2>4, <2>5
<1> QED
  BY <1>2, <1>3 DEF SwapNext

-------------------------------------------------------------------------------
(* Transactions on positions.                                                  *)

LEMMA PositionEnters ==
  ASSUME PaymentInv, NEW p \in Payers, NEW kind \in Supplies \union Redeems,
         NEW reserve \in Reserves \union Symbols \union {Nothing},
         NEW native \in BOOLEAN, NEW amount \in Nat,
         kind \in Supplies => amount \in Sums,
         kind \in {"aaveWithdraw", "aaveBorrow"} => reserve \in Reserves,
         kind = "uniRemove" => amount \in Percents,
         kind = "compoundWithdraw" => amount \in Backs,
         Enter(p, kind, Of(reserve, native, amount)), UNCHANGED <<link, rate>>
  PROVE  PaymentInv'
<1> DEFINE q == Of(reserve, native, amount)
           o == [kind |-> kind, request |-> q, at |-> "begin",
                 asked |-> Nothing, says |-> Nothing, charged |-> 0, shares |-> 0,
                 body |-> Nothing, why |-> Nothing, enough |-> FALSE,
                 allowed |-> FALSE, approved |-> FALSE, touched |-> FALSE, took |-> 0]
<1>1. q \in PositionRequests /\ q.reserve = reserve /\ q.amount = amount
  BY DEF Of, PositionRequests
<1> HIDE DEF q
<1>2. o \in PaymentRecords
  BY <1>1 DEF PaymentRecords, PayKinds, PayPlaces
<1>3. Move(p, o)
  BY DEF Enter, q
<1>4. /\ o.kind = kind /\ o.request = q /\ o.at = "begin"
      /\ o.body = Nothing /\ ~o.approved
  OBVIOUS
<1> HIDE DEF o
<1>5. kind \notin Dex
  BY DEF Dex, Supplies, Redeems
<1>6. Good(o)
  BY <1>1, <1>4, <1>5 DEF Good, PositionGood, Bodied
<1>7. Covered(o, wallet)
  BY <1>4, <1>5 DEF Covered, Dex
<1>8. link' \in SwapChains /\ rate' \in {1, 2}
  BY DEF PaymentInv, PaymentTypeOK
<1> QED
  BY <1>2, <1>3, <1>6, <1>7, <1>8, MoveKeeps

LEMMA PositionFacts ==
  ASSUME PaymentInv, NEW p \in Payers, payment[p] # Nothing,
         payment[p].kind \in Supplies \union Redeems
  PROVE  /\ payment[p] \in PaymentRecords /\ Good(payment[p]) /\ Covered(payment[p], wallet)
         /\ payment[p].kind \notin Dex /\ PositionGood(payment[p])
         /\ payment[p].request.amount \in Nat
BY PaymentFacts DEF Good, Dex, Supplies, Redeems, PositionGood, PositionRequests

(* A supply to Aave, to Compound or to Lido.                                   *)
LEMMA SupplyKeeps ==
  ASSUME PaymentInv, NEW p \in Payers,
         FormAaveSupply(p) \/ FormCompoundSupply(p) \/ FormLidoStake(p),
         UNCHANGED link
  PROVE  PaymentInv'
<1> DEFINE q == payment[p]
           n == q.request.amount
           coin == IF q.request.reserve = "custom" THEN "native" ELSE "token"
           b == Spend(q.kind, coin, n, IF coin = "native" THEN 0 ELSE n)
<1>1. /\ q # Nothing /\ q.at = "begin" /\ q.kind \in Supplies
      /\ link' \in SwapChains /\ rate' \in {1, 2}
  BY DEF FormAaveSupply, FormCompoundSupply, FormLidoStake, Begun, Stage, OfKind, Supplies,
     Still, PaymentInv, PaymentTypeOK
<1>2. n \in Nat \ {0} /\ q.kind \notin Dex
  BY <1>1, PositionFacts, PositionAssumption DEF PositionGood, PositionAssumption
<1>3. Formed(p, b)
  BY DEF FormAaveSupply, FormCompoundSupply, FormLidoStake, Begun, OfKind, Asked, Sum, SupplyNative,
     SupplyToken, MintNative, MintToken, SubmitNative, SubmitToken
<1>4. SpendIs(b, q.kind, coin, n, IF coin = "native" THEN 0 ELSE n)
  <2>1. q.kind \in Spenders /\ coin \in {"native", "token"}
    BY <1>1 DEF Spenders
  <2>2. (IF coin = "native" THEN 0 ELSE n) \in Nat
    BY <1>2
  <2> HIDE DEF coin
  <2> QED
    BY <1>2, <2>1, <2>2, SpendFields
<1> HIDE DEF b, coin
<1>5. BodyGood(q, b)
  BY <1>1, <1>2, <1>4 DEF BodyGood, SpendIs, Supplies, Gateways
<1>6. wallet.holds[b.pot] >= b.takes => wallet.holds["native"] >= b.value
  <2>1. wallet.holds["native"] \in Nat
    BY DEF PaymentInv, PaymentTypeOK, WalletRecords, Pots
  <2> QED
    BY <1>2, <1>4, <2>1 DEF SpendIs
<1>7. q.kind # "uniRemove" /\ q.kind \notin Gateways
  BY <1>1 DEF Supplies, Gateways
<1>8. Allowed(b)
  BY <1>2, <1>4 DEF SpendIs, Allowed
<1> QED
  BY <1>1, <1>2, <1>3, <1>4, <1>5, <1>6, <1>7, <1>8, FormedKeeps DEF SpendIs

(* A body that takes from a pot that no token is spent of asks for no approval.*)
LEMMA RedeemKeeps ==
  ASSUME PaymentInv, NEW p \in Payers, payment[p] # Nothing,
         payment[p].kind \in Redeems, payment[p].at \in {"begin", "rate"},
         NEW b \in PayBodies, b.value = 0, b.approves = 0, ~b.gate,
         b.spender = Nothing \/ Steth(payment[p]),
         payment[p].kind = "aaveWithdraw" => b.takes = payment[p].request.amount,
         payment[p].kind = "compoundWithdraw" => Compared(b.takes, payment[p].shares),
         payment[p].kind \in Gateways =>
           /\ b.gives = IF AskedNative(payment[p]) THEN "native"
                        ELSE payment[p].request.reserve
           /\ b.gives = "native" => wallet.delegated[payment[p].kind],
         payment[p].kind = "uniRemove" =>
           b.takes = (wallet.holds["position"]
                        * WholePercent(payment[p].request.amount)) \div 100,
         Formed(p, b), UNCHANGED <<link, rate>>
  PROVE  PaymentInv'
<1> DEFINE q == payment[p]
<1>1. q.kind \notin Dex /\ q.kind \notin Supplies
  BY DEF Dex, Supplies, Redeems
<1>2. BodyGood(q, b)
  BY <1>1 DEF BodyGood, Dex
<1>3. wallet.holds["native"] >= b.value
  BY DEF PaymentInv, PaymentTypeOK, WalletRecords, Pots
<1>4. link' \in SwapChains /\ rate' \in {1, 2}
  BY DEF PaymentInv, PaymentTypeOK
<1>5. Allowed(b) \/ Steth(q)
  BY DEF Allowed
<1> QED
  BY <1>1, <1>2, <1>3, <1>4, <1>5, FormedKeeps

(* A body that opens a gateway takes nothing and gives nothing.                *)
LEMMA GateKeeps ==
  ASSUME PaymentInv, NEW p \in Payers, payment[p] # Nothing,
         payment[p].kind \in Gateways, payment[p].at = "begin", AskedNative(payment[p]),
         ~wallet.delegated[payment[p].kind],
         Formed(p, OpenGate), UNCHANGED <<link, rate>>
  PROVE  PaymentInv'
<1> DEFINE q == payment[p]
           b == OpenGate
<1>1. /\ b \in PayBodies /\ b.takes = 0 /\ b.value = 0 /\ b.spender = Nothing
      /\ b.approves = 0 /\ b.gives = Nothing /\ b.gate
  BY DEF OpenGate, Redeem, PayBodies, Pots
<1> HIDE DEF b
<1>2. q.kind \notin Dex /\ q.kind \notin Supplies /\ q.kind # "uniRemove"
      /\ q.kind # "compoundWithdraw"
  BY DEF Dex, Supplies, Gateways
<1>3. BodyGood(q, b)
  BY <1>1, <1>2 DEF BodyGood, Dex
<1>4. wallet.holds["native"] >= b.value
  BY <1>1 DEF PaymentInv, PaymentTypeOK, WalletRecords, Pots
<1>5. link' \in SwapChains /\ rate' \in {1, 2}
  BY DEF PaymentInv, PaymentTypeOK
<1>6. Allowed(b) /\ b.gives # "native"
  <2>1. Nothing # "native"
    BY SigningAssumption DEF SigningAssumption, Pots
  <2> QED
    BY <1>1, <2>1 DEF Allowed
<1> QED
  BY <1>1, <1>2, <1>3, <1>4, <1>5, <1>6, FormedKeeps DEF b

(* Withdrawing from Aave, and borrowing there.                                 *)
LEMMA AaveWithdrawKeeps ==
  ASSUME PaymentInv, NEW p \in Payers, FormAaveWithdraw(p), UNCHANGED link
  PROVE  PaymentInv'
<1> DEFINE q == payment[p]
           gives == IF AskedNative(q) THEN "native" ELSE q.request.reserve
<1>1. q # Nothing /\ q.at = "begin" /\ q.kind = "aaveWithdraw" /\ UNCHANGED <<link, rate>>
  BY DEF FormAaveWithdraw, Begun, Stage, OfKind, Still
<1>2. q.kind \in Redeems /\ q.kind \in Gateways
  BY <1>1 DEF Redeems, Gateways
<1>3. q.request.reserve \in Reserves /\ q.request.amount \in Nat
  BY <1>1, <1>2, PositionFacts DEF PositionGood
<1>4. (Asked(p).native /\ WithdrawIsNative(Asked(p).reserve)) <=> AskedNative(q)
  BY <1>3 DEF Asked, WithdrawIsNative, AskedNative, Reserves
<1>5. CASE AskedNative(q) /\ ~wallet.delegated["aaveWithdraw"]
  <2>1. Formed(p, OpenGate)
    BY <1>4, <1>5 DEF FormAaveWithdraw
  <2> QED
    BY <1>1, <1>2, <1>5, <2>1, GateKeeps
<1>6. CASE ~(AskedNative(q) /\ ~wallet.delegated["aaveWithdraw"])
  <2>1. Formed(p, Redeem("lent", q.request.amount, gives))
    BY <1>4, <1>6 DEF FormAaveWithdraw, Sum, Asked
  <2>2. gives \in {"native"} \union Reserves \union {Nothing} /\ "lent" \in Pots \ {"native"}
    BY <1>3 DEF Pots
  <2>3. gives = "native" => wallet.delegated[q.kind]
    BY <1>1, <1>3, <1>6 DEF Reserves
  <2> DEFINE b == Redeem("lent", q.request.amount, gives)
  <2> HIDE DEF gives
  <2>4. /\ b \in PayBodies /\ b.takes = q.request.amount /\ b.value = 0
        /\ b.spender = Nothing /\ b.approves = 0 /\ b.gives = gives /\ ~b.gate
    BY <1>3, <2>2, RedeemFields
  <2> HIDE DEF b
  <2> QED
    BY <1>1, <1>2, <2>1, <2>3, <2>4, RedeemKeeps DEF b, gives
<1> QED
  BY <1>5, <1>6

LEMMA AaveBorrowKeeps ==
  ASSUME PaymentInv, NEW p \in Payers, FormAaveBorrow(p), UNCHANGED link
  PROVE  PaymentInv'
<1> DEFINE q == payment[p]
           native == BorrowIsNative(Asked(p).reserve) /\ Asked(p).native
           reserve == IF native THEN ReserveOfNative(Asked(p).reserve) ELSE Asked(p).reserve
           gives == IF AskedNative(q) THEN "native" ELSE q.request.reserve
<1>1. q # Nothing /\ q.at = "begin" /\ q.kind = "aaveBorrow" /\ UNCHANGED <<link, rate>>
  BY DEF FormAaveBorrow, Begun, Stage, OfKind, Still
<1>2. q.kind \in Redeems /\ q.kind \in Gateways
  BY <1>1 DEF Redeems, Gateways
<1>3. q.request.reserve \in Reserves
  BY <1>1, <1>2, PositionFacts DEF PositionGood
<1>4. native <=> AskedNative(q)
  BY <1>3 DEF Asked, BorrowIsNative, AskedNative, Reserves
<1>5. (IF native /\ reserve = "wrapped" THEN "native" ELSE reserve) = gives
  BY <1>3, <1>4 DEF Asked, BorrowIsNative, ReserveOfNative, AskedNative, Reserves
<1>6. CASE native /\ ~wallet.delegated["aaveBorrow"]
  <2>1. Formed(p, OpenGate)
    BY <1>6 DEF FormAaveBorrow
  <2> QED
    BY <1>1, <1>2, <1>4, <1>6, <2>1, GateKeeps
<1>7. CASE ~(native /\ ~wallet.delegated["aaveBorrow"])
  <2>1. Formed(p, Redeem("lent", 0, gives))
    BY <1>5, <1>7 DEF FormAaveBorrow
  <2>2. gives \in {"native"} \union Reserves \union {Nothing} /\ "lent" \in Pots \ {"native"}
    BY <1>3 DEF Pots
  <2>3. gives = "native" => wallet.delegated[q.kind]
    BY <1>1, <1>3, <1>4, <1>7 DEF Reserves
  <2> DEFINE b == Redeem("lent", 0, gives)
  <2> HIDE DEF gives
  <2>4. /\ b \in PayBodies /\ b.takes = 0 /\ b.value = 0
        /\ b.spender = Nothing /\ b.approves = 0 /\ b.gives = gives /\ ~b.gate
    BY <2>2, RedeemFields
  <2> HIDE DEF b
  <2> QED
    BY <1>1, <1>2, <2>1, <2>3, <2>4, RedeemKeeps DEF b, gives
<1> QED
  BY <1>6, <1>7

(* Compound: the shares are read, then compared with what is asked back.       *)
LEMMA ReadSharesKeeps ==
  ASSUME PaymentInv, NEW p \in Payers, ReadShares(p), UNCHANGED link
  PROVE  PaymentInv'
<1> DEFINE q == payment[p]
           n == wallet.holds["shares"]
           o == SharesNow(q, n)
<1>1. q # Nothing /\ q.at = "begin" /\ q.kind = "compoundWithdraw" /\ UNCHANGED <<link, rate>>
  BY DEF ReadShares, Begun, Stage, OfKind, Still
<1>2. q \in PaymentRecords /\ Good(q) /\ Covered(q, wallet) /\ q.kind \notin Dex /\ PositionGood(q)
  BY <1>1, PositionFacts DEF Redeems
<1>3. n \in Nat /\ n <= MaxHeld
  BY DEF PaymentInv, PaymentTypeOK, WalletRecords, Pots
<1>4. Move(p, o)
  BY DEF ReadShares, Held, SharesNow
<1> HIDE DEF n
<1>5. /\ o \in PaymentRecords /\ Kept(o, q) /\ o.at = "rate" /\ o.shares = n
      /\ o.body = q.body
  BY <1>2, <1>3, SharesFields
<1> HIDE DEF o
<1>6. PositionGood(o)
  BY <1>1, <1>2, <1>3, <1>5 DEF PositionGood, Kept
<1>7. Good(o)
  BY <1>1, <1>2, <1>5, <1>6 DEF Good, Kept, Bodied
<1>8. Covered(o, wallet)
  BY <1>5 DEF Covered
<1>9. link' \in SwapChains /\ rate' \in {1, 2}
  BY <1>1 DEF PaymentInv, PaymentTypeOK
<1> QED
  BY <1>1, <1>4, <1>5, <1>7, <1>8, <1>9, MoveKeeps

(* The digits of a number with a half.                                         *)
LEMMA OneAndHalf ==
  ASSUME NEW w \in Int
  PROVE  LET b == <<w>> \o <<-1, 5>> IN Len(b) = 3 /\ b[1] = w
OBVIOUS

LEMMA TwoAndHalf ==
  ASSUME NEW x \in Int, NEW y \in Int
  PROVE  LET b == <<x, y>> \o <<-1, 5>> IN Len(b) = 4 /\ b[1] = x /\ b[2] = y
OBVIOUS

(* The comparison of the numbers as they are written fails only when the one   *)
(* of the shares has a digit less.                                             *)
LEMMA WrittenCompares ==
  ASSUME NEW s \in 0..99, NEW w \in 0..99, NEW half \in BOOLEAN,
         ~WrittenLess(Written(s, FALSE), Written(w, half))
  PROVE  Compared(IF half THEN w + 1 ELSE w, s)
<1> DEFINE t == IF half THEN w + 1 ELSE w
           a == Written(s, FALSE)
           b == Written(w, half)
<1> SUFFICES ASSUME ~Compared(t, s) PROVE WrittenLess(a, b)
  OBVIOUS
<1>1. s < t /\ (s < 10 => t < 10) /\ s <= w
  BY DEF Compared
<1>2. CASE s < 10
  <2>1. a = <<s>> /\ w < 10
    BY <1>1, <1>2 DEF Written, Digits
  <2>2. CASE half
    <3>1. b = <<w>> \o <<-1, 5>>
      BY <2>1, <2>2 DEF Written, Digits, Point
    <3> HIDE DEF a, b
    <3>2. Len(a) = 1 /\ Len(b) = 3 /\ a[1] = s /\ b[1] = w
      BY <2>1, <3>1, OneAndHalf
    <3>3. CASE s < w
      <4>1. 0 \in 0..Len(a) /\ 0 < Len(a) /\ 0 < Len(b) /\ a[0 + 1] < b[0 + 1]
        BY <3>2, <3>3
      <4> QED
        BY <3>2, <4>1 DEF WrittenLess
    <3>4. CASE s = w
      <4>1. 1 \in 0..Len(a) /\ 1 = Len(a) /\ 1 < Len(b) /\ \A i \in 1..1 : a[i] = b[i]
        BY <3>2, <3>4
      <4> QED
        BY <3>2, <4>1 DEF WrittenLess
    <3> QED
      BY <1>1, <3>3, <3>4
  <2>3. CASE ~half
    <3>1. b = <<w>> /\ s < w
      BY <1>1, <2>1, <2>3 DEF Written, Digits
    <3> HIDE DEF a, b
    <3>2. Len(a) = 1 /\ Len(b) = 1 /\ a[1] = s /\ b[1] = w
      BY <2>1, <3>1
    <3>3. 0 \in 0..Len(a) /\ 0 < Len(a) /\ 0 < Len(b) /\ a[0 + 1] < b[0 + 1]
      BY <3>1, <3>2
    <3> QED
      BY <3>2, <3>3 DEF WrittenLess
  <2> QED
    BY <2>2, <2>3
<1>3. CASE s >= 10
  <2> DEFINE m == s \div 10
             n == s % 10
             x == w \div 10
             y == w % 10
  <2>1. /\ s = 10 * m + n /\ w = 10 * x + y /\ n \in 0..9 /\ y \in 0..9
        /\ m \in Nat /\ x \in Nat
    OBVIOUS
  <2>2. a = <<m, n>>
    BY <1>3 DEF Written, Digits
  <2>3. /\ ~half => b = <<x, y>>
        /\ half => b = <<x, y>> \o <<-1, 5>>
    BY <1>1, <1>3 DEF Written, Digits, Point
  <2> HIDE DEF a, b, m, n, x, y
  <2>4. /\ Len(a) = 2 /\ a[1] = m /\ a[2] = n /\ b[1] = x /\ b[2] = y
        /\ Len(b) = IF half THEN 4 ELSE 2
    BY <2>1, <2>2, <2>3, TwoAndHalf
  <2>5. m < x \/ (m = x /\ n < y) \/ (m = x /\ n = y /\ half)
    BY <1>1, <2>1
  <2>6. CASE m < x
    <3>1. 0 \in 0..Len(a) /\ 0 < Len(a) /\ 0 < Len(b) /\ a[0 + 1] < b[0 + 1]
      BY <2>4, <2>6
    <3> QED
      BY <2>4, <3>1 DEF WrittenLess
  <2>7. CASE m = x /\ n < y
    <3>1. /\ 1 \in 0..Len(a) /\ 1 < Len(a) /\ 1 < Len(b) /\ a[1 + 1] < b[1 + 1]
          /\ \A i \in 1..1 : a[i] = b[i]
      BY <2>4, <2>7
    <3> QED
      BY <2>4, <3>1 DEF WrittenLess
  <2>8. CASE m = x /\ n = y /\ half
    <3>1. 2 \in 0..Len(a) /\ 2 = Len(a) /\ 2 < Len(b) /\ \A i \in 1..2 : a[i] = b[i]
      BY <2>4, <2>8
    <3> QED
      BY <2>4, <3>1 DEF WrittenLess
  <2> QED
    BY <2>5, <2>6, <2>7, <2>8
<1> HIDE DEF a, b, t
<1> QED
  BY <1>2, <1>3

LEMMA CompoundWithdrawKeeps ==
  ASSUME PaymentInv, NEW p \in Payers, FormCompoundWithdraw(p), UNCHANGED link
  PROVE  PaymentInv'
<1> DEFINE q == payment[p]
           whole == Sum(p) \div rate
           half == Sum(p) % rate # 0
           takes == IF half THEN whole + 1 ELSE whole
<1>1. q # Nothing /\ q.at = "rate" /\ UNCHANGED <<link, rate>>
  BY DEF FormCompoundWithdraw, Stage, Still
<1>2. q \in PaymentRecords /\ Good(q) /\ link' \in SwapChains /\ rate' \in {1, 2}
  BY <1>1, PaymentFacts DEF PaymentInv, PaymentTypeOK
<1>3. q.kind = "compoundWithdraw"
  BY <1>1, <1>2 DEF Good, SwapGood, PositionGood, Sent
<1>4. CASE Refuse(p, "lacking")
  BY <1>1, <1>2, <1>4, RefusedKeeps DEF Bodied, Whys
<1>5. CASE /\ ~WrittenLess(Written(q.shares, FALSE), Written(whole, half))
           /\ Formed(p, Redeem("shares", takes, Nothing))
  <2>1. q.kind \in Redeems /\ q.kind \notin Gateways /\ ~Steth(q)
    BY <1>3 DEF Redeems, Gateways, Steth
  <2>2. Sum(p) \in Backs /\ q.shares <= MaxHeld /\ q.shares \in Nat
    BY <1>1, <1>2, <1>3, <2>1, PositionFacts DEF Sum, Asked, PositionGood, PaymentRecords
  <2>3. Sum(p) \in 1..99 /\ q.shares \in 0..99
    <3>1. MaxHeld \in Nat
      BY SigningAssumption DEF SigningAssumption
    <3>2. MaxHeld < 100 /\ Backs \subseteq 1..99
      BY PositionAssumption DEF PositionAssumption
    <3>3. Sum(p) \in 1..99
      BY <2>2, <3>2
    <3> DEFINE n == q.shares
    <3>4. n \in Nat /\ n <= MaxHeld
      BY <2>2
    <3> HIDE DEF n
    <3>5. n \in 0..99
      BY <3>1, <3>2, <3>4
    <3> QED
      BY <3>3, <3>5 DEF n
  <2>4. rate = 1 \/ rate = 2
    BY DEF PaymentInv, PaymentTypeOK
  <2>5. whole \in 0..99 /\ half \in BOOLEAN
    BY <2>3, <2>4
  <2> HIDE DEF whole, half
  <2>6. Compared(takes, q.shares)
    BY <1>5, <2>3, <2>5, WrittenCompares
  <2>7. takes \in Nat
    BY <2>5
  <2> DEFINE b == Redeem("shares", takes, Nothing)
  <2> HIDE DEF takes
  <2>8. /\ b \in PayBodies /\ b.takes = takes /\ b.value = 0
        /\ b.spender = Nothing /\ b.approves = 0 /\ ~b.gate
    BY <2>7, BlankFields DEF Pots
  <2>9. Formed(p, b)
    BY <1>5
  <2> HIDE DEF b
  <2> QED
    BY <1>1, <1>3, <2>1, <2>6, <2>8, <2>9, RedeemKeeps
<1> QED
  BY <1>4, <1>5 DEF FormCompoundWithdraw

(* Lido: the body of stETH names a spender, and no approval.                   *)
LEMMA LidoWithdrawKeeps ==
  ASSUME PaymentInv, NEW p \in Payers, FormLidoWithdraw(p), UNCHANGED link
  PROVE  PaymentInv'
<1> DEFINE q == payment[p]
<1>1. /\ q # Nothing /\ q.at = "begin" /\ q.kind = "lidoWithdraw" /\ q.kind \in Redeems
      /\ q.kind \notin Gateways /\ UNCHANGED <<link, rate>>
  BY DEF FormLidoWithdraw, Begun, Stage, OfKind, Still, Redeems, Gateways
<1>2. q.request.amount \in Nat
  BY <1>1, PositionFacts
<1>3. CASE q.request.reserve = "eth"
  <2> DEFINE b == WithdrawSteth(p)
             c == Redeem("staked", q.request.amount, "native")
  <2>1. Formed(p, b)
    BY <1>3 DEF FormLidoWithdraw, Asked
  <2>2. c \in PayBodies /\ c.value = 0 /\ c.approves = 0 /\ ~c.gate
    BY <1>2, RedeemFields DEF Pots
  <2>3. b = [c EXCEPT !.spender = "lidoWithdraw"] /\ "lidoWithdraw" \in Spenders
    BY DEF WithdrawSteth, Sum, Asked, Spenders
  <2> HIDE DEF b, c
  <2>4. b \in PayBodies /\ b.value = 0 /\ b.approves = 0 /\ ~b.gate
    BY <2>2, <2>3 DEF PayBodies
  <2> QED
    BY <1>1, <1>3, <2>1, <2>4, RedeemKeeps DEF Steth
<1>4. CASE q.request.reserve # "eth"
  <2> DEFINE b == WithdrawStmatic(p)
  <2>1. Formed(p, b)
    BY <1>4 DEF FormLidoWithdraw, Asked
  <2>2. b \in PayBodies /\ b.value = 0 /\ b.approves = 0 /\ ~b.gate /\ b.spender = Nothing
    BY <1>2, RedeemFields DEF Pots, Reserves, WithdrawStmatic, Sum, Asked
  <2> HIDE DEF b
  <2> QED
    BY <1>1, <2>1, <2>2, RedeemKeeps
<1> QED
  BY <1>3, <1>4

(* Uniswap: the part of the position that is asked for, by whole percents.     *)
LEMMA UniswapKeeps ==
  ASSUME PaymentInv, NEW p \in Payers, FormRemove(p) \/ FormClaim(p), UNCHANGED link
  PROVE  PaymentInv'
<1> DEFINE q == payment[p]
           taken == (wallet.holds["position"] * WholePercent(q.request.amount)) \div 100
<1>1. /\ q # Nothing /\ q.at = "begin" /\ q.kind \in {"uniRemove", "uniClaim"}
      /\ UNCHANGED <<link, rate>>
  BY DEF FormRemove, FormClaim, Begun, Stage, OfKind, Still
<1>2. q.kind \in Redeems /\ "position" \in Pots \ {"native"}
  BY <1>1 DEF Redeems, Pots
<1>3. q.request.amount \in Nat /\ link' \in SwapChains /\ rate' \in {1, 2}
  BY <1>1, <1>2, PositionFacts DEF PaymentInv, PaymentTypeOK
<1>4. CASE Refuse(p, "library")
  BY <1>1, <1>3, <1>4, RefusedKeeps DEF Bodied, Whys
<1>5. CASE FormRemove(p) /\ ~Refuse(p, "library")
  <2>1. q.kind = "uniRemove"
    BY <1>5 DEF FormRemove, Begun, OfKind
  <2>2. Formed(p, Redeem("position", taken, Nothing))
    BY <1>5 DEF FormRemove, Held, Sum, Asked
  <2>3. taken \in Nat
    <3> DEFINE h == wallet.holds["position"]
               w == WholePercent(q.request.amount)
    <3>1. h \in Nat
      BY DEF PaymentInv, PaymentTypeOK, WalletRecords, Pots
    <3>2. w \in Nat
      BY <1>3 DEF WholePercent
    <3> HIDE DEF h, w
    <3>3. h * w \in Nat
      BY <3>1, <3>2
    <3>4. (h * w) \div 100 \in Nat
      BY <3>3
    <3> QED
      BY <3>4 DEF h, w
  <2> DEFINE b == Redeem("position", taken, Nothing)
  <2> HIDE DEF taken
  <2>4. /\ b \in PayBodies /\ b.takes = taken /\ b.value = 0
        /\ b.spender = Nothing /\ b.approves = 0 /\ ~b.gate
    BY <1>2, <2>3, BlankFields
  <2>5. taken = (wallet.holds["position"] * WholePercent(q.request.amount)) \div 100
    BY DEF taken
  <2>6. Formed(p, b)
    BY <2>2
  <2> HIDE DEF b
  <2> QED
    BY <1>1, <1>2, <2>1, <2>4, <2>5, <2>6, RedeemKeeps DEF Gateways
<1>6. CASE FormClaim(p) /\ ~Refuse(p, "library")
  <2>1. q.kind = "uniClaim"
    BY <1>6 DEF FormClaim, Begun, OfKind
  <2> DEFINE b == Redeem("position", 0, Nothing)
  <2>2. Formed(p, b)
    BY <1>6 DEF FormClaim
  <2>3. b \in PayBodies /\ b.value = 0 /\ b.spender = Nothing /\ b.approves = 0 /\ ~b.gate
    BY <1>2, BlankFields
  <2> HIDE DEF b
  <2> QED
    BY <1>1, <1>2, <2>1, <2>2, <2>3, RedeemKeeps DEF Gateways
<1> QED
  BY <1>4, <1>5, <1>6

LEMMA ReadFailsKeeps ==
  ASSUME PaymentInv, NEW p \in Payers, ReadFails(p), UNCHANGED link
  PROVE  PaymentInv'
<1>1. /\ payment[p] # Nothing /\ payment[p].at \in {"begin", "rate"} /\ Refuse(p, "chain")
      /\ link' \in SwapChains /\ rate' \in {1, 2}
  BY DEF ReadFails, Stage, Still, PaymentInv, PaymentTypeOK
<1> QED
  BY <1>1, RefusedKeeps DEF Bodied, Whys

LEMMA RateRisesKeeps ==
  ASSUME PaymentInv, RateRises, UNCHANGED link
  PROVE  PaymentInv'
<1>1. wallet' = wallet /\ payment' = payment /\ rate' = 2 /\ link' = link
  BY DEF RateRises
<1> QED
  BY <1>1 DEF PaymentInv, PaymentTypeOK

LEMMA PositionNextKeeps ==
  ASSUME PaymentInv, PositionNext, UNCHANGED link
  PROVE  PaymentInv'
<1>1. ASSUME NEW p \in Payers, NEW reserve \in Reserves, NEW sum \in Sums,
             \/ EnterAaveSupply(p, reserve, sum)
             \/ reserve # "wrapped" /\ EnterCompoundSupply(p, reserve, sum)
             \/ reserve # "wrapped" /\ EnterLidoStake(p, reserve, sum)
             \/ \E native \in BOOLEAN : \/ EnterAaveWithdraw(p, reserve, native, sum)
                                        \/ EnterAaveBorrow(p, reserve, native, sum)
      PROVE  PaymentInv'
  <2>1. sum \in Nat /\ TRUE \in BOOLEAN /\ reserve \in Reserves \union Symbols \union {Nothing}
    BY PositionAssumption DEF PositionAssumption
  <2>2. CASE EnterAaveSupply(p, reserve, sum)
    <3>1. Enter(p, "aaveSupply", Of(reserve, TRUE, sum)) /\ UNCHANGED <<link, rate>>
      BY <2>2 DEF EnterAaveSupply, Still
    <3> QED
      BY <2>1, <3>1, PositionEnters DEF Supplies
  <2>3. CASE EnterCompoundSupply(p, reserve, sum)
    <3>1. Enter(p, "compoundSupply", Of(reserve, TRUE, sum)) /\ UNCHANGED <<link, rate>>
      BY <2>3 DEF EnterCompoundSupply, Still
    <3> QED
      BY <2>1, <3>1, PositionEnters DEF Supplies
  <2>4. CASE EnterLidoStake(p, reserve, sum)
    <3>1. Enter(p, "lidoStake", Of(reserve, TRUE, sum)) /\ UNCHANGED <<link, rate>>
      BY <2>4 DEF EnterLidoStake, Still
    <3> QED
      BY <2>1, <3>1, PositionEnters DEF Supplies
  <2>5. ASSUME NEW native \in BOOLEAN,
               EnterAaveWithdraw(p, reserve, native, sum) \/ EnterAaveBorrow(p, reserve, native, sum)
        PROVE  PaymentInv'
    <3>1. PICK kind \in {"aaveWithdraw", "aaveBorrow"} :
            Enter(p, kind, Of(reserve, native, sum)) /\ UNCHANGED <<link, rate>>
      BY <2>5 DEF EnterAaveWithdraw, EnterAaveBorrow, Still
    <3>2. kind \in Redeems /\ kind \notin Supplies /\ kind # "uniRemove"
      BY <3>1 DEF Redeems, Supplies
    <3> QED
      BY <2>1, <3>1, <3>2, PositionEnters
  <2> QED
    BY <1>1, <2>2, <2>3, <2>4, <2>5
<1>2. ASSUME NEW p \in Payers,
             \/ \E sum \in Backs : EnterCompoundWithdraw(p, "token", sum)
             \/ \E symbol \in Symbols, sum \in Sums : EnterLidoWithdraw(p, symbol, sum)
             \/ \E included \in BOOLEAN, percent \in Percents :
                  EnterRemove(p, included, percent)
             \/ EnterClaim(p)
      PROVE  PaymentInv'
  <2>1. Backs \subseteq Nat /\ Sums \subseteq Nat /\ Percents \subseteq Nat
    BY PositionAssumption DEF PositionAssumption
  <2>2. ASSUME NEW sum \in Backs, EnterCompoundWithdraw(p, "token", sum)
        PROVE  PaymentInv'
    <3>1. Enter(p, "compoundWithdraw", Of("token", TRUE, sum)) /\ UNCHANGED <<link, rate>>
      BY <2>2 DEF EnterCompoundWithdraw, Still
    <3>2. "token" \in Reserves \union Symbols \union {Nothing} /\ sum \in Nat
      BY <2>1 DEF Reserves
    <3> QED
      BY <3>1, <3>2, PositionEnters DEF Redeems, Supplies
  <2>3. ASSUME NEW symbol \in Symbols, NEW sum \in Sums, EnterLidoWithdraw(p, symbol, sum)
        PROVE  PaymentInv'
    <3>1. Enter(p, "lidoWithdraw", Of(symbol, TRUE, sum)) /\ UNCHANGED <<link, rate>>
      BY <2>3 DEF EnterLidoWithdraw, Still
    <3>2. symbol \in Reserves \union Symbols \union {Nothing} /\ sum \in Nat
      BY <2>1
    <3> QED
      BY <3>1, <3>2, PositionEnters DEF Redeems, Supplies
  <2>4. ASSUME NEW included \in BOOLEAN, NEW percent \in Percents, EnterRemove(p, included, percent)
        PROVE  PaymentInv'
    <3>1. Enter(p, "uniRemove", Of(Nothing, included, percent)) /\ UNCHANGED <<link, rate>>
      BY <2>4 DEF EnterRemove, Still
    <3>2. Nothing \in Reserves \union Symbols \union {Nothing} /\ percent \in Nat
      BY <2>1
    <3> QED
      BY <3>1, <3>2, PositionEnters DEF Redeems, Supplies
  <2>5. CASE EnterClaim(p)
    <3>1. Enter(p, "uniClaim", Of(Nothing, FALSE, 0)) /\ UNCHANGED <<link, rate>>
      BY <2>5 DEF EnterClaim, Still
    <3>2. Nothing \in Reserves \union Symbols \union {Nothing} /\ 0 \in Nat
      OBVIOUS
    <3> QED
      BY <3>1, <3>2, PositionEnters DEF Redeems, Supplies
  <2> QED
    BY <1>2, <2>2, <2>3, <2>4, <2>5
<1>3. ASSUME NEW p \in Payers,
             \/ FormAaveSupply(p) \/ FormAaveWithdraw(p) \/ FormAaveBorrow(p)
             \/ FormCompoundSupply(p) \/ ReadShares(p) \/ FormCompoundWithdraw(p)
             \/ FormLidoStake(p) \/ FormLidoWithdraw(p) \/ FormRemove(p) \/ FormClaim(p)
             \/ ReadFails(p)
      PROVE  PaymentInv'
  BY <1>3, SupplyKeeps, AaveWithdrawKeeps, AaveBorrowKeeps, ReadSharesKeeps,
     CompoundWithdrawKeeps, LidoWithdrawKeeps, UniswapKeeps, ReadFailsKeeps
<1>4. CASE RateRises
  BY <1>4, RateRisesKeeps
<1> QED
  BY <1>1, <1>2, <1>3, <1>4 DEF PositionNext

-------------------------------------------------------------------------------
(* Signing.                                                                    *)

(* What a signature makes of the request it is of.                             *)
ApprovedNow(q) == [q EXCEPT !.approved = TRUE]
DelegatedNow(q) == [q EXCEPT !.at = "delegated"]
RevertedNow(q) == [q EXCEPT !.at = "reverted"]
DoneNow(q, n) == [q EXCEPT !.at = "done", !.took = n]
TouchedNow(q) == [q EXCEPT !.touched = TRUE]

(* A signature changes where the request is, and nothing that was formed.      *)
Signed(o, q) ==
  /\ o.kind = q.kind /\ o.request = q.request /\ o.body = q.body
  /\ o.allowed = q.allowed /\ o.shares = q.shares
  /\ o.asked = q.asked /\ o.charged = q.charged /\ o.says = q.says /\ o.why = q.why

LEMMA SignFields ==
  ASSUME NEW q \in PaymentRecords, NEW n \in Nat
  PROVE  /\ ApprovedNow(q) \in PaymentRecords /\ Signed(ApprovedNow(q), q)
         /\ ApprovedNow(q).at = q.at /\ ApprovedNow(q).approved
         /\ ApprovedNow(q).touched = q.touched /\ ApprovedNow(q).enough = q.enough
         /\ DelegatedNow(q) \in PaymentRecords /\ Signed(DelegatedNow(q), q)
         /\ DelegatedNow(q).at = "delegated"
         /\ RevertedNow(q) \in PaymentRecords /\ Signed(RevertedNow(q), q)
         /\ RevertedNow(q).at = "reverted"
         /\ RevertedNow(q).touched = q.touched /\ RevertedNow(q).enough = q.enough
         /\ DoneNow(q, n) \in PaymentRecords /\ Signed(DoneNow(q, n), q)
         /\ DoneNow(q, n).at = "done" /\ DoneNow(q, n).took = n
<1>1. /\ ApprovedNow(q) \in PaymentRecords /\ Signed(ApprovedNow(q), q)
      /\ ApprovedNow(q).at = q.at /\ ApprovedNow(q).approved
      /\ ApprovedNow(q).touched = q.touched /\ ApprovedNow(q).enough = q.enough
  BY DEF PaymentRecords, Signed, ApprovedNow
<1>2. /\ DelegatedNow(q) \in PaymentRecords /\ Signed(DelegatedNow(q), q)
      /\ DelegatedNow(q).at = "delegated"
  BY DEF PaymentRecords, Signed, DelegatedNow, PayPlaces
<1>3. /\ RevertedNow(q) \in PaymentRecords /\ Signed(RevertedNow(q), q)
      /\ RevertedNow(q).at = "reverted"
      /\ RevertedNow(q).touched = q.touched /\ RevertedNow(q).enough = q.enough
  BY DEF PaymentRecords, Signed, RevertedNow, PayPlaces
<1>4. /\ DoneNow(q, n) \in PaymentRecords /\ Signed(DoneNow(q, n), q)
      /\ DoneNow(q, n).at = "done" /\ DoneNow(q, n).took = n
  BY DEF PaymentRecords, Signed, DoneNow, PayPlaces
<1> QED
  BY <1>1, <1>2, <1>3, <1>4

LEMMA TouchedFields ==
  ASSUME NEW q \in PaymentRecords
  PROVE  /\ TouchedNow(q) \in PaymentRecords /\ Signed(TouchedNow(q), q)
         /\ TouchedNow(q).at = q.at /\ TouchedNow(q).touched
         /\ TouchedNow(q).approved = q.approved /\ TouchedNow(q).took = q.took
BY DEF PaymentRecords, Signed, TouchedNow

LEMMA TouchedGood ==
  ASSUME NEW q \in PaymentRecords, Good(q)
  PROVE  Good(TouchedNow(q))
<1> DEFINE o == TouchedNow(q)
<1>1. Signed(o, q) /\ o.at = q.at /\ o.touched /\ o.approved = q.approved /\ o.took = q.took
  BY TouchedFields
<1> HIDE DEF o
<1>2. AskedOf(o) = AskedOf(q) /\ ChargeOf(o) = ChargeOf(q) /\ (HasCollector(o) <=> HasCollector(q))
  BY <1>1 DEF Signed, AskedOf, ChargeOf, HasCollector
<1>3. o.kind \in Dex => SwapGood(o)
  BY <1>1, <1>2 DEF Good, SwapGood, Signed
<1>4. o.kind \notin Dex => PositionGood(o)
  BY <1>1 DEF Good, PositionGood, Signed
<1>5. o.at \in Bodied => BodyGood(o, o.body)
  BY <1>1 DEF Good, BodyGood, Signed, AskedNative
<1>6. Good(o)
  BY <1>1, <1>3, <1>4, <1>5 DEF Good, Signed, Steth
<1> QED
  BY <1>6 DEF o

LEMMA SignedGood ==
  ASSUME NEW q \in PaymentRecords, Good(q), q.at = "formed",
         NEW o \in PaymentRecords, Signed(o, q), o.at \in Bodied,
         o.at = "done" => o.took = q.body.takes /\ ~q.body.gate,
         o.at = "delegated" => q.body.gate,
         o.at = "reverted" => o.touched \/ ~o.enough \/ ~o.allowed
  PROVE  Good(o)
<1>1. AskedOf(o) = AskedOf(q) /\ ChargeOf(o) = ChargeOf(q) /\ (HasCollector(o) <=> HasCollector(q))
  BY DEF Signed, AskedOf, ChargeOf, HasCollector
<1>2. BodyGood(q, q.body)
  BY DEF Good, Bodied
<1>3. BodyGood(o, o.body)
  BY <1>2 DEF BodyGood, Signed, AskedNative
<1>4. o.kind \in Dex => SwapGood(o)
  <2> SUFFICES ASSUME o.kind \in Dex PROVE SwapGood(o)
    OBVIOUS
  <2>1. SwapGood(q)
    BY DEF Good, Signed
  <2>2. o.at # "delegated"
    BY <1>2 DEF BodyGood, Signed, Dex, Gateways
  <2>3. o.at \in Sent /\ o.at \notin {"link", "quoted", "refused"}
    BY <2>2 DEF Bodied, Sent
  <2>4. q.why = Nothing /\ Nothing # "collector"
    BY <2>1, SigningAssumption DEF SwapGood, SigningAssumption, Whys
  <2> QED
    BY <1>1, <2>1, <2>3, <2>4 DEF SwapGood, Signed, Sent, Bodied
<1>5. o.kind \notin Dex => PositionGood(o)
  BY DEF Good, PositionGood, Signed, Bodied
<1>6. o.allowed \/ Steth(o)
  BY DEF Good, Signed, Bodied, Steth
<1> QED
  BY <1>3, <1>4, <1>5, <1>6 DEF Good, Signed

(* A transaction on chain: whoever had relied on the wallet is touched.        *)
LEMMA TouchingKeeps ==
  ASSUME PaymentInv, NEW p \in Payers, NEW o \in PaymentRecords, Good(o), Covered(o, wallet'),
         wallet' \in WalletRecords, wallet'.holds["shares"] <= wallet.holds["shares"],
         Touching(p, o), UNCHANGED <<link, rate>>
  PROVE  PaymentInv'
<1>1. payment' = [r \in Payers |-> IF r = p THEN o
                    ELSE IF Underway(r) THEN TouchedNow(payment[r]) ELSE payment[r]]
  BY DEF Touching, TouchedNow
<1>2. ASSUME NEW r \in Payers
      PROVE  /\ payment'[r] \in PaymentRecords \union {Nothing}
             /\ payment'[r] # Nothing => Good(payment'[r])
             /\ payment'[r] # Nothing => Covered(payment'[r], wallet')
  <2>1. CASE r = p
    BY <1>1, <2>1
  <2>2. CASE r # p /\ Underway(r)
    <3>1. payment[r] # Nothing
      BY <2>2 DEF Underway, Stage
    <3>2. payment[r] \in PaymentRecords /\ Good(payment[r])
      BY <3>1, PaymentFacts
    <3>3. payment'[r] = TouchedNow(payment[r])
      BY <1>1, <2>2
    <3>4. Good(payment'[r]) /\ payment'[r] \in PaymentRecords
      BY <3>2, <3>3, TouchedGood, TouchedFields
    <3>5. payment'[r].touched
      BY <3>2, <3>3, TouchedFields
    <3>6. Covered(payment'[r], wallet')
      BY <3>5 DEF Covered
    <3> QED
      BY <3>4, <3>6
  <2>3. CASE r # p /\ ~Underway(r)
    <3>1. payment'[r] = payment[r]
      BY <1>1, <2>3
    <3>2. payment[r] # Nothing =>
            /\ payment[r].at # "formed"
            /\ ~(payment[r].kind = "debridge" /\ payment[r].at \in {"begin", "ask"})
      BY <2>3 DEF Underway, Stage, OfKind
    <3>3. payment[r] # Nothing => Covered(payment[r], wallet')
      BY <3>2 DEF Covered
    <3> QED
      BY <3>1, <3>3 DEF PaymentInv, PaymentTypeOK
  <2> QED
    BY <2>1, <2>2, <2>3
<1>3. payment' \in [Payers -> PaymentRecords \union {Nothing}]
  <2> DEFINE f == [r \in Payers |-> payment'[r]]
  <2>1. f \in [Payers -> PaymentRecords \union {Nothing}]
    BY <1>2
  <2>2. payment' = f
    BY <1>1
  <2> QED
    BY <2>1, <2>2
<1>4. wallet'.holds["shares"] <= MaxHeld
  <2>1. wallet.holds["shares"] \in Nat /\ wallet'.holds["shares"] \in Nat /\ MaxHeld \in Nat
    BY SigningAssumption DEF PaymentInv, PaymentTypeOK, WalletRecords, Pots, SigningAssumption
  <2>2. wallet.holds["shares"] <= MaxHeld
    BY DEF PaymentInv, PaymentTypeOK
  <2> QED
    BY <2>1, <2>2
<1>5. PaymentTypeOK'
  BY <1>3, <1>4 DEF PaymentInv, PaymentTypeOK
<1> QED
  BY <1>2, <1>5 DEF PaymentInv

LEMMA FormedFacts ==
  ASSUME PaymentInv, NEW p \in Payers, Stage(p, "formed")
  PROVE  /\ payment[p] # Nothing /\ payment[p].at = "formed"
         /\ payment[p] \in PaymentRecords /\ Good(payment[p])
         /\ BodyGood(payment[p], payment[p].body) /\ payment[p].body \in PayBodies
         /\ ~payment[p].touched => BodyCovered(payment[p], payment[p].body, wallet)
BY PaymentFacts DEF Stage, Good, Covered, Bodied, BodyGood

LEMMA SignApprovalKeeps ==
  ASSUME PaymentInv, NEW p \in Payers, SignApproval(p), UNCHANGED <<link, rate>>
  PROVE  PaymentInv'
<1> DEFINE q == payment[p]
           b == q.body
           o == ApprovedNow(q)
<1>1. /\ q \in PaymentRecords /\ Good(q) /\ q.at = "formed" /\ BodyGood(q, b) /\ b \in PayBodies
      /\ ~q.touched => BodyCovered(q, b, wallet)
  BY FormedFacts DEF SignApproval
<1>2. b.approves > 0 /\ wallet' = [wallet EXCEPT !.allowance[b.spender] = b.approves]
  BY DEF SignApproval
<1>3. Touching(p, o)
  BY DEF SignApproval, ApprovedNow
<1>4. b.spender \in Spenders /\ b.approves = b.takes /\ b.takes \in Nat
  BY <1>1, <1>2 DEF BodyGood, PayBodies
<1>5. /\ o \in PaymentRecords /\ Signed(o, q) /\ o.at = "formed" /\ o.approved
      /\ o.touched = q.touched /\ o.enough = q.enough
  BY <1>1, <1>4, SignFields
<1>6. /\ wallet' \in WalletRecords /\ wallet'.holds = wallet.holds
      /\ wallet'.allowance[b.spender] = b.takes /\ wallet'.delegated = wallet.delegated
  BY <1>2, <1>4 DEF PaymentInv, PaymentTypeOK, WalletRecords
<1>7. o.body = b
  BY <1>5 DEF Signed
<1> HIDE DEF o, b
<1>8. Good(o)
  BY <1>1, <1>5, SignedGood DEF Bodied
<1>9. b.takes >= b.takes /\ wallet.holds["shares"] <= wallet.holds["shares"]
  BY <1>4 DEF PaymentInv, PaymentTypeOK, WalletRecords, Pots
<1>10. Covered(o, wallet')
  BY <1>1, <1>5, <1>6, <1>7, <1>9 DEF Covered, BodyCovered, Signed
<1> QED
  BY <1>3, <1>5, <1>6, <1>8, <1>9, <1>10, TouchingKeeps

LEMMA SignGateKeeps ==
  ASSUME PaymentInv, NEW p \in Payers, SignGate(p), UNCHANGED <<link, rate>>
  PROVE  PaymentInv'
<1> DEFINE q == payment[p]
           o == DelegatedNow(q)
<1>1. q \in PaymentRecords /\ Good(q) /\ q.at = "formed"
  BY FormedFacts DEF SignGate
<1>2. /\ q.body.gate /\ wallet' = [wallet EXCEPT !.delegated[q.kind] = TRUE]
      /\ Touching(p, o)
  BY DEF SignGate, DelegatedNow
<1>3. o \in PaymentRecords /\ Signed(o, q) /\ o.at = "delegated"
  BY <1>1, SignFields
<1> HIDE DEF o
<1>4. Good(o)
  BY <1>1, <1>2, <1>3, SignedGood DEF Bodied
<1>5. Covered(o, wallet')
  BY <1>3 DEF Covered
<1>6. wallet' \in WalletRecords /\ wallet'.holds["shares"] <= wallet.holds["shares"]
  <2>1. wallet' \in WalletRecords /\ wallet'.holds = wallet.holds
    BY <1>2 DEF PaymentInv, PaymentTypeOK, WalletRecords
  <2>2. wallet.holds["shares"] \in Nat
    BY DEF PaymentInv, PaymentTypeOK, WalletRecords, Pots
  <2> QED
    BY <2>1, <2>2
<1> QED
  BY <1>2, <1>3, <1>4, <1>5, <1>6, TouchingKeeps

(* What the wallet still covers goes through.                                  *)
LEMMA CoveredGoesThrough ==
  ASSUME NEW p \in Payers, NEW q, NEW b, q = payment[p], b = q.body,
         BodyCovered(q, b, wallet), q.enough, q.allowed,
         b.approves > 0 => q.approved, b \in PayBodies
  PROVE  GoesThrough(b) /\ GatewayOpen(p)
<1>1. GoesThrough(b)
  BY DEF BodyCovered, GoesThrough, Held, PayBodies
<1>2. GatewayOpen(p)
  BY DEF BodyCovered, GatewayOpen
<1> QED
  BY <1>1, <1>2

LEMMA SignKeeps ==
  ASSUME PaymentInv, NEW p \in Payers, Sign(p), UNCHANGED <<link, rate>>
  PROVE  PaymentInv'
<1> DEFINE q == payment[p]
           b == q.body
<1>1. /\ q \in PaymentRecords /\ Good(q) /\ q.at = "formed" /\ BodyGood(q, b) /\ b \in PayBodies
      /\ ~q.touched => BodyCovered(q, b, wallet)
  BY FormedFacts DEF Sign
<1>2. b.takes \in Nat /\ b.value \in Nat /\ b.spender \in Spenders \union {Nothing} /\ b.pot \in Pots
  BY <1>1 DEF PayBodies
<1>3. CASE GoesThrough(b) /\ GatewayOpen(p)
  <2> DEFINE o == DoneNow(q, b.takes)
  <2>1. wallet' = [wallet EXCEPT !.holds = Taken(b), !.allowance = StillAllowed(b)]
    BY <1>3 DEF Sign
  <2>2. Touching(p, o)
    BY <1>3 DEF Sign, DoneNow
  <2>3. o \in PaymentRecords /\ Signed(o, q) /\ o.at = "done" /\ o.took = b.takes
    BY <1>1, <1>2, SignFields
  <2>4. Taken(b) \in [Pots -> Nat]
    BY <1>2, <1>3 DEF Taken, GoesThrough, Held, PaymentInv, PaymentTypeOK, WalletRecords
  <2>5. StillAllowed(b) \in [Spenders -> Nat]
    <3>1. ASSUME NEW s \in Spenders, s = b.spender
          PROVE  wallet.allowance[s] >= b.takes
      BY <1>3, <3>1, SigningAssumption DEF GoesThrough, SigningAssumption
    <3>2. ASSUME NEW s \in Spenders PROVE wallet.allowance[s] \in Nat
      BY DEF PaymentInv, PaymentTypeOK, WalletRecords
    <3> QED
      BY <1>2, <3>1, <3>2 DEF StillAllowed
  <2> HIDE DEF o
  <2>6. wallet' \in WalletRecords
    BY <2>1, <2>4, <2>5 DEF PaymentInv, PaymentTypeOK, WalletRecords
  <2>7. Good(o)
    BY <1>1, <2>3, SignedGood DEF Bodied, Sign
  <2>8. Covered(o, wallet')
    BY <2>3 DEF Covered
  <2>9. wallet'.holds["shares"] <= wallet.holds["shares"]
    <3>1. wallet'.holds = Taken(b)
      BY <2>1 DEF PaymentInv, PaymentTypeOK, WalletRecords
    <3>2. wallet.holds["shares"] \in Nat
      BY DEF PaymentInv, PaymentTypeOK, WalletRecords, Pots
    <3> QED
      BY <1>2, <3>1, <3>2 DEF Taken, Held, Pots
  <2> QED
    BY <2>2, <2>3, <2>6, <2>7, <2>8, <2>9, TouchingKeeps
<1>4. CASE ~(GoesThrough(b) /\ GatewayOpen(p))
  <2> DEFINE o == RevertedNow(q)
  <2>1. Move(p, o)
    BY <1>4 DEF Sign, Go, RevertedNow
  <2>2. /\ o \in PaymentRecords /\ Signed(o, q) /\ o.at = "reverted"
        /\ o.touched = q.touched /\ o.enough = q.enough
    BY <1>1, SignFields
  <2> HIDE DEF o
  <2>3. q.touched \/ ~q.enough \/ ~q.allowed
    BY <1>1, <1>4, CoveredGoesThrough DEF Sign
  <2>4. Good(o)
    BY <1>1, <2>2, <2>3, SignedGood DEF Bodied, Signed
  <2>5. Covered(o, wallet)
    BY <2>2 DEF Covered
  <2>6. link' \in SwapChains /\ rate' \in {1, 2}
    BY DEF PaymentInv, PaymentTypeOK
  <2> QED
    BY <2>1, <2>2, <2>4, <2>5, <2>6, MoveKeeps
<1> QED
  BY <1>3, <1>4

-------------------------------------------------------------------------------
(* The payments.                                                               *)

LEMMA PaymentInvInit == PayInit => PaymentInv
<1> SUFFICES ASSUME PayInit PROVE PaymentInv
  OBVIOUS
<1>1. wallet \in Wallets /\ link \in SwapChains /\ rate = 1 /\ payment = [p \in Payers |-> Nothing]
  BY DEF PayInit, SwapInit, PositionInit, SigningInit
<1>2. wallet \in WalletRecords /\ wallet.holds["shares"] <= MaxHeld
  BY <1>1, SigningAssumption DEF SigningAssumption, Holdings, WalletRecords, Pots
<1> QED
  BY <1>1, <1>2 DEF PaymentInv, PaymentTypeOK

LEMMA PaymentInvNext == PaymentInv /\ [PayNext]_payVars => PaymentInv'
<1> SUFFICES ASSUME PaymentInv, [PayNext]_payVars PROVE PaymentInv'
  OBVIOUS
<1>1. CASE SwapNext /\ UNCHANGED rate
  BY <1>1, SwapNextKeeps
<1>2. CASE PositionNext /\ UNCHANGED link
  BY <1>2, PositionNextKeeps
<1>3. CASE SigningNext /\ UNCHANGED <<link, rate>>
  BY <1>3, SignApprovalKeeps, SignGateKeeps, SignKeeps DEF SigningNext
<1>4. CASE UNCHANGED payVars
  BY <1>4 DEF payVars, PaymentInv, PaymentTypeOK
<1> QED
  BY <1>1, <1>2, <1>3, <1>4 DEF PayNext

(* Of every request, its record stays what its place says, and the wallet      *)
(* covers what is formed for as long as nothing else was signed.               *)
THEOREM PaymentsSafe == PaySpec => []PaymentInv
BY PaymentInvInit, PaymentInvNext, PTL DEF PaySpec

-------------------------------------------------------------------------------
(* The properties.                                                             *)

LEMMA MeantSide ==
  ASSUME NEW c \in SwapChains, NEW token \in {"native", "token"}
  PROVE  /\ Means("debridge", c, DeBridgeName(c, token)) = token
         /\ Means("zerox", c, ZeroxName(c, token)) = token
         /\ Means("rango", c, RangoName(token)) = token
<1>1. NativeName[c] # "token" /\ NativeSymbol[c] # "token"
  BY SwapAssumption DEF SwapAssumption
<1> QED
  BY <1>1 DEF Means, DeBridgeName, ZeroxName, RangoName

LEMMA AskedForWhatIsMeantHolds == PaymentInv => AskedForWhatIsMeant
<1> SUFFICES ASSUME PaymentInv, NEW p \in Payers, SwapAt(p, {"ask", "quoted", "formed", "done"})
             PROVE  LET q == Asked(p)
                        a == payment[p].asked
                        s == payment[p].says
                    IN
                    /\ a.chain = q.from
                    /\ Means(payment[p].kind, a.chain, a.sell) = q.sell
                    /\ ~OfKind(p, "zerox") \/ q.from = q.to =>
                         a.to = q.to /\ Means(payment[p].kind, a.to, a.buy) = q.buy
                    /\ s # Nothing => s.sell = q.sell /\ s.buy = q.buy
  BY DEF AskedForWhatIsMeant
<1> DEFINE m == payment[p]
           q == m.request
<1>1. /\ m # Nothing /\ m.kind \in Dex /\ m.at \in {"ask", "quoted", "formed", "done"}
      /\ SwapGood(m)
  BY PaymentFacts DEF SwapAt, Good
<1>2. m.asked = AskedOf(m) /\ (m.says # Nothing => m.says.sell = q.sell /\ m.says.buy = q.buy)
  BY <1>1 DEF SwapGood, Sent
<1>3. /\ q.from \in SwapChains /\ q.to \in SwapChains
      /\ q.sell \in {"native", "token"} /\ q.buy \in {"native", "token"}
  BY <1>1 DEF SwapGood, SwapRequests
<1>4. CASE m.kind = "debridge"
  BY <1>2, <1>3, <1>4, MeantSide DEF AskedOf, PrepareDeBridge, Asked, OfKind
<1>5. CASE m.kind = "zerox"
  BY <1>2, <1>3, <1>5, MeantSide DEF AskedOf, Prepare0x, Asked, OfKind
<1>6. CASE m.kind = "rango"
  BY <1>2, <1>3, <1>6, MeantSide DEF AskedOf, PrepareRango, Asked, OfKind
<1> QED
  BY <1>1, <1>4, <1>5, <1>6 DEF Dex

LEMMA ChargedAsQuotedHolds == PaymentInv => ChargedAsQuoted
<1> SUFFICES ASSUME PaymentInv, NEW p \in Payers, NEW r \in Payers,
                    SwapAt(p, {"quoted"}), SwapAt(r, {"formed", "done", "reverted", "refused"}),
                    payment[r].kind = payment[p].kind,
                    Asked(r) = [Asked(p) EXCEPT !.quote = FALSE]
             PROVE  /\ \/ payment[p].charged = payment[r].charged
                       \/ ~OfKind(p, "debridge") /\ payment[p].charged < payment[r].charged
                       \/ payment[r].at = "refused"
                    /\ payment[r].why = "collector" => OfKind(p, "rango")
  BY DEF ChargedAsQuoted
<1> DEFINE m == payment[p]
           n == payment[r]
<1>1. /\ m # Nothing /\ n # Nothing /\ m.kind \in Dex /\ n.kind = m.kind
      /\ m.at = "quoted" /\ n.at \in {"formed", "done", "reverted", "refused"}
      /\ Good(m) /\ Good(n) /\ SwapGood(m) /\ SwapGood(n)
  BY PaymentFacts DEF SwapAt, Good
<1>2. m.request.quote /\ m.request \in SwapRequests
  BY <1>1 DEF SwapGood
<1>3. ~n.request.quote /\ n.request.from = m.request.from /\ n.request.to = m.request.to
  BY <1>2 DEF Asked, SwapRequests
<1>4. HasCollector(m) /\ m.charged = ChargeOf(m)
  BY <1>1 DEF SwapGood, Sent
<1>5. n.at # "refused" => n.charged = ChargeOf(n)
  BY <1>1 DEF SwapGood, Sent
<1>6. \/ m.charged = n.charged
      \/ m.kind # "debridge" /\ m.charged < n.charged
      \/ n.at = "refused"
  BY <1>1, <1>2, <1>3, <1>4, <1>5 DEF ChargeOf, Within, PriceCharge, QuoteCharge, Dex
<1>7. n.why = "collector" => m.kind = "rango"
  BY <1>1, <1>3, <1>4 DEF SwapGood, HasCollector, Within
<1> QED
  BY <1>6, <1>7 DEF OfKind

LEMMA GivesWhatWasNamedHolds == PaymentInv => GivesWhatWasNamed
<1> SUFFICES ASSUME PaymentInv, NEW p \in Payers,
                    PositionAt(p, Gateways, {"formed", "delegated", "done"})
             PROVE  LET native == Asked(p).native /\ Asked(p).reserve # "token"
                        body == payment[p].body
                    IN  /\ body.gate => native /\ body.takes = 0 /\ payment[p].at # "done"
                        /\ ~body.gate =>
                             body.gives = IF native THEN "native" ELSE Asked(p).reserve
                        /\ body.gate /\ wallet.delegated[payment[p].kind]
                           /\ payment[p].at = "formed" => payment[p].touched
  BY DEF GivesWhatWasNamed
<1> DEFINE q == payment[p]
<1>1. /\ q # Nothing /\ q.kind \in Gateways /\ q.at \in {"formed", "delegated", "done"}
      /\ Good(q) /\ Covered(q, wallet)
  BY PaymentFacts DEF PositionAt
<1>2. BodyGood(q, q.body) /\ (q.at = "done" => ~q.body.gate)
  BY <1>1 DEF Good, Bodied
<1>3. q.at = "formed" /\ ~q.touched => (q.body.gate => ~wallet.delegated[q.kind])
  BY <1>1 DEF Covered, BodyCovered
<1>4. AskedNative(q) <=> (Asked(p).native /\ Asked(p).reserve # "token")
  BY DEF AskedNative, Asked
<1>5. /\ q.body.gate => AskedNative(q) /\ q.body.takes = 0
      /\ ~q.body.gate => q.body.gives = IF AskedNative(q) THEN "native" ELSE q.request.reserve
  BY <1>1, <1>2 DEF BodyGood
<1> QED
  BY <1>1, <1>2, <1>3, <1>4, <1>5 DEF Asked

LEMMA SharesAreComparedHolds == PaymentInv => SharesAreCompared
<1> SUFFICES ASSUME PaymentInv, NEW p \in Payers,
                    PositionAt(p, {"compoundWithdraw"}, {"formed", "done", "reverted"})
             PROVE  \/ payment[p].body.takes <= payment[p].shares
                    \/ payment[p].shares < 10 /\ payment[p].body.takes >= 10
  BY DEF SharesAreCompared
<1>1. BodyGood(payment[p], payment[p].body)
  BY PaymentFacts DEF PositionAt, Good, Bodied
<1> QED
  BY <1>1 DEF BodyGood, Compared, PositionAt

(* t is within half a percent of s tenths of a percent of h.                   *)
IsShare(t, h, s) == /\ t * 1000 <= h * 1000 /\ t * 1000 <= h * s + 5 * h
                    /\ t * 1000 + 1000 > h * s - 5 * h

Tenths == 10..1000
LEMMA ShareTaken ==
  ASSUME NEW h \in Nat, NEW s \in Tenths
  PROVE  IsShare((h * WholePercent(s)) \div 100, h, s)
<1> DEFINE w == WholePercent(s)
           t == (h * w) \div 100
           x == h * w
           y == h * s
<1>1. s \in Nat /\ w \in Nat /\ 10 * w <= s + 5 /\ 10 * w >= s - 4 /\ w <= 100
  BY DEF WholePercent, Tenths
<1> HIDE DEF w
<1>2. x \in Nat /\ y \in Nat
  BY <1>1
<1>3. x <= h * 100
  BY <1>1
<1>4. 10 * x <= y + 5 * h
  <2>1. h * (10 * w) <= h * (s + 5)
    BY <1>1
  <2>2. h * (10 * w) = 10 * x /\ h * (s + 5) = y + 5 * h
    BY <1>1
  <2> QED
    BY <2>1, <2>2
<1>5. 10 * x >= y - 4 * h
  <2>1. h * (10 * w + 4) >= h * s
    BY <1>1
  <2>2. h * (10 * w + 4) = 10 * x + 4 * h
    BY <1>1
  <2> QED
    BY <1>2, <2>1, <2>2
<1>6. t = x \div 100
  OBVIOUS
<1> HIDE DEF x, y, t
<1>7. t \in Nat /\ 100 * t <= x /\ x < 100 * t + 100
  BY <1>2, <1>6
<1>8. t * 1000 <= h * 1000 /\ t * 1000 <= y + 5 * h /\ t * 1000 + 1000 > y - 5 * h
  BY <1>2, <1>3, <1>4, <1>5, <1>7
<1> QED
  BY <1>8 DEF y, t, w, IsShare

LEMMA SharesAreTakenHolds == PaymentInv => SharesAreTaken
<1> SUFFICES ASSUME PaymentInv, NEW p \in Payers,
                    PositionAt(p, {"uniRemove"}, {"formed"}), ~payment[p].touched
             PROVE  LET all == Held("position") * 1000
                        took == payment[p].body.takes * 1000
                        due == Held("position") * Sum(p)
                    IN  took <= all /\ took <= due + 5 * Held("position")
                        /\ took + 1000 > due - 5 * Held("position")
  BY DEF SharesAreTaken
<1> DEFINE q == payment[p]
           h == Held("position")
<1>1. q # Nothing /\ q.kind = "uniRemove" /\ q.at = "formed"
  BY DEF PositionAt
<1>2. Covered(q, wallet) /\ PositionGood(q)
  BY <1>1, PositionFacts DEF Redeems
<1>3. q.body.takes = (h * WholePercent(Sum(p))) \div 100
  BY <1>1, <1>2 DEF Covered, BodyCovered, Held, Sum, Asked
<1>4. h \in Nat
  BY DEF Held, PaymentInv, PaymentTypeOK, WalletRecords, Pots
<1>5. Sum(p) \in Tenths
  <2>1. q.request.amount \in Percents
    BY <1>1, <1>2 DEF PositionGood
  <2>2. Percents \subseteq Tenths
    BY PositionAssumption DEF PositionAssumption, Tenths
  <2>3. Sum(p) = q.request.amount
    BY DEF Sum, Asked
  <2> QED
    BY <2>1, <2>2, <2>3
<1>6. IsShare((h * WholePercent(Sum(p))) \div 100, h, Sum(p))
  BY <1>4, <1>5, ShareTaken, Zenon
<1>7. IsShare(q.body.takes, h, Sum(p))
  BY <1>3, <1>6, Zenon
<1> QED
  BY <1>7, Zenon DEF IsShare

LEMMA SignedDoesWhatWasAskedHolds == PaymentInv => SignedDoesWhatWasAsked
<1> SUFFICES ASSUME PaymentInv, NEW p \in Payers, payment[p] # Nothing
             PROVE  LET q == payment[p] IN
                    /\ q.at = "reverted" =>
                         \/ q.touched \/ ~q.enough
                         \/ ~q.allowed /\ q.kind = "lidoWithdraw" /\ q.request.reserve = "eth"
                    /\ q.at = "done" /\ q.kind \in Supplies \union {"zerox", "rango", "aaveWithdraw"} =>
                         q.took = q.request.amount
                    /\ q.body # Nothing /\ q.body.value > 0 =>
                         q.body.pot = "native" \/ q.kind = "debridge"
  BY DEF SignedDoesWhatWasAsked
<1> DEFINE q == payment[p]
<1>1. Good(q)
  BY PaymentFacts
<1>2. q.at = "reverted" => q.touched \/ ~q.enough \/ (~q.allowed /\ Steth(q))
  BY <1>1 DEF Good, Bodied
<1>3. /\ q.at = "done" => BodyGood(q, q.body) /\ ~q.body.gate /\ q.took = q.body.takes
      /\ q.body # Nothing => BodyGood(q, q.body)
  BY <1>1 DEF Good, Bodied
<1> QED
  BY <1>2, <1>3 DEF BodyGood, Steth

(* A payment is of what its request asked for: its service is asked for the    *)
(* tokens that the request names, a payment is charged as its quote said, a    *)
(* position gives what was named and the part of it that was asked for, and    *)
(* what the user signs takes that and no more, and goes through but for the    *)
(* reasons that SignedDoesWhatWasAsked names.                                  *)
THEOREM DealsKept == PaySpec => []DealsAreKept
<1>1. PaymentInv => DealsAreKept
  BY AskedForWhatIsMeantHolds, ChargedAsQuotedHolds, GivesWhatWasNamedHolds,
     SharesAreTakenHolds, SharesAreComparedHolds, SignedDoesWhatWasAskedHolds
     DEF DealsAreKept
<1> QED
  BY <1>1, PaymentsSafe, PTL

-------------------------------------------------------------------------------
(* Ramps. What each answer says of the body of its request.                    *)

Answers == [amount : {"crypto", "fiat", "open"} \X Quantities,
            method : {"card", "bank", "undefined", "any"}]
Visiting == [wants : {"quote", "widget"}, body : Bodies,
             at : {"begin", "answered", "refused"}, answer : Answers \union {Absent}]

RampTypeOK == ramp \in [Visits -> Visiting \union {Absent}]

QuoteOK(body, answer) ==
  /\ answer.amount = QuoteAmount(body) /\ answer.amount[2] = "some"
  /\ answer.method = QuoteMethod(body)
WidgetOK(body, answer) ==
  IF body.mode = "on"
  THEN /\ answer.amount = WidgetOnRamp(body)
       /\ answer.method = UrlMethod(IF body.method = Absent THEN "card" ELSE body.method)
  ELSE /\ answer.amount = WidgetOffRamp(body)
       /\ answer.method = UrlMethod(body.method)
RampOK(v) ==
  ramp[v] # Absent /\ ramp[v].at = "answered" =>
    IF ramp[v].wants = "quote" THEN QuoteOK(ramp[v].body, ramp[v].answer)
    ELSE WidgetOK(ramp[v].body, ramp[v].answer)

RampInv == RampTypeOK /\ \A v \in Visits : RampOK(v)

(* One visit moves on.                                                         *)
LEMMA VisitMoves ==
  ASSUME RampInv, NEW v \in Visits, NEW now \in Visiting, ramp' = [ramp EXCEPT ![v] = now],
         now.at = "answered" => IF now.wants = "quote" THEN QuoteOK(now.body, now.answer)
                                ELSE WidgetOK(now.body, now.answer)
  PROVE  RampInv'
BY DEF RampInv, RampTypeOK, RampOK

LEMMA ReplyKeeps ==
  ASSUME RampInv, NEW v \in Visits, ramp[v] # Absent, NEW answer \in Answers, Reply(v, answer),
         IF ramp[v].wants = "quote" THEN QuoteOK(ramp[v].body, answer)
         ELSE WidgetOK(ramp[v].body, answer)
  PROVE  RampInv'
<1>. DEFINE now == [ramp[v] EXCEPT !.at = "answered", !.answer = answer]
<1>1. ramp[v] \in Visiting
  BY DEF RampInv, RampTypeOK
<1>2. ramp' = [ramp EXCEPT ![v] = now]
  BY DEF Reply, RampInv, RampTypeOK
<1>3. /\ now \in Visiting /\ now.wants = ramp[v].wants /\ now.body = ramp[v].body
      /\ now.answer = answer
  BY <1>1 DEF Visiting
<1>. QED
  BY <1>2, <1>3, VisitMoves

LEMMA DenyKeeps == ASSUME RampInv, NEW v \in Visits, ramp[v] # Absent, Deny(v) PROVE RampInv'
<1>. DEFINE now == [ramp[v] EXCEPT !.at = "refused"]
<1>1. ramp[v] \in Visiting
  BY DEF RampInv, RampTypeOK
<1>2. ramp' = [ramp EXCEPT ![v] = now]
  BY DEF Deny, RampInv, RampTypeOK
<1>3. now \in Visiting /\ now.at = "refused"
  BY <1>1 DEF Visiting
<1>. QED
  BY <1>2, <1>3, VisitMoves

LEMMA VisitBegins ==
  ASSUME RampInv, NEW v \in Visits, NEW wants \in {"quote", "widget"}, NEW body \in Bodies,
         Visit(v, wants, body)
  PROVE  RampInv'
BY VisitMoves DEF Visit, Visiting

LEMMA BodyFields ==
  ASSUME NEW body \in Bodies
  PROVE  body.mode \in Modes /\ body.fiat \in Quantities /\ body.crypto \in Quantities
         /\ body.method \in Methods
BY DEF Bodies

LEMMA QuoteReplies ==
  ASSUME RampInv, NEW v \in Visits, ramp[v] # Absent, ramp[v].wants = "quote", QuoteByBody(v)
  PROVE  RampInv'
<1>. DEFINE body == ramp[v].body
            answer == [amount |-> QuoteAmount(body), method |-> QuoteMethod(body)]
<1>1. body \in Bodies
  BY DEF RampInv, RampTypeOK, Visiting
<1>2. QuoteAmount(body) \in {"crypto", "fiat", "open"} \X Quantities
  BY <1>1, BodyFields DEF QuoteAmount
<1>3. QuoteMethod(body) \in {"card", "bank", "undefined", "any"}
  BY DEF QuoteMethod, Named
<1>. HIDE DEF body
<1>4. answer \in Answers
  BY <1>2, <1>3 DEF Answers
<1>5. CASE Deny(v)
  BY <1>5, DenyKeeps
<1>6. CASE QuoteAmount(body)[2] = "some" /\ Reply(v, answer)
  BY <1>4, <1>6, ReplyKeeps DEF QuoteOK, body
<1>. QED
  BY <1>5, <1>6 DEF QuoteByBody, body

LEMMA OnRampReplies ==
  ASSUME RampInv, NEW v \in Visits, PaymentUrlOnRamp(v)
  PROVE  RampInv'
<1>. DEFINE body == ramp[v].body
            method == UrlMethod(IF body.method = Absent THEN "card" ELSE body.method)
            answer == [amount |-> WidgetOnRamp(body), method |-> method]
<1>1. ramp[v] # Absent /\ ramp[v].wants = "widget" /\ body \in Bodies /\ body.mode = "on"
  BY DEF PaymentUrlOnRamp, Pending, RampInv, RampTypeOK, Visiting
<1>2. WidgetOnRamp(body) \in {"crypto", "fiat", "open"} \X Quantities
  BY <1>1, BodyFields DEF WidgetOnRamp, Quantities
<1>3. method \in {"card", "bank", "undefined", "any"}
  BY DEF UrlMethod, Named
<1>4. answer \in Answers
  BY <1>2, <1>3 DEF Answers
<1>5. WidgetOK(body, answer)
  BY <1>1 DEF WidgetOK
<1>. QED
  BY <1>1, <1>4, <1>5, ReplyKeeps, DenyKeeps DEF PaymentUrlOnRamp

LEMMA OffRampReplies ==
  ASSUME RampInv, NEW v \in Visits, PaymentUrlOffRamp(v)
  PROVE  RampInv'
<1>. DEFINE body == ramp[v].body
            answer == [amount |-> WidgetOffRamp(body), method |-> UrlMethod(body.method)]
<1>1. ramp[v] # Absent /\ ramp[v].wants = "widget" /\ body \in Bodies /\ body.mode = "off"
  BY DEF PaymentUrlOffRamp, Pending, RampInv, RampTypeOK, Visiting
<1>2. WidgetOffRamp(body) \in {"crypto", "fiat", "open"} \X Quantities
  BY <1>1, BodyFields DEF WidgetOffRamp, Quantities
<1>3. UrlMethod(body.method) \in {"card", "bank", "undefined", "any"}
  BY DEF UrlMethod, Named
<1>4. answer \in Answers
  BY <1>2, <1>3 DEF Answers
<1>5. WidgetOK(body, answer)
  BY <1>1 DEF WidgetOK
<1>. QED
  BY <1>1, <1>4, <1>5, ReplyKeeps, DenyKeeps DEF PaymentUrlOffRamp

LEMMA RampNextKeeps == ASSUME RampInv, [RampNext]_rampVars PROVE RampInv'
<1>1. CASE UNCHANGED rampVars
  BY <1>1 DEF rampVars, RampInv, RampTypeOK, RampOK
<1>2. ASSUME NEW v \in Visits, NEW wants \in {"quote", "widget"}, NEW body \in Bodies,
             EnterOnRamp(v, wants, body) \/ EnterOffRamp(v, wants, body)
      PROVE  RampInv'
  BY <1>2, VisitBegins DEF EnterOnRamp, EnterOffRamp
<1>3. ASSUME NEW v \in Visits, GetQuoteOnRamp(v) \/ GetQuoteOffRamp(v) PROVE RampInv'
  BY <1>3, QuoteReplies DEF GetQuoteOnRamp, GetQuoteOffRamp, Pending
<1>4. ASSUME NEW v \in Visits, PaymentUrlOnRamp(v) \/ PaymentUrlOffRamp(v) PROVE RampInv'
  BY <1>4, OnRampReplies, OffRampReplies
<1>5. ASSUME NEW v \in Visits, RampFails(v) PROVE RampInv'
  BY <1>5, DenyKeeps DEF RampFails
<1>. QED
  BY <1>1, <1>2, <1>3, <1>4, <1>5 DEF RampNext

(* The two codes compared: they part only where the property says.             *)
LEMMA QuoteAndWidget ==
  ASSUME NEW body \in Bodies, NEW quoted, NEW shown, QuoteOK(body, quoted), WidgetOK(body, shown)
  PROVE  /\ \/ shown.amount = quoted.amount
            \/ body.mode = "on" /\ body.fiat # Absent /\ body.crypto # Absent
            \/ body.mode = "off" /\ body.crypto = Absent /\ shown.amount[1] = "open"
         /\ \/ shown.method = quoted.method
            \/ body.mode = "off" /\ body.method = Absent /\ quoted.method = "card"
            \/ body.method = "unknown" /\ quoted.method = "any"
<1>1. Absent \notin {"some", "card", "unknown"}
  BY RampAssumption DEF RampAssumption
<1>2. body.mode \in {"on", "off"}
  BY BodyFields DEF Modes
<1>3. CASE body.mode = "on"
  <2>1. body.crypto = Absent => body.fiat # Absent
    BY <1>1 DEF QuoteOK, QuoteAmount
  <2>2. (body.fiat # Absent /\ body.crypto # Absent) \/ shown.amount = quoted.amount
    BY <1>3, <2>1 DEF QuoteOK, QuoteAmount, WidgetOK, WidgetOnRamp
  <2>3. shown.method = quoted.method \/ (body.method = "unknown" /\ quoted.method = "any")
    BY <1>1, <1>3, BodyFields DEF Methods, QuoteOK, QuoteMethod, WidgetOK, UrlMethod, Named
  <2>. QED
    BY <1>3, <2>2, <2>3
<1>4. CASE body.mode = "off"
  <2>1. /\ shown.amount = WidgetOffRamp(body) /\ shown.method = UrlMethod(body.method)
        /\ quoted.amount = QuoteAmount(body) /\ quoted.method = QuoteMethod(body)
    BY <1>4 DEF QuoteOK, WidgetOK
  <2>2. \/ shown.method = quoted.method
        \/ body.method = Absent /\ quoted.method = "card"
        \/ body.method = "unknown" /\ quoted.method = "any"
    BY <1>1, <2>1, BodyFields DEF QuoteMethod, UrlMethod, Named, Methods
  <2>3. CASE body.crypto = Absent
    <3>. DEFINE open == <<"open", Absent>>
    <3>1. shown.amount = open
      BY <2>1, <2>3 DEF WidgetOffRamp
    <3>2. open[1] = "open"
      OBVIOUS
    <3>. QED
      BY <1>4, <2>2, <2>3, <3>1, <3>2
  <2>4. CASE body.crypto # Absent
    <3>1. shown.amount = quoted.amount
      BY <2>1, <2>4 DEF WidgetOffRamp, QuoteAmount
    <3>. QED
      BY <1>4, <2>2, <3>1
  <2>. QED
    BY <2>3, <2>4
<1>. QED
  BY <1>2, <1>3, <1>4

(* For any number of requests, a link with the body of a quote is for the      *)
(* amount and the method that were quoted, but for the cases in which          *)
(* the two codes read the body differently (transak-quote.service.ts and       *)
(* transak-widget-link.service.ts).                                            *)
THEOREM WidgetAgrees == RampSpec => []WidgetShowsTheQuote
<1>1. RampInit => RampInv
  BY DEF RampInit, RampInv, RampTypeOK, RampOK
<1>2. RampInv /\ [RampNext]_rampVars => RampInv'
  BY RampNextKeeps
<1>3. ASSUME RampInv PROVE WidgetShowsTheQuote
  <2>. SUFFICES ASSUME NEW v \in Visits, NEW w \in Visits,
                       ramp[v] # Absent, ramp[w] # Absent, ramp[v].body = ramp[w].body,
                       ramp[v].wants = "quote", ramp[w].wants = "widget",
                       ramp[v].at = "answered", ramp[w].at = "answered"
       PROVE  /\ \/ ramp[w].answer.amount = ramp[v].answer.amount
                 \/ /\ ramp[v].body.mode = "on"
                    /\ ramp[v].body.fiat # Absent /\ ramp[v].body.crypto # Absent
                 \/ /\ ramp[v].body.mode = "off" /\ ramp[v].body.crypto = Absent
                    /\ ramp[w].answer.amount[1] = "open"
              /\ \/ ramp[w].answer.method = ramp[v].answer.method
                 \/ /\ ramp[v].body.mode = "off" /\ ramp[v].body.method = Absent
                    /\ ramp[v].answer.method = "card"
                 \/ ramp[v].body.method = "unknown" /\ ramp[v].answer.method = "any"
    BY DEF WidgetShowsTheQuote
  <2>1. ramp[v].body \in Bodies
    BY <1>3 DEF RampInv, RampTypeOK, Visiting
  <2>2. QuoteOK(ramp[v].body, ramp[v].answer) /\ WidgetOK(ramp[v].body, ramp[w].answer)
    BY <1>3 DEF RampInv, RampOK
  <2>. QED
    BY <2>1, <2>2, QuoteAndWidget
<1>. QED
  BY <1>1, <1>2, <1>3, PTL DEF RampSpec

===============================================================================
