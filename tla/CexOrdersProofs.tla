---------------------------- MODULE CexOrdersProofs ----------------------------
(* Proofs about CexOrders, for any requests, amounts, terms and coins.         *)
EXTENDS CexOrders, TLAPS

Book == /\ \A r \in Requests : order[r] # None => OrderOK(order[r]) /\ OwnerOK(r)
        /\ \A i \in 1..Len(records) : RecordOK(i)
Told == \A i \in 1..MaxRecords : ToldOK(i)
Addressed == \A c \in Coins : AddressOK(c)

LEMMA InvParts == CexInv <=> CexTypeOK /\ Book /\ RefusedOK /\ Told /\ Addressed
BY DEF CexInv, Book, Told, Addressed

LEMMA Numbers ==
  /\ \A o \in Order : o.amount \in Nat
  /\ \A t \in TermsIn : t.min \in Nat /\ t.fee \in Nat /\ t.limit \in Nat
<1>1. Amounts \subseteq Nat
  BY CexAssumption DEF CexAssumption
<1>2. \A o \in Order : o.amount \in Amounts \union {0}
  BY DEF Order
<1>3. \A t \in TermsIn : t.min \in Nat /\ t.fee \in Nat /\ t.limit \in Nat
  BY DEF TermsIn
<1>4. Amounts \union {0} \subseteq Nat
  BY <1>1
<1>5. \A o \in Order : o.amount \in Nat
  BY <1>2, <1>4
<1>. QED
  BY <1>3, <1>5

LEMMA InvPartsNext ==
  ASSUME CexTypeOK', Book', RefusedOK', Told', Addressed'
  PROVE  CexInv'
BY DEF CexInv, Book, Told, Addressed

LEMMA OrderIsSome == None \notin Order
BY CexAssumption DEF CexAssumption

(* One request moves: the others, and what the exchange holds, stay.           *)
Moves(r) == /\ order' \in [Requests -> Order \union {None}]
            /\ order'[r] \in Order
            /\ \A q \in Requests \ {r} : order'[q] = order[q]
            /\ exchange' = exchange

(* It keeps what its record is compared with.                                  *)
Same(r) == /\ order'[r].record = order[r].record
           /\ order'[r].amount = order[r].amount
           /\ order'[r].record # 0 => order'[r].coin = order[r].coin

LEMMA BookKept ==
  ASSUME CexTypeOK, Book, NEW r \in Requests, Moves(r),
         records' = records,
         order[r] # None => Same(r),
         order[r] = None => order'[r].record = 0,
         OrderOK(order[r])'
  PROVE  Book'
<1>1. \A q \in Requests : (order[q] # None)' => OrderOK(order[q])'
  <2>. TAKE q \in Requests
  <2>1. CASE q = r
    BY <2>1
  <2>2. CASE q # r
    BY <2>2 DEF Moves, Book, OrderOK, StageOK, AcceptedOK, HasTerms, ReplyOK, OnBinance, OnKucoin
  <2>. QED  BY <2>1, <2>2
<1>2. \A q \in Requests : OwnerOK(q)'
  BY OrderIsSome DEF Moves, Same, Book, OwnerOK
<1>3. \A i \in 1..Len(records) : RecordOK(i)'
  <2>. TAKE i \in 1..Len(records)
  <2>1. records[i] \in Record /\ RecordOK(i)
    BY DEF CexTypeOK, Book
  <2>2. records[i].by # None => records[i].by \in Requests
    BY <2>1 DEF Record
  <2>. QED
    BY <2>1, <2>2, OrderIsSome DEF Moves, Same, RecordOK, OnBinance
<1>. QED
  BY <1>1, <1>2, <1>3 DEF Book

LEMMA ToldKept ==
  ASSUME CexTypeOK, Told, exchange' = exchange, records' = records,
         told'.status = told.status
  PROVE  Told'
BY DEF Told, ToldOK, Meaning, OnKucoin

(* A request without an address, or with the one it had.                       *)
Settled(r) == /\ order'[r].at # "create"
              /\ \/ order'[r].address = 0
                 \/ /\ order[r] # None /\ order'[r].address = order[r].address
                    /\ order'[r].coin = order[r].coin

LEMMA AddressedKept ==
  ASSUME CexTypeOK, Addressed, NEW r \in Requests, Moves(r), Settled(r),
         addresses' = addresses,
         told'.raced = told.raced, told'.address = told.address
  PROVE  Addressed'
<1>. SUFFICES ASSUME NEW c \in Coins, ~told.raced[c]
              PROVE  AddressOK(c)'
  BY DEF Addressed, AddressOK
<1>1. AddressOK(c)
  BY DEF Addressed
<1>2. ASSUME NEW q \in Requests, order'[q] # None, order'[q].coin = c
      PROVE  /\ order'[q].address <= 1
             /\ order'[q].at = "create" => q # r
  <2>1. CASE q = r
    BY <1>1, <1>2, <2>1, OrderIsSome DEF AddressOK, Moves, Settled
  <2>2. CASE q # r
    BY <1>1, <1>2, <2>2 DEF AddressOK, Moves
  <2>. QED  BY <2>1, <2>2
<1>. QED
  BY <1>1, <1>2, OrderIsSome DEF AddressOK, Moves, Settled, At
-------------------------------------------------------------------------------
(* The steps of one request that change nothing else.                          *)
Quiet(r) == /\ r \in Requests /\ Moves(r) /\ Settled(r)
            /\ order[r] # None => Same(r)
            /\ order[r] = None => order'[r].record = 0
            /\ OrderOK(order[r])'
            /\ UNCHANGED <<exchange, terms, records, addresses, told>>
            /\ refused' \subseteq Refusal /\ RefusedOK'

LEMMA QuietKeeps == ASSUME CexInv, NEW r \in Requests, Quiet(r) PROVE CexInv'
<1>1. Book'
  BY BookKept, InvParts DEF Quiet
<1>2. Told'
  BY ToldKept, InvParts DEF Quiet
<1>3. Addressed'
  BY AddressedKept, InvParts DEF Quiet
<1>4. CexTypeOK'
  BY InvParts DEF CexTypeOK, Quiet, Moves, Record, Code, OnKucoin
<1>. QED
  BY <1>1, <1>2, <1>3, <1>4, InvPartsNext DEF Quiet

(* What is known of a request in progress.                                     *)
LEMMA InProgress ==
  ASSUME CexInv, NEW r \in Requests, order[r] # None
  PROVE  /\ order[r] \in Order /\ OrderOK(order[r]) /\ OwnerOK(r)
         /\ terms \in TermsIn
BY DEF CexInv, CexTypeOK

(* A request that becomes o.                                                   *)
LEMMA BecomesQuiet ==
  ASSUME CexInv, NEW r \in Requests, order[r] # None, NEW o \in Order,
         order' = [order EXCEPT ![r] = o],
         o.record = order[r].record, o.amount = order[r].amount,
         o.record # 0 => o.coin = order[r].coin,
         o.at # "create",
         o.address = 0 \/ (o.address = order[r].address /\ o.coin = order[r].coin),
         OrderOK(o), StayExternal, UNCHANGED told,
         refused' \subseteq Refusal, RefusedOK'
  PROVE  Quiet(r)
<1>1. /\ order' \in [Requests -> Order \union {None}]
      /\ order'[r] = o /\ \A q \in Requests \ {r} : order'[q] = order[q]
  BY DEF CexInv, CexTypeOK
<1>2. OrderOK(order[r])'
  BY <1>1 DEF StayExternal, OrderOK, StageOK, AcceptedOK, HasTerms, ReplyOK, OnBinance, OnKucoin
<1>. QED
  BY <1>1, <1>2 DEF Quiet, Moves, Settled, Same, StayExternal

(* A request that is answered, and has nothing new to tell of an order.        *)
LEMMA AnswerQuiet ==
  ASSUME CexInv, NEW r \in Requests, order[r] # None, ~Answered(r),
         NEW reply \in Replies, Answer(r, reply), StayExternal, UNCHANGED told,
         refused' \subseteq Refusal, RefusedOK',
         order[r].kind = "quote" => reply # "ok",
         order[r].at = "made" => reply # "refused",
         order[r].kind \in {"call", "swap"} /\ reply \in {"ok", "unlisted", "lost"} =>
           order[r].at = "made"
  PROVE  Quiet(r)
<1>. DEFINE o == [order[r] EXCEPT !.at = "answered", !.reply = reply]
<1>1. order[r] \in Order /\ OrderOK(order[r])
  BY InProgress
<1>2. o \in Order
  BY <1>1 DEF Order, Places
<1>3. order' = [order EXCEPT ![r] = o]
  BY <1>1 DEF Answer, CexInv, CexTypeOK
<1>4. OrderOK(o)
  BY <1>1 DEF Order, Answered, OrderOK, StageOK, AcceptedOK, HasTerms, ReplyOK
<1>. QED
  BY <1>1, <1>2, <1>3, <1>4, BecomesQuiet DEF Order

LEMMA PassChainPlace ==
  ASSUME NEW r, NEW kind, NEW chain
  PROVE  PassChain(r, kind, chain) \in {"begin", "answered"}
BY DEF PassChain

LEMMA AskQuiet ==
  ASSUME CexInv, NEW r \in Requests, NEW kind \in Kinds, NEW c \in Coins,
         NEW amount \in Amounts \union {0}, NEW chain \in Chains,
         NEW exclude \in Exclusions, NEW holds \in SUBSET Coins,
         Ask(r, kind, c, amount, chain, exclude, holds)
  PROVE  Quiet(r)
<1>. DEFINE o == order'[r]
<1>1. /\ order' \in [Requests -> Order \union {None}] /\ o \in Order
      /\ o.kind = kind /\ o.at \in {"begin", "answered"} /\ o.record = 0
      /\ o.address = 0 /\ o.reply \in {"none", "error"}
  BY PassChainPlace, CexAssumption DEF Ask, CexAssumption, CexInv, CexTypeOK, Order, Places, Replies
<1>2. OrderOK(order[r])'
  BY <1>1 DEF Ask, StayExternal, OrderOK, StageOK, AcceptedOK, HasTerms, ReplyOK, OnBinance, OnKucoin
<1>. QED
  BY <1>1, <1>2 DEF Quiet, Moves, Settled, Ask, StayExternal, StayTold, CexInv, CexTypeOK, RefusedOK

LEMMA FailsQuiet ==
  ASSUME CexInv, NEW r \in Requests, Fails(r)
  PROVE  Quiet(r)
BY AnswerQuiet, InProgress DEF Fails, StayTold, At, Is, Answered, Replies, CexInv, CexTypeOK,
   RefusedOK, OrderOK, StageOK

LEMMA ListAnswersQuiet ==
  ASSUME CexInv, NEW r \in Requests, ListAnswers(r)
  PROVE  Quiet(r)
BY AnswerQuiet, InProgress DEF ListAnswers, StayTold, At, Is, Answered, Replies, CexInv, CexTypeOK,
   RefusedOK, OrderOK, StageOK

LEMMA NoDestinationQuiet ==
  ASSUME CexInv, NEW r \in Requests, NoDestination(r)
  PROVE  Quiet(r)
BY AnswerQuiet, InProgress DEF NoDestination, StayTold, At, Is, Answered, Replies, CexInv, CexTypeOK,
   RefusedOK, OrderOK, StageOK

LEMMA KucoinListsAfterQuiet ==
  ASSUME CexInv, NEW r \in Requests, KucoinListsAfter(r)
  PROVE  Quiet(r)
BY AnswerQuiet, InProgress DEF KucoinListsAfter, StayTold, At, Is, Answered, Replies, CexInv, CexTypeOK,
   RefusedOK, OrderOK, StageOK

LEMMA BinanceQuoteQuiet ==
  ASSUME CexInv, NEW r \in Requests, BinanceQuote(r)
  PROVE  Quiet(r)
<1>1. order[r] # None
  BY DEF BinanceQuote, At
<1>2. order[r] \in Order /\ OrderOK(order[r]) /\ terms \in TermsIn
  BY <1>1, InProgress
<1>. DEFINE o == [order[r] EXCEPT !.seen = terms, !.quoted = order[r].amount - terms.fee,
                       !.at = IF order[r].kind = "call" THEN "checked" ELSE "answered",
                       !.reply = IF order[r].kind = "call" THEN "none" ELSE "ok"]
<1>3. CASE Answer(r, "refused")
  BY <1>1, <1>2, <1>3, AnswerQuiet DEF BinanceQuote, StayTold, At, Is, Answered, Replies, CexInv,
     CexTypeOK, RefusedOK
<1>4. CASE ~Answer(r, "refused")
  <2>1. order[r].kind # "lenient" => ~BinanceRefuses(terms, order[r].amount)
    BY <1>4 DEF BinanceQuote
  <2>5. order[r].amount - terms.fee \in Int
    BY <1>2, Numbers
  <2>6. /\ (IF order[r].kind = "call" THEN "checked" ELSE "answered") \in Places
        /\ (IF order[r].kind = "call" THEN "none" ELSE "ok") \in Replies
    BY DEF Places, Replies
  <2>2. o \in Order
    BY <1>2, <2>5, <2>6 DEF Order
  <2>3. order' = [order EXCEPT ![r] = o]
    BY <1>2, <1>4 DEF BinanceQuote, CexInv, CexTypeOK, Goto
  <2>4. OrderOK(o)
    BY <1>2, <2>1 DEF BinanceQuote, At, Is, Order, OrderOK, StageOK, AcceptedOK, HasTerms, ReplyOK,
       OnBinance, OnKucoin
  <2>. QED
    BY <1>1, <1>2, <2>2, <2>3, <2>4, BecomesQuiet DEF BinanceQuote, At, Is, Order, OrderOK, StageOK,
       StayTold, CexInv, CexTypeOK, RefusedOK
<1>. QED
  BY <1>3, <1>4

LEMMA KucoinQuoteQuiet ==
  ASSUME CexInv, NEW r \in Requests, KucoinQuote(r)
  PROVE  Quiet(r)
<1>1. order[r] # None
  BY DEF KucoinQuote, At
<1>2. order[r] \in Order /\ OrderOK(order[r]) /\ terms \in TermsIn
  BY <1>1, InProgress
<1>. DEFINE o == [order[r] EXCEPT !.at = "route", !.seen = terms]
<1>3. CASE Answer(r, "refused")
  BY <1>1, <1>2, <1>3, AnswerQuiet DEF KucoinQuote, StayTold, At, Is, Answered, Replies, CexInv,
     CexTypeOK, RefusedOK
<1>4. CASE ~Answer(r, "refused")
  <2>1. ~KucoinRefuses(terms, order[r].amount)
    BY <1>4 DEF KucoinQuote
  <2>2. o \in Order
    BY <1>2, CexAssumption DEF Order, Places, Replies, CexAssumption, TermsIn
  <2>3. order' = [order EXCEPT ![r] = o]
    BY <1>2, <1>4 DEF KucoinQuote, CexInv, CexTypeOK, Goto
  <2>4. OrderOK(o)
    BY <1>2, <2>1 DEF KucoinQuote, At, Is, Order, OrderOK, StageOK, AcceptedOK, HasTerms, ReplyOK,
       OnBinance, OnKucoin, BinanceRefuses, KucoinRefuses
  <2>. QED
    BY <1>1, <1>2, <2>2, <2>3, <2>4, BecomesQuiet DEF KucoinQuote, At, Is, Order, OrderOK, StageOK,
       StayTold, CexInv, CexTypeOK, RefusedOK
<1>. QED
  BY <1>3, <1>4

LEMMA KucoinQuoteFindsCoinQuiet ==
  ASSUME CexInv, NEW r \in Requests, KucoinQuoteFindsCoin(r)
  PROVE  Quiet(r)
<1>1. order[r] # None
  BY DEF KucoinQuoteFindsCoin, At
<1>2. order[r] \in Order /\ OrderOK(order[r]) /\ terms \in TermsIn
  BY <1>1, InProgress
<1>. DEFINE o == [order[r] EXCEPT !.at = "found"]
<1>3. CASE Answer(r, "error")
  BY <1>1, <1>2, <1>3, AnswerQuiet DEF KucoinQuoteFindsCoin, StayTold, At, Is, Answered, Replies, CexInv,
     CexTypeOK, RefusedOK
<1>4. CASE ~Answer(r, "error")
  <2>1. order[r].at = "routed" /\ order[r].kind = "quote"
    BY <1>4 DEF KucoinQuoteFindsCoin, At, Is
  <2>2. o \in Order
    BY <1>2 DEF Order, Places, Replies
  <2>3. order' = [order EXCEPT ![r] = o]
    BY <1>2, <1>4 DEF KucoinQuoteFindsCoin, CexInv, CexTypeOK, Goto
  <2>4. OrderOK(o)
    BY <1>2, <2>1 DEF KucoinQuoteFindsCoin, At, Is, Order, OrderOK, StageOK, AcceptedOK, HasTerms, ReplyOK,
       OnBinance, OnKucoin
  <2>. QED
    BY <1>1, <1>2, <2>2, <2>3, <2>4, BecomesQuiet DEF KucoinQuoteFindsCoin, At, Is, Order, OrderOK, StageOK,
       StayTold, CexInv, CexTypeOK, RefusedOK
<1>. QED
  BY <1>3, <1>4

LEMMA KucoinQuoteAnswersQuiet ==
  ASSUME CexInv, NEW r \in Requests, KucoinQuoteAnswers(r)
  PROVE  Quiet(r)
<1>1. order[r] # None
  BY DEF KucoinQuoteAnswers, At
<1>2. order[r] \in Order /\ OrderOK(order[r]) /\ terms \in TermsIn
  BY <1>1, InProgress
<1>3. order[r].kind = "quote" /\ order[r].seen \in TermsIn
  BY <1>2 DEF KucoinQuoteAnswers, At, OrderOK, StageOK, AcceptedOK, HasTerms
<1>. DEFINE o == [order[r] EXCEPT !.at = "answered", !.reply = "ok",
                                !.quoted = order[r].amount - order[r].seen.fee]
<1>. order[r].amount - order[r].seen.fee \in Int
  BY <1>2, <1>3, Numbers
<1>4. o \in Order
  BY <1>2 DEF Order, Places, Replies
<1>5. order' = [order EXCEPT ![r] = o]
  BY <1>2 DEF KucoinQuoteAnswers, CexInv, CexTypeOK, Goto
<1>6. OrderOK(o)
  BY <1>2, <1>3 DEF KucoinQuoteAnswers, At, Is, Order, OrderOK, StageOK, AcceptedOK, HasTerms, ReplyOK
<1>. QED
  BY <1>1, <1>2, <1>4, <1>5, <1>6, BecomesQuiet DEF KucoinQuoteAnswers, At, Is, Order, OrderOK, StageOK,
     StayTold, CexInv, CexTypeOK, RefusedOK

LEMMA BinanceKeepsChainsQuiet ==
  ASSUME CexInv, NEW r \in Requests, BinanceKeepsChains(r)
  PROVE  Quiet(r)
<1>1. order[r] # None
  BY DEF BinanceKeepsChains, At
<1>2. order[r] \in Order /\ OrderOK(order[r]) /\ terms \in TermsIn
  BY <1>1, InProgress
<1>3. PICK kept \in SUBSET order[r].left :
        order' = [order EXCEPT ![r].at = "prices", ![r].left = kept]
  BY DEF BinanceKeepsChains
<1>. DEFINE o == [order[r] EXCEPT !.at = "prices", !.left = kept]
<1>4. o \in Order
  BY <1>2, <1>3 DEF Order, Places, Replies
<1>5. order' = [order EXCEPT ![r] = o]
  BY <1>3 DEF BinanceKeepsChains, CexInv, CexTypeOK, Goto
<1>6. OrderOK(o)
  BY <1>2, <1>3 DEF BinanceKeepsChains, At, Is, Order, OrderOK, StageOK, AcceptedOK, HasTerms, ReplyOK
<1>. QED
  BY <1>1, <1>2, <1>4, <1>5, <1>6, BecomesQuiet DEF BinanceKeepsChains, At, Is, Order, OrderOK, StageOK,
     StayTold, CexInv, CexTypeOK, RefusedOK

LEMMA BinancePricesAssetQuiet ==
  ASSUME CexInv, NEW r \in Requests, BinancePricesAsset(r)
  PROVE  Quiet(r)
<1>1. order[r] # None
  BY DEF BinancePricesAsset, At
<1>2. order[r] \in Order /\ OrderOK(order[r]) /\ terms \in TermsIn
  BY <1>1, InProgress
<1>3. PICK c \in order[r].left :
        order' = [order EXCEPT ![r].left = @ \ {c}, ![r].offers = @ \union {c}]
  BY DEF BinancePricesAsset
<1>. DEFINE o == [order[r] EXCEPT !.left = @ \ {c}, !.offers = @ \union {c}]
<1>4. o \in Order
  BY <1>2, <1>3 DEF Order, Places, Replies
<1>5. order' = [order EXCEPT ![r] = o]
  BY <1>3 DEF BinancePricesAsset, CexInv, CexTypeOK, Goto
<1>6. OrderOK(o)
  BY <1>2, <1>3 DEF BinancePricesAsset, At, Is, Order, OrderOK, StageOK, AcceptedOK, HasTerms, ReplyOK
<1>. QED
  BY <1>1, <1>2, <1>4, <1>5, <1>6, BecomesQuiet DEF BinancePricesAsset, At, Is, Order, OrderOK, StageOK,
     StayTold, CexInv, CexTypeOK, RefusedOK

LEMMA KucoinNextAssetQuiet ==
  ASSUME CexInv, NEW r \in Requests, KucoinNextAsset(r)
  PROVE  Quiet(r)
<1>1. order[r] # None
  BY DEF KucoinNextAsset, At
<1>2. order[r] \in Order /\ OrderOK(order[r]) /\ terms \in TermsIn
  BY <1>1, InProgress
<1>3. PICK c \in order[r].left :
        order' = [order EXCEPT ![r].coin = c, ![r].at = "route", ![r].address = 0,
                               ![r].left = @ \ {c}]
  BY DEF KucoinNextAsset
<1>. DEFINE o == [order[r] EXCEPT !.coin = c, !.at = "route", !.address = 0, !.left = @ \ {c}]
<1>4. o \in Order
  BY <1>2, <1>3 DEF Order, Places, Replies
<1>5. order' = [order EXCEPT ![r] = o]
  BY <1>3 DEF KucoinNextAsset, CexInv, CexTypeOK, Goto
<1>6. OrderOK(o)
  BY <1>2, <1>3 DEF KucoinNextAsset, At, Is, Order, OrderOK, StageOK, AcceptedOK, HasTerms, ReplyOK
<1>. QED
  BY <1>1, <1>2, <1>4, <1>5, <1>6, BecomesQuiet DEF KucoinNextAsset, At, Is, Order, OrderOK, StageOK,
     StayTold, CexInv, CexTypeOK, RefusedOK

LEMMA KucoinPricesAssetQuiet ==
  ASSUME CexInv, NEW r \in Requests, KucoinPricesAsset(r)
  PROVE  Quiet(r)
<1>1. order[r] # None
  BY DEF KucoinPricesAsset, At
<1>2. order[r] \in Order /\ OrderOK(order[r]) /\ terms \in TermsIn
  BY <1>1, InProgress
<1>3. PICK new \in SUBSET (Coins \union Exchanges) :
        order' = [order EXCEPT ![r].at = "begin", ![r].offers = new]
  BY <1>2 DEF KucoinPricesAsset, Order
<1>. DEFINE o == [order[r] EXCEPT !.at = "begin", !.offers = new]
<1>4. o \in Order
  BY <1>2, <1>3 DEF Order, Places, Replies
<1>5. order' = [order EXCEPT ![r] = o]
  BY <1>3 DEF KucoinPricesAsset, CexInv, CexTypeOK, Goto
<1>6. OrderOK(o)
  BY <1>2, <1>3 DEF KucoinPricesAsset, At, Is, Order, OrderOK, StageOK, AcceptedOK, HasTerms, ReplyOK
<1>. QED
  BY <1>1, <1>2, <1>4, <1>5, <1>6, BecomesQuiet DEF KucoinPricesAsset, At, Is, Order, OrderOK, StageOK,
     StayTold, CexInv, CexTypeOK, RefusedOK

-------------------------------------------------------------------------------
(* The steps that change what is told, or what the exchange holds.             *)

LEMMA BecomesMoves ==
  ASSUME CexInv, NEW r \in Requests, order[r] # None, NEW o \in Order,
         order' = [order EXCEPT ![r] = o],
         o.record = order[r].record, o.amount = order[r].amount,
         o.record # 0 => o.coin = order[r].coin,
         OrderOK(o), exchange' = exchange, records' = records,
         told'.status = told.status
  PROVE  /\ Moves(r) /\ order'[r] = o /\ Book' /\ Told'
<1>1. /\ order' \in [Requests -> Order \union {None}]
      /\ order'[r] = o /\ \A q \in Requests \ {r} : order'[q] = order[q]
  BY DEF CexInv, CexTypeOK
<1>2. OrderOK(order[r])'
  BY <1>1 DEF OrderOK, StageOK, AcceptedOK, HasTerms, ReplyOK, OnBinance, OnKucoin
<1>3. Moves(r) /\ Same(r)
  BY <1>1 DEF Moves, Same
<1>4. Book'
  BY <1>2, <1>3, BookKept, InvParts
<1>5. Told'
  BY ToldKept, InvParts
<1>. QED
  BY <1>1, <1>3, <1>4, <1>5

LEMMA FetchKeeps ==
  ASSUME CexInv, NEW r \in Requests, FetchAddress(r)
  PROVE  CexInv'
<1>1. order[r] # None
  BY DEF FetchAddress, NeedsRoute, At
<1>2. order[r] \in Order /\ OrderOK(order[r]) /\ order[r].coin \in Coins
  BY <1>1, InProgress DEF Order
<1>. DEFINE k == order[r].coin
<1>3. /\ UNCHANGED <<exchange, terms, records, addresses, refused>>
      /\ told' = [told EXCEPT !.raced[k] = @ \/ (Racing(r) /\ addresses[k] = 0)]
  BY DEF FetchAddress, StayExternal
<1>. DEFINE Fetched(o) ==
              /\ order' = [order EXCEPT ![r] = o]
              /\ o.record = order[r].record /\ o.amount = order[r].amount
              /\ o.coin = k /\ OrderOK(o)
              /\ \/ o.at = "routed" /\ o.address \in 1..addresses[k]
                 \/ o.at = "create" /\ o.address = order[r].address /\ addresses[k] = 0
<1>4. PICK o \in Order : Fetched(o)
  <2>1. ASSUME NEW a \in 1..addresses[k],
               order' = [order EXCEPT ![r].at = "routed", ![r].address = a]
        PROVE  \E o \in Order : Fetched(o)
    <3>. DEFINE o == [order[r] EXCEPT !.at = "routed", !.address = a]
    <3>0. a \in Nat
      BY <1>2 DEF CexInv, CexTypeOK
    <3>1. o \in Order
      BY <1>2, <3>0 DEF Order, Places
    <3>2. order' = [order EXCEPT ![r] = o]
      BY <1>2, <2>1 DEF CexInv, CexTypeOK
    <3>3. OrderOK(o)
      BY <1>2 DEF FetchAddress, NeedsRoute, At, Is, Order, OrderOK, StageOK, AcceptedOK, HasTerms, ReplyOK
    <3>. QED
      BY <1>2, <3>1, <3>2, <3>3 DEF Order
  <2>2. ASSUME addresses[k] = 0, Goto(r, "create")
        PROVE  \E o \in Order : Fetched(o)
    <3>. DEFINE o == [order[r] EXCEPT !.at = "create"]
    <3>1. o \in Order
      BY <1>2 DEF Order, Places, CexInv, CexTypeOK
    <3>2. order' = [order EXCEPT ![r] = o]
      BY <1>2, <2>2 DEF CexInv, CexTypeOK, Goto
    <3>3. OrderOK(o)
      BY <1>2 DEF FetchAddress, NeedsRoute, At, Is, Order, OrderOK, StageOK, AcceptedOK, HasTerms, ReplyOK
    <3>. QED
      BY <1>2, <2>2, <3>1, <3>2, <3>3 DEF Order
  <2>. QED
    BY <2>1, <2>2 DEF FetchAddress
<1>5. told'.status = told.status /\ told'.address = told.address
  BY <1>3 DEF CexInv, CexTypeOK
<1>6. Moves(r) /\ order'[r] = o /\ Book' /\ Told'
  BY <1>1, <1>3, <1>4, <1>5, BecomesMoves
<1>7. /\ \A c \in Coins \ {k} : told'.raced[c] = told.raced[c]
      /\ ~told'.raced[k] => ~told.raced[k] /\ ~(Racing(r) /\ addresses[k] = 0)
      /\ told'.raced \in [Coins -> BOOLEAN]
  BY <1>2, <1>3 DEF CexInv, CexTypeOK
<1>8. Addressed'
  <2>. SUFFICES ASSUME NEW c \in Coins, ~told'.raced[c]
                PROVE  AddressOK(c)'
    BY DEF Addressed, AddressOK
  <2>1. AddressOK(c) /\ ~told.raced[c]
    BY <1>7 DEF CexInv
  <2>2. CASE c # k
    BY <1>3, <1>4, <1>5, <1>6, <2>1, <2>2, OrderIsSome DEF AddressOK, Moves, At
  <2>3. CASE c = k /\ o.at = "routed"
    <3>1. addresses[k] = 1
      BY <1>2, <1>4, <2>1, <2>3 DEF AddressOK, CexInv, CexTypeOK
    <3>. QED
      BY <1>3, <1>4, <1>5, <1>6, <2>1, <2>3, <3>1, OrderIsSome DEF AddressOK, Moves, At
  <2>4. CASE c = k /\ o.at # "routed"
    <3>1. ~Racing(r)
      BY <1>4, <1>7, <2>4
    <3>. QED
      BY <1>1, <1>3, <1>4, <1>5, <1>6, <2>1, <2>4, <3>1, OrderIsSome DEF AddressOK, Moves, At, Racing
  <2>. QED
    BY <2>2, <2>3, <2>4
<1>9. CexTypeOK'
  BY <1>3, <1>5, <1>6, <1>7 DEF CexInv, CexTypeOK, Moves, Record, Code, OnKucoin
<1>10. RefusedOK'
  BY <1>3 DEF CexInv, RefusedOK
<1>. QED
  BY <1>6, <1>8, <1>9, <1>10, InvPartsNext

LEMMA CreateKeeps ==
  ASSUME CexInv, NEW r \in Requests, CreateAddress(r)
  PROVE  CexInv'
<1>1. order[r] # None /\ order[r].at = "create"
  BY DEF CreateAddress, At
<1>2. order[r] \in Order /\ OrderOK(order[r]) /\ order[r].coin \in Coins
  BY <1>1, InProgress DEF Order
<1>. DEFINE k == order[r].coin
<1>3. UNCHANGED <<exchange, terms, records, told, refused>>
  BY DEF CreateAddress, StayTold
<1>. DEFINE Made(o) ==
              /\ order' = [order EXCEPT ![r] = o]
              /\ o.record = order[r].record /\ o.amount = order[r].amount
              /\ o.coin = k /\ OrderOK(o) /\ o.at = "routed"
              /\ \/ /\ addresses' = [addresses EXCEPT ![k] = @ + 1]
                    /\ o.address \in {0, addresses[k] + 1}
                 \/ addresses' = addresses /\ o.address = order[r].address
<1>4. PICK o \in Order : Made(o)
  <2>1. ASSUME NEW a \in {0, addresses[k] + 1},
               order' = [order EXCEPT ![r].at = "routed", ![r].address = a],
               addresses' = [addresses EXCEPT ![k] = @ + 1]
        PROVE  \E o \in Order : Made(o)
    <3>. DEFINE o == [order[r] EXCEPT !.at = "routed", !.address = a]
    <3>1. a \in Nat
      BY <1>2 DEF CexInv, CexTypeOK
    <3>2. o \in Order
      BY <1>2, <3>1 DEF Order, Places
    <3>3. order' = [order EXCEPT ![r] = o]
      BY <1>2, <2>1 DEF CexInv, CexTypeOK
    <3>4. OrderOK(o)
      BY <1>1, <1>2 DEF Order, OrderOK, StageOK, AcceptedOK, HasTerms, ReplyOK
    <3>. QED
      BY <1>2, <2>1, <3>2, <3>3, <3>4 DEF Order
  <2>2. ASSUME order' = [order EXCEPT ![r].at = "routed"], addresses' = addresses
        PROVE  \E o \in Order : Made(o)
    <3>. DEFINE o == [order[r] EXCEPT !.at = "routed"]
    <3>1. o \in Order
      BY <1>2 DEF Order, Places
    <3>2. order' = [order EXCEPT ![r] = o]
      BY <1>2, <2>2 DEF CexInv, CexTypeOK
    <3>3. OrderOK(o)
      BY <1>1, <1>2 DEF Order, OrderOK, StageOK, AcceptedOK, HasTerms, ReplyOK
    <3>. QED
      BY <1>2, <2>2, <3>1, <3>2, <3>3 DEF Order
  <2>. QED
    BY <2>1, <2>2 DEF CreateAddress
<1>5. Moves(r) /\ order'[r] = o /\ Book' /\ Told'
  BY <1>1, <1>3, <1>4, BecomesMoves
<1>6. /\ addresses' \in [Coins -> Nat]
      /\ \A c \in Coins \ {k} : addresses'[c] = addresses[c]
      /\ addresses'[k] \in {addresses[k], addresses[k] + 1}
  BY <1>2, <1>4 DEF CexInv, CexTypeOK
<1>7. Addressed'
  <2>. SUFFICES ASSUME NEW c \in Coins, ~told.raced[c]
                PROVE  AddressOK(c)'
    BY <1>3 DEF Addressed, AddressOK
  <2>1. AddressOK(c)
    BY DEF CexInv
  <2>2. CASE c # k
    BY <1>3, <1>4, <1>5, <1>6, <2>1, <2>2, OrderIsSome DEF AddressOK, Moves, At
  <2>3. CASE c = k
    <3>1. addresses[k] = 0
      BY <1>1, <2>1, <2>3 DEF AddressOK
    <3>2. \A q \in Requests \ {r} : order[q] # None /\ order[q].coin = k => order[q].at # "create"
      BY <1>1, <2>1, <2>3 DEF AddressOK, At
    <3>3. o.address <= 1
      BY <1>1, <1>4, <2>1, <2>3, <3>1 DEF AddressOK
    <3>. QED
      BY <1>3, <1>4, <1>5, <1>6, <2>1, <2>3, <3>1, <3>2, <3>3, OrderIsSome DEF AddressOK, Moves, At
  <2>. QED
    BY <2>2, <2>3
<1>8. CexTypeOK'
  BY <1>3, <1>5, <1>6 DEF CexInv, CexTypeOK, Moves, Record, Code, OnKucoin
<1>9. RefusedOK'
  BY <1>3 DEF CexInv, RefusedOK
<1>. QED
  BY <1>5, <1>7, <1>8, <1>9, InvPartsNext

(* An address is told, and is the coin's only one if nobody raced for it.      *)
LEMMA TellKeeps ==
  ASSUME CexInv, NEW r \in Requests, order[r] # None, order[r].at = "routed",
         order[r].kind \in {"address", "destination"}, Tell(r, "kucoin"),
         StayExternal, UNCHANGED refused
  PROVE  CexInv'
<1>1. order[r] \in Order /\ OrderOK(order[r]) /\ order[r].coin \in Coins
  BY InProgress DEF Order
<1>. DEFINE k == order[r].coin
            o == [order[r] EXCEPT !.at = "answered", !.reply = "ok", !.offers = {"kucoin"}]
<1>2. o \in Order
  BY <1>1 DEF Order, Places, Replies, Exchanges
<1>3. order' = [order EXCEPT ![r] = o]
  BY <1>1 DEF Tell, CexInv, CexTypeOK
<1>4. OrderOK(o)
  BY <1>1 DEF Order, OrderOK, StageOK, AcceptedOK, HasTerms, ReplyOK
<1>5. /\ told'.status = told.status /\ told'.raced = told.raced
      /\ told' = [told EXCEPT !.address[k] = order[r].address]
      /\ \A c \in Coins \ {k} : told'.address[c] = told.address[c]
      /\ told'.address[k] = order[r].address
  BY <1>1 DEF Tell, CexInv, CexTypeOK
<1>6. Moves(r) /\ order'[r] = o /\ Book' /\ Told'
  BY <1>1, <1>2, <1>3, <1>4, <1>5, BecomesMoves DEF StayExternal, Order
<1>7. Addressed'
  <2>. SUFFICES ASSUME NEW c \in Coins, ~told.raced[c]
                PROVE  AddressOK(c)'
    BY <1>5 DEF Addressed, AddressOK
  <2>1. AddressOK(c)
    BY DEF CexInv
  <2>2. order'[r].coin = k /\ order'[r].at = "answered" /\ order'[r].address = order[r].address
    BY <1>1, <1>6 DEF Order
  <2>3. addresses' = addresses /\ told'.raced = told.raced /\ Moves(r)
    BY <1>5, <1>6 DEF StayExternal
  <2>. HIDE DEF o
  <2>4. CASE c # k
    <3>1. told'.address[c] = told.address[c]
      BY <1>5, <2>4
    <3>. QED
      BY <2>1, <2>2, <2>3, <2>4, <3>1, OrderIsSome DEF AddressOK, Moves, At
  <2>5. CASE c = k
    <3>1. told'.address[c] = order[r].address
      BY <1>5, <2>5
    <3>. QED
      BY <2>1, <2>2, <2>3, <2>5, <3>1, OrderIsSome DEF AddressOK, Moves, At
  <2>. QED
    BY <2>4, <2>5
<1>8. CexTypeOK'
  BY <1>1, <1>5, <1>6 DEF CexInv, CexTypeOK, Moves, Record, Code, OnKucoin, StayExternal, Order
<1>9. RefusedOK'
  BY DEF CexInv, RefusedOK
<1>. QED
  BY <1>6, <1>7, <1>8, <1>9, InvPartsNext

LEMMA BinanceReadsKeeps ==
  ASSUME CexInv, NEW r \in Requests, order[r] # None, order[r].at = "begin",
         order[r].kind \in {"address", "destination"}, OnBinance, BinanceReads(r)
  PROVE  CexInv'
<1>1. order[r] \in Order /\ OrderOK(order[r]) /\ order[r].coin \in Coins
  BY InProgress DEF Order
<1>. DEFINE k == order[r].coin
            o == [order[r] EXCEPT !.at = "answered", !.reply = "ok",
                                  !.offers = {"binance"}, !.address = 1]
<1>2. o \in Order
  BY <1>1 DEF Order, Places, Replies, Exchanges
<1>3. order' = [order EXCEPT ![r] = o]
  BY <1>1 DEF BinanceReads, CexInv, CexTypeOK
<1>4. OrderOK(o)
  BY <1>1 DEF Order, OrderOK, StageOK, AcceptedOK, HasTerms, ReplyOK
<1>5. /\ UNCHANGED <<exchange, terms, records, refused>>
      /\ told'.status = told.status /\ told'.raced = told.raced
      /\ told' = [told EXCEPT !.address[k] = 1]
      /\ \A c \in Coins \ {k} : told'.address[c] = told.address[c] /\ addresses'[c] = addresses[c]
      /\ told'.address[k] = 1 /\ addresses'[k] = 1 /\ addresses' \in [Coins -> Nat]
  BY <1>1 DEF BinanceReads, CexInv, CexTypeOK
<1>6. Moves(r) /\ order'[r] = o /\ Book' /\ Told'
  BY <1>1, <1>2, <1>3, <1>4, <1>5, BecomesMoves DEF Order
<1>7. \A q \in Requests : order[q] # None => order[q].at # "create"
  BY DEF CexInv, OrderOK, StageOK, OnBinance, OnKucoin
<1>8. Addressed'
  <2>. SUFFICES ASSUME NEW c \in Coins, ~told.raced[c]
                PROVE  AddressOK(c)'
    BY <1>5 DEF Addressed, AddressOK
  <2>1. AddressOK(c)
    BY DEF CexInv
  <2>2. order'[r].coin = k /\ order'[r].at = "answered" /\ order'[r].address = 1
    BY <1>1, <1>6 DEF Order
  <2>3. CASE c # k
    <3>1. told'.address[c] = told.address[c] /\ addresses'[c] = addresses[c] /\ Moves(r)
          /\ told'.raced = told.raced
      BY <1>5, <1>6, <2>3
    <3>. HIDE DEF o
    <3>. QED
      BY <2>1, <2>2, <2>3, <3>1, OrderIsSome DEF AddressOK, Moves, At
  <2>4. CASE c = k
    <3>1. told'.address[c] = 1 /\ addresses'[c] = 1 /\ Moves(r) /\ told'.raced = told.raced
      BY <1>5, <1>6, <2>4
    <3>. HIDE DEF o
    <3>. QED
      BY <1>7, <2>1, <2>2, <2>4, <3>1, OrderIsSome DEF AddressOK, Moves, At
  <2>. QED
    BY <2>3, <2>4
<1>9. CexTypeOK'
  BY <1>1, <1>5, <1>6 DEF CexInv, CexTypeOK, Moves, Record, Code, OnKucoin
<1>10. RefusedOK'
  BY <1>5 DEF CexInv, RefusedOK
<1>. QED
  BY <1>6, <1>8, <1>9, <1>10, InvPartsNext

LEMMA TellingKeeps ==
  ASSUME CexInv, NEW r \in Requests,
         KucoinAddress(r) \/ KucoinDestination(r) \/ BinanceAddress(r) \/ BinanceDestination(r)
  PROVE  CexInv'
<1>1. order[r] # None /\ ~Answered(r)
  BY DEF KucoinAddress, KucoinDestination, BinanceAddress, BinanceDestination, At, Answered
<1>2. order[r] \in Order /\ OrderOK(order[r])
  BY <1>1, InProgress
<1>3. CASE \E reply \in {"ok", "refused"} :
             /\ Answer(r, reply) /\ StayExternal /\ UNCHANGED <<told, refused>>
             /\ order[r].kind \in {"address", "destination"}
             /\ order[r].at # "made"
  BY <1>1, <1>3, AnswerQuiet, QuietKeeps DEF Replies, CexInv, CexTypeOK, RefusedOK
<1>4. CASE /\ Tell(r, "kucoin") /\ StayExternal /\ UNCHANGED refused
           /\ order[r].kind \in {"address", "destination"} /\ order[r].at = "routed"
  BY <1>1, <1>4, TellKeeps
<1>5. CASE /\ BinanceReads(r) /\ OnBinance
           /\ order[r].kind \in {"address", "destination"} /\ order[r].at = "begin"
  BY <1>1, <1>5, BinanceReadsKeeps
<1>. QED
  BY <1>3, <1>4, <1>5 DEF KucoinAddress, KucoinDestination, BinanceAddress, BinanceDestination,
     At, Is, StayTold

LEMMA ExchangeRefusesQuiet ==
  ASSUME CexInv, NEW r \in Requests, ExchangeRefuses(r)
  PROVE  Quiet(r)
<1>1. order[r] # None /\ ~Answered(r) /\ order[r].at # "made"
  BY DEF ExchangeRefuses, ReadyToMake, At, Answered
<1>2. order[r] \in Order /\ OrderOK(order[r]) /\ terms \in TermsIn
  BY <1>1, InProgress
<1>. DEFINE byTerms == ~(terms.enabled /\ terms.min <= order[r].amount
                                      /\ order[r].amount <= terms.limit)
            f == [amount |-> order[r].amount, terms |-> terms, byTerms |-> byTerms]
<1>3. refused' = refused \/ refused' = refused \union {f}
  BY DEF ExchangeRefuses
<1>4. byTerms \in BOOLEAN
  OBVIOUS
<1>5. f \in Refusal
  BY <1>2, <1>4, Numbers DEF Refusal
<1>6. refused' \subseteq Refusal
  BY <1>3, <1>5 DEF CexInv, CexTypeOK
<1>7. RefusedOK'
  <2>. DEFINE Sound(g) == g.byTerms => ~(g.terms.enabled /\ g.terms.min <= g.amount
                                                        /\ g.amount <= g.terms.limit)
  <2>1. \A g \in refused : Sound(g)
    BY DEF CexInv, RefusedOK
  <2>2. f.amount = order[r].amount /\ f.terms = terms /\ f.byTerms = byTerms
    OBVIOUS
  <2>3. Sound(f)
    BY <2>2
  <2>. SUFFICES ASSUME NEW g \in refused' PROVE Sound(g)
    BY DEF RefusedOK
  <2>. QED
    BY <1>3, <2>1, <2>3
<1>. QED
  BY <1>1, <1>2, <1>6, <1>7, AnswerQuiet DEF ExchangeRefuses, Replies, ReadyToMake, At, Is,
     OrderOK, StageOK, StayExternal

-------------------------------------------------------------------------------
(* The steps that change the records of the exchange.                          *)

LEMMA Longer ==
  ASSUME CexInv, NEW rec \in Record, records' = Append(records, rec),
         Len(records) < MaxRecords
  PROVE  /\ Len(records) \in Nat /\ Len(records') = Len(records) + 1
         /\ records' \in Seq(Record) /\ Len(records') <= MaxRecords
         /\ records'[Len(records) + 1] = rec
         /\ \A i \in 1..Len(records) : records'[i] = records[i] /\ records[i] \in Record
<1>1. records \in Seq(Record) /\ MaxRecords \in Nat
  BY CexAssumption DEF CexInv, CexTypeOK, CexAssumption
<1>. QED
  BY <1>1

LEMMA ToldLonger ==
  ASSUME CexInv, NEW rec \in Record, records' = Append(records, rec),
         Len(records) < MaxRecords, exchange' = exchange, told' = told
  PROVE  Told'
<1>. SUFFICES ASSUME NEW i \in 1..MaxRecords PROVE ToldOK(i)'
  BY DEF Told
<1>1. ToldOK(i)
  BY DEF CexInv
<1>2. CASE i \in 1..Len(records)
  <2>1. records'[i] = records[i] /\ Len(records') = Len(records) + 1 /\ Len(records) \in Nat
    BY <1>2, Longer
  <2>. QED
    BY <1>1, <1>2, <2>1 DEF ToldOK, Meaning, OnKucoin
<1>3. CASE i \notin 1..Len(records)
  BY <1>1, <1>3, Longer, CexAssumption DEF ToldOK, CexAssumption
<1>. QED
  BY <1>2, <1>3

LEMMA MakesKeeps ==
  ASSUME CexInv, NEW r \in Requests, ExchangeMakes(r)
  PROVE  CexInv'
<1>1. order[r] # None
  BY DEF ExchangeMakes, ReadyToMake, At
<1>2. order[r] \in Order /\ OrderOK(order[r]) /\ terms \in TermsIn
  BY <1>1, InProgress
<1>3. /\ order[r].record = 0 /\ order[r].kind \in {"call", "swap"}
      /\ order[r].kind = "swap" => OnBinance
      /\ OnBinance /\ order[r].kind = "call" => order[r].at = "checked"
  BY <1>2 DEF ExchangeMakes, ReadyToMake, At, Is, OrderOK, StageOK, OnBinance, OnKucoin
<1>. DEFINE kind == IF order[r].kind = "call" THEN "withdraw" ELSE "swap"
            rec == [kind |-> kind, by |-> r, coin |-> order[r].coin, amount |-> order[r].amount,
                    fee |-> terms.fee, code |-> UnderWay(kind), info |-> FALSE]
            n == Len(records) + 1
            Made(o) ==
              /\ order' = [order EXCEPT ![r] = o]
              /\ o.record = n /\ o.amount = order[r].amount /\ o.coin = order[r].coin
              /\ o.kind = order[r].kind /\ o.seen = order[r].seen
              /\ o.address = order[r].address /\ o.at \in {"made", "answered"}
              /\ o.at = "made" => OnKucoin
              /\ o.reply \in {"none", "lost", "ok"}
<1>4. UnderWay(kind) \in Code
  BY DEF UnderWay, Code
<1>5. rec \in Record
  <2>1. order[r].coin \in Coins
    BY <1>2 DEF Order
  <2>. QED
    BY <1>2, <1>4, <2>1, Numbers DEF Record
<1>6. /\ records' = Append(records, rec) /\ Len(records) < MaxRecords
      /\ UNCHANGED <<exchange, terms, addresses, told, refused>>
  BY DEF ExchangeMakes, StayTold
<1>7. /\ Len(records) \in Nat /\ Len(records') = n
      /\ records' \in Seq(Record) /\ Len(records') <= MaxRecords
      /\ records'[n] = rec
      /\ \A i \in 1..Len(records) : records'[i] = records[i] /\ records[i] \in Record
  BY <1>5, <1>6, Longer
<1>8. PICK o \in Order : Made(o)
  <2>1. PICK lost \in BOOLEAN :
          order' = [order EXCEPT ![r].record = Len(records) + 1,
            ![r].at = IF ~lost /\ OnKucoin THEN "made" ELSE "answered",
            ![r].reply = IF lost THEN "lost" ELSE IF OnKucoin THEN "none" ELSE "ok"]
    BY DEF ExchangeMakes
  <2>. DEFINE at == IF ~lost /\ OnKucoin THEN "made" ELSE "answered"
              reply == IF lost THEN "lost" ELSE IF OnKucoin THEN "none" ELSE "ok"
              o == [order[r] EXCEPT !.record = n, !.at = at, !.reply = reply]
  <2>2. /\ at \in {"made", "answered"} /\ reply \in {"none", "lost", "ok"}
        /\ at = "made" => OnKucoin
    OBVIOUS
  <2>3. n \in 0..MaxRecords
    BY <1>7, CexAssumption DEF CexAssumption
  <2>4. order' = [order EXCEPT ![r] = o]
    BY <2>1 DEF CexInv, CexTypeOK
  <2>. HIDE DEF at, reply
  <2>5. at \in Places /\ reply \in Replies
    BY <2>2 DEF Places, Replies
  <2>6. o \in Order
    BY <1>2, <2>3, <2>5 DEF Order
  <2>. QED
    BY <1>2, <2>2, <2>4, <2>6 DEF Order
<1>9. /\ order' \in [Requests -> Order \union {None}]
      /\ order'[r] = o /\ \A q \in Requests \ {r} : order'[q] = order[q]
  BY <1>8 DEF CexInv, CexTypeOK
<1>10. OrderOK(order[r])'
  <2>1. HasTerms(o)' => HasTerms(order[r])
    BY <1>3, <1>6, <1>8 DEF HasTerms, OnBinance
  <2>. QED
    BY <1>2, <1>3, <1>6, <1>7, <1>8, <1>9, <2>1
    DEF OrderOK, StageOK, AcceptedOK, ReplyOK, BinanceRefuses, OnBinance, OnKucoin
<1>11. Book'
  <2>1. \A q \in Requests \ {r} : (order[q] # None)' => OrderOK(order[q])' /\ OwnerOK(q)'
    <3>. SUFFICES ASSUME NEW q \in Requests \ {r}, order[q] # None, order'[q] = order[q]
                  PROVE  OrderOK(order[q])' /\ OwnerOK(q)'
      BY <1>9
    <3>1. OrderOK(order[q]) /\ OwnerOK(q) /\ order[q] \in Order
      BY InProgress
    <3>2. OrderOK(order[q])'
      BY <1>6, <3>1 DEF OrderOK, StageOK, AcceptedOK, HasTerms, ReplyOK, OnBinance, OnKucoin
    <3>3. order[q].record \in Nat
      BY <3>1 DEF Order
    <3>4. OwnerOK(q)'
      BY <1>7, <3>1, <3>3 DEF OwnerOK
    <3>. QED
      BY <3>2, <3>4
  <2>2. OwnerOK(r)'
    BY <1>7, <1>8, <1>9 DEF OwnerOK
  <2>3. \A i \in 1..Len(records) : RecordOK(i)'
    <3>. TAKE i \in 1..Len(records)
    <3>1. records[i] \in Record /\ RecordOK(i) /\ records'[i] = records[i] /\ i # 0
      BY <1>7 DEF CexInv
    <3>2. records[i].by # None => records[i].by \in Requests \ {r}
      BY <1>3, <3>1 DEF Record, RecordOK
    <3>. QED
      BY <1>6, <1>9, <3>1, <3>2 DEF RecordOK, OnBinance
  <2>4. \A i \in {n} : RecordOK(i)'
    <3>1. rec.kind = "swap" => OnBinance
      BY <1>3
    <3>. QED
      BY <1>6, <1>7, <1>8, <1>9, <3>1, OrderIsSome DEF RecordOK, OnBinance
  <2>. QED
    BY <1>7, <1>10, <2>1, <2>2, <2>3, <2>4 DEF Book
<1>12. Addressed'
  <2>1. Moves(r) /\ Settled(r)
    BY <1>1, <1>6, <1>8, <1>9 DEF Moves, Settled
  <2>. QED
    BY <1>6, <2>1, AddressedKept, InvParts
<1>13. Told'
  BY <1>5, <1>6, ToldLonger
<1>14. CexTypeOK'
  BY <1>6, <1>7, <1>9 DEF CexInv, CexTypeOK, Record, Code, OnKucoin
<1>15. RefusedOK'
  BY <1>6 DEF CexInv, RefusedOK
<1>. QED
  BY <1>11, <1>12, <1>13, <1>14, <1>15, InvPartsNext

(* The orders of the requests stay as they are.                                *)
LEMMA OrdersKept ==
  ASSUME CexInv, order' = order, exchange' = exchange
  PROVE  \A r \in Requests : (order[r] # None)' => OrderOK(order[r])'
BY DEF CexInv, OrderOK, StageOK, AcceptedOK, HasTerms, ReplyOK, OnBinance, OnKucoin

LEMMA AddressesKept ==
  ASSUME CexInv, order' = order, addresses' = addresses,
         told'.raced = told.raced, told'.address = told.address
  PROVE  Addressed'
BY DEF CexInv, Addressed, AddressOK, At

LEMMA DepositKeeps ==
  ASSUME CexInv, NEW c \in Coins, Deposit(c)
  PROVE  CexInv'
<1>. DEFINE rec == [kind |-> "deposit", by |-> None, coin |-> c, amount |-> 0, fee |-> 0,
                    code |-> UnderWay("deposit"), info |-> FALSE]
<1>1. rec \in Record
  BY DEF Record, UnderWay, Code
<1>2. /\ records' = Append(records, rec) /\ Len(records) < MaxRecords
      /\ UNCHANGED <<exchange, terms, addresses, order, told, refused>>
  BY DEF Deposit, StayTold
<1>3. /\ Len(records) \in Nat /\ Len(records') = Len(records) + 1
      /\ records' \in Seq(Record) /\ Len(records') <= MaxRecords
      /\ records'[Len(records) + 1] = rec
      /\ \A i \in 1..Len(records) : records'[i] = records[i]
  BY <1>1, <1>2, Longer
<1>4. Book'
  <2>1. \A r \in Requests : OwnerOK(r)'
    <3>. TAKE r \in Requests
    <3>1. order[r] # None => order[r].record \in Nat /\ OwnerOK(r)
      BY InProgress DEF Order
    <3>. QED
      BY <1>2, <1>3, <3>1 DEF OwnerOK
  <2>2. \A i \in 1..Len(records) : RecordOK(i)'
    BY <1>2, <1>3 DEF CexInv, RecordOK, OnBinance
  <2>3. \A i \in {Len(records) + 1} : RecordOK(i)'
    BY <1>3 DEF RecordOK
  <2>. QED
    BY <1>2, <1>3, <2>1, <2>2, <2>3, OrdersKept DEF Book
<1>5. CexTypeOK'
  BY <1>2, <1>3 DEF CexInv, CexTypeOK, Record, Code, OnKucoin
<1>6. RefusedOK'
  BY <1>2 DEF CexInv, RefusedOK
<1>. QED
  BY <1>1, <1>2, <1>4, <1>5, <1>6, ToldLonger, AddressesKept, InvPartsNext

(* Only what is under way is settled: what was told of an order stands.        *)
LEMMA SettleKeeps ==
  ASSUME CexInv, NEW i \in 1..MaxRecords, Settle(i)
  PROVE  CexInv'
<1>1. PICK code \in Codes(records[i].kind), info \in BOOLEAN :
        records' = [records EXCEPT ![i].code = code, ![i].info = info]
  BY DEF Settle, Explained
<1>2. /\ i \in 1..Len(records) /\ Meaning(records[i].kind, records[i].code) = "PROCESSING"
      /\ UNCHANGED <<exchange, terms, addresses, order, told, refused>>
  BY DEF Settle, StayTold
<1>3. records \in Seq(Record) /\ Len(records) \in Nat /\ Len(records) <= MaxRecords
  BY DEF CexInv, CexTypeOK
<1>4. code \in Code
  BY <1>1 DEF Codes, Code, Success, Failure, Dropped
<1>. DEFINE rec == [records[i] EXCEPT !.code = code, !.info = info]
<1>5. records[i] \in Record
  BY <1>2, <1>3
<1>6. /\ rec \in Record /\ rec.by = records[i].by /\ rec.kind = records[i].kind
      /\ rec.amount = records[i].amount /\ rec.coin = records[i].coin
  BY <1>4, <1>5 DEF Record
<1>7. /\ records' \in Seq(Record) /\ Len(records') = Len(records) /\ records'[i] = rec
      /\ \A j \in 1..Len(records) : j # i => records'[j] = records[j]
  <2>1. records' = [records EXCEPT ![i] = rec]
    BY <1>1, <1>2, <1>3, <1>5 DEF Record
  <2>. HIDE DEF rec
  <2>. QED
    BY <1>2, <1>3, <1>6, <2>1
<1>8. \A j \in 1..Len(records) :
        /\ records'[j].by = records[j].by /\ records'[j].kind = records[j].kind
        /\ records'[j].amount = records[j].amount /\ records'[j].coin = records[j].coin
  BY <1>6, <1>7
<1>9. Book'
  <2>1. \A r \in Requests : OwnerOK(r)'
    <3>. TAKE r \in Requests
    <3>1. order[r] # None => order[r].record \in Nat /\ OwnerOK(r)
      BY InProgress DEF Order
    <3>. QED
      BY <1>2, <1>3, <1>7, <1>8, <3>1 DEF OwnerOK
  <2>2. \A j \in 1..Len(records) : RecordOK(j)'
    BY <1>2, <1>8 DEF CexInv, RecordOK, OnBinance
  <2>. QED
    BY <1>2, <1>7, <2>1, <2>2, OrdersKept DEF Book
<1>10. Told'
  <2>. SUFFICES ASSUME NEW j \in 1..MaxRecords PROVE ToldOK(j)'
    BY DEF Told
  <2>1. ToldOK(j) /\ ToldOK(i)
    BY DEF CexInv
  <2>2. CASE j = i
    BY <1>2, <2>1, <2>2 DEF ToldOK
  <2>3. CASE j # i /\ j \in 1..Len(records)
    BY <1>2, <1>7, <2>1, <2>3 DEF ToldOK, Meaning, OnKucoin
  <2>4. CASE j \notin 1..Len(records)
    BY <1>2, <1>3, <1>7, <2>1, <2>4, CexAssumption DEF ToldOK, CexAssumption
  <2>. QED
    BY <2>2, <2>3, <2>4
<1>11. CexTypeOK'
  BY <1>2, <1>3, <1>7 DEF CexInv, CexTypeOK, Record, Code, OnKucoin
<1>12. RefusedOK'
  BY <1>2 DEF CexInv, RefusedOK
<1>. QED
  BY <1>2, <1>9, <1>10, <1>11, <1>12, AddressesKept, InvPartsNext

(* Every route reads the exchange's codes the way the exchange means them.     *)
LEMMA FlagsMean ==
  /\ \A a, b \in BOOLEAN : /\ Flags(a, b) \in {"pending", "executed", "error"}
                           /\ Flags(a, b) = "executed" => a
                           /\ Flags(a, b) = "error" => b
BY DEF Flags

LEMMA PollTells ==
  ASSUME CexInv, NEW i \in 1..MaxRecords, Poll(i)
  PROVE  /\ i \in 1..Len(records)
         /\ told'.status[i] \in {"pending", "executed", "error"}
         /\ told'.status[i] = "executed" => Meaning(records[i].kind, records[i].code) = "SUCCESS"
         /\ told'.status[i] = "error" => Meaning(records[i].kind, records[i].code) = "FAILURE"
<1>1. i \in 1..Len(records)
  BY DEF Poll
<1>2. records[i] \in Record /\ (records[i].kind = "swap" => OnBinance)
  BY <1>1 DEF CexInv, CexTypeOK, RecordOK
<1>. DEFINE code == records[i].code
            kind == records[i].kind
            said == IF kind = "swap" THEN BinanceSwapStatus(code)
                    ELSE IF OnBinance THEN IF kind = "withdraw" THEN BinanceWithdrawStatus(code, records[i].info)
                                           ELSE BinanceDepositStatus(code)
                    ELSE IF kind = "withdraw" THEN KucoinWithdrawStatus(code)
                         ELSE KucoinDepositStatus(code)
<1>3. told'.status[i] = said
  BY DEF Poll, CexInv, CexTypeOK
<1>4. exchange \in {"binance", "kucoin"}
  BY DEF CexInv, CexTypeOK, Exchanges
<1>5. CASE OnBinance
  <2>1. code \in 0..7 /\ kind \in {"withdraw", "swap", "deposit"} /\ ~OnKucoin
    BY <1>2, <1>5 DEF Record, Code, OnBinance, OnKucoin
  <2>2. CASE kind = "withdraw"
    <3>1. told'.status[i] = BinanceWithdrawStatus(code, records[i].info)
      BY <1>3, <1>5, <2>2
    <3>2. Success(kind) = 6 /\ Failure(kind) = 5
      BY <2>2 DEF Success, Failure
    <3>3. /\ code = 6 => Meaning(kind, code) = "SUCCESS"
          /\ code = 5 => Meaning(kind, code) = "FAILURE"
      BY <2>1, <3>2 DEF Meaning
    <3>. QED
      BY <1>1, <1>2, <3>1, <3>3, FlagsMean DEF BinanceWithdrawStatus, Record
  <2>3. CASE kind = "swap"
    <3>1. told'.status[i] = BinanceSwapStatus(code)
      BY <1>3, <1>5, <2>3
    <3>2. Success(kind) = 1 /\ Failure(kind) = 2
      BY <2>3 DEF Success, Failure
    <3>3. /\ code = 1 => Meaning(kind, code) = "SUCCESS"
          /\ code = 2 => Meaning(kind, code) = "FAILURE"
      BY <2>1, <3>2 DEF Meaning
    <3>. QED
      BY <1>1, <3>1, <3>3, FlagsMean DEF BinanceSwapStatus
  <2>4. CASE kind = "deposit"
    <3>1. told'.status[i] = BinanceDepositStatus(code)
      BY <1>3, <1>5, <2>4
    <3>2. Success(kind) = 1 /\ Failure(kind) = 7
      BY <2>4 DEF Success, Failure
    <3>3. /\ code = 1 => Meaning(kind, code) = "SUCCESS"
          /\ code = 7 => Meaning(kind, code) = "FAILURE"
      BY <2>1, <3>2 DEF Meaning
    <3>. QED
      BY <1>1, <3>1, <3>3 DEF BinanceDepositStatus, Flags
  <2>. QED
    BY <1>1, <1>3, <2>1, <2>2, <2>3, <2>4
<1>6. CASE ~OnBinance
  <2>1. OnKucoin /\ kind \in {"withdraw", "deposit"}
    BY <1>2, <1>4, <1>6 DEF Record, OnBinance, OnKucoin
  <2>. QED
    BY <1>1, <1>3, <1>6, <2>1 DEF KucoinWithdrawStatus, KucoinDepositStatus, Flags, Meaning
<1>. QED
  BY <1>5, <1>6

LEMMA PollKeeps ==
  ASSUME CexInv, NEW i \in 1..MaxRecords, Poll(i)
  PROVE  CexInv'
<1>1. /\ UNCHANGED <<exchange, terms, records, addresses, order, refused>>
      /\ told'.raced = told.raced /\ told'.address = told.address
      /\ \A j \in 1..MaxRecords : j # i => told'.status[j] = told.status[j]
  BY DEF Poll, StayExternal, CexInv, CexTypeOK
<1>2. told' \in [status : [1..MaxRecords -> {"none", "pending", "executed", "error"}],
                 address : [Coins -> Nat], raced : [Coins -> BOOLEAN]]
  <2>1. PICK s : told' = [told EXCEPT !.status[i] = s]
    BY DEF Poll
  <2>2. s \in {"none", "pending", "executed", "error"}
    BY <2>1, PollTells DEF CexInv, CexTypeOK
  <2>. QED
    BY <2>1, <2>2 DEF CexInv, CexTypeOK
<1>3. Told'
  <2>. SUFFICES ASSUME NEW j \in 1..MaxRecords PROVE ToldOK(j)'
    BY DEF Told
  <2>1. CASE j = i
    BY <1>1, <2>1, PollTells DEF ToldOK, Meaning, OnKucoin
  <2>2. CASE j # i
    BY <1>1, <2>2 DEF CexInv, ToldOK, Meaning, OnKucoin
  <2>. QED
    BY <2>1, <2>2
<1>4. Book'
  BY <1>1, OrdersKept DEF CexInv, Book, OwnerOK, RecordOK, OnBinance
<1>5. CexTypeOK'
  BY <1>1, <1>2 DEF CexInv, CexTypeOK, Record, Code, OnKucoin
<1>6. RefusedOK'
  BY <1>1 DEF CexInv, RefusedOK
<1>. QED
  BY <1>1, <1>3, <1>4, <1>5, <1>6, AddressesKept, InvPartsNext

LEMMA StillKeeps ==
  ASSUME CexInv, UNCHANGED <<exchange, records, addresses, order, told, refused>>,
         terms' \in TermsIn
  PROVE  CexInv'
<1>1. Told'
  BY DEF CexInv, Told, ToldOK, Meaning, OnKucoin
<1>2. Book'
  BY OrdersKept DEF CexInv, Book, OwnerOK, RecordOK, OnBinance
<1>3. CexTypeOK'
  BY DEF CexInv, CexTypeOK, Record, Code, OnKucoin
<1>4. RefusedOK'
  BY DEF CexInv, RefusedOK
<1>. QED
  BY <1>1, <1>2, <1>3, <1>4, AddressesKept, InvPartsNext

-------------------------------------------------------------------------------
(* The theorems.                                                               *)

LEMMA HandleKeeps ==
  ASSUME CexInv, NEW r \in Requests, Handle(r)
  PROVE  CexInv'
<1>1. CASE \/ BinanceQuote(r) \/ KucoinQuote(r) \/ KucoinQuoteFindsCoin(r)
           \/ KucoinQuoteAnswers(r) \/ ExchangeRefuses(r) \/ KucoinListsAfter(r)
           \/ NoDestination(r) \/ BinanceKeepsChains(r) \/ BinancePricesAsset(r)
           \/ ListAnswers(r) \/ KucoinNextAsset(r) \/ KucoinPricesAsset(r) \/ Fails(r)
  BY <1>1, QuietKeeps, BinanceQuoteQuiet, KucoinQuoteQuiet, KucoinQuoteFindsCoinQuiet,
     KucoinQuoteAnswersQuiet, ExchangeRefusesQuiet, KucoinListsAfterQuiet, NoDestinationQuiet,
     BinanceKeepsChainsQuiet, BinancePricesAssetQuiet, ListAnswersQuiet, KucoinNextAssetQuiet,
     KucoinPricesAssetQuiet, FailsQuiet
<1>2. CASE ExchangeMakes(r) \/ FetchAddress(r) \/ CreateAddress(r)
  BY <1>2, MakesKeeps, FetchKeeps, CreateKeeps
<1>3. CASE KucoinAddress(r) \/ KucoinDestination(r) \/ BinanceAddress(r) \/ BinanceDestination(r)
  BY <1>3, TellingKeeps
<1>. QED
  BY <1>1, <1>2, <1>3 DEF Handle

LEMMA NextKeeps == ASSUME CexInv, [CexNext]_cexVars PROVE CexInv'
<1>1. ASSUME NEW r \in Requests, Handle(r) PROVE CexInv'
  BY <1>1, HandleKeeps
<1>2. ASSUME NEW r \in Requests, NEW kind \in Kinds,
             NEW c \in IF kind = "assets" THEN {NativeCoin} ELSE Coins,
             NEW amount \in IF kind \in Trades THEN Amounts ELSE {0},
             NEW chain \in IF kind \in {"swap", "assets"} THEN {"eth"} ELSE Chains,
             NEW exclude \in IF kind = "destination" THEN Exclusions ELSE {"none"},
             NEW holds \in IF kind = "assets" THEN SUBSET Coins ELSE {{}},
             Ask(r, kind, c, amount, chain, exclude, holds)
      PROVE  CexInv'
  <2>1. c \in Coins /\ amount \in Amounts \union {0}
    BY CexAssumption DEF CexAssumption
  <2>2. chain \in Chains /\ exclude \in Exclusions /\ holds \in SUBSET Coins
    BY DEF Chains, Exclusions
  <2>. QED
    BY <1>2, <2>1, <2>2, AskQuiet, QuietKeeps
<1>3. ASSUME NEW i \in 1..MaxRecords, Poll(i) \/ Settle(i) PROVE CexInv'
  BY <1>3, PollKeeps, SettleKeeps
<1>4. ASSUME NEW c \in Coins, Deposit(c) PROVE CexInv'
  BY <1>4, DepositKeeps
<1>5. ASSUME TermsMove PROVE CexInv'
  BY <1>5, StillKeeps, CexAssumption DEF TermsMove, StayTold, CexAssumption
<1>6. ASSUME UNCHANGED cexVars PROVE CexInv'
  BY <1>6, StillKeeps DEF cexVars, CexInv, CexTypeOK
<1>. QED
  BY <1>1, <1>2, <1>3, <1>4, <1>5, <1>6 DEF CexNext

LEMMA InitHolds == ASSUME CexInit PROVE CexInv
<1>1. /\ records = <<>> /\ Len(records) = 0 /\ records \in Seq(Record) /\ MaxRecords \in Nat
  BY CexAssumption DEF CexInit, CexAssumption
<1>2. order \in [Requests -> Order \union {None}] /\ \A r \in Requests : order[r] = None
  BY DEF CexInit
<1>3. /\ told \in [status : [1..MaxRecords -> {"none", "pending", "executed", "error"}],
                   address : [Coins -> Nat], raced : [Coins -> BOOLEAN]]
      /\ \A i \in 1..MaxRecords : told.status[i] = "none"
      /\ \A c \in Coins : told.address[c] = 0
  BY DEF CexInit
<1>4. addresses \in [Coins -> Nat] /\ \A c \in Coins : addresses[c] = 0
  BY DEF CexInit
<1>5. exchange \in Exchanges /\ terms \in TermsIn /\ refused = {}
  BY CexAssumption DEF CexInit, CexAssumption
<1>6. CexTypeOK /\ RefusedOK
  BY <1>1, <1>2, <1>3, <1>4, <1>5 DEF CexTypeOK, RefusedOK
<1>7. \A i \in 1..MaxRecords : ToldOK(i)
  BY <1>3 DEF ToldOK
<1>8. \A c \in Coins : AddressOK(c)
  BY <1>2, <1>3, <1>4 DEF AddressOK
<1>. QED
  BY <1>1, <1>2, <1>6, <1>7, <1>8 DEF CexInv

(* Whatever requests there are and however the exchange moves, every request   *)
(* keeps the types of its state and of its answer (the requests and the        *)
(* controllers of src/src/modules/payable-cex-binance and -kucoin).            *)
THEOREM CexInvariant == CexSpec => []CexInv
<1>1. CexInit => CexInv
  BY InitHolds
<1>2. CexInv /\ [CexNext]_cexVars => CexInv'
  BY NextKeeps
<1>. QED
  BY <1>1, <1>2, PTL DEF CexSpec

LEMMA AnswersFollow == ASSUME CexInv PROVE AnswersTellWhatWasMade
<1>. SUFFICES ASSUME NEW r \in Requests, Answered(r), Is(r, {"call", "swap"})
     PROVE  /\ \A i \in MadeBy(r) : /\ i = order[r].record
                                    /\ records[i].amount = order[r].amount
                                    /\ records[i].coin = order[r].coin
            /\ order[r].reply \in {"ok", "unlisted", "lost"} => MadeBy(r) # {}
            /\ order[r].reply = "refused" => MadeBy(r) = {}
            /\ order[r].reply = "error" /\ MadeBy(r) # {} => OnKucoin
            /\ OnBinance /\ Is(r, {"call"}) /\ MadeBy(r) # {} =>
                 order[r].seen # None /\ ~BinanceRefuses(order[r].seen, order[r].amount)
  BY DEF AnswersTellWhatWasMade
<1>1. /\ order[r] # None /\ order[r].at = "answered" /\ order[r].kind \in {"call", "swap"}
      /\ order[r] \in Order /\ OrderOK(order[r]) /\ OwnerOK(r)
  BY InProgress DEF Answered, Is
<1>2. \A i \in MadeBy(r) : /\ i = order[r].record /\ i \in 1..Len(records)
                           /\ records[i].amount = order[r].amount
                           /\ records[i].coin = order[r].coin
  BY CexAssumption DEF MadeBy, CexInv, RecordOK, CexAssumption
<1>3. order[r].record \in Nat /\ (order[r].record # 0 => order[r].record \in MadeBy(r))
  BY <1>1 DEF Order, OwnerOK, MadeBy, CexInv, CexTypeOK
<1>4. MadeBy(r) # {} => order[r].record # 0
  BY <1>2
<1>5. None \notin TermsIn
  BY CexAssumption DEF CexAssumption
<1>. QED
  BY <1>1, <1>2, <1>3, <1>4, <1>5 DEF OrderOK, ReplyOK, AcceptedOK, HasTerms, Is

LEMMA QuotesFollow == ASSUME CexInv PROVE QuotesHold
<1>. SUFFICES ASSUME NEW r \in Requests, Answered(r), Is(r, {"quote"}), order[r].reply = "ok"
     PROVE  /\ \A i \in 1..Len(records) :
                  records[i].kind = "withdraw" /\ records[i].coin = order[r].coin
                  /\ records[i].amount = order[r].amount /\ records[i].fee = order[r].seen.fee
                  => order[r].quoted = records[i].amount - records[i].fee
            /\ \A f \in refused :
                  f.amount = order[r].amount /\ f.terms = order[r].seen /\ f.byTerms
                  => order[r].amount > order[r].seen.limit
  BY DEF QuotesHold
<1>1. order[r] # None /\ order[r] \in Order /\ OrderOK(order[r])
  BY InProgress DEF Answered
<1>2. /\ order[r].seen \in TermsIn /\ ~BinanceRefuses(order[r].seen, order[r].amount)
      /\ order[r].quoted = order[r].amount - order[r].seen.fee
  BY <1>1 DEF OrderOK, AcceptedOK, HasTerms, Answered, Is
<1>3. order[r].amount \in Nat /\ order[r].seen.min \in Nat /\ order[r].seen.limit \in Nat
  BY <1>1, <1>2, Numbers
<1>4. ASSUME NEW f \in refused, f.amount = order[r].amount, f.terms = order[r].seen, f.byTerms
      PROVE  order[r].amount > order[r].seen.limit
  <2>1. ~(order[r].seen.enabled /\ order[r].seen.min <= order[r].amount
                                /\ order[r].amount <= order[r].seen.limit)
    BY <1>4 DEF CexInv, RefusedOK
  <2>. QED
    BY <1>2, <1>3, <2>1 DEF BinanceRefuses
<1>. QED
  BY <1>2, <1>4

(* What the client of an exchange may conclude from an answer holds for any    *)
(* number of requests: a refused withdrawal was not made, an answered one was  *)
(* made once and as asked, a failed one was made only if the answer was lost   *)
(* or KuCoin's list could not be read, and a quote holds for its own terms.    *)
THEOREM CexWordKept == CexSpec => []CexKeepsItsWord
<1>1. CexInv => CexKeepsItsWord
  BY AnswersFollow, QuotesFollow DEF CexKeepsItsWord
<1>. QED
  BY <1>1, CexInvariant, PTL

(* A step leaves the records that a final status was told of.                  *)
FinalStays == \A i \in 1..MaxRecords :
                told'.status[i] \in {"executed", "error"} => records[i] = records'[i]
(* A step tells an address, if any, where it tells one anew.                   *)
AddressStays == \/ told'.address = told.address
                \/ /\ told'.raced = told.raced
                   /\ \A c \in Coins : told'.address[c] \in {0, told.address[c]} =>
                                          told'.address[c] = told.address[c]

LEMMA LongerStays ==
  ASSUME CexInv, NEW rec, records' = Append(records, rec), told' = told
  PROVE  FinalStays
<1>. SUFFICES ASSUME NEW i \in 1..MaxRecords, told.status[i] \in {"executed", "error"}
              PROVE  records[i] = records'[i]
  BY DEF FinalStays
<1>1. i \in 1..Len(records)
  BY DEF CexInv, ToldOK, CexTypeOK
<1>2. records \in Seq(Record)
  BY DEF CexInv, CexTypeOK
<1>. QED
  BY <1>1, <1>2

LEMMA HandleStays ==
  ASSUME CexInv, NEW r \in Requests, Handle(r)
  PROVE  exchange' = exchange /\ FinalStays /\ AddressStays
<1>1. CASE UNCHANGED <<exchange, records, told>>
  BY <1>1 DEF FinalStays, AddressStays
<1>2. CASE ExchangeMakes(r)
  BY <1>2, LongerStays DEF ExchangeMakes, AddressStays, StayTold
<1>3. CASE FetchAddress(r)
  BY <1>3 DEF FetchAddress, FinalStays, AddressStays, StayExternal, CexInv, CexTypeOK
<1>4. CASE /\ Tell(r, "kucoin") /\ order[r] # None /\ order[r].address # 0 /\ StayExternal
  <2>1. order[r] \in Order /\ order[r].coin \in Coins
    BY <1>4, InProgress DEF Order
  <2>2. /\ told'.raced = told.raced
        /\ \A c \in Coins : told'.address[c] = IF c = order[r].coin THEN order[r].address
                                               ELSE told.address[c]
    BY <1>4, <2>1 DEF Tell, CexInv, CexTypeOK
  <2>. QED
    BY <1>4, <2>2 DEF FinalStays, AddressStays, StayExternal
<1>5. CASE BinanceReads(r) /\ order[r] # None
  <2>1. order[r] \in Order /\ order[r].coin \in Coins
    BY <1>5, InProgress DEF Order
  <2>2. /\ told'.raced = told.raced
        /\ \A c \in Coins : told'.address[c] = IF c = order[r].coin THEN 1 ELSE told.address[c]
    BY <1>5, <2>1 DEF BinanceReads, CexInv, CexTypeOK
  <2>. QED
    BY <1>5, <2>2 DEF BinanceReads, FinalStays, AddressStays
<1>6. CASE \/ KucoinAddress(r) \/ BinanceAddress(r) \/ BinanceDestination(r)
           \/ KucoinDestination(r)
  BY <1>1, <1>4, <1>5, <1>6 DEF KucoinAddress, BinanceAddress, BinanceDestination,
     KucoinDestination, At, StayExternal, StayTold
<1>7. CASE \/ BinanceQuote(r) \/ KucoinQuote(r) \/ KucoinQuoteFindsCoin(r)
           \/ KucoinQuoteAnswers(r) \/ ExchangeRefuses(r) \/ KucoinListsAfter(r)
           \/ CreateAddress(r)
  BY <1>1, <1>7 DEF BinanceQuote, KucoinQuote, KucoinQuoteFindsCoin, KucoinQuoteAnswers,
     ExchangeRefuses, KucoinListsAfter, CreateAddress, StayExternal, StayTold
<1>8. CASE \/ NoDestination(r) \/ BinanceKeepsChains(r) \/ BinancePricesAsset(r)
           \/ ListAnswers(r) \/ KucoinNextAsset(r) \/ KucoinPricesAsset(r) \/ Fails(r)
  BY <1>1, <1>8 DEF NoDestination, BinanceKeepsChains, BinancePricesAsset, ListAnswers,
     KucoinNextAsset, KucoinPricesAsset, Fails, StayExternal, StayTold
<1>. QED
  BY <1>2, <1>3, <1>6, <1>7, <1>8 DEF Handle

LEMMA StepStays ==
  ASSUME CexInv, [CexNext]_cexVars
  PROVE  exchange' = exchange /\ FinalStays /\ AddressStays
<1>1. CASE UNCHANGED <<exchange, records, told>>
  BY <1>1 DEF FinalStays, AddressStays
<1>2. ASSUME NEW r \in Requests, Handle(r)
      PROVE  exchange' = exchange /\ FinalStays /\ AddressStays
  BY <1>2, HandleStays
<1>3. ASSUME NEW i \in 1..MaxRecords, Poll(i)
      PROVE  exchange' = exchange /\ FinalStays /\ AddressStays
  BY <1>3 DEF Poll, StayExternal, FinalStays, AddressStays, CexInv, CexTypeOK
<1>4. ASSUME NEW i \in 1..MaxRecords, Settle(i)
      PROVE  exchange' = exchange /\ FinalStays /\ AddressStays
  <2>1. /\ told' = told /\ exchange' = exchange /\ told.status[i] \notin {"executed", "error"}
        /\ \A j \in 1..MaxRecords : j # i => records'[j] = records[j]
    <3>1. ToldOK(i) /\ records \in Seq(Record)
      BY DEF CexInv, CexTypeOK
    <3>2. Meaning(records[i].kind, records[i].code) = "PROCESSING"
      BY <1>4 DEF Settle
    <3>3. told' = told /\ exchange' = exchange
      BY <1>4 DEF Settle, StayTold
    <3>4. PICK code, info : records' = [records EXCEPT ![i].code = code, ![i].info = info]
      BY <1>4 DEF Settle
    <3>5. \A j \in 1..MaxRecords : j # i => records'[j] = records[j]
      <4>1. i \in 1..Len(records)
        BY <1>4 DEF Settle
      <4>2. records[i] \in Record
        BY <3>1, <4>1
      <4>. DEFINE rec == [records[i] EXCEPT !.code = code, !.info = info]
      <4>3. records' = [records EXCEPT ![i] = rec]
        BY <3>1, <3>4, <4>1, <4>2 DEF Record
      <4>. HIDE DEF rec
      <4>. QED
        BY <3>1, <4>3
    <3>6. told.status[i] \notin {"executed", "error"}
      BY <3>1, <3>2 DEF ToldOK
    <3>. QED
      BY <3>3, <3>5, <3>6
  <2>. QED
    BY <2>1 DEF FinalStays, AddressStays
<1>5. ASSUME NEW c \in Coins, Deposit(c)
      PROVE  exchange' = exchange /\ FinalStays /\ AddressStays
  BY <1>5, LongerStays DEF Deposit, AddressStays, StayTold
<1>. QED
  BY <1>1, <1>2, <1>3, <1>4, <1>5 DEF CexNext, TermsMove, Ask, StayExternal, StayTold, cexVars

(* What a client was told of an order or of an address is never taken back, for *)
(* any number of requests, unless two of them raced to make the address (the   *)
(* status routes, and KuCoin's getDepositRoute).                               *)
THEOREM CexToldStays == CexSpec => WhatIsToldStays
<1>. DEFINE Stays == /\ \A i \in 1..MaxRecords :
                          told'.status[i] \in {"executed", "error"} =>
                            /\ Meaning(records'[i].kind, records'[i].code) =
                                 IF told'.status[i] = "executed" THEN "SUCCESS" ELSE "FAILURE"
                            /\ records[i] = records'[i]
                     /\ \A c \in Coins : told.address[c] # 0 =>
                          \/ told'.address[c] = told.address[c]
                          \/ told.raced[c]
<1>1. ASSUME CexInv, CexInv', [CexNext]_cexVars PROVE Stays
  <2>1. exchange' = exchange /\ FinalStays /\ AddressStays
    BY <1>1, StepStays
  <2>2. ASSUME NEW i \in 1..MaxRecords, told'.status[i] \in {"executed", "error"}
        PROVE  /\ Meaning(records'[i].kind, records'[i].code) =
                     IF told'.status[i] = "executed" THEN "SUCCESS" ELSE "FAILURE"
               /\ records[i] = records'[i]
    <3>1. ToldOK(i)'
      BY <1>1 DEF CexInv
    <3>. QED
      BY <2>1, <2>2, <3>1 DEF ToldOK, FinalStays, Meaning, OnKucoin
  <2>3. ASSUME NEW c \in Coins, told.address[c] # 0, ~told.raced[c]
        PROVE  told'.address[c] = told.address[c]
    <3>1. told.address[c] \in Nat /\ told.address[c] <= 1
      BY <1>1, <2>3 DEF CexInv, CexTypeOK, AddressOK
    <3>2. CASE told'.raced = told.raced
      <4>1. told'.address[c] \in Nat /\ told'.address[c] <= 1
        BY <1>1, <2>3, <3>2 DEF CexInv, CexTypeOK, AddressOK
      <4>. QED
        BY <2>1, <2>3, <3>1, <4>1 DEF AddressStays
    <3>. QED
      BY <2>1, <3>2 DEF AddressStays
  <2>. QED
    BY <2>2, <2>3
<1>2. CexInv /\ CexInv' /\ [CexNext]_cexVars => [Stays]_cexVars
  BY <1>1
<1>. QED
  BY <1>2, CexInvariant, PTL DEF CexSpec, WhatIsToldStays
===============================================================================
