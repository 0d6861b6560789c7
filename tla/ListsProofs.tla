------------------------------ MODULE ListsProofs ------------------------------
(* Proofs about what a client looks at: Offers, Charts and Lists, for any      *)
(* services, coins, rows, calendars and numbers of changes of the tables.      *)
EXTENDS Lists, Offers, Charts, FiniteSetTheorems, WellFoundedInduction, TLAPS

-------------------------------------------------------------------------------
(* Offers. What the visit has found, and what the tables were meanwhile.       *)

Stages == {"begin", "services", "stables", "offered", "chosen", "ids",
           "answered", "notFound"}
Visited == [via : Via, asked : Coins, spelled : {"lower", "mixed"}, at : Stages,
            services : SUBSET Services, offered : SUBSET Coins, chosen : Coins \union {Nothing},
            ids : SUBSET (Coins \union {Nothing}), answer : SUBSET Services,
            kept : SUBSET (Services \X Coins), ever : SUBSET (Services \X Coins),
            relists : Nat, ceased : BOOLEAN]

OfferTypeOK == supported \subseteq Services \X Coins /\ offer \in Visited

FitsFor(s, c) == IF offer.asked.chain = c.chain THEN s \in CanSingle ELSE s \in CanMulti

(* Somebody exchanges the asked coin for c.                                    *)
Taker(c) == \E s \in Services :
  Supports(s, c) /\ (offer.via # "ramps" => Supports(s, offer.asked) /\ FitsFor(s, c))

Tables == offer.kept \subseteq supported /\ supported \subseteq offer.ever

(* Unless a coin was withdrawn meanwhile, what was found is still so.          *)
FoundOK ==
  /\ offer.at = "services" => offer.via = "services"
  /\ offer.at = "stables" => offer.via = "stables"
  /\ ~offer.ceased =>
       /\ offer.at = "services" => \A s \in offer.services : Supports(s, offer.asked)
       /\ offer.at = "stables" => Supports(ZeroX, offer.asked)
       /\ offer.at \in {"offered", "chosen", "ids"} => \A c \in offer.offered : Taker(c)

ChosenOK ==
  /\ offer.at \in {"chosen", "ids", "answered"} => offer.chosen \in offer.offered
  /\ offer.via # "ramps" => offer.asked \notin offer.offered
  /\ offer.at = "ids" =>
       /\ offer.via # "ramps"
       /\ offer.ids = {offer.chosen} \union (IF offer.spelled = "lower" THEN {offer.asked} ELSE {})
  /\ offer.spelled = "mixed" => offer.via = "stables"

AnswerOK ==
  offer.at = "answered" =>
    /\ \A s \in Services : Serves(s, offer.kept) => s \in offer.answer
    /\ ~offer.ceased => offer.answer # {}
    /\ offer.spelled = "lower" => \A s \in offer.answer : Serves(s, offer.ever)

OfferInv == OfferTypeOK /\ Tables /\ FoundOK /\ ChosenOK /\ AnswerOK

LEMMA OfferInvNext ==
  ASSUME OfferTypeOK', Tables', FoundOK', ChosenOK', AnswerOK' PROVE OfferInv'
BY DEF OfferInv

LEMMA OfferInitHolds == ASSUME OfferInit PROVE OfferInv
<1>1. supported \subseteq Services \X Coins
  BY OffersAssumption DEF OfferInit, OffersAssumption
<1>2. PICK via \in Via, c \in Coins, spelled \in {"lower", "mixed"} :
        /\ via # "stables" => spelled = "lower"
        /\ offer = [via |-> via, asked |-> c, spelled |-> spelled, at |-> "begin",
                    services |-> {}, offered |-> {}, chosen |-> Nothing, ids |-> {},
                    answer |-> {}, kept |-> supported, ever |-> supported,
                    relists |-> 0, ceased |-> FALSE]
  BY DEF OfferInit
<1>3. OfferTypeOK
  BY <1>1, <1>2 DEF OfferTypeOK, Visited, Stages
<1>. QED
  BY <1>2, <1>3 DEF OfferInv, Tables, FoundOK, ChosenOK, AnswerOK

(* The steps that go on to a stage where nothing is answered yet.              *)
LEMMA GoesOn ==
  ASSUME OfferInv, supported' = supported, offer' \in Visited,
         offer'.kept = offer.kept, offer'.ever = offer.ever,
         offer'.at # "answered", FoundOK', ChosenOK'
  PROVE  OfferInv'
<1>1. OfferTypeOK' /\ Tables' /\ AnswerOK'
  BY DEF OfferInv, OfferTypeOK, Tables, AnswerOK
<1>. QED
  BY <1>1, OfferInvNext

LEMMA FindServicesKeeps == ASSUME OfferInv, FindServices PROVE OfferInv'
<1>. DEFINE found == {s \in Services : Supports(s, offer.asked)}
<1>1. offer \in Visited /\ supported' = supported /\ offer.via = "services"
  BY DEF FindServices, At, Move, Offer, OfferInv, OfferTypeOK
<1>2. CASE offer' = [offer EXCEPT !.at = "offered", !.offered = {}]
  <2>1. offer' \in Visited
    BY <1>1, <1>2 DEF Visited, Stages
  <2>2. FoundOK' /\ ChosenOK'
    BY <1>1, <1>2 DEF Visited, OfferInv, FoundOK, ChosenOK
  <2>. QED
    BY <1>1, <1>2, <2>1, <2>2, GoesOn DEF Visited
<1>3. CASE offer' = [offer EXCEPT !.at = "services", !.services = found]
  <2>1. offer' \in Visited
    BY <1>1, <1>3 DEF Visited, Stages
  <2>2. FoundOK' /\ ChosenOK'
    BY <1>1, <1>3 DEF Visited, OfferInv, FoundOK, ChosenOK, Supports
  <2>. QED
    BY <1>1, <1>3, <2>1, <2>2, GoesOn DEF Visited
<1>. QED
  BY <1>2, <1>3 DEF FindServices, Move, Offer

(* Coins are offered that somebody can take.                                   *)
LEMMA OfferKeeps ==
  ASSUME OfferInv, NEW coins \in SUBSET Coins, Offer(coins),
         ~offer.ceased => \A c \in coins : Taker(c),
         offer.via # "ramps" => offer.asked \notin coins
  PROVE  OfferInv'
<1>1. /\ offer \in Visited /\ supported' = supported
      /\ offer' = [offer EXCEPT !.at = "offered", !.offered = coins]
  BY DEF Offer, Move, OfferInv, OfferTypeOK
<1>2. offer' \in Visited
  BY <1>1 DEF Visited, Stages
<1>3. /\ offer'.at = "offered" /\ offer'.offered = coins /\ offer'.via = offer.via
      /\ offer'.asked = offer.asked /\ offer'.ceased = offer.ceased
      /\ offer'.spelled = offer.spelled /\ offer'.kept = offer.kept /\ offer'.ever = offer.ever
  BY <1>1 DEF Visited
<1>4. FoundOK'
  BY <1>1, <1>3 DEF FoundOK, Taker, FitsFor, Supports
<1>5. ChosenOK'
  BY <1>3 DEF OfferInv, ChosenOK
<1>. QED
  BY <1>1, <1>2, <1>3, <1>4, <1>5, GoesOn

LEMMA FindPairsKeeps == ASSUME OfferInv, FindPairs PROVE OfferInv'
<1>. DEFINE found == {c \in Coins : /\ c.chain \in UserChains /\ c # offer.asked
                                    /\ \E s \in offer.services : Reaches(s, c) /\ Supports(s, c)}
<1>1. PICK o \in OnePerAddress(found) : Offer(o)
  BY DEF FindPairs
<1>2. o \in SUBSET found
  BY DEF OnePerAddress
<1>3. offer \in Visited /\ offer.at = "services" /\ offer.services \subseteq Services
  BY DEF FindPairs, At, OfferInv, OfferTypeOK, Visited
<1>4. ASSUME ~offer.ceased, NEW c \in o PROVE Taker(c)
  <2>1. PICK s \in offer.services : Reaches(s, c) /\ Supports(s, c)
    BY <1>2
  <2>2. Supports(s, offer.asked)
    BY <1>3, <1>4 DEF OfferInv, FoundOK
  <2>3. FitsFor(s, c)
    BY <2>1 DEF Reaches, FitsFor
  <2>. QED
    BY <1>3, <2>1, <2>2, <2>3 DEF Taker
<1>. QED
  BY <1>1, <1>2, <1>4, OfferKeeps

LEMMA RefuseKeeps == ASSUME OfferInv, Refuse("notFound") PROVE OfferInv'
<1>1. offer \in Visited /\ supported' = supported /\ offer' = [offer EXCEPT !.at = "notFound"]
  BY DEF Refuse, Move, OfferInv, OfferTypeOK
<1>2. offer' \in Visited
  BY <1>1 DEF Visited, Stages
<1>3. FoundOK' /\ ChosenOK'
  BY <1>1 DEF Visited, OfferInv, FoundOK, ChosenOK
<1>. QED
  BY <1>1, <1>2, <1>3, GoesOn DEF Visited

LEMMA Check0xKeeps == ASSUME OfferInv, Check0x PROVE OfferInv'
<1>1. CASE Refuse("notFound")
  BY <1>1, RefuseKeeps
<1>2. CASE Supports(ZeroX, offer.asked) /\ Move([offer EXCEPT !.at = "stables"])
  <2>1. /\ offer \in Visited /\ supported' = supported /\ offer.via = "stables"
        /\ offer' = [offer EXCEPT !.at = "stables"]
    BY <1>2 DEF Check0x, At, Move, OfferInv, OfferTypeOK
  <2>2. offer' \in Visited
    BY <2>1 DEF Visited, Stages
  <2>3. FoundOK' /\ ChosenOK'
    BY <1>2, <2>1 DEF Visited, OfferInv, FoundOK, ChosenOK, Supports
  <2>. QED
    BY <2>1, <2>2, <2>3, GoesOn DEF Visited
<1>. QED
  BY <1>1, <1>2 DEF Check0x, Is0xSupported

LEMMA FindStablesKeeps == ASSUME OfferInv, FindStables PROVE OfferInv'
<1>. DEFINE found == {c \in Coins : /\ c.stable /\ c.chain = offer.asked.chain
                                    /\ Supports(ZeroX, c)}
<1>1. CASE Refuse("notFound")
  BY <1>1, RefuseKeeps
<1>2. CASE Offer(found \ {offer.asked})
  <2>1. ZeroX \in CanSingle /\ ZeroX \in Services
    BY OffersAssumption DEF OffersAssumption
  <2>2. ASSUME ~offer.ceased, NEW c \in found PROVE Taker(c)
    BY <2>1, <2>2 DEF FindStables, At, OfferInv, FoundOK, Taker, FitsFor
  <2>. QED
    BY <1>2, <2>2, OfferKeeps
<1>. QED
  BY <1>1, <1>2 DEF FindStables

LEMMA FindRampCoinsKeeps == ASSUME OfferInv, FindRampCoins PROVE OfferInv'
<1>. DEFINE found == {c \in Coins : c.chain \in UserChains /\ Offering({c})}
<1>1. PICK o \in OnePerAddress(found) : Offer(o)
  BY DEF FindRampCoins
<1>2. o \in SUBSET found /\ offer.via = "ramps"
  BY DEF OnePerAddress, FindRampCoins, At
<1>3. \A c \in o : Taker(c)
  BY <1>2 DEF Offering, Taker
<1>. QED
  BY <1>1, <1>2, <1>3, OfferKeeps

LEMMA ChooseKeeps == ASSUME OfferInv, NEW c, Choose(c) PROVE OfferInv'
<1>1. /\ offer \in Visited /\ supported' = supported /\ c \in offer.offered
      /\ offer.at = "offered" /\ offer' = [offer EXCEPT !.at = "chosen", !.chosen = c]
  BY DEF Choose, Move, OfferInv, OfferTypeOK
<1>2. offer' \in Visited
  BY <1>1 DEF Visited, Stages
<1>3. /\ offer'.at = "chosen" /\ offer'.chosen = c /\ offer'.offered = offer.offered
      /\ offer'.via = offer.via
      /\ offer'.asked = offer.asked /\ offer'.ceased = offer.ceased
      /\ offer'.spelled = offer.spelled /\ offer'.kept = offer.kept /\ offer'.ever = offer.ever
  BY <1>1 DEF Visited
<1>4. FoundOK'
  <2>1. ~offer.ceased => \A d \in offer.offered : Taker(d)
    BY <1>1 DEF OfferInv, FoundOK
  <2>2. \A d \in offer.offered : Taker(d) => Taker(d)'
    BY <1>1, <1>3 DEF Taker, FitsFor, Supports
  <2>. QED
    BY <1>3, <2>1, <2>2 DEF FoundOK
<1>5. ChosenOK'
  BY <1>1, <1>3 DEF OfferInv, ChosenOK
<1>. QED
  BY <1>1, <1>2, <1>3, <1>4, <1>5, GoesOn

LEMMA FindTokenIdsKeeps == ASSUME OfferInv, FindTokenIds PROVE OfferInv'
<1>. DEFINE ids == {offer.chosen} \union (IF offer.spelled = "lower" THEN {offer.asked} ELSE {})
<1>1. /\ offer \in Visited /\ supported' = supported /\ offer.via # "ramps"
      /\ offer.at = "chosen" /\ offer' = [offer EXCEPT !.at = "ids", !.ids = ids]
  BY DEF FindTokenIds, Move, OfferInv, OfferTypeOK
<1>2. offer' \in Visited
  <2>1. ids \in SUBSET (Coins \union {Nothing})
    BY <1>1 DEF Visited
  <2>2. "ids" \in Stages
    BY DEF Stages
  <2> HIDE DEF ids
  <2>. QED
    BY <1>1, <2>1, <2>2 DEF Visited
<1>3. /\ offer'.at = "ids" /\ offer'.ids = ids /\ offer'.chosen = offer.chosen
      /\ offer'.offered = offer.offered /\ offer'.via = offer.via
      /\ offer'.asked = offer.asked /\ offer'.ceased = offer.ceased
      /\ offer'.spelled = offer.spelled /\ offer'.kept = offer.kept /\ offer'.ever = offer.ever
  BY <1>1 DEF Visited
<1>4. FoundOK'
  <2>1. ~offer.ceased => \A d \in offer.offered : Taker(d)
    BY <1>1 DEF OfferInv, FoundOK
  <2>2. \A d \in offer.offered : Taker(d) => Taker(d)'
    BY <1>1, <1>3 DEF Taker, FitsFor, Supports
  <2>. HIDE DEF ids
  <2>. QED
    BY <1>3, <2>1, <2>2 DEF FoundOK
<1>5. ChosenOK'
  BY <1>1, <1>3 DEF OfferInv, ChosenOK
<1>. QED
  BY <1>1, <1>2, <1>3, <1>4, <1>5, GoesOn

(* An answer has whoever exchanges the pair now.                               *)
LEMMA AnswerKeeps ==
  ASSUME OfferInv, NEW who \in SUBSET Services, offer.at \in {"chosen", "ids"},
         Move([offer EXCEPT !.at = "answered", !.answer = who]),
         \A s \in Services : Serves(s, supported) => s \in who,
         ~offer.ceased => who # {},
         offer.spelled = "lower" => \A s \in who : Serves(s, supported)
  PROVE  OfferInv'
<1>1. /\ offer \in Visited /\ supported' = supported
      /\ offer' = [offer EXCEPT !.at = "answered", !.answer = who]
  BY DEF Move, OfferInv, OfferTypeOK
<1>2. offer' \in Visited
  BY <1>1 DEF Visited, Stages
<1>3. /\ offer'.at = "answered" /\ offer'.answer = who /\ offer'.chosen = offer.chosen
      /\ offer'.offered = offer.offered /\ offer'.via = offer.via
      /\ offer'.asked = offer.asked /\ offer'.ceased = offer.ceased
      /\ offer'.spelled = offer.spelled /\ offer'.kept = offer.kept /\ offer'.ever = offer.ever
  BY <1>1 DEF Visited
<1>4. AnswerOK'
  BY <1>1, <1>3 DEF OfferInv, Tables, AnswerOK, Serves, Pair, Fits, SingleChain
<1>5. OfferTypeOK' /\ Tables' /\ FoundOK' /\ ChosenOK'
  BY <1>1, <1>2, <1>3 DEF OfferInv, OfferTypeOK, Tables, FoundOK, ChosenOK
<1>. QED
  BY <1>4, <1>5, OfferInvNext

LEMMA ServicesOfPairKeeps == ASSUME OfferInv, ServicesOfPair PROVE OfferInv'
<1>. DEFINE who == {s \in Services : Fits(s) /\ \A c \in offer.ids : Supports(s, c)}
<1>1. offer.at = "ids" /\ Move([offer EXCEPT !.at = "answered", !.answer = who])
  BY DEF ServicesOfPair
<1>2. /\ offer.via # "ramps" /\ offer.chosen \in offer.offered
      /\ offer.ids = {offer.chosen} \union (IF offer.spelled = "lower" THEN {offer.asked} ELSE {})
  BY <1>1 DEF OfferInv, ChosenOK
<1>3. \A s \in Services : Serves(s, supported) => s \in who
  BY <1>2 DEF Serves, Pair, Supports
<1>4. ASSUME ~offer.ceased PROVE who # {}
  <2>1. PICK s \in Services : /\ Supports(s, offer.chosen) /\ Supports(s, offer.asked)
                              /\ FitsFor(s, offer.chosen)
    BY <1>1, <1>2, <1>4 DEF OfferInv, FoundOK, Taker
  <2>2. Fits(s)
    BY <2>1 DEF FitsFor, Fits, SingleChain
  <2>. QED
    BY <1>2, <2>1, <2>2
<1>5. offer.spelled = "lower" => \A s \in who : Serves(s, supported)
  BY <1>2 DEF Serves, Pair, Supports
<1>. QED
  BY <1>1, <1>3, <1>4, <1>5, AnswerKeeps

LEMMA RampsOfPairKeeps == ASSUME OfferInv, RampsOfPair PROVE OfferInv'
<1>. DEFINE who == {s \in Services : Supports(s, offer.chosen)}
<1>1. /\ offer.at = "chosen" /\ offer.via = "ramps"
      /\ Move([offer EXCEPT !.at = "answered", !.answer = who])
  BY DEF RampsOfPair
<1>2. offer.chosen \in offer.offered
  BY <1>1 DEF OfferInv, ChosenOK
<1>3. \A s \in Services : Serves(s, supported) <=> s \in who
  BY <1>1 DEF Serves, Pair, Supports
<1>4. ~offer.ceased => who # {}
  BY <1>1, <1>2 DEF OfferInv, FoundOK, Taker
<1>. QED
  BY <1>1, <1>3, <1>4, AnswerKeeps

(* A table changes: only a row that goes may leave an offer without a taker.   *)
LEMMA RelistKeeps ==
  ASSUME OfferInv, NEW s \in Services, NEW c \in Coins, Relist(s, c)
  PROVE  OfferInv'
<1>. DEFINE l == <<s, c>>
<1>1. /\ offer \in Visited /\ supported \subseteq Services \X Coins
      /\ l \in Services \X Coins
  BY DEF OfferInv, OfferTypeOK
<1>2. /\ offer.at \notin {"answered", "notFound"}
      /\ supported' = IF l \in supported THEN supported \ {l} ELSE supported \union {l}
      /\ offer' = [offer EXCEPT !.relists = @ + 1, !.ceased = @ \/ l \in supported,
                     !.kept = @ \intersect supported', !.ever = @ \union supported']
  BY DEF Relist, Supports
<1>. HIDE DEF l
<1>3. supported' \subseteq Services \X Coins
  BY <1>1, <1>2
<1>4. offer' \in Visited
  <2>. DEFINE kept == offer.kept \intersect supported'
              ever == offer.ever \union supported'
              ceased == offer.ceased \/ l \in supported
  <2>1. kept \in SUBSET (Services \X Coins) /\ ever \in SUBSET (Services \X Coins)
    BY <1>1, <1>3 DEF Visited
  <2>2. ceased \in BOOLEAN /\ offer.relists + 1 \in Nat
    BY <1>1 DEF Visited
  <2>3. offer' = [offer EXCEPT !.relists = offer.relists + 1, !.ceased = ceased,
                               !.kept = kept, !.ever = ever]
    BY <1>2
  <2>. HIDE DEF kept, ever, ceased
  <2>. QED
    BY <1>1, <2>1, <2>2, <2>3 DEF Visited
<1>5. /\ offer'.at = offer.at /\ offer'.chosen = offer.chosen /\ offer'.ids = offer.ids
      /\ offer'.offered = offer.offered /\ offer'.via = offer.via
      /\ offer'.services = offer.services
      /\ offer'.asked = offer.asked /\ offer'.spelled = offer.spelled
      /\ offer'.kept = offer.kept \intersect supported'
      /\ offer'.ever = offer.ever \union supported'
  BY <1>1, <1>2 DEF Visited
<1>6. ~offer'.ceased => ~offer.ceased /\ supported \subseteq supported'
  BY <1>1, <1>2 DEF Visited
<1>7. FoundOK'
  BY <1>5, <1>6 DEF OfferInv, FoundOK, Taker, FitsFor, Supports
<1>8. Tables' /\ ChosenOK' /\ AnswerOK'
  BY <1>2, <1>5 DEF OfferInv, Tables, ChosenOK, AnswerOK
<1>. QED
  BY <1>3, <1>4, <1>7, <1>8, OfferInvNext DEF OfferTypeOK

LEMMA OfferNextKeeps == ASSUME OfferInv, [OfferNext]_offerVars PROVE OfferInv'
<1>1. CASE UNCHANGED offerVars
  BY <1>1 DEF offerVars, OfferInv, OfferTypeOK, Tables, FoundOK, ChosenOK, AnswerOK, Taker, FitsFor,
     Supports, Serves, Pair, Fits, SingleChain
<1>2. CASE RefusePairs
  BY <1>2, RefuseKeeps DEF RefusePairs
<1>3. ASSUME NEW l \in Listings, Relist(l[1], l[2]) PROVE OfferInv'
  <2>1. l[1] \in Services /\ l[2] \in Coins
    BY OffersAssumption DEF OffersAssumption
  <2>. QED
    BY <1>3, <2>1, RelistKeeps
<1>4. ASSUME NEW c \in offer.offered, Choose(c) PROVE OfferInv'
  BY <1>4, ChooseKeeps
<1>. QED
  BY <1>1, <1>2, <1>3, <1>4, FindServicesKeeps, FindPairsKeeps, Check0xKeeps, FindStablesKeeps,
     FindRampCoinsKeeps, FindTokenIdsKeeps, ServicesOfPairKeeps, RampsOfPairKeeps DEF OfferNext

(* Whatever services, coins and tables there are, a coin that is offered can be *)
(* taken unless a row went meanwhile, and the answer has every service that    *)
(* exchanged the pair all along and none that never did (the two queries of    *)
(* the selectors in src/src/modules/exchanges/services).                       *)
THEOREM OffersTaken == OfferSpec => []OffersCanBeTaken
<1>1. OfferInit => OfferInv
  BY OfferInitHolds
<1>2. OfferInv /\ [OfferNext]_offerVars => OfferInv'
  BY OfferNextKeeps
<1>3. OfferInv => OffersCanBeTaken
  BY DEF OfferInv, AnswerOK, ChosenOK, OffersCanBeTaken
<1>. QED
  BY <1>1, <1>2, <1>3, PTL DEF OfferSpec

-------------------------------------------------------------------------------
(* Charts. Numbers first: least and greatest ones, and the calendar.           *)

LEMMA LeastOf ==
  ASSUME NEW T, T \subseteq Nat, T # {}
  PROVE  \E x \in T : \A y \in T : x <= y
<1>1. PICK x \in T : \A y \in T : ~ (<<y, x>> \in OpToRel(<, Nat))
  BY NatLessThanWellFounded, WFMin
<1>2. ASSUME NEW y \in T
      PROVE  x <= y
  <2>1. x \in Nat /\ y \in Nat
    OBVIOUS
  <2>2. <<y, x>> \in OpToRel(<, Nat) <=> y < x
    BY <2>1 DEF OpToRel
  <2>3. ~ (y < x)
    BY <1>1, <2>2, Zenon
  <2>. QED
    BY <2>1, <2>3
<1>. QED
  BY <1>2

LEMMA GreatestOf ==
  ASSUME NEW T, T \subseteq Nat, T # {}, NEW b \in Nat, \A t \in T : t <= b
  PROVE  \E x \in T : \A y \in T : y <= x
<1> DEFINE U == {b - t : t \in T}
<1>1. U \subseteq Nat /\ U # {}
  <2>1. ASSUME NEW t \in T
        PROVE  b - t \in Nat
    OBVIOUS
  <2>. QED
    BY <2>1
<1>2. PICK x \in U : \A y \in U : x <= y
  BY <1>1, LeastOf
<1>3. PICK t \in T : x = b - t
  BY <1>2
<1>4. ASSUME NEW y \in T
      PROVE  y <= t
  <2>1. b - t <= b - y
    BY <1>2, <1>3
  <2>2. t \in Nat /\ y \in Nat
    OBVIOUS
  <2>. QED
    BY <2>1, <2>2
<1>. QED
  BY <1>4

LEMMA LatestOf ==
  ASSUME NEW T, T \subseteq Nat, T # {}, NEW b \in Nat, \A t \in T : t <= b
  PROVE  Latest(T) \in T /\ \A y \in T : y <= Latest(T)
<1>1. \E x \in T : \A y \in T : y <= x
  BY GreatestOf
<1>. QED
  BY <1>1 DEF Latest

LEMMA EarliestOf ==
  ASSUME NEW T, T \subseteq Nat, T # {}
  PROVE  Earliest(T) \in T /\ \A y \in T : Earliest(T) <= y
<1>1. \E x \in T : \A y \in T : x <= y
  BY LeastOf
<1>. QED
  BY <1>1 DEF Earliest

LEMMA ChartConstants ==
  /\ TicksPerHour \in Nat \ {0} /\ HoursPerDay \in Nat \ {0} /\ YearMonths \in Nat \ {0}
  /\ Day \in Nat \ {0} /\ TicksPerHour <= Day
  /\ Len(MonthStarts) \in Nat /\ Len(MonthStarts) > 1
  /\ \A i \in 1..Len(MonthStarts) : MonthStarts[i] \in Nat
  /\ MonthStarts[1] = 0
<1>1. TicksPerHour \in Nat \ {0} /\ HoursPerDay \in Nat \ {0} /\ YearMonths \in Nat \ {0}
  BY ChartAssumption DEF ChartAssumption
<1>2. Day \in Nat \ {0} /\ TicksPerHour <= Day
  BY <1>1 DEF Day
<1>3. MonthStarts \in Seq(Nat) /\ Len(MonthStarts) > 1 /\ MonthStarts[1] = 0
  BY ChartAssumption DEF ChartAssumption
<1>. QED
  BY <1>1, <1>2, <1>3

LEMMA MonthsInTicks ==
  ASSUME NEW i \in 1..Len(MonthStarts)
  PROVE  MonthStarts[i] * Day \in Nat
<1>1. MonthStarts[i] \in Nat /\ Day \in Nat
  BY ChartConstants
<1>. QED
  BY <1>1

LEMMA WholeYears ==
  ASSUME NEW a \in Nat, NEW b \in Nat \ {0}
  PROVE  (a \div b) \in Nat /\ (a \div b) * b <= a
OBVIOUS

LEMMA MonthsGrow ==
  ASSUME NEW i \in 1..Len(MonthStarts), NEW j \in 1..Len(MonthStarts), i < j
  PROVE  MonthStarts[i] < MonthStarts[j] /\ MonthStarts[i] * Day + Day <= MonthStarts[j] * Day
<1>1. MonthStarts \in Seq(Nat)
  BY ChartAssumption DEF ChartAssumption
<1>2. MonthStarts[i] < MonthStarts[j] /\ MonthStarts[i] \in Nat /\ MonthStarts[j] \in Nat
  BY <1>1, ChartAssumption DEF ChartAssumption
<1>3. MonthStarts[i] + 1 <= MonthStarts[j]
  BY <1>2
<1>4. (MonthStarts[i] + 1) * Day <= MonthStarts[j] * Day
  BY <1>2, <1>3, ChartConstants
<1>. QED
  BY <1>2, <1>4, ChartConstants

LEMMA DayOf ==
  ASSUME NEW t \in Nat
  PROVE  /\ t \div Day \in Nat
         /\ \A a \in Nat : a <= t \div Day <=> a * Day <= t
<1> DEFINE q == t \div Day
<1>1. q \in Nat /\ q * Day <= t /\ t < q * Day + Day
  BY ChartConstants
<1> HIDE DEF q
<1>2. ASSUME NEW a \in Nat, a <= q
      PROVE  a * Day <= t
  <2>1. a * Day <= q * Day
    BY <1>1, <1>2, ChartConstants
  <2>. QED
    BY <1>1, <2>1, ChartConstants
<1>3. ASSUME NEW a \in Nat, ~(a <= q)
      PROVE  ~(a * Day <= t)
  <2>1. (q + 1) * Day <= a * Day
    BY <1>1, <1>3, ChartConstants
  <2>2. (q + 1) * Day = q * Day + Day
    BY <1>1, ChartConstants
  <2>. QED
    BY <1>1, <2>1, <2>2, ChartConstants
<1>. QED
  BY <1>1, <1>2, <1>3 DEF q

(* The month of a moment within the calendar.                                  *)
InCalendar(t) == t \in Nat /\ t < MonthStarts[Len(MonthStarts)] * Day

LEMMA MonthOfHolds ==
  ASSUME NEW t, InCalendar(t)
  PROVE  /\ MonthOf(t) \in 1..(Len(MonthStarts) - 1)
         /\ MonthStarts[MonthOf(t)] * Day <= t
         /\ t < MonthStarts[MonthOf(t) + 1] * Day
<1> DEFINE T == {j \in 1..Len(MonthStarts) : t < MonthStarts[j] * Day}
<1>1. T \subseteq Nat /\ T # {}
  BY ChartConstants DEF InCalendar
<1>2. PICK j \in T : \A k \in T : j <= k
  BY <1>1, LeastOf
<1>3. j # 1
  BY <1>2, ChartConstants DEF InCalendar
<1>4. /\ j - 1 \in 1..(Len(MonthStarts) - 1) /\ j - 1 \in 1..Len(MonthStarts)
      /\ j - 1 \notin T
  BY <1>2, <1>3, ChartConstants
<1>5. MonthStarts[j - 1] * Day <= t /\ t < MonthStarts[(j - 1) + 1] * Day
  <2>1. MonthStarts[j - 1] \in Nat
    BY <1>4, ChartConstants
  <2>2. ~(t < MonthStarts[j - 1] * Day)
    BY <1>4
  <2>3. MonthStarts[j - 1] * Day <= t
    BY <2>1, <2>2, ChartConstants DEF InCalendar
  <2>4. (j - 1) + 1 = j
    BY <1>2
  <2>. QED
    BY <1>2, <2>3, <2>4
<1>6. ASSUME NEW i \in 1..(Len(MonthStarts) - 1)
      PROVE  /\ MonthStarts[i] <= t \div Day <=> MonthStarts[i] * Day <= t
             /\ t \div Day < MonthStarts[i + 1] <=> t < MonthStarts[i + 1] * Day
  <2>1. MonthStarts[i] \in Nat /\ MonthStarts[i + 1] \in Nat
    BY ChartConstants
  <2>2. MonthStarts[i] <= t \div Day <=> MonthStarts[i] * Day <= t
    BY <2>1, DayOf DEF InCalendar
  <2>3. MonthStarts[i + 1] <= t \div Day <=> MonthStarts[i + 1] * Day <= t
    BY <2>1, DayOf DEF InCalendar
  <2>4. t \in Nat
    BY DEF InCalendar
  <2>5. t \div Day \in Nat
    BY <2>4, DayOf
  <2>6. MonthStarts[i + 1] * Day \in Nat
    BY <2>1, ChartConstants
  <2>. QED
    BY <2>1, <2>2, <2>3, <2>4, <2>5, <2>6
<1>7. \E i \in 1..(Len(MonthStarts) - 1) :
        MonthStarts[i] <= t \div Day /\ t \div Day < MonthStarts[i + 1]
  BY <1>4, <1>5, <1>6
<1>8. /\ MonthOf(t) \in 1..(Len(MonthStarts) - 1)
      /\ MonthStarts[MonthOf(t)] <= t \div Day /\ t \div Day < MonthStarts[MonthOf(t) + 1]
  BY <1>7 DEF MonthOf
<1>. QED
  BY <1>6, <1>8

(* The date in the next month, or some months back.                            *)
LEMMA NextMonth ==
  ASSUME NEW t, InCalendar(t)
  PROVE  /\ MonthOf(t) + 1 \in 1..Len(MonthStarts)
         /\ InMonth(MonthOf(t) + 1, t) \in Nat
         /\ InMonth(MonthOf(t) + 1, t) >= t + Day
         /\ InMonth(MonthOf(t) + 1, t)
              = MonthStarts[MonthOf(t) + 1] * Day + (t - MonthStarts[MonthOf(t)] * Day)
<1>1. MonthOf(t) \in 1..(Len(MonthStarts) - 1) /\ MonthStarts[MonthOf(t)] * Day <= t
  BY MonthOfHolds
<1> DEFINE m == MonthOf(t)
<1>2. m \in 1..Len(MonthStarts) /\ m + 1 \in 1..Len(MonthStarts) /\ m < m + 1
  BY <1>1, ChartConstants
<1>3. MonthStarts[m] * Day + Day <= MonthStarts[m + 1] * Day
  BY <1>2, MonthsGrow
<1>4. MonthStarts[m] * Day \in Nat /\ MonthStarts[m + 1] * Day \in Nat /\ Day \in Nat /\ t \in Nat
  BY <1>2, ChartConstants DEF InCalendar
<1>5. InMonth(m + 1, t) = MonthStarts[m + 1] * Day + (t - MonthStarts[m] * Day)
  BY DEF InMonth
<1> DEFINE a == MonthStarts[m] * Day
           b == MonthStarts[m + 1] * Day
<1>6. a \in Nat /\ b \in Nat /\ Day \in Nat /\ t \in Nat /\ a <= t /\ a + Day <= b
  BY <1>1, <1>3, <1>4
<1>7. b + (t - a) \in Nat /\ b + (t - a) >= t + Day
  <2> HIDE DEF a, b
  <2>. QED
    BY <1>6
<1>. QED
  BY <1>2, <1>5, <1>7

LEMMA MonthsBack ==
  ASSUME NEW t, InCalendar(t), NEW k \in Nat, MonthOf(t) - k \in Nat \ {0}
  PROVE  InMonth(MonthOf(t) - k, t) \in Nat /\ InMonth(MonthOf(t) - k, t) <= t
<1>1. MonthOf(t) \in 1..(Len(MonthStarts) - 1) /\ MonthStarts[MonthOf(t)] * Day <= t
  BY MonthOfHolds
<1> DEFINE m == MonthOf(t)
<1>2. m \in 1..Len(MonthStarts) /\ m - k \in 1..Len(MonthStarts)
  BY <1>1, ChartConstants
<1>3. MonthStarts[m - k] * Day <= MonthStarts[m] * Day
  <2>1. CASE k = 0
    BY <1>2, <2>1, ChartConstants
  <2>2. CASE k # 0
    <3>1. m - k < m
      BY <1>2, <2>2
    <3>. QED
      BY <1>2, <3>1, MonthsGrow, ChartConstants
  <2>. QED
    BY <2>1, <2>2
<1>4. MonthStarts[m] * Day \in Nat /\ MonthStarts[m - k] * Day \in Nat /\ t \in Nat
  BY <1>2, ChartConstants DEF InCalendar
<1>5. InMonth(m - k, t) = MonthStarts[m - k] * Day + (t - MonthStarts[m] * Day)
  BY DEF InMonth
<1>. QED
  BY <1>1, <1>3, <1>4, <1>5

Splitters == {"hour", "day", "month"}

(* A step goes on by an hour at least, and still does when it is put on the    *)
(* hour.                                                                       *)
LEMMA OnTheHour ==
  ASSUME NEW t \in Nat
  PROVE  /\ FloorHour(t) \in Nat /\ FloorHour(t) <= t /\ t < FloorHour(t) + TicksPerHour
         /\ FloorHour(t) % TicksPerHour = 0
<1> DEFINE q == t \div TicksPerHour
<1>1. q \in Nat /\ q * TicksPerHour <= t /\ t < q * TicksPerHour + TicksPerHour
  BY ChartConstants
<1>2. FloorHour(t) = q * TicksPerHour
  BY DEF FloorHour
<1> HIDE DEF q
<1>3. q * TicksPerHour \in Nat /\ (q * TicksPerHour) % TicksPerHour = 0
  BY <1>1, ChartConstants
<1>. QED
  BY <1>1, <1>2, <1>3

LEMMA StepGoesOn ==
  ASSUME NEW splitter \in Splitters, NEW t, InCalendar(t)
  PROVE  Step(splitter, t) \in Nat /\ Step(splitter, t) >= t + TicksPerHour
<1>0. t \in Nat
  BY DEF InCalendar
<1>1. CASE splitter = "hour"
  BY <1>0, <1>1, ChartConstants DEF Step
<1>2. CASE splitter = "day"
  BY <1>0, <1>2, ChartConstants DEF Step
<1>3. CASE splitter = "month"
  <2>1. Step(splitter, t) = InMonth(MonthOf(t) + 1, t)
    BY <1>3 DEF Step
  <2>. QED
    BY <1>0, <2>1, NextMonth, ChartConstants
<1>. QED
  BY <1>1, <1>2, <1>3 DEF Splitters

LEMMA StepOnTheHour ==
  ASSUME NEW splitter \in Splitters, NEW t, InCalendar(t)
  PROVE  /\ FloorHour(Step(splitter, t)) \in Nat
         /\ t < FloorHour(Step(splitter, t)) /\ FloorHour(Step(splitter, t)) <= Step(splitter, t)
         /\ FloorHour(Step(splitter, t)) % TicksPerHour = 0
<1> DEFINE s == Step(splitter, t)
<1>1. s \in Nat /\ s >= t + TicksPerHour /\ t \in Nat
  BY StepGoesOn DEF InCalendar
<1> HIDE DEF s
<1>2. /\ FloorHour(s) \in Nat /\ FloorHour(s) <= s /\ s < FloorHour(s) + TicksPerHour
      /\ FloorHour(s) % TicksPerHour = 0
  BY <1>1, OnTheHour
<1>3. t < FloorHour(s)
  BY <1>1, <1>2, ChartConstants
<1>. QED
  BY <1>2, <1>3 DEF s

(* What a step passes over.                                                    *)
LEMMA LateDay ==
  ASSUME NEW a \in Nat, NEW b \in Nat, NEW c \in Nat, b < c, NEW t \in Nat,
         c * Day + a * Day - b * Day <= t
  PROVE  c + a - b <= t \div Day
<1>1. c + a - b \in Nat
  OBVIOUS
<1>2. (c + a - b) * Day = c * Day + a * Day - b * Day
  BY ChartConstants
<1>. QED
  BY <1>1, <1>2, DayOf

LEMMA TwoMonths ==
  ASSUME NEW a \in Nat, NEW b \in Nat, NEW d \in Nat, b - a <= d - b
  PROVE  b * Day + b * Day <= d * Day + a * Day
<1>1. b + b <= d + a
  OBVIOUS
<1>2. (b + b) * Day <= (d + a) * Day
  BY <1>1, ChartConstants
<1>. QED
  BY <1>2, ChartConstants

LEMMA StepLeavesNoGap ==
  ASSUME NEW splitter \in Splitters, NEW t, InCalendar(t), NEW u, InCalendar(u),
         t <= u, u <= Step(splitter, t)
  PROVE  NoGap(splitter, t, u)
<1>0. t \in Nat /\ u \in Nat
  BY DEF InCalendar
<1>1. CASE splitter = "hour"
  BY <1>0, <1>1, ChartConstants DEF Step, NoGap
<1>2. CASE splitter = "day"
  BY <1>0, <1>2, ChartConstants DEF Step, NoGap
<1>3. CASE splitter = "month"
  <2> DEFINE m == MonthOf(t)
             k == MonthOf(u)
             S(i) == MonthStarts[i] * Day
  <2>1. /\ m \in 1..(Len(MonthStarts) - 1) /\ S(m) <= t /\ t < S(m + 1)
        /\ k \in 1..(Len(MonthStarts) - 1) /\ S(k) <= u /\ u < S(k + 1)
    BY MonthOfHolds
  <2>2. u <= S(m + 1) + (t - S(m))
    <3>1. Step(splitter, t) = InMonth(MonthOf(t) + 1, t)
      BY <1>3 DEF Step
    <3>. QED
      BY <3>1, NextMonth
  <2>3. ASSUME NEW i \in 1..Len(MonthStarts)
        PROVE  MonthStarts[i] \in Nat /\ S(i) \in Nat
    BY ChartConstants
  <2>4. ASSUME NEW i \in 1..Len(MonthStarts), NEW j \in 1..Len(MonthStarts), i <= j
        PROVE  S(i) <= S(j)
    <3>1. CASE i = j
      BY <3>1, <2>3
    <3>2. CASE i # j
      <4>1. i < j
        BY <2>4, <3>2
      <4>2. S(i) + Day <= S(j)
        BY <4>1, MonthsGrow
      <4>3. Day \in Nat
        BY ChartConstants
      <4>. QED
        BY <4>2, <4>3, <2>3
    <3>. QED
      BY <3>1, <3>2
  <2> HIDE DEF m, k, S
  <2>5. ASSUME k > m + 1
        PROVE  k = m + 2 /\ DayInMonth(t) >= MonthLength(m + 1)
    <3>1. /\ m \in 1..Len(MonthStarts) /\ m + 1 \in 1..Len(MonthStarts)
          /\ m + 2 \in 1..Len(MonthStarts) /\ k \in 1..Len(MonthStarts)
      BY <2>1, <2>5, ChartConstants
    <3>2. S(m) \in Nat /\ S(m + 1) \in Nat /\ S(m + 2) \in Nat /\ S(m + 2) <= S(k) /\ S(k) \in Nat
      BY <2>1, <2>3, <2>4, <2>5, <3>1
    <3>3. S(m + 2) + S(m) - S(m + 1) <= t
      <4>1. S(k) <= u /\ u <= S(m + 1) + (t - S(m))
        BY <2>1, <2>2
      <4>2. t \in Nat /\ u \in Nat
        BY <1>0
      <4>. QED
        BY <3>2, <4>1, <4>2
    <3>4. MonthStarts[m + 2] + MonthStarts[m] - MonthStarts[m + 1] <= t \div Day
      <4>1. MonthStarts[m + 1] < MonthStarts[m + 2]
        BY <3>1, MonthsGrow
      <4>. QED
        BY <4>1, <3>1, <3>3, <2>3, <1>0, LateDay DEF S
    <3>5. DayInMonth(t) >= MonthLength(m + 1)
      <4>1. DayInMonth(t) = t \div Day - MonthStarts[m]
        BY DEF DayInMonth, m
      <4>2. (m + 1) + 1 = m + 2
        BY <2>1
      <4>3. MonthLength(m + 1) = MonthStarts[m + 2] - MonthStarts[m + 1]
        BY <4>2 DEF MonthLength
      <4>4. t \div Day \in Nat
        BY <1>0, DayOf
      <4>5. /\ MonthStarts[m] \in Nat /\ MonthStarts[m + 1] \in Nat
            /\ MonthStarts[m + 2] \in Nat
        BY <3>1, <2>3
      <4>. QED
        BY <4>1, <4>3, <4>4, <4>5, <3>4
    <3>6. ~(k > m + 2)
      <4> SUFFICES ASSUME k > m + 2
                   PROVE  FALSE
        OBVIOUS
      <4>1. m + 3 \in 1..Len(MonthStarts) /\ m \in 1..(Len(MonthStarts) - 3) /\ m + 3 <= k
        BY <2>1, ChartConstants
      <4>2. S(m + 3) \in Nat /\ S(m + 3) <= S(k)
        BY <2>1, <2>3, <2>4, <3>1, <4>1
      <4>3. MonthStarts[m + 1] - MonthStarts[m] <= MonthStarts[m + 3] - MonthStarts[m + 1]
        BY <4>1, ChartAssumption DEF ChartAssumption
      <4>4. S(m + 1) + S(m + 1) <= S(m + 3) + S(m)
        BY <4>3, <3>1, <4>1, <2>3, TwoMonths DEF S
      <4>5. S(k) <= u /\ u <= S(m + 1) + (t - S(m)) /\ t < S(m + 1)
        BY <2>1, <2>2
      <4>6. t \in Nat /\ u \in Nat
        BY <1>0
      <4>. QED
        BY <3>2, <4>2, <4>4, <4>5, <4>6
    <3>. QED
      BY <2>1, <2>5, <3>5, <3>6
  <2>6. k <= m + 1 \/ k > m + 1
    BY <2>1
  <2>7. splitter # "hour" /\ splitter # "day"
    BY <1>3
  <2>. QED
    BY <2>5, <2>6, <2>7 DEF NoGap, m, k
<1>. QED
  BY <1>1, <1>2, <1>3 DEF Splitters


(* The start of a period lies in the calendar, and not after the clock.        *)
LEMMA NowInCalendar ==
  ASSUME NEW t \in Nows
  PROVE  /\ t \in Nat /\ t >= 7 * Day
         /\ InCalendar(t) /\ InCalendar(t + 1)
         /\ MonthOf(t) \in 1..(Len(MonthStarts) - 1)
         /\ MonthOf(t) > YearMonths /\ MonthOf(t) > 3
<1>1. t \in Nat /\ t >= 7 * Day
  BY ChartAssumption DEF ChartAssumption
<1>2. t + 1 < MonthStarts[Len(MonthStarts)] * Day
  BY ChartAssumption DEF ChartAssumption
<1>3. \E i \in DOMAIN MonthStarts : i > YearMonths /\ i > 3 /\ MonthStarts[i] * Day <= t
  BY ChartAssumption DEF ChartAssumption
<1>4. MonthStarts[Len(MonthStarts)] * Day \in Nat
  BY ChartConstants
<1>5. InCalendar(t) /\ InCalendar(t + 1)
  BY <1>1, <1>2, <1>4 DEF InCalendar
<1>6. PICK i \in DOMAIN MonthStarts : i > YearMonths /\ i > 3 /\ MonthStarts[i] * Day <= t
  BY <1>3
<1>7. MonthStarts \in Seq(Nat)
  BY ChartAssumption DEF ChartAssumption
<1>8. i \in 1..Len(MonthStarts)
  BY <1>7
<1>9. /\ MonthOf(t) \in 1..(Len(MonthStarts) - 1)
      /\ t < MonthStarts[MonthOf(t) + 1] * Day
  BY <1>5, MonthOfHolds
<1> DEFINE m == MonthOf(t)
<1>10. m + 1 \in 1..Len(MonthStarts) /\ MonthStarts[m + 1] * Day \in Nat
       /\ MonthStarts[i] * Day \in Nat
  <2>1. m + 1 \in 1..Len(MonthStarts)
    BY <1>9, ChartConstants
  <2>. QED
    BY <2>1, <1>8, MonthsInTicks
<1>11. i <= m
  <2> SUFFICES ASSUME m + 1 <= i
               PROVE  FALSE
    BY <1>8, <1>9
  <2>1. MonthStarts[m + 1] * Day <= MonthStarts[i] * Day
    <3>1. CASE m + 1 = i
      BY <3>1, <1>10
    <3>2. CASE m + 1 < i
      BY <3>2, <1>8, <1>10, MonthsGrow, ChartConstants
    <3>. QED
      BY <3>1, <3>2, <1>8, <1>9
  <2>. QED
    BY <2>1, <1>1, <1>6, <1>9, <1>10
<1>. QED
  BY <1>1, <1>5, <1>6, <1>8, <1>9, <1>11, ChartConstants

LEMMA PeriodStarts ==
  ASSUME now \in Nows, NEW mode \in ChartModes, mode # "all"
  PROVE  /\ StartOf(mode) \in Nat /\ StartOf(mode) <= now
         /\ SplitterOf(mode) \in Splitters
<1> DEFINE m == MonthOf(now)
<1>1. /\ now \in Nat /\ now >= 7 * Day /\ InCalendar(now)
      /\ m \in 1..(Len(MonthStarts) - 1) /\ m > YearMonths /\ m > 3
      /\ YearMonths \in Nat \ {0} /\ Day \in Nat \ {0}
  BY NowInCalendar, ChartConstants
<1>2. ASSUME NEW k \in Nat, k < m
      PROVE  InMonth(m - k, now) \in Nat /\ InMonth(m - k, now) <= now
  <2>1. m - k \in Nat \ {0}
    BY <1>1, <1>2
  <2>. QED
    BY <1>1, <1>2, <2>1, MonthsBack
<1>3. CASE mode = "ytd"
  <2> DEFINE q == (m - 1) \div YearMonths
             j == q * YearMonths + 1
  <2>1. q \in Nat /\ q * YearMonths <= m - 1
    <3>1. m - 1 \in Nat /\ YearMonths \in Nat \ {0}
      BY <1>1
    <3>. QED
      BY <3>1, WholeYears
  <2>2. q * YearMonths \in Nat
    BY <2>1, <1>1
  <2>3. StartOf(mode) = MonthStarts[j] * Day
    BY <1>3 DEF StartOf, FirstDayOfYear
  <2> HIDE DEF q
  <2>4. j \in 1..Len(MonthStarts) /\ j <= m /\ m \in 1..Len(MonthStarts)
    BY <1>1, <2>1, <2>2, ChartConstants
  <2>5. MonthStarts[j] * Day \in Nat /\ MonthStarts[m] * Day \in Nat
    BY <2>4, ChartConstants
  <2>6. MonthStarts[j] * Day <= MonthStarts[m] * Day
    <3>1. CASE j = m
      BY <3>1, <2>5
    <3>2. CASE j # m
      <4>1. j < m
        BY <3>2, <2>4
      <4>. QED
        BY <4>1, <2>4, <2>5, MonthsGrow, ChartConstants
    <3>. QED
      BY <3>1, <3>2
  <2>7. MonthStarts[m] * Day <= now
    BY <1>1, MonthOfHolds
  <2>. QED
    BY <1>1, <1>3, <2>3, <2>5, <2>6, <2>7 DEF SplitterOf, Splitters
<1>4. CASE mode = "year"
  <2>1. StartOf(mode) = InMonth(m - 1 * YearMonths - 0, now) - 0 * Day
    BY <1>4 DEF StartOf, Ago
  <2>2. m - 1 * YearMonths - 0 = m - YearMonths /\ 0 * Day = 0
    BY <1>1
  <2>3. InMonth(m - YearMonths, now) \in Nat /\ InMonth(m - YearMonths, now) <= now
    BY <1>1, <1>2
  <2>. QED
    BY <1>4, <2>1, <2>2, <2>3 DEF SplitterOf, Splitters
<1>5. CASE mode = "threeMonth"
  <2>1. StartOf(mode) = InMonth(m - 0 * YearMonths - 3, now) - 0 * Day
    BY <1>5 DEF StartOf, Ago
  <2>2. m - 0 * YearMonths - 3 = m - 3 /\ 0 * Day = 0
    BY <1>1
  <2>3. InMonth(m - 3, now) \in Nat /\ InMonth(m - 3, now) <= now
    BY <1>1, <1>2
  <2>. QED
    BY <1>5, <2>1, <2>2, <2>3 DEF SplitterOf, Splitters
<1>6. CASE mode = "month"
  <2>1. StartOf(mode) = InMonth(m - 0 * YearMonths - 1, now) - 0 * Day
    BY <1>6 DEF StartOf, Ago
  <2>2. m - 0 * YearMonths - 1 = m - 1 /\ 0 * Day = 0
    BY <1>1
  <2>3. InMonth(m - 1, now) \in Nat /\ InMonth(m - 1, now) <= now
    BY <1>1, <1>2
  <2>. QED
    BY <1>6, <2>1, <2>2, <2>3 DEF SplitterOf, Splitters
<1>7. ASSUME NEW d \in 1..7
      PROVE  /\ InMonth(m - 0 * YearMonths - 0, now) - d * Day \in Nat
             /\ InMonth(m - 0 * YearMonths - 0, now) - d * Day <= now
  <2>1. m - 0 * YearMonths - 0 = m
    BY <1>1
  <2>2. InMonth(m, now) = now
    <3>1. MonthStarts[m] * Day \in Nat
      BY <1>1, ChartConstants
    <3>. QED
      BY <3>1, <1>1 DEF InMonth
  <2>3. d * Day \in Nat /\ d * Day <= 7 * Day
    BY <1>1
  <2>. QED
    BY <1>1, <2>1, <2>2, <2>3
<1>8. CASE mode = "week"
  <2>1. StartOf(mode) = InMonth(m - 0 * YearMonths - 0, now) - 7 * Day
    BY <1>8 DEF StartOf, Ago
  <2>2. 7 \in 1..7
    OBVIOUS
  <2>3. StartOf(mode) \in Nat /\ StartOf(mode) <= now
    BY <1>7, <2>1, <2>2
  <2>. QED
    BY <1>8, <2>3 DEF SplitterOf, Splitters
<1>9. CASE mode = "day"
  <2>1. StartOf(mode) = InMonth(m - 0 * YearMonths - 0, now) - 1 * Day
    BY <1>9 DEF StartOf, Ago
  <2>2. 1 \in 1..7
    OBVIOUS
  <2>3. StartOf(mode) \in Nat /\ StartOf(mode) <= now
    BY <1>7, <2>1, <2>2
  <2>. QED
    BY <1>9, <2>3 DEF SplitterOf, Splitters
<1>. QED
  BY <1>3, <1>4, <1>5, <1>6, <1>8, <1>9 DEF ChartModes


-------------------------------------------------------------------------------
(* The inductive invariant of a chart: while its dates are made they go        *)
(* forwards, on the hour but for the first, without gaps and not past the end; *)
(* then they go to the end, and the prices looked up so far are those of their *)
(* dates, but for what was recorded since.                                     *)
ChartStages == {"begin", "coingecko", "external", "failed", "notFound", "dates",
                "prices", "answered"}
ChartTypeOK ==
  /\ now \in Nows /\ snapshots \subseteq 0..(now + 1)
  /\ chart \in [route : Routes, mode : ChartModes, coingecko : BOOLEAN, known : BOOLEAN,
                at : ChartStages, splitter : Splitters \union {NoPrice},
                start : Nat \union {NoPrice}, end : {now, now + 1},
                dates : Seq(Nat), points : Seq(Nat \union {NoPrice})]

Drawn ==
  /\ chart.splitter \in Splitters
  /\ Len(chart.dates) > 0 /\ chart.dates[1] = chart.start
  /\ \A i \in 1..(Len(chart.dates) - 1) : NoGap(chart.splitter, chart.dates[i], chart.dates[i + 1])

Drawing ==
  /\ Drawn /\ chart.points = <<>>
  /\ chart.dates[Len(chart.dates)] <= chart.end
  /\ \A i \in 1..(Len(chart.dates) - 1) : chart.dates[i] < chart.dates[i + 1]
  /\ \A i \in 2..Len(chart.dates) : chart.dates[i] % TicksPerHour = 0

ToTheEnd ==
  /\ Drawn /\ Len(chart.dates) >= 2
  /\ chart.dates[Len(chart.dates)] = chart.end
  /\ \A i \in 1..(Len(chart.dates) - 1) :
       /\ \/ chart.dates[i] < chart.dates[i + 1]
          \/ i = Len(chart.dates) - 1 /\ chart.dates[i] = chart.dates[i + 1]
       /\ i > 1 => chart.dates[i] % TicksPerHour = 0

PriceOK(route, shots, clock, date, price) ==
  LET past == {t \in shots : t <= date} IN
  IF route = "token" THEN price = date
  ELSE \/ past = {} /\ price = NoPrice
       \/ past # {} /\ price = Latest(past)
       \/ date >= clock /\ Latest(past) >= clock

Priced ==
  /\ Len(chart.points) <= Len(chart.dates)
  /\ chart.at = "prices" => Len(chart.points) < Len(chart.dates)
  /\ chart.at = "answered" => Len(chart.points) = Len(chart.dates)
  /\ \A i \in 1..Len(chart.points) :
       PriceOK(chart.route, snapshots, now, chart.dates[i], chart.points[i])

ChartInv ==
  /\ ChartTypeOK
  /\ chart.at = "begin" => chart.points = <<>> /\ \A t \in snapshots : t <= now
  /\ chart.at \in {"coingecko", "dates"} => Drawing
  /\ chart.at \in {"prices", "answered"} => ToTheEnd /\ Priced


LEMMA ChartInitHolds == ChartInit => ChartInv
<1> SUFFICES ASSUME ChartInit
             PROVE  ChartInv
  OBVIOUS
<1>1. now \in Nows /\ snapshots \in Recorded /\ now \in Nat
  BY ChartAssumption DEF ChartInit, ChartAssumption
<1>2. snapshots \subseteq Nat /\ \A t \in snapshots : t <= now
  BY <1>1, ChartAssumption DEF ChartAssumption
<1>3. snapshots \subseteq 0..(now + 1)
  BY <1>1, <1>2
<1>4. PICK route \in Routes, mode \in ChartModes, coingecko \in BOOLEAN, known \in BOOLEAN, late \in 0..1 :
        chart = [route |-> route, mode |-> mode, coingecko |-> coingecko,
                 known |-> known, at |-> "begin", splitter |-> NoPrice, start |-> NoPrice,
                 end |-> now + late, dates |-> <<>>, points |-> <<>>]
  BY DEF ChartInit
<1>5. now + late \in {now, now + 1}
  BY <1>1
<1>6. <<>> \in Seq(Nat) /\ <<>> \in Seq(Nat \union {NoPrice})
  OBVIOUS
<1>7. ChartTypeOK
  BY <1>1, <1>3, <1>4, <1>5, <1>6 DEF ChartTypeOK, ChartStages
<1>. QED
  BY <1>2, <1>4, <1>7 DEF ChartInv

(* A request that has found where its period starts.                           *)
LEMMA BeginKeeps ==
  ASSUME ChartTypeOK, chart.points = <<>>, NEW start \in Nat, start <= now,
         NEW splitter \in Splitters, Begin(start, splitter)
  PROVE  ChartInv'
<1>1. /\ chart' = [chart EXCEPT !.at = IF chart.coingecko THEN "coingecko" ELSE "dates",
                     !.start = start, !.splitter = splitter, !.dates = <<start>>]
      /\ now' = now /\ snapshots' = snapshots
  BY DEF Begin, To
<1>2. <<start>> \in Seq(Nat) /\ Len(<<start>>) = 1 /\ <<start>>[1] = start
  OBVIOUS
<1>3. /\ chart'.at \in {"coingecko", "dates"} /\ chart'.start = start /\ chart'.splitter = splitter
      /\ chart'.dates = <<start>> /\ chart'.points = <<>> /\ chart'.end = chart.end
  BY <1>1 DEF ChartTypeOK
<1>4. ChartTypeOK'
  BY <1>1, <1>2 DEF ChartTypeOK, ChartStages
<1>5. start <= chart.end /\ now \in Nat
  <2>1. Nows \subseteq Nat
    BY ChartAssumption DEF ChartAssumption
  <2>. QED
    BY <2>1 DEF ChartTypeOK
<1>6. Drawing'
  BY <1>2, <1>3, <1>5 DEF Drawing, Drawn
<1>. QED
  BY <1>3, <1>4, <1>6 DEF ChartInv

(* The stages at which nothing is said of the chart.                           *)
LEMMA EndKeeps ==
  ASSUME ChartTypeOK, NEW at \in {"failed", "notFound", "external"}, To([chart EXCEPT !.at = at])
  PROVE  ChartInv'
<1>1. chart' = [chart EXCEPT !.at = at] /\ now' = now /\ snapshots' = snapshots
  BY DEF To
<1>2. ChartTypeOK' /\ chart'.at = at
  BY <1>1 DEF ChartTypeOK, ChartStages
<1>. QED
  BY <1>2 DEF ChartInv

LEMMA FormKeeps ==
  ASSUME ChartInv,
         \/ FormTokenChart \/ FormTokenChartForTotalUserInterval
         \/ FormTokenAvgChartForUser \/ FormTokenAvgChartForTotalUserInterval
  PROVE  ChartInv'
<1>1. /\ ChartTypeOK /\ chart.points = <<>> /\ chart.mode \in ChartModes /\ now \in Nows
      /\ \A t \in snapshots : t <= now
  BY DEF ChartInv, ChartTypeOK, FormTokenChart, FormTokenChartForTotalUserInterval,
         FormTokenAvgChartForUser, FormTokenAvgChartForTotalUserInterval, Begins
<1>2. CASE FormTokenChart \/ FormTokenAvgChartForUser
  <2>1. Period /\ chart.mode # "all"
    BY <1>2 DEF FormTokenChart, FormTokenAvgChartForUser, Begins
  <2>. QED
    BY <1>1, <2>1, PeriodStarts, BeginKeeps DEF Period
<1>3. ASSUME NEW splitter \in Splitters, Total(splitter)
      PROVE  ChartInv'
  <2>1. CASE snapshots = {}
    BY <1>1, <1>3, <2>1, EndKeeps DEF Total
  <2>2. CASE snapshots # {}
    <3>1. snapshots \subseteq Nat
      BY <1>1, ChartAssumption DEF ChartTypeOK, ChartAssumption
    <3>2. Earliest(snapshots) \in snapshots
      BY <2>2, <3>1, EarliestOf
    <3>. QED
      BY <1>1, <1>3, <2>2, <3>1, <3>2, BeginKeeps DEF Total
  <2>. QED
    BY <2>1, <2>2
<1>4. CASE FormTokenChartForTotalUserInterval \/ FormTokenAvgChartForTotalUserInterval
  BY <1>3, <1>4 DEF FormTokenChartForTotalUserInterval, FormTokenAvgChartForTotalUserInterval, Splitters
<1>. QED
  BY <1>2, <1>4

LEMMA CoingeckoKeeps ==
  ASSUME ChartInv, AskCoingecko
  PROVE  ChartInv'
<1>1. ChartTypeOK /\ Drawing
  BY DEF ChartInv, AskCoingecko
<1>2. CASE To([chart EXCEPT !.at = "dates"])
  <2>1. chart' = [chart EXCEPT !.at = "dates"] /\ now' = now /\ snapshots' = snapshots
    BY <1>2 DEF To
  <2>2. ChartTypeOK' /\ chart'.at = "dates"
    BY <1>1, <2>1 DEF ChartTypeOK, ChartStages
  <2>3. /\ chart'.dates = chart.dates /\ chart'.points = chart.points /\ chart'.start = chart.start
        /\ chart'.end = chart.end /\ chart'.splitter = chart.splitter
    BY <1>1, <2>1 DEF ChartTypeOK
  <2>4. Drawing'
    BY <1>1, <2>3 DEF Drawing, Drawn
  <2>. QED
    BY <2>2, <2>4 DEF ChartInv
<1>. QED
  BY <1>1, <1>2, EndKeeps DEF AskCoingecko


(* A sequence with one more.                                                   *)
LEMMA OneMore ==
  ASSUME NEW S, NEW s \in Seq(S), NEW x \in S
  PROVE  /\ Append(s, x) \in Seq(S) /\ Len(Append(s, x)) = Len(s) + 1 /\ Len(s) \in Nat
         /\ \A i \in 1..Len(s) : Append(s, x)[i] = s[i]
         /\ Append(s, x)[Len(s) + 1] = x
OBVIOUS

(* The last date lies in the calendar, and so does the next one and the end.   *)
LEMMA LastDate ==
  ASSUME ChartTypeOK, Drawing
  PROVE  /\ Len(chart.dates) \in Nat \ {0} /\ InCalendar(chart.dates[Len(chart.dates)])
         /\ InCalendar(chart.end) /\ chart.end \in Nat
         /\ \A u \in Nat : u <= chart.end => InCalendar(u)
<1>1. /\ now \in Nat /\ InCalendar(now + 1) /\ chart.end \in Nat /\ chart.end <= now + 1
  BY NowInCalendar DEF ChartTypeOK
<1>2. MonthStarts[Len(MonthStarts)] * Day \in Nat
  BY ChartConstants
<1>3. ASSUME NEW u \in Nat, u <= chart.end
      PROVE  InCalendar(u)
  BY <1>1, <1>2, <1>3 DEF InCalendar
<1>4. Len(chart.dates) \in Nat \ {0} /\ chart.dates[Len(chart.dates)] \in Nat
  BY DEF ChartTypeOK, Drawing, Drawn
<1>. QED
  BY <1>1, <1>3, <1>4 DEF Drawing

LEMMA ExtendKeeps ==
  ASSUME ChartInv, Extend
  PROVE  ChartInv'
<1> DEFINE d == chart.dates
           n == Len(chart.dates)
           u == FloorHour(NextDate)
<1>1. ChartTypeOK /\ Drawing /\ chart.at = "dates"
  BY DEF ChartInv, Extend
<1>2. /\ n \in Nat \ {0} /\ InCalendar(d[n]) /\ chart.end \in Nat
      /\ \A v \in Nat : v <= chart.end => InCalendar(v)
  BY <1>1, LastDate
<1>3. chart.splitter \in Splitters /\ NextDate = Step(chart.splitter, d[n])
  BY <1>1 DEF Drawing, Drawn, NextDate
<1>4. u \in Nat /\ d[n] < u /\ u <= NextDate /\ u % TicksPerHour = 0
  BY <1>2, <1>3, StepOnTheHour
<1>5. NextDate <= chart.end /\ NextDate \in Nat
  BY <1>2, <1>3, StepGoesOn DEF Extend
<1>6. NoGap(chart.splitter, d[n], u)
  <2>1. d[n] \in Nat /\ d[n] <= u /\ u <= chart.end
    BY <1>2, <1>4, <1>5 DEF InCalendar
  <2>2. InCalendar(u)
    BY <1>2, <1>4, <2>1
  <2>. QED
    BY <1>2, <1>3, <1>4, <2>1, <2>2, StepLeavesNoGap
<1>7. chart' = [chart EXCEPT !.dates = Append(chart.dates, u)] /\ now' = now /\ snapshots' = snapshots
  BY DEF Extend, To
<1> HIDE DEF u
<1>8. /\ chart'.dates = Append(d, u) /\ chart'.points = chart.points /\ chart'.start = chart.start
      /\ chart'.end = chart.end /\ chart'.splitter = chart.splitter /\ chart'.at = chart.at
  BY <1>1, <1>7 DEF ChartTypeOK
<1>9. /\ Append(d, u) \in Seq(Nat) /\ Len(Append(d, u)) = n + 1
      /\ \A i \in 1..n : Append(d, u)[i] = d[i]
      /\ Append(d, u)[n + 1] = u
  BY <1>1, <1>4, OneMore DEF ChartTypeOK
<1> DEFINE e == Append(d, u)
<1> HIDE DEF e
<1>10. ChartTypeOK'
  BY <1>1, <1>7, <1>9 DEF ChartTypeOK
<1>11. Len(e) = n + 1 /\ (\A i \in 1..n : e[i] = d[i]) /\ e[n + 1] = u /\ chart'.dates = e
  BY <1>8, <1>9 DEF e
<1>12. ASSUME NEW i \in 1..n
       PROVE  e[i] < e[i + 1] /\ NoGap(chart.splitter, e[i], e[i + 1])
  <2>1. CASE i = n
    BY <1>2, <1>4, <1>6, <1>11, <2>1
  <2>2. CASE i # n
    <3>1. i \in 1..(n - 1) /\ i + 1 \in 1..n
      BY <1>2, <2>2
    <3>2. d[i] < d[i + 1] /\ NoGap(chart.splitter, d[i], d[i + 1])
      BY <1>1, <3>1 DEF Drawing, Drawn
    <3>3. e[i] = d[i] /\ e[i + 1] = d[i + 1]
      BY <1>11, <3>1
    <3>. QED
      BY <3>2, <3>3
  <2>. QED
    BY <2>1, <2>2
<1>13. ASSUME NEW i \in 2..(n + 1)
       PROVE  e[i] % TicksPerHour = 0
  <2>1. CASE i = n + 1
    BY <1>4, <1>11, <2>1
  <2>2. CASE i # n + 1
    <3>1. i \in 2..n /\ i \in 1..n
      BY <1>2, <2>2
    <3>. QED
      BY <1>1, <1>11, <3>1 DEF Drawing
  <2>. QED
    BY <2>1, <2>2
<1>14. Drawn'
  <2>1. e[1] = chart.start
    BY <1>1, <1>2, <1>11 DEF Drawing, Drawn
  <2>2. \A i \in 1..(Len(e) - 1) : NoGap(chart.splitter, e[i], e[i + 1])
    BY <1>2, <1>11, <1>12
  <2>. QED
    BY <1>2, <1>3, <1>8, <1>11, <2>1, <2>2 DEF Drawn
<1>15. Drawing'
  <2>1. e[Len(e)] <= chart.end
    BY <1>2, <1>4, <1>5, <1>11
  <2>2. chart'.points = <<>>
    BY <1>1, <1>8 DEF Drawing
  <2>3. \A i \in 1..(Len(e) - 1) : e[i] < e[i + 1]
    BY <1>2, <1>11, <1>12
  <2>4. \A i \in 2..Len(e) : e[i] % TicksPerHour = 0
    BY <1>11, <1>13
  <2>. QED
    BY <1>8, <1>11, <1>14, <2>1, <2>2, <2>3, <2>4 DEF Drawing
<1>. QED
  BY <1>1, <1>8, <1>10, <1>15 DEF ChartInv

LEMMA CloseKeeps ==
  ASSUME ChartInv, Close
  PROVE  ChartInv'
<1> DEFINE d == chart.dates
           n == Len(chart.dates)
           u == chart.end
<1>1. ChartTypeOK /\ Drawing /\ chart.at = "dates"
  BY DEF ChartInv, Close
<1>2. n \in Nat \ {0} /\ InCalendar(d[n]) /\ u \in Nat /\ InCalendar(u) /\ d[n] <= u
  BY <1>1, LastDate DEF Drawing
<1>3. chart.splitter \in Splitters /\ NextDate = Step(chart.splitter, d[n])
  BY <1>1 DEF Drawing, Drawn, NextDate
<1>4. u <= NextDate
  BY <1>2, <1>3, StepGoesOn DEF Close
<1>5. NoGap(chart.splitter, d[n], u)
  BY <1>2, <1>3, <1>4, StepLeavesNoGap
<1>6. /\ chart' = [chart EXCEPT !.dates = Append(chart.dates, u), !.at = "prices"]
      /\ now' = now /\ snapshots' = snapshots
  BY DEF Close, To, Closed
<1>7. /\ chart'.dates = Append(d, u) /\ chart'.points = chart.points /\ chart'.start = chart.start
      /\ chart'.end = u /\ chart'.splitter = chart.splitter /\ chart'.at = "prices"
  BY <1>1, <1>6 DEF ChartTypeOK
<1>8. /\ Append(d, u) \in Seq(Nat) /\ Len(Append(d, u)) = n + 1
      /\ \A i \in 1..n : Append(d, u)[i] = d[i]
      /\ Append(d, u)[n + 1] = u
  BY <1>1, <1>2, OneMore DEF ChartTypeOK
<1> DEFINE e == Append(d, u)
<1> HIDE DEF e
<1>9. ChartTypeOK'
  BY <1>1, <1>6, <1>8 DEF ChartTypeOK, ChartStages
<1>10. Len(e) = n + 1 /\ (\A i \in 1..n : e[i] = d[i]) /\ e[n + 1] = u /\ chart'.dates = e
  BY <1>7, <1>8 DEF e
<1>11. ASSUME NEW i \in 1..n
       PROVE  /\ e[i] < e[i + 1] \/ (i = n /\ e[i] = e[i + 1])
              /\ NoGap(chart.splitter, e[i], e[i + 1])
              /\ i > 1 => e[i] % TicksPerHour = 0
  <2>1. i > 1 => d[i] % TicksPerHour = 0
    BY <1>1, <1>2 DEF Drawing
  <2>2. CASE i = n
    <3>1. e[i] = d[n] /\ e[i + 1] = u /\ d[n] \in Nat
      BY <1>2, <1>10, <2>2 DEF InCalendar
    <3>. QED
      BY <1>2, <1>5, <2>1, <2>2, <3>1
  <2>3. CASE i # n
    <3>1. i \in 1..(n - 1) /\ i + 1 \in 1..n
      BY <1>2, <2>3
    <3>2. d[i] < d[i + 1] /\ NoGap(chart.splitter, d[i], d[i + 1])
      BY <1>1, <3>1 DEF Drawing, Drawn
    <3>3. e[i] = d[i] /\ e[i + 1] = d[i + 1]
      BY <1>10, <3>1
    <3>. QED
      BY <2>1, <3>2, <3>3
  <2>. QED
    BY <2>2, <2>3
<1>12. Drawn'
  <2>1. e[1] = chart.start
    BY <1>1, <1>2, <1>10 DEF Drawing, Drawn
  <2>2. \A i \in 1..(Len(e) - 1) : NoGap(chart.splitter, e[i], e[i + 1])
    <3>1. Len(e) - 1 = n
      BY <1>2, <1>10
    <3>. QED
      BY <1>11, <3>1
  <2>. QED
    BY <1>2, <1>3, <1>7, <1>10, <2>1, <2>2 DEF Drawn
<1>13. ToTheEnd'
  <2>1. Len(e) >= 2 /\ e[Len(e)] = u /\ Len(e) - 1 = n
    BY <1>2, <1>10
  <2>. QED
    BY <1>7, <1>10, <1>11, <1>12, <2>1 DEF ToTheEnd
<1>14. Priced'
  <2>1. chart'.points = <<>> /\ Len(<<>>) = 0
    BY <1>1, <1>7 DEF Drawing
  <2>. QED
    BY <1>2, <1>7, <1>10, <2>1 DEF Priced
<1>. QED
  BY <1>7, <1>9, <1>13, <1>14 DEF ChartInv


(* The dates stay when a price is attached or something is recorded.           *)
LEMMA DatesStay ==
  ASSUME ToTheEnd, chart'.dates = chart.dates, chart'.start = chart.start,
         chart'.end = chart.end, chart'.splitter = chart.splitter
  PROVE  ToTheEnd'
BY DEF ToTheEnd, Drawn

LEMMA PointKeeps ==
  ASSUME ChartInv, chart.at = "prices", NEW price \in Nat \union {NoPrice},
         PriceOK(chart.route, snapshots, now, Asked, price), Point(price)
  PROVE  ChartInv'
<1> DEFINE p == chart.points
           q == Append(p, price)
           n == Len(chart.dates)
           at == IF Len(p) + 1 = n THEN "answered" ELSE "prices"
<1>1. ChartTypeOK /\ ToTheEnd /\ Priced
  BY DEF ChartInv
<1>2. /\ chart' = [chart EXCEPT !.points = Append(p, price), !.at = at]
      /\ now' = now /\ snapshots' = snapshots
  BY DEF Point, To
<1>3. /\ q \in Seq(Nat \union {NoPrice}) /\ Len(q) = Len(p) + 1
      /\ Len(p) \in Nat /\ n \in Nat
      /\ \A i \in 1..Len(p) : q[i] = p[i]
      /\ q[Len(p) + 1] = price
  BY <1>1, OneMore DEF ChartTypeOK
<1>4. at \in {"answered", "prices"} /\ at \in ChartStages
  BY DEF ChartStages
<1>5. ChartTypeOK'
  BY <1>1, <1>2, <1>3, <1>4 DEF ChartTypeOK
<1>6. /\ chart'.dates = chart.dates /\ chart'.start = chart.start /\ chart'.end = chart.end
      /\ chart'.splitter = chart.splitter /\ chart'.route = chart.route
      /\ chart'.points = q /\ chart'.at = at
  BY <1>1, <1>2 DEF ChartTypeOK
<1>7. ToTheEnd'
  BY <1>1, <1>6, DatesStay
<1>8. Len(p) < n
  BY <1>1 DEF Priced
<1>9. ASSUME NEW i \in 1..(Len(p) + 1)
      PROVE  PriceOK(chart.route, snapshots, now, chart.dates[i], q[i])
  <2>1. CASE i = Len(p) + 1
    BY <1>3, <2>1 DEF Asked
  <2>2. CASE i # Len(p) + 1
    <3>1. i \in 1..Len(p) /\ q[i] = p[i]
      BY <1>3, <2>2
    <3>. QED
      BY <1>1, <3>1 DEF Priced
  <2>. QED
    BY <2>1, <2>2
<1> HIDE DEF q
<1>10. /\ at = "prices" => Len(p) + 1 < n
       /\ at = "answered" => Len(p) + 1 = n
  BY <1>3, <1>8
<1>11. Priced'
  <2>1. \A i \in 1..Len(q) : PriceOK(chart'.route, snapshots', now', chart'.dates[i], q[i])
    BY <1>2, <1>3, <1>6, <1>9
  <2> HIDE DEF at
  <2>. QED
    BY <1>3, <1>6, <1>8, <1>10, <2>1 DEF Priced
<1>. QED
  BY <1>4, <1>5, <1>6, <1>7, <1>11 DEF ChartInv

LEMMA AttachKeeps ==
  ASSUME ChartInv, AttachPrice \/ AttachAsset
  PROVE  ChartInv'
<1>1. ChartTypeOK /\ Priced /\ chart.at = "prices"
  BY DEF ChartInv, AttachPrice, AttachAsset
<1>2. Len(chart.points) + 1 \in 1..Len(chart.dates) /\ Asked \in Nat
  <2>1. chart.dates \in Seq(Nat) /\ Len(chart.points) \in Nat
    BY <1>1 DEF ChartTypeOK
  <2>2. Len(chart.points) < Len(chart.dates) /\ Len(chart.dates) \in Nat
    BY <1>1, <2>1 DEF Priced
  <2>3. Len(chart.points) + 1 \in 1..Len(chart.dates)
    BY <2>1, <2>2
  <2>. QED
    BY <2>1, <2>3 DEF Asked
<1>3. CASE AttachPrice
  <2>1. PriceOK(chart.route, snapshots, now, Asked, Asked)
    BY <1>3 DEF AttachPrice, PriceOK
  <2>2. Point(Asked) /\ Asked \in Nat \union {NoPrice}
    BY <1>2, <1>3 DEF AttachPrice
  <2>. QED
    BY <1>1, <2>1, <2>2, PointKeeps
<1>4. CASE AttachAsset
  <2> DEFINE price == IF Upto(Asked) = {} THEN NoPrice ELSE Latest(Upto(Asked))
  <2>1. price \in Nat \union {NoPrice}
    <3>1. snapshots \subseteq Nat
      <4>1. now \in Nat /\ snapshots \subseteq 0..(now + 1)
        BY <1>1, ChartAssumption DEF ChartTypeOK, ChartAssumption
      <4>. QED
        BY <4>1
    <3>2. Upto(Asked) \subseteq Nat
      BY <3>1 DEF Upto
    <3>3. \A t \in Upto(Asked) : t <= Asked
      BY DEF Upto
    <3>4. Upto(Asked) # {} => Latest(Upto(Asked)) \in Upto(Asked)
      BY <1>2, <3>2, <3>3, LatestOf
    <3>. QED
      BY <3>2, <3>4
  <2>2. PriceOK(chart.route, snapshots, now, Asked, price)
    BY <1>4 DEF PriceOK, AttachAsset, Upto
  <2>3. Point(price)
    BY <1>4 DEF AttachAsset
  <2> HIDE DEF price
  <2>. QED
    BY <1>1, <2>1, <2>2, <2>3, PointKeeps
<1>. QED
  BY <1>3, <1>4

(* What is recorded while the prices are looked up changes only what the       *)
(* dates from now on have behind them.                                         *)
LEMMA RecordedLater ==
  ASSUME NEW clock \in Nat, NEW shots, shots \subseteq Nat, NEW t \in Nat, t >= clock,
         NEW date \in Nat, NEW price, NEW route,
         PriceOK(route, shots, clock, date, price)
  PROVE  PriceOK(route, shots \union {t}, clock, date, price)
<1> DEFINE before == {s \in shots : s <= date}
           past == {s \in shots \union {t} : s <= date}
<1>1. CASE t <= date
  <2>1. t \in past /\ past \subseteq Nat /\ \A s \in past : s <= date
    BY <1>1
  <2> HIDE DEF past
  <2>2. t <= Latest(past) /\ Latest(past) \in Nat
    BY <2>1, LatestOf
  <2>3. date >= clock /\ Latest(past) >= clock
    BY <1>1, <2>2
  <2>4. route = "token" => price = date
    BY DEF PriceOK
  <2>. QED
    BY <2>3, <2>4 DEF PriceOK, past
<1>2. CASE ~(t <= date)
  <2>1. past = before
    BY <1>2
  <2>. QED
    BY <2>1 DEF PriceOK
<1>. QED
  BY <1>1, <1>2

LEMMA RecordKeeps ==
  ASSUME ChartInv, NEW t \in now..(now + 1), Record(t)
  PROVE  ChartInv'
<1>1. ChartTypeOK /\ ToTheEnd /\ Priced /\ chart.at = "prices" /\ chart.route = "user"
  BY DEF ChartInv, Record
<1>2. now' = now /\ chart' = chart /\ snapshots' = snapshots \union {t} /\ now \in Nat
  BY <1>1, ChartAssumption DEF Record, ChartTypeOK, ChartAssumption
<1>3. snapshots' \subseteq 0..(now + 1) /\ t \in Nat /\ t >= now /\ snapshots \subseteq Nat
  BY <1>1, <1>2 DEF ChartTypeOK
<1>4. ChartTypeOK'
  BY <1>1, <1>2, <1>3 DEF ChartTypeOK
<1>5. ToTheEnd'
  BY <1>1, <1>2, DatesStay
<1>6. Priced'
  <2>1. \A i \in 1..Len(chart.points) : chart.dates[i] \in Nat
    <3>1. chart.dates \in Seq(Nat) /\ Len(chart.points) \in Nat
      BY <1>1 DEF ChartTypeOK
    <3>2. Len(chart.points) <= Len(chart.dates)
      BY <1>1 DEF Priced
    <3>. QED
      BY <3>1, <3>2
  <2>2. \A i \in 1..Len(chart.points) :
          PriceOK(chart.route, snapshots, now, chart.dates[i], chart.points[i])
    BY <1>1 DEF Priced
  <2>3. \A i \in 1..Len(chart.points) :
          PriceOK(chart.route, snapshots \union {t}, now, chart.dates[i], chart.points[i])
    BY <1>2, <1>3, <2>1, <2>2, RecordedLater
  <2>. QED
    BY <1>1, <1>2, <2>3 DEF Priced
<1>. QED
  BY <1>1, <1>2, <1>4, <1>5, <1>6 DEF ChartInv

LEMMA ChartStays ==
  ASSUME ChartInv, UNCHANGED chartVars
  PROVE  ChartInv'
<1>1. now' = now /\ chart' = chart /\ snapshots' = snapshots
  BY DEF chartVars
<1>. QED
  BY <1>1 DEF ChartInv, ChartTypeOK, Drawing, Drawn, ToTheEnd, Priced

LEMMA ChartNextKeeps ==
  ASSUME ChartInv, [ChartNext]_chartVars
  PROVE  ChartInv'
BY FormKeeps, CoingeckoKeeps, ExtendKeeps, CloseKeeps, AttachKeeps, RecordKeeps, ChartStays
   DEF ChartNext

(* A chart that is answered goes from the start of its period to its end       *)
(* without a gap, and each of its points has the price of its own date, for    *)
(* any calendar, moment and length of a period (formDates, toDates and the     *)
(* prices of src/src/modules/charts).                                           *)
THEOREM ChartsCoverPeriods == ChartSpec => []ChartCoversItsPeriod
<1>1. ChartInit => ChartInv
  BY ChartInitHolds
<1>2. ChartInv /\ [ChartNext]_chartVars => ChartInv'
  BY ChartNextKeeps
<1>3. ChartInv => ChartCoversItsPeriod
  <2> SUFFICES ASSUME ChartInv, chart.at = "answered"
               PROVE  ChartCoversItsPeriod
    BY DEF ChartCoversItsPeriod
  <2> DEFINE n == Len(chart.dates)
  <2>1. ToTheEnd /\ Priced /\ Drawn
    BY DEF ChartInv, ToTheEnd
  <2>2. Len(chart.points) = n /\ \A i \in 1..n :
                                     PriceOK(chart.route, snapshots, now, chart.dates[i], chart.points[i])
    BY <2>1 DEF Priced
  <2>. QED
    BY <2>1, <2>2 DEF ChartCoversItsPeriod, ToTheEnd, Drawn, PriceOK
<1>. QED
  BY <1>1, <1>2, <1>3, PTL DEF ChartSpec

-------------------------------------------------------------------------------
(* Lists. What a list may hold, and where a row is in it: after those of the   *)
(* walk's beginning that come before it.                                       *)
Things == IF walk.list \in Distinct THEN Nat ELSE Rows
Clear(x) == Steady(x) /\ ~Tied(x)
Standing(x) == Cardinality({y \in walk.began : Ahead(y, x)}) + 1

(* How often a sequence shows a row: once, or not at all.                      *)
Once(s, x) == \E i \in DOMAIN s : s[i] = x /\ \A j \in DOMAIN s : s[j] = x => j = i
Never(s, x) == \A i \in DOMAIN s : s[i] # x
Shows(s, x, there) == IF there THEN Once(s, x) ELSE Never(s, x)
(* A row is at a place of a sequence and nowhere else.                         *)
StandsAt(s, x, k) == k \in DOMAIN s /\ \A i \in DOMAIN s : s[i] = x <=> i = k

AsListed(s) == \A i, j \in DOMAIN s : i < j => Earlier(s[i], s[j])

Skipped == (walk.page - 1) * walk.size
Reached == walk.page * walk.size

StagesOf(list) ==
  CASE list = "transactions" -> {"count", "page", "rows", "answered"}
    [] list \in CountFirst \ {"transactions"} -> {"count", "page", "answered"}
    [] list = "assets" -> {"look", "page", "count", "ready", "answered"}
    [] list \in PageFirst \ {"assets"} -> {"page", "count", "answered"}
    [] list \in Gathered -> {"gather", "whole", "answered"}
    [] list \in OneCall -> {"call", "attach", "answered"}
    [] OTHER -> {"look", "ready", "answered"}
ListStages == {"count", "page", "rows", "ready", "gather", "whole", "call", "attach",
               "look", "answered"}
HasPage == \/ req.at \in {"rows", "ready", "attach"}
           \/ req.at = "count" /\ walk.list \in PageFirst
HasTotal == \/ req.at \in {"rows", "ready", "attach"}
            \/ req.at = "page" /\ walk.list \in CountFirst

WalkTypeOK ==
  /\ table \subseteq Rows
  /\ walk \in [list : Lists, search : Searches, size : Sizes, sorted : BOOLEAN,
               page : Nat \ {0}, seen : Seq(Things), status : {"walking", "over", "failed"},
               moves : Nat, began : SUBSET Things, moved : SUBSET Things]
  /\ req \in [at : ListStages, rows : Seq(Things), total : Nat, source : Sources,
              sizes : SUBSET Nat, among : SUBSET Rows]
  /\ IsFiniteSet(req.sizes) /\ IsFiniteSet(walk.began)
  /\ req.at \in StagesOf(walk.list)
  /\ walk.sorted => walk.list \in {"lent", "positions"}
  /\ walk.status # "walking" => req.at = "answered"
  /\ walk.status = "over" => walk.page >= PagesOf(req.total)

(* The list is that of the walk's beginning but for what moved.                *)
SinceBegan ==
  /\ walk.began \ walk.moved \subseteq Shown(table)
  /\ Shown(table) \subseteq walk.began \union walk.moved
  /\ walk.moves = 0 => walk.moved = {}

Genuine(x) == /\ x \in walk.began \union walk.moved
              /\ walk.list = "transactions" => Found(x, walk.search)
OnlyGenuine ==
  /\ \A i \in DOMAIN walk.seen : Genuine(walk.seen[i])
  /\ \A i \in DOMAIN req.rows : Genuine(req.rows[i])

(* How far the walk is, seen from one row: it has been shown when its place    *)
(* is behind, it is on the page when its place is, and a list that seems to    *)
(* end does not end before it.                                                 *)
Done == IF req.at = "answered" THEN Reached ELSE Skipped
Seen(x) == Shows(walk.seen, x, Standing(x) <= Done /\ ~Dropped(x))
OnItsWay(x) ==
  LET k == Standing(x) IN
  /\ HasPage => /\ Shows(req.rows, x, Skipped < k /\ k <= Reached)
                /\ req.rows = <<>> => k <= Skipped
  /\ HasTotal => k <= req.total
  /\ req.at = "answered" /\ walk.page >= PagesOf(req.total) => k <= Reached
  /\ \/ req.at = "gather" /\ req.source = 2
     \/ req.at = "whole"
     => \A y \in walk.began : (y = x \/ Ahead(y, x)) /\ (req.at = "gather" => y.source = 1)
          => y \in ToSet(req.rows)

GatheredOK ==
  /\ req.at = "gather" => \/ req.source = 1 /\ req.rows = <<>>
                          \/ /\ req.source = 2 /\ AsListed(req.rows)
                             /\ \A i \in DOMAIN req.rows : req.rows[i].source = 1
  /\ req.at = "whole" => AsListed(req.rows)

(* The addresses that the list of assets found first are those of all its rows *)
(* then, and of the rows that stay.                                            *)
Drifts == walk.list = "assets" /\ Cardinality(req.sizes) > 1
LookedOK ==
  walk.list = "assets" /\ req.at \in {"page", "count"} =>
    /\ walk.began \ walk.moved \subseteq req.among
    /\ Drifts \/ table \subseteq req.among

SizesOK ==
  /\ req.at # "answered" => Cardinality(Shown(table)) \in req.sizes
  /\ HasTotal => req.total \in req.sizes \/ Drifts
  /\ req.at = "gather" /\ req.source = 2 =>
       \/ Cardinality(req.sizes) > 1
       \/ ToSet(req.rows) = {r \in Shown(table) : r.source = 1}
  /\ req.at = "whole" => Cardinality(req.sizes) > 1 \/ ToSet(req.rows) = Shown(table)

(* Where nothing moves, the pages of transactions go on to the last row.       *)
PagesOn ==
  walk.list = "transactions" /\ walk.status = "walking" /\ walk.moved = {} =>
    LET n == Cardinality(walk.began) IN
    /\ walk.page = 1 \/ Skipped < n
    /\ req.at # "count" => req.total = n
    /\ req.at = "rows" /\ req.rows = <<>> => n <= Skipped

WalkInv ==
  /\ WalkTypeOK /\ SinceBegan /\ OnlyGenuine
  /\ walk.status # "failed" => \A x \in walk.began : Clear(x) => Seen(x) /\ OnItsWay(x)
  /\ GatheredOK /\ SizesOK /\ LookedOK /\ PagesOn /\ TotalsAreReal /\ FailsForAReason

-------------------------------------------------------------------------------
(* Sequences that hold each of their rows once.                                *)
(* As many values as places, when no value is at two of them.                  *)
LEMMA AsMany ==
  ASSUME NEW S, IsFiniteSet(S), NEW T, NEW s,
         \A i \in S : s[i] \in T, \A t \in T : \E i \in S : s[i] = t,
         \A i, j \in S : s[i] = s[j] => i = j
  PROVE  IsFiniteSet(T) /\ Cardinality(T) = Cardinality(S)
<1> DEFINE f == [i \in S |-> s[i]]
<1>1. f \in [S -> T] /\ \A i \in S : f[i] = s[i]
  OBVIOUS
<1> HIDE DEF f
<1>2. f \in Bijection(S, T)
  BY <1>1 DEF Bijection, Injection, Surjection, IsInjective
<1>. QED
  BY <1>2, FS_Bijection DEF ExistsBijection

LEMMA AsManyTo ==
  ASSUME NEW n \in Nat, NEW T, NEW s,
         \A i \in 1..n : s[i] \in T, \A t \in T : \E i \in 1..n : s[i] = t,
         \A i, j \in 1..n : s[i] = s[j] => i = j
  PROVE  IsFiniteSet(T) /\ Cardinality(T) = n
<1>1. IsFiniteSet(1..n) /\ Cardinality(1..n) = n
  BY FS_Interval
<1>2. IsFiniteSet(T) /\ Cardinality(T) = Cardinality(1..n)
  <2> DEFINE S == 1..n
  <2>1. IsFiniteSet(S) /\ \A i \in S : s[i] \in T
    BY <1>1
  <2>2. (\A t \in T : \E i \in S : s[i] = t) /\ (\A i, j \in S : s[i] = s[j] => i = j)
    OBVIOUS
  <2> HIDE DEF S
  <2>3. IsFiniteSet(T) /\ Cardinality(T) = Cardinality(S)
    BY <2>1, <2>2, AsMany
  <2>. QED
    BY <2>3 DEF S
<1>. QED
  BY <1>1, <1>2

(* An order of a set has all of it.                                            *)
LEMMA OrderOf ==
  ASSUME NEW S, IsFiniteSet(S), NEW s \in SetToSeqs(S)
  PROVE  /\ s \in Seq(S) /\ Len(s) = Cardinality(S) /\ Len(s) \in Nat
         /\ DOMAIN s = 1..Len(s)
         /\ \A i, j \in DOMAIN s : s[i] = s[j] => i = j
         /\ \A x \in S : \E i \in DOMAIN s : s[i] = x
         /\ ToSet(s) = S
<1> DEFINE n == Cardinality(S)
           T == {s[i] : i \in 1..n}
<1>1. n \in Nat
  BY FS_CardinalityType
<1>2. s \in [1..n -> S] /\ \A i, j \in 1..n : i # j => s[i] # s[j]
  BY DEF SetToSeqs
<1>4. Cardinality(T) = n
  <2>1. \A i, j \in 1..n : s[i] = s[j] => i = j
    BY <1>2
  <2>2. (\A i \in 1..n : s[i] \in T) /\ \A t \in T : \E i \in 1..n : s[i] = t
    OBVIOUS
  <2> HIDE DEF n, T
  <2>. QED
    BY <1>1, <2>1, <2>2, AsManyTo
<1>5. T \in SUBSET S
  BY <1>2
<1>6. T = S
  <2> HIDE DEF T
  <2>. QED
    BY <1>4, <1>5, FS_Subset
<1> HIDE DEF n
<1>7. s \in Seq(S) /\ Len(s) = n /\ DOMAIN s = 1..n
  BY <1>1, <1>2
<1>. QED
  BY <1>1, <1>2, <1>6, <1>7 DEF ToSet, n

(* The place of a row in a sequence is given by the rows before it.            *)
LEMMA PlaceOf ==
  ASSUME NEW T, NEW s \in Seq(T), NEW k \in 1..Len(s), NEW x, s[k] = x,
         \A i, j \in 1..Len(s) : s[i] = s[j] => i = j,
         NEW B, \A y \in B : \E i \in 1..Len(s) : s[i] = y,
         \A i \in 1..Len(s) : i < k <=> s[i] \in B
  PROVE  Cardinality(B) + 1 = k /\ StandsAt(s, x, Cardinality(B) + 1)
<1>1. Len(s) \in Nat /\ DOMAIN s = 1..Len(s) /\ k - 1 \in Nat
  OBVIOUS
<1>2. \A i \in 1..(k - 1) : s[i] \in B
  BY <1>1
<1>3. \A y \in B : \E i \in 1..(k - 1) : s[i] = y
  <2> SUFFICES ASSUME NEW y \in B
               PROVE  \E i \in 1..(k - 1) : s[i] = y
    OBVIOUS
  <2>1. PICK i \in 1..Len(s) : s[i] = y
    OBVIOUS
  <2>2. i < k
    BY <2>1
  <2>. QED
    BY <1>1, <2>1, <2>2
<1>4. \A i, j \in 1..(k - 1) : s[i] = s[j] => i = j
  BY <1>1
<1>5. Cardinality(B) = k - 1
  BY <1>1, <1>2, <1>3, <1>4, AsManyTo
<1>6. Cardinality(B) + 1 = k
  BY <1>1, <1>5
<1>. QED
  BY <1>1, <1>6 DEF StandsAt

(* A page of a sequence.                                                       *)
LEMMA PageOf ==
  ASSUME NEW T, NEW s \in Seq(T), NEW lo \in Nat, NEW hi \in Nat, lo < hi
  PROVE  LET t == SubSeq(s, lo + 1, IF hi < Len(s) THEN hi ELSE Len(s)) IN
         /\ t \in Seq(T)
         /\ t = <<>> => Len(s) <= lo
         /\ \A i \in DOMAIN t : t[i] \in ToSet(s)
         /\ \A x, k : StandsAt(s, x, k) => Shows(t, x, lo < k /\ k <= hi)
<1> DEFINE to == IF hi < Len(s) THEN hi ELSE Len(s)
           t == SubSeq(s, lo + 1, to)
<1>1. Len(s) \in Nat /\ DOMAIN s = 1..Len(s) /\ to \in Nat /\ to <= Len(s) /\ to <= hi
  OBVIOUS
<1>2. to = hi \/ to = Len(s)
  OBVIOUS
<1> HIDE DEF to, t
<1>3. CASE to <= lo
  <2>1. t = <<>> /\ Len(s) <= lo
    <3>1. to = Len(s)
      <4>1. to \in Nat /\ to <= lo
        BY <1>1, <1>3
      <4>2. to < hi
        BY <4>1
      <4>3. to # hi
        BY <4>1, <4>2
      <4>. QED
        BY <1>2, <4>3
    <3>2. t \in Seq(T) /\ Len(t) = 0
      BY <1>1, <1>3 DEF t
    <3>. QED
      BY <1>3, <3>1, <3>2
  <2>2. \A x, k : StandsAt(s, x, k) => ~(lo < k)
    BY <1>1, <2>1 DEF StandsAt
  <2>3. \A x : Never(t, x)
    BY <2>1 DEF Never
  <2>. QED
    BY <2>1, <2>2, <2>3 DEF Shows, t, to
<1>4. CASE lo < to
  <2>1. /\ t \in Seq(T) /\ Len(t) = to - lo /\ DOMAIN t = 1..(to - lo)
        /\ \A i \in 1..(to - lo) : t[i] = s[lo + i]
    BY <1>1, <1>4 DEF t
  <2>2. \A i \in 1..(to - lo) : lo + i \in 1..Len(s)
    BY <1>1, <1>4
  <2>3. \A i \in DOMAIN t : t[i] \in ToSet(s)
    BY <1>1, <2>1, <2>2 DEF ToSet
  <2>4. t # <<>>
    BY <1>1, <1>4, <2>1
  <2>5. ASSUME NEW x, NEW k, StandsAt(s, x, k)
        PROVE  Shows(t, x, lo < k /\ k <= hi)
    <3>1. k \in 1..Len(s) /\ \A i \in 1..Len(s) : s[i] = x <=> i = k
      BY <1>1, <2>5 DEF StandsAt
    <3>2. \A i \in 1..(to - lo) : t[i] = x <=> lo + i = k
      BY <2>1, <2>2, <3>1
    <3>3. CASE lo < k /\ k <= to
      <4>1. k - lo \in 1..(to - lo) /\ t[k - lo] = x
        BY <1>1, <3>1, <3>2, <3>3
      <4>2. \A j \in DOMAIN t : t[j] = x => j = k - lo
        BY <1>1, <2>1, <3>1, <3>2
      <4>. QED
        BY <1>1, <2>1, <3>1, <3>3, <4>1, <4>2 DEF Shows, Once
    <3>4. CASE ~(lo < k /\ k <= to)
      <4>1. Never(t, x)
        BY <1>1, <2>1, <3>1, <3>2, <3>4 DEF Never
      <4>2. ~(lo < k /\ k <= hi)
        <5>1. k \in Nat /\ k <= Len(s)
          BY <1>1, <3>1
        <5>. QED
          BY <1>1, <1>2, <3>4, <5>1
      <4>. QED
        BY <4>1, <4>2 DEF Shows
    <3>. QED
      BY <3>3, <3>4
  <2>. QED
    BY <2>1, <2>3, <2>4, <2>5 DEF t, to
<1>. QED
  BY <1>1, <1>3, <1>4

(* What is shown once is shown a number of times that is one.                  *)
LEMMA OnceCounts ==
  ASSUME NEW s, NEW x
  PROVE  /\ Once(s, x) => Cardinality({i \in DOMAIN s : s[i] = x}) = 1
         /\ Never(s, x) => Cardinality({i \in DOMAIN s : s[i] = x}) = 0
<1> DEFINE at == {i \in DOMAIN s : s[i] = x}
<1>1. ASSUME Once(s, x)
      PROVE  Cardinality(at) = 1
  <2>1. PICK i \in DOMAIN s : s[i] = x /\ \A j \in DOMAIN s : s[j] = x => j = i
    BY <1>1 DEF Once
  <2>2. at = {i}
    BY <2>1
  <2> HIDE DEF at
  <2>. QED
    BY <2>2, FS_Singleton
<1>2. ASSUME Never(s, x)
      PROVE  Cardinality(at) = 0
  <2>1. at = {}
    BY <1>2 DEF Never
  <2> HIDE DEF at
  <2>. QED
    BY <2>1, FS_EmptySet
<1>. QED
  BY <1>1, <1>2

(* One page after the others: what was shown, and what is shown now.           *)
LEMMA OneAfterOther ==
  ASSUME NEW T, NEW s \in Seq(T), NEW t \in Seq(T), NEW x,
         NEW p \in BOOLEAN, NEW q \in BOOLEAN, ~(p /\ q),
         Shows(s, x, p), Shows(t, x, q)
  PROVE  Shows(s \o t, x, p \/ q)
<1> DEFINE u == s \o t
           m == Len(s)
           n == Len(t)
<1>1. /\ m \in Nat /\ n \in Nat /\ DOMAIN s = 1..m /\ DOMAIN t = 1..n
      /\ u \in Seq(T) /\ DOMAIN u = 1..(m + n)
      /\ \A i \in 1..m : u[i] = s[i]
      /\ \A i \in 1..n : u[m + i] = t[i]
  OBVIOUS
<1> HIDE DEF u, m, n
<1>2. ASSUME NEW i \in 1..(m + n), i \notin 1..m
      PROVE  i - m \in 1..n /\ u[i] = t[i - m]
  <2>1. i - m \in 1..n /\ m + (i - m) = i
    BY <1>1, <1>2
  <2>. QED
    BY <1>1, <2>1
<1>3. CASE Never(s, x) /\ Never(t, x)
  <2>1. ASSUME NEW i \in 1..(m + n)
        PROVE  u[i] # x
    <3>1. CASE i \in 1..m
      BY <1>1, <1>3, <3>1 DEF Never
    <3>2. CASE i \notin 1..m
      <4>1. i - m \in 1..n /\ u[i] = t[i - m]
        BY <1>2, <3>2
      <4>. QED
        BY <1>1, <1>3, <4>1 DEF Never
    <3>. QED
      BY <3>1, <3>2
  <2>2. ~p /\ ~q
    BY <1>3 DEF Shows, Once, Never
  <2>. QED
    BY <1>1, <2>1, <2>2 DEF Shows, Never, u
<1>4. CASE Once(s, x) /\ Never(t, x)
  <2>1. PICK i \in 1..m : s[i] = x /\ \A j \in 1..m : s[j] = x => j = i
    BY <1>1, <1>4 DEF Once
  <2>2. i \in 1..(m + n) /\ u[i] = x
    BY <1>1, <2>1
  <2>3. ASSUME NEW j \in 1..(m + n), u[j] = x
        PROVE  j = i
    <3>1. j \in 1..m
      BY <1>1, <1>2, <1>4, <2>3 DEF Never
    <3>. QED
      BY <1>1, <2>1, <2>3, <3>1
  <2>4. Once(u, x)
    BY <1>1, <2>2, <2>3 DEF Once
  <2>5. p
    BY <1>4 DEF Shows, Once, Never
  <2>. QED
    BY <2>4, <2>5 DEF Shows, u
<1>5. CASE Never(s, x) /\ Once(t, x)
  <2>1. PICK i \in 1..n : t[i] = x /\ \A j \in 1..n : t[j] = x => j = i
    BY <1>1, <1>5 DEF Once
  <2>2. m + i \in 1..(m + n) /\ u[m + i] = x
    BY <1>1, <2>1
  <2>3. ASSUME NEW j \in 1..(m + n), u[j] = x
        PROVE  j = m + i
    <3>1. j \notin 1..m
      BY <1>1, <1>5, <2>3 DEF Never
    <3>2. j - m = i
      BY <1>2, <2>1, <2>3, <3>1
    <3>. QED
      BY <1>1, <3>2
  <2>4. Once(u, x)
    BY <1>1, <2>2, <2>3 DEF Once
  <2>5. q
    BY <1>5 DEF Shows, Once, Never
  <2>. QED
    BY <2>4, <2>5 DEF Shows, u
<1>. QED
  BY <1>3, <1>4, <1>5 DEF Shows

LEMMA BothHold ==
  ASSUME NEW T, NEW s \in Seq(T), NEW t \in Seq(T)
  PROVE  /\ s \o t \in Seq(T) /\ Len(s \o t) = Len(s) + Len(t)
         /\ \A i \in DOMAIN (s \o t) : (s \o t)[i] \in ToSet(s) \union ToSet(t)
         /\ ToSet(s \o t) = ToSet(s) \union ToSet(t)
<1> DEFINE u == s \o t
           m == Len(s)
           n == Len(t)
<1>1. /\ m \in Nat /\ n \in Nat /\ DOMAIN s = 1..m /\ DOMAIN t = 1..n
      /\ u \in Seq(T) /\ DOMAIN u = 1..(m + n) /\ Len(u) = m + n
      /\ \A i \in 1..m : u[i] = s[i]
      /\ \A i \in 1..n : u[m + i] = t[i]
  OBVIOUS
<1> HIDE DEF u, m, n
<1>2. ASSUME NEW i \in 1..(m + n)
      PROVE  u[i] \in ToSet(s) \union ToSet(t)
  <2>1. CASE i \in 1..m
    BY <1>1, <2>1 DEF ToSet
  <2>2. CASE i \notin 1..m
    <3>1. i - m \in 1..n /\ m + (i - m) = i
      BY <1>1, <2>2
    <3>2. u[i] = t[i - m]
      BY <1>1, <3>1
    <3>. QED
      BY <1>1, <3>1, <3>2 DEF ToSet
  <2>. QED
    BY <2>1, <2>2
<1>3. ToSet(s) \subseteq ToSet(u)
  <2>1. \A i \in 1..m : i \in 1..(m + n)
    BY <1>1
  <2>. QED
    BY <1>1, <2>1 DEF ToSet
<1>4. ToSet(t) \subseteq ToSet(u)
  <2>1. \A i \in 1..n : m + i \in 1..(m + n)
    BY <1>1
  <2>. QED
    BY <1>1, <2>1 DEF ToSet
<1>5. ToSet(u) \subseteq ToSet(s) \union ToSet(t)
  BY <1>1, <1>2 DEF ToSet
<1>. QED
  BY <1>1, <1>2, <1>3, <1>4, <1>5 DEF u, m, n

(* Numbers below which others of their set lie: the first has one up to it.    *)
RankIn(at, i) == Cardinality({j \in at : j <= i})

LEMMA Ranks ==
  ASSUME NEW n \in Nat, NEW at \in SUBSET (1..n)
  PROVE  /\ Cardinality(at) \in Nat
         /\ \A i \in at : RankIn(at, i) \in 1..Cardinality(at)
         /\ \A i, j \in at : RankIn(at, i) = RankIn(at, j) => i = j
         /\ \A k \in 1..Cardinality(at) : \E i \in at : RankIn(at, i) = k
<1> DEFINE rank == [i \in at |-> RankIn(at, i)]
           UpTo(i) == {j \in at : j <= i}
           m == Cardinality(at)
           R == {rank[i] : i \in at}
<1>0. \A i \in at : rank[i] = RankIn(at, i)
  OBVIOUS
<1> HIDE DEF rank
<1>1. IsFiniteSet(at) /\ m \in Nat /\ at \subseteq Nat
  <2>1. IsFiniteSet(1..n) /\ at \in SUBSET (1..n)
    BY FS_Interval
  <2>2. IsFiniteSet(at)
    BY <2>1, FS_Subset
  <2>3. m \in Nat
    BY <2>2, FS_CardinalityType
  <2>. QED
    BY <2>1, <2>2, <2>3
<1>2. ASSUME NEW i \in at
      PROVE  /\ IsFiniteSet(UpTo(i)) /\ Cardinality(UpTo(i)) \in Nat
             /\ Cardinality(UpTo(i)) <= m /\ Cardinality(UpTo(i)) >= 1
             /\ rank[i] = Cardinality(UpTo(i))
  <2>1. UpTo(i) \in SUBSET at /\ i \in UpTo(i)
    OBVIOUS
  <2>2. rank[i] = Cardinality(UpTo(i))
    BY <1>0 DEF RankIn
  <2> HIDE DEF UpTo
  <2>3. IsFiniteSet(UpTo(i)) /\ Cardinality(UpTo(i)) <= m
    BY <1>1, <2>1, FS_Subset
  <2>4. Cardinality(UpTo(i)) \in Nat
    BY <2>3, FS_CardinalityType
  <2>5. Cardinality(UpTo(i)) # 0
    BY <2>1, <2>3, FS_EmptySet
  <2> HIDE DEF m
  <2>. QED
    BY <1>1, <2>2, <2>3, <2>4, <2>5
<1>3. ASSUME NEW i \in at, NEW j \in at, i < j
      PROVE  rank[i] < rank[j]
  <2>1. UpTo(i) \in SUBSET (UpTo(j) \ {j})
    <3>1. \A k \in at : k <= i => k <= j /\ k # j
      BY <1>1, <1>3
    <3>. QED
      BY <3>1
  <2>2. j \in UpTo(j)
    OBVIOUS
  <2> HIDE DEF UpTo
  <2>3. IsFiniteSet(UpTo(j) \ {j}) /\ Cardinality(UpTo(j) \ {j}) = Cardinality(UpTo(j)) - 1
    BY <1>2, <2>2, FS_RemoveElement
  <2>4. Cardinality(UpTo(i)) <= Cardinality(UpTo(j)) - 1
    BY <2>1, <2>3, FS_Subset
  <2>5. rank[i] = Cardinality(UpTo(i)) /\ rank[j] = Cardinality(UpTo(j))
    BY <1>2
  <2>6. Cardinality(UpTo(i)) \in Nat /\ Cardinality(UpTo(j)) \in Nat
    BY <1>2
  <2>. QED
    BY <2>4, <2>5, <2>6
<1>4. \A i \in at : rank[i] \in 1..m
  <2> HIDE DEF UpTo, m
  <2>. QED
    BY <1>1, <1>2
<1>5. ASSUME NEW i \in at, NEW j \in at, rank[i] = rank[j]
      PROVE  i = j
  <2>1. i \in Nat /\ j \in Nat
    OBVIOUS
  <2>2. rank[i] \in Nat
    BY <1>1, <1>4
  <2>3. ~(i < j) /\ ~(j < i)
    BY <1>3, <1>5, <2>2
  <2>. QED
    BY <2>1, <2>3
<1>6. Cardinality(R) = m
  <2>1. (\A i \in at : rank[i] \in R) /\ \A r \in R : \E i \in at : rank[i] = r
    OBVIOUS
  <2> HIDE DEF R, m
  <2>2. Cardinality(R) = Cardinality(at)
    BY <1>1, <1>5, <2>1, AsMany
  <2>. QED
    BY <2>2 DEF m
<1>7. R \in SUBSET (1..m)
  BY <1>4
<1>8. R = 1..m
  <2>1. IsFiniteSet(1..m) /\ Cardinality(1..m) = m
    BY <1>1, FS_Interval
  <2> HIDE DEF R, m
  <2>. QED
    BY <1>6, <1>7, <2>1, FS_Subset
<1>. QED
  BY <1>0, <1>1, <1>4, <1>5, <1>8

LEMMA KeptOf ==
  ASSUME NEW T, NEW rows \in Seq(T), NEW some
  PROVE  /\ Kept(rows, some) \in Seq(T)
         /\ \A i \in DOMAIN Kept(rows, some) : Kept(rows, some)[i] \in ToSet(rows) \intersect some
         /\ \A x : /\ Once(rows, x) /\ x \in some => Once(Kept(rows, some), x)
                   /\ Never(rows, x) \/ x \notin some => Never(Kept(rows, some), x)
<1> DEFINE at == {i \in DOMAIN rows : rows[i] \in some}
           rank(i) == RankIn(at, i)
           m == Cardinality(at)
           t == Kept(rows, some)
           pick(n) == CHOOSE i \in at : RankIn(at, i) = n
<1>1. Len(rows) \in Nat /\ DOMAIN rows = 1..Len(rows) /\ at \subseteq 1..Len(rows)
      /\ (\A i \in at : rows[i] \in T /\ rows[i] \in some) /\ \A i \in DOMAIN rows : rows[i] \in some => i \in at
  OBVIOUS
<1>2. t = [n \in 1..m |-> rows[pick(n)]]
  BY DEF Kept, RankIn
<1>3. /\ m \in Nat
      /\ \A i \in at : rank(i) \in 1..m
      /\ \A i, j \in at : rank(i) = rank(j) => i = j
      /\ \A k \in 1..m : \E i \in at : rank(i) = k
  <2>1. Len(rows) \in Nat /\ at \in SUBSET (1..Len(rows))
    BY <1>1
  <2> HIDE DEF at
  <2>. QED
    BY <2>1, Ranks
<1>4. ASSUME NEW k \in 1..m
      PROVE  pick(k) \in at /\ rank(pick(k)) = k
  <2>1. PICK i \in at : rank(i) = k
    BY <1>3
  <2>2. RankIn(at, i) = k
    BY <2>1
  <2>3. pick(k) \in at /\ RankIn(at, pick(k)) = k
    <3> HIDE DEF at
    <3>. QED
      BY <2>2
  <2> HIDE DEF pick, at
  <2>. QED
    BY <2>3
<1> HIDE DEF pick, rank, at, m, t
<1>5. DOMAIN t = 1..m /\ Len(t) = m /\ t \in Seq(T) /\ \A k \in 1..m : t[k] = rows[pick(k)]
  <2>1. \A k \in 1..m : rows[pick(k)] \in T
    BY <1>1, <1>4
  <2>2. t \in [1..m -> T]
    BY <1>2, <2>1
  <2>3. t \in Seq(T) /\ Len(t) = m
    BY <1>3, <2>2
  <2>. QED
    BY <1>2, <2>2, <2>3
<1>6. \A i \in DOMAIN t : t[i] \in ToSet(rows) \intersect some
  BY <1>1, <1>4, <1>5 DEF ToSet
<1>7. ASSUME NEW x, Once(rows, x), x \in some
      PROVE  Once(t, x)
  <2>1. PICK i \in DOMAIN rows : rows[i] = x /\ \A j \in DOMAIN rows : rows[j] = x => j = i
    BY <1>7 DEF Once
  <2>2. i \in at /\ rank(i) \in 1..m /\ pick(rank(i)) = i
    <3>1. i \in at
      BY <1>1, <1>7, <2>1
    <3>2. rank(i) \in 1..m
      BY <1>3, <3>1
    <3>3. pick(rank(i)) \in at /\ rank(pick(rank(i))) = rank(i)
      BY <1>4, <3>2
    <3>. QED
      BY <1>3, <3>1, <3>2, <3>3
  <2>3. t[rank(i)] = x
    BY <1>5, <2>1, <2>2
  <2>4. \A k \in 1..m : t[k] = x => k = rank(i)
    BY <1>1, <1>4, <1>5, <2>1
  <2>. QED
    BY <1>5, <2>2, <2>3, <2>4 DEF Once
<1>8. ASSUME NEW x, Never(rows, x) \/ x \notin some
      PROVE  Never(t, x)
  <2>1. ASSUME NEW k \in 1..m
        PROVE  t[k] # x
    <3>1. pick(k) \in at /\ pick(k) \in DOMAIN rows /\ t[k] = rows[pick(k)]
      BY <1>1, <1>4, <1>5
    <3>. QED
      BY <1>1, <1>8, <3>1 DEF Never
  <2>. QED
    BY <1>5, <2>1 DEF Never
<1>. QED
  BY <1>5, <1>6, <1>7, <1>8 DEF t

(* A sequence of rows as they are listed has each of them once.                *)
LEMMA ListedOnce ==
  ASSUME NEW s \in Seq(Rows), AsListed(s)
  PROVE  \A i, j \in DOMAIN s : s[i] = s[j] => i = j
<1>1. \A r \in Rows : ~Earlier(r, r)
  BY ListsAssumption DEF ListsAssumption, RowsIn, Sources, Earlier
<1> SUFFICES ASSUME NEW i \in DOMAIN s, NEW j \in DOMAIN s, s[i] = s[j], i # j
             PROVE  FALSE
  OBVIOUS
<1>2. i \in Nat /\ j \in Nat /\ s[i] \in Rows
  OBVIOUS
<1>3. i < j \/ j < i
  BY <1>2
<1>. QED
  BY <1>1, <1>2, <1>3 DEF AsListed

(* How many pages there are, and how far they go.                              *)
LEMMA GoesUpTo ==
  ASSUME NEW a \in Nat, NEW b \in Nat, a <= b, NEW s \in Nat
  PROVE  a * s \in Nat /\ b * s \in Nat /\ a * s <= b * s
<1>1. (b - a) * s >= 0 /\ (b - a) * s = b * s - a * s /\ a * s \in Int /\ b * s \in Int
  OBVIOUS
<1>2. a * s >= 0 /\ b * s >= 0
  OBVIOUS
<1>. QED
  BY <1>1, <1>2

LEMMA LastPage ==
  ASSUME NEW t \in Nat, NEW s \in Nat \ {0}, NEW p \in Nat
  PROVE  /\ p < (t + s - 1) \div s => p * s < t
         /\ p >= (t + s - 1) \div s => t <= p * s
<1> DEFINE q == (t + s - 1) \div s
<1>1. q \in Nat /\ q * s <= t + s - 1 /\ t + s - 1 < q * s + s
  OBVIOUS
<1> HIDE DEF q
<1>2. CASE p < q
  <2>1. p + 1 <= q /\ (p + 1) * s = p * s + s /\ p * s \in Nat
    BY <1>1, <1>2
  <2>2. (p + 1) * s <= q * s
    BY <1>1, <2>1, GoesUpTo
  <2>3. p * s + s <= t + s - 1
    BY <1>1, <2>1, <2>2
  <2>. QED
    BY <1>2, <2>1, <2>3 DEF q
<1>3. CASE p >= q
  <2>1. q * s <= p * s /\ p * s \in Nat /\ q * s \in Nat
    BY <1>1, <1>3, GoesUpTo
  <2>. QED
    BY <1>1, <1>3, <2>1 DEF q
<1>. QED
  BY <1>1, <1>2, <1>3

-------------------------------------------------------------------------------
(* What a list shows.                                                          *)
LEMMA RowFacts ==
  /\ IsFiniteSet(Rows) /\ Sizes \subseteq Nat \ {0}
  /\ \A r \in Rows : r.key \in Nat /\ r.source \in {1, 2} /\ r.listed \in Nat
  /\ \A q, r \in Rows : q.source = r.source /\ q.listed = r.listed => q = r
BY ListsAssumption DEF ListsAssumption, RowsIn, Sources

LEMMA ItemsAre ==
  ASSUME NEW list \in Lists, NEW search, NEW rows \in SUBSET Rows
  PROVE  /\ IsFiniteSet(Items(list, search, rows))
         /\ Cardinality(Items(list, search, rows)) \in Nat
         /\ list \in Distinct => Items(list, search, rows) \in SUBSET Nat
         /\ list \notin Distinct => Items(list, search, rows) \in SUBSET rows
<1>1. IsFiniteSet(rows)
  BY RowFacts, FS_Subset
<1>2. CASE list \in Distinct
  <2> DEFINE keys == {r.key : r \in rows}
             f == [r \in rows |-> r.key]
  <2>1. Items(list, search, rows) = keys
    <3>1. list # "transactions" /\ list # "lent"
      BY <1>2 DEF Distinct
    <3>. QED
      BY <1>2, <3>1, Zenon DEF Items
  <2>2. keys \in SUBSET Nat
    BY RowFacts
  <2>3. f \in Surjection(rows, keys)
    BY DEF Surjection
  <2>4. IsFiniteSet(keys)
    <3> HIDE DEF f, keys
    <3>. QED
      BY <1>1, <2>3, FS_Surjection
  <2> HIDE DEF keys
  <2>. QED
    BY <1>2, <2>1, <2>2, <2>4, FS_CardinalityType
<1>3. CASE list \notin Distinct
  <2>1. Items(list, search, rows) \in SUBSET rows
    BY <1>3 DEF Items
  <2>2. IsFiniteSet(Items(list, search, rows))
    BY <1>1, <2>1, FS_Subset
  <2>. QED
    BY <1>3, <2>1, <2>2, FS_CardinalityType
<1>. QED
  BY <1>2, <1>3

LEMMA ShownAre ==
  ASSUME WalkTypeOK
  PROVE  /\ IsFiniteSet(Shown(table)) /\ Cardinality(Shown(table)) \in Nat
         /\ Shown(table) \subseteq Things
         /\ walk.list \notin Distinct => Shown(table) \subseteq table /\ Things = Rows
         /\ walk.size \in Nat \ {0} /\ walk.page \in Nat \ {0}
         /\ Skipped \in Nat /\ Reached \in Nat /\ Skipped < Reached /\ Reached = Skipped + walk.size
<1>1. table \in SUBSET Rows /\ walk.list \in Lists /\ walk.size \in Sizes /\ walk.page \in Nat \ {0}
  BY DEF WalkTypeOK
<1>2. walk.size \in Nat \ {0}
  BY <1>1, RowFacts
<1>3. \A a, b \in Nat \ {0} : (a - 1) * b \in Nat /\ a * b \in Nat /\ a * b = (a - 1) * b + b
  <2> SUFFICES ASSUME NEW a \in Nat \ {0}, NEW b \in Nat \ {0}
               PROVE  (a - 1) * b \in Nat /\ a * b \in Nat /\ a * b = (a - 1) * b + b
    OBVIOUS
  <2>1. a - 1 \in Nat /\ a * b \in Nat
    OBVIOUS
  <2>. QED
    BY <2>1
<1>4. Skipped \in Nat /\ Reached \in Nat /\ Reached = Skipped + walk.size
  BY <1>1, <1>2, <1>3 DEF Skipped, Reached
<1>5. Skipped < Reached
  BY <1>2, <1>4
<1>. QED
  BY <1>1, <1>2, <1>4, <1>5, ItemsAre DEF Shown, Things

(* What a query reads of the table: all of it, or what is among the addresses. *)
Queried(rows) ==
  /\ rows \in SUBSET table
  /\ walk.began \ walk.moved \subseteq Shown(rows)
  /\ Shown(rows) \subseteq walk.began \union walk.moved
  /\ Cardinality(Shown(rows)) \in req.sizes \/ Drifts

LEMMA QueriedAre ==
  ASSUME WalkTypeOK, NEW rows, Queried(rows)
  PROVE  /\ IsFiniteSet(Shown(rows)) /\ Cardinality(Shown(rows)) \in Nat
         /\ Shown(rows) \subseteq Things
<1>1. rows \in SUBSET Rows /\ walk.list \in Lists
  BY DEF WalkTypeOK, Queried
<1>2. /\ IsFiniteSet(Shown(rows)) /\ Cardinality(Shown(rows)) \in Nat
      /\ walk.list \in Distinct => Shown(rows) \in SUBSET Nat
      /\ walk.list \notin Distinct => Shown(rows) \in SUBSET rows
  BY <1>1, ItemsAre DEF Shown
<1>. QED
  BY <1>1, <1>2 DEF Things

LEMMA AllQueried ==
  ASSUME WalkInv, req.at # "answered"
  PROVE  Queried(table)
BY DEF WalkInv, SinceBegan, SizesOK, Queried

LEMMA AssetsShown ==
  ASSUME walk.list = "assets", NEW rows
  PROVE  Shown(rows) = rows
<1>1. walk.list \notin Distinct /\ walk.list # "transactions" /\ walk.list # "lent"
  BY DEF Distinct
<1>. QED
  BY <1>1, Zenon DEF Shown, Items

LEMMA AmongQueried ==
  ASSUME WalkInv, walk.list = "assets", req.at \in {"page", "count"}
  PROVE  Queried(table \intersect req.among)
<1> DEFINE rows == table \intersect req.among
<1>1. SinceBegan /\ SizesOK /\ LookedOK
  BY DEF WalkInv
<1>2. Shown(rows) = rows /\ Shown(table) = table
  BY AssetsShown
<1>3. walk.began \ walk.moved \subseteq rows /\ rows \subseteq walk.began \union walk.moved
  BY <1>1, <1>2 DEF SinceBegan, LookedOK
<1>4. Cardinality(rows) \in req.sizes \/ Drifts
  <2>1. Drifts \/ rows = table
    BY <1>1 DEF LookedOK
  <2>2. Cardinality(table) \in req.sizes
    BY <1>1, <1>2 DEF SizesOK
  <2>. QED
    BY <2>1, <2>2
<1>. QED
  BY <1>2, <1>3, <1>4 DEF Queried

(* Of two things in a list at most one comes before the other.                 *)
LEMMA OneAhead ==
  ASSUME WalkTypeOK, NEW x \in Things, NEW y \in Things, Ahead(x, y)
  PROVE  x # y /\ ~Ahead(y, x)
<1>1. walk.list \in Distinct => Things = Nat /\ walk.list \notin Gathered
  BY DEF Things, Distinct, Gathered
<1>2. walk.list \notin Distinct => Things = Rows
  BY DEF Things
<1>3. CASE walk.list \in Distinct
  BY <1>1, <1>3 DEF Ahead, Key
<1>4. CASE walk.list \notin Distinct
  <2>1. /\ x.key \in Nat /\ x.source \in {1, 2} /\ x.listed \in Nat
        /\ y.key \in Nat /\ y.source \in {1, 2} /\ y.listed \in Nat
    BY <1>2, <1>4, RowFacts
  <2>. QED
    BY <1>4, <2>1 DEF Ahead, Key, ByKey, Earlier
<1>. QED
  BY <1>3, <1>4

LEMMA ClearRows ==
  ASSUME WalkTypeOK, SinceBegan, NEW x \in walk.began, Clear(x)
  PROVE  /\ x \in Shown(table) /\ x \in Things
         /\ \A y \in walk.began \union walk.moved :
              Ahead(y, x) => y \in walk.began /\ y \in Shown(table)
         /\ \A y \in walk.began \union walk.moved : y \in Things
         /\ x \in walk.began \ walk.moved
         /\ \A y \in walk.began : Ahead(y, x) => y \in walk.began \ walk.moved
<1>1. x \in walk.began \ walk.moved /\ \A y \in walk.moved : Ahead(x, y)
  BY DEF Clear, Steady
<1>2. walk.began \subseteq Things /\ walk.moved \subseteq Things
  BY DEF WalkTypeOK
<1>3. \A y \in walk.began \union walk.moved : Ahead(y, x) => y \notin walk.moved
  BY <1>1, <1>2, OneAhead
<1>. QED
  BY <1>1, <1>2, <1>3 DEF SinceBegan

(* The place of a row in a sequence that holds it behind what comes before it. *)
LEMMA StandsThere ==
  ASSUME WalkTypeOK, SinceBegan, NEW x \in walk.began, Clear(x),
         NEW s \in Seq(Things), NEW k \in 1..Len(s), s[k] = x,
         \A i, j \in 1..Len(s) : s[i] = s[j] => i = j,
         \A i \in 1..Len(s) : s[i] \in walk.began \union walk.moved,
         \A y \in walk.began : Ahead(y, x) => \E i \in 1..Len(s) : s[i] = y,
         \A i \in 1..Len(s) : i < k => Ahead(s[i], x),
         \A i \in 1..Len(s) : k < i => ~Ahead(s[i], x)
  PROVE  StandsAt(s, x, Standing(x)) /\ Standing(x) <= Len(s) /\ Standing(x) \in Nat
<1> DEFINE B == {y \in walk.began : Ahead(y, x)}
<1>1. \A y \in B : \E i \in 1..Len(s) : s[i] = y
  OBVIOUS
<1>2. \A i \in 1..Len(s) : i < k <=> s[i] \in B
  <2> SUFFICES ASSUME NEW i \in 1..Len(s)
               PROVE  i < k <=> s[i] \in B
    OBVIOUS
  <2>1. i < k => s[i] \in B
    BY ClearRows
  <2>2. i = k => s[i] \notin B
    BY OneAhead, ClearRows
  <2>3. k < i => s[i] \notin B
    OBVIOUS
  <2>4. i < k \/ i = k \/ k < i
    OBVIOUS
  <2> HIDE DEF B
  <2>. QED
    BY <2>1, <2>2, <2>3, <2>4
<1>3. Standing(x) = Cardinality(B) + 1
  BY DEF Standing
<1> HIDE DEF B
<1>4. Cardinality(B) + 1 = k /\ StandsAt(s, x, Cardinality(B) + 1)
  BY <1>1, <1>2, PlaceOf
<1>. QED
  BY <1>3, <1>4

(* A query's order holds what the list shows, each row at its place.           *)
LEMMA QueryOrder ==
  ASSUME WalkTypeOK, SinceBegan, NEW rows, Queried(rows), NEW s \in Orders(rows)
  PROVE  /\ s \in Seq(Things) /\ Len(s) = Cardinality(Shown(rows)) /\ Len(s) \in Nat
         /\ ToSet(s) = Shown(rows)
         /\ walk.list \notin Gathered =>
              \A x \in walk.began : Clear(x) =>
                StandsAt(s, x, Standing(x)) /\ Standing(x) <= Len(s) /\ Standing(x) \in Nat
<1>1. IsFiniteSet(Shown(rows)) /\ Shown(rows) \subseteq Things
  BY QueriedAre
<1>2. s \in SetToSeqs(Shown(rows)) /\ \A i, j \in DOMAIN s : i < j => Key(s[i]) <= Key(s[j])
  BY DEF Orders
<1>3. /\ s \in Seq(Shown(rows)) /\ Len(s) = Cardinality(Shown(rows)) /\ Len(s) \in Nat
      /\ DOMAIN s = 1..Len(s)
      /\ \A i, j \in DOMAIN s : s[i] = s[j] => i = j
      /\ \A x \in Shown(rows) : \E i \in DOMAIN s : s[i] = x
      /\ ToSet(s) = Shown(rows)
  BY <1>1, <1>2, OrderOf
<1>4. s \in Seq(Things) /\ \A i \in 1..Len(s) : s[i] \in Shown(rows)
  BY <1>1, <1>3
<1>5. ASSUME walk.list \notin Gathered, NEW x \in walk.began, Clear(x)
      PROVE  StandsAt(s, x, Standing(x)) /\ Standing(x) <= Len(s) /\ Standing(x) \in Nat
  <2>1. x \in Shown(rows) /\ x \in Things
    BY <1>5, ClearRows DEF Queried
  <2>2. PICK k \in 1..Len(s) : s[k] = x
    BY <1>3, <2>1
  <2>3. \A i \in 1..Len(s) : s[i] \in walk.began \union walk.moved
    BY <1>4 DEF Queried
  <2>4. \A y \in walk.began : Ahead(y, x) => \E i \in 1..Len(s) : s[i] = y
    <3>1. \A y \in walk.began : Ahead(y, x) => y \in Shown(rows)
      BY <1>5, ClearRows DEF Queried
    <3>. QED
      BY <1>3, <3>1
  <2>5. ASSUME NEW i \in 1..Len(s)
        PROVE  Key(s[i]) \in Nat /\ Key(x) \in Nat /\ (i # k => Key(s[i]) # Key(x))
    <3>1. s[i] \in Things
      BY <1>4
    <3>2. i # k => s[i] # x
      BY <1>3, <2>2
    <3>3. CASE walk.list \in Distinct
      BY <2>1, <3>1, <3>2, <3>3 DEF Key, Things
    <3>4. CASE walk.list \notin Distinct
      <4>1. s[i] \in Rows /\ x \in Rows
        BY <2>1, <3>1, <3>4 DEF Things
      <4>2. i # k => Key(s[i]) # Key(x)
        BY <1>5, <2>3, <3>2, <3>4 DEF Clear, Tied
      <4>. QED
        BY <3>4, <4>1, <4>2, RowFacts DEF Key
    <3>. QED
      BY <3>3, <3>4
  <2>6. ASSUME NEW i \in 1..Len(s)
        PROVE  (i < k => Ahead(s[i], x)) /\ (k < i => ~Ahead(s[i], x))
    <3>1. Ahead(s[i], x) <=> Key(s[i]) < Key(x)
      BY <1>5 DEF Ahead
    <3>2. i < k => Key(s[i]) <= Key(x) /\ Key(s[i]) # Key(x)
      <4>1. i < k => Key(s[i]) <= Key(s[k]) /\ i # k
        BY <1>2, <1>3
      <4>. QED
        BY <2>2, <2>5, <4>1
    <3>3. k < i => Key(x) <= Key(s[i])
      BY <1>2, <1>3, <2>2
    <3> HIDE DEF Key
    <3>. QED
      BY <2>5, <3>1, <3>2, <3>3
  <2>. QED
    BY <1>3, <1>4, <1>5, <2>2, <2>3, <2>4, <2>6, StandsThere
<1>. QED
  BY <1>3, <1>4, <1>5

(* And so does a list that was gathered, sorted or not.                        *)
LEMMA GatheredOrder ==
  ASSUME WalkTypeOK, SinceBegan, walk.list \in Gathered, NEW rows \in Seq(Things),
         AsListed(rows), \A i \in DOMAIN rows : rows[i] \in walk.began \union walk.moved,
         NEW s \in Sorted(rows)
  PROVE  /\ s \in Seq(Things) /\ Len(s) = Cardinality(ToSet(rows)) /\ Len(s) \in Nat
         /\ ToSet(s) = ToSet(rows)
         /\ \A x \in walk.began :
              Clear(x) /\ (\A y \in walk.began : y = x \/ Ahead(y, x) => y \in ToSet(rows)) =>
                StandsAt(s, x, Standing(x)) /\ Standing(x) <= Len(s) /\ Standing(x) \in Nat
<1>1. walk.list \notin Distinct /\ Things = Rows
  BY DEF Things, Distinct, Gathered
<1>2. DOMAIN rows = 1..Len(rows) /\ Len(rows) \in Nat /\ \A i \in 1..Len(rows) : rows[i] \in Rows
  BY <1>1
<1>3. \A i, j \in 1..Len(rows) : rows[i] = rows[j] => i = j
  BY <1>1, <1>2, ListedOnce
<1>4. IsFiniteSet(ToSet(rows)) /\ Cardinality(ToSet(rows)) = Len(rows) /\ ToSet(rows) \subseteq Rows
  <2>1. \A i \in 1..Len(rows) : rows[i] \in ToSet(rows)
    BY <1>2 DEF ToSet
  <2>2. \A t \in ToSet(rows) : \E i \in 1..Len(rows) : rows[i] = t
    BY <1>2 DEF ToSet
  <2>3. IsFiniteSet(ToSet(rows)) /\ Cardinality(ToSet(rows)) = Len(rows)
    BY <1>2, <1>3, <2>1, <2>2, AsManyTo
  <2>4. ToSet(rows) \subseteq Rows
    BY <1>2, <2>2
  <2>. QED
    BY <2>3, <2>4
<1>5. /\ s \in Seq(Rows) /\ Len(s) = Cardinality(ToSet(rows)) /\ Len(s) \in Nat
      /\ ToSet(s) = ToSet(rows) /\ DOMAIN s = 1..Len(s)
      /\ \A i, j \in 1..Len(s) : s[i] = s[j] => i = j
      /\ \A i, j \in 1..Len(s) : i < j => Ahead(s[i], s[j])
  <2>1. CASE walk.sorted
    <3>1. s \in SetToSeqs(ToSet(rows)) /\ \A i, j \in DOMAIN s : i < j => ByKey(s[i], s[j])
      BY <2>1 DEF Sorted
    <3>2. /\ s \in Seq(ToSet(rows)) /\ Len(s) = Cardinality(ToSet(rows)) /\ Len(s) \in Nat
          /\ DOMAIN s = 1..Len(s)
          /\ \A i, j \in DOMAIN s : s[i] = s[j] => i = j
          /\ ToSet(s) = ToSet(rows)
      BY <1>4, <3>1, OrderOf
    <3>3. s \in Seq(Rows)
      BY <1>4, <3>2
    <3>. QED
      BY <2>1, <3>1, <3>2, <3>3 DEF Ahead
  <2>2. CASE ~walk.sorted
    <3>1. s = rows
      BY <2>2 DEF Sorted
    <3>. QED
      BY <1>1, <1>2, <1>3, <1>4, <2>2, <3>1 DEF Ahead, AsListed
  <2>. QED
    BY <2>1, <2>2
<1>6. \A i \in 1..Len(s) : s[i] \in ToSet(rows) /\ s[i] \in walk.began \union walk.moved
  <2>1. \A i \in 1..Len(s) : s[i] \in ToSet(s)
    BY <1>5 DEF ToSet
  <2>2. \A y \in ToSet(rows) : y \in walk.began \union walk.moved
    BY DEF ToSet
  <2>. QED
    BY <1>5, <2>1, <2>2
<1>7. ASSUME NEW x \in walk.began, Clear(x),
             \A y \in walk.began : y = x \/ Ahead(y, x) => y \in ToSet(rows)
      PROVE  StandsAt(s, x, Standing(x)) /\ Standing(x) <= Len(s) /\ Standing(x) \in Nat
  <2>1. \A y \in ToSet(s) : \E i \in 1..Len(s) : s[i] = y
    BY <1>5 DEF ToSet
  <2>2. PICK k \in 1..Len(s) : s[k] = x
    BY <1>5, <1>7, <2>1
  <2>3. \A y \in walk.began : Ahead(y, x) => \E i \in 1..Len(s) : s[i] = y
    BY <1>5, <1>7, <2>1
  <2>4. \A i \in 1..Len(s) : i < k => Ahead(s[i], x)
    BY <1>5, <2>2
  <2>5. ASSUME NEW i \in 1..Len(s), k < i
        PROVE  ~Ahead(s[i], x)
    <3>1. Ahead(x, s[i]) /\ x \in Things /\ s[i] \in Things
      BY <1>1, <1>5, <2>2, <2>5
    <3>. QED
      BY <3>1, OneAhead
  <2>. QED
    BY <1>1, <1>5, <1>6, <1>7, <2>2, <2>3, <2>4, <2>5, StandsThere
<1>. QED
  BY <1>1, <1>5, <1>7

LEMMA Places ==
  ASSUME WalkTypeOK
  PROVE  \A x : Standing(x) \in Nat /\ Standing(x) >= 1
<1> SUFFICES ASSUME NEW x
             PROVE  Standing(x) \in Nat /\ Standing(x) >= 1
  OBVIOUS
<1> DEFINE B == {y \in walk.began : Ahead(y, x)}
<1>1. B \in SUBSET walk.began /\ IsFiniteSet(walk.began)
  BY DEF WalkTypeOK
<1>2. Standing(x) = Cardinality(B) + 1
  BY DEF Standing
<1> HIDE DEF B
<1>3. Cardinality(B) \in Nat
  BY <1>1, FS_Subset, FS_CardinalityType
<1>. QED
  BY <1>2, <1>3

(* The page of a list.                                                         *)
LEMMA SliceOf ==
  ASSUME WalkTypeOK, NEW s \in Seq(Things)
  PROVE  /\ Slice(s) \in Seq(Things)
         /\ \A i \in DOMAIN Slice(s) : Slice(s)[i] \in ToSet(s)
         /\ Slice(s) = <<>> => Len(s) <= Skipped
         /\ \A x, k : StandsAt(s, x, k) => Shows(Slice(s), x, Skipped < k /\ k <= Reached)
<1>1. Skipped \in Nat /\ Reached \in Nat /\ Skipped < Reached
  BY ShownAre
<1> DEFINE t == SubSeq(s, Skipped + 1, IF Reached < Len(s) THEN Reached ELSE Len(s))
<1>2. Slice(s) = t
  BY DEF Slice, Skipped, Reached
<1>3. /\ t \in Seq(Things)
      /\ t = <<>> => Len(s) <= Skipped
      /\ \A i \in DOMAIN t : t[i] \in ToSet(s)
      /\ \A x, k : StandsAt(s, x, k) => Shows(t, x, Skipped < k /\ k <= Reached)
  BY <1>1, PageOf
<1> HIDE DEF t
<1>. QED
  BY <1>2, <1>3

(* A step that leaves the walk's list as it is.                                *)
LEMMA SameWalk ==
  ASSUME walk'.list = walk.list, walk'.search = walk.search, walk'.sorted = walk.sorted,
         walk'.began = walk.began, walk'.moved = walk.moved
  PROVE  /\ Things' = Things
         /\ \A x : /\ Standing(x)' = Standing(x)
                   /\ Clear(x)' <=> Clear(x)
                   /\ Dropped(x)' <=> Dropped(x)
                   /\ Genuine(x)' <=> Genuine(x)
<1>1. Things' = Things
  BY DEF Things
<1>2. ASSUME NEW x, NEW y
      PROVE  Ahead(x, y)' <=> Ahead(x, y)
  BY DEF Ahead, Key
<1>3. ASSUME NEW x
      PROVE  Standing(x)' = Standing(x)
  BY <1>2 DEF Standing
<1>4. ASSUME NEW x
      PROVE  Clear(x)' <=> Clear(x)
  BY <1>2 DEF Clear, Steady, Tied, Key
<1>5. ASSUME NEW x
      PROVE  (Dropped(x)' <=> Dropped(x)) /\ (Genuine(x)' <=> Genuine(x))
  BY DEF Dropped, Genuine
<1>. QED
  BY <1>1, <1>3, <1>4, <1>5

LEMMA AnswerStage ==
  ASSUME NEW list
  PROVE  "answered" \in StagesOf(list) /\ "answered" \in ListStages
BY DEF StagesOf, ListStages

LEMMA StagesAre ==
  /\ StagesOf("transactions") = {"count", "page", "rows", "answered"}
  /\ \A list \in CountFirst \ {"transactions"} : StagesOf(list) = {"count", "page", "answered"}
  /\ StagesOf("assets") = {"look", "page", "count", "ready", "answered"}
  /\ \A list \in PageFirst \ {"assets"} : StagesOf(list) = {"page", "count", "answered"}
  /\ \A list \in Gathered : StagesOf(list) = {"gather", "whole", "answered"}
  /\ \A list \in OneCall : StagesOf(list) = {"call", "attach", "answered"}
  /\ StagesOf("assetsSet") = {"look", "ready", "answered"}
BY DEF StagesOf, CountFirst, PageFirst, Gathered, OneCall

(* An answered request has no page and no number of its own any more.          *)
LEMMA Answered ==
  ASSUME req.at = "answered"
  PROVE  ~HasPage /\ ~HasTotal
BY DEF HasPage, HasTotal

(* A page that shows the rows whose place is on it, with a number of rows that *)
(* the list had.                                                               *)
LEMMA ReplyKeeps ==
  ASSUME WalkInv, walk.status = "walking", req.at # "answered",
         NEW rows \in Seq(Things), NEW total \in Nat, Reply(rows, total),
         \A i \in DOMAIN rows : Genuine(rows[i]),
         \A x \in walk.began : Clear(x) =>
           /\ Shows(rows, x, (Skipped < Standing(x) /\ Standing(x) <= Reached) /\ ~Dropped(x))
           /\ Standing(x) <= total \/ Standing(x) <= Skipped,
         \/ total \in req.sizes
         \/ total = 0 /\ rows = <<>>
         \/ walk.list \in Gathered \union {"assets"} /\ Cardinality(req.sizes) > 1,
         walk.list = "transactions" /\ walk.moved = {} => total = Cardinality(walk.began)
  PROVE  WalkInv'
<1> DEFINE seen == walk.seen \o rows
<1>1. WalkTypeOK /\ SinceBegan /\ OnlyGenuine
  BY DEF WalkInv
<1>2. /\ req' = [req EXCEPT !.at = "answered", !.rows = rows, !.total = total]
      /\ walk' = [walk EXCEPT !.seen = seen] /\ table' = table
  BY DEF Reply
<1>3. walk.seen \in Seq(Things) /\ seen \in Seq(Things)
      /\ \A i \in DOMAIN seen : seen[i] \in ToSet(walk.seen) \union ToSet(rows)
  <2>1. walk.seen \in Seq(Things)
    BY <1>1 DEF WalkTypeOK
  <2>. QED
    BY <2>1, BothHold
<1> HIDE DEF seen
<1>4. /\ walk'.list = walk.list /\ walk'.search = walk.search /\ walk'.size = walk.size
      /\ walk'.sorted = walk.sorted /\ walk'.page = walk.page /\ walk'.seen = seen
      /\ walk'.status = "walking" /\ walk'.moves = walk.moves /\ walk'.began = walk.began
      /\ walk'.moved = walk.moved
      /\ req'.at = "answered" /\ req'.rows = rows /\ req'.total = total
      /\ req'.source = req.source /\ req'.sizes = req.sizes
  BY <1>1, <1>2 DEF WalkTypeOK
<1>5. Things' = Things /\ Skipped' = Skipped /\ Reached' = Reached /\ Shown(table)' = Shown(table)
      /\ \A x : /\ Standing(x)' = Standing(x) /\ (Clear(x)' <=> Clear(x))
                /\ (Dropped(x)' <=> Dropped(x)) /\ (Genuine(x)' <=> Genuine(x))
  BY <1>2, <1>4, SameWalk DEF Skipped, Reached, Shown
<1>6. WalkTypeOK'
  BY <1>1, <1>2, <1>3, <1>4, <1>5, AnswerStage DEF WalkTypeOK
<1>7. SinceBegan'
  BY <1>1, <1>4, <1>5 DEF SinceBegan
<1>8. OnlyGenuine'
  <2>1. \A y \in ToSet(walk.seen) : Genuine(y)
    BY <1>1 DEF OnlyGenuine, ToSet
  <2>2. \A y \in ToSet(rows) : Genuine(y)
    BY DEF ToSet
  <2>. QED
    BY <1>3, <1>4, <1>5, <2>1, <2>2 DEF OnlyGenuine
<1>9. Skipped \in Nat /\ Reached \in Nat /\ Skipped < Reached /\ walk.size \in Nat \ {0}
      /\ walk.page \in Nat \ {0}
  BY <1>1, ShownAre
<1>10. ASSUME NEW x \in walk.began, Clear(x)
       PROVE  Seen(x)' /\ OnItsWay(x)'
  <2> DEFINE k == Standing(x)
             p == k <= Skipped /\ ~Dropped(x)
             q == (Skipped < k /\ k <= Reached) /\ ~Dropped(x)
  <2>1. k \in Nat
    BY <1>1, Places
  <2>2. Shows(walk.seen, x, p)
    BY <1>10 DEF WalkInv, Seen, Done
  <2>3. Shows(rows, x, q)
    BY <1>10
  <2>4. p \in BOOLEAN /\ q \in BOOLEAN /\ ~(p /\ q)
    BY <1>9, <2>1 DEF Dropped
  <2>5. (p \/ q) <=> (k <= Reached /\ ~Dropped(x))
    BY <1>9, <2>1
  <2> HIDE DEF p, q
  <2>6. Shows(seen, x, p \/ q)
    BY <1>3, <2>2, <2>3, <2>4, OneAfterOther DEF seen
  <2>7. Shows(seen, x, k <= Reached /\ ~Dropped(x))
    BY <2>5, <2>6 DEF Shows
  <2>8. Seen(x)'
    BY <1>4, <1>5, <2>7 DEF Seen, Done, Shows, Once, Never
  <2>9. k <= total \/ k <= Skipped
    BY <1>10
  <2>10. walk.page >= PagesOf(total) => total <= Reached
    BY <1>9, LastPage DEF PagesOf, Reached
  <2>11. walk.page >= PagesOf(total) => k <= Reached
    <3> HIDE DEF k
    <3>. QED
      BY <1>9, <2>1, <2>9, <2>10
  <2>12. PagesOf(total)' = PagesOf(total)
    BY <1>4 DEF PagesOf
  <2>13. OnItsWay(x)'
    BY <1>4, <1>5, <2>11, <2>12 DEF OnItsWay, HasPage, HasTotal, PagesOf
  <2>. QED
    BY <2>8, <2>13
<1>11. GatheredOK' /\ SizesOK' /\ LookedOK'
  BY <1>4 DEF GatheredOK, SizesOK, HasTotal, LookedOK
<1>12. PagesOn'
  BY <1>4, <1>5 DEF PagesOn, WalkInv
<1>13. TotalsAreReal'
  BY <1>4 DEF TotalsAreReal
<1>14. FailsForAReason'
  BY <1>4 DEF FailsForAReason
<1>. QED
  BY <1>4, <1>5, <1>6, <1>7, <1>8, <1>10, <1>11, <1>12, <1>13, <1>14 DEF WalkInv

(* A page that fails, for one of the reasons there are.                        *)
LEMMA FailKeeps ==
  ASSUME WalkInv, walk.status = "walking", Fail, Reason
  PROVE  WalkInv'
<1>1. WalkTypeOK /\ SinceBegan /\ OnlyGenuine
  BY DEF WalkInv
<1>2. /\ req' = [req EXCEPT !.at = "answered"]
      /\ walk' = [walk EXCEPT !.status = "failed"] /\ table' = table /\ ground' = ground
  BY DEF Fail
<1>4. /\ walk'.list = walk.list /\ walk'.search = walk.search /\ walk'.size = walk.size
      /\ walk'.sorted = walk.sorted /\ walk'.page = walk.page /\ walk'.seen = walk.seen
      /\ walk'.status = "failed" /\ walk'.moves = walk.moves /\ walk'.began = walk.began
      /\ walk'.moved = walk.moved
      /\ req'.at = "answered" /\ req'.rows = req.rows /\ req'.total = req.total
      /\ req'.source = req.source /\ req'.sizes = req.sizes
  BY <1>1, <1>2 DEF WalkTypeOK
<1>5. Things' = Things /\ Shown(table)' = Shown(table) /\ \A x : Genuine(x)' <=> Genuine(x)
  BY <1>2, <1>4, SameWalk DEF Shown
<1>6. WalkTypeOK'
  BY <1>1, <1>2, <1>4, <1>5, AnswerStage DEF WalkTypeOK
<1>7. SinceBegan'
  BY <1>1, <1>4, <1>5 DEF SinceBegan
<1>8. OnlyGenuine'
  BY <1>1, <1>4, <1>5 DEF OnlyGenuine
<1>9. GatheredOK' /\ SizesOK' /\ LookedOK' /\ PagesOn' /\ TotalsAreReal'
  BY <1>4 DEF GatheredOK, SizesOK, HasTotal, LookedOK, PagesOn, TotalsAreReal
<1>10. FailsForAReason'
  BY <1>2, <1>4, <1>5 DEF FailsForAReason, Reason, MetaOf
<1>. QED
  BY <1>4, <1>6, <1>7, <1>8, <1>9, <1>10 DEF WalkInv

(* Nor has a list that does not find what it stands on anything to show.       *)
LEMMA NoGround ==
  ASSUME WalkInv, walk.status = "walking", Fail, walk.list \in Grounded, ~ground
  PROVE  WalkInv'
BY FailKeeps DEF Reason

(* A request that goes on, and reads something.                                *)
LEMMA ReqKeeps ==
  ASSUME WalkInv, walk.status = "walking", req.at # "answered", Reads,
         req' \in [at : ListStages, rows : Seq(Things), total : Nat, source : Sources,
                   sizes : SUBSET Nat, among : SUBSET Rows],
         req'.sizes = req.sizes, req'.at \in StagesOf(walk.list), req'.at # "answered",
         \A i \in DOMAIN req'.rows : Genuine(req'.rows[i]),
         \A x \in walk.began : Clear(x) => OnItsWay(x)',
         GatheredOK', SizesOK', LookedOK', PagesOn'
  PROVE  WalkInv'
<1>1. WalkTypeOK /\ SinceBegan /\ OnlyGenuine
  BY DEF WalkInv
<1>2. walk' = walk /\ table' = table
  BY DEF Reads
<1>3. Things' = Things /\ Shown(table)' = Shown(table) /\ Skipped' = Skipped
      /\ \A x : /\ Standing(x)' = Standing(x) /\ (Clear(x)' <=> Clear(x))
                /\ (Dropped(x)' <=> Dropped(x)) /\ (Genuine(x)' <=> Genuine(x))
  BY <1>2, SameWalk DEF Shown, Skipped
<1>4. WalkTypeOK'
  BY <1>1, <1>2, <1>3 DEF WalkTypeOK
<1>5. SinceBegan' /\ OnlyGenuine'
  BY <1>1, <1>2, <1>3 DEF SinceBegan, OnlyGenuine
<1>6. ASSUME NEW x \in walk.began, Clear(x)
      PROVE  Seen(x)'
  <2>1. Seen(x)
    BY <1>6 DEF WalkInv
  <2>2. Done = Skipped /\ Done' = Skipped
    BY <1>3 DEF Done
  <2>. QED
    BY <1>2, <1>3, <2>1, <2>2 DEF Seen, Shows, Once, Never
<1>7. TotalsAreReal'
  BY DEF TotalsAreReal
<1>8. FailsForAReason'
  BY <1>2 DEF FailsForAReason
<1>. QED
  BY <1>2, <1>3, <1>4, <1>5, <1>6, <1>7, <1>8 DEF WalkInv

(* A list's query shows only what belongs to it, each row where it stands.     *)
LEMMA QueryPage ==
  ASSUME WalkInv, NEW rows, Queried(rows), NEW s \in Orders(rows)
  PROVE  /\ Slice(s) \in Seq(Things) /\ Len(s) = Cardinality(Shown(rows)) /\ Len(s) \in Nat
         /\ \A i \in DOMAIN Slice(s) : Genuine(Slice(s)[i])
         /\ Slice(s) = <<>> => Len(s) <= Skipped
         /\ walk.list \notin Gathered =>
              \A x \in walk.began : Clear(x) =>
                /\ Shows(Slice(s), x, Skipped < Standing(x) /\ Standing(x) <= Reached)
                /\ Standing(x) <= Len(s)
                /\ Slice(s) = <<>> => Standing(x) <= Skipped
<1>1. WalkTypeOK /\ SinceBegan
  BY DEF WalkInv
<1>2. /\ s \in Seq(Things) /\ Len(s) = Cardinality(Shown(rows)) /\ Len(s) \in Nat
      /\ ToSet(s) = Shown(rows)
      /\ walk.list \notin Gathered =>
           \A x \in walk.began : Clear(x) =>
             StandsAt(s, x, Standing(x)) /\ Standing(x) <= Len(s) /\ Standing(x) \in Nat
  BY <1>1, QueryOrder
<1>3. /\ Slice(s) \in Seq(Things)
      /\ \A i \in DOMAIN Slice(s) : Slice(s)[i] \in ToSet(s)
      /\ Slice(s) = <<>> => Len(s) <= Skipped
      /\ \A x, k : StandsAt(s, x, k) => Shows(Slice(s), x, Skipped < k /\ k <= Reached)
  BY <1>1, <1>2, SliceOf
<1>4. \A y \in Shown(rows) : Genuine(y)
  BY DEF Queried, Genuine, Shown, Items
<1>5. Skipped \in Nat
  BY <1>1, ShownAre
<1>6. ASSUME NEW k \in Nat, k <= Len(s), Slice(s) = <<>>
      PROVE  k <= Skipped
  BY <1>2, <1>3, <1>5, <1>6
<1>. QED
  BY <1>2, <1>3, <1>4, <1>6

(* The number of rows goes at least to the place of each.                      *)
LEMMA NumberOf ==
  ASSUME WalkInv, NEW rows, Queried(rows)
  PROVE  /\ \A x \in walk.began : Clear(x) => Standing(x) <= Cardinality(Shown(rows))
         /\ Cardinality(Shown(rows)) \in Nat
         /\ walk.moved = {} => Shown(rows) = walk.began
<1>1. WalkTypeOK /\ SinceBegan
  BY DEF WalkInv
<1>2. IsFiniteSet(Shown(rows)) /\ Cardinality(Shown(rows)) \in Nat
  BY <1>1, QueriedAre
<1>3. ASSUME NEW x \in walk.began, Clear(x)
      PROVE  Standing(x) <= Cardinality(Shown(rows))
  <2> DEFINE B == {y \in walk.began : Ahead(y, x)}
  <2>1. x \in Shown(rows) /\ x \in Things
    BY <1>1, <1>3, ClearRows DEF Queried
  <2>2. \A y \in B : y \in Shown(rows)
    BY <1>1, <1>3, ClearRows DEF Queried
  <2>3. x \notin B
    BY <1>1, <2>1, OneAhead
  <2>4. Standing(x) = Cardinality(B) + 1
    BY DEF Standing
  <2> HIDE DEF B
  <2>5. B \in SUBSET Shown(rows) /\ B \union {x} \in SUBSET Shown(rows)
    BY <2>1, <2>2
  <2>6. IsFiniteSet(B)
    BY <1>2, <2>5, FS_Subset
  <2>7. Cardinality(B \union {x}) = Cardinality(B) + 1
    BY <2>3, <2>6, FS_AddElement
  <2>8. Cardinality(B \union {x}) <= Cardinality(Shown(rows))
    BY <1>2, <2>5, FS_Subset
  <2>. QED
    BY <2>4, <2>7, <2>8
<1>4. walk.moved = {} => Shown(rows) = walk.began
  BY DEF Queried
<1>. QED
  BY <1>2, <1>3, <1>4

(* The number is read.                                                         *)
LEMMA CountKeeps ==
  ASSUME WalkInv, walk.status = "walking", Reads, NEW next, NEW rows, Queried(rows),
         CountAll(rows, next),
         req.at \in {"count", "page"}, next \in {"page", "ready"}, next \in StagesOf(walk.list),
         next = "page" => walk.list \in CountFirst,
         next = "ready" => HasPage /\ walk.list = "assets"
  PROVE  WalkInv'
<1> DEFINE n == Cardinality(Shown(rows))
<1>1. WalkTypeOK /\ OnlyGenuine /\ PagesOn /\ SizesOK
  BY DEF WalkInv
<1>2. /\ n \in Nat /\ (n \in req.sizes \/ Drifts)
      /\ \A x \in walk.began : Clear(x) => Standing(x) <= n
      /\ walk.moved = {} => n = Cardinality(walk.began)
  BY NumberOf DEF Queried
<1> HIDE DEF n
<1>3. req' = [req EXCEPT !.total = n, !.at = next] /\ walk' = walk /\ table' = table
  BY DEF CountAll, Reads, n
<1>4. /\ req'.at = next /\ req'.total = n /\ req'.rows = req.rows /\ req'.source = req.source
      /\ req'.sizes = req.sizes
      /\ req' \in [at : ListStages, rows : Seq(Things), total : Nat, source : Sources,
                   sizes : SUBSET Nat, among : SUBSET Rows]
  BY <1>1, <1>2, <1>3 DEF WalkTypeOK, ListStages
<1>5. \A i \in DOMAIN req'.rows : Genuine(req'.rows[i])
  BY <1>1, <1>4 DEF OnlyGenuine
<1>7. Skipped' = Skipped /\ Reached' = Reached /\ \A x : Standing(x)' = Standing(x)
  BY <1>3, SameWalk DEF Skipped, Reached
<1>8. HasPage' => HasPage
  BY <1>3, <1>4 DEF HasPage, PageFirst, CountFirst
<1>9. ASSUME NEW x \in walk.began, Clear(x)
      PROVE  OnItsWay(x)'
  <2>1. OnItsWay(x) /\ Standing(x) <= n
    BY <1>2, <1>9 DEF WalkInv
  <2>. QED
    BY <1>4, <1>7, <1>8, <2>1 DEF OnItsWay, Shows, Once, Never
<1>10. GatheredOK'
  BY <1>4 DEF GatheredOK
<1>11. SizesOK'
  <2>1. Shown(table)' = Shown(table)
    BY <1>3 DEF Shown
  <2>. QED
    BY <1>1, <1>2, <1>3, <1>4, <2>1 DEF SizesOK, Drifts
<1>12. PagesOn'
  BY <1>1, <1>2, <1>3, <1>4, <1>7 DEF PagesOn
<1>13. LookedOK'
  BY <1>3, <1>4 DEF LookedOK, CountFirst
<1>. QED
  BY <1>3, <1>4, <1>5, <1>9, <1>10, <1>11, <1>12, <1>13, ReqKeeps

(* The rows of the page are read, with their number or without it.             *)
LEMMA PageKeeps ==
  ASSUME WalkInv, walk.status = "walking", req.at # "answered", Reads,
         NEW rows, Queried(rows), NEW s \in Orders(rows), NEW total \in Nat,
         NEW next \in {"rows", "count", "attach", "ready"}, next \in StagesOf(walk.list),
         req' = [req EXCEPT !.rows = Slice(s), !.total = total, !.at = next],
         walk.list \notin Gathered,
         next = "count" => walk.list \in PageFirst,
         \/ total = req.total /\ (HasTotal \/ next = "count")
         \/ total = Len(s) /\ next # "rows",
         next = "rows" => req.at = "page",
         walk.list = "assets" => req.at = "page" /\ next = "count"
  PROVE  WalkInv'
<1>1. WalkTypeOK /\ OnlyGenuine /\ PagesOn /\ SizesOK
  BY DEF WalkInv
<1>2. /\ Slice(s) \in Seq(Things) /\ Len(s) = Cardinality(Shown(rows)) /\ Len(s) \in Nat
      /\ \A i \in DOMAIN Slice(s) : Genuine(Slice(s)[i])
      /\ Slice(s) = <<>> => Len(s) <= Skipped
      /\ \A x \in walk.began : Clear(x) =>
           /\ Shows(Slice(s), x, Skipped < Standing(x) /\ Standing(x) <= Reached)
           /\ Standing(x) <= Len(s)
           /\ Slice(s) = <<>> => Standing(x) <= Skipped
  BY QueryPage
<1>3. /\ Cardinality(Shown(table)) \in req.sizes /\ (Len(s) \in req.sizes \/ Drifts)
      /\ walk.moved = {} => Len(s) = Cardinality(walk.began)
  BY <1>1, <1>2, NumberOf DEF Queried, SizesOK
<1>4. walk' = walk /\ table' = table
  BY DEF Reads
<1>5. /\ req'.at = next /\ req'.total = total /\ req'.rows = Slice(s) /\ req'.source = req.source
      /\ req'.sizes = req.sizes /\ req'.among = req.among
      /\ req' \in [at : ListStages, rows : Seq(Things), total : Nat, source : Sources,
                   sizes : SUBSET Nat, among : SUBSET Rows]
  BY <1>1, <1>2 DEF WalkTypeOK, ListStages
<1>6. \A i \in DOMAIN req'.rows : Genuine(req'.rows[i])
  BY <1>2, <1>5
<1>7. Skipped' = Skipped /\ Reached' = Reached /\ \A x : Standing(x)' = Standing(x)
  BY <1>4, SameWalk DEF Skipped, Reached
<1>8. HasTotal' => total = Len(s) \/ (total = req.total /\ HasTotal)
  BY <1>4, <1>5 DEF HasTotal
<1>9. ASSUME NEW x \in walk.began, Clear(x)
      PROVE  OnItsWay(x)'
  <2>1. HasTotal => Standing(x) <= req.total
    BY <1>9 DEF WalkInv, OnItsWay
  <2>2. HasTotal' => Standing(x) <= total
    BY <1>2, <1>8, <1>9, <2>1
  <2>3. /\ Shows(Slice(s), x, Skipped < Standing(x) /\ Standing(x) <= Reached)
        /\ Slice(s) = <<>> => Standing(x) <= Skipped
    BY <1>2, <1>9
  <2>. QED
    BY <1>5, <1>7, <2>2, <2>3 DEF OnItsWay, Shows, Once, Never
<1>10. GatheredOK'
  BY <1>5 DEF GatheredOK
<1>11. SizesOK'
  <2>1. Shown(table)' = Shown(table)
    BY <1>4 DEF Shown
  <2>2. HasTotal' => total \in req.sizes \/ Drifts
    BY <1>1, <1>2, <1>3, <1>8 DEF SizesOK
  <2>. QED
    BY <1>3, <1>4, <1>5, <2>1, <2>2 DEF SizesOK, Drifts
<1>12. PagesOn'
  <2>1. walk.list = "transactions" => next = "rows" /\ total = req.total /\ req.at = "page"
    BY StagesAre DEF PageFirst
  <2>. QED
    BY <1>1, <1>2, <1>3, <1>4, <1>5, <1>7, <2>1 DEF PagesOn
<1>13. LookedOK'
  <2>1. LookedOK
    BY DEF WalkInv
  <2>. QED
    BY <1>4, <1>5, <2>1 DEF LookedOK, Drifts
<1>. QED
  BY <1>4, <1>5, <1>6, <1>9, <1>10, <1>11, <1>12, <1>13, ReqKeeps

(* What is gathered from a source.                                             *)
LEMMA FromSource ==
  ASSUME WalkInv, walk.list \in Gathered, NEW source \in Sources, NEW s \in RowsAt(source)
  PROVE  /\ s \in Seq(Things) /\ AsListed(s) /\ Len(s) \in Nat /\ DOMAIN s = 1..Len(s)
         /\ ToSet(s) = {r \in Shown(table) : r.source = source}
         /\ \A i \in DOMAIN s : s[i].source = source
         /\ \A y \in ToSet(s) : Genuine(y)
<1>1. WalkTypeOK /\ SinceBegan
  BY DEF WalkInv
<1> DEFINE S == {r \in Shown(table) : r.source = source}
<1>2. IsFiniteSet(Shown(table)) /\ Shown(table) \subseteq Things
  BY <1>1, ShownAre
<1>3. S \in SUBSET Shown(table)
  OBVIOUS
<1>4. s \in SetToSeqs(S) /\ \A i, j \in DOMAIN s : i < j => Earlier(s[i], s[j])
  BY DEF RowsAt
<1>5. \A y \in S : y.source = source
  OBVIOUS
<1> HIDE DEF S
<1>6. IsFiniteSet(S)
  BY <1>2, <1>3, FS_Subset
<1>7. s \in Seq(S) /\ Len(s) \in Nat /\ DOMAIN s = 1..Len(s) /\ ToSet(s) = S
  BY <1>4, <1>6, OrderOf
<1>8. s \in Seq(Things) /\ \A i \in DOMAIN s : s[i] \in S
  BY <1>2, <1>3, <1>7
<1>9. \A y \in S : Genuine(y)
  BY <1>1, <1>3 DEF SinceBegan, Genuine, Gathered
<1>. QED
  BY <1>4, <1>5, <1>7, <1>8, <1>9 DEF AsListed, S

LEMMA GatherKeeps ==
  ASSUME WalkInv, walk.status = "walking", walk.list \in Gathered, req.at = "gather",
         Gather(RowsAt(req.source))
  PROVE  WalkInv'
<1>1. WalkTypeOK /\ SinceBegan /\ OnlyGenuine /\ GatheredOK /\ SizesOK
  BY DEF WalkInv
<1>2. PICK s \in RowsAt(req.source) :
        req' = [req EXCEPT !.rows = @ \o s, !.source = IF @ = 2 THEN 1 ELSE 2,
                  !.at = IF req.source = 2 THEN "whole" ELSE "gather"]
  BY DEF Gather
<1>3. walk' = walk /\ table' = table /\ Reads
  BY DEF Gather, Reads
<1>4. req.source \in Sources /\ req.source \in {1, 2} /\ req.rows \in Seq(Things)
  BY <1>1 DEF WalkTypeOK, Sources
<1>5. /\ s \in Seq(Things) /\ AsListed(s) /\ Len(s) \in Nat /\ DOMAIN s = 1..Len(s)
      /\ ToSet(s) = {r \in Shown(table) : r.source = req.source}
      /\ \A i \in DOMAIN s : s[i].source = req.source
      /\ \A y \in ToSet(s) : Genuine(y)
  BY <1>4, FromSource
<1> DEFINE rows == req.rows \o s
<1>6. rows \in Seq(Things) /\ ToSet(rows) = ToSet(req.rows) \union ToSet(s)
      /\ \A i \in DOMAIN rows : rows[i] \in ToSet(req.rows) \union ToSet(s)
  <2>1. req.rows \in Seq(Things) /\ s \in Seq(Things)
    BY <1>4, <1>5
  <2>. QED
    BY <2>1, BothHold
<1>7. \A y \in ToSet(req.rows) : Genuine(y)
  BY <1>1 DEF OnlyGenuine, ToSet
<1>8. walk.list \notin Distinct /\ Things = Rows
  BY DEF Things, Distinct, Gathered
<1>9. /\ req'.rows = rows /\ req'.total = req.total /\ req'.sizes = req.sizes
      /\ req'.source = IF req.source = 2 THEN 1 ELSE 2
      /\ req'.at = IF req.source = 2 THEN "whole" ELSE "gather"
      /\ req' \in [at : ListStages, rows : Seq(Things), total : Nat, source : Sources,
                   sizes : SUBSET Nat, among : SUBSET Rows]
  <2> DEFINE source == IF req.source = 2 THEN 1 ELSE 2
             at == IF req.source = 2 THEN "whole" ELSE "gather"
  <2>1. source \in Sources /\ at \in ListStages
    BY DEF Sources, ListStages
  <2>2. req' = [req EXCEPT !.rows = rows, !.source = source, !.at = at]
    BY <1>2
  <2> HIDE DEF source, at, rows
  <2>3. /\ req'.rows = rows /\ req'.total = req.total /\ req'.sizes = req.sizes
        /\ req'.source = source /\ req'.at = at
        /\ req' \in [at : ListStages, rows : Seq(Things), total : Nat, source : Sources,
                     sizes : SUBSET Nat, among : SUBSET Rows]
    BY <1>1, <1>6, <2>1, <2>2 DEF WalkTypeOK
  <2>. QED
    BY <2>3 DEF source, at, rows
<1>16. LookedOK'
  BY <1>3 DEF LookedOK, Gathered
<1>10. req'.at \in StagesOf(walk.list) /\ req'.at # "answered"
  BY <1>9, StagesAre
<1>11. \A i \in DOMAIN req'.rows : Genuine(req'.rows[i])
  BY <1>5, <1>6, <1>7, <1>9
<1>12. ~HasPage' /\ ~HasTotal'
  BY <1>9 DEF HasPage, HasTotal
<1>13. Shown(table)' = Shown(table) /\ \A x, y : Ahead(x, y)' <=> Ahead(x, y)
  BY <1>3 DEF Shown, Ahead, Key
<1>14. CASE req.source = 1
  <2>1. req.rows = <<>> /\ rows = s
    <3>1. req.rows = <<>>
      BY <1>1, <1>14 DEF GatheredOK
    <3>. QED
      BY <1>5, <3>1
  <2> HIDE DEF rows
  <2>2. GatheredOK'
    BY <1>5, <1>9, <1>14, <2>1 DEF GatheredOK, AsListed
  <2>3. SizesOK'
    BY <1>1, <1>5, <1>9, <1>12, <1>13, <1>14, <2>1 DEF SizesOK
  <2>4. ASSUME NEW x \in walk.began, Clear(x)
        PROVE  OnItsWay(x)'
    <3>1. \A y \in walk.began : (y = x \/ Ahead(y, x)) => y \in Shown(table)
      BY <1>1, <2>4, ClearRows
    <3>2. \A y \in walk.began : (y = x \/ Ahead(y, x)) /\ y.source = 1 => y \in ToSet(s)
      BY <1>5, <1>14, <3>1
    <3>. QED
      BY <1>3, <1>9, <1>12, <1>13, <1>14, <2>1, <3>2 DEF OnItsWay
  <2>5. PagesOn'
    BY <1>3 DEF PagesOn, Gathered
  <2>. QED
    BY <1>3, <1>9, <1>10, <1>11, <1>16, <2>2, <2>3, <2>4, <2>5, ReqKeeps
<1>15. CASE req.source = 2
  <2>1. AsListed(req.rows) /\ \A i \in DOMAIN req.rows : req.rows[i].source = 1
    BY <1>1, <1>15 DEF GatheredOK
  <2>2. AsListed(rows)
    <3> DEFINE m == Len(req.rows)
               n == Len(s)
    <3>1. /\ m \in Nat /\ n \in Nat /\ DOMAIN req.rows = 1..m /\ DOMAIN s = 1..n
          /\ DOMAIN rows = 1..(m + n)
          /\ \A i \in 1..m : rows[i] = req.rows[i]
          /\ \A i \in 1..n : rows[m + i] = s[i]
      BY <1>4, <1>5
    <3> HIDE DEF rows, m, n
    <3>2. ASSUME NEW i \in 1..(m + n)
          PROVE  \/ i \in 1..m /\ rows[i] = req.rows[i]
                 \/ m < i /\ i - m \in 1..n /\ rows[i] = s[i - m]
      <4>1. CASE i <= m
        BY <3>1, <4>1
      <4>2. CASE m < i
        <5>1. i - m \in 1..n /\ m + (i - m) = i
          BY <3>1, <4>2
        <5>. QED
          BY <3>1, <4>2, <5>1
      <4>. QED
        BY <3>1, <4>1, <4>2
    <3>3. ASSUME NEW i \in 1..(m + n), NEW j \in 1..(m + n), i < j
          PROVE  Earlier(rows[i], rows[j])
      <4>1. CASE j \in 1..m /\ rows[j] = req.rows[j]
        <5>1. i \in 1..m /\ rows[i] = req.rows[i]
          BY <3>1, <3>3, <4>1
        <5>. QED
          BY <2>1, <3>1, <3>3, <4>1, <5>1 DEF AsListed
      <4>2. CASE m < j /\ j - m \in 1..n /\ rows[j] = s[j - m]
        <5>1. CASE i \in 1..m /\ rows[i] = req.rows[i]
          <6>1. rows[i].source = 1 /\ rows[j].source = 2
            <7>1. req.rows[i].source = 1
              BY <2>1, <3>1, <5>1
            <7>2. s[j - m].source = 2
              BY <1>5, <1>15, <3>1, <4>2
            <7>. QED
              BY <4>2, <5>1, <7>1, <7>2
          <6>. QED
            BY <6>1 DEF Earlier
        <5>2. CASE m < i /\ i - m \in 1..n /\ rows[i] = s[i - m]
          <6>1. i - m < j - m
            BY <3>1, <3>3
          <6>. QED
            BY <1>5, <3>1, <4>2, <5>2, <6>1 DEF AsListed
        <5>. QED
          BY <3>2, <5>1, <5>2
      <4>. QED
        BY <3>2, <4>1, <4>2
    <3>. QED
      BY <3>1, <3>3 DEF AsListed
  <2> HIDE DEF rows
  <2>3. GatheredOK'
    BY <1>9, <1>15, <2>2 DEF GatheredOK, AsListed
  <2>4. \A y \in Shown(table) : y.source \in {1, 2}
    BY <1>1, <1>8, ShownAre, RowFacts
  <2>5. SizesOK'
    <3>1. Cardinality(Shown(table)) \in req.sizes
      BY <1>1 DEF SizesOK
    <3>2. Cardinality(req.sizes) > 1 \/ ToSet(req.rows) = {r \in Shown(table) : r.source = 1}
      BY <1>1, <1>15 DEF SizesOK
    <3>3. Cardinality(req.sizes) > 1 \/ ToSet(rows) = Shown(table)
      BY <1>5, <1>6, <1>15, <2>4, <3>2
    <3>. QED
      BY <1>9, <1>12, <1>13, <1>15, <3>1, <3>3 DEF SizesOK
  <2>6. ASSUME NEW x \in walk.began, Clear(x)
        PROVE  OnItsWay(x)'
    <3>1. \A y \in walk.began : (y = x \/ Ahead(y, x)) => y \in Shown(table)
      BY <1>1, <2>6, ClearRows
    <3>2. \A y \in walk.began : (y = x \/ Ahead(y, x)) /\ y.source = 1 => y \in ToSet(req.rows)
      BY <1>15, <2>6 DEF WalkInv, OnItsWay
    <3>3. \A y \in walk.began : (y = x \/ Ahead(y, x)) => y \in ToSet(rows)
      BY <1>5, <1>6, <1>15, <2>4, <3>1, <3>2
    <3>. QED
      BY <1>3, <1>9, <1>12, <1>13, <1>15, <3>3 DEF OnItsWay
  <2>7. PagesOn'
    BY <1>3 DEF PagesOn, Gathered
  <2>. QED
    BY <1>3, <1>9, <1>10, <1>11, <1>16, <2>3, <2>5, <2>6, <2>7, ReqKeeps
<1>. QED
  BY <1>4, <1>14, <1>15

-------------------------------------------------------------------------------
(* The answers, list by list.                                                  *)
LEMMA RowsRead ==
  ASSUME WalkInv, HasPage
  PROVE  /\ req.rows \in Seq(Things) /\ req.at # "answered"
         /\ \A i \in DOMAIN req.rows : Genuine(req.rows[i])
         /\ \A x \in walk.began : Clear(x) =>
              /\ Shows(req.rows, x, Skipped < Standing(x) /\ Standing(x) <= Reached)
              /\ req.rows = <<>> => Standing(x) <= Skipped
              /\ x \in Shown(table)
<1>1. req.at # "answered" /\ WalkTypeOK /\ SinceBegan
  BY DEF HasPage, WalkInv
<1>2. req.rows \in Seq(Things) /\ walk.status # "failed"
  BY <1>1 DEF WalkTypeOK
<1>3. \A i \in DOMAIN req.rows : Genuine(req.rows[i])
  BY DEF WalkInv, OnlyGenuine
<1>4. \A x \in walk.began : Clear(x) => OnItsWay(x)
  BY <1>2 DEF WalkInv
<1>5. \A x \in walk.began : Clear(x) => x \in Shown(table)
  BY <1>1, ClearRows
<1>. QED
  BY <1>1, <1>2, <1>3, <1>4, <1>5 DEF OnItsWay

LEMMA NumberRead ==
  ASSUME WalkInv, HasTotal
  PROVE  /\ req.total \in Nat /\ (req.total \in req.sizes \/ Drifts) /\ req.at # "answered"
         /\ \A x \in walk.began : Clear(x) => Standing(x) <= req.total
<1>1. req.at # "answered" /\ WalkTypeOK /\ SizesOK
  BY DEF HasTotal, WalkInv
<1>2. req.total \in Nat /\ walk.status # "failed" /\ (req.total \in req.sizes \/ Drifts)
  BY <1>1 DEF WalkTypeOK, SizesOK
<1>3. \A x \in walk.began : Clear(x) => OnItsWay(x)
  BY <1>2 DEF WalkInv
<1>. QED
  BY <1>1, <1>2, <1>3 DEF OnItsWay

(* Rows as they were read, with a number that was read.                        *)
LEMMA AnswerKeepsIt ==
  ASSUME WalkInv, walk.status = "walking", HasPage, walk.list \notin {"transactions", "assets"},
         NEW total, Reply(req.rows, total),
         \/ HasTotal /\ total = req.total
         \/ total = Cardinality(Shown(table))
  PROVE  WalkInv'
<1>1. total \in Nat /\ total \in req.sizes /\ \A x \in walk.began : Clear(x) => Standing(x) <= total
  <2>1. req.at # "answered" /\ Queried(table) /\ ~Drifts
    BY RowsRead, AllQueried DEF Drifts
  <2>. QED
    BY <2>1, NumberRead, NumberOf DEF Queried
<1>2. \A x : ~Dropped(x)
  BY DEF Dropped
<1>3. \A x \in walk.began : Clear(x) =>
        Shows(req.rows, x, (Skipped < Standing(x) /\ Standing(x) <= Reached) /\ ~Dropped(x))
  BY <1>2, RowsRead DEF Shows
<1>. QED
  BY <1>1, <1>3, RowsRead, ReplyKeeps

LEMMA NothingShown ==
  ASSUME NEW x, NEW p, ~p
  PROVE  Shows(<<>>, x, p)
BY DEF Shows, Never

(* No rows on the page: no number either.                                      *)
LEMMA EmptyKeeps ==
  ASSUME WalkInv, walk.status = "walking", HasPage, Empty,
         \/ req.rows = <<>> /\ walk.list # "transactions"
         \/ walk.list = "transactions" /\ req.total = 0 /\ HasTotal
  PROVE  WalkInv'
<1>1. Skipped \in Nat /\ Reached \in Nat /\ Skipped < Reached /\ WalkTypeOK
  BY ShownAre DEF WalkInv
<1>2. \A x : Standing(x) \in Nat /\ Standing(x) >= 1
  BY <1>1, Places
<1>3. \A x \in walk.began : Clear(x) => Standing(x) <= Skipped
  <2>1. CASE req.rows = <<>>
    BY <2>1, RowsRead
  <2>2. CASE HasTotal /\ req.total = 0
    BY <1>2, <2>2, NumberRead
  <2>. QED
    BY <2>1, <2>2
<1>4. \A x \in walk.began : Clear(x) =>
        Shows(<<>>, x, (Skipped < Standing(x) /\ Standing(x) <= Reached) /\ ~Dropped(x))
  <2>1. \A x \in walk.began : Clear(x) => ~(Skipped < Standing(x))
    BY <1>1, <1>2, <1>3
  <2>. QED
    BY <2>1, NothingShown
<1>5. walk.list = "transactions" /\ walk.moved = {} => 0 = Cardinality(walk.began)
  BY RowsRead DEF WalkInv, PagesOn, HasPage, PageFirst
<1>6. <<>> \in Seq(Things) /\ \A i \in DOMAIN <<>> : Genuine(<<>>[i])
  OBVIOUS
<1>7. Reply(<<>>, 0) /\ req.at # "answered"
  BY RowsRead DEF Empty
<1>. QED
  BY <1>3, <1>4, <1>5, <1>6, <1>7, ReplyKeeps

(* Rows that were read, those aside that are passed over.                      *)
LEMMA KeptKeeps ==
  ASSUME WalkInv, walk.status = "walking", HasPage, HasTotal, NEW some,
         Reply(Kept(req.rows, some), req.total),
         \A x \in Shown(table) : x \in some <=> ~Dropped(x),
         walk.list = "transactions" => req.at = "rows"
  PROVE  WalkInv'
<1>1. /\ Kept(req.rows, some) \in Seq(Things)
      /\ \A i \in DOMAIN Kept(req.rows, some) :
           Kept(req.rows, some)[i] \in ToSet(req.rows) \intersect some
      /\ \A x : /\ Once(req.rows, x) /\ x \in some => Once(Kept(req.rows, some), x)
                /\ Never(req.rows, x) \/ x \notin some => Never(Kept(req.rows, some), x)
  BY RowsRead, KeptOf
<1> DEFINE rows == Kept(req.rows, some)
<1>2. \A y \in ToSet(req.rows) : Genuine(y)
  BY RowsRead DEF ToSet
<1> HIDE DEF rows
<1>3. ASSUME NEW x \in walk.began, Clear(x)
      PROVE  Shows(rows, x, (Skipped < Standing(x) /\ Standing(x) <= Reached) /\ ~Dropped(x))
  <2>1. Shows(req.rows, x, Skipped < Standing(x) /\ Standing(x) <= Reached)
    BY <1>3, RowsRead
  <2>2. x \in some <=> ~Dropped(x)
    BY <1>3, RowsRead
  <2>. QED
    BY <1>1, <2>1, <2>2 DEF Shows, rows
<1>4. walk.list = "transactions" /\ walk.moved = {} => req.total = Cardinality(walk.began)
  BY DEF WalkInv, PagesOn
<1>5. \A i \in DOMAIN rows : Genuine(rows[i])
  BY <1>1, <1>2 DEF rows
<1>6. \/ req.total \in req.sizes
      \/ walk.list \in Gathered \union {"assets"} /\ Cardinality(req.sizes) > 1
  BY NumberRead DEF Drifts
<1>. QED
  BY <1>1, <1>3, <1>4, <1>5, <1>6, NumberRead, ReplyKeeps DEF rows

LEMMA TransactionsKeep ==
  ASSUME WalkInv, CountTransactions \/ PageOfTransactions \/ FetchTransactions
  PROVE  WalkInv'
<1>1. /\ walk.list = "transactions" /\ walk.status = "walking" /\ WalkTypeOK
      /\ req.at # "answered"
  BY DEF CountTransactions, PageOfTransactions, FetchTransactions, Reading, WalkInv
<1>2. /\ "transactions" \in CountFirst /\ "transactions" \notin PageFirst
      /\ "transactions" \notin Gathered /\ "transactions" \notin Distinct
  BY DEF CountFirst, PageFirst, Gathered, Distinct
<1>6. Queried(table)
  BY <1>1, AllQueried
<1>3. CASE CountTransactions
  <2>1. /\ req.at = "count"
        /\ \/ ground /\ Reads /\ CountAll(table, "page")
           \/ ~ground /\ Fail
    BY <1>3 DEF CountTransactions, OnGround, Reading
  <2>2. CASE Reads /\ CountAll(table, "page")
    BY <1>1, <1>2, <1>6, <2>1, <2>2, StagesAre, CountKeeps
  <2>3. CASE ~ground /\ Fail
    BY <1>1, <2>3, NoGround DEF Grounded
  <2>. QED
    BY <2>1, <2>2, <2>3
<1>4. CASE PageOfTransactions
  <2>1. PICK s \in Orders(table) : req' = [req EXCEPT !.rows = Slice(s), !.at = "rows"]
    BY <1>4 DEF PageOfTransactions, TakePage
  <2>2. req' = [req EXCEPT !.rows = Slice(s), !.total = req.total, !.at = "rows"]
    BY <1>1, <2>1 DEF WalkTypeOK
  <2>3. HasTotal /\ req.total \in Nat /\ Reads /\ req.at = "page"
    BY <1>1, <1>2, <1>4 DEF PageOfTransactions, Reading, HasTotal, WalkTypeOK
  <2>. QED
    BY <1>1, <1>2, <1>6, <2>2, <2>3, StagesAre, PageKeeps
<1>5. CASE FetchTransactions
  <2>1. req.at = "rows" /\ HasPage /\ HasTotal
    BY <1>5 DEF FetchTransactions, Reading, HasPage, HasTotal
  <2>2. CASE req.total = 0
    BY <1>1, <1>5, <2>1, <2>2, EmptyKeeps DEF FetchTransactions
  <2>3. CASE req.total # 0 /\ req.rows = <<>>
    <3>1. walk.moved # {}
      <4> SUFFICES ASSUME walk.moved = {}
                   PROVE  FALSE
        OBVIOUS
      <4> DEFINE n == Cardinality(walk.began)
      <4>1. (walk.page = 1 \/ Skipped < n) /\ req.total = n /\ n <= Skipped
        BY <1>1, <2>1, <2>3 DEF WalkInv, PagesOn
      <4>2. Skipped \in Nat /\ n \in Nat
        BY <1>1, ShownAre, FS_CardinalityType DEF WalkTypeOK
      <4>3. walk.size \in Nat
        BY <1>1, ShownAre
      <4>4. walk.page = 1 => Skipped = 0
        BY <4>3 DEF Skipped
      <4> HIDE DEF n
      <4>. QED
        BY <2>3, <4>1, <4>2, <4>4
    <3>. QED
      BY <1>1, <1>5, <2>3, <3>1, FailKeeps DEF FetchTransactions, Reason
  <2>4. CASE req.total # 0 /\ req.rows # <<>>
    <3>1. Reply(Kept(req.rows, table), req.total)
      BY <1>5, <2>4 DEF FetchTransactions
    <3>2. \A x \in Shown(table) : x \in table /\ ~Dropped(x)
      BY <1>1, <1>2, ShownAre DEF Dropped
    <3>. QED
      BY <1>1, <2>1, <3>1, <3>2, KeptKeeps
  <2>. QED
    BY <2>2, <2>3, <2>4
<1>. QED
  BY <1>3, <1>4, <1>5

(* A list whose number is read before its page.                                *)
LEMMA AnswerPageKeeps ==
  ASSUME WalkInv, walk.list \in CountFirst \ {"transactions"}, walk.status = "walking",
         req.at = "page", AnswerPage
  PROVE  WalkInv'
<1>1. WalkTypeOK /\ HasTotal /\ walk.list \notin Gathered
      /\ walk.list \notin {"transactions", "assets"}
  BY DEF WalkInv, HasTotal, CountFirst, Gathered
<1>2. PICK s \in Orders(table) : Reply(Slice(s), req.total)
  BY DEF AnswerPage
<1>3. /\ Slice(s) \in Seq(Things)
      /\ \A i \in DOMAIN Slice(s) : Genuine(Slice(s)[i])
      /\ \A x \in walk.began : Clear(x) =>
           Shows(Slice(s), x, Skipped < Standing(x) /\ Standing(x) <= Reached)
  BY <1>1, AllQueried, QueryPage
<1>4. \A x : ~Dropped(x)
  BY <1>1 DEF Dropped
<1>5. \A x \in walk.began : Clear(x) =>
        Shows(Slice(s), x, (Skipped < Standing(x) /\ Standing(x) <= Reached) /\ ~Dropped(x))
  BY <1>3, <1>4 DEF Shows
<1>6. req.total \in req.sizes
  BY <1>1, NumberRead DEF Drifts
<1>. QED
  BY <1>1, <1>2, <1>3, <1>5, <1>6, NumberRead, ReplyKeeps

LEMMA CountFirstKeep ==
  ASSUME WalkInv, FindEvents \/ FindTokens \/ FindCexTokens
  PROVE  WalkInv'
<1>1. walk.list \in CountFirst \ {"transactions"} /\ walk.status = "walking"
      /\ walk.list \notin PageFirst /\ walk.list # "assets"
      /\ \/ req.at = "count" /\ Reads /\ CountAll(table, "page")
         \/ ~ground /\ walk.list = "tokens" /\ Fail
         \/ req.at = "page" /\ AnswerPage
  BY DEF FindEvents, FindTokens, FindCexTokens, OnGround, Reading, CountFirst, PageFirst
<1>2. CASE req.at = "count" /\ Reads /\ CountAll(table, "page")
  <2>1. Queried(table)
    BY <1>2, AllQueried
  <2>. QED
    BY <1>1, <1>2, <2>1, StagesAre, CountKeeps
<1>3. CASE ~ground /\ walk.list = "tokens" /\ Fail
  BY <1>1, <1>3, NoGround DEF Grounded
<1>. QED
  BY <1>1, <1>2, <1>3, AnswerPageKeeps

LEMMA AssetsSetKeep ==
  ASSUME WalkInv, LookForAssets \/ PageOfAssets
  PROVE  WalkInv'
<1>1. walk.list = "assetsSet" /\ walk.status = "walking" /\ WalkTypeOK /\ req.at # "answered"
  BY DEF LookForAssets, PageOfAssets, Reading, WalkInv
<1>2. walk.list \notin Gathered /\ walk.list \in Distinct
  BY <1>1 DEF Gathered, Distinct
<1>6. Queried(table)
  BY <1>1, AllQueried
<1>7. CASE LookForAssets /\ ~ground
  BY <1>1, <1>7, NoGround DEF LookForAssets, Grounded
<1>3. CASE LookForAssets /\ table = {}
  <2>1. Shown(table) = {}
    BY <1>1, <1>2, <1>3, Zenon DEF Shown, Items
  <2>2. 0 \in req.sizes
    BY <1>1, <1>2, <1>6, <2>1, FS_EmptySet DEF Queried, Drifts
  <2>. QED
    BY <1>1, <1>3, <2>2, FailKeeps DEF LookForAssets, Reason
<1>4. CASE LookForAssets /\ table # {} /\ ground
  <2>1. Reads /\ \E s \in Orders(table) :
          req' = [req EXCEPT !.rows = Slice(s), !.total = Len(s), !.at = "ready"]
    BY <1>4 DEF LookForAssets
  <2>2. PICK s \in Orders(table) :
          req' = [req EXCEPT !.rows = Slice(s), !.total = Len(s), !.at = "ready"]
    BY <2>1
  <2>3. Len(s) \in Nat
    BY <1>6, QueryPage
  <2>. QED
    BY <1>1, <1>2, <1>6, <2>1, <2>2, <2>3, StagesAre, PageKeeps
<1>5. CASE PageOfAssets
  BY <1>1, <1>5, AnswerKeepsIt DEF PageOfAssets, Reading, HasPage, HasTotal
<1>. QED
  BY <1>3, <1>4, <1>5, <1>7

LEMMA UserAssetsKeep ==
  ASSUME WalkInv, LookForAddresses \/ PageOfUserAssets \/ CountUserAssets \/ FormUserAssets
  PROVE  WalkInv'
<1>1. walk.list = "assets" /\ walk.status = "walking" /\ WalkTypeOK /\ req.at # "answered"
  BY DEF LookForAddresses, PageOfUserAssets, CountUserAssets, FormUserAssets, Reading, WalkInv
<1>2. /\ "assets" \in PageFirst /\ "assets" \notin CountFirst
      /\ "assets" \notin Gathered /\ "assets" \notin Distinct
  BY DEF CountFirst, PageFirst, Gathered, Distinct
<1>6. CASE LookForAddresses
  <2>1. req.at = "look" /\ Queried(table) /\ Shown(table) = table
    BY <1>1, <1>6, AllQueried, AssetsShown DEF LookForAddresses, Reading
  <2>2. PICK some \in SUBSET Rows :
          /\ table \subseteq some
          /\ IF some = {} \/ ~ground THEN Fail
             ELSE Reads /\ req' = [req EXCEPT !.among = some, !.at = "page"]
    BY <1>6 DEF LookForAddresses
  <2>3. CASE ~ground
    BY <1>1, <2>2, <2>3, NoGround DEF Grounded
  <2>4. CASE some = {}
    <3>1. 0 \in req.sizes
      <4>1. table = {} /\ SizesOK
        BY <2>2, <2>4 DEF WalkInv
      <4>. QED
        BY <1>1, <2>1, <4>1, FS_EmptySet DEF SizesOK
    <3>. QED
      BY <1>1, <2>2, <2>4, <3>1, FailKeeps DEF Reason
  <2>5. CASE ground /\ some # {}
    <3>1. Reads /\ req' = [req EXCEPT !.among = some, !.at = "page"]
      BY <2>2, <2>5
    <3>2. /\ req'.at = "page" /\ req'.rows = req.rows /\ req'.total = req.total
          /\ req'.source = req.source /\ req'.sizes = req.sizes /\ req'.among = some
          /\ req' \in [at : ListStages, rows : Seq(Things), total : Nat, source : Sources,
                       sizes : SUBSET Nat, among : SUBSET Rows]
      BY <1>1, <3>1 DEF WalkTypeOK, ListStages
    <3>3. walk' = walk /\ table' = table
      BY <3>1 DEF Reads
    <3>4. ~HasPage' /\ ~HasTotal'
      BY <1>1, <1>2, <3>2, <3>3 DEF HasPage, HasTotal
    <3>5. \A x : OnItsWay(x)'
      BY <3>2, <3>4 DEF OnItsWay
    <3>6. GatheredOK' /\ SizesOK' /\ PagesOn'
      <4>1. SizesOK /\ Shown(table)' = Shown(table)
        BY <3>3 DEF WalkInv, Shown
      <4>. QED
        BY <1>1, <2>1, <3>2, <3>3, <3>4, <4>1 DEF GatheredOK, SizesOK, PagesOn
    <3>7. LookedOK'
      <4>1. walk.began \ walk.moved \subseteq some /\ table \subseteq some
        BY <2>1, <2>2 DEF Queried
      <4>. QED
        BY <3>2, <3>3, <4>1 DEF LookedOK
    <3>8. \A i \in DOMAIN req'.rows : Genuine(req'.rows[i])
      BY <3>2 DEF WalkInv, OnlyGenuine
    <3>9. req'.at \in StagesOf(walk.list)
      BY <1>1, <3>2, StagesAre
    <3>. QED
      BY <1>1, <3>1, <3>2, <3>5, <3>6, <3>7, <3>8, <3>9, ReqKeeps
  <2>. QED
    BY <2>3, <2>4, <2>5
<1> DEFINE among == table \intersect req.among
<1>3. CASE PageOfUserAssets
  <2>1. PICK s \in Orders(among) : req' = [req EXCEPT !.rows = Slice(s), !.at = "count"]
    BY <1>3 DEF PageOfUserAssets, TakePage
  <2>2. req' = [req EXCEPT !.rows = Slice(s), !.total = req.total, !.at = "count"]
    BY <1>1, <2>1 DEF WalkTypeOK
  <2>3. req.total \in Nat /\ Reads /\ req.at = "page"
    BY <1>1, <1>3 DEF PageOfUserAssets, WalkTypeOK, Reading
  <2>5. Queried(among)
    BY <1>1, <2>3, AmongQueried
  <2>4. "count" \in StagesOf(walk.list) /\ walk.list \in PageFirst /\ walk.list \notin Gathered
    BY <1>1, <1>2, StagesAre
  <2>. QED
    <3> HIDE DEF among
    <3>. QED
      BY <1>1, <2>2, <2>3, <2>4, <2>5, PageKeeps
<1>4. CASE CountUserAssets
  <2>1. req.at = "count" /\ HasPage /\ Reads /\ CountAll(among, "ready")
    BY <1>1, <1>2, <1>4 DEF CountUserAssets, Reading, HasPage
  <2>2. Queried(among)
    BY <1>1, <2>1, AmongQueried
  <2> HIDE DEF among
  <2>. QED
    BY <1>1, <2>1, <2>2, StagesAre, CountKeeps
<1>5. CASE FormUserAssets
  <2>1. req.at = "ready" /\ HasPage /\ HasTotal
    BY <1>5 DEF FormUserAssets, Reading, HasPage, HasTotal
  <2> DEFINE broken == \E i \in DOMAIN req.rows : MetaOf(req.rows[i]) = "broken"
             named == {r \in Rows : MetaOf(r) = "named"}
  <2>2. CASE broken
    <3>1. Fail
      BY <1>5, <2>2 DEF FormUserAssets
    <3>2. walk.list \in {"assets", "pools", "stakeable"} /\ broken
      BY <1>1, <2>2
    <3>. QED
      BY <1>1, <3>1, <3>2, FailKeeps DEF Reason
  <2>3. CASE ~broken /\ req.rows = <<>>
    <3>1. Empty
      BY <1>5, <2>3 DEF FormUserAssets
    <3>. QED
      BY <1>1, <2>1, <2>3, <3>1, EmptyKeeps
  <2>4. CASE ~broken /\ req.rows # <<>>
    <3>1. Reply(Kept(req.rows, named), req.total)
      BY <1>5, <2>4 DEF FormUserAssets
    <3>2. \A x \in Shown(table) : x \in Rows
      BY <1>1, <1>2, ShownAre
    <3>3. \A x \in Shown(table) : x \in named <=> ~Dropped(x)
      BY <1>1, <3>2 DEF Dropped
    <3>4. walk.list # "transactions"
      BY <1>1
    <3> HIDE DEF named
    <3>. QED
      BY <1>1, <2>1, <3>1, <3>3, <3>4, KeptKeeps
  <2>. QED
    BY <2>2, <2>3, <2>4
<1>. QED
  BY <1>3, <1>4, <1>5, <1>6

LEMMA RampsKeep ==
  ASSUME WalkInv, FindRampPairs \/ FindFiats
  PROVE  WalkInv'
<1>1. /\ walk.list \in {"rampPairs", "fiats"} /\ walk.status = "walking" /\ WalkTypeOK
      /\ \/ req.at = "page" /\ Reads /\ TakePage(table, "count")
         \/ req.at = "page" /\ walk.list = "rampPairs" /\ ~ground /\ Fail
         \/ req.at = "count" /\ IF req.rows = <<>> THEN Empty ELSE AnswerCount
  BY DEF FindRampPairs, FindFiats, OnGround, Reading, WalkInv
<1>2. /\ walk.list \in PageFirst \ {"assets"} /\ walk.list \notin Gathered
      /\ walk.list \notin {"transactions", "assets"}
  BY <1>1 DEF PageFirst, Gathered
<1>5. CASE walk.list = "rampPairs" /\ ~ground /\ Fail
  BY <1>1, <1>5, NoGround DEF Grounded
<1>3. CASE req.at = "page" /\ Reads /\ TakePage(table, "count")
  <2>1. PICK s \in Orders(table) : req' = [req EXCEPT !.rows = Slice(s), !.at = "count"]
    BY <1>3 DEF TakePage
  <2>2. req' = [req EXCEPT !.rows = Slice(s), !.total = req.total, !.at = "count"]
    BY <1>1, <2>1 DEF WalkTypeOK
  <2>3. req.total \in Nat
    BY <1>1 DEF WalkTypeOK
  <2>4. "count" \in StagesOf(walk.list) /\ walk.list \in PageFirst
    BY <1>2, StagesAre
  <2>5. Queried(table)
    BY <1>3, AllQueried
  <2>. QED
    BY <1>1, <1>2, <1>3, <2>2, <2>3, <2>4, <2>5, PageKeeps
<1>4. CASE req.at = "count" /\ IF req.rows = <<>> THEN Empty ELSE AnswerCount
  <2>1. HasPage
    BY <1>2, <1>4 DEF HasPage
  <2>2. CASE req.rows = <<>>
    BY <1>1, <1>2, <1>4, <2>1, <2>2, EmptyKeeps
  <2>3. CASE req.rows # <<>>
    <3>1. Reply(req.rows, Cardinality(Shown(table)))
      BY <1>4, <2>3 DEF AnswerCount
    <3>. QED
      BY <1>1, <1>2, <2>1, <3>1, AnswerKeepsIt
  <2>. QED
    BY <2>2, <2>3
<1>. QED
  BY <1>1, <1>3, <1>4, <1>5

(* The lists one call returns.                                                 *)
LEMMA OneCallKeeps ==
  ASSUME WalkInv, FindPools \/ FindLendable \/ FindBorrowable \/ FindStakeable
  PROVE  WalkInv'
<1>1. /\ walk.list \in OneCall /\ walk.status = "walking" /\ WalkTypeOK
      /\ \/ req.at = "call" /\ PageWithTotal
         \/ req.at = "attach" /\ req.rows = <<>> /\ Empty
         \/ req.at = "attach" /\ Reply(req.rows, req.total)
         \/ req.at = "attach" /\ Fail /\ walk.list \in {"pools", "stakeable"}
            /\ \E i \in DOMAIN req.rows : MetaOf(req.rows[i]) = "broken"
  BY DEF FindPools, FindLendable, FindBorrowable, FindStakeable, Reading, AttachOrFail,
         OneCall, WalkInv
<1>2. walk.list \notin Gathered /\ walk.list \notin {"transactions", "assets"}
  BY <1>1 DEF OneCall, Gathered
<1>3. CASE req.at = "call" /\ PageWithTotal
  <2>1. Reads
    BY <1>3 DEF PageWithTotal
  <2>2. PICK s \in Orders(table) :
          req' = [req EXCEPT !.rows = Slice(s), !.total = Len(s), !.at = "attach"]
    BY <1>3 DEF PageWithTotal
  <2>6. Queried(table)
    BY <1>3, AllQueried
  <2>3. Len(s) \in Nat
    BY <2>6, QueryPage
  <2>4. "attach" \in StagesOf(walk.list)
    BY <1>1, StagesAre
  <2>5. walk.status = "walking" /\ req.at # "answered" /\ "attach" # "rows" /\ "attach" # "count"
    BY <1>1, <1>3
  <2>. QED
    BY <1>2, <2>1, <2>2, <2>3, <2>4, <2>5, <2>6, PageKeeps
<1>4. ASSUME req.at = "attach"
      PROVE  HasPage /\ HasTotal
  BY <1>4 DEF HasPage, HasTotal
<1>5. CASE req.at = "attach" /\ req.rows = <<>> /\ Empty
  BY <1>1, <1>2, <1>4, <1>5, EmptyKeeps
<1>6. CASE req.at = "attach" /\ Reply(req.rows, req.total)
  BY <1>1, <1>2, <1>4, <1>6, AnswerKeepsIt
<1>7. CASE /\ req.at = "attach" /\ Fail /\ walk.list \in {"pools", "stakeable"}
           /\ \E i \in DOMAIN req.rows : MetaOf(req.rows[i]) = "broken"
  BY <1>1, <1>7, FailKeeps DEF Reason
<1>. QED
  BY <1>1, <1>3, <1>5, <1>6, <1>7

(* A list that was gathered is cut into pages.                                 *)
LEMMA CutKeeps ==
  ASSUME WalkInv, walk.status = "walking", walk.list \in Gathered, req.at = "whole",
         NEW rows \in Sorted(req.rows), Cut(rows)
  PROVE  WalkInv'
<1>1. /\ WalkTypeOK /\ SinceBegan /\ OnlyGenuine /\ GatheredOK /\ SizesOK
      /\ \A x \in walk.began : Clear(x) => OnItsWay(x)
  BY DEF WalkInv
<1>2. req.rows \in Seq(Things) /\ AsListed(req.rows)
  BY <1>1 DEF WalkTypeOK, GatheredOK
<1>3. \A i \in DOMAIN req.rows : Genuine(req.rows[i])
  BY <1>1 DEF OnlyGenuine
<1>4. \A i \in DOMAIN req.rows : req.rows[i] \in walk.began \union walk.moved
  BY <1>3 DEF Genuine
<1>5. /\ rows \in Seq(Things) /\ Len(rows) = Cardinality(ToSet(req.rows)) /\ Len(rows) \in Nat
      /\ ToSet(rows) = ToSet(req.rows)
      /\ \A x \in walk.began :
           Clear(x) /\ (\A y \in walk.began : y = x \/ Ahead(y, x) => y \in ToSet(req.rows)) =>
             StandsAt(rows, x, Standing(x)) /\ Standing(x) <= Len(rows) /\ Standing(x) \in Nat
  BY <1>1, <1>2, <1>4, GatheredOrder
<1>6. /\ Slice(rows) \in Seq(Things)
      /\ \A i \in DOMAIN Slice(rows) : Slice(rows)[i] \in ToSet(rows)
      /\ \A x, k : StandsAt(rows, x, k) => Shows(Slice(rows), x, Skipped < k /\ k <= Reached)
  BY <1>1, <1>5, SliceOf
<1>7. \A y \in ToSet(req.rows) : Genuine(y)
  BY <1>3 DEF ToSet
<1>8. \A i \in DOMAIN Slice(rows) : Genuine(Slice(rows)[i])
  BY <1>5, <1>6, <1>7
<1>9. \A x : ~Dropped(x)
  BY DEF Dropped, Gathered
<1>10. ASSUME NEW x \in walk.began, Clear(x)
       PROVE  /\ Shows(Slice(rows), x,
                       (Skipped < Standing(x) /\ Standing(x) <= Reached) /\ ~Dropped(x))
              /\ Standing(x) <= Len(rows)
  <2>1. \A y \in walk.began : y = x \/ Ahead(y, x) => y \in ToSet(req.rows)
    BY <1>1, <1>10 DEF OnItsWay
  <2>2. StandsAt(rows, x, Standing(x)) /\ Standing(x) <= Len(rows)
    BY <1>5, <1>10, <2>1
  <2>3. Shows(Slice(rows), x, Skipped < Standing(x) /\ Standing(x) <= Reached)
    BY <1>6, <2>2
  <2>. QED
    BY <1>9, <2>2, <2>3 DEF Shows
<1>11. Cardinality(req.sizes) > 1 \/ Len(rows) \in req.sizes
  <2>1. Cardinality(Shown(table)) \in req.sizes
    BY <1>1 DEF SizesOK
  <2>2. Cardinality(req.sizes) > 1 \/ ToSet(req.rows) = Shown(table)
    BY <1>1 DEF SizesOK
  <2>. QED
    BY <1>5, <2>1, <2>2
<1>12. walk.list # "transactions"
  BY DEF Gathered
<1>13. Reply(Slice(rows), Len(rows)) /\ req.at # "answered"
  BY DEF Cut
<1>. QED
  BY <1>5, <1>6, <1>8, <1>10, <1>11, <1>12, <1>13, ReplyKeeps

LEMMA GatheredKeep ==
  ASSUME WalkInv,
         \/ GatherStaked \/ PaginateStaked \/ GatherLent \/ PaginateLent
         \/ GatherPositions \/ SlicePositions
  PROVE  WalkInv'
<1>1. walk.list \in Gathered /\ walk.status = "walking" /\ WalkTypeOK
  BY DEF GatherStaked, PaginateStaked, GatherLent, PaginateLent, GatherPositions,
         SlicePositions, Reading, Gathered, WalkInv
<1>2. req.source \in {1, 2}
  BY <1>1 DEF WalkTypeOK, Sources
<1>3. CASE GatherStaked \/ GatherLent \/ GatherPositions
  <2>1. req.at = "gather"
    BY <1>3 DEF GatherStaked, GatherLent, GatherPositions, Reading
  <2> DEFINE Missing == \/ walk.list \in Grounded /\ ~ground
                        \/ /\ walk.list \in {"staked", "lent"}
                           /\ \E r \in Shown(table) : MetaOf(r) = "broken"
  <2>2. Gather(RowsAt(req.source)) \/ (Missing /\ Fail)
    <3>1. CASE GatherStaked
      <4>1. walk.list = "staked" /\ StakedAt(req.source) = RowsAt(req.source)
        BY <1>2, <3>1 DEF GatherStaked, Reading, StakedAt, EthStaked, MaticStaked
      <4>2. \/ OnGround(GatherOrFail(RowsAt(req.source)))
            \/ <<>> \in RowsAt(req.source) /\ Gather({<<>>})
        BY <3>1, <4>1 DEF GatherStaked
      <4>. QED
        BY <4>1, <4>2 DEF OnGround, GatherOrFail, Gather, Grounded
    <3>2. CASE GatherLent
      <4>1. walk.list = "lent" /\ GatherOrFail(RowsAt(req.source))
        BY <1>2, <3>2 DEF GatherLent, Reading, AaveAssets, CompoundAssets
      <4>. QED
        BY <4>1 DEF GatherOrFail
    <3>3. CASE GatherPositions
      <4>1. /\ walk.list = "positions"
            /\ OnGround(Gather(RowsAt(req.source))) \/ Gather(RowsAt(req.source))
        BY <1>2, <3>3 DEF GatherPositions, Reading
      <4>. QED
        BY <4>1 DEF OnGround, Grounded
    <3>. QED
      BY <1>3, <3>1, <3>2, <3>3
  <2>3. CASE Gather(RowsAt(req.source))
    BY <1>1, <2>1, <2>3, GatherKeeps
  <2>4. CASE Missing /\ Fail
    BY <1>1, <2>4, FailKeeps DEF Reason
  <2> HIDE DEF Missing
  <2>. QED
    BY <2>2, <2>3, <2>4
<1>4. CASE PaginateStaked
  <2>1. req.at = "whole" /\ walk.list = "staked" /\ Cut(req.rows)
    BY <1>4 DEF PaginateStaked, Reading
  <2>2. ~walk.sorted
    BY <1>1, <2>1 DEF WalkTypeOK
  <2>3. req.rows \in Sorted(req.rows)
    BY <2>2 DEF Sorted
  <2>. QED
    BY <1>1, <2>1, <2>3, CutKeeps
<1>5. CASE PaginateLent \/ SlicePositions
  <2>1. req.at = "whole" /\ \E rows \in Sorted(req.rows) : Cut(rows)
    BY <1>5 DEF PaginateLent, SlicePositions, Reading
  <2>. QED
    BY <1>1, <2>1, CutKeeps
<1>. QED
  BY <1>3, <1>4, <1>5

(* The next page is asked for, and begins where the last one ended.            *)
LEMMA FirstStages ==
  ASSUME NEW list \in Lists
  PROVE  /\ FirstStage(list) \in StagesOf(list) /\ FirstStage(list) \in ListStages
         /\ FirstStage(list) \in {"count", "page", "gather", "look", "call"}
         /\ FirstStage(list) = "count" <=> list \in CountFirst
         /\ FirstStage(list) = "page" => list \in PageFirst \ {"assets"}
         /\ \A s : s \in CountFirst => s \notin PageFirst
<1>1. \A s : s \in CountFirst => s \notin PageFirst /\ s \notin Gathered /\ s \notin OneCall
  BY DEF CountFirst, PageFirst, Gathered, OneCall
<1>2. CASE list \in CountFirst
  <2>1. FirstStage(list) = "count"
    BY <1>2, <1>1, Zenon DEF FirstStage, CountFirst, PageFirst, Gathered
  <2>. QED
    BY <1>1, <1>2, <2>1, StagesAre DEF ListStages
<1>3. CASE list \in PageFirst \ {"assets"}
  <2>1. /\ list \notin CountFirst /\ list \notin Gathered
        /\ list \notin {"assets", "assetsSet"}
    BY <1>3 DEF CountFirst, PageFirst, Gathered
  <2>2. FirstStage(list) = "page"
    BY <1>3, <2>1 DEF FirstStage
  <2>. QED
    BY <1>1, <1>3, <2>1, <2>2, StagesAre DEF ListStages
<1>4. CASE list \in Gathered
  <2>1. /\ list \notin CountFirst /\ list \notin PageFirst
        /\ list \notin {"assets", "assetsSet"}
    BY <1>4 DEF CountFirst, PageFirst, Gathered
  <2>2. FirstStage(list) = "gather"
    BY <1>4, <2>1 DEF FirstStage
  <2>. QED
    BY <1>1, <1>4, <2>1, <2>2, StagesAre DEF ListStages
<1>5. CASE list \in OneCall
  <2>1. /\ list \notin CountFirst /\ list \notin PageFirst
        /\ list \notin {"assets", "assetsSet"} /\ list \notin Gathered
    BY <1>5 DEF CountFirst, PageFirst, Gathered, OneCall
  <2>2. FirstStage(list) = "call"
    BY <1>5, <2>1 DEF FirstStage
  <2>. QED
    BY <1>1, <1>5, <2>1, <2>2, StagesAre DEF ListStages
<1>6. CASE list \in {"assets", "assetsSet"}
  <2>1. list \notin CountFirst /\ list \notin PageFirst \ {"assets"} /\ list \notin Gathered
    BY <1>6 DEF CountFirst, PageFirst, Gathered
  <2>2. FirstStage(list) = "look"
    BY <1>6, <2>1 DEF FirstStage
  <2>. QED
    BY <1>1, <1>6, <2>1, <2>2, StagesAre DEF ListStages
<1>. QED
  BY <1>2, <1>3, <1>4, <1>5, <1>6 DEF Lists

(* What a request is that was only just asked.                                 *)
LEMMA JustAsked ==
  ASSUME walk'.list \in Lists, req'.at = FirstStage(walk'.list), req'.rows = <<>>,
         req'.total = 0, req'.source = 1, req'.sizes = {Cardinality(Shown(table)')}
  PROVE  /\ ~HasPage' /\ ~HasTotal' /\ req'.at # "answered" /\ Done' = Skipped'
         /\ \A x : OnItsWay(x)'
         /\ GatheredOK' /\ SizesOK' /\ LookedOK'
<1>1. /\ req'.at \in {"count", "page", "gather", "look", "call"}
      /\ req'.at = "count" <=> walk'.list \in CountFirst
      /\ req'.at = "page" => walk'.list \in PageFirst \ {"assets"}
      /\ \A s : s \in CountFirst => s \notin PageFirst
  BY FirstStages
<1>2. ~HasPage' /\ ~HasTotal' /\ req'.at # "answered" /\ Done' = Skipped'
  BY <1>1 DEF HasPage, HasTotal, Done
<1>3. req'.at # "whole" /\ req'.source # 2
  BY <1>1
<1>4. LookedOK'
  BY <1>1 DEF LookedOK, CountFirst
<1>. QED
  BY <1>2, <1>3, <1>4 DEF OnItsWay, GatheredOK, SizesOK

LEMMA TurnKeeps ==
  ASSUME WalkInv, Turn
  PROVE  WalkInv'
<1>1. /\ WalkTypeOK /\ SinceBegan /\ OnlyGenuine /\ GatheredOK /\ SizesOK /\ PagesOn
      /\ TotalsAreReal /\ walk.status = "walking" /\ req.at = "answered" /\ table' = table
  BY DEF WalkInv, Turn
<1>2. \A x \in walk.began : Clear(x) => Seen(x) /\ OnItsWay(x)
  BY <1>1 DEF WalkInv
<1>3. walk.size \in Nat \ {0} /\ walk.page \in Nat \ {0} /\ req.total \in Nat /\ walk.list \in Lists
  BY <1>1, ShownAre DEF WalkTypeOK
<1>4. /\ walk.page < PagesOf(req.total) => Reached < req.total
      /\ PagesOf(req.total) \in Int
      /\ walk.page >= PagesOf(req.total) => req.total <= Reached
  <2> DEFINE t == req.total
             s == walk.size
             p == walk.page
  <2>1. t \in Nat /\ s \in Nat \ {0} /\ p \in Nat
    BY <1>3
  <2> HIDE DEF t, s, p
  <2>2. (t + s - 1) \div s \in Int
    BY <2>1
  <2>3. /\ p < (t + s - 1) \div s => p * s < t
        /\ p >= (t + s - 1) \div s => t <= p * s
    BY <2>1, LastPage
  <2>. QED
    BY <2>2, <2>3 DEF PagesOf, Reached, t, s, p
<1>5. CASE walk.page < PagesOf(req.total)
  <2>1. /\ walk' = [walk EXCEPT !.page = @ + 1]
        /\ req' = Asking(walk.list, walk.search)
    BY <1>5 DEF Turn
  <2>2. /\ walk'.list = walk.list /\ walk'.search = walk.search /\ walk'.sorted = walk.sorted
        /\ walk'.size = walk.size /\ walk'.seen = walk.seen /\ walk'.moves = walk.moves
        /\ walk'.began = walk.began /\ walk'.moved = walk.moved /\ walk'.status = "walking"
        /\ walk'.page = walk.page + 1
    BY <1>1, <2>1 DEF WalkTypeOK
  <2>3. Shown(table) = Shown(table)' /\ Shown(table) = Items(walk.list, walk.search, table)
    BY <1>1, <2>2 DEF Shown
  <2>4. /\ req'.at = FirstStage(walk.list) /\ req'.rows = <<>> /\ req'.total = 0
        /\ req'.source = 1 /\ req'.sizes = {Cardinality(Shown(table))}
    BY <2>1, <2>3 DEF Asking
  <2>5. /\ Things' = Things
        /\ \A x : /\ Standing(x)' = Standing(x) /\ (Clear(x)' <=> Clear(x))
                  /\ (Dropped(x)' <=> Dropped(x)) /\ (Genuine(x)' <=> Genuine(x))
    BY <2>2, SameWalk
  <2>6. Skipped' = Reached /\ Skipped' \in Nat
    BY <1>3, <2>2 DEF Skipped, Reached
  <2>7. /\ ~HasPage' /\ ~HasTotal' /\ req'.at # "answered" /\ Done' = Skipped'
        /\ \A x : OnItsWay(x)'
        /\ GatheredOK' /\ SizesOK' /\ LookedOK'
    <3>1. /\ walk'.list \in Lists /\ req'.at = FirstStage(walk'.list)
          /\ req'.sizes = {Cardinality(Shown(table)')}
      BY <1>3, <2>2, <2>3, <2>4
    <3>. QED
      BY <2>4, <3>1, JustAsked
  <2>8. WalkTypeOK'
    <3>1. walk' \in [list : Lists, search : Searches, size : Sizes, sorted : BOOLEAN,
               page : Nat \ {0}, seen : Seq(Things), status : {"walking", "over", "failed"},
               moves : Nat, began : SUBSET Things, moved : SUBSET Things]
      <4>1. walk.page + 1 \in Nat \ {0}
        BY <1>3
      <4>. QED
        BY <1>1, <2>1, <4>1 DEF WalkTypeOK
    <3>2. /\ FirstStage(walk.list) \in StagesOf(walk.list)
          /\ FirstStage(walk.list) \in ListStages
      BY <1>3, FirstStages
    <3>3. Cardinality(Shown(table)) \in Nat
      BY <1>1, ShownAre
    <3>4. req' \in [at : ListStages, rows : Seq(Things), total : Nat, source : Sources,
                    sizes : SUBSET Nat, among : SUBSET Rows]
      BY <2>1, <2>3, <3>2, <3>3 DEF Asking, Sources
    <3>5. IsFiniteSet(req'.sizes) /\ IsFiniteSet(walk.began)
      <4>1. IsFiniteSet({Cardinality(Shown(table))})
        BY FS_Singleton
      <4>2. IsFiniteSet(req'.sizes)
        BY <2>4, <4>1
      <4>. QED
        BY <1>1, <4>2 DEF WalkTypeOK
    <3>. QED
      BY <1>1, <2>2, <2>4, <2>5, <3>1, <3>2, <3>4, <3>5 DEF WalkTypeOK
  <2>9. SinceBegan'
    BY <1>1, <2>2, <2>3 DEF SinceBegan
  <2>10. OnlyGenuine'
    <3>1. DOMAIN req'.rows = {}
      BY <2>4
    <3>. QED
      BY <1>1, <2>2, <2>5, <3>1 DEF OnlyGenuine
  <2>11. \A x \in walk'.began : Clear(x)' => Seen(x)' /\ OnItsWay(x)'
    <3>1. Done = Reached
      BY <1>1 DEF Done
    <3>2. \A x : Seen(x)' <=> Seen(x)
      BY <2>2, <2>5, <2>6, <2>7, <3>1 DEF Seen, Shows, Once, Never
    <3>. QED
      BY <1>2, <2>2, <2>5, <2>7, <3>2
  <2>12. PagesOn'
    <3>1. ASSUME walk.list = "transactions"
          PROVE  req'.at = "count"
      BY <1>3, <2>4, <3>1, FirstStages DEF CountFirst
    <3>2. walk.list = "transactions" /\ walk.moved = {} => Skipped' < Cardinality(walk.began)
      BY <1>1, <1>4, <1>5, <2>6 DEF PagesOn
    <3>. QED
      BY <2>2, <3>1, <3>2 DEF PagesOn
  <2>13. TotalsAreReal' /\ FailsForAReason'
    BY <2>2, <2>7 DEF TotalsAreReal, FailsForAReason
  <2>. QED
    BY <2>7, <2>8, <2>9, <2>10, <2>11, <2>12, <2>13 DEF WalkInv
<1>6. CASE ~(walk.page < PagesOf(req.total))
  <2>1. walk' = [walk EXCEPT !.status = "over"] /\ req' = req
    BY <1>6 DEF Turn
  <2>2. /\ walk'.list = walk.list /\ walk'.search = walk.search /\ walk'.sorted = walk.sorted
        /\ walk'.size = walk.size /\ walk'.seen = walk.seen /\ walk'.moves = walk.moves
        /\ walk'.began = walk.began /\ walk'.moved = walk.moved /\ walk'.status = "over"
        /\ walk'.page = walk.page
    BY <1>1, <2>1 DEF WalkTypeOK
  <2>3. Shown(table)' = Shown(table)
    BY <1>1, <2>2 DEF Shown
  <2>4. /\ Things' = Things
        /\ \A x : /\ Standing(x)' = Standing(x) /\ (Clear(x)' <=> Clear(x))
                  /\ (Dropped(x)' <=> Dropped(x)) /\ (Genuine(x)' <=> Genuine(x))
    BY <2>2, SameWalk
  <2>5. Skipped' = Skipped /\ Reached' = Reached
    BY <2>2 DEF Skipped, Reached
  <2>6. WalkTypeOK'
    <3>1. walk' \in [list : Lists, search : Searches, size : Sizes, sorted : BOOLEAN,
               page : Nat \ {0}, seen : Seq(Things), status : {"walking", "over", "failed"},
               moves : Nat, began : SUBSET Things, moved : SUBSET Things]
      BY <1>1, <2>1 DEF WalkTypeOK
    <3>2. walk.page >= PagesOf(req.total)
      BY <1>3, <1>4, <1>6
    <3>3. PagesOf(req.total)' = PagesOf(req.total)
      BY <2>1, <2>2 DEF PagesOf
    <3>. QED
      BY <1>1, <2>1, <2>2, <2>4, <3>1, <3>2, <3>3 DEF WalkTypeOK
  <2>7. SinceBegan'
    BY <1>1, <2>2, <2>3 DEF SinceBegan
  <2>8. OnlyGenuine'
    BY <1>1, <2>1, <2>2, <2>4 DEF OnlyGenuine
  <2>9. Done' = Done /\ HasPage' = HasPage /\ HasTotal' = HasTotal
    BY <2>1, <2>2, <2>5 DEF Done, HasPage, HasTotal
  <2>10. \A x \in walk'.began : Clear(x)' => Seen(x)' /\ OnItsWay(x)'
    <3>1. \A x : Seen(x)' <=> Seen(x)
      BY <2>2, <2>4, <2>9 DEF Seen, Shows, Once, Never
    <3>2. ~HasPage /\ ~HasTotal
      BY <1>1, Answered
    <3>3. \A x \in walk.began : Clear(x) => Standing(x) <= Reached
      BY <1>2, <1>1, <1>3, <1>4, <1>6 DEF OnItsWay
    <3>4. \A x \in walk.began : Clear(x) => OnItsWay(x)'
      BY <1>1, <2>1, <2>4, <2>5, <2>9, <3>2, <3>3 DEF OnItsWay
    <3>. QED
      BY <1>2, <2>2, <2>4, <3>1, <3>4
  <2>11. GatheredOK' /\ SizesOK' /\ LookedOK' /\ PagesOn'
    BY <1>1, <2>1, <2>2, <2>9, Answered DEF GatheredOK, SizesOK, LookedOK, PagesOn
  <2>12. TotalsAreReal' /\ FailsForAReason'
    BY <1>1, <2>1, <2>2 DEF TotalsAreReal, FailsForAReason
  <2>. QED
    BY <2>6, <2>7, <2>8, <2>10, <2>11, <2>12 DEF WalkInv
<1>. QED
  BY <1>5, <1>6

(* A row that comes or goes changes a list that is gathered by that row only.  *)
LEMMA OneMoves ==
  ASSUME NEW list \in Gathered \union {"assets"}, NEW search, NEW old \in SUBSET Rows, NEW row \in Rows,
         NEW new, new = IF row \in old THEN old \ {row} ELSE old \union {row},
         Items(list, search, new) # Items(list, search, old)
  PROVE  Cardinality(Items(list, search, new)) # Cardinality(Items(list, search, old))
<1>1. /\ list \in {"staked", "lent", "positions", "assets"}
      /\ list \notin Distinct /\ list # "transactions"
  BY DEF Gathered, Distinct
<1> DEFINE P(r) == list = "lent" => (r.source = 1 => r.meta # "unnamed")
<1>2. \A rows : Items(list, search, rows) = {r \in rows : P(r)}
  <2> SUFFICES ASSUME NEW rows
               PROVE  Items(list, search, rows) = {r \in rows : P(r)}
    OBVIOUS
  <2>1. CASE list = "lent"
    <3>1. Items(list, search, rows) = {r \in rows : r.source = 1 => r.meta # "unnamed"}
      BY <1>1, <2>1, Zenon DEF Items
    <3>. QED
      BY <2>1, <3>1
  <2>2. CASE list # "lent"
    <3>1. Items(list, search, rows) = rows
      BY <1>1, <2>2, Zenon DEF Items
    <3>. QED
      BY <2>2, <3>1
  <2>. QED
    BY <2>1, <2>2
<1> DEFINE a == Items(list, search, old)
           b == Items(list, search, new)
<1>3. a = {r \in old : P(r)} /\ b = {r \in new : P(r)}
  BY <1>2
<1>4. IsFiniteSet(a)
  <2>1. a \subseteq Rows
    BY <1>3
  <2>. QED
    BY <2>1, RowFacts, FS_Subset
<1>5. \/ row \in a /\ b = a \ {row}
      \/ row \notin a /\ b = a \union {row}
  <2>1. CASE row \in old
    <3>1. new = old \ {row}
      BY <2>1
    <3>2. P(row)
      <4> SUFFICES ASSUME ~P(row)
                   PROVE  a = b
        OBVIOUS
      <4> HIDE DEF P
      <4>. QED
        BY <1>3, <3>1
    <3> HIDE DEF P
    <3>. QED
      BY <1>3, <2>1, <3>1, <3>2
  <2>2. CASE row \notin old
    <3>1. new = old \union {row}
      BY <2>2
    <3>2. P(row)
      <4> SUFFICES ASSUME ~P(row)
                   PROVE  a = b
        OBVIOUS
      <4> HIDE DEF P
      <4>. QED
        BY <1>3, <3>1
    <3> HIDE DEF P
    <3>. QED
      BY <1>3, <2>2, <3>1, <3>2
  <2>. QED
    BY <2>1, <2>2
<1> HIDE DEF a, b, P
<1>6. CASE row \in a /\ b = a \ {row}
  <2>1. Cardinality(b) = Cardinality(a) - 1 /\ Cardinality(a) \in Nat
    BY <1>4, <1>6, FS_RemoveElement, FS_CardinalityType
  <2>. QED
    BY <2>1 DEF a, b
<1>7. CASE row \notin a /\ b = a \union {row}
  <2>1. Cardinality(b) = Cardinality(a) + 1 /\ Cardinality(a) \in Nat
    BY <1>4, <1>7, FS_AddElement, FS_CardinalityType
  <2>. QED
    BY <2>1 DEF a, b
<1>. QED
  BY <1>5, <1>6, <1>7

(* Numbers of which two are known to differ are more than one.                 *)
LEMMA TwoOfThem ==
  ASSUME NEW S, IsFiniteSet(S), NEW a \in S, NEW b \in S, a # b
  PROVE  Cardinality(S) > 1
<1>1. {a, b} \subseteq S
  OBVIOUS
<1>2. IsFiniteSet({a}) /\ Cardinality({a}) = 1
  BY FS_Singleton
<1>3. {a, b} = {a} \union {b} /\ b \notin {a}
  OBVIOUS
<1>4. Cardinality({a, b}) = 2
  BY <1>2, <1>3, FS_AddElement
<1>5. Cardinality({a, b}) <= Cardinality(S) /\ Cardinality(S) \in Nat
  BY <1>1, FS_Subset, FS_CardinalityType
<1>. QED
  BY <1>4, <1>5

LEMMA MoreOfThem ==
  ASSUME NEW S, IsFiniteSet(S), NEW n
  PROVE  /\ IsFiniteSet(S \union {n})
         /\ Cardinality(S) > 1 => Cardinality(S \union {n}) > 1
<1>1. IsFiniteSet(S \union {n}) /\ S \subseteq S \union {n}
  BY FS_AddElement
<1>2. /\ Cardinality(S) <= Cardinality(S \union {n})
      /\ Cardinality(S) \in Nat /\ Cardinality(S \union {n}) \in Nat
  BY <1>1, FS_Subset, FS_CardinalityType
<1>. QED
  BY <1>1, <1>2

(* What moves only takes from the rows that a client is promised to see.       *)
LEMMA FewerClear ==
  ASSUME walk'.list = walk.list, walk'.search = walk.search, walk'.sorted = walk.sorted,
         walk'.began = walk.began, walk.moved \subseteq walk'.moved
  PROVE  /\ Things' = Things
         /\ \A x : /\ Standing(x)' = Standing(x)
                   /\ Clear(x)' => Clear(x)
                   /\ Dropped(x)' <=> Dropped(x)
                   /\ Genuine(x) => Genuine(x)'
<1>1. \A x, y : Ahead(x, y)' <=> Ahead(x, y)
  BY DEF Ahead, Key
<1>2. \A x : Standing(x)' = Standing(x)
  BY <1>1 DEF Standing
<1>3. \A x : Steady(x)' => Steady(x)
  BY <1>1 DEF Steady
<1>4. \A x : Tied(x) => Tied(x)'
  BY DEF Tied, Key
<1>5. \A x : Genuine(x) => Genuine(x)'
  BY DEF Genuine
<1>. QED
  BY <1>2, <1>3, <1>4, <1>5 DEF Things, Clear, Dropped

LEMMA ChangeKeeps ==
  ASSUME WalkInv, NEW row \in Rows, Change(row)
  PROVE  WalkInv'
<1>1. /\ WalkTypeOK /\ SinceBegan /\ OnlyGenuine /\ GatheredOK /\ SizesOK /\ LookedOK /\ PagesOn
      /\ TotalsAreReal /\ walk.status = "walking"
      /\ \A x \in walk.began : Clear(x) => Seen(x) /\ OnItsWay(x)
  BY DEF WalkInv, Change
<1>2. walk.list \in Lists /\ table \in SUBSET Rows /\ IsFiniteSet(req.sizes) /\ walk.moves \in Nat
  BY <1>1 DEF WalkTypeOK
<1> DEFINE before == Shown(table)
           after == Items(walk.list, walk.search, table')
           moved == walk.moved \union (after \ before) \union (before \ after)
           sizes == IF req.at = "answered" THEN req.sizes
                    ELSE req.sizes \union {Cardinality(after)}
<1>3. /\ table' = IF row \in table THEN table \ {row} ELSE table \union {row}
      /\ walk' = [walk EXCEPT !.moves = walk.moves + 1, !.moved = moved]
      /\ req' = [req EXCEPT !.sizes = sizes]
  BY DEF Change, Shown
<1>4. table' \in SUBSET Rows
  BY <1>2, <1>3
<1> HIDE DEF moved, sizes
<1>5. /\ walk'.list = walk.list /\ walk'.search = walk.search /\ walk'.sorted = walk.sorted
      /\ walk'.size = walk.size /\ walk'.seen = walk.seen /\ walk'.moves = walk.moves + 1
      /\ walk'.began = walk.began /\ walk'.moved = moved /\ walk'.status = "walking"
      /\ walk'.page = walk.page
  BY <1>1, <1>3 DEF WalkTypeOK
<1>6. /\ req'.at = req.at /\ req'.rows = req.rows /\ req'.total = req.total
      /\ req'.source = req.source /\ req'.sizes = sizes /\ req'.among = req.among
  BY <1>1, <1>3 DEF WalkTypeOK
<1>7. Shown(table)' = after
  BY <1>5 DEF Shown
<1>8. walk.moved \subseteq moved /\ after \ before \subseteq moved /\ before \ after \subseteq moved
      /\ moved \subseteq walk.moved \union after \union before
  BY DEF moved
<1>9. /\ IsFiniteSet(after) /\ Cardinality(after) \in Nat /\ after \subseteq Things
      /\ IsFiniteSet(before) /\ Cardinality(before) \in Nat /\ before \subseteq Things
  <2>1. /\ IsFiniteSet(after) /\ Cardinality(after) \in Nat
        /\ walk.list \in Distinct => after \in SUBSET Nat
        /\ walk.list \notin Distinct => after \in SUBSET table'
    BY <1>2, <1>4, ItemsAre
  <2>2. after \subseteq Things
    BY <1>4, <2>1 DEF Things
  <2>. QED
    BY <1>1, <2>1, <2>2, ShownAre
<1>10. /\ Things' = Things
       /\ \A x : /\ Standing(x)' = Standing(x)
                 /\ Clear(x)' => Clear(x)
                 /\ Dropped(x)' <=> Dropped(x)
                 /\ Genuine(x) => Genuine(x)'
  BY <1>5, <1>8, FewerClear
<1> HIDE DEF after
<1>11. Skipped' = Skipped /\ Reached' = Reached
  BY <1>5 DEF Skipped, Reached
<1>12. Done' = Done /\ HasPage' = HasPage /\ HasTotal' = HasTotal
  BY <1>5, <1>6, <1>11 DEF Done, HasPage, HasTotal
<1>13. /\ IsFiniteSet(sizes) /\ sizes \subseteq Nat /\ req.sizes \subseteq sizes
       /\ Cardinality(req.sizes) > 1 => Cardinality(sizes) > 1
       /\ req.at # "answered" => Cardinality(after) \in sizes
  BY <1>1, <1>2, <1>9, MoreOfThem DEF WalkTypeOK, sizes
<1>14. WalkTypeOK'
  <2>1. moved \subseteq Things
    BY <1>1, <1>8, <1>9 DEF WalkTypeOK
  <2>2. walk.moves + 1 \in Nat
    BY <1>2
  <2>3. walk' \in [list : Lists, search : Searches, size : Sizes, sorted : BOOLEAN,
             page : Nat \ {0}, seen : Seq(Things), status : {"walking", "over", "failed"},
             moves : Nat, began : SUBSET Things, moved : SUBSET Things]
    BY <1>1, <1>3, <2>1, <2>2 DEF WalkTypeOK
  <2>4. req' \in [at : ListStages, rows : Seq(Things), total : Nat, source : Sources,
                  sizes : SUBSET Nat, among : SUBSET Rows]
    BY <1>1, <1>3, <1>13 DEF WalkTypeOK
  <2>. QED
    BY <1>1, <1>4, <1>5, <1>6, <1>10, <1>13, <2>3, <2>4 DEF WalkTypeOK
<1>15. SinceBegan'
  <2>1. walk.moves + 1 # 0
    BY <1>2
  <2>2. /\ walk.began \ moved \subseteq after
        /\ after \subseteq walk.began \union moved
    BY <1>1, <1>8 DEF SinceBegan
  <2>. QED
    BY <1>5, <1>7, <2>1, <2>2 DEF SinceBegan
<1>16. OnlyGenuine'
  BY <1>1, <1>5, <1>6, <1>10 DEF OnlyGenuine
<1>17. \A x \in walk'.began : Clear(x)' => Seen(x)' /\ OnItsWay(x)'
  <2>1. SUFFICES ASSUME NEW x \in walk.began, Clear(x)'
                 PROVE  Seen(x)' /\ OnItsWay(x)'
    BY <1>5
  <2>2. Seen(x) /\ OnItsWay(x)
    BY <1>1, <1>10, <2>1
  <2>3. Seen(x)'
    BY <1>5, <1>10, <1>12, <2>2 DEF Seen, Shows, Once, Never
  <2>4. PagesOf(req.total)' = PagesOf(req.total)
    BY <1>5, <1>6 DEF PagesOf
  <2>5. \A y : Ahead(y, x)' <=> Ahead(y, x)
    BY <1>5 DEF Ahead, Key
  <2>6. OnItsWay(x)'
    BY <1>5, <1>6, <1>10, <1>11, <1>12, <2>2, <2>4, <2>5 DEF OnItsWay, Shows, Once, Never
  <2>. QED
    BY <2>3, <2>6
<1>18. GatheredOK'
  BY <1>1, <1>6 DEF GatheredOK, AsListed, Earlier
<1>22. ASSUME walk.list \in Gathered \union {"assets"}, req.at # "answered", after # before
       PROVE  Cardinality(sizes) > 1
  <2>1. Cardinality(after) # Cardinality(before)
    BY <1>2, <1>3, <1>22, OneMoves DEF after, Shown
  <2>2. Cardinality(before) \in req.sizes
    BY <1>1, <1>22 DEF SizesOK
  <2>. QED
    BY <1>13, <1>22, <2>1, <2>2, TwoOfThem
<1>23. Drifts => Drifts'
  BY <1>5, <1>6, <1>13 DEF Drifts
<1>24. LookedOK'
  <2> SUFFICES ASSUME walk.list = "assets", req.at \in {"page", "count"}
               PROVE  LookedOK'
    BY <1>5, <1>6 DEF LookedOK
  <2>1. after = table' /\ before = table
    <3>1. walk'.list = "assets"
      BY <1>5
    <3>2. Shown(table)' = table'
      <4>1. walk.list \notin Distinct /\ walk.list # "transactions" /\ walk.list # "lent"
        BY DEF Distinct
      <4>. QED
        BY <1>7, <4>1, Zenon DEF after, Items
    <3>. QED
      BY <1>7, <3>2, AssetsShown
  <2>2. Cardinality(sizes) > 1 \/ table' = table
    BY <1>22, <2>1
  <2>3. Drifts' \/ table' \subseteq req.among
    BY <1>1, <1>5, <1>6, <1>23, <2>2 DEF LookedOK, Drifts
  <2>4. walk.began \ moved \subseteq req.among
    BY <1>1, <1>8 DEF LookedOK
  <2>. QED
    BY <1>5, <1>6, <2>3, <2>4 DEF LookedOK
<1>19. SizesOK'
  <2>1. ASSUME req.at \in {"gather", "whole"}, after # before
        PROVE  Cardinality(sizes) > 1
    <3>1. walk.list \in Gathered
      <4>1. req.at \in StagesOf(walk.list)
        BY <1>1 DEF WalkTypeOK
      <4>. QED
        BY <1>2, <2>1, <4>1, StagesAre DEF Lists
    <3>. QED
      BY <1>22, <2>1, <3>1
  <2>. QED
    BY <1>1, <1>6, <1>7, <1>12, <1>13, <1>23, <2>1 DEF SizesOK
<1>20. PagesOn'
  <2>1. moved = {} => walk.moved = {}
    BY <1>8
  <2>. QED
    BY <1>1, <1>5, <1>6, <1>11, <2>1 DEF PagesOn
<1>21. TotalsAreReal' /\ FailsForAReason'
  BY <1>1, <1>5, <1>6 DEF TotalsAreReal, FailsForAReason, sizes
<1>. QED
  BY <1>14, <1>15, <1>16, <1>17, <1>18, <1>19, <1>20, <1>21, <1>24 DEF WalkInv

(* The list begins with the rows there are, and nothing shown.                 *)
LEMMA ListBegins ==
  ASSUME ListInit
  PROVE  WalkInv
<1>1. PICK list \in Lists, search \in Searches, size \in Sizes, sorted \in BOOLEAN :
        /\ list # "transactions" => search.send = <<>> /\ search.recv = <<>>
        /\ sorted => list \in {"lent", "positions"}
        /\ walk = [list |-> list, search |-> search, size |-> size, sorted |-> sorted,
                   page |-> 1, seen |-> <<>>, status |-> "walking", moves |-> 0,
                   began |-> Items(list, search, table), moved |-> {}]
        /\ req = Asking(list, search)
  BY DEF ListInit
<1>2. table \in SUBSET Rows
  BY DEF ListInit
<1>3. /\ walk.list = list /\ walk.search = search /\ walk.size = size /\ walk.sorted = sorted
      /\ walk.page = 1 /\ walk.seen = <<>> /\ walk.status = "walking" /\ walk.moves = 0
      /\ walk.began = Items(list, search, table) /\ walk.moved = {}
  BY <1>1
<1>4. walk.began = Shown(table)
  BY <1>3 DEF Shown
<1>5. /\ req.at = FirstStage(walk.list) /\ req.rows = <<>> /\ req.total = 0
      /\ req.source = 1 /\ req.sizes = {Cardinality(Shown(table))}
  BY <1>1, <1>3, <1>4 DEF Asking
<1>6. /\ req.at \in {"count", "page", "gather", "look", "call"}
      /\ req.at \in StagesOf(walk.list) /\ req.at \in ListStages
      /\ req.at = "count" <=> walk.list \in CountFirst
      /\ req.at = "page" => walk.list \in PageFirst \ {"assets"}
      /\ \A s : s \in CountFirst => s \notin PageFirst
  BY <1>1, <1>3, <1>5, FirstStages
<1>7. ~HasPage /\ ~HasTotal
  BY <1>6 DEF HasPage, HasTotal
<1>8. IsFiniteSet(Shown(table)) /\ Cardinality(Shown(table)) \in Nat /\ Shown(table) \subseteq Things
  <2>1. /\ IsFiniteSet(Items(list, search, table))
        /\ Cardinality(Items(list, search, table)) \in Nat
        /\ list \in Distinct => Items(list, search, table) \in SUBSET Nat
        /\ list \notin Distinct => Items(list, search, table) \in SUBSET table
    BY <1>1, <1>2, ItemsAre
  <2>. QED
    BY <1>2, <1>3, <1>4, <2>1 DEF Things
<1>9. WalkTypeOK
  <2>1. walk \in [list : Lists, search : Searches, size : Sizes, sorted : BOOLEAN,
             page : Nat \ {0}, seen : Seq(Things), status : {"walking", "over", "failed"},
             moves : Nat, began : SUBSET Things, moved : SUBSET Things]
    <3>1. walk.began \in SUBSET Things
      BY <1>4, <1>8
    <3>. QED
      BY <1>1, <1>3, <3>1
  <2>2. req \in [at : ListStages, rows : Seq(Things), total : Nat, source : Sources,
                 sizes : SUBSET Nat, among : SUBSET Rows]
    BY <1>1, <1>3, <1>4, <1>5, <1>6, <1>8 DEF Asking, Sources
  <2>3. IsFiniteSet(req.sizes)
    <3>1. IsFiniteSet({Cardinality(Shown(table))})
      BY FS_Singleton
    <3>. QED
      BY <1>5, <3>1
  <2>. QED
    BY <1>1, <1>2, <1>3, <1>4, <1>6, <1>8, <2>1, <2>2, <2>3 DEF WalkTypeOK
<1>10. SinceBegan
  BY <1>3, <1>4 DEF SinceBegan
<1>11. OnlyGenuine
  BY <1>3, <1>5 DEF OnlyGenuine
<1>12. ASSUME NEW x \in walk.began
       PROVE  Seen(x) /\ OnItsWay(x)
  <2>1. Standing(x) \in Nat /\ Standing(x) >= 1
    BY <1>9, Places
  <2>2. walk.size \in Nat
    BY <1>9, ShownAre
  <2>3. Done = 0
    BY <1>3, <1>6, <2>2 DEF Done, Skipped
  <2>4. Seen(x)
    <3>1. ~(Standing(x) <= Done /\ ~Dropped(x))
      BY <2>1, <2>3
    <3>. QED
      BY <1>3, <3>1, NothingShown DEF Seen
  <2>. QED
    BY <1>5, <1>6, <1>7, <2>4 DEF OnItsWay
<1>13. GatheredOK /\ SizesOK /\ LookedOK /\ PagesOn
  <2>1. walk.list = "transactions" => req.at = "count"
    BY <1>6 DEF CountFirst
  <2>. QED
    BY <1>3, <1>5, <1>6, <1>7, <2>1 DEF GatheredOK, SizesOK, LookedOK, PagesOn, CountFirst
<1>14. TotalsAreReal /\ FailsForAReason
  BY <1>3, <1>6 DEF TotalsAreReal, FailsForAReason
<1>. QED
  BY <1>9, <1>10, <1>11, <1>12, <1>13, <1>14 DEF WalkInv

LEMMA ListStutters ==
  ASSUME WalkInv, UNCHANGED <<table, walk, req>>,
         ground' = ground \/ walk.status = "walking"
  PROVE  WalkInv'
<1>1. walk' = walk /\ req' = req /\ table' = table
  OBVIOUS
<1>2. Shown(table)' = Shown(table)
  BY <1>1 DEF Shown
<1>3. /\ Things' = Things
      /\ \A x : /\ Standing(x)' = Standing(x) /\ (Clear(x)' <=> Clear(x))
                /\ (Dropped(x)' <=> Dropped(x)) /\ (Genuine(x)' <=> Genuine(x))
  BY <1>1, SameWalk
<1>4. /\ Skipped' = Skipped /\ Reached' = Reached /\ Done' = Done
      /\ HasPage' = HasPage /\ HasTotal' = HasTotal
  BY <1>1 DEF Skipped, Reached, Done, HasPage, HasTotal
<1>5. WalkTypeOK' /\ SinceBegan' /\ OnlyGenuine'
  BY <1>1, <1>2, <1>3 DEF WalkInv, WalkTypeOK, SinceBegan, OnlyGenuine, PagesOf
<1>6. GatheredOK' /\ SizesOK' /\ LookedOK' /\ PagesOn' /\ TotalsAreReal'
  BY <1>1, <1>2, <1>4 DEF WalkInv, GatheredOK, SizesOK, LookedOK, Drifts, PagesOn,
                          TotalsAreReal, AsListed
<1>8. FailsForAReason'
  BY <1>1, <1>2 DEF WalkInv, FailsForAReason, Reason, MetaOf
<1>7. walk'.status # "failed" =>
        \A x \in walk'.began : Clear(x)' => Seen(x)' /\ OnItsWay(x)'
  BY <1>1, <1>3, <1>4 DEF WalkInv, Seen, OnItsWay, Shows, Once, Never, Ahead, Key, PagesOf
<1>. QED
  BY <1>5, <1>6, <1>7, <1>8 DEF WalkInv

LEMMA ListStep ==
  ASSUME WalkInv, [ListNext]_listVars
  PROVE  WalkInv'
<1>1. CASE CountTransactions \/ PageOfTransactions \/ FetchTransactions
  BY <1>1, TransactionsKeep
<1>2. CASE FindEvents \/ FindTokens \/ FindCexTokens
  BY <1>2, CountFirstKeep
<1>3. CASE LookForAssets \/ PageOfAssets
  BY <1>3, AssetsSetKeep
<1>4. CASE LookForAddresses \/ PageOfUserAssets \/ CountUserAssets \/ FormUserAssets
  BY <1>4, UserAssetsKeep
<1>5. CASE FindRampPairs \/ FindFiats
  BY <1>5, RampsKeep
<1>6. CASE \/ GatherStaked \/ PaginateStaked \/ GatherLent \/ PaginateLent
           \/ GatherPositions \/ SlicePositions
  BY <1>6, GatheredKeep
<1>7. CASE FindPools \/ FindLendable \/ FindBorrowable \/ FindStakeable
  BY <1>7, OneCallKeeps
<1>8. CASE Turn
  BY <1>8, TurnKeeps
<1>9. CASE \E row \in Rows : Change(row)
  BY <1>9, ChangeKeeps
<1>10. CASE UNCHANGED listVars
  BY <1>10, ListStutters DEF listVars
<1>11. CASE Shift
  BY <1>11, ListStutters DEF Shift
<1>. QED
  BY <1>11, <1>1, <1>2, <1>3, <1>4, <1>5, <1>6, <1>7, <1>8, <1>9, <1>10 DEF ListNext

(* At its end a walk has shown each row whose place is kept, once.             *)
LEMMA WalkedToTheEnd ==
  ASSUME WalkInv, walk.status = "over", NEW x \in walk.began, Clear(x)
  PROVE  Times(x) = IF Dropped(x) THEN 0 ELSE 1
<1>1. Seen(x) /\ OnItsWay(x)
  BY DEF WalkInv
<1>2. req.at = "answered" /\ walk.page >= PagesOf(req.total)
  BY DEF WalkInv, WalkTypeOK
<1>3. Standing(x) <= Done
  BY <1>1, <1>2 DEF OnItsWay, Done
<1>4. CASE Dropped(x)
  <2>1. Never(walk.seen, x)
    BY <1>1, <1>4 DEF Seen, Shows
  <2>. QED
    BY <1>4, <2>1, OnceCounts DEF Times
<1>5. CASE ~Dropped(x)
  <2>1. Once(walk.seen, x)
    BY <1>1, <1>3, <1>5 DEF Seen, Shows
  <2>. QED
    BY <1>5, <2>1, OnceCounts DEF Times
<1>. QED
  BY <1>4, <1>5

(* What a search finds is wanted; all of that, when it is for tokens of one    *)
(* chain on one side.                                                          *)
LEMMA FoundIsWanted ==
  ASSUME NEW search \in Searches, NEW x
  PROVE  /\ Found(x, search) => Wanted(x, search)
         /\ Simple(search) /\ Wanted(x, search) => Found(x, search)
<1> DEFINE Sought == [chain : Chains, token : Tokens]
<1>1. search.send \in Seq(Sought) /\ search.recv \in Seq(Sought)
  BY ListsAssumption DEF ListsAssumption
<1> HIDE DEF Sought
<1>2. \A tokens, wanted : HasOneOf(x, tokens, wanted) =>
        \E w \in ToSet(wanted) : w.chain = x.chain /\ w.token \in tokens
  BY DEF HasOneOf, LookedFor
<1>3. Found(x, search) => Wanted(x, search)
  BY <1>2 DEF Found, Wanted
<1>4. ASSUME Simple(search), Wanted(x, search)
      PROVE  Found(x, search)
  <2>1. ToSet(search.send \o search.recv) = ToSet(search.send) \union ToSet(search.recv)
    BY <1>1, BothHold
  <2>2. \A wanted \in Seq(Sought) : wanted # <<>> => wanted[1] \in ToSet(wanted)
    BY DEF ToSet
  <2>3. CASE search.send # <<>>
    <3>1. search.recv = <<>>
      BY <1>4, <2>3 DEF Simple
    <3>2. \A w \in ToSet(search.send) : w.chain = search.send[1].chain
      BY <1>1, <1>4, <2>1, <2>2, <2>3 DEF Simple
    <3>3. HasOneOf(x, Debits(x), search.send)
      BY <1>4, <2>3, <3>2 DEF Wanted, HasOneOf, LookedFor
    <3>. QED
      BY <2>3, <3>1, <3>3 DEF Found
  <2>4. CASE search.recv # <<>>
    <3>1. search.send = <<>>
      BY <1>4, <2>4 DEF Simple
    <3>2. \A w \in ToSet(search.recv) : w.chain = search.recv[1].chain
      BY <1>1, <1>4, <2>1, <2>2, <2>4 DEF Simple
    <3>3. HasOneOf(x, Credits(x), search.recv)
      BY <1>4, <2>4, <3>2 DEF Wanted, HasOneOf, LookedFor
    <3>. QED
      BY <2>4, <3>1, <3>3 DEF Found
  <2>. QED
    BY <2>3, <2>4 DEF Found
<1>. QED
  BY <1>3, <1>4

LEMMA WalksTellTheTable ==
  ASSUME WalkInv
  PROVE  ListsTellTheTable
<1>1. WalkTypeOK /\ SinceBegan /\ OnlyGenuine /\ TotalsAreReal /\ FailsForAReason
  BY DEF WalkInv
<1>2. EveryRowOnce
  BY WalkedToTheEnd DEF EveryRowOnce, Clear
<1>3. walk.search \in Searches
  BY <1>1 DEF WalkTypeOK
<1>4. \A i \in DOMAIN walk.seen :
        /\ walk.seen[i] \in walk.began \union walk.moved
        /\ walk.list = "transactions" => Wanted(walk.seen[i], walk.search)
  BY <1>1, <1>3, FoundIsWanted DEF OnlyGenuine, Genuine
<1>5. ASSUME walk.list = "transactions", walk.status = "over", walk.moves = 0,
             Simple(walk.search), NEW x \in table, Wanted(x, walk.search)
      PROVE  Tied(x) \/ Times(x) = 1
  <2>1. walk.moved = {} /\ Shown(table) = walk.began
    BY <1>1, <1>5 DEF SinceBegan
  <2>2. walk.list \notin Distinct
    BY <1>5 DEF Distinct
  <2>3. Shown(table) = {r \in table : Found(r, walk.search)}
    BY <1>5, <2>2, Zenon DEF Shown, Items
  <2>4. x \in walk.began /\ Steady(x)
    BY <1>3, <1>5, <2>1, <2>3, FoundIsWanted DEF Steady
  <2>5. ~Dropped(x)
    BY <1>5 DEF Dropped
  <2>. QED
    BY <1>5, <2>4, <2>5, WalkedToTheEnd DEF Clear
<1>6. NothingElse
  BY <1>4, <1>5 DEF NothingElse
<1>7. TotalsAreReal /\ FailsForAReason
  BY <1>1
<1>. QED
  BY <1>2, <1>6, <1>7, Zenon DEF ListsTellTheTable

(* However large its tables and however often they change while a client turns *)
(* the pages, a list shows each row that keeps its place once, nothing that    *)
(* was not there, a number of rows it had, and it fails only for want of what  *)
(* it stands on or its rows refer to, for want of rows where none is refused,  *)
(* or because transactions moved.                                              *)
THEOREM ListsTellWhatIsThere == ListSpec => []ListsTellTheTable
<1>1. ListInit => WalkInv
  BY ListBegins
<1>2. WalkInv /\ [ListNext]_listVars => WalkInv'
  BY ListStep
<1>3. WalkInv => ListsTellTheTable
  BY WalksTellTheTable
<1>. QED
  BY <1>1, <1>2, <1>3, PTL DEF ListSpec
===============================================================================
