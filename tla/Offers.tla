-------------------------------- MODULE Offers --------------------------------
(* What a user is offered to exchange: tokens to buy for a token at the        *)
(* services, stablecoins to buy for it at 0x, or coins to buy for money. The   *)
(* user then picks one, and asks which services (or ramps) exchange the pair.  *)
(* The two requests read the same tables, each in its own queries, while the   *)
(* jobs that fill the tables run.                                              *)
EXTENDS Integers, FiniteSets

CONSTANTS
  Services,    \* services, or ramps
  CanSingle,   \* services that exchange within a chain
  CanMulti,    \* services that exchange between chains
  ZeroX,       \* the service that stablecoins are offered at
  Coins,       \* [address, chain, stable]; an address may be on several chains
  Listings,    \* the pairs <<service, coin>> that the tables may hold
  UserChains,  \* chains the user has wallets on
  MaxRelists,  \* bound: rows added to or removed from the tables during a visit
  Nothing

OffersAssumption ==
  /\ CanSingle \subseteq Services /\ CanMulti \subseteq Services
  /\ ZeroX \in CanSingle /\ Listings \subseteq Services \X Coins
  /\ \A c \in Coins : c.stable \in BOOLEAN
ASSUME OffersAssumption

VARIABLES
  supported,  \* external: the pairs <<service, coin>> in the tables
  offer       \* the user's visit

offerVars == <<supported, offer>>

Via == {"services", "stables", "ramps"}
Supports(s, c) == <<s, c>> \in supported
Offering(coins) == \E s \in Services, c \in coins : Supports(s, c)

(* A coin is named as the tables have it, or in mixed case.                    *)
OfferInit ==
  /\ supported \in SUBSET Listings
  /\ \E via \in Via, c \in Coins, spelled \in {"lower", "mixed"} :
       /\ via # "stables" => spelled = "lower"
       /\ offer = [via |-> via, asked |-> c, spelled |-> spelled, at |-> "begin",
                   services |-> {}, offered |-> {}, chosen |-> Nothing, ids |-> {},
                   answer |-> {}, kept |-> supported, ever |-> supported,
                   relists |-> 0, ceased |-> FALSE]

At(via, stage) == offer.via = via /\ offer.at = stage
Move(next) == offer' = next /\ UNCHANGED supported
Refuse(why) == Move([offer EXCEPT !.at = why])
Offer(coins) == Move([offer EXCEPT !.at = "offered", !.offered = coins])

(* One coin per address, whichever the database comes to first.                *)
OnePerAddress(coins) ==
  {o \in SUBSET coins :
     /\ {c.address : c \in o} = {c.address : c \in coins}
     /\ \A c, d \in o : c.address = d.address => c = d}

-------------------------------------------------------------------------------
(* Tokens at services: first the services of the token that is sold.           *)
FindServices ==
  /\ At("services", "begin")
  /\ LET found == {s \in Services : Supports(s, offer.asked)} IN
     IF found = {} THEN Offer({})
     ELSE Move([offer EXCEPT !.at = "services", !.services = found])

(* A mutant of Reaches: a service may be asked for any chain.                  *)
ReachesAll(s, c) == s \in CanSingle \union CanMulti

(* A service that does one of the two only is asked for its own chains.        *)
Reaches(s, c) ==
  \/ s \in CanSingle \cap CanMulti
  \/ s \in CanMulti \ CanSingle /\ c.chain # offer.asked.chain
  \/ s \in CanSingle \ CanMulti /\ c.chain = offer.asked.chain

(* Services that do neither leave nothing to ask for.                          *)
NoneToAsk == offer.services \cap (CanSingle \union CanMulti) = {}

FindPairs ==
  /\ At("services", "services") /\ ~NoneToAsk
  /\ LET found == {c \in Coins : /\ c.chain \in UserChains /\ c # offer.asked
                                 /\ \E s \in offer.services : Reaches(s, c) /\ Supports(s, c)}
     IN  \E o \in OnePerAddress(found) : Offer(o)
RefusePairs == At("services", "services") /\ NoneToAsk /\ Refuse("notFound")

-------------------------------------------------------------------------------
(* Stablecoins: the name is put in lower case here, and nowhere else.          *)
Is0xSupported(c) == Supports(ZeroX, c)
Check0x ==
  /\ At("stables", "begin")
  /\ IF Is0xSupported(offer.asked) THEN Move([offer EXCEPT !.at = "stables"])
     ELSE Refuse("notFound")
FindStables ==
  /\ At("stables", "stables")
  /\ LET found == {c \in Coins : /\ c.stable /\ c.chain = offer.asked.chain
                                 /\ Supports(ZeroX, c)}
     IN  IF found = {} THEN Refuse("notFound") ELSE Offer(found \ {offer.asked})

(* Coins for money: one per symbol, on the chains of the user.                 *)
FindRampCoins ==
  /\ At("ramps", "begin")
  /\ LET found == {c \in Coins : c.chain \in UserChains /\ Offering({c})}
     IN  \E o \in OnePerAddress(found) : Offer(o)

-------------------------------------------------------------------------------
(* The user picks one of what is offered.                                      *)
Choose(c) ==
  /\ offer.at = "offered" /\ c \in offer.offered
  /\ Move([offer EXCEPT !.at = "chosen", !.chosen = c])

(* The coins of the pair are looked up by the names they were given: one that  *)
(* is not found is left out of what follows.                                   *)
FindTokenIds ==
  /\ offer.at = "chosen" /\ offer.via # "ramps"
  /\ Move([offer EXCEPT !.at = "ids", !.ids = {offer.chosen} \union
             (IF offer.spelled = "lower" THEN {offer.asked} ELSE {})])

SingleChain == offer.asked.chain = offer.chosen.chain
Fits(s) == IF SingleChain THEN s \in CanSingle ELSE s \in CanMulti

ServicesOfPair ==
  /\ offer.at = "ids"
  /\ Move([offer EXCEPT !.at = "answered",
             !.answer = {s \in Services : Fits(s) /\ \A c \in offer.ids : Supports(s, c)}])

RampsOfPair ==
  /\ offer.at = "chosen" /\ offer.via = "ramps"
  /\ Move([offer EXCEPT !.at = "answered",
             !.answer = {s \in Services : Supports(s, offer.chosen)}])

(* Jobs: a service starts or ceases to support a coin.                         *)
Relist(s, c) ==
  /\ offer.at \notin {"answered", "notFound"} /\ offer.relists < MaxRelists
  /\ supported' = IF Supports(s, c) THEN supported \ {<<s, c>>}
                  ELSE supported \union {<<s, c>>}
  /\ offer' = [offer EXCEPT !.relists = @ + 1, !.ceased = @ \/ Supports(s, c),
                 !.kept = @ \intersect supported', !.ever = @ \union supported']

OfferNext ==
  \/ FindServices \/ FindPairs \/ RefusePairs \/ Check0x \/ FindStables
  \/ FindRampCoins \/ FindTokenIds \/ ServicesOfPair \/ RampsOfPair
  \/ \E c \in offer.offered : Choose(c)
  \/ \E l \in Listings : Relist(l[1], l[2])

OfferSpec == OfferInit /\ [][OfferNext]_offerVars

-------------------------------------------------------------------------------
(* Properties.                                                                 *)

Pair == IF offer.via = "ramps" THEN {offer.chosen} ELSE {offer.asked, offer.chosen}
Serves(s, tables) == /\ \A c \in Pair : <<s, c>> \in tables
                     /\ offer.via = "ramps" \/ Fits(s)

(* What is offered can be taken. Whichever of the offered coins the user picks, *)
(* somebody exchanges it, unless a service ceased to support a coin since; the  *)
(* answer has every service that did all along, and none that never did. For    *)
(* stablecoins and a name in mixed case it has services that do not know the    *)
(* token that is sold.                                                          *)
OffersCanBeTaken ==
  offer.at = "answered" =>
    /\ \A s \in Services : Serves(s, offer.kept) => s \in offer.answer
    /\ ~offer.ceased => offer.answer # {}
    /\ offer.spelled = "lower" => \A s \in offer.answer : Serves(s, offer.ever)
    /\ offer.chosen # offer.asked \/ offer.via = "ramps"
===============================================================================
