-------------------------------- MODULE MCLists --------------------------------
(* A walk through a list, a visit to the offers and a chart, each on its own:  *)
(* a behaviour is of one of them.                                              *)
EXTENDS Lists, Offers, Charts

CONSTANTS c1, c2, c3, t1, t2, eth, usd, dai, zerox, debridge, rango,
          halted

VARIABLE part

(* Two rows of one key, rows that lack something, and a search of each kind:   *)
(* for two tokens of one chain, for tokens of two chains, for both sides.      *)
Row(key, source, listed, meta, chain, assets) ==
  [key |-> key, source |-> source, listed |-> listed, meta |-> meta, chain |-> chain,
   assets |-> assets]
MCRows ==
  {Row(1, 1, 2, "named", c1, {<<"debit", t1>>}),
   Row(2, 1, 1, "unnamed", c2, {<<"credit", t1>>, <<"debit", t2>>}),
   Row(2, 2, 2, "named", c1, {<<"debit", t2>>, <<"credit", t1>>}),
   Row(3, 2, 1, "broken", c2, {<<"credit", t1>>})}
On(chain, token) == [chain |-> chain, token |-> token]
Search(send, recv) == [send |-> send, recv |-> recv]
MCSearches ==
  {Search(<<>>, <<>>), Search(<<On(c1, t1), On(c1, t2)>>, <<>>),
   Search(<<>>, <<On(c2, t1), On(c1, t1)>>), Search(<<On(c1, t2)>>, <<On(c1, t1)>>)}

(* A stablecoin with one address on two chains, one on a chain the user has    *)
(* no wallet on; a service within chains, one between them, one that does     *)
(* both, and one that is halted and does neither.                              *)
Coin(address, chain) == [address |-> address, chain |-> chain, stable |-> address # eth]
MCCoins == {Coin(eth, c1), Coin(usd, c1), Coin(usd, c2), Coin(dai, c3)}
MCListings ==
  {<<halted, Coin(eth, c1)>>, <<zerox, Coin(eth, c1)>>, <<zerox, Coin(usd, c1)>>,
   <<zerox, Coin(dai, c3)>>}
  \union {debridge, rango} \X {Coin(eth, c1), Coin(usd, c1), Coin(usd, c2)}

(* Years of three months, of 3, 2 and 4 days of two hours of two ticks; charts *)
(* are asked for at every tick of the second year.                             *)
MCMonthStarts == <<0, 3, 5, 9, 12, 14, 18>>
MCNows == 37..70
MCRecorded == {{}, {5}, {16, 30, 31}}

Idle == [at |-> "idle"]
NoLists == /\ table = {} /\ ground = FALSE /\ req = Idle
           /\ walk = [status |-> "idle", list |-> "none", seen |-> <<>>]
NoOffers == supported = {} /\ offer = Idle
NoCharts == now = 0 /\ snapshots = {} /\ chart = Idle

MCInit ==
  \/ part = "lists" /\ ListInit /\ NoOffers /\ NoCharts
  \/ part = "offers" /\ OfferInit /\ NoLists /\ NoCharts
  \/ part = "charts" /\ ChartInit /\ NoLists /\ NoOffers

MCNext ==
  /\ UNCHANGED part
  /\ \/ part = "lists" /\ ListNext /\ UNCHANGED <<offerVars, chartVars>>
     \/ part = "offers" /\ OfferNext /\ UNCHANGED <<listVars, chartVars>>
     \/ part = "charts" /\ ChartNext /\ UNCHANGED <<listVars, offerVars>>

MCSpec == MCInit /\ [][MCNext]_<<part, listVars, offerVars, chartVars>>
===============================================================================
