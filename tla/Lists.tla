--------------------------------- MODULE Lists ---------------------------------
(* A client walks through the pages of a list. The server keeps nothing        *)
(* between two pages, and reads the rows of one page and their number by       *)
(* queries of their own, with no transaction around them: other services add   *)
(* and remove rows between any two reads. Some lists stand on something read   *)
(* before their rows, and are refused as a whole when it is not there.         *)
EXTENDS Integers, FiniteSets, Sequences, SequencesExt

CONSTANTS
  Rows,      \* what a list may hold: see RowsIn
  Chains, Tokens,
  Searches,  \* what transactions are searched for: tokens sent, tokens received
  Sizes,     \* rows asked for per page
  MaxMoves   \* bound: rows added or removed during a walk

(* A row's key places it in its list: a date, a price, or for the lists of     *)
(* distinct values the value itself. Its source is where the lists that are    *)
(* gathered from several places find it, and listed its place there; its meta  *)
(* tells what the rows it refers to lack: "unnamed" when it is passed over,    *)
(* "broken" when the page fails. assets are the tokens a transaction moved.    *)
Sources == 1..2
RowsIn == [key : Nat, source : Sources, listed : Nat,
           meta : {"named", "unnamed", "broken"}, chain : Chains,
           assets : SUBSET ({"debit", "credit"} \X Tokens)]

ListsAssumption ==
  /\ Rows \subseteq RowsIn /\ IsFiniteSet(Rows)
  /\ \A q, r \in Rows : q.source = r.source /\ q.listed = r.listed => q = r
  /\ Searches \subseteq [send : Seq([chain : Chains, token : Tokens]),
                         recv : Seq([chain : Chains, token : Tokens])]
  /\ Sizes \subseteq Nat \ {0} /\ MaxMoves \in Nat
ASSUME ListsAssumption

VARIABLES
  table,  \* external: the rows there are
  ground, \* external: is what the list stands on there?
  walk,   \* the client: its list, its page, what it has seen
  req     \* the request for one page: how far it is, what it has read

listVars == <<table, ground, walk, req>>

CountFirst == {"transactions", "events", "tokens", "cexTokens"}
PageFirst == {"assets", "rampPairs", "fiats"}
Gathered == {"staked", "lent", "positions"}
OneCall == {"pools", "lendable", "borrowable", "stakeable"}
(* What they stand on: the user's wallets (transactions, assetsSet, positions),  *)
(* chains (rampPairs) or analytics (assets), the coin to sell, the user's      *)
(* chains and an exchange that can sell it (tokens), Lido's coin (staked).     *)
Grounded ==
  {"transactions", "assetsSet", "positions", "rampPairs", "assets", "tokens", "staked"}
Lists == CountFirst \union PageFirst \union Gathered \union OneCall \union {"assetsSet"}
(* Lists that show each value once, however many rows have it.                 *)
Distinct == {"events", "tokens", "cexTokens", "rampPairs", "fiats", "assetsSet"}

Debits(row) == {a[2] : a \in {b \in row.assets : b[1] = "debit"}}
Credits(row) == {a[2] : a \in {b \in row.assets : b[1] = "credit"}}

(* The search for tokens. Its query goes chain by chain over what is left of   *)
(* the tokens, and keeps for the next chains the addresses alone, which then   *)
(* are of no chain: only the tokens of the first chain are looked for.         *)
LookedFor(wanted) == {w \in ToSet(wanted) : w.chain = wanted[1].chain}
HasOneOf(row, tokens, wanted) ==
  \E w \in LookedFor(wanted) : w.chain = row.chain /\ w.token \in tokens

(* A mutant of Found: the two sides are searched as one.                       *)
FoundEitherWay(row, search) ==
  LET wanted == search.send \o search.recv IN
  wanted # <<>> => HasOneOf(row, Debits(row) \union Credits(row), wanted)

(* One asset of the transaction has to satisfy the whole search: none is sent  *)
(* and received at once.                                                       *)
Found(row, search) ==
  \/ search.send = <<>> /\ search.recv = <<>>
  \/ search.recv = <<>> /\ search.send # <<>> /\ HasOneOf(row, Debits(row), search.send)
  \/ search.send = <<>> /\ search.recv # <<>> /\ HasOneOf(row, Credits(row), search.recv)

Items(list, search, rows) ==
  CASE list \in Distinct -> {r.key : r \in rows}
    [] list = "transactions" -> {r \in rows : Found(r, search)}
    [] list = "lent" -> {r \in rows : r.source = 1 => r.meta # "unnamed"}
    [] OTHER -> rows
Shown(rows) == Items(walk.list, walk.search, rows)

Key(x) == IF walk.list \in Distinct THEN x ELSE x.key

(* A query orders its rows by their keys; rows of one key come in any order,   *)
(* in another one each time.                                                   *)
Orders(rows) ==
  {s \in SetToSeqs(Shown(rows)) : \A i, j \in DOMAIN s : i < j => Key(s[i]) <= Key(s[j])}

-------------------------------------------------------------------------------
FirstStage(list) ==
  CASE list \in CountFirst -> "count" [] list \in PageFirst \ {"assets"} -> "page"
    [] list \in Gathered -> "gather" [] list \in {"assets", "assetsSet"} -> "look"
    [] OTHER -> "call"
(* among are the rows whose addresses the list of assets found first; sizes is *)
(* history: the sizes of the list during the request.                          *)
Asking(list, search) ==
  [at |-> FirstStage(list), rows |-> <<>>, total |-> 0, source |-> 1, among |-> {},
   sizes |-> {Cardinality(Items(list, search, table))}]

ListInit ==
  /\ table \in SUBSET Rows /\ ground \in BOOLEAN
  /\ \E list \in Lists, search \in Searches, size \in Sizes, sorted \in BOOLEAN :
       /\ list # "transactions" => search.send = <<>> /\ search.recv = <<>>
       /\ sorted => list \in {"lent", "positions"}
       /\ walk = [list |-> list, search |-> search, size |-> size, sorted |-> sorted,
                  page |-> 1, seen |-> <<>>, status |-> "walking", moves |-> 0,
                  began |-> Items(list, search, table), moved |-> {}]
       /\ req = Asking(list, search)

Reading(list, stage) == walk.list = list /\ walk.status = "walking" /\ req.at = stage
Reads == UNCHANGED <<table, ground, walk>>

Slice(s) == SubSeq(s, (walk.page - 1) * walk.size + 1,
                   IF walk.page * walk.size < Len(s) THEN walk.page * walk.size ELSE Len(s))
(* A mutant of PagesOf: the last page counts only when it is full.             *)
FullPages(total) == total \div walk.size
PagesOf(total) == (total + walk.size - 1) \div walk.size

CountAll(rows, next) ==
  req' = [req EXCEPT !.total = Cardinality(Shown(rows)), !.at = next]
TakePage(rows, next) ==
  \E s \in Orders(rows) : req' = [req EXCEPT !.rows = Slice(s), !.at = next]

(* The rows of a page that belong to some, in their order.                     *)
Kept(rows, some) ==
  LET at == {i \in DOMAIN rows : rows[i] \in some}
      Upto(i) == {j \in at : j <= i}
  IN  [n \in 1..Cardinality(at) |-> rows[CHOOSE i \in at : Cardinality(Upto(i)) = n]]

MetaOf(r) == r.meta

Reply(rows, total) ==
  /\ req' = [req EXCEPT !.at = "answered", !.rows = rows, !.total = total]
  /\ walk' = [walk EXCEPT !.seen = @ \o rows]
  /\ UNCHANGED <<table, ground>>
Empty == Reply(<<>>, 0)
AnswerPage == \E s \in Orders(table) : Reply(Slice(s), req.total)
AnswerCount == Reply(req.rows, Cardinality(Shown(table)))
Fail ==
  /\ req' = [req EXCEPT !.at = "answered"]
  /\ walk' = [walk EXCEPT !.status = "failed"]
  /\ UNCHANGED <<table, ground>>
(* The first thing a list does that stands on something.                       *)
OnGround(step) == IF ground THEN step ELSE Fail

-------------------------------------------------------------------------------
(* Transactions: all the ids, those of the page, and the rows by their ids,    *)
(* when there are any transactions at all. A page without ids is an error of   *)
(* the database then. Rows that are gone by now are left out.                  *)
CountTransactions ==
  Reading("transactions", "count") /\ OnGround(Reads /\ CountAll(table, "page"))
PageOfTransactions == Reading("transactions", "page") /\ Reads /\ TakePage(table, "rows")
FetchTransactions ==
  /\ Reading("transactions", "rows")
  /\ IF req.total = 0 THEN Empty
     ELSE IF req.rows = <<>> THEN Fail
     ELSE Reply(Kept(req.rows, table), req.total)

FindEvents ==
  \/ Reading("events", "count") /\ Reads /\ CountAll(table, "page")
  \/ Reading("events", "page") /\ AnswerPage

(* The coins of the transactions are listed first, then the page of those.     *)
LookForAssets ==
  /\ Reading("assetsSet", "look")
  /\ IF table = {} \/ ~ground THEN Fail
     ELSE Reads /\ \E s \in Orders(table) :
                     req' = [req EXCEPT !.rows = Slice(s), !.total = Len(s), !.at = "ready"]
PageOfAssets == Reading("assetsSet", "ready") /\ Reply(req.rows, req.total)

(* What a user owns: the addresses of all that the user's transactions moved,  *)
(* without which the list is refused, the page and the number of the assets    *)
(* among those, and then every row with its chain and coin. A row without a    *)
(* chain or a name is left out, one without a coin fails the page. Only when   *)
(* the page had no rows is it answered as empty.                               *)
LookForAddresses ==
  /\ Reading("assets", "look")
  /\ \E some \in SUBSET Rows :
       /\ table \subseteq some
       /\ IF some = {} \/ ~ground THEN Fail
          ELSE Reads /\ req' = [req EXCEPT !.among = some, !.at = "page"]
PageOfUserAssets ==
  Reading("assets", "page") /\ Reads /\ TakePage(table \intersect req.among, "count")
CountUserAssets ==
  Reading("assets", "count") /\ Reads /\ CountAll(table \intersect req.among, "ready")
FormUserAssets ==
  /\ Reading("assets", "ready")
  /\ IF \E i \in DOMAIN req.rows : MetaOf(req.rows[i]) = "broken" THEN Fail
     ELSE IF req.rows = <<>> THEN Empty
     ELSE Reply(Kept(req.rows, {r \in Rows : MetaOf(r) = "named"}), req.total)

(* On ramp: the pairs are not counted when the page is empty; the fiats are,   *)
(* and the number is thrown away.                                              *)
FindRampPairs ==
  \/ Reading("rampPairs", "page") /\ OnGround(Reads /\ TakePage(table, "count"))
  \/ /\ Reading("rampPairs", "count")
     /\ IF req.rows = <<>> THEN Empty ELSE AnswerCount
FindFiats ==
  \/ Reading("fiats", "page") /\ Reads /\ TakePage(table, "count")
  \/ /\ Reading("fiats", "count")
     /\ IF req.rows = <<>> THEN Empty ELSE AnswerCount

(* Tokens to buy for a token, at the services and at the exchanges.            *)
FindTokens ==
  \/ Reading("tokens", "count") /\ OnGround(Reads /\ CountAll(table, "page"))
  \/ Reading("tokens", "page") /\ AnswerPage
FindCexTokens ==
  \/ Reading("cexTokens", "count") /\ Reads /\ CountAll(table, "page")
  \/ Reading("cexTokens", "page") /\ AnswerPage

-------------------------------------------------------------------------------
(* Lists that are gathered whole, source by source, and then cut: what is      *)
(* staked (wallets on Ethereum, then on Polygon), lent (at Aave, then at       *)
(* Compound), and the positions in pools (wallet by wallet). A source lists    *)
(* its rows in an order of its own; when they are sorted, those of one key     *)
(* stay as they were.                                                          *)
Earlier(q, r) == q.source < r.source \/ (q.source = r.source /\ q.listed < r.listed)
ByKey(q, r) == q.key < r.key \/ (q.key = r.key /\ Earlier(q, r))
RowsAt(source) ==
  {s \in SetToSeqs({r \in Shown(table) : r.source = source}) :
     \A i, j \in DOMAIN s : i < j => Earlier(s[i], s[j])}
Gather(listings) ==
  /\ \E rows \in listings :
       req' = [req EXCEPT !.rows = @ \o rows, !.source = IF @ = 2 THEN 1 ELSE 2,
                 !.at = IF req.source = 2 THEN "whole" ELSE "gather"]
  /\ Reads
(* A row whose price or provider is not in the database fails the list.        *)
GatherOrFail(listings) ==
  IF \E r \in Shown(table) : r.source = req.source /\ MetaOf(r) = "broken" THEN Fail
  ELSE Gather(listings)
Sorted(rows) ==
  IF walk.sorted
  THEN {s \in SetToSeqs(ToSet(rows)) : \A i, j \in DOMAIN s : i < j => ByKey(s[i], s[j])}
  ELSE {rows}
Cut(rows) == Reply(Slice(rows), Len(rows))

(* A wallet without a stake is passed over: it has no row. The coin is asked   *)
(* for on the chains the user has wallets on.                                  *)
EthStaked == RowsAt(1)
MaticStaked == RowsAt(2)
StakedAt(source) == IF source = 1 THEN EthStaked ELSE MaticStaked
GatherStaked ==
  /\ Reading("staked", "gather")
  /\ \/ OnGround(GatherOrFail(StakedAt(req.source)))
     \/ <<>> \in StakedAt(req.source) /\ Gather({<<>>})
PaginateStaked == Reading("staked", "whole") /\ Cut(req.rows)

(* What is lent at Aave is asked of Aave, and left out when its reserve is not *)
(* in the database, or not as one of Aave; Compound is asked reserve by        *)
(* reserve of the database.                                                    *)
AaveAssets == RowsAt(1)
CompoundAssets == RowsAt(2)
GatherLent ==
  /\ Reading("lent", "gather")
  /\ GatherOrFail(IF req.source = 1 THEN AaveAssets ELSE CompoundAssets)
PaginateLent == Reading("lent", "whole") /\ \E rows \in Sorted(req.rows) : Cut(rows)

(* The wallets are read before the first one's positions. The active positions *)
(* are sorted, the inactive ones are not.                                      *)
GatherPositions ==
  /\ Reading("positions", "gather")
  /\ IF req.source = 1 THEN OnGround(Gather(RowsAt(1))) ELSE Gather(RowsAt(2))
SlicePositions == Reading("positions", "whole") /\ \E rows \in Sorted(req.rows) : Cut(rows)

-------------------------------------------------------------------------------
(* Lists whose page and number one call to the database module returns; then   *)
(* every row is given its names and its yields, all at once: pools and what    *)
(* can be staked fail as a whole when one of them has none.                    *)
PageWithTotal ==
  /\ \E s \in Orders(table) :
       req' = [req EXCEPT !.rows = Slice(s), !.total = Len(s), !.at = "attach"]
  /\ Reads
AttachOrFail ==
  IF \E i \in DOMAIN req.rows : MetaOf(req.rows[i]) = "broken" THEN Fail
  ELSE Reply(req.rows, req.total)

FindPools ==
  \/ Reading("pools", "call") /\ PageWithTotal
  \/ Reading("pools", "attach") /\ req.rows = <<>> /\ Empty
  \/ Reading("pools", "attach") /\ req.rows # <<>> /\ AttachOrFail
FindLendable ==
  \/ Reading("lendable", "call") /\ PageWithTotal
  \/ Reading("lendable", "attach") /\ Reply(req.rows, req.total)
FindBorrowable ==
  \/ Reading("borrowable", "call") /\ PageWithTotal
  \/ Reading("borrowable", "attach") /\ Reply(req.rows, req.total)
FindStakeable ==
  \/ Reading("stakeable", "call") /\ PageWithTotal
  \/ Reading("stakeable", "attach") /\ AttachOrFail

-------------------------------------------------------------------------------
(* The client asks for the next page while the last answer names one.          *)
Turn ==
  /\ walk.status = "walking" /\ req.at = "answered"
  /\ IF walk.page < PagesOf(req.total)
     THEN /\ walk' = [walk EXCEPT !.page = @ + 1]
          /\ req' = Asking(walk.list, walk.search)
     ELSE walk' = [walk EXCEPT !.status = "over"] /\ UNCHANGED req
  /\ UNCHANGED <<table, ground>>

(* Other services: jobs, and the user's own transactions.                      *)
Change(row) ==
  /\ walk.status = "walking" /\ walk.moves < MaxMoves
  /\ table' = IF row \in table THEN table \ {row} ELSE table \union {row}
  /\ LET now == Shown(table')
         old == Shown(table)
     IN  /\ walk' = [walk EXCEPT !.moves = @ + 1,
                       !.moved = @ \union (now \ old) \union (old \ now)]
         /\ req' = [req EXCEPT !.sizes = IF req.at = "answered" THEN @
                                        ELSE @ \union {Cardinality(now)}]
  /\ UNCHANGED ground
Shift == walk.status = "walking" /\ ground' = ~ground /\ UNCHANGED <<table, walk, req>>

ListNext ==
  \/ CountTransactions \/ PageOfTransactions \/ FetchTransactions \/ FindEvents
  \/ LookForAssets \/ PageOfAssets
  \/ LookForAddresses \/ PageOfUserAssets \/ CountUserAssets \/ FormUserAssets
  \/ FindRampPairs \/ FindFiats \/ FindTokens \/ FindCexTokens
  \/ GatherStaked \/ PaginateStaked \/ GatherLent \/ PaginateLent
  \/ GatherPositions \/ SlicePositions
  \/ FindPools \/ FindLendable \/ FindBorrowable \/ FindStakeable
  \/ Turn
  \/ \E row \in Rows : Change(row)
  \/ Shift

ListSpec == ListInit /\ [][ListNext]_listVars

-------------------------------------------------------------------------------
(* Properties.                                                                 *)

(* A row comes before another one in the list.                                 *)
Ahead(x, y) == IF walk.list \in Gathered
               THEN IF walk.sorted THEN ByKey(x, y) ELSE Earlier(x, y)
               ELSE Key(x) < Key(y)
(* A row that is in the list all along, and none before it comes or goes.      *)
Steady(x) == x \in walk.began \ walk.moved /\ \A y \in walk.moved : Ahead(x, y)
Tied(x) == /\ walk.list \notin Gathered \union Distinct
           /\ \E y \in walk.began \union walk.moved : y # x /\ Key(y) = Key(x)
Dropped(x) == walk.list = "assets" /\ MetaOf(x) # "named"
Times(x) == Cardinality({i \in DOMAIN walk.seen : walk.seen[i] = x})

(* A client that walks to the end is shown every row of its list exactly once, *)
(* the rows around which others come and go, or that share their place with    *)
(* another, aside.                                                             *)
EveryRowOnce ==
  walk.status = "over" =>
    \A x \in walk.began : Steady(x) /\ ~Tied(x) =>
      Times(x) = IF Dropped(x) THEN 0 ELSE 1

(* It is shown nothing that was not there, and what it searched for only; all  *)
(* of that when it searches for the tokens of one chain on one side.           *)
Wanted(x, search) ==
  /\ search.send # <<>> => \E w \in ToSet(search.send) :
                             w.chain = x.chain /\ w.token \in Debits(x)
  /\ search.recv # <<>> => \E w \in ToSet(search.recv) :
                             w.chain = x.chain /\ w.token \in Credits(x)
Simple(search) == /\ search.send = <<>> \/ search.recv = <<>>
                  /\ \A v, w \in ToSet(search.send \o search.recv) : v.chain = w.chain
NothingElse ==
  /\ \A i \in DOMAIN walk.seen : walk.seen[i] \in walk.began \union walk.moved
  /\ walk.list = "transactions" =>
       /\ \A i \in DOMAIN walk.seen : Wanted(walk.seen[i], walk.search)
       /\ walk.status = "over" /\ walk.moves = 0 /\ Simple(walk.search) =>
            \A x \in table : Wanted(x, walk.search) => Tied(x) \/ Times(x) = 1

(* The number of rows in an answer is one the list had during the request,     *)
(* unless the answer is empty, or rows moved while it was gathered from one    *)
(* source after the other, or while the addresses that it is restricted to     *)
(* were known already.                                                         *)
TotalsAreReal ==
  req.at = "answered" /\ walk.status # "failed" =>
    \/ req.total \in req.sizes
    \/ req.total = 0 /\ req.rows = <<>>
    \/ walk.list \in Gathered \union {"assets"} /\ Cardinality(req.sizes) > 1

(* A page fails only when what its list stands on was not there, when          *)
(* transactions went while it was turned to, when there was nothing to list    *)
(* the coins of, or when a row lacks what it refers to: one of the page or,    *)
(* in a list that is gathered whole, one of any page.                          *)
Reason ==
  \/ walk.list \in Grounded /\ ~ground
  \/ walk.list = "transactions" /\ walk.moved # {}
  \/ walk.list \in {"assets", "assetsSet"} /\ 0 \in req.sizes
  \/ /\ walk.list \in {"assets", "pools", "stakeable"}
     /\ \E i \in DOMAIN req.rows : MetaOf(req.rows[i]) = "broken"
  \/ walk.list \in {"staked", "lent"} /\ \E r \in Shown(table) : MetaOf(r) = "broken"
FailsForAReason == walk.status = "failed" => Reason

ListsTellTheTable ==
  EveryRowOnce /\ NothingElse /\ TotalsAreReal /\ FailsForAReason
===============================================================================
