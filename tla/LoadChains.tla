------------------------------ MODULE LoadChains ------------------------------
(***************************************************************************)
(* Loading the chains: LoadChainService and its two callers, the init of   *)
(* chains (InitChainsService.handleInit) and the administrator's request   *)
(* (ChainAdminController.loadChains), over the tables chain and            *)
(* platform_coin.                                                          *)
(*                                                                         *)
(* A run records its start time, then finds each chain of a list it        *)
(* fetches, and Bitcoin and Solana, and updates its row, or creates one,   *)
(* and in the end deletes the rows whose updatedAt is not later than its   *)
(* start.  Every query is awaited, so runs interleave between any two      *)
(* queries; there is no transaction.                                       *)
(*                                                                         *)
(* Times are only ever compared with the start of a run, so fresh[r], the  *)
(* rows updated since run r began, stands for them.  This takes the clocks *)
(* of the process and of the database for one.                             *)
(***************************************************************************)
EXTENDS Naturals, FiniteSets

CONSTANTS
  Listed,  \* EVM chains that chainid.network may list
  Ids,     \* ids of rows (a bound: a row that is created takes an unused one)
  Runs,    \* slots for runs (a bound)
  None

Keys == Listed \cup {"BTC", "SOL"}

ASSUME ChainsAssumption ==
  /\ "BTC" \notin Listed /\ "SOL" \notin Listed
  /\ None \notin Keys /\ None \notin Ids
  /\ Ids \cap {"none", "find", "absent"} = {}

VARIABLES
  chain,    \* table chain: the chain each row stands for, or None
  coins,    \* rows of chain that platform_coin refers to
  run,      \* each run: its stage, the list it fetched, how it ended
  task,     \* each run's query for each chain
  fresh,    \* rows updated or created since the run began
  victims,  \* rows the run's cleanup has selected and not yet deleted
  current,  \* the one of them whose coins are deleted, or None
  (* history variables *)
  own,      \* rows the run itself has updated or created
  alone,    \* no other run was active since the run began
  serial    \* no two runs were ever active together

tables    == <<chain, coins>>
cleanup   == <<victims, current>>
history   == <<own, alone, serial>>
chainVars == <<tables, run, task, fresh, cleanup, history>>

-------------------------------------------------------------------------------
Loading == {"btc", "evm", "sol"}
Stages  == Loading \cup {"idle", "list", "select", "cleanup"}

NoRun == [order |-> "init", stage |-> "idle", list |-> {}, done |-> FALSE]
Run   == [order : {"init", "admin"}, stage : Stages, list : SUBSET Listed, done : BOOLEAN]

(* A query looks for the chain, has found no row or a row, or is over. *)
Task == {"none", "find", "absent"} \cup Ids

(* handleInit loads Bitcoin first, loadChains last. *)
First == [init |-> "btc", admin |-> "list"]
After ==
  [init  |-> [btc |-> "list", list |-> "evm", evm |-> "sol", sol |-> "select", select |-> "cleanup"],
   admin |-> [list |-> "evm", evm |-> "sol", sol |-> "btc", btc |-> "select", select |-> "cleanup"]]

NextStage(r) == After[run[r].order][run[r].stage]

Stage(r)   == run[r].stage
Waiting(r) == {k \in Keys : task[r][k] # "none"}

(* A failed run may leave queries of its page behind: Promise.all rejects   *)
(* at once, the other saveOneChain calls go on.                             *)
Active(r) == Stage(r) # "idle" \/ Waiting(r) # {}

RowsOf(k)   == {i \in Ids : chain[i] = k}
Expected(r) == run[r].list \cup {"BTC", "SOL"}

(* The rows not updated since the run began. *)
Old(r) == {i \in Ids \ fresh[r] : chain[i] # None}

StageOf(k) == IF k = "BTC" THEN "btc" ELSE IF k = "SOL" THEN "sol" ELSE "evm"

(* The chains a stage looks for, given the list. *)
Wanted(stage, list) ==
  {k \in list \cup {"BTC", "SOL"} : StageOf(k) = stage}

(* Mutant: Solana is left out. *)
BeginsWithoutSolana(r, stage, list) ==
  task' = [task EXCEPT ![r] =
             [k \in Keys |-> IF k \in Wanted(stage, list) \ {"SOL"} THEN "find" ELSE "none"]]

(* The queries of a stage begin. *)
Begins(r, stage, list) ==
  task' = [task EXCEPT ![r] =
             [k \in Keys |-> IF k \in Wanted(stage, list) THEN "find" ELSE "none"]]

(* An id that no row has, and that no run remembers. *)
Unused(i) ==
  /\ chain[i] = None
  /\ \A r \in Runs :
       /\ i \notin victims[r] \cup fresh[r] \cup own[r]
       /\ \A k \in Keys : task[r][k] # i

(* Row i is updated or created by a query of run r: its updatedAt is later  *)
(* than the start of every run.                                             *)
Touched(r, i) ==
  /\ fresh' = [q \in Runs |-> IF Stage(q) # "idle" THEN fresh[q] \cup {i} ELSE fresh[q]]
  /\ own' = [own EXCEPT ![r] = IF Stage(r) # "idle" THEN @ \cup {i} ELSE @]

(* The run ends, done or with an error, and what it knew is gone. *)
Ends(r, done) ==
  /\ run' = [run EXCEPT ![r] = IF done THEN [@ EXCEPT !.stage = "idle", !.done = TRUE] ELSE NoRun]
  /\ fresh' = [fresh EXCEPT ![r] = {}]
  /\ victims' = [victims EXCEPT ![r] = {}]
  /\ current' = [current EXCEPT ![r] = None]
  /\ own' = [own EXCEPT ![r] = {}]

-------------------------------------------------------------------------------
ChainsInit ==
  /\ chain = [i \in Ids |-> None]
  /\ coins = {}
  /\ run = [r \in Runs |-> NoRun]
  /\ task = [r \in Runs |-> [k \in Keys |-> "none"]]
  /\ fresh = [r \in Runs |-> {}]
  /\ victims = [r \in Runs |-> {}]
  /\ current = [r \in Runs |-> None]
  /\ own = [r \in Runs |-> {}]
  /\ alone = [r \in Runs |-> FALSE]
  /\ serial = TRUE

(* A run begins: startInitDate is taken. *)
Start(r, order) ==
  /\ ~Active(r)
  /\ run' = [run EXCEPT ![r] = [NoRun EXCEPT !.order = order, !.stage = First[order]]]
  /\ Begins(r, First[order], {})
  /\ alone' = [q \in Runs |-> q = r /\ \A p \in Runs : ~Active(p)]
  /\ serial' = (serial /\ \A p \in Runs : ~Active(p))
  /\ UNCHANGED <<tables, fresh, cleanup, own>>

(* chainid.network answers with a list of chains. *)
FetchList(r, list) ==
  /\ Stage(r) = "list"
  /\ run' = [run EXCEPT ![r].list = list, ![r].stage = NextStage(r)]
  /\ Begins(r, "evm", list)
  /\ UNCHANGED <<tables, fresh, cleanup, history>>

(* Mutant: Bitcoin is looked for under another name. *)
FindChainMissesBitcoin(r, k) ==
  /\ task[r][k] = "find"
  /\ \/ \E i \in RowsOf(k) : k # "BTC" /\ task' = [task EXCEPT ![r][k] = i]
     \/ k = "BTC" /\ task' = [task EXCEPT ![r][k] = "absent"]
     \/ RowsOf(k) = {} /\ task' = [task EXCEPT ![r][k] = "absent"]
  /\ UNCHANGED <<tables, run, fresh, cleanup, history>>

(* findEVMChain, or findOneBy: one of the rows, if there is any. *)
FindChain(r, k) ==
  /\ task[r][k] = "find"
  /\ \/ \E i \in RowsOf(k) : task' = [task EXCEPT ![r][k] = i]
     \/ RowsOf(k) = {} /\ task' = [task EXCEPT ![r][k] = "absent"]
  /\ UNCHANGED <<tables, run, fresh, cleanup, history>>

(* Mutant: a chain with nothing to change is not updated. *)
UpdateOnlyChanges(r, k) ==
  /\ task[r][k] \in Ids
  /\ task' = [task EXCEPT ![r][k] = "none"]
  /\ UNCHANGED <<tables, run, fresh, cleanup, history>>

(* Chain.update of the row that was found, which sets its updatedAt; a row  *)
(* deleted meanwhile is not there to be updated, and nobody notices.        *)
UpdateChain(r, k) ==
  /\ task[r][k] \in Ids
  /\ task' = [task EXCEPT ![r][k] = "none"]
  /\ IF chain[task[r][k]] # None
     THEN Touched(r, task[r][k])
     ELSE UNCHANGED <<fresh, own>>
  /\ UNCHANGED <<tables, run, cleanup, alone, serial>>

(* Chain.create and save. *)
CreateChain(r, k) ==
  /\ task[r][k] = "absent"
  /\ \E i \in Ids :
       /\ Unused(i)
       /\ chain' = [chain EXCEPT ![i] = k]
       /\ Touched(r, i)
  /\ task' = [task EXCEPT ![r][k] = "none"]
  /\ UNCHANGED <<coins, run, cleanup, alone, serial>>

(* A query of a load fails, and the run with it; a query that a failed run  *)
(* has left behind fails unnoticed.                                         *)
QueryFails(r, k) ==
  /\ task[r][k] # "none"
  /\ task' = [task EXCEPT ![r][k] = "none"]
  /\ IF Stage(r) # "idle"
     THEN Ends(r, FALSE)
     ELSE UNCHANGED <<run, fresh, cleanup, own>>
  /\ UNCHANGED <<tables, alone, serial>>

(* Fetching the list, or a query of the cleanup, fails. *)
RunFails(r) ==
  /\ Stage(r) \in {"list", "select", "cleanup"}
  /\ Ends(r, FALSE)
  /\ UNCHANGED <<tables, task, alone, serial>>

(* Mutant: a stage does not wait for its last queries. *)
StageEndsEarly(r) ==
  /\ Stage(r) \in Loading
  /\ Cardinality(Waiting(r)) <= 1
  /\ run' = [run EXCEPT ![r].stage = NextStage(r)]
  /\ IF NextStage(r) \in Loading
     THEN Begins(r, NextStage(r), run[r].list)
     ELSE UNCHANGED task
  /\ UNCHANGED <<tables, fresh, cleanup, history>>

(* All chains of a stage are saved, the next stage begins. *)
StageEnds(r) ==
  /\ Stage(r) \in Loading
  /\ Waiting(r) = {}
  /\ run' = [run EXCEPT ![r].stage = NextStage(r)]
  /\ Begins(r, NextStage(r), run[r].list)
  /\ UNCHANGED <<tables, fresh, cleanup, history>>

(* cleanupChainsToDate selects the rows to delete. *)
SelectOld(r) ==
  /\ Stage(r) = "select"
  /\ IF Old(r) = {}
     THEN Ends(r, TRUE)
     ELSE /\ victims' = [victims EXCEPT ![r] = Old(r)]
          /\ run' = [run EXCEPT ![r].stage = NextStage(r)]
          /\ UNCHANGED <<fresh, current, own>>
  /\ UNCHANGED <<tables, task, alone, serial>>

(* For each of them, first its coins are deleted... *)
DeleteCoins(r, i) ==
  /\ Stage(r) = "cleanup"
  /\ current[r] = None
  /\ i \in victims[r]
  /\ coins' = coins \ {i}
  /\ current' = [current EXCEPT ![r] = i]
  /\ UNCHANGED <<chain, run, task, fresh, victims, history>>

(* ...and then its row, unless a coin was added that refers to it: the      *)
(* query fails then (RunFails).                                             *)
DeleteChain(r) ==
  /\ Stage(r) = "cleanup"
  /\ current[r] # None
  /\ current[r] \notin coins
  /\ chain' = [chain EXCEPT ![current[r]] = None]
  /\ IF victims[r] = {current[r]}
     THEN Ends(r, TRUE)
     ELSE /\ victims' = [victims EXCEPT ![r] = @ \ {current[r]}]
          /\ current' = [current EXCEPT ![r] = None]
          /\ UNCHANGED <<run, fresh, own>>
  /\ UNCHANGED <<coins, task, alone, serial>>

(* ms-pairs adds a coin of a chain. *)
AddCoin(i) ==
  /\ chain[i] # None
  /\ coins' = coins \cup {i}
  /\ UNCHANGED <<chain, run, task, fresh, cleanup, history>>

(* The process ends: the tables stay. *)
ProcessEnds ==
  /\ run' = [r \in Runs |-> NoRun]
  /\ task' = [r \in Runs |-> [k \in Keys |-> "none"]]
  /\ fresh' = [r \in Runs |-> {}]
  /\ victims' = [r \in Runs |-> {}]
  /\ current' = [r \in Runs |-> None]
  /\ own' = [r \in Runs |-> {}]
  /\ alone' = [r \in Runs |-> FALSE]
  /\ UNCHANGED <<tables, serial>>

-------------------------------------------------------------------------------
Query(r, k) == FindChain(r, k) \/ UpdateChain(r, k) \/ CreateChain(r, k) \/ QueryFails(r, k)

RunStep(r) ==
  \/ \E list \in SUBSET Listed : FetchList(r, list)
  \/ RunFails(r)
  \/ StageEnds(r)
  \/ SelectOld(r)
  \/ \E i \in Ids : DeleteCoins(r, i)
  \/ DeleteChain(r)

ChainsNext ==
  \/ \E r \in Runs : Start(r, "init") \/ Start(r, "admin") \/ RunStep(r)
  \/ \E r \in Runs, k \in Keys : Query(r, k)
  \/ \E i \in Ids : AddCoin(i)
  \/ ProcessEnds

ChainsSpec == ChainsInit /\ [][ChainsNext]_chainVars
-------------------------------------------------------------------------------
ChainsTypeOK ==
  /\ chain \in [Ids -> Keys \cup {None}]
  /\ coins \subseteq Ids
  /\ run \in [Runs -> Run]
  /\ task \in [Runs -> [Keys -> Task]]
  /\ fresh \in [Runs -> SUBSET Ids]
  /\ victims \in [Runs -> SUBSET Ids]
  /\ current \in [Runs -> Ids \cup {None}]
  /\ own \in [Runs -> SUBSET Ids]
  /\ alone \in [Runs -> BOOLEAN]
  /\ serial \in BOOLEAN

(* The cleanup of a run never deletes a row that the run itself has updated *)
(* or created, however many runs, failed runs and restarts there are.       *)
CleanupSparesOwnRows ==
  \A r \in Runs : victims[r] \cap own[r] = {}

(* When a run that no other run met is done, the table holds each chain of  *)
(* its list, Bitcoin and Solana exactly once and nothing else, whatever     *)
(* duplicates and leftovers earlier runs, failures and crashes had left.    *)
LoneRunLeavesList ==
  \A r \in Runs :
    alone[r] /\ run[r].done
    => \A k \in Keys : Cardinality(RowsOf(k)) = IF k \in Expected(r) THEN 1 ELSE 0

(* As long as no two runs meet, the check before each creation is enough:   *)
(* no chain ever has two rows, even after runs that failed or were cut off. *)
SerialRunsKeepKeysUnique ==
  serial => \A i, j \in Ids : chain[i] # None /\ chain[i] = chain[j] => i = j

(* As long as no two runs meet, a reader sees every chain that stays listed *)
(* at all times: a chain vanishes from the table, or loses its coins, only  *)
(* when a run that did not find it in its list cleans up.                   *)
SerialRunsSpareListed ==
  [][serial =>
       /\ \A k \in Keys :
            RowsOf(k) # {} /\ RowsOf(k)' = {}
            => \E r \in Runs : Stage(r) = "cleanup" /\ k \notin Expected(r)
       /\ \A i \in coins \ coins' :
            \E r \in Runs : Stage(r) = "cleanup" /\ chain[i] \notin Expected(r)]_chainVars

-------------------------------------------------------------------------------
(* The strengthening that makes the safety properties above inductive. *)
Position ==
  [init  |-> [btc |-> 1, list |-> 2, evm |-> 3, sol |-> 4, select |-> 5, cleanup |-> 6],
   admin |-> [list |-> 2, evm |-> 3, sol |-> 4, btc |-> 5, select |-> 6, cleanup |-> 7]]

At(r, stage) == Position[run[r].order][stage]

(* The chains of which the run has updated or created a row. *)
Loaded(r) ==
  {k \in Expected(r) : k \notin Waiting(r) /\ At(r, StageOf(k)) <= At(r, Stage(r))}

(* What a run knows, whatever the others do. *)
RunInv(r) ==
  /\ Stage(r) = "idle" => fresh[r] = {} /\ own[r] = {}
  /\ Stage(r) # "cleanup" => victims[r] = {} /\ current[r] = None
  /\ Stage(r) \in {"list", "select", "cleanup"} => Waiting(r) = {}
  /\ Stage(r) \in Loading => Waiting(r) \subseteq Wanted(Stage(r), run[r].list)
  /\ own[r] \subseteq fresh[r]
  /\ victims[r] \cap own[r] = {}
  /\ current[r] # None => current[r] \in victims[r]
  /\ run[r].done => ~Active(r)

(* What it knows of the table when nobody else is active: its queries are   *)
(* up to date, its own rows are one for each chain it has loaded, and its   *)
(* cleanup has selected all others.                                         *)
Lonely(r) == \A q \in Runs \ {r} : ~Active(q)

QueriesUpToDate(r) ==
  \A k \in Keys :
    /\ task[r][k] \in Ids => chain[task[r][k]] = k
    /\ task[r][k] = "absent" => RowsOf(k) = {}

OwnRowsMatch(r) ==
  Stage(r) # "idle" =>
    /\ fresh[r] = own[r]
    /\ \A i \in own[r] : chain[i] \in Loaded(r)
    /\ \A i, j \in own[r] : chain[i] = chain[j] => i = j
    /\ \A k \in Loaded(r) : \E i \in own[r] : chain[i] = k

CleanupCovers(r) ==
  Stage(r) = "cleanup" => \A i \in Ids : chain[i] # None => i \in own[r] \cup victims[r]

LoneInv(r) == Lonely(r) /\ QueriesUpToDate(r) /\ OwnRowsMatch(r) /\ CleanupCovers(r)

Unique == \A i, j \in Ids : chain[i] # None /\ chain[i] = chain[j] => i = j

Complete(r) ==
  /\ Unique
  /\ \A i \in Ids : chain[i] # None => chain[i] \in Expected(r)
  /\ \A k \in Expected(r) : \E i \in Ids : chain[i] = k

ChainsIInv ==
  /\ ChainsTypeOK
  /\ \A r \in Runs : RunInv(r)
  /\ \A r \in Runs : alone[r] => LoneInv(r)
  /\ \A r \in Runs : alone[r] /\ run[r].done => Complete(r)
  /\ serial => Unique /\ \A r \in Runs : Active(r) => alone[r]
===============================================================================
