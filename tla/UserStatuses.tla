----------------------------- MODULE UserStatuses -----------------------------
(***************************************************************************)
(* The status of a user's transactions and of a user's analytics, and the  *)
(* requests that start their initialisation: GET user/transactions/init    *)
(* (TransactionController, TransactionService) and GET user/analytics/init *)
(* (UserAnalyticsController, UserAnalyticsService), composed with the      *)
(* requests of UserAccount, which save the row that holds both statuses.   *)
(*                                                                         *)
(* A guard refuses an init while the status is IS_INITING.  An init sets   *)
(* that status and hands the work to a microservice, which reports the     *)
(* outcome; wallets of another chain group than EVM have no microservice.  *)
(***************************************************************************)
EXTENDS UserAccount

CONSTANTS
  Inits,    \* slots for init requests in progress (a bound)
  GroupOf,  \* the chain group of each wallet's chain
  MaxJobs   \* a bound on the jobs a microservice has at a time

VARIABLES
  init,   \* each init request in progress
  jobs,   \* jobs of each column that a microservice is working on
  (* history variables *)
  blame,  \* why nothing will end the IS_INITING of a column
  calm    \* no two inits of the column overlapped, no save changed its status

initVars   == <<init, jobs, blame>>
statusVars == <<accountVars, initVars, calm>>

-------------------------------------------------------------------------------
Groups == {GroupOf[w] : w \in Wallets} \cup {"EVM"}

ASSUME StatusesAssumption ==
  /\ StatusColumns = {"txs", "analytics"}
  /\ Statuses = {"NOT_INITED_YET", "IS_INITING", "INITED", "ERROR"}
  /\ GroupOf \in [Wallets -> Groups]
  /\ MaxJobs \in Nat

NoInit == [column |-> "txs", stage |-> "idle", left |-> {}]
InitRequest ==
  [column : StatusColumns,
   stage : {"idle", "guard", "wallets", "next", "send", "down"},
   left : SUBSET Groups]

(* The init has a job still to hand over, or an error still to report. *)
WillSettle(i, c) ==
  /\ init[i].column = c
  /\ \/ init[i].stage \in {"send", "down"}
     \/ init[i].stage = "next" /\ "EVM" \in init[i].left

Active(i, c)   == init[i].stage # "idle" /\ init[i].column = c
Overlaps(i, c) == \E j \in Inits \ {i} : Active(j, c)

(* An init whose groups are all done has answered. *)
Continue(i, left) ==
  init' = [init EXCEPT ![i] = IF left = {} THEN NoInit
                              ELSE [@ EXCEPT !.stage = "next", !.left = left]]

-------------------------------------------------------------------------------
StatusesInit ==
  /\ AccountInit
  /\ \A c \in StatusColumns : row[c] = "NOT_INITED_YET"
  /\ init = [i \in Inits |-> NoInit]
  /\ jobs = [c \in StatusColumns |-> 0]
  /\ blame = [c \in StatusColumns |-> "none"]
  /\ calm = [c \in StatusColumns |-> TRUE]

(* Mutant: no guard. *)
BeginUnguarded(i) ==
  /\ registered
  /\ init[i].stage = "idle"
  /\ init' = [init EXCEPT ![i] = [NoInit EXCEPT !.column = "txs", !.stage = "wallets"]]
  /\ calm' = [calm EXCEPT !["txs"] = @ /\ ~Overlaps(i, "txs")]
  /\ UNCHANGED <<accountVars, jobs, blame>>

(* The guard of transactions/init. *)
BeginTxsInit(i) ==
  /\ registered
  /\ init[i].stage = "idle"
  /\ row["txs"] # "IS_INITING"
  /\ init' = [init EXCEPT ![i] = [NoInit EXCEPT !.column = "txs", !.stage = "wallets"]]
  /\ calm' = [calm EXCEPT !["txs"] = @ /\ ~Overlaps(i, "txs")]
  /\ UNCHANGED <<accountVars, jobs, blame>>

(* The first guard of analytics/init, on the transactions' status... *)
BeginAnalyticsInit(i) ==
  /\ registered
  /\ init[i].stage = "idle"
  /\ row["txs"] \notin {"NOT_INITED_YET", "IS_INITING", "ERROR"}
  /\ init' = [init EXCEPT ![i] = [NoInit EXCEPT !.column = "analytics", !.stage = "guard"]]
  /\ calm' = [calm EXCEPT !["analytics"] = @ /\ ~Overlaps(i, "analytics")]
  /\ UNCHANGED <<accountVars, jobs, blame>>

(* ...and the second, on its own. *)
SecondGuard(i) ==
  /\ init[i].stage = "guard"
  /\ init' = [init EXCEPT ![i] = IF row["analytics"] = "IS_INITING" THEN NoInit
                                 ELSE [@ EXCEPT !.stage = "wallets"]]
  /\ UNCHANGED <<accountVars, jobs, blame, calm>>

(* The wallets are read, and grouped by chain group; none is an error. *)
FindWallets(i) ==
  /\ init[i].stage = "wallets"
  /\ Continue(i, IF init[i].column = "txs" THEN {GroupOf[w] : w \in Own}
                 ELSE IF Own = {} THEN {} ELSE {"EVM"})
  /\ UNCHANGED <<accountVars, jobs, blame, calm>>

(* Mutant: the whole row is saved, the other status with it. *)
SetLoadingBoth(i, group) ==
  /\ init[i].stage = "next"
  /\ group \in init[i].left
  /\ row' = [row EXCEPT !["txs"] = "IS_INITING", !["analytics"] = "NOT_INITED_YET"]
  /\ late' = Noted(StatusColumns)
  /\ IF group = "EVM"
     THEN init' = [init EXCEPT ![i].stage = "send", ![i].left = @ \ {group}]
     ELSE Continue(i, init[i].left \ {group})
  /\ UNCHANGED <<registered, wallet, req, now, tokens, jobs, blame, calm>>

(* setLoading for the next group.  Only EVM's goes on to a microservice. *)
SetLoading(i, group) ==
  /\ init[i].stage = "next"
  /\ group \in init[i].left
  /\ ReportStatus(init[i].column, "IS_INITING")
  /\ IF group = "EVM"
     THEN init' = [init EXCEPT ![i].stage = "send", ![i].left = @ \ {group}]
     ELSE Continue(i, init[i].left \ {group})
  /\ blame' = [blame EXCEPT ![init[i].column] =
                 IF "EVM" \in init[i].left THEN "none" ELSE "group"]
  /\ UNCHANGED <<jobs, calm>>

(* initTxsStart, initBalancesStart: the microservice has the job. *)
HandOver(i) ==
  /\ init[i].stage = "send"
  /\ jobs[init[i].column] < MaxJobs
  /\ jobs' = [jobs EXCEPT ![init[i].column] = @ + 1]
  /\ Continue(i, init[i].left)
  /\ UNCHANGED <<accountVars, blame, calm>>

(* Mutant: nobody listens for it. *)
DownUnnoticed(i) ==
  /\ init[i].stage = "send"
  /\ Continue(i, init[i].left)
  /\ UNCHANGED <<accountVars, jobs, blame, calm>>

(* The microservice is down. *)
FindDown(i) ==
  /\ init[i].stage = "send"
  /\ init' = [init EXCEPT ![i].stage = "down"]
  /\ UNCHANGED <<accountVars, jobs, blame, calm>>

(* Mutant: it throws before it has set the error. *)
ThrowFirst(i) ==
  /\ init[i].stage = "down"
  /\ init' = [init EXCEPT ![i] = NoInit]
  /\ UNCHANGED <<accountVars, jobs, blame, calm>>

(* onMicroserviceDown: the error is set, the groups left are skipped. *)
SetErrorMicroserviceDown(i) ==
  /\ init[i].stage = "down"
  /\ ReportStatus(init[i].column, "ERROR")
  /\ init' = [init EXCEPT ![i] = NoInit]
  /\ blame' = [blame EXCEPT ![init[i].column] = "none"]
  /\ UNCHANGED <<jobs, calm>>

(* A query fails, or the process ends; the init is given up where it is, its *)
(* status with it.                                                           *)
InitFails(i) ==
  /\ init[i].stage # "idle"
  /\ init' = [init EXCEPT ![i] = NoInit]
  /\ blame' = [c \in StatusColumns |->
                 IF WillSettle(i, c) /\ row[c] = "IS_INITING" THEN "failure" ELSE blame[c]]
  /\ UNCHANGED <<accountVars, jobs, calm>>

(* The microservice reports the outcome of a job. *)
EndJob(c, s) ==
  /\ jobs[c] > 0
  /\ s \in {"INITED", "ERROR"}
  /\ ReportStatus(c, s)
  /\ jobs' = [jobs EXCEPT ![c] = @ - 1]
  /\ blame' = [blame EXCEPT ![c] = "none"]
  /\ UNCHANGED <<init, calm>>

(* A request of UserAccount, which may save a status back. *)
AccountStep ==
  /\ RequestNext
  /\ blame' = [c \in StatusColumns |->
                 IF row'[c] = row[c] THEN blame[c]
                 ELSE IF row'[c] = "IS_INITING" THEN "save" ELSE "none"]
  /\ calm' = [c \in StatusColumns |-> calm[c] /\ row'[c] = row[c]]
  /\ UNCHANGED <<init, jobs>>

-------------------------------------------------------------------------------
InitStep(i) ==
  \/ SecondGuard(i) \/ FindWallets(i)
  \/ \E group \in Groups : SetLoading(i, group)
  \/ HandOver(i) \/ FindDown(i) \/ SetErrorMicroserviceDown(i)

StatusesNext ==
  \/ AccountStep
  \/ \E i \in Inits : BeginTxsInit(i) \/ BeginAnalyticsInit(i) \/ InitStep(i) \/ InitFails(i)
  \/ \E c \in StatusColumns, s \in Statuses : EndJob(c, s)

StatusesSpec == StatusesInit /\ [][StatusesNext]_statusVars

(* The database and RabbitMQ answer, and the microservices end their jobs. *)
StatusesFairness ==
  /\ \A i \in Inits : WF_statusVars(InitStep(i) \/ InitFails(i))
  /\ \A c \in StatusColumns : WF_statusVars(\E s \in Statuses : EndJob(c, s))

FairStatusesSpec == StatusesSpec /\ StatusesFairness
-------------------------------------------------------------------------------
StatusesTypeOK ==
  /\ init \in [Inits -> InitRequest]
  /\ \A i \in Inits : init[i].stage = "guard" => init[i].column = "analytics"
  /\ jobs \in [StatusColumns -> 0..MaxJobs]
  /\ blame \in [StatusColumns -> {"none", "group", "save", "failure"}]
  /\ calm \in [StatusColumns -> BOOLEAN]

(* A user whose status is IS_INITING, and whom the guards therefore refuse,  *)
(* is waiting for somebody: an init that will still settle it or a job of a  *)
(* microservice.  Only three things leave a user stuck without either: a     *)
(* last group without a microservice, an init that failed after setLoading,  *)
(* and another request that saved an IS_INITING back into the row.           *)
InitingHasCause ==
  \A c \in StatusColumns :
    row[c] = "IS_INITING" =>
      \/ \E i \in Inits : WillSettle(i, c)
      \/ jobs[c] > 0
      \/ blame[c] # "none"

(* The guard is enough as long as the inits of a user do not overlap and no  *)
(* save changes the status: one job at most, and the status shows it.        *)
CalmInitsDoNotDouble ==
  \A c \in StatusColumns :
    calm[c] => jobs[c] <= 1 /\ (jobs[c] = 1 => row[c] = "IS_INITING")

-------------------------------------------------------------------------------
(* The strengthening that makes the two inductive: in a calm column an init  *)
(* that has passed the guards finds no job before it hands over its own.     *)
BeforeJob(i) ==
  \/ init[i].stage \in {"wallets", "send", "down"}
  \/ init[i].stage = "next" /\ "EVM" \in init[i].left

CalmInit(i, c) ==
  /\ ~Overlaps(i, c)
  /\ BeforeJob(i) => jobs[c] = 0
  /\ init[i].stage = "send" => row[c] = "IS_INITING" /\ "EVM" \notin init[i].left

CalmInv ==
  /\ CalmInitsDoNotDouble
  /\ \A c \in StatusColumns : calm[c] => \A i \in Inits : Active(i, c) => CalmInit(i, c)

StatusesIInv == StatusesTypeOK /\ InitingHasCause /\ CalmInv

(* IS_INITING ends, or one of the three reasons is to blame. *)
InitingEnds ==
  \A c \in StatusColumns :
    row[c] = "IS_INITING" ~> (row[c] # "IS_INITING" \/ blame[c] # "none")
===============================================================================
