--------------------------- MODULE LoadChainsProofs ---------------------------
(***************************************************************************)
(* Proofs about LoadChains, for every list of chains, any number of runs   *)
(* and any set of row ids.                                                 *)
(***************************************************************************)
EXTENDS LoadChains, FiniteSetTheorems, TLAPS

(* How the stages of a run follow each other. *)
LEMMA StageFacts ==
  ASSUME NEW r \in Runs, run[r] \in Run, Stage(r) \in Loading \cup {"list", "select"}
  PROVE  /\ NextStage(r) \in Stages \ {"idle"}
         /\ Stage(r) = "list" <=> NextStage(r) = "evm"
         /\ Stage(r) = "select" <=> NextStage(r) = "cleanup"
         /\ At(r, NextStage(r)) = At(r, Stage(r)) + 1
  BY DEF Stage, NextStage, Run, Loading, Stages, After, At, Position

(* No two stages are at one position. *)
LEMMA PositionFacts ==
  ASSUME NEW r \in Runs, run[r] \in Run, NEW s \in Loading, NEW t \in Stages \ {"idle"}
  PROVE  /\ At(r, s) \in Nat /\ At(r, t) \in Nat
         /\ At(r, s) = At(r, t) <=> s = t
         /\ t \in {"select", "cleanup"} => At(r, s) < At(r, t)
  BY DEF Run, Loading, Stages, At, Position

LEMMA StartFacts ==
  ASSUME NEW o \in {"init", "admin"}
  PROVE  /\ First[o] \in {"btc", "list"}
         /\ \A s \in Loading : Position[o][s] <= Position[o][First[o]] => s = First[o]
  BY DEF First, Position, Loading

LEMMA StageOfLoading ==
  ASSUME NEW k
  PROVE  StageOf(k) \in Loading
  BY DEF StageOf, Loading

-------------------------------------------------------------------------------
LEMMA BeginsType ==
  ASSUME ChainsTypeOK, NEW r \in Runs, NEW stage, NEW list, Begins(r, stage, list)
  PROVE  task' \in [Runs -> [Keys -> Task]]
  BY DEF ChainsTypeOK, Begins, Task

LEMMA TouchedType ==
  ASSUME ChainsTypeOK, NEW r \in Runs, NEW i \in Ids, Touched(r, i)
  PROVE  fresh' \in [Runs -> SUBSET Ids] /\ own' \in [Runs -> SUBSET Ids]
  BY DEF ChainsTypeOK, Touched

LEMMA EndsType ==
  ASSUME ChainsTypeOK, NEW r \in Runs, NEW done \in BOOLEAN, Ends(r, done)
  PROVE  /\ run' \in [Runs -> Run]
         /\ fresh' \in [Runs -> SUBSET Ids] /\ own' \in [Runs -> SUBSET Ids]
         /\ victims' \in [Runs -> SUBSET Ids] /\ current' \in [Runs -> Ids \cup {None}]
<1>1. NoRun \in Run
  BY DEF NoRun, Run, Stages
<1>2. run' \in [Runs -> Run]
  BY <1>1 DEF ChainsTypeOK, Ends, Run, Stages
<1>3. /\ fresh' \in [Runs -> SUBSET Ids] /\ own' \in [Runs -> SUBSET Ids]
      /\ victims' \in [Runs -> SUBSET Ids] /\ current' \in [Runs -> Ids \cup {None}]
  BY DEF ChainsTypeOK, Ends
<1>. QED
  BY <1>2, <1>3

LEMMA TypeInit == ChainsInit => ChainsTypeOK
<1> SUFFICES ASSUME ChainsInit
             PROVE  ChainsTypeOK
  OBVIOUS
<1>1. NoRun \in Run
  BY DEF NoRun, Run, Stages
<1>2. task \in [Runs -> [Keys -> Task]]
  BY DEF ChainsInit, Task
<1>3. alone \in [Runs -> BOOLEAN] /\ serial \in BOOLEAN
  BY Zenon DEF ChainsInit
<1>. QED
  BY <1>1, <1>2, <1>3 DEF ChainsInit, ChainsTypeOK

LEMMA TypeNext ==
  ASSUME ChainsTypeOK, [ChainsNext]_chainVars
  PROVE  ChainsTypeOK'
<1> USE DEF ChainsTypeOK, tables, cleanup, history
<1>1. ASSUME NEW r \in Runs, NEW o \in {"init", "admin"}, Start(r, o)
      PROVE  ChainsTypeOK'
  <2>1. [NoRun EXCEPT !.order = o, !.stage = First[o]] \in Run
    <3>1. NoRun \in Run
      BY DEF NoRun, Run, Stages
    <3>2. First[o] \in Stages
      BY StartFacts DEF Stages, Loading
    <3>. QED
      BY <3>1, <3>2 DEF Run
  <2>2. run' \in [Runs -> Run]
    BY <1>1, <2>1 DEF Start
  <2>3. task' \in [Runs -> [Keys -> Task]]
    BY <1>1, BeginsType DEF Start
  <2>4. alone' \in [Runs -> BOOLEAN] /\ serial' \in BOOLEAN
    BY <1>1, Zenon DEF Start
  <2>. QED
    BY <1>1, <2>2, <2>3, <2>4 DEF Start
<1>2. ASSUME NEW r \in Runs, NEW list \in SUBSET Listed, FetchList(r, list)
      PROVE  ChainsTypeOK'
  <2>0. run[r] \in Run /\ NextStage(r) \in Stages
    BY <1>2, StageFacts DEF FetchList
  <2>1. run' \in [Runs -> Run]
    BY <1>2, <2>0 DEF FetchList, Run
  <2>. QED
    BY <1>2, <2>1, BeginsType DEF FetchList
<1>3. ASSUME NEW r \in Runs, NEW k \in Keys, FindChain(r, k)
      PROVE  ChainsTypeOK'
  BY <1>3 DEF FindChain, Task, RowsOf
<1>4. ASSUME NEW r \in Runs, NEW k \in Keys, UpdateChain(r, k)
      PROVE  ChainsTypeOK'
  <2>1. task' \in [Runs -> [Keys -> Task]]
    BY <1>4 DEF UpdateChain, Task
  <2>2. fresh' \in [Runs -> SUBSET Ids] /\ own' \in [Runs -> SUBSET Ids]
    BY <1>4, TouchedType DEF UpdateChain
  <2>. QED
    BY <1>4, <2>1, <2>2 DEF UpdateChain
<1>5. ASSUME NEW r \in Runs, NEW k \in Keys, CreateChain(r, k)
      PROVE  ChainsTypeOK'
  <2>1. PICK i \in Ids : chain' = [chain EXCEPT ![i] = k] /\ Touched(r, i)
    BY <1>5 DEF CreateChain
  <2>2. task' \in [Runs -> [Keys -> Task]]
    BY <1>5 DEF CreateChain, Task
  <2>. QED
    BY <1>5, <2>1, <2>2, TouchedType DEF CreateChain
<1>6. ASSUME NEW r \in Runs, NEW k \in Keys, QueryFails(r, k)
      PROVE  ChainsTypeOK'
  <2>1. task' \in [Runs -> [Keys -> Task]]
    BY <1>6 DEF QueryFails, Task
  <2>. QED
    BY <1>6, <2>1, EndsType DEF QueryFails
<1>7. ASSUME NEW r \in Runs, RunFails(r)
      PROVE  ChainsTypeOK'
  BY <1>7, EndsType DEF RunFails
<1>8. ASSUME NEW r \in Runs, StageEnds(r)
      PROVE  ChainsTypeOK'
  <2>1. run' \in [Runs -> Run]
    BY <1>8, StageFacts DEF StageEnds, Run
  <2>. QED
    BY <1>8, <2>1, BeginsType DEF StageEnds
<1>9. ASSUME NEW r \in Runs, SelectOld(r)
      PROVE  ChainsTypeOK'
  <2>1. CASE Old(r) = {}
    BY <1>9, <2>1, EndsType DEF SelectOld
  <2>2. CASE Old(r) # {}
    <3>1. run[r] \in Run /\ NextStage(r) \in Stages
      BY <1>9, StageFacts DEF SelectOld
    <3>2. run' = [run EXCEPT ![r].stage = NextStage(r)]
      BY <1>9, <2>2 DEF SelectOld
    <3>3. run' \in [Runs -> Run]
      BY <3>1, <3>2 DEF Run
    <3>4. victims' = [victims EXCEPT ![r] = Old(r)] /\ Old(r) \subseteq Ids
      BY <1>9, <2>2 DEF SelectOld, Old
    <3>5. victims' \in [Runs -> SUBSET Ids]
      BY <3>4
    <3>. QED
      BY <1>9, <2>2, <3>3, <3>5 DEF SelectOld
  <2>. QED
    BY <2>1, <2>2
<1>10. ASSUME NEW r \in Runs, NEW i \in Ids, DeleteCoins(r, i)
       PROVE  ChainsTypeOK'
  BY <1>10 DEF DeleteCoins
<1>11. ASSUME NEW r \in Runs, DeleteChain(r)
       PROVE  ChainsTypeOK'
  <2>1. chain' \in [Ids -> Keys \cup {None}]
    BY <1>11 DEF DeleteChain
  <2>2. CASE victims[r] = {current[r]}
    BY <1>11, <2>1, <2>2, EndsType DEF DeleteChain
  <2>3. CASE victims[r] # {current[r]}
    <3>1. /\ victims' = [victims EXCEPT ![r] = @ \ {current[r]}]
          /\ current' = [current EXCEPT ![r] = None]
          /\ UNCHANGED <<coins, run, fresh, own, task, alone, serial>>
      BY <1>11, <2>3 DEF DeleteChain
    <3>2. victims' \in [Runs -> SUBSET Ids]
      BY <3>1
    <3>3. current' \in [Runs -> Ids \cup {None}]
      BY <3>1
    <3>. QED
      BY <2>1, <3>1, <3>2, <3>3
  <2>. QED
    BY <2>2, <2>3
<1>12. ASSUME NEW i \in Ids, AddCoin(i)
       PROVE  ChainsTypeOK'
  BY <1>12 DEF AddCoin
<1>13. CASE ProcessEnds
  <2>1. NoRun \in Run
    BY DEF NoRun, Run, Stages
  <2>2. task' \in [Runs -> [Keys -> Task]]
    BY <1>13 DEF ProcessEnds, Task
  <2>3. alone' \in [Runs -> BOOLEAN]
    BY <1>13, Zenon DEF ProcessEnds
  <2>. QED
    BY <1>13, <2>1, <2>2, <2>3 DEF ProcessEnds
<1>14. CASE UNCHANGED chainVars
  BY <1>14 DEF chainVars
<1>. QED
  BY <1>1, <1>2, <1>3, <1>4, <1>5, <1>6, <1>7, <1>8, <1>9, <1>10, <1>11, <1>12, <1>13, <1>14
     DEF ChainsNext, RunStep, Query

THEOREM ChainsTypeCorrect == ChainsSpec => []ChainsTypeOK
  BY TypeInit, TypeNext, PTL DEF ChainsSpec

-------------------------------------------------------------------------------
(* What a step of run r leaves of the others: their runs and queries, and   *)
(* all they know but that a row may be updated later than they began.       *)
Frame(r) ==
  \A q \in Runs \ {r} :
    /\ run'[q] = run[q] /\ task'[q] = task[q]
    /\ victims'[q] = victims[q] /\ current'[q] = current[q] /\ own'[q] = own[q]
    /\ fresh[q] \subseteq fresh'[q]
    /\ Stage(q) = "idle" => fresh'[q] = fresh[q]

LEMMA BeginsFrame ==
  ASSUME ChainsTypeOK, NEW r \in Runs, NEW stage, NEW list, Begins(r, stage, list)
  PROVE  \A q \in Runs \ {r} : task'[q] = task[q]
  BY DEF ChainsTypeOK, Begins

LEMMA EndsFrame ==
  ASSUME ChainsTypeOK, NEW r \in Runs, NEW done \in BOOLEAN, Ends(r, done),
         \A q \in Runs \ {r} : task'[q] = task[q]
  PROVE  Frame(r)
  BY DEF ChainsTypeOK, Ends, Frame

LEMMA StepFrame ==
  ASSUME ChainsTypeOK, NEW r \in Runs, RunStep(r) \/ \E k \in Keys : Query(r, k)
  PROVE  Frame(r) /\ UNCHANGED <<alone, serial>> /\ Active(r)
<1> USE DEF ChainsTypeOK, tables, cleanup, history
<1>1. ASSUME NEW list \in SUBSET Listed, FetchList(r, list)
      PROVE  Frame(r) /\ UNCHANGED <<alone, serial>> /\ Active(r)
  BY <1>1, BeginsFrame DEF FetchList, Frame, Active
<1>2. ASSUME NEW k \in Keys, FindChain(r, k)
      PROVE  Frame(r) /\ UNCHANGED <<alone, serial>> /\ Active(r)
  BY <1>2 DEF FindChain, Frame, Active, Waiting
<1>3. ASSUME NEW k \in Keys, UpdateChain(r, k)
      PROVE  Frame(r) /\ UNCHANGED <<alone, serial>> /\ Active(r)
  <2>1. task[r][k] # "none"
    BY <1>3, ChainsAssumption DEF UpdateChain
  <2>2. Frame(r)
    BY <1>3 DEF UpdateChain, Touched, Frame
  <2>. QED
    BY <1>3, <2>1, <2>2 DEF UpdateChain, Active, Waiting
<1>4. ASSUME NEW k \in Keys, CreateChain(r, k)
      PROVE  Frame(r) /\ UNCHANGED <<alone, serial>> /\ Active(r)
  <2>1. Frame(r)
    BY <1>4 DEF CreateChain, Touched, Frame
  <2>. QED
    BY <1>4, <2>1 DEF CreateChain, Active, Waiting
<1>5. ASSUME NEW k \in Keys, QueryFails(r, k)
      PROVE  Frame(r) /\ UNCHANGED <<alone, serial>> /\ Active(r)
  <2>1. \A q \in Runs \ {r} : task'[q] = task[q]
    BY <1>5 DEF QueryFails
  <2>2. Frame(r)
    BY <1>5, <2>1, EndsFrame DEF QueryFails, Frame
  <2>. QED
    BY <1>5, <2>2 DEF QueryFails, Active, Waiting
<1>6. CASE RunFails(r)
  BY <1>6, EndsFrame DEF RunFails, Active
<1>7. CASE StageEnds(r)
  BY <1>7, BeginsFrame DEF StageEnds, Frame, Active, Loading
<1>8. CASE SelectOld(r)
  <2>1. CASE Old(r) = {}
    BY <1>8, <2>1, EndsFrame DEF SelectOld, Active
  <2>2. CASE Old(r) # {}
    BY <1>8, <2>2 DEF SelectOld, Frame, Active
  <2>. QED
    BY <2>1, <2>2
<1>9. ASSUME NEW i \in Ids, DeleteCoins(r, i)
      PROVE  Frame(r) /\ UNCHANGED <<alone, serial>> /\ Active(r)
  BY <1>9 DEF DeleteCoins, Frame, Active
<1>10. CASE DeleteChain(r)
  <2>1. CASE victims[r] = {current[r]}
    BY <1>10, <2>1, EndsFrame DEF DeleteChain, Active
  <2>2. CASE victims[r] # {current[r]}
    BY <1>10, <2>2 DEF DeleteChain, Frame, Active
  <2>. QED
    BY <2>1, <2>2
<1>. QED
  BY <1>1, <1>2, <1>3, <1>4, <1>5, <1>6, <1>7, <1>8, <1>9, <1>10 DEF RunStep, Query

LEMMA RunFrame ==
  ASSUME ChainsTypeOK, NEW r \in Runs, Frame(r), NEW q \in Runs \ {r}, RunInv(q)
  PROVE  RunInv(q)'
  BY DEF Frame, RunInv, Stage, Waiting, Active, Wanted

(* A step of an active run has to be looked at for that run only. *)
LEMMA Assemble ==
  ASSUME ChainsIInv, ChainsTypeOK', NEW r \in Runs,
         Frame(r), UNCHANGED <<alone, serial>>, Active(r),
         RunInv(r)',
         alone[r] => QueriesUpToDate(r)' /\ OwnRowsMatch(r)' /\ CleanupCovers(r)',
         alone[r] /\ run'[r].done => Complete(r)',
         serial => Unique'
  PROVE  ChainsIInv'
<1>1. \A q \in Runs \ {r} : Active(q)' <=> Active(q)
  BY DEF Frame, Active, Stage, Waiting
<1>2. \A q \in Runs \ {r} : ~alone[q]
  BY DEF ChainsIInv, LoneInv, Lonely
<1>3. \A q \in Runs : RunInv(q)'
  BY RunFrame DEF ChainsIInv
<1>4. \A q \in Runs : alone'[q] => LoneInv(q)'
  BY <1>1, <1>2 DEF ChainsIInv, LoneInv, Lonely
<1>5. \A q \in Runs : alone'[q] /\ run'[q].done => Complete(q)'
  BY <1>2
<1>6. serial' => Unique' /\ \A q \in Runs : Active(q)' => alone'[q]
  BY <1>1 DEF ChainsIInv
<1>. QED
  BY <1>3, <1>4, <1>5, <1>6 DEF ChainsIInv

-------------------------------------------------------------------------------
(* What a run still knows when it has ended, or failed. *)
LEMMA EndsFacts ==
  ASSUME ChainsTypeOK, NEW r \in Runs, NEW done \in BOOLEAN, Ends(r, done),
         done => Waiting(r) = {} /\ task'[r] = task[r]
  PROVE  /\ Stage(r)' = "idle"
         /\ run'[r].done <=> done
         /\ done => run'[r].list = run[r].list
         /\ RunInv(r)' /\ OwnRowsMatch(r)' /\ CleanupCovers(r)'
<1>1. /\ Stage(r)' = "idle"
      /\ run'[r].done <=> done
      /\ done => run'[r].list = run[r].list
  <2>1. run[r] \in Run
    BY DEF ChainsTypeOK
  <2>2. run'[r] = IF done THEN [run[r] EXCEPT !.stage = "idle", !.done = TRUE] ELSE NoRun
    BY DEF ChainsTypeOK, Ends
  <2>3. CASE done
    <3>1. run'[r] = [run[r] EXCEPT !.stage = "idle", !.done = TRUE]
      BY <2>2, <2>3
    <3>. QED
      BY <2>1, <2>3, <3>1 DEF Stage, Run
  <2>4. CASE ~done
    BY <2>2, <2>4 DEF Stage, NoRun
  <2>. QED
    BY <2>3, <2>4
<1>2. fresh'[r] = {} /\ own'[r] = {} /\ victims'[r] = {} /\ current'[r] = None
  BY DEF ChainsTypeOK, Ends
<1>3. done => Waiting(r)' = {}
  BY DEF Waiting
<1>. QED
  BY <1>1, <1>2, <1>3 DEF RunInv, OwnRowsMatch, CleanupCovers, Active, Loading

(* The queries of a stage have just begun. *)
LEMMA BeginsFacts ==
  ASSUME ChainsTypeOK, NEW r \in Runs, NEW stage, NEW list, Begins(r, stage, list)
  PROVE  /\ Waiting(r)' = Wanted(stage, list) \cap Keys
         /\ \A k \in Keys : task'[r][k] \in {"find", "none"}
         /\ QueriesUpToDate(r)'
<1>1. task'[r] = [k \in Keys |-> IF k \in Wanted(stage, list) THEN "find" ELSE "none"]
  BY DEF ChainsTypeOK, Begins
<1>. QED
  BY <1>1, ChainsAssumption DEF Waiting, QueriesUpToDate

(* A stage that begins leaves the chains loaded so far what they are. *)
LEMMA AdvanceFacts ==
  ASSUME NEW r \in Runs, run[r] \in Run, run'[r] \in Run,
         Stage(r) \in Loading \cup {"list"}, Stage(r)' = NextStage(r),
         run'[r].order = run[r].order,
         run'[r].list = run[r].list \/ Stage(r) = "list",
         Waiting(r) = {}, Waiting(r)' = Wanted(Stage(r)', run'[r].list) \cap Keys
  PROVE  Loaded(r)' = Loaded(r)
<1>1. /\ Stage(r)' \in Stages \ {"idle"}
      /\ At(r, Stage(r)') = At(r, Stage(r)) + 1
  BY StageFacts
<1>2. /\ \A s \in Loading : At(r, s) \in Nat /\ (At(r, s) = At(r, Stage(r)') <=> s = Stage(r)')
      /\ At(r, Stage(r)) \in Nat
  BY <1>1, PositionFacts DEF Loading, Stages
<1>3. At(r, Stage(r))' = At(r, Stage(r)') /\ \A s : At(r, s)' = At(r, s)
  BY DEF At
<1>4. Expected(r) \subseteq Keys /\ Expected(r)' \subseteq Keys
  BY DEF Expected, Keys, Run
<1>5. \A k \in Expected(r)' : k \in Waiting(r)' <=> StageOf(k) = Stage(r)'
  BY <1>4 DEF Wanted, Expected
<1>6. \A k \in Expected(r)' :
        k \in Loaded(r)' <=> At(r, StageOf(k)) <= At(r, Stage(r))
  BY <1>1, <1>2, <1>3, <1>5, StageOfLoading DEF Loaded
<1>7. \A k \in Expected(r) :
        k \in Loaded(r) <=> At(r, StageOf(k)) <= At(r, Stage(r))
  BY DEF Loaded
<1>8. Loaded(r) \subseteq Expected(r) /\ Loaded(r)' \subseteq Expected(r)'
  BY DEF Loaded
<1>9. CASE run'[r].list = run[r].list
  BY <1>6, <1>7, <1>8, <1>9 DEF Expected
<1>10. CASE Stage(r) = "list"
  <2>1. ~(At(r, "evm") <= At(r, Stage(r)))
    BY <1>10 DEF At, Position, Run
  <2>2. \A k : StageOf(k) # "evm" => k \in {"BTC", "SOL"}
    BY DEF StageOf
  <2>3. Loaded(r) \subseteq {"BTC", "SOL"} /\ Loaded(r)' \subseteq {"BTC", "SOL"}
    BY <1>6, <1>7, <1>8, <2>1, <2>2
  <2>4. {"BTC", "SOL"} \subseteq Expected(r) /\ {"BTC", "SOL"} \subseteq Expected(r)'
    BY DEF Expected
  <2>. QED
    BY <1>6, <1>7, <2>3, <2>4
<1>. QED
  BY <1>9, <1>10

LEMMA FetchListStep ==
  ASSUME ChainsIInv, ChainsTypeOK', NEW r \in Runs, NEW list \in SUBSET Listed,
         FetchList(r, list)
  PROVE  ChainsIInv'
<1>1. Frame(r) /\ UNCHANGED <<alone, serial>> /\ Active(r)
  BY StepFrame DEF ChainsIInv, RunStep
<1>2. /\ Stage(r) = "list" /\ Stage(r)' = "evm" /\ run'[r].list = list
      /\ run'[r].order = run[r].order /\ run'[r].done = run[r].done
  BY StageFacts DEF ChainsIInv, ChainsTypeOK, FetchList, Stage, Run
<1>3. /\ UNCHANGED <<chain, coins, fresh, victims, current, own>>
  BY DEF FetchList, tables, cleanup, history
<1>4. Waiting(r)' = Wanted("evm", list) \cap Keys /\ QueriesUpToDate(r)'
  BY BeginsFacts DEF ChainsIInv, FetchList
<1>5. RunInv(r) /\ (alone[r] => LoneInv(r)) /\ (serial => Unique)
  BY DEF ChainsIInv
<1>6. ~run[r].done
  BY <1>1, <1>5 DEF RunInv
<1>7. RunInv(r)'
  BY <1>2, <1>3, <1>4, <1>5, <1>6 DEF RunInv, Loading
<1>8. Loaded(r)' = Loaded(r)
  <2>1. run[r] \in Run /\ run'[r] \in Run
    BY DEF ChainsIInv, ChainsTypeOK
  <2>2. Waiting(r) = {}
    BY <1>2, <1>5 DEF RunInv
  <2>3. Stage(r)' = NextStage(r)
    BY <1>2, <2>1, StageFacts
  <2>. QED
    BY <1>2, <1>4, <2>1, <2>2, <2>3, AdvanceFacts
<1>9. alone[r] => OwnRowsMatch(r)' /\ CleanupCovers(r)'
  BY <1>2, <1>3, <1>5, <1>8 DEF LoneInv, OwnRowsMatch, CleanupCovers
<1>10. serial => Unique'
  BY <1>3, <1>5 DEF Unique
<1>. QED
  BY <1>1, <1>2, <1>4, <1>6, <1>7, <1>9, <1>10, Assemble

LEMMA StageEndsStep ==
  ASSUME ChainsIInv, ChainsTypeOK', NEW r \in Runs, StageEnds(r)
  PROVE  ChainsIInv'
<1>1. Frame(r) /\ UNCHANGED <<alone, serial>> /\ Active(r)
  BY StepFrame DEF ChainsIInv, RunStep
<1>2. run[r] \in Run /\ run'[r] \in Run
  BY DEF ChainsIInv, ChainsTypeOK
<1>3. /\ Stage(r) \in Loading /\ Stage(r)' = NextStage(r) /\ Waiting(r) = {}
      /\ run'[r].list = run[r].list
      /\ run'[r].order = run[r].order /\ run'[r].done = run[r].done
  BY <1>2 DEF ChainsIInv, ChainsTypeOK, StageEnds, Stage, Run
<1>4. Stage(r)' \in Stages \ {"idle", "cleanup"}
  BY <1>2, <1>3, StageFacts DEF Loading
<1>5. UNCHANGED <<chain, coins, fresh, victims, current, own>>
  BY DEF StageEnds, tables, cleanup, history
<1>6. Waiting(r)' = Wanted(Stage(r)', run'[r].list) \cap Keys /\ QueriesUpToDate(r)'
  BY <1>3, BeginsFacts DEF ChainsIInv, StageEnds
<1>7. RunInv(r) /\ (alone[r] => LoneInv(r)) /\ (serial => Unique)
  BY DEF ChainsIInv
<1>8. ~run[r].done
  BY <1>1, <1>7 DEF RunInv
<1>9. Stage(r)' \in {"list", "select"} => Waiting(r)' = {}
  BY <1>6 DEF Wanted, StageOf
<1>10. RunInv(r)'
  BY <1>3, <1>4, <1>5, <1>6, <1>7, <1>8, <1>9 DEF RunInv, Loading, Stages
<1>11. Loaded(r)' = Loaded(r)
  BY <1>2, <1>3, <1>6, AdvanceFacts
<1>12. alone[r] => OwnRowsMatch(r)' /\ CleanupCovers(r)'
  BY <1>3, <1>4, <1>5, <1>7, <1>11 DEF LoneInv, OwnRowsMatch, CleanupCovers, Loading
<1>13. serial => Unique'
  BY <1>5, <1>7 DEF Unique
<1>. QED
  BY <1>1, <1>3, <1>6, <1>8, <1>10, <1>12, <1>13, Assemble

-------------------------------------------------------------------------------
(* A query of a run that is not idle belongs to its stage. *)
LEMMA QueryFacts ==
  ASSUME ChainsTypeOK, NEW r \in Runs, RunInv(r), NEW k \in Keys, task[r][k] # "none"
  PROVE  /\ ~run[r].done
         /\ k \in Waiting(r) /\ k \notin Loaded(r)
         /\ Stage(r) # "idle" =>
              Stage(r) \in Loading /\ k \in Expected(r) /\ StageOf(k) = Stage(r)
<1>1. k \in Waiting(r) /\ k \notin Loaded(r)
  BY DEF Waiting, Loaded
<1>2. run[r] \in Run
  BY DEF ChainsTypeOK
<1>. QED
  BY <1>1, <1>2 DEF RunInv, Active, Wanted, Expected, Stage, Run, Stages, Loading

LEMMA FindChainStep ==
  ASSUME ChainsIInv, ChainsTypeOK', NEW r \in Runs, NEW k \in Keys, FindChain(r, k)
  PROVE  ChainsIInv'
<1>1. Frame(r) /\ UNCHANGED <<alone, serial>> /\ Active(r)
  BY StepFrame DEF ChainsIInv, Query
<1>2. UNCHANGED <<chain, coins, run, fresh, victims, current, own>>
  BY DEF FindChain, tables, cleanup, history
<1>3. RunInv(r) /\ (alone[r] => LoneInv(r)) /\ (serial => Unique)
  BY DEF ChainsIInv
<1>4. /\ task[r][k] = "find"
      /\ \A l \in Keys \ {k} : task'[r][l] = task[r][l]
      /\ \/ task'[r][k] \in Ids /\ chain[task'[r][k]] = k
         \/ task'[r][k] = "absent" /\ RowsOf(k) = {}
  BY DEF ChainsIInv, ChainsTypeOK, FindChain, RowsOf
<1>5. Waiting(r)' = Waiting(r) /\ ~run[r].done
  BY <1>3, <1>4, QueryFacts, ChainsAssumption DEF Waiting, ChainsIInv
<1>6. RunInv(r)'
  BY <1>2, <1>3, <1>5 DEF RunInv, Stage, Wanted
<1>7. alone[r] => QueriesUpToDate(r)'
  BY <1>2, <1>3, <1>4, ChainsAssumption DEF LoneInv, QueriesUpToDate, RowsOf
<1>8. Loaded(r)' = Loaded(r)
  BY <1>2, <1>5 DEF Loaded, Expected, At, Stage
<1>9. alone[r] => OwnRowsMatch(r)' /\ CleanupCovers(r)'
  BY <1>2, <1>3, <1>8 DEF LoneInv, OwnRowsMatch, CleanupCovers, Stage
<1>10. serial => Unique'
  BY <1>2, <1>3 DEF Unique
<1>. QED
  BY <1>1, <1>2, <1>5, <1>6, <1>7, <1>9, <1>10, Assemble

(* A query of the run for k is over: k counts as loaded. *)
LEMMA LoadedGrows ==
  ASSUME ChainsTypeOK, NEW r \in Runs, NEW k \in Keys, RunInv(r),
         task[r][k] # "none", Stage(r) # "idle",
         run' = run, task' = [task EXCEPT ![r][k] = "none"]
  PROVE  /\ Waiting(r)' = Waiting(r) \ {k}
         /\ Loaded(r)' = Loaded(r) \cup {k}
<1>1. Waiting(r)' = Waiting(r) \ {k}
  BY DEF ChainsTypeOK, Waiting
<1>2. k \in Expected(r) /\ StageOf(k) = Stage(r) /\ Stage(r) \in Loading
  BY QueryFacts
<1>3. At(r, Stage(r)) \in Nat
  BY <1>2, PositionFacts DEF ChainsTypeOK, Loading, Stages
<1>. QED
  BY <1>1, <1>2, <1>3 DEF Loaded, Expected, At, Stage

LEMMA UpdateChainStep ==
  ASSUME ChainsIInv, ChainsTypeOK', NEW r \in Runs, NEW k \in Keys, UpdateChain(r, k)
  PROVE  ChainsIInv'
<1>1. Frame(r) /\ UNCHANGED <<alone, serial>> /\ Active(r)
  BY StepFrame DEF ChainsIInv, Query
<1> DEFINE i == task[r][k]
<1>2. /\ UNCHANGED <<chain, coins, run, victims, current>>
      /\ i \in Ids /\ i # "none"
      /\ task' = [task EXCEPT ![r][k] = "none"]
  BY ChainsAssumption DEF UpdateChain, tables, cleanup
<1>3. ChainsTypeOK /\ RunInv(r) /\ (alone[r] => LoneInv(r)) /\ (serial => Unique)
  BY DEF ChainsIInv
<1>6. /\ Waiting(r)' = Waiting(r) \ {k} /\ ~run[r].done
      /\ Stage(r) # "idle" => Loaded(r)' = Loaded(r) \cup {k}
  BY <1>2, <1>3, LoadedGrows, QueryFacts DEF Waiting, ChainsTypeOK
<1>7. /\ Stage(r) # "idle" /\ chain[i] # None =>
           fresh'[r] = fresh[r] \cup {i} /\ own'[r] = own[r] \cup {i}
      /\ Stage(r) = "idle" \/ chain[i] = None =>
           fresh'[r] = fresh[r] /\ own'[r] = own[r]
  BY <1>2, <1>3 DEF UpdateChain, Touched, ChainsTypeOK
<1>8. Stage(r) # "idle" => Stage(r) \in Loading /\ k \notin Loaded(r)
  BY <1>2, <1>3, QueryFacts
<1>9. RunInv(r)'
  BY <1>2, <1>3, <1>6, <1>7, <1>8 DEF RunInv, Stage, Wanted, Loading
<1>10. alone[r] => QueriesUpToDate(r)'
  BY <1>2, <1>3, ChainsAssumption DEF LoneInv, QueriesUpToDate, RowsOf, ChainsTypeOK
<1>11. alone[r] => OwnRowsMatch(r)'
  <2> SUFFICES ASSUME alone[r], Stage(r) # "idle"
               PROVE  OwnRowsMatch(r)'
    BY <1>2 DEF OwnRowsMatch, Stage
  <2>1. chain[i] = k /\ chain[i] # None
    BY <1>2, <1>3, ChainsAssumption DEF LoneInv, QueriesUpToDate
  <2>2. fresh'[r] = own[r] \cup {i} /\ own'[r] = own[r] \cup {i}
    BY <1>3, <1>7, <2>1 DEF LoneInv, OwnRowsMatch
  <2>3. \A j \in own[r] : chain[j] # k
    BY <1>3, <1>8 DEF LoneInv, OwnRowsMatch
  <2>. QED
    BY <1>2, <1>3, <1>6, <2>1, <2>2, <2>3 DEF LoneInv, OwnRowsMatch
<1>12. alone[r] => CleanupCovers(r)'
  BY <1>2, <1>8 DEF CleanupCovers, Stage, Loading
<1>13. serial => Unique'
  BY <1>2, <1>3 DEF Unique
<1>. QED
  BY <1>1, <1>2, <1>6, <1>9, <1>10, <1>11, <1>12, <1>13, Assemble

LEMMA CreateChainStep ==
  ASSUME ChainsIInv, ChainsTypeOK', NEW r \in Runs, NEW k \in Keys, CreateChain(r, k)
  PROVE  ChainsIInv'
<1>1. Frame(r) /\ UNCHANGED <<alone, serial>> /\ Active(r)
  BY StepFrame DEF ChainsIInv, Query
<1>2. PICK i \in Ids : Unused(i) /\ chain' = [chain EXCEPT ![i] = k] /\ Touched(r, i)
  BY DEF CreateChain
<1>3. /\ UNCHANGED <<coins, run, victims, current>>
      /\ task[r][k] = "absent"
      /\ task' = [task EXCEPT ![r][k] = "none"]
  BY DEF CreateChain, cleanup
<1>4. ChainsTypeOK /\ RunInv(r) /\ (alone[r] => LoneInv(r)) /\ (serial => Unique)
  BY DEF ChainsIInv
<1>5. /\ Waiting(r)' = Waiting(r) \ {k} /\ ~run[r].done
      /\ Stage(r) # "idle" => Loaded(r)' = Loaded(r) \cup {k}
  BY <1>3, <1>4, LoadedGrows, QueryFacts DEF Waiting, ChainsTypeOK
<1>6. /\ Stage(r) # "idle" =>
           fresh'[r] = fresh[r] \cup {i} /\ own'[r] = own[r] \cup {i}
      /\ Stage(r) = "idle" => fresh'[r] = fresh[r] /\ own'[r] = own[r]
  BY <1>2, <1>4 DEF Touched, ChainsTypeOK
<1>7. Stage(r) # "idle" => Stage(r) \in Loading /\ k \notin Loaded(r)
  BY <1>3, <1>4, QueryFacts
<1>8. /\ chain[i] = None /\ i \notin victims[r] \cup own[r]
      /\ \A l \in Keys : task[r][l] # i
  BY <1>2 DEF Unused
<1>9. RunInv(r)'
  BY <1>3, <1>4, <1>5, <1>6, <1>7, <1>8 DEF RunInv, Stage, Wanted, Loading
<1>10. chain'[i] = k /\ \A j \in Ids \ {i} : chain'[j] = chain[j]
  BY <1>2, <1>4 DEF ChainsTypeOK
<1>11. alone[r] => QueriesUpToDate(r)'
  <2> SUFFICES ASSUME alone[r], NEW l \in Keys
               PROVE  /\ task'[r][l] \in Ids => chain'[task'[r][l]] = l
                      /\ task'[r][l] = "absent" => RowsOf(l)' = {}
    BY DEF QueriesUpToDate
  <2>1. CASE l = k
    BY <1>3, <1>4, <2>1, ChainsAssumption DEF ChainsTypeOK
  <2>2. CASE l # k
    BY <1>3, <1>4, <1>8, <1>10, <2>2 DEF ChainsTypeOK, LoneInv, QueriesUpToDate, RowsOf
  <2>. QED
    BY <2>1, <2>2
<1>12. alone[r] => OwnRowsMatch(r)'
  <2> SUFFICES ASSUME alone[r], Stage(r) # "idle"
               PROVE  OwnRowsMatch(r)'
    BY <1>3 DEF OwnRowsMatch, Stage
  <2>1. fresh'[r] = own[r] \cup {i} /\ own'[r] = own[r] \cup {i} /\ own[r] \subseteq Ids \ {i}
    BY <1>4, <1>6, <1>8 DEF LoneInv, OwnRowsMatch, ChainsTypeOK
  <2>2. \A j \in own[r] : chain[j] # k
    BY <1>4, <1>7 DEF LoneInv, OwnRowsMatch
  <2>. QED
    BY <1>3, <1>4, <1>5, <1>10, <2>1, <2>2 DEF LoneInv, OwnRowsMatch
<1>13. alone[r] => CleanupCovers(r)'
  BY <1>3, <1>7 DEF CleanupCovers, Stage, Loading
<1>14. serial => Unique'
  <2> SUFFICES ASSUME serial
               PROVE  Unique'
    OBVIOUS
  <2>1. \A j \in Ids : chain[j] # k
    BY <1>1, <1>3 DEF ChainsIInv, LoneInv, QueriesUpToDate, RowsOf
  <2>. QED
    BY <1>4, <1>10, <2>1 DEF Unique
<1>. QED
  BY <1>1, <1>3, <1>5, <1>9, <1>11, <1>12, <1>13, <1>14, Assemble

-------------------------------------------------------------------------------
LEMMA QueryFailsStep ==
  ASSUME ChainsIInv, ChainsTypeOK', NEW r \in Runs, NEW k \in Keys, QueryFails(r, k)
  PROVE  ChainsIInv'
<1>1. Frame(r) /\ UNCHANGED <<alone, serial>> /\ Active(r)
  BY StepFrame DEF ChainsIInv, Query
<1>2. UNCHANGED <<chain, coins>> /\ task' = [task EXCEPT ![r][k] = "none"]
  BY DEF QueryFails, tables
<1>3. ChainsTypeOK /\ RunInv(r) /\ (alone[r] => LoneInv(r)) /\ (serial => Unique)
  BY DEF ChainsIInv
<1>4. /\ Stage(r)' = "idle" /\ ~run'[r].done
      /\ RunInv(r)' /\ OwnRowsMatch(r)' /\ CleanupCovers(r)'
  <2>1. CASE Stage(r) # "idle"
    BY <1>3, <2>1, EndsFacts DEF QueryFails
  <2>2. CASE Stage(r) = "idle"
    <3>1. ~run[r].done
      BY <1>3, QueryFacts DEF QueryFails
    <3>2. UNCHANGED <<run, fresh, victims, current, own>>
      BY <2>2 DEF QueryFails, cleanup
    <3>. QED
      BY <1>3, <2>2, <3>1, <3>2 DEF RunInv, OwnRowsMatch, CleanupCovers, Stage, Loading
  <2>. QED
    BY <2>1, <2>2
<1>5. alone[r] => QueriesUpToDate(r)'
  BY <1>2, <1>3, ChainsAssumption DEF LoneInv, QueriesUpToDate, RowsOf, ChainsTypeOK
<1>6. serial => Unique'
  BY <1>2, <1>3 DEF Unique
<1>. QED
  BY <1>1, <1>4, <1>5, <1>6, Assemble

LEMMA RunFailsStep ==
  ASSUME ChainsIInv, ChainsTypeOK', NEW r \in Runs, RunFails(r)
  PROVE  ChainsIInv'
<1>1. Frame(r) /\ UNCHANGED <<alone, serial>> /\ Active(r)
  BY StepFrame DEF ChainsIInv, RunStep
<1>2. UNCHANGED <<chain, coins, task>>
  BY DEF RunFails, tables
<1>3. ChainsTypeOK /\ RunInv(r) /\ (alone[r] => LoneInv(r)) /\ (serial => Unique)
  BY DEF ChainsIInv
<1>4. ~run'[r].done /\ RunInv(r)' /\ OwnRowsMatch(r)' /\ CleanupCovers(r)'
  BY <1>3, EndsFacts DEF RunFails
<1>5. alone[r] => QueriesUpToDate(r)'
  BY <1>2, <1>3 DEF LoneInv, QueriesUpToDate, RowsOf
<1>6. serial => Unique'
  BY <1>2, <1>3 DEF Unique
<1>. QED
  BY <1>1, <1>4, <1>5, <1>6, Assemble

-------------------------------------------------------------------------------
(* After the last stage of a lone run its own rows are one for each chain   *)
(* it expects.                                                              *)
LEMMA AllLoaded ==
  ASSUME ChainsTypeOK, NEW r \in Runs, Stage(r) \in {"select", "cleanup"}, RunInv(r)
  PROVE  Loaded(r) = Expected(r)
<1>1. Waiting(r) = {}
  BY DEF RunInv
<1>2. \A s \in Loading : At(r, s) <= At(r, Stage(r))
  <2>1. run[r] \in Run /\ Stage(r) \in Stages \ {"idle"}
    BY DEF ChainsTypeOK, Stages
  <2>2. ASSUME NEW s \in Loading
        PROVE  At(r, s) <= At(r, Stage(r))
    <3>1. At(r, s) \in Nat /\ At(r, Stage(r)) \in Nat /\ At(r, s) < At(r, Stage(r))
      BY <2>1, PositionFacts
    <3>. QED
      BY <3>1
  <2>. QED
    BY <2>2
<1>. QED
  BY <1>1, <1>2, StageOfLoading DEF Loaded

(* A run that ends with no rows but its own leaves what it expects. *)
LEMMA CompleteFacts ==
  ASSUME ChainsTypeOK, NEW r \in Runs, RunInv(r), LoneInv(r),
         Stage(r) \in {"select", "cleanup"}, ChainsTypeOK',
         run'[r].list = run[r].list,
         \A i \in own[r] : chain'[i] = chain[i],
         \A i \in Ids \ own[r] : chain'[i] = None
  PROVE  Complete(r)'
<1>1. Loaded(r) = Expected(r) /\ Expected(r)' = Expected(r)
  BY AllLoaded DEF Expected
<1>2. own[r] \subseteq Ids
  BY DEF ChainsTypeOK
<1>3. /\ \A i \in own[r] : chain[i] \in Expected(r)
      /\ \A i, j \in own[r] : chain[i] = chain[j] => i = j
      /\ \A k \in Expected(r) : \E i \in own[r] : chain[i] = k
  BY <1>1 DEF LoneInv, OwnRowsMatch
<1>4. Unique'
  BY <1>2, <1>3 DEF Unique
<1>5. \A i \in Ids : chain'[i] # None => chain'[i] \in Expected(r)
  BY <1>3
<1>6. \A k \in Expected(r) : \E i \in Ids : chain'[i] = k
  BY <1>2, <1>3
<1>. QED
  BY <1>1, <1>4, <1>5, <1>6 DEF Complete

LEMMA SelectOldStep ==
  ASSUME ChainsIInv, ChainsTypeOK', NEW r \in Runs, SelectOld(r)
  PROVE  ChainsIInv'
<1>1. Frame(r) /\ UNCHANGED <<alone, serial>> /\ Active(r)
  BY StepFrame DEF ChainsIInv, RunStep
<1>2. UNCHANGED <<chain, coins, task>> /\ Stage(r) = "select"
  BY DEF SelectOld, tables
<1>3. ChainsTypeOK /\ RunInv(r) /\ (alone[r] => LoneInv(r)) /\ (serial => Unique)
  BY DEF ChainsIInv
<1>4. Waiting(r) = {}
  BY <1>2, <1>3 DEF RunInv
<1>5. alone[r] => QueriesUpToDate(r)'
  BY <1>2, <1>3 DEF LoneInv, QueriesUpToDate, RowsOf
<1>6. serial => Unique'
  BY <1>2, <1>3 DEF Unique
<1>7. CASE Old(r) = {}
  <2>1. Ends(r, TRUE)
    BY <1>7 DEF SelectOld
  <2>2. /\ run'[r].list = run[r].list
        /\ RunInv(r)' /\ OwnRowsMatch(r)' /\ CleanupCovers(r)'
    BY <1>2, <1>3, <1>4, <2>1, EndsFacts
  <2>3. ASSUME alone[r]
        PROVE  Complete(r)'
    <3>1. \A i \in Ids \ own[r] : chain'[i] = None
      BY <1>2, <1>3, <1>7, <2>3 DEF LoneInv, OwnRowsMatch, Old
    <3>. QED
      BY <1>2, <1>3, <2>2, <2>3, <3>1, CompleteFacts
  <2>. QED
    BY <1>1, <1>5, <1>6, <2>2, <2>3, Assemble
<1>8. CASE Old(r) # {}
  <2>1. run[r] \in Run /\ NextStage(r) = "cleanup"
    BY <1>2, <1>3, StageFacts DEF ChainsTypeOK
  <2>2. /\ victims' = [victims EXCEPT ![r] = Old(r)]
        /\ run' = [run EXCEPT ![r].stage = NextStage(r)]
        /\ UNCHANGED <<fresh, current, own>>
    BY <1>8 DEF SelectOld
  <2>3. /\ victims'[r] = Old(r)
        /\ Stage(r)' = "cleanup" /\ run'[r].list = run[r].list
        /\ run'[r].order = run[r].order /\ run'[r].done = run[r].done
    BY <1>3, <2>1, <2>2 DEF Stage, Run, ChainsTypeOK
  <2>4. ~run[r].done /\ Waiting(r)' = {}
    BY <1>1, <1>2, <1>3, <1>4 DEF RunInv, Waiting
  <2>5. RunInv(r)'
    BY <1>2, <1>3, <2>2, <2>3, <2>4 DEF RunInv, Old, Loading
  <2>6. Loaded(r)' = Loaded(r)
    <3>1. Loaded(r) = Expected(r) /\ Expected(r)' = Expected(r)
      BY <1>2, <1>3, <2>3, AllLoaded DEF Expected
    <3>2. ASSUME NEW k
          PROVE  At(r, StageOf(k))' <= At(r, Stage(r))'
      <4>1. At(r, StageOf(k)) \in Nat /\ At(r, "cleanup") \in Nat
            /\ At(r, StageOf(k)) < At(r, "cleanup")
        BY <2>1, StageOfLoading, PositionFacts DEF Stages
      <4>2. At(r, StageOf(k))' = At(r, StageOf(k)) /\ At(r, Stage(r))' = At(r, "cleanup")
        BY <2>3 DEF At, StageOf
      <4>. QED
        BY <4>1, <4>2
    <3>. QED
      BY <2>4, <3>1, <3>2 DEF Loaded
  <2>7. alone[r] => OwnRowsMatch(r)'
    BY <1>2, <1>3, <2>2, <2>6 DEF LoneInv, OwnRowsMatch
  <2>8. alone[r] => CleanupCovers(r)'
    BY <1>2, <1>3, <2>2, <2>3 DEF LoneInv, OwnRowsMatch, CleanupCovers, Old
  <2>. QED
    BY <1>1, <1>5, <1>6, <2>3, <2>4, <2>5, <2>7, <2>8, Assemble
<1>. QED
  BY <1>7, <1>8

LEMMA DeleteCoinsStep ==
  ASSUME ChainsIInv, ChainsTypeOK', NEW r \in Runs, NEW i \in Ids, DeleteCoins(r, i)
  PROVE  ChainsIInv'
<1>1. Frame(r) /\ UNCHANGED <<alone, serial>> /\ Active(r)
  BY StepFrame DEF ChainsIInv, RunStep
<1>2. /\ UNCHANGED <<chain, run, task, fresh, victims, own>>
      /\ Stage(r) = "cleanup" /\ i \in victims[r] /\ current'[r] = i
  BY DEF DeleteCoins, history, ChainsIInv, ChainsTypeOK
<1>3. RunInv(r) /\ (alone[r] => LoneInv(r)) /\ (serial => Unique)
  BY DEF ChainsIInv
<1>4. ~run[r].done /\ Waiting(r)' = Waiting(r)
  BY <1>1, <1>2, <1>3 DEF RunInv, Waiting
<1>5. RunInv(r)'
  BY <1>2, <1>3, <1>4 DEF RunInv, Stage, Loading
<1>6. Loaded(r)' = Loaded(r)
  BY <1>2, <1>4 DEF Loaded, Expected, At, Stage
<1>7. alone[r] => QueriesUpToDate(r)' /\ OwnRowsMatch(r)' /\ CleanupCovers(r)'
  BY <1>2, <1>3, <1>6 DEF LoneInv, QueriesUpToDate, RowsOf, OwnRowsMatch, CleanupCovers, Stage
<1>8. serial => Unique'
  BY <1>2, <1>3 DEF Unique
<1>. QED
  BY <1>1, <1>2, <1>4, <1>5, <1>7, <1>8, Assemble

LEMMA DeleteChainStep ==
  ASSUME ChainsIInv, ChainsTypeOK', NEW r \in Runs, DeleteChain(r)
  PROVE  ChainsIInv'
<1>1. Frame(r) /\ UNCHANGED <<alone, serial>> /\ Active(r)
  BY StepFrame DEF ChainsIInv, RunStep
<1> DEFINE c == current[r]
<1>2. ChainsTypeOK /\ RunInv(r) /\ (alone[r] => LoneInv(r)) /\ (serial => Unique)
  BY DEF ChainsIInv
<1>3. /\ UNCHANGED <<coins, task>> /\ Stage(r) = "cleanup" /\ c # None
      /\ chain' = [chain EXCEPT ![c] = None]
  BY DEF DeleteChain
<1>4. c \in Ids /\ c \in victims[r] /\ c \notin own[r] /\ Waiting(r) = {}
  BY <1>2, <1>3 DEF RunInv, ChainsTypeOK
<1>5. chain'[c] = None /\ \A i \in Ids \ {c} : chain'[i] = chain[i]
  BY <1>2, <1>3, <1>4 DEF ChainsTypeOK
<1>6. ~run[r].done /\ Waiting(r)' = {}
  BY <1>1, <1>2, <1>3, <1>4 DEF RunInv, Waiting
<1>7. alone[r] => QueriesUpToDate(r)'
  <2>1. \A k \in Keys : task'[r][k] = "none"
    BY <1>3, <1>4 DEF Waiting
  <2>. QED
    BY <2>1, ChainsAssumption DEF QueriesUpToDate
<1>8. serial => Unique'
  BY <1>2, <1>4, <1>5 DEF Unique
<1>9. own[r] \subseteq Ids \ {c}
  BY <1>2, <1>4 DEF ChainsTypeOK
<1>10. CASE victims[r] = {c}
  <2>1. Ends(r, TRUE)
    BY <1>10 DEF DeleteChain
  <2>2. /\ run'[r].list = run[r].list
        /\ RunInv(r)' /\ OwnRowsMatch(r)' /\ CleanupCovers(r)'
    BY <1>2, <1>3, <1>4, <2>1, EndsFacts
  <2>3. ASSUME alone[r]
        PROVE  Complete(r)'
    <3>1. \A i \in Ids \ own[r] : chain'[i] = None
      BY <1>2, <1>3, <1>5, <1>10, <2>3 DEF LoneInv, CleanupCovers
    <3>. QED
      BY <1>2, <1>3, <1>5, <1>9, <2>2, <2>3, <3>1, CompleteFacts
  <2>. QED
    BY <1>1, <1>7, <1>8, <2>2, <2>3, Assemble
<1>11. CASE victims[r] # {c}
  <2>1. /\ victims'[r] = victims[r] \ {c} /\ current'[r] = None
        /\ UNCHANGED <<run, fresh, own>>
    BY <1>2, <1>11 DEF DeleteChain, ChainsTypeOK
  <2>2. RunInv(r)'
    BY <1>2, <1>3, <1>6, <2>1 DEF RunInv, Stage, Loading
  <2>3. Loaded(r)' = Loaded(r)
    BY <1>4, <1>6, <2>1 DEF Loaded, Expected, At, Stage
  <2>4. alone[r] => OwnRowsMatch(r)'
    BY <1>2, <1>5, <1>9, <2>1, <2>3 DEF LoneInv, OwnRowsMatch, Stage
  <2>5. alone[r] => CleanupCovers(r)'
    BY <1>2, <1>3, <1>5, <2>1 DEF LoneInv, CleanupCovers, Stage
  <2>. QED
    BY <1>1, <1>6, <1>7, <1>8, <2>1, <2>2, <2>4, <2>5, Assemble
<1>. QED
  BY <1>10, <1>11

-------------------------------------------------------------------------------
LEMMA StartStep ==
  ASSUME ChainsIInv, ChainsTypeOK', NEW r \in Runs, NEW o \in {"init", "admin"}, Start(r, o)
  PROVE  ChainsIInv'
<1>1. /\ ~Active(r) /\ Begins(r, First[o], {})
      /\ run' = [run EXCEPT ![r] = [NoRun EXCEPT !.order = o, !.stage = First[o]]]
      /\ UNCHANGED <<chain, fresh, victims, current, own>>
  BY DEF Start, tables, cleanup
<1>2. ChainsTypeOK /\ RunInv(r) /\ (serial => Unique)
  BY DEF ChainsIInv
<1>3. /\ \A q \in Runs : alone'[q] <=> q = r /\ \A p \in Runs : ~Active(p)
      /\ serial' <=> serial /\ \A p \in Runs : ~Active(p)
  BY DEF Start
<1>4. /\ Stage(r)' = First[o] /\ run'[r].order = o /\ run'[r].list = {} /\ ~run'[r].done
      /\ \A q \in Runs \ {r} : run'[q] = run[q]
  BY <1>1, <1>2 DEF ChainsTypeOK, Stage, NoRun
<1>5. /\ Waiting(r)' = Wanted(First[o], {}) \cap Keys
      /\ QueriesUpToDate(r)'
      /\ \A q \in Runs \ {r} : task'[q] = task[q]
  BY <1>1, <1>2, BeginsFacts, BeginsFrame
<1>6. fresh[r] = {} /\ own[r] = {} /\ victims[r] = {} /\ current[r] = None
  BY <1>1, <1>2 DEF Active, RunInv
<1>7. First[o] \in {"btc", "list"}
  BY StartFacts
<1>8. Waiting(r)' \subseteq Wanted(First[o], {}) /\ (First[o] = "list" => Waiting(r)' = {})
  BY <1>5 DEF Wanted, StageOf
<1>9. RunInv(r)'
  BY <1>1, <1>4, <1>6, <1>7, <1>8 DEF RunInv, Loading
<1>10. \A q \in Runs \ {r} : RunInv(q)' /\ (Active(q)' <=> Active(q))
  <2> SUFFICES ASSUME NEW q \in Runs \ {r}
               PROVE  RunInv(q)' /\ (Active(q)' <=> Active(q))
    OBVIOUS
  <2>1. RunInv(q)
    BY DEF ChainsIInv
  <2>. QED
    BY <1>1, <1>4, <1>5, <2>1 DEF RunInv, Stage, Waiting, Wanted, Active
<1>11. Loaded(r)' = {}
  <2> SUFFICES ASSUME NEW k \in Expected(r)', At(r, StageOf(k))' <= At(r, Stage(r))'
               PROVE  k \in Waiting(r)'
    BY DEF Loaded
  <2>1. Position[o][StageOf(k)] <= Position[o][First[o]]
    BY <1>4 DEF At, StageOf
  <2>2. StageOf(k) = First[o]
    BY <2>1, StartFacts, StageOfLoading
  <2>3. k \in {"BTC", "SOL"}
    BY <1>4 DEF Expected
  <2>. QED
    BY <1>5, <2>2, <2>3 DEF Wanted, Keys
<1>12. OwnRowsMatch(r)' /\ CleanupCovers(r)'
  BY <1>1, <1>4, <1>6, <1>7, <1>11 DEF OwnRowsMatch, CleanupCovers
<1>13. \A q \in Runs : alone'[q] => LoneInv(q)'
  BY <1>3, <1>5, <1>10, <1>12 DEF LoneInv, Lonely
<1>14. \A q \in Runs : ~(alone'[q] /\ run'[q].done)
  BY <1>3, <1>4
<1>15. serial' => Unique' /\ \A q \in Runs : Active(q)' => alone'[q]
  BY <1>1, <1>2, <1>3, <1>10 DEF Unique
<1>. QED
  BY <1>9, <1>10, <1>13, <1>14, <1>15 DEF ChainsIInv

LEMMA ProcessEndsStep ==
  ASSUME ChainsIInv, ChainsTypeOK', ProcessEnds
  PROVE  ChainsIInv'
<1>1. /\ \A r \in Runs : /\ run'[r] = NoRun /\ fresh'[r] = {} /\ victims'[r] = {}
                        /\ current'[r] = None /\ own'[r] = {} /\ ~alone'[r]
                        /\ \A k \in Keys : task'[r][k] = "none"
      /\ UNCHANGED <<chain, serial>>
  BY DEF ProcessEnds, tables
<1>2. \A r \in Runs : Stage(r)' = "idle" /\ Waiting(r)' = {} /\ ~run'[r].done
  BY <1>1 DEF Stage, Waiting, NoRun
<1>3. \A r \in Runs : RunInv(r)' /\ ~Active(r)'
  BY <1>1, <1>2 DEF RunInv, Active, Loading
<1>4. serial => Unique'
  BY <1>1 DEF ChainsIInv, Unique
<1>. QED
  BY <1>1, <1>2, <1>3, <1>4 DEF ChainsIInv

(* Steps that leave all but the coins as they are. *)
LEMMA CoinsStep ==
  ASSUME ChainsIInv, ChainsTypeOK', UNCHANGED <<chain, run, task, fresh, cleanup, history>>
  PROVE  ChainsIInv'
<1> USE DEF cleanup, history
<1>1. \A r \in Runs : (RunInv(r)' <=> RunInv(r)) /\ (Active(r)' <=> Active(r))
  BY DEF RunInv, Stage, Waiting, Wanted, Active
<1>2. \A r \in Runs : Loaded(r)' = Loaded(r) /\ Expected(r)' = Expected(r)
  BY DEF Loaded, Expected, Waiting, At, Stage
<1>3. \A r \in Runs : LoneInv(r)' <=> LoneInv(r)
  BY <1>1, <1>2 DEF LoneInv, Lonely, QueriesUpToDate, OwnRowsMatch, CleanupCovers, RowsOf, Stage
<1>4. Unique' <=> Unique
  BY DEF Unique
<1>5. \A r \in Runs : Complete(r)' <=> Complete(r)
  BY <1>2, <1>4 DEF Complete
<1>. QED
  BY <1>1, <1>3, <1>4, <1>5 DEF ChainsIInv

LEMMA ChainsInductive ==
  ASSUME ChainsIInv, [ChainsNext]_chainVars
  PROVE  ChainsIInv'
<1>1. ChainsTypeOK'
  BY TypeNext DEF ChainsIInv
<1>2. ASSUME NEW r \in Runs, NEW o \in {"init", "admin"}, Start(r, o)
      PROVE  ChainsIInv'
  BY <1>1, <1>2, StartStep
<1>3. ASSUME NEW r \in Runs, RunStep(r)
      PROVE  ChainsIInv'
  BY <1>1, <1>3, FetchListStep, RunFailsStep, StageEndsStep, SelectOldStep, DeleteCoinsStep,
     DeleteChainStep DEF RunStep
<1>4. ASSUME NEW r \in Runs, NEW k \in Keys, Query(r, k)
      PROVE  ChainsIInv'
  BY <1>1, <1>4, FindChainStep, UpdateChainStep, CreateChainStep, QueryFailsStep DEF Query
<1>5. ASSUME NEW i \in Ids, AddCoin(i)
      PROVE  ChainsIInv'
  BY <1>1, <1>5, CoinsStep DEF AddCoin
<1>6. CASE ProcessEnds
  BY <1>1, <1>6, ProcessEndsStep
<1>7. CASE UNCHANGED chainVars
  BY <1>1, <1>7, CoinsStep DEF chainVars, tables
<1>. QED
  BY <1>2, <1>3, <1>4, <1>5, <1>6, <1>7 DEF ChainsNext

LEMMA ChainsInitially == ChainsInit => ChainsIInv
<1> SUFFICES ASSUME ChainsInit
             PROVE  ChainsIInv
  OBVIOUS
<1>1. /\ \A r \in Runs : /\ run[r] = NoRun /\ fresh[r] = {} /\ victims[r] = {}
                        /\ current[r] = None /\ own[r] = {} /\ ~alone[r]
                        /\ \A k \in Keys : task[r][k] = "none"
      /\ \A i \in Ids : chain[i] = None
  BY DEF ChainsInit
<1>2. \A r \in Runs : Stage(r) = "idle" /\ Waiting(r) = {} /\ ~run[r].done
  BY <1>1 DEF Stage, Waiting, NoRun
<1>3. \A r \in Runs : RunInv(r) /\ ~Active(r)
  BY <1>1, <1>2 DEF RunInv, Active, Loading
<1>4. Unique
  BY <1>1 DEF Unique
<1>. QED
  BY <1>1, <1>2, <1>3, <1>4, TypeInit DEF ChainsIInv

(* The strengthening is inductive: what a run knows of itself, and, as long *)
(* as it is alone, of the table (LoadChainService.loadChains and its steps).*)
THEOREM ChainsStrengthening == ChainsSpec => []ChainsIInv
  BY ChainsInitially, ChainsInductive, PTL DEF ChainsSpec

-------------------------------------------------------------------------------
(* The cleanup of a run never deletes a row that the run has updated or     *)
(* created, whatever other runs, failures and restarts do.                  *)
THEOREM CleanupCorrect == ChainsSpec => []CleanupSparesOwnRows
<1>1. ChainsIInv => CleanupSparesOwnRows
  BY DEF ChainsIInv, RunInv, CleanupSparesOwnRows
<1>. QED
  BY <1>1, ChainsStrengthening, PTL

(* As long as no two runs meet, no chain has two rows. *)
THEOREM KeysUnique == ChainsSpec => []SerialRunsKeepKeysUnique
<1>1. ChainsIInv => SerialRunsKeepKeysUnique
  BY DEF ChainsIInv, Unique, SerialRunsKeepKeysUnique
<1>. QED
  BY <1>1, ChainsStrengthening, PTL

(* When a run that no other run met is done, the table holds each chain of  *)
(* its list, Bitcoin and Solana exactly once and nothing else.              *)
THEOREM LoneRunCorrect == ChainsSpec => []LoneRunLeavesList
<1>1. ASSUME ChainsTypeOK, NEW r \in Runs, Complete(r), NEW k \in Keys
      PROVE  Cardinality(RowsOf(k)) = IF k \in Expected(r) THEN 1 ELSE 0
  <2>1. CASE k \in Expected(r)
    <3>1. PICK i \in Ids : chain[i] = k
      BY <1>1, <2>1 DEF Complete
    <3>2. RowsOf(k) = {i}
      BY <1>1, <3>1, ChainsAssumption DEF Complete, Unique, RowsOf
    <3>. QED
      BY <2>1, <3>2, FS_Singleton
  <2>2. CASE k \notin Expected(r)
    <3>1. RowsOf(k) = {}
      BY <1>1, <2>2, ChainsAssumption DEF Complete, RowsOf
    <3>. QED
      BY <2>2, <3>1, FS_EmptySet
  <2>. QED
    BY <2>1, <2>2
<1>2. ChainsIInv => LoneRunLeavesList
  BY <1>1 DEF ChainsIInv, LoneRunLeavesList
<1>. QED
  BY <1>2, ChainsStrengthening, PTL

-------------------------------------------------------------------------------
(* Only the cleanup removes a row or its coins, and only one it selected. *)
LEMMA OnlyCleanupRemoves ==
  ASSUME ChainsTypeOK, ChainsTypeOK', [ChainsNext]_chainVars,
         NEW i \in Ids,
         (chain[i] # None /\ chain'[i] # chain[i]) \/ (i \in coins /\ i \notin coins')
  PROVE  \E r \in Runs : (DeleteChain(r) /\ i = current[r]) \/ DeleteCoins(r, i)
<1> USE DEF ChainsTypeOK, tables
<1>1. ASSUME NEW r \in Runs, NEW o \in {"init", "admin"}, Start(r, o)
      PROVE  FALSE
  BY <1>1 DEF Start
<1>2. ASSUME NEW r \in Runs, RunStep(r)
      PROVE  (DeleteChain(r) /\ i = current[r]) \/ DeleteCoins(r, i)
  BY <1>2 DEF RunStep, FetchList, RunFails, StageEnds, SelectOld, DeleteCoins, DeleteChain
<1>3. ASSUME NEW r \in Runs, NEW k \in Keys, Query(r, k)
      PROVE  FALSE
  BY <1>3 DEF Query, FindChain, UpdateChain, CreateChain, QueryFails, Unused
<1>4. ASSUME NEW j \in Ids, AddCoin(j)
      PROVE  FALSE
  BY <1>4 DEF AddCoin
<1>5. ~ProcessEnds /\ ~UNCHANGED chainVars
  BY DEF ProcessEnds, chainVars
<1>. QED
  BY <1>1, <1>2, <1>3, <1>4, <1>5 DEF ChainsNext, DeleteChain, DeleteCoins

(* Such a row stands for a chain that its run does not expect, when no two  *)
(* runs meet; the row of a chain it does expect stays.                      *)
LEMMA RemovedNotExpected ==
  ASSUME ChainsIInv, serial, NEW r \in Runs, Stage(r) = "cleanup", NEW i \in victims[r],
         NEW k \in Expected(r)
  PROVE  chain[i] # k
<1>1. ChainsTypeOK /\ RunInv(r) /\ LoneInv(r) /\ Unique
  BY DEF ChainsIInv, Active
<1>2. Loaded(r) = Expected(r)
  BY <1>1, AllLoaded
<1>3. PICK j \in own[r] : chain[j] = k
  BY <1>1, <1>2 DEF LoneInv, OwnRowsMatch
<1>4. i \in Ids /\ j \in Ids /\ i # j
  BY <1>1, <1>3 DEF RunInv, ChainsTypeOK
<1>5. k # None
  BY <1>1, <1>3, ChainsAssumption DEF Expected, Keys, ChainsTypeOK, Run
<1>. QED
  BY <1>1, <1>3, <1>4, <1>5 DEF Unique

LEMMA StepSparesListed ==
  ASSUME ChainsIInv, ChainsTypeOK', [ChainsNext]_chainVars, serial
  PROVE  /\ \A k \in Keys :
              RowsOf(k) # {} /\ RowsOf(k)' = {}
              => \E r \in Runs : Stage(r) = "cleanup" /\ k \notin Expected(r)
         /\ \A i \in coins \ coins' :
              \E r \in Runs : Stage(r) = "cleanup" /\ chain[i] \notin Expected(r)
<1>1. ASSUME NEW i \in Ids,
             (chain[i] # None /\ chain'[i] # chain[i]) \/ (i \in coins /\ i \notin coins')
      PROVE  \E r \in Runs : Stage(r) = "cleanup" /\ chain[i] \notin Expected(r)
  <2>1. PICK r \in Runs : (DeleteChain(r) /\ i = current[r]) \/ DeleteCoins(r, i)
    BY <1>1, OnlyCleanupRemoves DEF ChainsIInv
  <2>2. Stage(r) = "cleanup" /\ i \in victims[r]
    BY <2>1 DEF DeleteChain, DeleteCoins, ChainsIInv, RunInv
  <2>. QED
    BY <2>2, RemovedNotExpected
<1>2. ASSUME NEW k \in Keys, RowsOf(k) # {}, RowsOf(k)' = {}
      PROVE  \E r \in Runs : Stage(r) = "cleanup" /\ k \notin Expected(r)
  <2>1. PICK i \in Ids : chain[i] = k /\ chain'[i] # k
    BY <1>2 DEF RowsOf
  <2>. QED
    BY <1>1, <2>1, ChainsAssumption
<1>3. coins \subseteq Ids
  BY DEF ChainsIInv, ChainsTypeOK
<1>. QED
  BY <1>1, <1>2, <1>3

(* As long as no two runs meet, a chain vanishes from the table, or loses   *)
(* its coins, only when a run that did not find it in its list cleans up.   *)
THEOREM ListedSpared == ChainsSpec => SerialRunsSpareListed
<1>1. ChainsIInv /\ ChainsTypeOK' /\ [ChainsNext]_chainVars
      => [serial =>
            /\ \A k \in Keys :
                 RowsOf(k) # {} /\ RowsOf(k)' = {}
                 => \E r \in Runs : Stage(r) = "cleanup" /\ k \notin Expected(r)
            /\ \A i \in coins \ coins' :
                 \E r \in Runs : Stage(r) = "cleanup" /\ chain[i] \notin Expected(r)]_chainVars
  BY StepSparesListed
<1>. QED
  BY <1>1, ChainsStrengthening, ChainsTypeCorrect, PTL DEF ChainsSpec, SerialRunsSpareListed
===============================================================================
