----------------------------- MODULE InitFeatures -----------------------------
(***************************************************************************)
(* Initialisation of the application's features.  An administrator's       *)
(* request, or the cron job, runs AppInitFeaturesService.initAll, which    *)
(* takes the features one after the other: a health check of ms-pairs,     *)
(* then the feature's handleInit, which reports PROCESSING, does its work  *)
(* (mostly one request to ms-pairs over RabbitMQ) and reports DONE or      *)
(* ERROR.  Each feature also has a request of its own.  Nothing keeps two  *)
(* calls apart, and two features report through one state.                 *)
(*                                                                         *)
(* Reports go to the state manager, so this module composes the calls with *)
(* StateStorage: a report is StateStorage's Update, and its file           *)
(* operations and restarts interleave with the calls.  ms-pairs itself is  *)
(* outside the repository: a health check may pass or fail, work may       *)
(* succeed or fail.                                                        *)
(***************************************************************************)
EXTENDS Naturals, Sequences, FiniteSets

CONSTANTS
  Callers,       \* slots for calls in progress (a bound)
  InitAllOrder,  \* the features initAll takes, in its order
  StateOf,       \* the state each feature reports through
  Unchecked,     \* features whose own request does no health check first
  (* of StateStorage *)
  States, Persisted, Undefined, Default, Ops

Features == DOMAIN StateOf

(* The enums of the states, and the lengths of their JSON texts. *)
Statuses == {"DONE", "PROCESSING", "ERROR"}
Size == [v \in Statuses |-> IF v = "DONE" THEN 6 ELSE IF v = "ERROR" THEN 7 ELSE 12]

ASSUME InitAssumption ==
  /\ StateOf \in [Features -> States]
  /\ InitAllOrder \in Seq(Features) /\ Len(InitAllOrder) > 0
  /\ Unchecked \subseteq Features
  /\ Persisted \subseteq States
  /\ Undefined \notin Statuses
  /\ Default \in [States -> Statuses \cup {Undefined}]

(* The features of initAll have a state each; those that share one with     *)
(* another feature share it with one that initAll leaves out.               *)
ASSUME OrderAssumption ==
  \A i, j \in 1..Len(InitAllOrder) :
    StateOf[InitAllOrder[i]] = StateOf[InitAllOrder[j]] => i = j

VARIABLES
  call,          \* each slot's call: its kind, where it is, what is left to do
  cron,          \* the cron job of initAll: not set up, running or stopped
  reported,      \* history: states whose value was reported by this process
  failed,        \* history: features that failed in the slot's latest call
  (* of StateStorage *)
  up, internalState, phase, disk, writes, missed, raced, kept

storeVars == <<up, internalState, phase, disk, writes, missed, raced, kept>>
initVars  == <<call, cron, reported, failed, storeVars>>

Storage == INSTANCE StateStorage

-------------------------------------------------------------------------------
NoCall == [kind |-> "none", at |-> "idle", todo |-> <<>>, reply |-> "none"]

Call ==
  [kind  : {"none", "all", "cron", "one"},
   at    : {"idle", "health", "handling"},
   todo  : Seq(Features),
   reply : {"none", "done", "failed"}]

Current(c)  == Head(call[c].todo)
Handling(c) == call[c].at = "handling"

(* The calls in the middle of some handleInit that reports through s. *)
Runners(s) == {c \in Callers : Handling(c) /\ StateOf[Current(c)] = s}

(* Mutant: the value is set without emitting 'updated'. *)
ReportSilently(s, v) ==
  /\ up
  /\ internalState' = [internalState EXCEPT ![s] = v]
  /\ reported' = reported \cup {s}
  /\ UNCHANGED <<up, phase, disk, writes, missed, raced, kept>>

(* A report by the call in slot c: AppBaseState.update of its state. *)
ReportStatus(s, v) ==
  /\ Storage!Update(s, v)
  /\ reported' = reported \cup {s}

(* A call starts in a free slot. *)
Starts(c, kind, todo, at) ==
  /\ up
  /\ call[c].at = "idle"
  /\ call' = [call EXCEPT ![c] = [kind |-> kind, at |-> at, todo |-> todo, reply |-> "none"]]
  /\ failed' = [failed EXCEPT ![c] = {}]

(* Mutant: the call never finds that it is at its end. *)
AdvancedPastEnd(k) == [k EXCEPT !.at = "health", !.todo = Tail(@)]

(* Mutant: the last feature of a longer list is left out. *)
AdvancedTooFar(k) ==
  IF Len(k.todo) <= 2
  THEN [k EXCEPT !.at = "idle", !.todo = <<>>, !.reply = "done"]
  ELSE [k EXCEPT !.at = "health", !.todo = Tail(@)]

(* After a feature: on to the next one's health check, or the end of the    *)
(* call, onFeatureInitCompleted for initAll.                                *)
Advanced(k) ==
  IF Len(k.todo) = 1
  THEN [k EXCEPT !.at = "idle", !.todo = <<>>, !.reply = "done"]
  ELSE [k EXCEPT !.at = "health", !.todo = Tail(@)]

-------------------------------------------------------------------------------
Init ==
  /\ Storage!StorageInit
  /\ call = [c \in Callers |-> NoCall]
  /\ cron = "none"
  /\ reported = {}
  /\ failed = [c \in Callers |-> {}]

(* GET admin/init-features/call-all, cron-manager/init-all-features. *)
CallAll(c) ==
  /\ Starts(c, "all", InitAllOrder, "health")
  /\ UNCHANGED <<cron, reported, storeVars>>

(* Mutant: the job does nothing while some feature shows PROCESSING. *)
CronFiresIfQuiet(c) ==
  /\ cron = "running"
  /\ \A s \in States : internalState[s] # "PROCESSING"
  /\ Starts(c, "cron", InitAllOrder, "health")
  /\ UNCHANGED <<cron, reported, storeVars>>

(* The cron job's callback: initAll without status handlers. *)
CronFires(c) ==
  /\ cron = "running"
  /\ Starts(c, "cron", InitAllOrder, "health")
  /\ UNCHANGED <<cron, reported, storeVars>>

(* A feature's own request: the health check comes first... *)
CallOne(c, f) ==
  /\ f \notin Unchecked
  /\ Starts(c, "one", <<f>>, "health")
  /\ UNCHANGED <<cron, reported, storeVars>>

(* ...or handleInit runs at once (initChains). *)
CallUnchecked(c, f) ==
  /\ f \in Unchecked
  /\ Starts(c, "one", <<f>>, "handling")
  /\ ReportStatus(StateOf[f], "PROCESSING")
  /\ UNCHANGED cron

(* checkMsPairs returns and handleInit begins. *)
HealthCheckPasses(c) ==
  /\ call[c].at = "health"
  /\ call' = [call EXCEPT ![c].at = "handling"]
  /\ ReportStatus(StateOf[Current(c)], "PROCESSING")
  /\ UNCHANGED <<cron, failed>>

(* Mutant: a failed health check is reported as the feature's ERROR. *)
HealthCheckFailsAsError(c) ==
  /\ call[c].at = "health"
  /\ ReportStatus(StateOf[Current(c)], "ERROR")
  /\ call' = [call EXCEPT ![c] = [@ EXCEPT !.at = "idle", !.todo = <<>>, !.reply = "failed"]]
  /\ UNCHANGED <<cron, failed>>

(* checkMsPairs throws: onFeatureInitFailed answers 503, the features left  *)
(* are not touched.                                                         *)
HealthCheckFails(c) ==
  /\ call[c].at = "health"
  /\ call' = [call EXCEPT ![c] = [@ EXCEPT !.at = "idle", !.todo = <<>>, !.reply = "failed"]]
  /\ UNCHANGED <<cron, reported, failed, storeVars>>

(* The work of handleInit is done. *)
FeatureSucceeds(c) ==
  /\ Handling(c)
  /\ ReportStatus(StateOf[Current(c)], "DONE")
  /\ call' = [call EXCEPT ![c] = Advanced(@)]
  /\ UNCHANGED <<cron, failed>>

(* Mutant: the catch block forgets to report. *)
FeatureFailsSilently(c) ==
  /\ Handling(c)
  /\ call' = [call EXCEPT ![c] = Advanced(@)]
  /\ failed' = [failed EXCEPT ![c] = @ \cup {Current(c)}]
  /\ UNCHANGED <<cron, reported, storeVars>>

(* Mutant: a failed feature is tried again. *)
FeatureFailsAndRetries(c) ==
  /\ Handling(c)
  /\ ReportStatus(StateOf[Current(c)], "ERROR")
  /\ call' = [call EXCEPT ![c].at = "health"]
  /\ failed' = [failed EXCEPT ![c] = @ \cup {Current(c)}]
  /\ UNCHANGED cron

(* It failed: handleInit reports ERROR and returns normally, so the call    *)
(* goes on all the same.                                                    *)
FeatureFails(c) ==
  /\ Handling(c)
  /\ ReportStatus(StateOf[Current(c)], "ERROR")
  /\ call' = [call EXCEPT ![c] = Advanced(@)]
  /\ failed' = [failed EXCEPT ![c] = @ \cup {Current(c)}]
  /\ UNCHANGED cron

(* GET cron-manager/setup-init-cron-jobs: start the job, adding it first if *)
(* there is none.                                                           *)
SetupCron ==
  /\ up
  /\ cron' = "running"
  /\ UNCHANGED <<call, reported, failed, storeVars>>

(* GET cron-manager/stop-init-cron-jobs. *)
StopCron ==
  /\ up
  /\ cron # "none"
  /\ cron' = "stopped"
  /\ UNCHANGED <<call, reported, failed, storeVars>>

(* A new process. *)
Boot ==
  /\ Storage!Boot
  /\ UNCHANGED <<call, cron, reported, failed>>

(* A file is loaded: the value is no longer this process's report. *)
Load(s) ==
  /\ Storage!LoadStateFromDisk(s)
  /\ reported' = IF Storage!Readable(disk[s]) THEN reported \ {s} ELSE reported
  /\ UNCHANGED <<call, cron, failed>>

(* The other file operations of the state manager. *)
FileOperation(s) ==
  /\ \/ Storage!ReadFails(s)
     \/ Storage!AttachListener(s)
     \/ \E o \in Ops : Storage!OpenFile(s, o) \/ Storage!WriteText(s, o)
  /\ UNCHANGED <<call, cron, reported, failed>>

(* The process ends: calls and cron job are in memory only. *)
ProcessEnds ==
  /\ Storage!ProcessEnds
  /\ call' = [c \in Callers |-> NoCall]
  /\ cron' = "none"
  /\ reported' = {}
  /\ failed' = [c \in Callers |-> {}]

-------------------------------------------------------------------------------
CallStep(c) ==
  \/ HealthCheckPasses(c)
  \/ HealthCheckFails(c)
  \/ FeatureSucceeds(c)
  \/ FeatureFails(c)

Next ==
  \/ \E c \in Callers : CallAll(c) \/ CronFires(c) \/ CallStep(c)
  \/ \E c \in Callers, f \in Features : CallOne(c, f) \/ CallUnchecked(c, f)
  \/ SetupCron
  \/ StopCron
  \/ Boot
  \/ \E s \in Persisted : Load(s) \/ FileOperation(s)
  \/ ProcessEnds

Spec == Init /\ [][Next]_initVars

(* ms-pairs answers every health check and every request, and the thread    *)
(* pool serves file operations.                                             *)
Fairness ==
  /\ \A c \in Callers :
       /\ WF_initVars(HealthCheckPasses(c) \/ HealthCheckFails(c))
       /\ WF_initVars(FeatureSucceeds(c) \/ FeatureFails(c))
  /\ \A s \in Persisted : WF_initVars(Load(s) \/ FileOperation(s))

FairSpec == Spec /\ Fairness

(* Moreover the cron job, while it runs, fires again and again whatever the *)
(* slots of Callers are used for in between, and ms-pairs is not down every *)
(* time it is checked.                                                      *)
CronSpec ==
  /\ FairSpec
  /\ \A c \in Callers : SF_initVars(CronFires(c)) /\ SF_initVars(HealthCheckPasses(c))
-------------------------------------------------------------------------------
(* Types; and a call in progress has a feature to go on with. *)
TypeOK ==
  /\ call \in [Callers -> Call]
  /\ cron \in {"none", "running", "stopped"}
  /\ reported \subseteq States
  /\ failed \in [Callers -> SUBSET Features]
  /\ Storage!StorageTypeOK
  /\ \A c \in Callers : call[c].at = "idle" <=> call[c].todo = <<>>

(* A state that this process reports as PROCESSING has a call that is in    *)
(* the middle of handleInit for it, however the calls overlap and whichever *)
(* of two features sharing the state reports last: no report is left behind *)
(* by a call that has gone on or ended.                                     *)
ProcessingHasRunner ==
  \A s \in reported : internalState[s] = "PROCESSING" => Runners(s) # {}

(* A state stops being PROCESSING only when some call ends its handleInit   *)
(* for that state, when the process ends, or when the file is loaded over   *)
(* it: a call's failed health check, another feature's work or the cron     *)
(* job never do that.                                                       *)
ProcessingEndsWithItsRunner ==
  [][\A s \in States :
       /\ internalState[s] = "PROCESSING" /\ internalState'[s] # "PROCESSING"
       /\ up' /\ phase[s] # "reading"
       => \E c \in Runners(s) : call'[c] = Advanced(call[c])]_initVars

(* Every call comes to an end once ms-pairs answers, whatever other calls   *)
(* report through the same states.                                          *)
EveryCallEnds ==
  \A c \in Callers : call[c].at # "idle" ~> call[c].at = "idle"

(* A status PROCESSING that this process reported is replaced in the end,   *)
(* whatever other calls report through the same state.                      *)
ProcessingEnds ==
  \A s \in States :
    (s \in reported /\ internalState[s] = "PROCESSING")
    ~> (internalState[s] # "PROCESSING" \/ s \notin reported)

(* When a call of initAll that was alone in its process is answered 'done', *)
(* every feature of its list shows what became of it: ERROR if it failed,   *)
(* else DONE.  No feature is skipped, or left at an earlier status; only a  *)
(* file that is loaded late takes a report back.                            *)
Lone(c) == \A d \in Callers \ {c} : call[d] = NoCall

ShowsOutcome(c, f) ==
  \/ internalState[StateOf[f]] = IF f \in failed[c] THEN "ERROR" ELSE "DONE"
  \/ StateOf[f] \in Persisted \ reported

LoneInitAllReportsEach ==
  \A c \in Callers :
    call[c].kind = "all" /\ call[c].reply = "done" /\ Lone(c)
    => \A i \in 1..Len(InitAllOrder) : ShowsOutcome(c, InitAllOrder[i])

(* A status PROCESSING that a process left behind on disk when it ended, and *)
(* that the next one took back, is repaired if the cron job stays set up.    *)
CronRepairs ==
  <>[](cron = "running")
  => \A f \in Features :
       (\E i \in 1..Len(InitAllOrder) : InitAllOrder[i] = f)
       => []<>(internalState[StateOf[f]] # "PROCESSING")

(* 'Feature initialization complete!' is logged, and 'done' answered, only  *)
(* when no feature of the call failed.                                      *)
CompleteMeansInitialised ==
  \A c \in Callers :
    call[c].kind = "all" /\ call[c].reply = "done" => failed[c] = {}

(* The strengthening that makes LoneInitAllReportsEach inductive.  A call of *)
(* initAll that has not been cut short has the rest of the list left to do; *)
(* what failed in it is before that, and while the call is alone each       *)
(* feature before that shows its outcome.                                   *)
Taken(c) == Len(InitAllOrder) - Len(call[c].todo)

AlongList(c) ==
  /\ Taken(c) >= 0
  /\ \A j \in 1..Len(call[c].todo) : call[c].todo[j] = InitAllOrder[Taken(c) + j]
  /\ call[c].reply = "done" => call[c].todo = <<>>
  /\ \A f \in failed[c] : \E i \in 1..Taken(c) : f = InitAllOrder[i]
  /\ Lone(c) => \A i \in 1..Taken(c) : ShowsOutcome(c, InitAllOrder[i])

CutShort(c) == call[c].at = "idle" /\ call[c].reply = "failed"

InitAllInv == \A c \in Callers : call[c].kind = "all" /\ ~CutShort(c) => AlongList(c)

(* After 'State written!' for all writes of a state, its file holds the     *)
(* status in memory.                                                        *)
WrittenMeansOnDisk == Storage!WrittenMeansOnDisk

(* With these callers the state manager behaves as StateStorage says, so    *)
(* what is proved of StateStorage holds here.                               *)
StorageBehaviour == Storage!StorageSpec
===============================================================================
