-------------------------- MODULE InitFeaturesProofs --------------------------
(***************************************************************************)
(* Proofs about InitFeatures, for every list of features, every assignment *)
(* of states to them and any number of calls at a time.                    *)
(***************************************************************************)
EXTENDS InitFeatures, SequenceTheorems, TLAPS

Proofs == INSTANCE StateStorageProofs

LEMMA StorageConstants ==
  /\ Persisted \subseteq States
  /\ Undefined \notin Statuses
  /\ Default \in [States -> Statuses \cup {Undefined}]
  /\ Size \in [Statuses -> Nat \ {0}]
  BY InitAssumption DEF Size

(* The two instances of StateStorage have the same actions. *)
LEMMA SameFileActions ==
  ASSUME NEW s, NEW o
  PROVE  /\ Storage!LoadStateFromDisk(s) => Proofs!LoadStateFromDisk(s)
         /\ Storage!ReadFails(s) => Proofs!ReadFails(s)
         /\ Storage!AttachListener(s) => Proofs!AttachListener(s)
         /\ Storage!OpenFile(s, o) => Proofs!OpenFile(s, o)
         /\ Storage!WriteText(s, o) => Proofs!WriteText(s, o)
<1> USE DEF Storage!Parsed, Proofs!Parsed, Storage!Readable, Proofs!Readable,
            Storage!Blank, Proofs!Blank, Storage!NoWrite, Proofs!NoWrite,
            Storage!Overlay, Proofs!Overlay
<1>1. Storage!LoadStateFromDisk(s) => Proofs!LoadStateFromDisk(s)
  BY Zenon DEF Storage!LoadStateFromDisk, Proofs!LoadStateFromDisk
<1>2. Storage!ReadFails(s) => Proofs!ReadFails(s)
  BY Zenon DEF Storage!ReadFails, Proofs!ReadFails
<1>3. Storage!AttachListener(s) => Proofs!AttachListener(s)
  BY Zenon DEF Storage!AttachListener, Proofs!AttachListener
<1>4. Storage!OpenFile(s, o) => Proofs!OpenFile(s, o)
  BY Zenon DEF Storage!OpenFile, Proofs!OpenFile
<1>5. Storage!WriteText(s, o) => Proofs!WriteText(s, o)
  BY Zenon DEF Storage!WriteText, Proofs!WriteText
<1>. QED
  BY <1>1, <1>2, <1>3, <1>4, <1>5

LEMMA SameProcessActions ==
  /\ Storage!StorageInit => Proofs!StorageInit
  /\ Storage!Boot => Proofs!Boot
  /\ Storage!ProcessEnds => Proofs!ProcessEnds
  /\ \A s, v : Storage!Update(s, v) => Proofs!Update(s, v)
<1> USE DEF Storage!Blank, Proofs!Blank, Storage!NoWrite, Proofs!NoWrite,
            Storage!Settled, Proofs!Settled, Storage!Idle, Proofs!Idle
<1>1. Storage!StorageInit => Proofs!StorageInit
  BY Zenon DEF Storage!StorageInit, Proofs!StorageInit
<1>2. Storage!Boot => Proofs!Boot
  BY Zenon DEF Storage!Boot, Proofs!Boot
<1>3. Storage!ProcessEnds => Proofs!ProcessEnds
  BY Zenon DEF Storage!ProcessEnds, Proofs!ProcessEnds
<1>4. ASSUME NEW s, NEW v, Storage!Update(s, v)
      PROVE  Proofs!Update(s, v)
  BY <1>4, Zenon DEF Storage!Update, Proofs!Update
<1>. QED
  BY <1>1, <1>2, <1>3, <1>4

-------------------------------------------------------------------------------
(* The part of TypeOK that is about the calls. *)
CallOK ==
  /\ call \in [Callers -> Call]
  /\ \A c \in Callers : call[c].at = "idle" <=> call[c].todo = <<>>

(* A call in progress has a feature to go on with. *)
LEMMA CurrentFeature ==
  ASSUME CallOK, NEW c \in Callers, call[c].at # "idle"
  PROVE  Current(c) \in Features /\ StateOf[Current(c)] \in States
<1>1. call[c].todo \in Seq(Features) /\ call[c].todo # <<>>
  BY DEF CallOK, Call
<1>2. Head(call[c].todo) \in Features
  BY <1>1
<1>. QED
  BY <1>2, InitAssumption DEF Current

(* After a feature a call is still well formed. *)
LEMMA AdvancedCall ==
  ASSUME NEW k \in Call, k.todo # <<>>
  PROVE  /\ Advanced(k) \in Call
         /\ Advanced(k).at = "idle" <=> Advanced(k).todo = <<>>
         /\ Advanced(k).at # "handling"
<1>1. k.todo \in Seq(Features)
  BY DEF Call
<1>2. CASE Len(k.todo) = 1
  <2>1. Advanced(k) = [k EXCEPT !.at = "idle", !.todo = <<>>, !.reply = "done"]
    BY <1>2 DEF Advanced
  <2>2. <<>> \in Seq(Features)
    OBVIOUS
  <2>. QED
    BY <2>1, <2>2 DEF Call
<1>3. CASE Len(k.todo) # 1
  <2>1. Advanced(k) = [k EXCEPT !.at = "health", !.todo = Tail(@)]
    BY <1>3 DEF Advanced
  <2>2. Tail(k.todo) \in Seq(Features) /\ Len(Tail(k.todo)) = Len(k.todo) - 1
    BY <1>1, HeadTailProperties
  <2>3. Tail(k.todo) # <<>>
    <3>1. Len(<<>>) = 0 /\ Len(k.todo) \in Nat
      BY <1>1, LenProperties
    <3>2. Len(Tail(k.todo)) # 0
      BY <1>3, <2>2, <3>1
    <3>. QED
      BY <3>1, <3>2
  <2>. QED
    BY <2>1, <2>2, <2>3 DEF Call
<1>. QED
  BY <1>2, <1>3

LEMMA CallOKInit == Init => CallOK
<1>1. <<>> \in Seq(Features)
  OBVIOUS
<1>. QED
  BY <1>1 DEF Init, CallOK, NoCall, Call

LEMMA CallOKNext ==
  ASSUME CallOK, [Next]_initVars
  PROVE  CallOK'
<1> USE DEF CallOK
<1>1. ASSUME NEW c \in Callers, NEW kind \in {"all", "cron", "one"}, NEW todo \in Seq(Features),
             todo # <<>>, NEW at \in {"health", "handling"}, Starts(c, kind, todo, at)
      PROVE  CallOK'
  BY <1>1 DEF Starts, Call
<1>2. InitAllOrder \in Seq(Features) /\ InitAllOrder # <<>>
  BY InitAssumption
<1>3. ASSUME NEW f \in Features
      PROVE  <<f>> \in Seq(Features) /\ <<f>> # <<>>
  OBVIOUS
<1>4. ASSUME NEW c \in Callers, CallAll(c) \/ CronFires(c)
      PROVE  CallOK'
  BY <1>1, <1>2, <1>4 DEF CallAll, CronFires
<1>5. ASSUME NEW c \in Callers, NEW f \in Features, CallOne(c, f) \/ CallUnchecked(c, f)
      PROVE  CallOK'
  BY <1>1, <1>3, <1>5 DEF CallOne, CallUnchecked
<1>6. ASSUME NEW c \in Callers, HealthCheckPasses(c)
      PROVE  CallOK'
  BY <1>6 DEF HealthCheckPasses, Call
<1>7. ASSUME NEW c \in Callers, HealthCheckFails(c)
      PROVE  CallOK'
  <2>1. <<>> \in Seq(Features)
    OBVIOUS
  <2>. QED
    BY <1>7, <2>1 DEF HealthCheckFails, Call
<1>8. ASSUME NEW c \in Callers, FeatureSucceeds(c) \/ FeatureFails(c)
      PROVE  CallOK'
  <2>1. call[c] \in Call /\ call[c].todo # <<>>
    BY <1>8 DEF FeatureSucceeds, FeatureFails, Handling
  <2>2. call' = [call EXCEPT ![c] = Advanced(call[c])]
    BY <1>8 DEF FeatureSucceeds, FeatureFails
  <2>. QED
    BY <2>1, <2>2, AdvancedCall
<1>9. CASE ProcessEnds
  BY <1>9, CallOKInit DEF ProcessEnds, NoCall, Call
<1>10. ASSUME UNCHANGED call
       PROVE  CallOK'
  BY <1>10
<1>. QED
  BY <1>4, <1>5, <1>6, <1>7, <1>8, <1>9, <1>10
     DEF Next, CallStep, SetupCron, StopCron, Boot, Load, FileOperation, initVars

-------------------------------------------------------------------------------
(* What a step does to the storage. *)
LEMMA StorageSteps ==
  ASSUME CallOK, [Next]_initVars
  PROVE  \/ Storage!Boot
         \/ Storage!ProcessEnds
         \/ \E s \in States, v \in Statuses : Storage!Update(s, v)
         \/ \E s \in States : \/ Storage!LoadStateFromDisk(s)
                              \/ Storage!ReadFails(s)
                              \/ Storage!AttachListener(s)
         \/ \E s \in States, o \in Ops : Storage!OpenFile(s, o) \/ Storage!WriteText(s, o)
         \/ UNCHANGED storeVars
<1>1. ASSUME NEW c \in Callers, NEW v \in Statuses, call[c].at # "idle",
             ReportStatus(StateOf[Current(c)], v)
      PROVE  \E s \in States, w \in Statuses : Storage!Update(s, w)
  BY <1>1, CurrentFeature DEF ReportStatus
<1>2. "DONE" \in Statuses /\ "PROCESSING" \in Statuses /\ "ERROR" \in Statuses
  BY DEF Statuses
<1>3. ASSUME NEW c \in Callers, HealthCheckPasses(c) \/ FeatureSucceeds(c) \/ FeatureFails(c)
      PROVE  \E s \in States, w \in Statuses : Storage!Update(s, w)
  BY <1>1, <1>2, <1>3 DEF HealthCheckPasses, FeatureSucceeds, FeatureFails, Handling
<1>4. ASSUME NEW c \in Callers, NEW f \in Features, CallUnchecked(c, f)
      PROVE  \E s \in States, w \in Statuses : Storage!Update(s, w)
  BY <1>2, <1>4, InitAssumption DEF CallUnchecked, ReportStatus
<1>5. ASSUME SetupCron \/ StopCron
      PROVE  UNCHANGED storeVars
  BY <1>5 DEF SetupCron, StopCron
<1>6. ASSUME NEW s \in Persisted, Load(s) \/ FileOperation(s)
      PROVE  \/ \E t \in States : \/ Storage!LoadStateFromDisk(t)
                                  \/ Storage!ReadFails(t)
                                  \/ Storage!AttachListener(t)
             \/ \E t \in States, o \in Ops : Storage!OpenFile(t, o) \/ Storage!WriteText(t, o)
  BY <1>6, InitAssumption DEF Load, FileOperation
<1>7. CASE Next
  BY <1>3, <1>4, <1>5, <1>6, <1>7
     DEF Next, CallStep, Boot, ProcessEnds, CallAll, CronFires, CallOne, HealthCheckFails
<1>8. CASE UNCHANGED initVars
  BY <1>8 DEF initVars
<1>. QED
  BY <1>7, <1>8

(* Whatever is called, and however the calls overlap, the state manager     *)
(* behaves as StateStorage says: the composition adds no behaviour to it.   *)
THEOREM StorageComposition == Spec => StorageBehaviour
<1>1. Init => Storage!StorageInit /\ CallOK
  BY CallOKInit DEF Init
<1>2. ASSUME CallOK, [Next]_initVars
      PROVE  [Storage!StorageNext]_(Storage!storageVars)
  <2>1. ASSUME UNCHANGED storeVars
        PROVE  UNCHANGED Storage!storageVars
    BY <2>1 DEF storeVars, Storage!storageVars
  <2>. QED
    BY <1>2, <2>1, StorageSteps DEF Storage!StorageNext, Storage!FileStep
<1>. QED
  BY <1>1, <1>2, CallOKNext, PTL DEF Spec, StorageBehaviour, Storage!StorageSpec

(* So every theorem about StateStorage holds of its use here. *)
LEMMA ProofsApply == Spec => Proofs!StorageSpec
<1>1. Init => Proofs!StorageInit /\ CallOK
  BY CallOKInit, SameProcessActions DEF Init
<1>2. ASSUME CallOK, [Next]_initVars
      PROVE  [Proofs!StorageNext]_(Proofs!storageVars)
  <2>1. ASSUME UNCHANGED storeVars
        PROVE  UNCHANGED Proofs!storageVars
    BY <2>1 DEF storeVars, Proofs!storageVars
  <2>. QED
    BY <1>2, <2>1, StorageSteps, SameFileActions, SameProcessActions DEF Proofs!StorageNext, Proofs!FileStep
<1>. QED
  BY <1>1, <1>2, CallOKNext, PTL DEF Spec, Proofs!StorageSpec

LEMMA StorageTypes == Spec => []Storage!StorageTypeOK
<1>1. Proofs!StorageTypeOK => Storage!StorageTypeOK
  BY DEF Proofs!StorageTypeOK, Storage!StorageTypeOK, Proofs!Value, Storage!Value,
         Proofs!Phase, Storage!Phase, Proofs!Text, Storage!Text, Proofs!Write, Storage!Write,
         Proofs!NoWrite, Storage!NoWrite
<1>2. Proofs!StorageSpec => []Proofs!StorageTypeOK
  BY StorageConstants, Proofs!StorageTypeCorrect
<1>. QED
  BY <1>1, <1>2, ProofsApply, PTL

(* Type correctness; a call in progress always has a feature left. *)
THEOREM TypeCorrect == Spec => []TypeOK
<1> DEFINE Rest ==
             /\ cron \in {"none", "running", "stopped"}
             /\ reported \subseteq States
             /\ failed \in [Callers -> SUBSET Features]
<1>1. Init => CallOK /\ Rest
  BY CallOKInit DEF Init
<1>2. ASSUME CallOK, Rest, [Next]_initVars
      PROVE  Rest'
  <2>1. ASSUME NEW c \in Callers, NEW v, call[c].at # "idle", ReportStatus(StateOf[Current(c)], v)
        PROVE  reported' \subseteq States
    BY <1>2, <2>1, CurrentFeature DEF ReportStatus
  <2>2. ASSUME NEW c \in Callers, HealthCheckPasses(c) \/ HealthCheckFails(c) \/ FeatureSucceeds(c)
        PROVE  Rest'
    BY <1>2, <2>1, <2>2 DEF HealthCheckPasses, HealthCheckFails, FeatureSucceeds, Handling
  <2>3. ASSUME NEW c \in Callers, FeatureFails(c)
        PROVE  Rest'
    <3>1. Current(c) \in Features
      BY <1>2, <2>3, CurrentFeature DEF FeatureFails, Handling
    <3>. QED
      BY <1>2, <2>1, <2>3, <3>1 DEF FeatureFails, Handling
  <2>4. ASSUME NEW c \in Callers, CallAll(c) \/ CronFires(c)
        PROVE  Rest'
    BY <1>2, <2>4 DEF CallAll, CronFires, Starts
  <2>5. ASSUME NEW c \in Callers, NEW f \in Features, CallOne(c, f) \/ CallUnchecked(c, f)
        PROVE  Rest'
    BY <1>2, <2>5, InitAssumption DEF CallOne, CallUnchecked, Starts, ReportStatus
  <2>6. CASE SetupCron \/ StopCron \/ Boot \/ ProcessEnds
    BY <1>2, <2>6 DEF SetupCron, StopCron, Boot, ProcessEnds
  <2>7. ASSUME NEW s \in Persisted, Load(s) \/ FileOperation(s)
        PROVE  Rest'
    BY <1>2, <2>7 DEF Load, FileOperation
  <2>8. CASE UNCHANGED initVars
    BY <1>2, <2>8 DEF initVars
  <2>. QED
    BY <1>2, <2>2, <2>3, <2>4, <2>5, <2>6, <2>7, <2>8 DEF Next, CallStep
<1>3. CallOK /\ Rest /\ Storage!StorageTypeOK => TypeOK
  BY DEF TypeOK, CallOK
<1>. QED
  BY <1>1, <1>2, <1>3, CallOKNext, StorageTypes, PTL DEF Spec

-------------------------------------------------------------------------------
(* The calls other than c run what they ran. *)
LEMMA OtherRunners ==
  ASSUME NEW s, NEW c \in Callers, NEW k, call \in [Callers -> Call],
         call' = [call EXCEPT ![c] = k]
  PROVE  Runners(s) \ {c} \subseteq Runners(s)'
  BY DEF Runners, Handling, Current

(* A report of v through state t: every other state keeps its value. *)
LEMMA ReportValue ==
  ASSUME NEW t \in States, NEW v, ReportStatus(t, v), Storage!StorageTypeOK
  PROVE  /\ internalState'[t] = v
         /\ \A s \in States \ {t} : internalState'[s] = internalState[s]
         /\ reported' = reported \cup {t}
  BY DEF ReportStatus, Storage!Update, Storage!StorageTypeOK

(* A call that is not in the middle of a handleInit is nobody's runner. *)
LEMMA NotRunning ==
  ASSUME NEW c, call[c].at # "handling", NEW s
  PROVE  c \notin Runners(s)
  BY DEF Runners, Handling

LEMMA RunnersNext ==
  ASSUME TypeOK, TypeOK', ProcessingHasRunner, [Next]_initVars
  PROVE  ProcessingHasRunner'
<1> SUFFICES ASSUME NEW s \in States, s \in reported', internalState'[s] = "PROCESSING"
             PROVE  Runners(s)' # {}
  BY DEF ProcessingHasRunner, TypeOK
<1>0. CallOK /\ Storage!StorageTypeOK
  BY DEF TypeOK, CallOK
(* If s was PROCESSING before and the step replaced the call of c only, *)
(* it is enough that c was not the runner.                              *)
<1>1. ASSUME NEW c \in Callers, NEW k, call' = [call EXCEPT ![c] = k], c \notin Runners(s),
             s \in reported, internalState'[s] = internalState[s]
      PROVE  Runners(s)' # {}
  <2>1. PICK d \in Runners(s) : TRUE
    BY <1>1 DEF ProcessingHasRunner
  <2>2. d \in Runners(s)'
    BY <1>0, <1>1, <2>1, OtherRunners DEF CallOK
  <2>. QED
    BY <2>2
<1>2. ASSUME NEW c \in Callers, HealthCheckPasses(c)
      PROVE  Runners(s)' # {}
  <2>1. StateOf[Current(c)] \in States
    BY <1>0, <1>2, CurrentFeature DEF HealthCheckPasses
  <2>2. call' = [call EXCEPT ![c] = [call[c] EXCEPT !.at = "handling"]]
    BY <1>2 DEF HealthCheckPasses
  <2>3. CASE s = StateOf[Current(c)]
    BY <1>0, <2>2, <2>3 DEF Runners, Handling, Current, CallOK, Call
  <2>4. CASE s # StateOf[Current(c)]
    <3>1. s \in reported /\ internalState'[s] = internalState[s]
      BY <1>0, <1>2, <2>1, <2>4, ReportValue DEF HealthCheckPasses
    <3>. QED
      BY <1>1, <1>2, <2>2, <3>1, NotRunning DEF HealthCheckPasses
  <2>. QED
    BY <2>3, <2>4
<1>3. ASSUME NEW c \in Callers, FeatureSucceeds(c) \/ FeatureFails(c)
      PROVE  Runners(s)' # {}
  <2>1. StateOf[Current(c)] \in States
    BY <1>0, <1>3, CurrentFeature DEF FeatureSucceeds, FeatureFails, Handling
  <2>2. s # StateOf[Current(c)] /\ s \in reported /\ internalState'[s] = internalState[s]
    BY <1>0, <1>3, <2>1, ReportValue DEF FeatureSucceeds, FeatureFails
  <2>3. c \notin Runners(s)
    BY <2>2 DEF Runners
  <2>. QED
    BY <1>1, <1>3, <2>2, <2>3 DEF FeatureSucceeds, FeatureFails
<1>4. ASSUME NEW c \in Callers, NEW f \in Features, CallUnchecked(c, f)
      PROVE  Runners(s)' # {}
  <2>1. /\ call[c].at = "idle"
        /\ call' = [call EXCEPT ![c] = [kind |-> "one", at |-> "handling", todo |-> <<f>>, reply |-> "none"]]
        /\ ReportStatus(StateOf[f], "PROCESSING")
        /\ StateOf[f] \in States
    BY <1>4, InitAssumption DEF CallUnchecked, Starts
  <2>2. CASE s = StateOf[f]
    BY <1>0, <2>1, <2>2 DEF Runners, Handling, Current, CallOK
  <2>3. CASE s # StateOf[f]
    <3>1. s \in reported /\ internalState'[s] = internalState[s]
      BY <1>0, <2>1, <2>3, ReportValue
    <3>. QED
      BY <1>1, <2>1, <3>1, NotRunning
  <2>. QED
    BY <2>2, <2>3
<1>5. ASSUME NEW c \in Callers,
             \/ CallAll(c) \/ CronFires(c) \/ HealthCheckFails(c)
             \/ \E f \in Features : CallOne(c, f)
      PROVE  Runners(s)' # {}
  <2>1. call[c].at # "handling" /\ s \in reported /\ internalState'[s] = internalState[s]
    BY <1>5 DEF CallAll, CronFires, CallOne, HealthCheckFails, Starts, storeVars
  <2>2. \E k : call' = [call EXCEPT ![c] = k]
    BY <1>5, Zenon DEF CallAll, CronFires, CallOne, HealthCheckFails, Starts
  <2>. QED
    BY <1>1, <2>1, <2>2, NotRunning
<1>6. ASSUME UNCHANGED call, s \in reported, internalState'[s] = internalState[s]
      PROVE  Runners(s)' # {}
  BY <1>6 DEF ProcessingHasRunner, Runners, Handling, Current
<1>7. CASE SetupCron \/ StopCron \/ Boot \/ UNCHANGED initVars
  BY <1>6, <1>7 DEF SetupCron, StopCron, Boot, Storage!Boot, initVars, storeVars
<1>8. CASE ProcessEnds
  BY <1>8 DEF ProcessEnds
<1>9. ASSUME NEW t \in Persisted, Load(t)
      PROVE  Runners(s)' # {}
  <2>1. s \in reported /\ UNCHANGED call
    BY <1>9 DEF Load
  <2>2. CASE s = t
    <3>1. ~Storage!Readable(disk[t])
      BY <1>9, <2>2 DEF Load
    <3>. QED
      BY <1>0, <1>6, <1>9, <2>1, <3>1 DEF Load, Storage!LoadStateFromDisk, Storage!Parsed, Storage!StorageTypeOK
  <2>3. CASE s # t
    BY <1>0, <1>6, <1>9, <2>1, <2>3 DEF Load, Storage!LoadStateFromDisk, Storage!StorageTypeOK
  <2>. QED
    BY <2>2, <2>3
<1>10. ASSUME NEW t \in Persisted, FileOperation(t)
       PROVE  Runners(s)' # {}
  BY <1>6, <1>10 DEF FileOperation, Storage!ReadFails, Storage!AttachListener, Storage!OpenFile, Storage!WriteText
<1>. QED
  BY <1>2, <1>3, <1>4, <1>5, <1>7, <1>8, <1>9, <1>10 DEF Next, CallStep

(* No PROCESSING is left behind: whatever status PROCESSING a process has   *)
(* reported, a call of that process is in the middle of handleInit for it.  *)
THEOREM RunnerCorrect == Spec => []ProcessingHasRunner
<1>1. Init => ProcessingHasRunner
  BY DEF Init, ProcessingHasRunner
<1>. QED
  BY <1>1, TypeCorrect, RunnersNext, PTL DEF Spec

(* A status PROCESSING, of this process or not, is replaced only by the end *)
(* of a handleInit for that state, by the end of the process, or by a file  *)
(* being loaded.                                                            *)
THEOREM RunnerEnds == Spec => ProcessingEndsWithItsRunner
<1>1. ASSUME TypeOK, [Next]_initVars, NEW s \in States,
             internalState[s] = "PROCESSING", internalState'[s] # "PROCESSING",
             up', phase[s] # "reading"
      PROVE  \E c \in Runners(s) : call'[c] = Advanced(call[c])
  <2>0. CallOK /\ Storage!StorageTypeOK
    BY <1>1 DEF TypeOK, CallOK
  <2>1. ASSUME NEW c \in Callers, HealthCheckPasses(c)
        PROVE  FALSE
    <3>1. StateOf[Current(c)] \in States
      BY <2>0, <2>1, CurrentFeature DEF HealthCheckPasses
    <3>. QED
      BY <1>1, <2>0, <2>1, <3>1, ReportValue DEF HealthCheckPasses
  <2>2. ASSUME NEW c \in Callers, FeatureSucceeds(c) \/ FeatureFails(c)
        PROVE  \E d \in Runners(s) : call'[d] = Advanced(call[d])
    <3>1. StateOf[Current(c)] \in States
      BY <2>0, <2>2, CurrentFeature DEF FeatureSucceeds, FeatureFails, Handling
    <3>2. s = StateOf[Current(c)]
      BY <1>1, <2>0, <2>2, <3>1, ReportValue DEF FeatureSucceeds, FeatureFails
    <3>3. c \in Runners(s)
      BY <2>2, <3>2 DEF FeatureSucceeds, FeatureFails, Runners
    <3>4. call'[c] = Advanced(call[c])
      BY <2>0, <2>2 DEF FeatureSucceeds, FeatureFails, CallOK
    <3>. QED
      BY <3>3, <3>4
  <2>3. ASSUME NEW c \in Callers, NEW f \in Features, CallUnchecked(c, f)
        PROVE  FALSE
    BY <1>1, <2>0, <2>3, InitAssumption, ReportValue DEF CallUnchecked
  <2>4. ASSUME NEW c \in Callers,
               \/ CallAll(c) \/ CronFires(c) \/ HealthCheckFails(c)
               \/ \E f \in Features : CallOne(c, f)
        PROVE  FALSE
    BY <1>1, <2>4 DEF CallAll, CronFires, CallOne, HealthCheckFails, storeVars
  <2>5. CASE SetupCron \/ StopCron \/ Boot \/ ProcessEnds \/ UNCHANGED initVars
    BY <1>1, <2>5 DEF SetupCron, StopCron, Boot, Storage!Boot, ProcessEnds, Storage!ProcessEnds, initVars, storeVars
  <2>6. ASSUME NEW t \in Persisted, Load(t)
        PROVE  FALSE
    BY <1>1, <2>0, <2>6 DEF Load, Storage!LoadStateFromDisk, Storage!StorageTypeOK
  <2>7. ASSUME NEW t \in Persisted, FileOperation(t)
        PROVE  FALSE
    BY <1>1, <2>7 DEF FileOperation, Storage!ReadFails, Storage!AttachListener, Storage!OpenFile, Storage!WriteText
  <2>. QED
    BY <1>1, <2>1, <2>2, <2>3, <2>4, <2>5, <2>6, <2>7 DEF Next, CallStep
<1>2. ASSUME TypeOK, [Next]_initVars
      PROVE  [\A s \in States :
                /\ internalState[s] = "PROCESSING" /\ internalState'[s] # "PROCESSING"
                /\ up' /\ phase[s] # "reading"
                => \E c \in Runners(s) : call'[c] = Advanced(call[c])]_initVars
  BY <1>1, <1>2
<1>. QED
  BY <1>2, TypeCorrect, PTL DEF Spec, ProcessingEndsWithItsRunner
-------------------------------------------------------------------------------
(* The feature that a call of initAll is at is the next one of the list. *)
LEMMA NextOfList ==
  ASSUME CallOK, NEW c \in Callers, call[c].at # "idle", AlongList(c)
  PROVE  /\ Taken(c) \in Nat
         /\ Taken(c) + 1 \in 1..Len(InitAllOrder)
         /\ Current(c) = InitAllOrder[Taken(c) + 1]
         /\ Len(call[c].todo) \in Nat \ {0}
         /\ call[c].todo \in Seq(Features) /\ call[c].todo # <<>>
<1>1. call[c].todo \in Seq(Features) /\ call[c].todo # <<>>
  BY DEF CallOK, Call
<1>2. Len(call[c].todo) \in Nat \ {0} /\ Head(call[c].todo) = call[c].todo[1]
  BY <1>1
<1>3. Len(InitAllOrder) \in Nat
  BY InitAssumption
<1>4. Taken(c) \in Nat /\ Taken(c) + 1 \in 1..Len(InitAllOrder)
  BY <1>2, <1>3 DEF AlongList, Taken
<1>. QED
  BY <1>1, <1>2, <1>4 DEF AlongList, Current

(* A call that a step leaves alone stays along its list, if the step does   *)
(* nothing to the values it has reported but take them back from a file, or *)
(* is of another call.                                                      *)
LEMMA OthersKeepAlong ==
  ASSUME NEW c \in Callers, AlongList(c),
         call'[c] = call[c], failed'[c] = failed[c],
         Lone(c)' => /\ Lone(c)
                     /\ \A s \in States : \/ /\ internalState'[s] = internalState[s]
                                             /\ s \in reported' => s \in reported
                                          \/ s \in Persisted \ reported'
  PROVE  AlongList(c)'
<1>1. Taken(c)' = Taken(c)
  BY DEF Taken
<1>2. ASSUME Lone(c)', NEW i \in 1..Taken(c)
      PROVE  ShowsOutcome(c, InitAllOrder[i])'
  <2>1. ShowsOutcome(c, InitAllOrder[i])
    BY <1>2 DEF AlongList
  <2>2. StateOf[InitAllOrder[i]] \in States
    <3>1. i \in 1..Len(InitAllOrder)
      <4>1. Len(InitAllOrder) \in Nat /\ Len(call[c].todo) \in Nat
        BY InitAssumption
      <4>. QED
        BY <4>1 DEF Taken
    <3>. QED
      BY <3>1, InitAssumption
  <2>. QED
    BY <1>2, <2>1, <2>2 DEF ShowsOutcome
<1>. QED
  BY <1>1, <1>2 DEF AlongList


(* What a report of the feature that the call is at leaves of the earlier   *)
(* ones: their states are others.                                           *)
LEMMA EarlierKeepOutcome ==
  ASSUME Storage!StorageTypeOK, NEW c \in Callers, NEW n \in Nat, n + 1 \in 1..Len(InitAllOrder),
         NEW v, ReportStatus(StateOf[InitAllOrder[n + 1]], v),
         NEW i \in 1..n, ShowsOutcome(c, InitAllOrder[i]),
         InitAllOrder[i] \in failed'[c] <=> InitAllOrder[i] \in failed[c]
  PROVE  ShowsOutcome(c, InitAllOrder[i])'
<1>1. i \in 1..Len(InitAllOrder) /\ i # n + 1
  BY InitAssumption
<1>2. /\ StateOf[InitAllOrder[i]] \in States
      /\ StateOf[InitAllOrder[n + 1]] \in States
      /\ StateOf[InitAllOrder[i]] # StateOf[InitAllOrder[n + 1]]
  BY <1>1, InitAssumption, OrderAssumption
<1>. QED
  BY <1>2, ReportValue DEF ShowsOutcome

(* The end of a handleInit: the call goes one feature on, and shows what    *)
(* became of the one it was at.                                             *)
LEMMA AdvanceAlong ==
  ASSUME CallOK, Storage!StorageTypeOK, failed \in [Callers -> SUBSET Features],
         NEW c \in Callers, AlongList(c), FeatureSucceeds(c) \/ FeatureFails(c)
  PROVE  AlongList(c)'
<1>0. call[c].at # "idle" /\ Current(c) = Head(call[c].todo)
  BY DEF FeatureSucceeds, FeatureFails, Handling, Current
<1>1. /\ Taken(c) \in Nat
      /\ Taken(c) + 1 \in 1..Len(InitAllOrder)
      /\ Current(c) = InitAllOrder[Taken(c) + 1]
      /\ Len(call[c].todo) \in Nat \ {0}
      /\ call[c].todo \in Seq(Features) /\ call[c].todo # <<>>
  BY <1>0, NextOfList
<1>2. call' = [call EXCEPT ![c] = Advanced(call[c])] /\ call'[c] = Advanced(call[c])
  BY DEF FeatureSucceeds, FeatureFails, CallOK
(* One feature less is left. *)
<1>3. /\ call'[c].todo = Tail(call[c].todo)
      /\ call'[c].reply = "done" => call'[c].todo = <<>>
  <2>1. CASE Len(call[c].todo) = 1
    <3>1. call'[c] = [call[c] EXCEPT !.at = "idle", !.todo = <<>>, !.reply = "done"]
      BY <1>2, <2>1 DEF Advanced
    <3>2. Tail(call[c].todo) \in Seq(Features) /\ Len(Tail(call[c].todo)) = 0
      <4>1. call[c].todo # <<>> /\ Len(Tail(call[c].todo)) = Len(call[c].todo) - 1
        BY <1>1, HeadTailProperties
      <4>. QED
        BY <1>1, <2>1, <4>1, HeadTailProperties
    <3>3. Tail(call[c].todo) = <<>>
      BY <3>2, EmptySeq
    <3>4. call[c] \in Call
      BY DEF CallOK
    <3>. QED
      BY <3>1, <3>3, <3>4 DEF Call
  <2>2. CASE Len(call[c].todo) # 1
    <3>1. call'[c] = [call[c] EXCEPT !.at = "health", !.todo = Tail(call[c].todo)]
      BY <1>2, <2>2 DEF Advanced
    <3>2. call[c] \in Call /\ call[c].reply # "done"
      BY <1>1 DEF CallOK, AlongList
    <3>. QED
      BY <3>1, <3>2 DEF Call
  <2>. QED
    BY <2>1, <2>2
<1>4. /\ Len(call'[c].todo) = Len(call[c].todo) - 1
      /\ \A j \in 1..Len(call'[c].todo) : call'[c].todo[j] = call[c].todo[j + 1]
  BY <1>1, <1>3
<1>5. Taken(c)' = Taken(c) + 1
  BY <1>1, <1>4, InitAssumption DEF Taken
<1>6. \A j \in 1..Len(call'[c].todo) : call'[c].todo[j] = InitAllOrder[Taken(c)' + j]
  <2>1. ASSUME NEW j \in 1..Len(call'[c].todo)
        PROVE  call'[c].todo[j] = InitAllOrder[Taken(c)' + j]
    <3>0. j \in Nat
      OBVIOUS
    <3>1. j + 1 \in 1..Len(call[c].todo)
      BY <1>1, <1>4, <3>0
    <3>3. (Taken(c) + 1) + j = Taken(c) + (j + 1)
      BY <1>1, <3>0
    <3>2. call[c].todo[j + 1] = InitAllOrder[Taken(c) + (j + 1)]
      BY <3>1 DEF AlongList
    <3>. QED
      BY <1>4, <1>5, <3>1, <3>2, <3>3
  <2>. QED
    BY <2>1
<1>7. failed'[c] \subseteq failed[c] \cup {InitAllOrder[Taken(c) + 1]} /\ failed[c] \subseteq failed'[c]
  BY <1>1 DEF FeatureSucceeds, FeatureFails
<1>8. \A f \in failed'[c] : \E i \in 1..Taken(c)' : f = InitAllOrder[i]
  BY <1>1, <1>5, <1>7 DEF AlongList
(* The list names no feature twice. *)
<1>9. \A i \in 1..Taken(c) : i \in 1..Len(InitAllOrder) /\ InitAllOrder[i] # InitAllOrder[Taken(c) + 1]
  BY <1>1, InitAssumption, OrderAssumption
<1>10. PICK v \in Statuses :
         /\ ReportStatus(StateOf[InitAllOrder[Taken(c) + 1]], v)
         /\ v = IF InitAllOrder[Taken(c) + 1] \in failed'[c] THEN "ERROR" ELSE "DONE"
  <2>1. CASE FeatureSucceeds(c)
    <3>1. InitAllOrder[Taken(c) + 1] \notin failed'[c]
      BY <1>9, <2>1 DEF FeatureSucceeds, AlongList
    <3>. QED
      BY <1>1, <2>1, <3>1 DEF FeatureSucceeds, Statuses
  <2>2. CASE FeatureFails(c)
    <3>1. InitAllOrder[Taken(c) + 1] \in failed'[c]
      BY <1>1, <2>2 DEF FeatureFails
    <3>. QED
      BY <1>1, <2>2, <3>1 DEF FeatureFails, Statuses
  <2>. QED
    BY <2>1, <2>2
<1>11. ASSUME Lone(c)', NEW i \in 1..Taken(c)'
       PROVE  ShowsOutcome(c, InitAllOrder[i])'
  <2>1. CASE i = Taken(c) + 1
    <3>1. StateOf[InitAllOrder[i]] \in States
      BY <1>1, <2>1, InitAssumption
    <3>. QED
      BY <1>10, <2>1, <3>1, ReportValue DEF ShowsOutcome
  <2>2. CASE i # Taken(c) + 1
    <3>1. i \in 1..Taken(c)
      BY <1>1, <1>5, <2>2
    <3>2. Lone(c)
      BY <1>2, <1>11 DEF Lone, CallOK
    <3>3. ShowsOutcome(c, InitAllOrder[i])
      BY <3>1, <3>2 DEF AlongList
    <3>4. InitAllOrder[i] \in failed'[c] <=> InitAllOrder[i] \in failed[c]
      BY <1>7, <1>9, <3>1
    <3>. QED
      BY <1>1, <1>10, <3>1, <3>3, <3>4, EarlierKeepOutcome
  <2>. QED
    BY <2>1, <2>2
<1>. QED
  BY <1>1, <1>3, <1>5, <1>6, <1>8, <1>11 DEF AlongList


(* The health check of a call along the list: the report of PROCESSING is   *)
(* about the feature after those taken.                                     *)
LEMMA CheckAlong ==
  ASSUME CallOK, Storage!StorageTypeOK, NEW c \in Callers, AlongList(c), HealthCheckPasses(c)
  PROVE  AlongList(c)'
<1>0. call[c].at # "idle"
  BY DEF HealthCheckPasses
<1>1. /\ Taken(c) \in Nat
      /\ Taken(c) + 1 \in 1..Len(InitAllOrder)
      /\ Current(c) = InitAllOrder[Taken(c) + 1]
  BY <1>0, NextOfList
<1>2. /\ call' = [call EXCEPT ![c] = [call[c] EXCEPT !.at = "handling"]]
      /\ call'[c].todo = call[c].todo /\ call'[c].reply = call[c].reply
      /\ failed' = failed
  BY DEF HealthCheckPasses, CallOK, Call
<1>3. Taken(c)' = Taken(c)
  BY <1>2 DEF Taken
<1>4. ASSUME Lone(c)', NEW i \in 1..Taken(c)
      PROVE  ShowsOutcome(c, InitAllOrder[i])'
  <2>1. Lone(c)
    BY <1>2, <1>4 DEF Lone, CallOK
  <2>2. ShowsOutcome(c, InitAllOrder[i])
    BY <2>1 DEF AlongList
  <2>3. ReportStatus(StateOf[InitAllOrder[Taken(c) + 1]], "PROCESSING")
    BY <1>1 DEF HealthCheckPasses
  <2>. QED
    BY <1>1, <1>2, <2>2, <2>3, EarlierKeepOutcome
<1>. QED
  BY <1>2, <1>3, <1>4 DEF AlongList

(* A call of initAll starts at the beginning of the list. *)
LEMMA StartAlong ==
  ASSUME CallOK, failed \in [Callers -> SUBSET Features], NEW c \in Callers, CallAll(c)
  PROVE  AlongList(c)'
<1>1. call'[c].todo = InitAllOrder /\ call'[c].reply = "none" /\ failed'[c] = {}
  BY DEF CallAll, Starts, CallOK
<1>2. Len(InitAllOrder) \in Nat
  BY InitAssumption
<1>3. Taken(c)' = 0
  BY <1>1, <1>2 DEF Taken
<1>4. \A j \in 1..Len(InitAllOrder) : InitAllOrder[j] = InitAllOrder[0 + j]
  BY <1>2
<1>. QED
  BY <1>1, <1>3, <1>4 DEF AlongList

(* After a step of its own a slot is not as at first. *)
LEMMA NotAlone ==
  ASSUME CallOK, failed \in [Callers -> SUBSET Features], NEW d \in Callers,
         \/ CallAll(d) \/ CronFires(d) \/ CallStep(d)
         \/ \E f \in Features : CallOne(d, f) \/ CallUnchecked(d, f)
  PROVE  /\ call'[d] # NoCall
         /\ \A c \in Callers \ {d} : call'[c] = call[c] /\ failed'[c] = failed[c]
<1>1. ASSUME NEW kind \in {"all", "cron", "one"}, NEW todo, NEW at, Starts(d, kind, todo, at)
      PROVE  /\ call'[d] # NoCall
             /\ \A c \in Callers \ {d} : call'[c] = call[c] /\ failed'[c] = failed[c]
  <2>1. call'[d].kind = kind
    BY <1>1 DEF Starts, CallOK
  <2>2. NoCall.kind = "none"
    BY DEF NoCall
  <2>3. \A c \in Callers \ {d} : call'[c] = call[c] /\ failed'[c] = failed[c]
    BY <1>1 DEF Starts, CallOK
  <2>. QED
    BY <1>1, <2>1, <2>2, <2>3
<1>2. CASE HealthCheckPasses(d)
  <2>1. call'[d].at = "handling" /\ NoCall.at = "idle"
    BY <1>2 DEF HealthCheckPasses, CallOK, Call, NoCall
  <2>. QED
    BY <1>2, <2>1 DEF HealthCheckPasses, CallOK
<1>3. CASE HealthCheckFails(d)
  <2>1. call'[d].reply = "failed" /\ NoCall.reply = "none"
    BY <1>3 DEF HealthCheckFails, CallOK, Call, NoCall
  <2>. QED
    BY <1>3, <2>1 DEF HealthCheckFails, CallOK
<1>4. CASE FeatureSucceeds(d) \/ FeatureFails(d)
  <2>1. call' = [call EXCEPT ![d] = Advanced(call[d])] /\ call[d] \in Call
    BY <1>4 DEF FeatureSucceeds, FeatureFails, CallOK
  <2>2. Advanced(call[d]).at = "health" \/ Advanced(call[d]).reply = "done"
    BY <2>1 DEF Advanced, Call
  <2>3. NoCall.at = "idle" /\ NoCall.reply = "none"
    BY DEF NoCall
  <2>4. call'[d] # NoCall
    BY <2>1, <2>2, <2>3 DEF CallOK
  <2>. QED
    BY <1>4, <2>1, <2>4 DEF FeatureSucceeds, FeatureFails, CallOK
<1>5. CASE CallAll(d) \/ CronFires(d)
  BY <1>1, <1>5 DEF CallAll, CronFires
<1>6. ASSUME NEW f \in Features, CallOne(d, f) \/ CallUnchecked(d, f)
      PROVE  /\ call'[d] # NoCall
             /\ \A c \in Callers \ {d} : call'[c] = call[c] /\ failed'[c] = failed[c]
  BY <1>1, <1>6 DEF CallOne, CallUnchecked
<1>. QED
  BY <1>2, <1>3, <1>4, <1>5, <1>6 DEF CallStep

LEMMA InitAllInvNext ==
  ASSUME TypeOK, InitAllInv, [Next]_initVars
  PROVE  InitAllInv'
<1>0. CallOK /\ Storage!StorageTypeOK /\ failed \in [Callers -> SUBSET Features]
  BY DEF TypeOK, CallOK
<1> SUFFICES ASSUME NEW c \in Callers, call'[c].kind = "all", ~CutShort(c)'
             PROVE  AlongList(c)'
  BY DEF InitAllInv
(* A step of another call: c is not alone after it. *)
<1>1. ASSUME NEW d \in Callers \ {c},
             \/ CallAll(d) \/ CronFires(d) \/ CallStep(d)
             \/ \E f \in Features : CallOne(d, f) \/ CallUnchecked(d, f)
      PROVE  AlongList(c)'
  <2>1. call'[d] # NoCall /\ call'[c] = call[c] /\ failed'[c] = failed[c]
    BY <1>0, <1>1, NotAlone
  <2>2. ~Lone(c)'
    BY <1>1, <2>1 DEF Lone
  <2>3. AlongList(c)
    BY <2>1 DEF InitAllInv, CutShort
  <2>. QED
    BY <2>1, <2>2, <2>3, OthersKeepAlong
(* Its own steps. *)
<1>2. CASE CallAll(c)
  BY <1>0, <1>2, StartAlong
<1>3. ASSUME CronFires(c) \/ \E f \in Features : CallOne(c, f) \/ CallUnchecked(c, f)
      PROVE  FALSE
  BY <1>0, <1>3 DEF CronFires, CallOne, CallUnchecked, Starts, CallOK
<1>4. CASE HealthCheckPasses(c)
  <2>1. call'[c].kind = call[c].kind /\ call[c].at = "health"
    BY <1>0, <1>4 DEF HealthCheckPasses, CallOK, Call
  <2>2. AlongList(c)
    BY <2>1 DEF InitAllInv, CutShort
  <2>. QED
    BY <1>0, <1>4, <2>2, CheckAlong
<1>5. ASSUME HealthCheckFails(c)
      PROVE  FALSE
  BY <1>0, <1>5 DEF HealthCheckFails, CallOK, Call, CutShort
<1>6. CASE FeatureSucceeds(c) \/ FeatureFails(c)
  <2>1. call'[c] = Advanced(call[c]) /\ call[c] \in Call
    BY <1>0, <1>6 DEF FeatureSucceeds, FeatureFails, CallOK
  <2>2. call[c].kind = "all" /\ call[c].at = "handling"
    BY <1>0, <1>6, <2>1 DEF Advanced, Call, FeatureSucceeds, FeatureFails, Handling
  <2>3. AlongList(c)
    BY <2>2 DEF InitAllInv, CutShort
  <2>. QED
    BY <1>0, <1>6, <2>3, AdvanceAlong
(* Steps of no call. *)
<1>7. ASSUME call' = call, failed' = failed, internalState' = internalState, reported' = reported
      PROVE  AlongList(c)'
  <2>1. AlongList(c) /\ (Lone(c)' => Lone(c))
    BY <1>7 DEF InitAllInv, Lone, CutShort
  <2>. QED
    BY <1>7, <2>1, OthersKeepAlong
<1>8. ASSUME NEW s \in Persisted, Load(s)
      PROVE  AlongList(c)'
  <2>1. AlongList(c) /\ (Lone(c)' => Lone(c))
    BY <1>8 DEF Load, InitAllInv, Lone, CutShort
  <2>2. ASSUME NEW t \in States
        PROVE  \/ /\ internalState'[t] = internalState[t]
                  /\ t \in reported' => t \in reported
               \/ t \in Persisted \ reported'
    <3>1. internalState' = [internalState EXCEPT ![s] = Storage!Parsed(disk[s], internalState[s])]
      BY <1>8 DEF Load, Storage!LoadStateFromDisk
    <3>2. CASE t = s /\ Storage!Readable(disk[s])
      BY <1>8, <3>2 DEF Load
    <3>3. CASE ~(t = s /\ Storage!Readable(disk[s]))
      BY <1>0, <1>8, <3>1, <3>3 DEF Load, Storage!Parsed, Storage!StorageTypeOK
    <3>. QED
      BY <3>2, <3>3
  <2>. QED
    BY <1>8, <2>1, <2>2, OthersKeepAlong DEF Load
<1>9. ASSUME ProcessEnds
      PROVE  FALSE
  BY <1>9 DEF ProcessEnds, NoCall
<1>10. CASE SetupCron \/ StopCron \/ Boot \/ UNCHANGED initVars
  BY <1>7, <1>10 DEF SetupCron, StopCron, Boot, Storage!Boot, initVars, storeVars
<1>11. ASSUME NEW s \in Persisted, FileOperation(s)
       PROVE  AlongList(c)'
  BY <1>7, <1>11 DEF FileOperation, Storage!ReadFails, Storage!AttachListener, Storage!OpenFile, Storage!WriteText
<1>12. ASSUME NEW d \in Callers, CallAll(d) \/ CronFires(d) \/ CallStep(d)
       PROVE  AlongList(c)'
  BY <1>1, <1>2, <1>3, <1>4, <1>5, <1>6, <1>12 DEF CallStep
<1>13. ASSUME NEW d \in Callers, NEW f \in Features, CallOne(d, f) \/ CallUnchecked(d, f)
       PROVE  AlongList(c)'
  BY <1>1, <1>3, <1>13
<1>. QED
  BY <1>8, <1>9, <1>10, <1>11, <1>12, <1>13 DEF Next

(* A call of initAll goes through its list from the first feature to the    *)
(* last, and while it is alone every feature it has taken shows what became *)
(* of it: the strengthening is an invariant.                                *)
THEOREM InitAllAlongList == Spec => []InitAllInv
<1>1. Init => InitAllInv
  BY DEF Init, InitAllInv, NoCall
<1>. QED
  BY <1>1, TypeCorrect, InitAllInvNext, PTL DEF Spec

(* Of a call of initAll that was alone in its process and is answered       *)
(* 'done', every feature of the list shows ERROR if it failed and DONE if   *)
(* not, for any list of features with states of their own.                  *)
THEOREM LoneInitAllReports == Spec => []LoneInitAllReportsEach
<1>1. TypeOK /\ InitAllInv => LoneInitAllReportsEach
  <2> SUFFICES ASSUME TypeOK, InitAllInv, NEW c \in Callers,
                      call[c].kind = "all", call[c].reply = "done", Lone(c),
                      NEW i \in 1..Len(InitAllOrder)
               PROVE  ShowsOutcome(c, InitAllOrder[i])
    BY DEF LoneInitAllReportsEach
  <2>1. AlongList(c)
    BY DEF InitAllInv, CutShort
  <2>2. call[c].todo = <<>>
    BY <2>1 DEF AlongList
  <2>3. Taken(c) = Len(InitAllOrder)
    BY <2>2, InitAssumption DEF Taken
  <2>. QED
    BY <2>1, <2>3 DEF AlongList
<1>. QED
  BY <1>1, TypeCorrect, InitAllAlongList, PTL

===============================================================================
