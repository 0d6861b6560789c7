-------------------------- MODULE StateStorageProofs --------------------------
(***************************************************************************)
(* Proofs about StateStorage, for every set of states, statuses and write  *)
(* slots.                                                                  *)
(***************************************************************************)
EXTENDS StateStorage, TLAPS

(* A step is one of eight actions: WriteRejected is the end of the process. *)
LEMMA StepCases ==
  ASSUME StorageNext
  PROVE  \/ Boot
         \/ ProcessEnds
         \/ \E s \in States : LoadStateFromDisk(s) \/ ReadFails(s) \/ AttachListener(s)
         \/ \E s \in States, o \in Ops : OpenFile(s, o) \/ WriteText(s, o)
         \/ \E s \in States, v \in Statuses : Update(s, v)
  BY DEF StorageNext, FileStep, WriteRejected

(* Reading a file's text gives a value of the right type. *)
LEMMA ParsedType ==
  ASSUME NEW t \in Text, NEW d \in Value
  PROVE  Parsed(t, d) \in Value
  BY DEF Parsed, Readable, Value

(* Writing over an empty file leaves exactly the text written. *)
LEMMA OverlayBlank ==
  ASSUME NEW v \in Statuses, NEW d
  PROVE  Parsed(Overlay(v, Blank), d) = v
  BY StorageAssumption DEF Parsed, Readable, Overlay, Blank

(* An empty file does not parse. *)
LEMMA ParsedBlank ==
  ASSUME NEW d
  PROVE  Parsed(Blank, d) = d
  BY StorageAssumption DEF Parsed, Readable, Blank

-------------------------------------------------------------------------------
LEMMA OverlayType ==
  ASSUME NEW v \in Statuses, NEW t \in Text
  PROVE  Overlay(v, t) \in Text
  BY StorageAssumption DEF Overlay, Text, Value

LEMMA BlankType == Blank \in Text
  BY DEF Blank, Text, Value

LEMMA TypeOKInit == StorageInit => StorageTypeOK
<1> SUFFICES ASSUME StorageInit
             PROVE  StorageTypeOK
  OBVIOUS
<1> USE DEF StorageInit
<1>1. internalState \in [States -> Value]
  BY StorageAssumption DEF Value
<1>2. phase \in [States -> Phase]
  BY DEF Phase
<1>3. disk \in [States -> Text]
  BY BlankType
<1>4. writes \in [States -> [Ops -> Write]]
  BY DEF Write
<1>5. missed \in [States -> BOOLEAN] /\ raced \in [States -> BOOLEAN]
  BY Zenon
<1>6. kept \in [States -> SUBSET Value]
  OBVIOUS
<1>7. QED
  BY <1>1, <1>2, <1>3, <1>4, <1>5, <1>6 DEF StorageTypeOK

LEMMA TypeOKNext ==
  ASSUME StorageTypeOK, [StorageNext]_storageVars
  PROVE  StorageTypeOK'
<1> USE DEF StorageTypeOK
<1>1. CASE Boot
  BY <1>1 DEF Boot, Phase
<1>2. CASE ProcessEnds
  <2>1. writes' \in [States -> [Ops -> Write]]
    BY <1>2 DEF ProcessEnds, Write
  <2>2. missed' \in [States -> BOOLEAN] /\ raced' \in [States -> BOOLEAN]
    BY <1>2, Zenon DEF ProcessEnds
  <2>3. kept' \in [States -> SUBSET Value]
    BY <1>2 DEF ProcessEnds
  <2>4. QED
    BY <1>2, <2>1, <2>2, <2>3, StorageAssumption DEF ProcessEnds, Value, Phase
<1>3. ASSUME NEW s \in States, LoadStateFromDisk(s)
      PROVE  StorageTypeOK'
  <2>1. Parsed(disk[s], internalState[s]) \in Value
    BY ParsedType
  <2>2. QED
    BY <1>3, <2>1 DEF LoadStateFromDisk, Phase
<1>4. ASSUME NEW s \in States, ReadFails(s)
      PROVE  StorageTypeOK'
  BY <1>4 DEF ReadFails, Phase
<1>5. ASSUME NEW s \in States, AttachListener(s)
      PROVE  StorageTypeOK'
  BY <1>5 DEF AttachListener, Phase
<1>6. ASSUME NEW s \in States, NEW o \in Ops, OpenFile(s, o)
      PROVE  StorageTypeOK'
  <2>1. writes[s][o] \in Write /\ writes[s][o].at # "idle"
    BY <1>6 DEF OpenFile
  <2>2. [writes[s][o] EXCEPT !.at = "truncated"] \in Write
    BY <2>1 DEF Write, NoWrite
  <2>3. QED
    BY <1>6, <2>2, BlankType DEF OpenFile
<1>7. ASSUME NEW s \in States, NEW o \in Ops, WriteText(s, o)
      PROVE  StorageTypeOK'
  <2>1. writes[s][o].text \in Statuses
    BY <1>7 DEF WriteText, Write, NoWrite
  <2>2. Overlay(writes[s][o].text, disk[s]) \in Text
    BY <2>1, OverlayType
  <2>3. NoWrite \in Write
    BY DEF Write
  <2>4. QED
    BY <1>7, <2>2, <2>3 DEF WriteText
<1>8. ASSUME NEW s \in States, NEW v \in Statuses, Update(s, v)
      PROVE  StorageTypeOK'
  <2>1. [at |-> "called", text |-> v] \in Write
    BY DEF Write
  <2>2. internalState' \in [States -> Value]
    BY <1>8 DEF Update, Value
  <2>3. CASE phase[s] = "attached"
    <3>1. PICK o \in Ops : writes' = [writes EXCEPT ![s][o] = [at |-> "called", text |-> v]]
      BY <1>8, <2>3 DEF Update
    <3>2. writes' \in [States -> [Ops -> Write]]
      BY <2>1, <3>1
    <3>3. Idle(s) \in BOOLEAN
      BY DEF Idle
    <3>4. missed' \in [States -> BOOLEAN] /\ raced' \in [States -> BOOLEAN]
      BY <1>8, <2>3, <3>3 DEF Update
    <3>5. QED
      BY <1>8, <2>2, <3>2, <3>4 DEF Update
  <2>4. CASE phase[s] # "attached"
    BY <1>8, <2>2, <2>4 DEF Update
  <2>5. QED
    BY <2>3, <2>4
<1>9. CASE UNCHANGED storageVars
  BY <1>9 DEF storageVars
<1>10. QED
  BY <1>1, <1>2, <1>3, <1>4, <1>5, <1>6, <1>7, <1>8, <1>9, StepCases

(* Every reachable state is well typed; in particular a write in flight     *)
(* carries a status, never undefined.                                       *)
THEOREM StorageTypeCorrect == StorageSpec => []StorageTypeOK
<1>1. QED
  BY TypeOKInit, TypeOKNext, PTL DEF StorageSpec
-------------------------------------------------------------------------------
(* A step that leaves everything of a state alone keeps its invariant. *)
LEMMA StateInvFrame ==
  ASSUME NEW s, StateInv(s), UNCHANGED up,
         internalState'[s] = internalState[s], phase'[s] = phase[s],
         disk'[s] = disk[s], writes'[s] = writes[s],
         missed'[s] = missed[s], raced'[s] = raced[s], kept'[s] = kept[s]
  PROVE  StateInv(s)'
  BY DEF StateInv, Idle, Unread, OneWriteToCome

LEMMA IInvInit == StorageInit => StorageIInv
<1> SUFFICES ASSUME StorageInit
             PROVE  StorageIInv
  OBVIOUS
<1>1. StorageTypeOK
  BY TypeOKInit
<1>2. ASSUME NEW s \in Persisted
      PROVE  StateInv(s)
  <2>1. s \in States
    BY StorageAssumption
  <2>2. Idle(s)
    BY <2>1 DEF StorageInit, Idle, NoWrite
  <2>3. QED
    BY <2>1, <2>2 DEF StorageInit, StateInv, Unread
<1>3. QED
  BY <1>1, <1>2 DEF StorageIInv

LEMMA IInvNext ==
  ASSUME StorageIInv, [StorageNext]_storageVars
  PROVE  StorageIInv'
<1>1. StorageTypeOK /\ StorageTypeOK'
  BY TypeOKNext DEF StorageIInv
<1> SUFFICES ASSUME NEW s \in Persisted
             PROVE  StateInv(s)'
  BY <1>1 DEF StorageIInv
<1>2. s \in States /\ StateInv(s)
  BY StorageAssumption DEF StorageIInv
<1> USE <1>1, <1>2
<1>3. CASE Boot
  BY <1>3 DEF Boot, StorageTypeOK, StateInv, Idle, Unread
<1>4. CASE ProcessEnds
  <2>1. Idle(s)' /\ ~raced'[s] /\ phase'[s] = "off"
    BY <1>4 DEF ProcessEnds, Idle, NoWrite
  <2>2. internalState'[s] = Default[s]
    BY <1>4 DEF ProcessEnds
  <2>3. ASSUME NEW v \in kept'[s]
        PROVE  Parsed(disk'[s], Default[s]) = v
    <3>1. Settled(s) /\ v = internalState[s] /\ disk' = disk
      BY <1>4, <2>3 DEF ProcessEnds
    <3>2. ~OneWriteToCome(s)
      BY <3>1 DEF Settled, Idle, OneWriteToCome
    <3>3. QED
      BY <3>1, <3>2 DEF Settled, StateInv
  <2>4. QED
    BY <2>1, <2>2, <2>3 DEF StateInv, Unread
<1>5. ASSUME NEW t \in States, LoadStateFromDisk(t)
      PROVE  StateInv(s)'
  <2>1. CASE t = s
    <3>1. internalState'[s] = Parsed(disk[s], internalState[s]) /\ phase'[s] = "loaded"
      BY <1>5, <2>1 DEF LoadStateFromDisk, StorageTypeOK
    <3>2. ~missed[s] => internalState[s] = Default[s]
      BY <1>5, <2>1 DEF LoadStateFromDisk, StateInv, Unread
    <3>3. Idle(s)' /\ ~raced'[s]
      BY <1>5, <2>1 DEF LoadStateFromDisk, StateInv, Idle
    <3>4. QED
      BY <1>5, <3>1, <3>2, <3>3 DEF LoadStateFromDisk, StateInv, Unread
  <2>2. CASE t # s
    BY <1>5, <2>2, StateInvFrame DEF LoadStateFromDisk, StorageTypeOK
  <2>3. QED
    BY <2>1, <2>2
<1>6. ASSUME NEW t \in States, ReadFails(t)
      PROVE  StateInv(s)'
  <2>1. CASE t = s
    BY <1>6, <2>1 DEF ReadFails, StorageTypeOK, StateInv, Unread, Idle
  <2>2. CASE t # s
    BY <1>6, <2>2, StateInvFrame DEF ReadFails, StorageTypeOK
  <2>3. QED
    BY <2>1, <2>2
<1>7. ASSUME NEW t \in States, AttachListener(t)
      PROVE  StateInv(s)'
  <2>1. CASE t = s
    BY <1>7, <2>1 DEF AttachListener, StorageTypeOK, StateInv, Unread, Idle
  <2>2. CASE t # s
    BY <1>7, <2>2, StateInvFrame DEF AttachListener, StorageTypeOK
  <2>3. QED
    BY <2>1, <2>2
<1>8. ASSUME NEW t \in States, NEW o \in Ops, OpenFile(t, o)
      PROVE  StateInv(s)'
  <2>1. CASE t = s
    <3>1. phase[s] = "attached" /\ ~Idle(s)
      BY <1>8, <2>1 DEF OpenFile, StateInv, Idle
    <3>2. disk'[s] = Blank
      BY <1>8, <2>1 DEF OpenFile, StorageTypeOK
    <3>3. /\ writes'[s][o].at = "truncated"
          /\ writes'[s][o].text = writes[s][o].text
          /\ \A p \in Ops \ {o} : writes'[s][p] = writes[s][p]
      BY <1>8, <2>1 DEF OpenFile, StorageTypeOK, Write, NoWrite
    <3>4. OneWriteToCome(s) => OneWriteToCome(s)'
      BY <1>8, <2>1, <3>2, <3>3 DEF OpenFile, OneWriteToCome
    <3>5. QED
      BY <1>8, <2>1, <3>1, <3>4 DEF OpenFile, StateInv, Unread
  <2>2. CASE t # s
    BY <1>8, <2>2, StateInvFrame DEF OpenFile, StorageTypeOK
  <2>3. QED
    BY <2>1, <2>2
<1>9. ASSUME NEW t \in States, NEW o \in Ops, WriteText(t, o)
      PROVE  StateInv(s)'
  <2>1. CASE t = s
    <3>1. phase[s] = "attached" /\ ~Idle(s)
      BY <1>9, <2>1 DEF WriteText, StateInv, Idle
    <3>2. disk'[s] = Overlay(writes[s][o].text, disk[s])
      BY <1>9, <2>1 DEF WriteText, StorageTypeOK
    <3>3. /\ writes'[s][o].at = "idle"
          /\ \A p \in Ops \ {o} : writes'[s][p] = writes[s][p]
      BY <1>9, <2>1 DEF WriteText, StorageTypeOK, NoWrite
    <3>4. writes[s][o].text \in Statuses
      BY <1>9, <2>1 DEF WriteText, StorageTypeOK, Write, NoWrite
    <3>5. ASSUME OneWriteToCome(s)
          PROVE  Idle(s)' /\ Parsed(disk'[s], Default[s]) = internalState'[s]
      <4>1. /\ \A p \in Ops \ {o} : writes[s][p].at = "idle"
            /\ writes[s][o].text = internalState[s]
            /\ disk[s] = Blank
        BY <1>9, <2>1, <3>5 DEF WriteText, OneWriteToCome
      <4>2. Idle(s)'
        BY <3>3, <4>1 DEF Idle
      <4>3. Parsed(disk'[s], Default[s]) = writes[s][o].text
        BY <3>2, <3>4, <4>1, OverlayBlank
      <4>4. QED
        BY <1>9, <4>1, <4>2, <4>3 DEF WriteText
    <3>6. QED
      BY <1>9, <2>1, <3>1, <3>5 DEF WriteText, StateInv, Unread
  <2>2. CASE t # s
    BY <1>9, <2>2, StateInvFrame DEF WriteText, StorageTypeOK
  <2>3. QED
    BY <2>1, <2>2
<1>10. ASSUME NEW t \in States, NEW v \in Statuses, Update(t, v)
       PROVE  StateInv(s)'
  <2>1. CASE t = s /\ phase[s] = "attached"
    <3>1. PICK o \in Ops : /\ writes[s][o].at = "idle"
                           /\ writes' = [writes EXCEPT ![s][o] = [at |-> "called", text |-> v]]
      BY <1>10, <2>1 DEF Update
    <3>2. /\ writes'[s][o] = [at |-> "called", text |-> v]
          /\ \A p \in Ops \ {o} : writes'[s][p] = writes[s][p]
      BY <3>1 DEF StorageTypeOK
    <3>3. internalState'[s] = v /\ phase' = phase /\ up' = up /\ up /\ raced'[s] = ~Idle(s)
      BY <1>10, <2>1 DEF Update, StorageTypeOK
    <3>4. Idle(s) => OneWriteToCome(s)'
      BY <3>2, <3>3 DEF Idle, OneWriteToCome
    <3>5. QED
      BY <2>1, <3>3, <3>4 DEF StateInv, Unread
  <2>2. CASE t = s /\ phase[s] # "attached"
    BY <1>10, <2>2 DEF Update, StorageTypeOK, StateInv, Unread, Idle
  <2>3. CASE t # s
    BY <1>10, <2>3, StateInvFrame DEF Update, StorageTypeOK
  <2>4. QED
    BY <2>1, <2>2, <2>3
<1>11. CASE UNCHANGED storageVars
  BY <1>11, StateInvFrame DEF storageVars
<1>12. QED
  BY <1>3, <1>4, <1>5, <1>6, <1>7, <1>8, <1>9, <1>10, <1>11, StepCases

(* The strengthening holds in every reachable state. *)
THEOREM StorageInductive == StorageSpec => []StorageIInv
<1>1. QED
  BY IInvInit, IInvNext, PTL DEF StorageSpec

(* A restart of a settled state takes back the value readers see: no        *)
(* interleaving of updates, file operations and restarts breaks the         *)
(* agreement of object and file once the writes have not overlapped.        *)
THEOREM SettledAgreement == StorageSpec => []SettledFileAgrees
<1>1. StorageIInv => SettledFileAgrees
  BY DEF StorageIInv, StateInv, SettledFileAgrees, Settled, Idle, OneWriteToCome
<1>2. QED
  BY <1>1, StorageInductive, PTL

(* A restart hands a settled value on: reading the file changes the value   *)
(* to the one the ended process had, whatever the other states' files and   *)
(* writes did meanwhile.                                                    *)
THEOREM RestartKeeps == StorageSpec => RestartKeepsSettledValue
<1>1. ASSUME StorageIInv, StorageNext
      PROVE  \A s \in Persisted :
               /\ phase[s] = "reading" /\ phase'[s] = "loaded"
               /\ ~missed'[s]
               => \A v \in kept[s] : internalState'[s] = v
  <2> SUFFICES ASSUME NEW s \in Persisted,
                      phase[s] = "reading", phase'[s] = "loaded", ~missed'[s],
                      NEW v \in kept[s]
               PROVE  internalState'[s] = v
    OBVIOUS
  <2>1. s \in States /\ StorageTypeOK /\ StateInv(s)
    BY <1>1, StorageAssumption DEF StorageIInv
  <2>2. LoadStateFromDisk(s)
    <3>1. ~Boot /\ ~ProcessEnds
      BY <2>1 DEF Boot, ProcessEnds, StateInv
    <3>2. \A t \in States : ~AttachListener(t) /\ ~ReadFails(t)
      BY <2>1 DEF AttachListener, ReadFails, StorageTypeOK
    <3>3. \A t \in States : LoadStateFromDisk(t) => t = s
      BY <2>1 DEF LoadStateFromDisk, StorageTypeOK
    <3>4. \A t \in States, o \in Ops : ~OpenFile(t, o) /\ ~WriteText(t, o)
      BY DEF OpenFile, WriteText
    <3>5. \A t \in States, w \in Statuses : ~Update(t, w)
      BY DEF Update
    <3>6. QED
      BY <1>1, <3>1, <3>2, <3>3, <3>4, <3>5, StepCases
  <2>3. internalState'[s] = Parsed(disk[s], internalState[s])
    BY <2>1, <2>2 DEF LoadStateFromDisk, StorageTypeOK
  <2>4. ~missed[s] /\ Parsed(disk[s], Default[s]) = v /\ internalState[s] = Default[s]
    BY <2>1, <2>2 DEF LoadStateFromDisk, StateInv, Unread
  <2>5. QED
    BY <2>3, <2>4
<1>2. QED
  BY <1>1, StorageInductive, PTL DEF StorageSpec, RestartKeepsSettledValue

-------------------------------------------------------------------------------
(* Refinement of StatusCell.                                               *)
LEMMA CellInitialisation == StorageInit => Cell!CellInit
<1> SUFFICES ASSUME StorageInit
             PROVE  Cell!CellInit
  OBVIOUS
<1>1. SavedOnDisk = [s \in States |-> Undefined]
  BY ParsedBlank DEF StorageInit, SavedOnDisk
<1>2. BeingSaved = [s \in States |-> {}]
  BY DEF StorageInit, BeingSaved, InFlight, NoWrite
<1>3. QED
  BY <1>1, <1>2 DEF StorageInit, Cell!CellInit

LEMMA CellStep ==
  ASSUME StorageTypeOK, StorageTypeOK', StorageIInv, [StorageNext]_storageVars
  PROVE  [Cell!CellNext]_(Cell!cellVars)
<1> USE DEF StorageTypeOK
<1> DEFINE Stutter == UNCHANGED <<internalState, SavedOnDisk, BeingSaved>>
<1>0. Stutter => UNCHANGED Cell!cellVars
  BY DEF Cell!cellVars
<1>a. ASSUME NEW s \in States, NEW x
      PROVE  x \in BeingSaved[s]
               <=> \E o \in Ops : writes[s][o].at # "idle" /\ writes[s][o].text = x
  BY DEF BeingSaved, InFlight
<1>b. ASSUME NEW s \in States, NEW x
      PROVE  x \in BeingSaved'[s]
               <=> \E o \in Ops : writes'[s][o].at # "idle" /\ writes'[s][o].text = x
  BY DEF BeingSaved, InFlight
<1>1. CASE Boot
  BY <1>0, <1>1 DEF Boot, SavedOnDisk, BeingSaved, InFlight
<1>2. CASE ProcessEnds
  <2>1. BeingSaved' = [s \in States |-> {}]
    BY <1>2 DEF ProcessEnds, BeingSaved, InFlight, NoWrite
  <2>2. SavedOnDisk' = SavedOnDisk /\ internalState' = Default
    BY <1>2 DEF ProcessEnds, SavedOnDisk
  <2>3. QED
    BY <2>1, <2>2 DEF Cell!Restart, Cell!CellNext
<1>3. ASSUME NEW s \in States, LoadStateFromDisk(s)
      PROVE  [Cell!CellNext]_(Cell!cellVars)
  <2>1. SavedOnDisk' = SavedOnDisk /\ BeingSaved' = BeingSaved
    BY <1>3 DEF LoadStateFromDisk, SavedOnDisk, BeingSaved, InFlight
  <2>2. CASE Readable(disk[s])
    <3>1. SavedOnDisk[s] = disk[s].head /\ disk[s].head \in Statuses
      BY <2>2 DEF SavedOnDisk, Parsed, Readable
    <3>2. SavedOnDisk[s] # Undefined
      BY <3>1, StorageAssumption
    <3>3. internalState' = [internalState EXCEPT ![s] = SavedOnDisk[s]]
      BY <1>3, <2>2, <3>1 DEF LoadStateFromDisk, Parsed
    <3>4. QED
      BY <2>1, <3>2, <3>3 DEF Cell!Restore, Cell!CellNext
  <2>3. CASE ~Readable(disk[s])
    <3>1. internalState' = internalState
      BY <1>3, <2>3 DEF LoadStateFromDisk, Parsed
    <3>2. QED
      BY <1>0, <2>1, <3>1
  <2>4. QED
    BY <2>2, <2>3
<1>4. ASSUME NEW s \in States, ReadFails(s) \/ AttachListener(s)
      PROVE  [Cell!CellNext]_(Cell!cellVars)
  BY <1>0, <1>4 DEF ReadFails, AttachListener, SavedOnDisk, BeingSaved, InFlight
<1>5. ASSUME NEW s \in States, NEW o \in Ops, OpenFile(s, o)
      PROVE  [Cell!CellNext]_(Cell!cellVars)
  <2>1. writes[s][o].at # "idle" /\ writes[s][o].text \in Statuses
    BY <1>5 DEF OpenFile, Write, NoWrite
  <2>2. SavedOnDisk' = [SavedOnDisk EXCEPT ![s] = Undefined]
    BY <1>5, ParsedBlank DEF OpenFile, SavedOnDisk
  <2>3. /\ writes'[s][o].at # "idle" /\ writes'[s][o].text = writes[s][o].text
        /\ \A t \in States, p \in Ops :
             t # s \/ p # o => writes'[t][p] = writes[t][p]
    BY <1>5, <2>1 DEF OpenFile, Write, NoWrite
  <2>4. BeingSaved' = BeingSaved
    <3>1. \A t \in States, p \in Ops :
            /\ writes'[t][p].text = writes[t][p].text
            /\ writes'[t][p].at = "idle" <=> writes[t][p].at = "idle"
      BY <2>1, <2>3
    <3>2. ASSUME NEW t \in States, NEW x
          PROVE  x \in BeingSaved'[t] <=> x \in BeingSaved[t]
      <4>1. (\E p \in Ops : writes'[t][p].at # "idle" /\ writes'[t][p].text = x)
              <=> (\E p \in Ops : writes[t][p].at # "idle" /\ writes[t][p].text = x)
        BY <3>1
      <4>2. QED
        BY <1>a, <1>b, <4>1
    <3>3. \A t \in States : BeingSaved'[t] = BeingSaved[t]
      BY <3>2
    <3>4. QED
      BY <3>3 DEF BeingSaved
  <2>5. writes[s][o].text \in BeingSaved[s]
    BY <2>1 DEF BeingSaved, InFlight
  <2>6. internalState' = internalState
    BY <1>5 DEF OpenFile
  <2>7. Cell!Save(s, writes[s][o].text)
    BY <2>2, <2>4, <2>5, <2>6 DEF Cell!Save
  <2>8. QED
    BY <2>1, <2>7 DEF Cell!CellNext
<1>6. ASSUME NEW s \in States, NEW o \in Ops, WriteText(s, o)
      PROVE  [Cell!CellNext]_(Cell!cellVars)
  <2> DEFINE v == writes[s][o].text
  <2>1. writes[s][o].at # "idle" /\ v \in Statuses
    BY <1>6 DEF WriteText, Write, NoWrite
  <2>2. disk' = [disk EXCEPT ![s] = Overlay(v, disk[s])]
    BY <1>6 DEF WriteText
  <2>3. Parsed(Overlay(v, disk[s]), Undefined) \in {v, Undefined}
    BY DEF Parsed, Overlay
  <2>4. SavedOnDisk' \in {[SavedOnDisk EXCEPT ![s] = v],
                          [SavedOnDisk EXCEPT ![s] = Undefined]}
    BY <2>2, <2>3 DEF SavedOnDisk
  <2>5. /\ writes'[s][o].at = "idle"
        /\ \A t \in States, p \in Ops :
             t # s \/ p # o => writes'[t][p] = writes[t][p]
    BY <1>6 DEF WriteText, NoWrite
  <2>6. \A t \in States : t # s => BeingSaved'[t] = BeingSaved[t]
    BY <2>5 DEF BeingSaved, InFlight
  <2>7. BeingSaved'[s] \in {BeingSaved[s], BeingSaved[s] \ {v}}
    <3>0. \A p \in Ops : IF p = o THEN /\ writes'[s][p].at = "idle"
                                        /\ writes[s][p].at # "idle" /\ writes[s][p].text = v
                                   ELSE writes'[s][p] = writes[s][p]
      BY <2>1, <2>5
    <3>1. CASE \E p \in Ops \ {o} : writes[s][p].at # "idle" /\ writes[s][p].text = v
      <4>1. ASSUME NEW x
            PROVE  x \in BeingSaved'[s] <=> x \in BeingSaved[s]
        <5>1. CASE x = v
          <6>1. x \in BeingSaved[s]
            BY <1>a, <3>1, <5>1
          <6>2. \E p \in Ops : writes'[s][p].at # "idle" /\ writes'[s][p].text = x
            BY <3>0, <3>1, <5>1
          <6>3. QED
            BY <1>b, <6>1, <6>2
        <5>2. CASE x # v
          <6>1. (\E p \in Ops : writes'[s][p].at # "idle" /\ writes'[s][p].text = x)
                  <=> (\E p \in Ops : writes[s][p].at # "idle" /\ writes[s][p].text = x)
            BY <3>0, <5>2
          <6>2. QED
            BY <1>a, <1>b, <6>1
        <5>3. QED
          BY <5>1, <5>2
      <4>2. QED
        BY <4>1 DEF BeingSaved
    <3>2. CASE ~ \E p \in Ops \ {o} : writes[s][p].at # "idle" /\ writes[s][p].text = v
      <4>1. ASSUME NEW x
            PROVE  x \in BeingSaved'[s] <=> x \in BeingSaved[s] /\ x # v
        <5>1. (\E p \in Ops : writes'[s][p].at # "idle" /\ writes'[s][p].text = x)
                <=> /\ \E p \in Ops : writes[s][p].at # "idle" /\ writes[s][p].text = x
                    /\ x # v
          BY <2>1, <2>5, <3>0, <3>2
        <5>2. QED
          BY <1>a, <1>b, <5>1
      <4>2. QED
        BY <4>1 DEF BeingSaved
    <3>3. QED
      BY <3>1, <3>2
  <2>8. BeingSaved' \in {BeingSaved, [BeingSaved EXCEPT ![s] = @ \ {v}]}
    <3>1. DOMAIN BeingSaved' = States /\ DOMAIN BeingSaved = States
      BY DEF BeingSaved
    <3>2. BeingSaved = [t \in States |-> BeingSaved[t]]
      BY DEF BeingSaved
    <3>3. BeingSaved' = [t \in States |-> BeingSaved'[t]]
      BY DEF BeingSaved
    <3>4. QED
      BY <2>6, <2>7, <3>2, <3>3
  <2>9. v \in BeingSaved[s]
    BY <2>1 DEF BeingSaved, InFlight
  <2>10. internalState' = internalState
    BY <1>6 DEF WriteText
  <2>11. Cell!Save(s, v)
    BY <2>4, <2>8, <2>9, <2>10 DEF Cell!Save
  <2>12. QED
    BY <2>1, <2>11 DEF Cell!CellNext
<1>7. ASSUME NEW s \in States, NEW v \in Statuses, Update(s, v)
      PROVE  [Cell!CellNext]_(Cell!cellVars)
  <2>1. SavedOnDisk' = SavedOnDisk /\ internalState' = [internalState EXCEPT ![s] = v]
    BY <1>7 DEF Update, SavedOnDisk
  <2>2. BeingSaved' \in {BeingSaved, [BeingSaved EXCEPT ![s] = @ \cup {v}]}
    <3>1. CASE phase[s] # "attached"
      BY <1>7, <3>1 DEF Update, BeingSaved, InFlight
    <3>2. CASE phase[s] = "attached"
      <4>1. PICK o \in Ops : /\ writes[s][o].at = "idle"
                             /\ writes' = [writes EXCEPT ![s][o] = [at |-> "called", text |-> v]]
        BY <1>7, <3>2 DEF Update
      <4>2. /\ writes'[s][o] = [at |-> "called", text |-> v]
            /\ \A t \in States, p \in Ops :
                 t # s \/ p # o => writes'[t][p] = writes[t][p]
        BY <4>1
      <4>3. \A t \in States : t # s => BeingSaved'[t] = BeingSaved[t]
        BY <4>2 DEF BeingSaved, InFlight
      <4>4. \A x : x \in BeingSaved'[s] <=> x \in BeingSaved[s] \/ x = v
        BY <1>a, <1>b, <4>1, <4>2
      <4>5. BeingSaved'[s] = BeingSaved[s] \cup {v}
        BY <4>4
      <4>7. BeingSaved' = [t \in States |-> BeingSaved'[t]]
        BY DEF BeingSaved
      <4>8. [BeingSaved EXCEPT ![s] = @ \cup {v}]
             = [t \in States |-> IF t = s THEN BeingSaved[s] \cup {v} ELSE BeingSaved[t]]
        BY DEF BeingSaved
      <4>9. QED
        BY <4>3, <4>5, <4>7, <4>8
    <3>3. QED
      BY <3>1, <3>2
  <2>3. Cell!Report(s, v)
    BY <2>1, <2>2 DEF Cell!Report
  <2>4. QED
    BY <2>3 DEF Cell!CellNext
<1>8. CASE UNCHANGED storageVars
  BY <1>0, <1>8 DEF storageVars, SavedOnDisk, BeingSaved, InFlight
<1>9. QED
  BY <1>1, <1>2, <1>3, <1>4, <1>5, <1>6, <1>7, <1>8, StepCases

(* StateStorage implements StatusCell: whatever overlaps, fails or restarts, *)
(* readers only ever see the default or a value somebody reported, and the   *)
(* saved value changes only while a reported value is being written.         *)
THEOREM StorageImplementsCell == StorageSpec => CellBehaviour
<1>1. StorageInit => Cell!CellInit
  BY CellInitialisation
<1>2. StorageTypeOK /\ StorageTypeOK' /\ StorageIInv /\ [StorageNext]_storageVars
        => [Cell!CellNext]_(Cell!cellVars)
  BY CellStep
<1>3. QED
  BY <1>1, <1>2, StorageTypeCorrect, StorageInductive, PTL
  DEF StorageSpec, CellBehaviour, Cell!CellSpec
===============================================================================
