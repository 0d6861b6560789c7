----------------------------- MODULE StateStorage -----------------------------
(***************************************************************************)
(* The state manager: AppBaseState objects, each with an internal value    *)
(* and an 'updated' event, and StateStorageService, which registers some   *)
(* of them at start-up (addState), loads each from its own file and then   *)
(* listens to 'updated' to write the file again.                           *)
(*                                                                         *)
(* One Node.js process runs the code, so an action here is a stretch of    *)
(* code between two awaits.  File operations run on the thread pool:       *)
(* writeFile is an open that truncates, and then a write; the operations   *)
(* of two writeFile calls on one file may take effect in any order.  The   *)
(* process may end at any point; the files stay.                           *)
(*                                                                         *)
(* A file's text is the JSON text of one value, possibly followed by the   *)
(* tail of a longer one it was written over: [head, size].  Such a text    *)
(* does not parse, nor does an empty one.  A missing file, an empty one    *)
(* and one that never existed behave alike (readStateFile or JSON.parse    *)
(* throws) and are all Blank.                                              *)
(***************************************************************************)
EXTENDS Naturals

CONSTANTS
  States,     \* names of the AppBaseState objects
  Persisted,  \* those passed to addState at start-up
  Statuses,   \* values update() is called with
  Undefined,  \* JavaScript's undefined
  Default,    \* internalState of each object in a new process
  Size,       \* length of the JSON text of each status
  Ops         \* slots for writeFile calls in flight, per state (a bound)

ASSUME StorageAssumption ==
  /\ Persisted \subseteq States
  /\ Undefined \notin Statuses
  /\ Default \in [States -> Statuses \cup {Undefined}]
  /\ Size \in [Statuses -> Nat \ {0}]

VARIABLES
  up,             \* the process runs
  internalState,  \* AppBaseState.internalState; Default while the process is down
  phase,          \* progress of addState, "off" for an object that is not registered
  disk,           \* text of each state's file
  writes,         \* writeFile calls in flight
  (* history variables, read by the properties only *)
  missed,         \* the last update went unheard, or the file could not be read
  raced,          \* the last write was started while another was in flight
  kept            \* {v} if the process ended with v settled on disk, else {}

storageVars == <<up, internalState, phase, disk, writes, missed, raced, kept>>

Phase == {"off", "reading", "loaded", "attached"}

Value == Statuses \cup {Undefined}
Text  == [head : Value, size : Nat]
Blank == [head |-> Undefined, size |-> 0]

NoWrite == [at |-> "idle", text |-> Undefined]
Write   == {NoWrite} \cup [at : {"called", "truncated"}, text : Statuses]

Readable(t) == t.head \in Statuses /\ t.size = Size[t.head]

(* JSON.parse of a file's text, or fallback where it throws. *)
Parsed(t, fallback) == IF Readable(t) THEN t.head ELSE fallback

(* A write of v's text from offset 0 over text t. *)
Overlay(v, t) ==
  [head |-> v, size |-> IF Size[v] >= t.size THEN Size[v] ELSE t.size]

Idle(s) == \A o \in Ops : writes[s][o].at = "idle"

(* Nothing is on its way to or from s's file, and every report was heard. *)
Settled(s) ==
  /\ phase[s] = "attached"
  /\ Idle(s)
  /\ ~missed[s] /\ ~raced[s]

-------------------------------------------------------------------------------
StorageInit ==
  /\ up = FALSE
  /\ internalState = Default
  /\ phase = [s \in States |-> "off"]
  /\ disk = [s \in States |-> Blank]
  /\ writes = [s \in States |-> [o \in Ops |-> NoWrite]]
  /\ missed = [s \in States |-> FALSE]
  /\ raced = [s \in States |-> FALSE]
  /\ kept = [s \in States |-> {}]

(* Mutant: addState listens at once and never loads. *)
BootWithoutLoading ==
  /\ ~up
  /\ up' = TRUE
  /\ phase' = [s \in States |-> IF s \in Persisted THEN "attached" ELSE "off"]
  /\ UNCHANGED <<internalState, disk, writes, missed, raced, kept>>

(* A new process: onModuleInit creates the directory and calls addState for *)
(* every persisted state without awaiting it; each is in the Map at once    *)
(* and its file is being read.                                              *)
Boot ==
  /\ ~up
  /\ up' = TRUE
  /\ phase' = [s \in States |-> IF s \in Persisted THEN "reading" ELSE "off"]
  /\ UNCHANGED <<internalState, disk, writes, missed, raced, kept>>

(* Mutant: the text is read but not taken over. *)
LoadWithoutDeserialize(s) ==
  /\ up
  /\ phase[s] = "reading"
  /\ phase' = [phase EXCEPT ![s] = "loaded"]
  /\ UNCHANGED <<up, internalState, disk, writes, missed, raced, kept>>

(* readStateFile returns and deserializeState overwrites the value, whatever *)
(* was reported meanwhile; a text that does not parse changes nothing.       *)
LoadStateFromDisk(s) ==
  /\ up
  /\ phase[s] = "reading"
  /\ internalState' = [internalState EXCEPT ![s] = Parsed(disk[s], @)]
  /\ phase' = [phase EXCEPT ![s] = "loaded"]
  /\ UNCHANGED <<up, disk, writes, missed, raced, kept>>

(* readFile itself fails on a file that is there; the error is swallowed. *)
ReadFails(s) ==
  /\ up
  /\ phase[s] = "reading"
  /\ phase' = [phase EXCEPT ![s] = "loaded"]
  /\ missed' = [missed EXCEPT ![s] = TRUE]
  /\ UNCHANGED <<up, internalState, disk, writes, raced, kept>>

(* addState goes on after its await: only now updates are listened to. *)
AttachListener(s) ==
  /\ up
  /\ phase[s] = "loaded"
  /\ phase' = [phase EXCEPT ![s] = "attached"]
  /\ UNCHANGED <<up, internalState, disk, writes, missed, raced, kept>>

(* AppBaseState.update: the value changes and 'updated' is emitted in the   *)
(* same turn; a listener serialises the value and calls writeFile, which    *)
(* needs a free slot in Ops.                                                *)
Update(s, v) ==
  /\ up
  /\ internalState' = [internalState EXCEPT ![s] = v]
  /\ \/ /\ phase[s] = "attached"
        /\ \E o \in Ops :
             /\ writes[s][o].at = "idle"
             /\ writes' = [writes EXCEPT ![s][o] = [at |-> "called", text |-> v]]
        /\ missed' = [missed EXCEPT ![s] = FALSE]
        /\ raced' = [raced EXCEPT ![s] = ~Idle(s)]
     \/ /\ phase[s] # "attached"
        /\ missed' = [missed EXCEPT ![s] = TRUE]
        /\ UNCHANGED <<writes, raced>>
  /\ UNCHANGED <<up, phase, disk, kept>>

(* Mutant: the file is opened for writing in place. *)
OpenWithoutTruncating(s, o) ==
  /\ up
  /\ writes[s][o].at = "called"
  /\ writes' = [writes EXCEPT ![s][o].at = "truncated"]
  /\ UNCHANGED <<up, internalState, phase, disk, missed, raced, kept>>

(* writeFile's open: the file is created, or truncated. *)
OpenFile(s, o) ==
  /\ up
  /\ writes[s][o].at = "called"
  /\ disk' = [disk EXCEPT ![s] = Blank]
  /\ writes' = [writes EXCEPT ![s][o].at = "truncated"]
  /\ UNCHANGED <<up, internalState, phase, missed, raced, kept>>

(* Mutant: the value is serialised when the file is open. *)
WriteLateText(s, o) ==
  /\ up
  /\ writes[s][o].at = "truncated"
  /\ disk' = [disk EXCEPT ![s] = Overlay(internalState[s], @)]
  /\ writes' = [writes EXCEPT ![s][o] = NoWrite]
  /\ UNCHANGED <<up, internalState, phase, missed, raced, kept>>

(* Mutant: an empty text is written. *)
WriteNothing(s, o) ==
  /\ up
  /\ writes[s][o].at = "truncated"
  /\ writes' = [writes EXCEPT ![s][o] = NoWrite]
  /\ UNCHANGED <<up, internalState, phase, disk, missed, raced, kept>>

(* writeFile's write from the start of the file, its close, and             *)
(* onStateWritten.                                                          *)
WriteText(s, o) ==
  /\ up
  /\ writes[s][o].at = "truncated"
  /\ disk' = [disk EXCEPT ![s] = Overlay(writes[s][o].text, @)]
  /\ writes' = [writes EXCEPT ![s][o] = NoWrite]
  /\ UNCHANGED <<up, internalState, phase, missed, raced, kept>>

(* The process ends, by itself or by the platform.  Its memory and the      *)
(* operations in flight are gone, the files stay as they are.               *)
ProcessEnds ==
  /\ up
  /\ up' = FALSE
  /\ internalState' = Default
  /\ phase' = [s \in States |-> "off"]
  /\ writes' = [s \in States |-> [o \in Ops |-> NoWrite]]
  /\ missed' = [s \in States |-> FALSE]
  /\ raced' = [s \in States |-> FALSE]
  /\ kept' = [s \in States |-> IF Settled(s) THEN {internalState[s]} ELSE {}]
  /\ UNCHANGED disk

(* writeFile rejects: nothing handles the rejection of the listener's       *)
(* promise, so it ends the process.                                         *)
WriteRejected(s, o) ==
  /\ writes[s][o].at # "idle"
  /\ ProcessEnds

-------------------------------------------------------------------------------
FileStep(s) ==
  \/ LoadStateFromDisk(s)
  \/ ReadFails(s)
  \/ AttachListener(s)
  \/ \E o \in Ops : OpenFile(s, o) \/ WriteText(s, o) \/ WriteRejected(s, o)

StorageNext ==
  \/ Boot
  \/ ProcessEnds
  \/ \E s \in States : FileStep(s)
  \/ \E s \in States, v \in Statuses : Update(s, v)

StorageSpec == StorageInit /\ [][StorageNext]_storageVars

(* The thread pool serves every file operation it was given, and the event  *)
(* loop runs what follows it.                                               *)
StorageFairness ==
  \A s \in States :
    /\ WF_storageVars(LoadStateFromDisk(s) \/ ReadFails(s))
    /\ WF_storageVars(AttachListener(s))
    /\ \A o \in Ops : WF_storageVars(OpenFile(s, o)) /\ WF_storageVars(WriteText(s, o))

FairStorageSpec == StorageSpec /\ StorageFairness
-------------------------------------------------------------------------------
StorageTypeOK ==
  /\ up \in BOOLEAN
  /\ internalState \in [States -> Value]
  /\ phase \in [States -> Phase]
  /\ disk \in [States -> Text]
  /\ writes \in [States -> [Ops -> Write]]
  /\ missed \in [States -> BOOLEAN]
  /\ raced \in [States -> BOOLEAN]
  /\ kept \in [States -> SUBSET Value]

(* Whenever a state is settled (listener attached, no write in flight, no   *)
(* update missed during start-up, the last write not overlapping another),  *)
(* a restart at this point takes back exactly the value readers see now:    *)
(* addState, updateState and writeStateFile together keep file and object   *)
(* in agreement.                                                            *)
SettledFileAgrees ==
  \A s \in Persisted :
    Settled(s) => Parsed(disk[s], Default[s]) = internalState[s]

(* loadStateFromDisk after a restart gives a state the value it had when    *)
(* the previous process ended, if that value was settled and no update came *)
(* before the file was read.                                                *)
RestartKeepsSettledValue ==
  [][\A s \in Persisted :
       /\ phase[s] = "reading" /\ phase'[s] = "loaded"
       /\ ~missed'[s]
       => \A v \in kept[s] : internalState'[s] = v]_storageVars

(* A report that was heard while no other write was in flight reaches the   *)
(* disk, unless the process ends or another report takes its place.         *)
HeardReportBecomesDurable ==
  \A s \in Persisted, v \in Statuses :
    (/\ phase[s] = "attached" /\ internalState[s] = v
     /\ ~missed[s] /\ ~raced[s])
    ~> \/ Parsed(disk[s], Default[s]) = v
       \/ ~up \/ raced[s] \/ internalState[s] # v

(* Once every write of a state whose update was announced ("updated and     *)
(* will write to the disk!") has reported 'State written!', its file holds  *)
(* the value in memory.                                                     *)
WrittenMeansOnDisk ==
  \A s \in Persisted :
    phase[s] = "attached" /\ Idle(s) /\ ~missed[s]
    => Parsed(disk[s], Default[s]) = internalState[s]

(* The strengthening that makes SettledFileAgrees inductive.  A state that   *)
(* is not attached has no write in flight; while its file is unread the     *)
(* value is the default, and once it is read the value is what the file     *)
(* says; and from then on there is either agreement or a single write, of   *)
(* the current value, still to come.                                        *)
Unread(s) == phase[s] \in {"off", "reading"}

OneWriteToCome(s) ==
  \E o \in Ops :
    /\ \A p \in Ops \ {o} : writes[s][p].at = "idle"
    /\ writes[s][o].at # "idle"
    /\ writes[s][o].text = internalState[s]
    /\ writes[s][o].at = "truncated" => disk[s] = Blank

StateInv(s) ==
  /\ ~up => phase[s] = "off"
  /\ phase[s] # "attached" => Idle(s) /\ ~raced[s]
  /\ Unread(s) /\ ~missed[s] => internalState[s] = Default[s]
  /\ Unread(s) => \A v \in kept[s] : Parsed(disk[s], Default[s]) = v
  /\ phase[s] = "loaded" /\ ~missed[s]
       => Parsed(disk[s], Default[s]) = internalState[s]
  /\ phase[s] = "attached" /\ ~missed[s] /\ ~raced[s]
       => \/ Idle(s) /\ Parsed(disk[s], Default[s]) = internalState[s]
          \/ OneWriteToCome(s)

StorageIInv ==
  /\ StorageTypeOK
  /\ \A s \in Persisted : StateInv(s)

-------------------------------------------------------------------------------
(* The abstract cell this module implements: a reader sees internalState, a *)
(* restart would parse the file, and the values being saved are the texts   *)
(* of the writes in flight.                                                 *)
SavedOnDisk == [s \in States |-> Parsed(disk[s], Undefined)]

InFlight(s)   == {o \in Ops : writes[s][o].at # "idle"}
BeingSaved    == [s \in States |-> {writes[s][o].text : o \in InFlight(s)}]

Cell == INSTANCE StatusCell WITH
  value   <- internalState,
  saved   <- SavedOnDisk,
  pending <- BeingSaved

(* Overlapping writes, truncated files and restarts never give a reader a   *)
(* value nobody reported, and a file changes only while a reported value is *)
(* being written to it: the storage implements StatusCell.                  *)
CellBehaviour == Cell!CellSpec
===============================================================================
