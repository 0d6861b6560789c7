------------------------------ MODULE StatusCell ------------------------------
(***************************************************************************)
(* What the state manager promises of the status of a feature: an          *)
(* observable value, and one saved value that a restarted process may take *)
(* it back from.  Nothing is said of files, listeners or overlapping       *)
(* writes: the saved value only ever changes while reported values are     *)
(* still being saved, and then only to one of those or to nothing.         *)
(*                                                                         *)
(* StateStorage implements this specification (StateStorage!Cell).         *)
(***************************************************************************)
CONSTANTS
  States,     \* names of the application states
  Statuses,   \* values a state can be updated to
  Undefined,  \* no value
  Default     \* value of each state in a new process

VARIABLES
  value,      \* value[s]: what a reader of the state gets
  saved,      \* saved[s]: what a restart would take back, Undefined for nothing
  pending     \* pending[s]: the reported values that are still being saved

cellVars == <<value, saved, pending>>

CellInit ==
  /\ value = Default
  /\ saved = [s \in States |-> Undefined]
  /\ pending = [s \in States |-> {}]

(* A feature reports v.  Its saving starts, unless nobody listens. *)
Report(s, v) ==
  /\ value' = [value EXCEPT ![s] = v]
  /\ pending' \in {pending, [pending EXCEPT ![s] = @ \cup {v}]}
  /\ UNCHANGED saved

(* A pending save makes progress: it blanks the saved value, or sets it, or *)
(* ends; a value that cannot be read back counts as nothing.                *)
Save(s, v) ==
  /\ v \in pending[s]
  /\ saved' \in {[saved EXCEPT ![s] = v], [saved EXCEPT ![s] = Undefined]}
  /\ pending' \in {pending, [pending EXCEPT ![s] = @ \ {v}]}
  /\ UNCHANGED value

(* A new process takes the saved value back. *)
Restore(s) ==
  /\ saved[s] # Undefined
  /\ value' = [value EXCEPT ![s] = saved[s]]
  /\ UNCHANGED <<saved, pending>>

(* The process ends: the values and the unfinished saves go with it. *)
Restart ==
  /\ value' = Default
  /\ pending' = [s \in States |-> {}]
  /\ UNCHANGED saved

CellNext ==
  \/ \E s \in States : \E v \in Statuses : Report(s, v) \/ Save(s, v)
  \/ \E s \in States : Restore(s)
  \/ Restart

CellSpec == CellInit /\ [][CellNext]_cellVars
===============================================================================
