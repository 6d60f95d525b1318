----------------------------- MODULE ConfigStore -----------------------------
(***************************************************************************)
(* What SetPersistent promises (src/hubruntime/layered_config.go:109): a   *)
(* value goes to the stored map first and to the view in memory second, a  *)
(* key at a time and all or nothing, so that a restart finds every value   *)
(* the view ever showed.                                                   *)
(***************************************************************************)
CONSTANTS Keys, Values, Absent

VARIABLES stored,   \* the map a restart will find
          view,     \* the persistent layer in memory
          running   \* whether there is a process to have a view

vars == <<stored, view, running>>

Maps == [Keys -> Values \cup {Absent}]

Init == stored \in Maps /\ view = stored /\ running = TRUE

\* One key is stored; the write before it has reached the view.
Persist(k, v) ==
  /\ running /\ view = stored
  /\ stored' = [stored EXCEPT ![k] = v]
  /\ UNCHANGED <<view, running>>

Acknowledge ==
  /\ running /\ view # stored
  /\ view' = stored
  /\ UNCHANGED <<stored, running>>

Crash ==
  /\ running /\ running' = FALSE
  /\ view' = [k \in Keys |-> Absent]
  /\ UNCHANGED stored

Restart ==
  /\ ~running /\ running' = TRUE
  /\ view' = stored
  /\ UNCHANGED stored

Next == \/ \E k \in Keys, v \in Values : Persist(k, v)
        \/ Acknowledge \/ Crash \/ Restart

Spec == Init /\ [][Next]_vars
=============================================================================
