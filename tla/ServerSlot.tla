------------------------------ MODULE ServerSlot ------------------------------
(***************************************************************************)
(* What Runtime promises of the servers its Starts make (Start and Stop of *)
(* src/hubruntime/runtime.go), whichever goroutines call: there is a slot  *)
(* for one server; a server enters it once at most, when it is empty, and  *)
(* runs as long as it is there; every server is started and stopped once.  *)
(***************************************************************************)

CONSTANTS Servers, \* the servers that may be made
          None     \* no server

VARIABLES slot,   \* the published server
          entered, \* the servers that have been published
          state    \* of each server

slotVars == <<slot, entered, state>>

Init ==
  /\ slot = None /\ entered = {}
  /\ state = [s \in Servers |-> "none"]

\* A Start starts its server before anybody knows of it.
Launch(s) ==
  /\ state[s] = "none" /\ state' = [state EXCEPT ![s] = "running"]
  /\ UNCHANGED <<slot, entered>>

\* A Start succeeds.
Enter(s) ==
  /\ slot = None /\ state[s] = "running" /\ s \notin entered
  /\ slot' = s /\ entered' = entered \cup {s}
  /\ UNCHANGED state

\* A Stop takes the server.
Leave ==
  /\ slot # None /\ slot' = None
  /\ UNCHANGED <<entered, state>>

\* A server that was taken, or came too late, is stopped.
Shut(s) ==
  /\ slot # s /\ state[s] = "running"
  /\ state' = [state EXCEPT ![s] = "stopped"]
  /\ UNCHANGED <<slot, entered>>

Next == (\E s \in Servers : Launch(s) \/ Enter(s) \/ Shut(s)) \/ Leave

Spec == Init /\ [][Next]_slotVars

=============================================================================
