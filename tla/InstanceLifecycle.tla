-------------------------- MODULE InstanceLifecycle -------------------------
(***************************************************************************)
(* What the driver layer promises about liberasurecode instances, whatever *)
(* the threads do: every driver has an instance of its own, which lives    *)
(* until this driver is closed or dropped and never comes back, and its    *)
(* memory goes after it.  One driver's life never depends on another's.    *)
(***************************************************************************)
CONSTANT Drivers

VARIABLES
  phase,    \* [Drivers -> Phases]
  closed    \* [Drivers -> BOOLEAN] somebody has asked to close the driver

Phases == {"unborn", "live", "destroyed", "freed"}

Init ==
  /\ phase  = [d \in Drivers |-> "unborn"]
  /\ closed = [d \in Drivers |-> FALSE]

Open(d) ==
  /\ phase[d] = "unborn"
  /\ phase' = [phase EXCEPT ![d] = "live"]
  /\ UNCHANGED closed

AskClose(d) ==
  /\ phase[d] # "unborn"
  /\ closed' = [closed EXCEPT ![d] = TRUE]
  /\ UNCHANGED phase

\* The instance goes, and the memory with it when no call is using it.
Destroy(d) ==
  /\ phase[d] = "live" /\ closed[d]
  /\ phase' = [phase EXCEPT ![d] = "destroyed"]
  /\ UNCHANGED closed

Free(d) ==
  /\ phase[d] = "destroyed"
  /\ phase' = [phase EXCEPT ![d] = "freed"]
  /\ UNCHANGED closed

\* A driver that was dropped, closed or not, takes its instance with it.
Collect(d) ==
  /\ phase[d] = "live"
  /\ phase' = [phase EXCEPT ![d] = "freed"]
  /\ UNCHANGED closed

Next == \E d \in Drivers : Open(d) \/ AskClose(d) \/ Destroy(d) \/ Free(d) \/ Collect(d)

Spec == Init /\ [][Next]_<<phase, closed>>
=============================================================================
