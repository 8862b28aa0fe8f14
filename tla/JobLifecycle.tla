---------------------------- MODULE JobLifecycle ----------------------------
(***************************************************************************)
(* What the memory-job queue promises about one completed task, without    *)
(* files, leases or processes: its job is accepted once and settled once.  *)
(* No crash loses an accepted job and no retry settles it twice.           *)
(***************************************************************************)
CONSTANT Task

VARIABLE status

Init == status = [t \in Task |-> "none"]

Move(t, from, to) ==
  /\ status[t] = from
  /\ status' = [status EXCEPT ![t] = to]

Accept(t) == Move(t, "none", "open")
Finish(t) == Move(t, "open", "completed")
GiveUp(t) == Move(t, "open", "failed")

Next == \E t \in Task : Accept(t) \/ Finish(t) \/ GiveUp(t)

Spec == Init /\ [][Next]_status

TypeOK == status \in [Task -> {"none", "open", "completed", "failed"}]
=============================================================================
