---------------------------- MODULE JobLifecycle ----------------------------
(***************************************************************************)
(* What the Job Registry promises about one job to whoever watches it: the *)
(* life of a job id, from the only time it is admitted to the time its     *)
(* terminal record leaves.  Nothing is said of revisions, catalogs,        *)
(* workers or capacity; JobRegistry is shown to implement this.            *)
(***************************************************************************)
EXTENDS Integers

CONSTANT Job

VARIABLES
  status,  \* the status of every job id, "absent" when it names no job
  spent    \* ids that were handed out, and never are again

Ended == {j \in Job : status[j] \in {"completed", "failed", "cancelled"}}

Init == status = [j \in Job |-> "absent"] /\ spent = {}

Become(j, s) == status' = [status EXCEPT ![j] = s] /\ UNCHANGED spent

\* A request takes a new id and may push out jobs that have ended. It becomes
\* a queued job, or is refused.
Request(j, gone, s) ==
  /\ j \notin spent
  /\ gone \subseteq Ended
  /\ spent' = spent \cup {j}
  /\ status' = [i \in Job |-> IF i = j THEN s
                              ELSE IF i \in gone THEN "absent" ELSE status[i]]

Start(j)  == status[j] = "queued" /\ Become(j, "running")
Pause(j)  == status[j] \in {"queued", "running"} /\ Become(j, "paused")
Resume(j) == status[j] = "paused" /\ \E s \in {"queued", "running"} : Become(j, s)
Cancel(j) == status[j] \in {"queued", "running", "paused"} /\ Become(j, "cancelling")

\* Work ends as it may, but a job asked to cancel ends cancelled.
End(j) ==
  \/ /\ status[j] \in {"queued", "running", "paused"}
     /\ \E s \in {"completed", "failed", "cancelled"} : Become(j, s)
  \/ status[j] = "cancelling" /\ Become(j, "cancelled")

Dismiss(j) == j \in Ended /\ Become(j, "absent")

Next ==
  \E j \in Job :
    \/ \E gone \in SUBSET Job, s \in {"queued", "absent"} : Request(j, gone, s)
    \/ Start(j) \/ Pause(j) \/ Resume(j) \/ Cancel(j) \/ End(j) \/ Dismiss(j)

Spec == Init /\ [][Next]_<<status, spent>>
=============================================================================
