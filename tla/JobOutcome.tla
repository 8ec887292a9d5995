----------------------------- MODULE JobOutcome -----------------------------
(***************************************************************************)
(* What the workbench promises about one solver job, whatever happens to   *)
(* the worker, the service process and the disk: an accepted job gets at   *)
(* most one outcome, which never changes, and from then on its candidate   *)
(* archive is published for good exactly when the outcome is "completed".  *)
(* Before that an archive may come and go: nobody may rely on it yet.      *)
(***************************************************************************)
CONSTANT Jobs
VARIABLES outcome, published

Final == {"completed", "failed", "timed_out", "cancelled"}

Init ==
  /\ outcome = [j \in Jobs |-> "none"]
  /\ published = [j \in Jobs |-> FALSE]

Accept(j) ==
  /\ outcome[j] = "none"
  /\ outcome' = [outcome EXCEPT ![j] = "open"]
  /\ UNCHANGED published

Publish(j) ==
  /\ outcome[j] = "open" /\ ~published[j]
  /\ published' = [published EXCEPT ![j] = TRUE]
  /\ UNCHANGED outcome

Withdraw(j) ==
  /\ outcome[j] = "open" /\ published[j]
  /\ published' = [published EXCEPT ![j] = FALSE]
  /\ UNCHANGED outcome

Close(j, s) ==
  /\ outcome[j] = "open"
  /\ published[j] <=> s = "completed"
  /\ outcome' = [outcome EXCEPT ![j] = s]
  /\ UNCHANGED published

Next ==
  \E j \in Jobs :
    \/ Accept(j) \/ Publish(j) \/ Withdraw(j)
    \/ \E s \in Final : Close(j, s)

Spec == Init /\ [][Next]_<<outcome, published>>
=============================================================================
