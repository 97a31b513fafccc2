---------------------------- MODULE JobLifecycle ----------------------------
(***************************************************************************)
(* What the `jobs` table promises to everybody who reads it: the SSE       *)
(* stream that closes on a terminal status, _await_job that waits for one, *)
(* the download guard that ignores rows which have one.                    *)
(*                                                                         *)
(* A row is inserted "pending", may become "running", and settles once.    *)
(* The only change a settled row may still see is to "cancelled": a cancel *)
(* that was accepted while the row was unsettled writes its verdict last.  *)
(***************************************************************************)
CONSTANT Job

VARIABLE status

TERMINAL == {"succeeded", "failed", "cancelled"}

Unsettled == {"pending", "running"}

Status == {"none"} \cup Unsettled \cup TERMINAL

Init == status = [j \in Job |-> "none"]

\* JobManager.create inserts the row.
Submit(j) ==
    /\ status[j] = "none"
    /\ status' = [status EXCEPT ![j] = "pending"]

\* The container started, or the adopted driver began.
Begin(j) ==
    /\ status[j] = "pending"
    /\ status' = [status EXCEPT ![j] = "running"]

\* The work ended, one way or another.
Settle(j) ==
    /\ status[j] \in Unsettled
    /\ \E s \in TERMINAL : status' = [status EXCEPT ![j] = s]

\* A cancel accepted earlier overwrites the outcome it raced with.
Overrule(j) ==
    /\ status[j] \in TERMINAL
    /\ status' = [status EXCEPT ![j] = "cancelled"]

Next == \E j \in Job : Submit(j) \/ Begin(j) \/ Settle(j) \/ Overrule(j)

Spec == Init /\ [][Next]_status
=============================================================================
