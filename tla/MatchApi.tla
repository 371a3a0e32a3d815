------------------------------ MODULE MatchApi ------------------------------
(***************************************************************************)
(* The lifecycle endpoints of api/tournaments.py.  Every endpoint is one   *)
(* conditional UPDATE (cancel: two in one transaction), so it is one step; *)
(* it waits while the worker holds the write lock.  A 409 answer changes   *)
(* nothing and is no step.                                                 *)
(***************************************************************************)
EXTENDS ArenaState

\* Seeded fault: the status is not re-checked at write time.
UncheckedUpdate(t, from) ==
    /\ ~WriteLocked
    /\ status[t] \notin Ended /\ from # {}
    /\ UNCHANGED <<completed, pairRows, ident, files, proc, worker, faults>>

\* UPDATE tournaments SET ... WHERE id = t AND status IN from.
ConditionalUpdate(t, from) ==
    /\ ~WriteLocked
    /\ status[t] \in from
    /\ UNCHANGED <<completed, pairRows, ident, files, proc, worker, faults>>

Start(t) ==
    /\ ConditionalUpdate(t, {"DRAFT"})
    /\ status' = [status EXCEPT ![t] = "QUEUED"]
    /\ UNCHANGED <<pauseReq, cancelReq, forceReq>>

Pause(t) ==
    /\ ConditionalUpdate(t, {"RUNNING"})
    /\ status' = [status EXCEPT ![t] = "PAUSING"]
    /\ pauseReq' = [pauseReq EXCEPT ![t] = TRUE]
    /\ UNCHANGED <<cancelReq, forceReq>>

Resume(t) ==
    /\ ConditionalUpdate(t, {"PAUSED"})
    /\ status' = [status EXCEPT ![t] = "QUEUED"]
    /\ pauseReq' = [pauseReq EXCEPT ![t] = FALSE]
    /\ UNCHANGED <<cancelReq, forceReq>>

\* No pair runs: cancelled on the spot.
CancelNow(t) ==
    /\ ConditionalUpdate(t, {"QUEUED", "PAUSED"})
    /\ status' = [status EXCEPT ![t] = "CANCELLED"]
    /\ cancelReq' = [cancelReq EXCEPT ![t] = TRUE]
    /\ UNCHANGED <<pauseReq, forceReq>>

\* A pair may run: the flag is left for the worker.
CancelLater(t) ==
    /\ ConditionalUpdate(t, {"RUNNING", "PAUSING"})
    /\ cancelReq' = [cancelReq EXCEPT ![t] = TRUE]
    /\ UNCHANGED <<status, pauseReq, forceReq>>

ForceCancel(t) ==
    /\ ConditionalUpdate(t, {"RUNNING", "PAUSING", "QUEUED", "PAUSED"})
    /\ forceReq' = [forceReq EXCEPT ![t] = TRUE]
    /\ UNCHANGED <<status, pauseReq, cancelReq>>
=============================================================================
