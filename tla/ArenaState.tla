----------------------------- MODULE ArenaState -----------------------------
(***************************************************************************)
(* The state the API process and the worker process of ChessArena share:   *)
(* the tournaments and pair_jobs tables (SQLite, WAL), the worker_state    *)
(* row, the run directories, the cutechess process groups and the memory   *)
(* of the worker.  MatchApi, PairProcess, PairScheduler and                *)
(* StartupRecovery add the steps; Arena composes them.                     *)
(*                                                                         *)
(* A tournament is a number (the created_at order of the scheduler's       *)
(* queries) and so is a pair job (the pair_index order).                   *)
(***************************************************************************)
EXTENDS Integers, FiniteSets

CONSTANTS
    Tournaments,   \* the matches, numbered by creation time
    Pairs,         \* the pair jobs, numbered by pair_index within a match
    Match,         \* the match each pair job belongs to
    Sprt,          \* the matches whose snapshot carries an enabled SPRT
    WaldDecision,  \* the decision of the Wald test after n scored pairs
    Pids           \* the process groups that can ever be launched (a bound)

\* A match is created with at least one pair (schemas.py: pairs >= 1).
ASSUME MatchAssumption ==
    /\ Tournaments \subseteq Nat /\ IsFiniteSet(Tournaments)
    /\ Pairs \subseteq Nat /\ IsFiniteSet(Pairs)
    /\ Match \in [Pairs -> Tournaments]
    /\ Tournaments # {}
    /\ \A t \in Tournaments : \E p \in Pairs : Match[p] = t
ASSUME SprtAssumption ==
    /\ Sprt \subseteq Tournaments
    /\ WaldDecision \in [Sprt \X (1 .. Cardinality(Pairs)) ->
                            {"CONTINUE", "SPRT_ACCEPT_H1", "SPRT_ACCEPT_H0"}]
\* 0 is "no process".
ASSUME PidAssumption == Pids \subseteq Nat \ {0} /\ IsFiniteSet(Pids)

VARIABLES
    status, pauseReq, cancelReq, forceReq, completed,  \* tournaments
    pairSt, attempt, exitEv, games,                    \* pair_jobs, games
    ident,     \* worker_state: the recorded process group, 0 when cleared
    pgn,       \* match.pgn of the current attempt directory of each pair
    summary,   \* the status summary.json of a match was written with
    proc,      \* the cutechess process groups
    pc, active, snap,  \* the worker: where it is, Popen handle, ORM objects
    faults     \* crashes, restarts and rolled back ticks so far

rows     == <<status, pauseReq, cancelReq, forceReq, completed>>
pairRows == <<pairSt, attempt, exitEv, games>>
files    == <<pgn, summary>>
worker   == <<pc, active, snap>>
vars     == <<rows, pairRows, ident, files, proc, worker, faults>>

-----------------------------------------------------------------------------
SprtTerminal == {"SPRT_ACCEPT_H1", "SPRT_ACCEPT_H0", "SPRT_MAX_PAIRS"}
ResultTerminal == {"COMPLETED"} \cup SprtTerminal
Ended == ResultTerminal \cup {"FAILED", "CANCELLED"}
Status == {"DRAFT", "QUEUED", "RUNNING", "PAUSING", "PAUSED"} \cup Ended

PairStatus == {"PENDING", "RUNNING", "COMPLETED", "FAILED", "INTERRUPTED"}

\* return_code and return_code_attempt of a pair job.
NoExit == [rc |-> -1, attempt |-> 0]
ExitEvidence == [rc : {-1, 0, 1}, attempt : Nat]

\* match.pgn: absent, exactly two games the verifier accepts, two games it
\* rejects, or any other number of games.
Pgn == {"none", "good", "invalid", "odd"}

\* A process group: never launched, alive, or wholly gone.
ProcState == [st : {"unused", "running", "exited"}, pair : Pairs,
              attempt : Nat, rc : {0, 1}]

\* The columns of a tournament that a loaded ORM object remembers.
Row == [status : Status \cup {"none"},
        pause : BOOLEAN, cancel : BOOLEAN, force : BOOLEAN]
NoRow == [status |-> "none", pause |-> FALSE, cancel |-> FALSE, force |-> FALSE]
NoSnap == [t \in Tournaments |-> NoRow]
RowOf(t) == [status |-> status[t], pause |-> pauseReq[t],
             cancel |-> cancelReq[t], force |-> forceReq[t]]

WorkerPc == {"down", "boot", "recovering", "idle", "pausing", "scan",
             "selected", "launched", "finish", "finalizing", "artifacts"}

PairsOf(t) == {p \in Pairs : Match[p] = t}
Requested(t) == Cardinality(PairsOf(t))
Scored(t) == {p \in PairsOf(t) : pairSt[p] = "COMPLETED"}

\* Seeded fault: the newest match first.
IsNewest(x, S) == x \in S /\ \A y \in S : y <= x

\* ORDER BY ... ASC LIMIT 1.
IsFirst(x, S) == x \in S /\ \A y \in S : x <= y

\* The worker holds the SQLite write lock from its first flush to its commit;
\* at every other point another connection may commit.
WriteLocked == pc \in {"launched", "finalizing"}

TypeOK ==
    /\ status \in [Tournaments -> Status]
    /\ pauseReq \in [Tournaments -> BOOLEAN]
    /\ cancelReq \in [Tournaments -> BOOLEAN]
    /\ forceReq \in [Tournaments -> BOOLEAN]
    /\ completed \in [Tournaments -> Nat]
    /\ pairSt \in [Pairs -> PairStatus]
    /\ attempt \in [Pairs -> Nat]
    /\ exitEv \in [Pairs -> ExitEvidence]
    /\ games \in [Pairs -> Nat]
    /\ ident \in Pids \cup {0}
    /\ pgn \in [Pairs -> Pgn]
    /\ summary \in [Tournaments -> ResultTerminal \cup {"none"}]
    /\ proc \in [Pids -> ProcState]
    /\ pc \in WorkerPc
    /\ active \in Pids \cup {0}
    /\ snap \in [Tournaments -> Row]
    /\ faults \in Nat

\* Matches as create_tournament leaves them, and a worker not yet started.
Init ==
    /\ status = [t \in Tournaments |-> "DRAFT"]
    /\ pauseReq = [t \in Tournaments |-> FALSE]
    /\ cancelReq = [t \in Tournaments |-> FALSE]
    /\ forceReq = [t \in Tournaments |-> FALSE]
    /\ completed = [t \in Tournaments |-> 0]
    /\ pairSt = [p \in Pairs |-> "PENDING"]
    /\ attempt = [p \in Pairs |-> 1]
    /\ exitEv = [p \in Pairs |-> NoExit]
    /\ games = [p \in Pairs |-> 0]
    /\ ident = 0
    /\ pgn = [p \in Pairs |-> "none"]
    /\ summary = [t \in Tournaments |-> "none"]
    /\ proc = [k \in Pids |-> [st |-> "unused", pair |-> CHOOSE p \in Pairs : TRUE,
                               attempt |-> 0, rc |-> 0]]
    /\ pc = "down" /\ active = 0 /\ snap = NoSnap
    /\ faults = 0
=============================================================================
