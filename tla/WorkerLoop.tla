----------------------------- MODULE WorkerLoop -----------------------------
(***************************************************************************)
(* One worker, three kinds of work: the pairs of matches, the engine's     *)
(* moves of human games, and post-game analysis (worker.py, analysis.py).  *)
(* Followed here is one verified game of one match, from its last pair on, *)
(* with the analysis files under the match's run directory, which admin    *)
(* requests and deletions change while the worker reads and writes them.   *)
(*                                                                         *)
(* The main thread, the analysis thread and the API process interleave.    *)
(* Admin handlers run one at a time (async handlers on one event loop that *)
(* do not await after they read the form), but not atomically for the      *)
(* worker.                                                                 *)
(***************************************************************************)
EXTENDS Integers, FiniteSets

CONSTANTS MaxAsks,     \* bound: requests and deletions by the admin
          MaxFaults    \* bound: deaths of the worker or of the API process

ASSUME WorkerAssumption == {MaxAsks, MaxFaults} \subseteq Nat

VARIABLES
    match,   \* the match row: "live", a terminal status, or "deleted"
    pair,    \* head of the match queue: "none", "queued", "running"
    owed,    \* a human game waits for the engine
    loop,    \* main thread: "poll", or "reply" while it searches a human game
    job,     \* analysis thread: "off", or the step it takes next
    admin,   \* admin handler under way: "none", or the step it takes next
    files,   \* the run directory: match.pgn and analysis/
    asks, faults

worker   == <<pair, owed, loop, job>>
siteVars == <<match, worker, admin, files, asks, faults>>

ResultTerminal == {"COMPLETED", "SPRT_ACCEPT_H1"}    \* one of the SPRT verdicts
Terminal == ResultTerminal \cup {"FAILED"}

-----------------------------------------------------------------------------
(* The files.  tmp and res are "no", "part" (being written) or "whole". *)

AnyFiles == [pgn : BOOLEAN, dir : BOOLEAN, req : BOOLEAN, err : BOOLEAN,
             tmp : {"no", "part", "whole"}, res : {"no", "part", "whole"}]
RunDir == [pgn |-> TRUE, dir |-> FALSE, req |-> FALSE, err |-> FALSE,
           tmp |-> "no", res |-> "no"]
NoFiles == [RunDir EXCEPT !.pgn = FALSE]

AnalysisState == CASE ~files.req -> "not_requested"
                   [] files.req /\ files.res # "no" -> "ready"
                   [] files.req /\ files.res = "no" /\ files.err -> "failed"
                   [] OTHER -> "queued"
\* next_request: matches with an SPRT verdict are not looked at.
NextRequest == match = "COMPLETED" /\ AnalysisState = "queued"
MatchStillExists == match = "COMPLETED" /\ files.dir /\ files.req

-----------------------------------------------------------------------------
(* The main thread: one iteration of _worker_step per action. *)

AnyTime == TRUE                         \* variant: the thread is not looked at
\* While a game is analysed the loop does nothing else.
NoAnalysis == job = "off"
May == loop = "poll" /\ NoAnalysis
AtBoundary == May /\ pair # "running"

\* The scheduler's tick with a pair under way, once cutechess is gone: the
\* next pair of the match, or its end.
PairEnds == /\ May /\ pair = "running"
            /\ \/ /\ match = "live" /\ match' \in Terminal \cup {"live"}
                  /\ pair' = IF match' = "live" THEN "queued" ELSE "none"
               \/ match # "live" /\ pair' = "none" /\ UNCHANGED match
            /\ UNCHANGED <<owed, loop, job>>

\* At a boundary one owed move comes first; the games are then scanned again
\* only in the next iteration.
TakeMove == /\ AtBoundary /\ owed
            /\ loop' = "reply" /\ owed' = FALSE
            /\ UNCHANGED <<match, pair, job>>
TickLaunches == pair' = IF pair = "queued" THEN "running" ELSE pair
\* The reply is played or refused, and the scheduler polled in the same step.
MoveOnly == /\ loop = "reply" /\ loop' = "poll"     \* variant: the next step polls
            /\ UNCHANGED <<match, pair, owed, job>>
MoveThenTick == /\ loop = "reply" /\ loop' = "poll"
                /\ TickLaunches
                /\ UNCHANGED <<match, owed, job>>
LaunchPair == /\ AtBoundary /\ ~owed /\ pair = "queued"
              /\ TickLaunches
              /\ UNCHANGED <<match, owed, loop, job>>
StartAnalysis == /\ AtBoundary /\ ~owed /\ pair = "none" /\ NextRequest
                 /\ job' = "search"
                 /\ UNCHANGED <<match, pair, owed, loop>>

MainThread == PairEnds \/ TakeMove \/ MoveThenTick \/ LaunchPair \/ StartAnalysis

-----------------------------------------------------------------------------
(* The analysis thread: run_analysis, one action per file operation. *)

Goto(s) == job' = s /\ UNCHANGED <<match, pair, owed, loop>>
Put(f) == files' = f
Keep == UNCHANGED files

\* Every position is searched, or something fails: no build, no PGN, a timeout.
Searched == job = "search" /\ files.pgn /\ Goto("check") /\ Keep
SearchFails == job = "search" /\ Goto("failed") /\ Keep
FirstCheck == /\ job = "check" /\ Keep
              /\ Goto(IF MatchStillExists THEN "open" ELSE "off")
\* The writer makes no directory: a deleted match cannot come back.
OpenAnywhere == /\ job = "open"                      \* variant: mkdir first
                /\ Goto("write") /\ Put([files EXCEPT !.dir = TRUE, !.tmp = "part"])
OpenResult == /\ job = "open" /\ files.dir            \* variant: no temporary file
              /\ Goto("write") /\ Put([files EXCEPT !.tmp = "part", !.res = "part"])
OpenTmp == /\ job = "open"
           /\ IF files.dir THEN Goto("write") /\ Put([files EXCEPT !.tmp = "part"])
              ELSE Goto("off") /\ Keep
WriteTmp == /\ job = "write" /\ Goto("recheck")
            /\ Put(IF files.tmp = "part" THEN [files EXCEPT !.tmp = "whole"] ELSE files)
SecondCheck == /\ job = "recheck"
               /\ IF MatchStillExists THEN Goto("move") /\ Keep
                  ELSE Goto("off") /\ Put([files EXCEPT !.tmp = "no"])
\* tmp.replace(out): gone with the directory, it raises FileNotFoundError.
MoveResult == /\ job = "move" /\ Goto("off")
              /\ Put(IF files.tmp = "no" THEN files
                     ELSE [files EXCEPT !.res = files.tmp, !.tmp = "no"])
FailUnseen == job = "failed" /\ Goto("off") /\ Keep  \* variant: no error file
FailCheck == /\ job = "failed" /\ Keep
             /\ Goto(IF MatchStillExists THEN "record" ELSE "off")
RecordError == /\ job = "record" /\ Goto("off")
               /\ Put([files EXCEPT !.err = files.dir])

AnalysisThread == \/ Searched \/ SearchFails \/ FirstCheck \/ OpenTmp \/ WriteTmp
                  \/ SecondCheck \/ MoveResult \/ FailCheck \/ RecordError

-----------------------------------------------------------------------------
(* The admin's handlers in the API process. *)

Then(s) == admin' = s /\ UNCHANGED <<match, worker>>
Ask == admin = "none" /\ asks < MaxAsks /\ asks' = asks + 1
Continue(s) == admin = s /\ UNCHANGED asks

\* One game ("again" re-analyses it) or the games a bulk request leaves over:
\* the request first, then the stale outcomes go.
Request == /\ Ask /\ match \in ResultTerminal
           /\ Put([files EXCEPT !.dir = TRUE, !.req = TRUE])
           /\ Then("result")
ClearResult == /\ Continue("result") /\ Then("error")
               /\ Put([files EXCEPT !.res = "no"])
ClearError == /\ Continue("error") /\ Then("none")
              /\ Put([files EXCEPT !.err = FALSE])

\* rmtree of the run directory, then the rows.
Delete == Ask /\ match \in Terminal /\ Keep /\ Then("rmtree")
RemoveFiles == /\ Continue("rmtree") /\ Then("rmdir")
               /\ Put([NoFiles EXCEPT !.dir = files.dir])
\* A file came or went under rmtree (the thread opens the temporary file, or
\* moves it over the result): it raises, some of the files are left, and the
\* rows stay.
LeftOver == [pgn : {files.pgn, FALSE}, dir : {files.dir}, req : {files.req, FALSE},
             err : {files.err, FALSE}, tmp : {files.tmp, "no"}, res : {files.res, "no"}]
RemoveStops == /\ Continue("rmtree") /\ files.dir /\ job \in {"write", "recheck", "move"}
               /\ \E left \in LeftOver : Put(left)
               /\ Then("none")
Emptied == files = [NoFiles EXCEPT !.dir = files.dir]
RemoveDir == /\ Continue("rmdir")
             /\ IF Emptied THEN Put(NoFiles) /\ Then("rows") ELSE Keep /\ Then("none")
DeleteRows == /\ Continue("rows") /\ Keep
              /\ match' = "deleted" /\ admin' = "none"
              /\ UNCHANGED worker

Admin == Request \/ Delete
Handler == \/ ClearResult \/ ClearError
           \/ RemoveFiles \/ RemoveStops \/ RemoveDir \/ DeleteRows

-----------------------------------------------------------------------------
(* What arrives, and what breaks. *)

\* Another match is queued; a human game is left with a move to answer.
QueueMatch == /\ match # "live" /\ pair = "none"
              /\ pair' = "queued" /\ UNCHANGED <<match, owed, loop, job>>
AskMove == ~owed /\ owed' = TRUE /\ UNCHANGED <<match, pair, loop, job>>

Fault == faults < MaxFaults /\ faults' = faults + 1
\* The worker dies with its thread and its engines (KillMode=mixed) and is
\* started again: recovery queues the pair again, the move is still owed.
WorkerDies == /\ Fault
              /\ loop' = "poll" /\ job' = "off"
              /\ pair' = IF pair = "running" THEN "queued" ELSE pair
              /\ owed' = (owed \/ loop = "reply")
              /\ UNCHANGED <<match, admin, files, asks>>
ApiDies == /\ Fault /\ admin # "none" /\ admin' = "none"
           /\ UNCHANGED <<match, worker, files, asks>>

SiteInit == /\ match = "live" /\ pair = "queued" /\ owed \in BOOLEAN
            /\ loop = "poll" /\ job = "off" /\ admin = "none"
            /\ files = RunDir /\ asks = 0 /\ faults = 0
=============================================================================
