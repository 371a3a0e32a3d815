# ChessArena in TLA+

A specification of ChessArena, the control plane that plays engine matches with
cutechess on one machine. The modules are written from the code, TLC checks
them on small instances, and TLAPS proves every safety property and both
refinements for every instance. `PROJECT.json` lists components, runs, theorems and hazards and
says which lines each definition models.

1. [The system](#the-system)
2. [The modules](#the-modules)
3. [Atomicity: what is one step](#atomicity-what-is-one-step)
4. [What is checked](#what-is-checked)
5. [What is proved](#what-is-proved)
6. [Where the code and its documentation disagree](#where-the-code-and-its-documentation-disagree)
7. [What is not modelled, and the plan](#what-is-not-modelled-and-the-plan)

## The system

Two processes share one SQLite database (WAL, one writer) and a tree of run
directories. The API process (FastAPI) writes rows and never runs anything. The
worker process (`worker.py`) owns every child process. They exchange nothing but
rows and files, so every interaction is a race on a row that one side read
earlier.

### The match runner (modelled here)

| part | state | operations |
|---|---|---|
| lifecycle endpoints, `api/tournaments.py` | `tournaments`: status, `pause_requested`, `cancel_requested`, `force_cancel_requested` | start, pause, resume, cancel, force-cancel: each one conditional `UPDATE ... WHERE status IN (...)` |
| scheduler, `services/scheduler.py` | `pair_jobs`: status, attempt, `return_code`, `return_code_attempt`; `games`; `completed_pairs`; in memory the Popen handle | `tick`: park or cancel PAUSING matches, pick the earliest match, obey its flags, launch a pair, poll it, force-kill it, verify and score or fail it, stop on the SPRT, finalise; `shutdown` |
| startup recovery, `services/recovery.py` | the same rows, `worker_state` | `run_recovery`: kill the orphan, score a pair that left exit evidence, queue the others again, park, cancel or requeue matches |
| processes, `services/cutechess.py` | process groups, `match.pgn` of each attempt directory | launch, exit, SIGTERM/SIGKILL of the group, "confirmed gone" or not |
| worker loop, `worker.py`, systemd unit | `worker_state.pid` | boot, tick, heartbeat, shutdown, restart |

A match plays one pair (two games) at a time. A pair is scored only when
cutechess exited with 0, the exit code is recorded for this attempt, and the
verifier accepts exactly two games.

What makes it correct: a verified result is neither lost, doubled nor taken
back; no pair is scored without evidence of its own attempt; a cancel accepted
by the API is not overwritten by a completion; one cutechess at a time; matches
in order; and every match that is running, and every request, is settled.

What makes it hard: SELECTs open no transaction, so each tick acts on rows that
may have changed; crashes fall between any two commits; an exception rolls back
half a tick while the process it supervises lives on; a group may survive
SIGKILL; recovery spends up to 25 seconds killing an orphan while the API goes
on committing.

### Human play (modelled here)

| part | state | operations |
|---|---|---|
| API, `services/human_game.py`, `api/human_play.py` | `human_games`: status, `engine_move_pending`, revision, `current_fen`, deadlines; `human_game_moves` with a unique ply | create (reap, cap, insert), get, submit, resign; every one expires a late game first |
| executor, `services/human_engine.py` | none between two calls; one search outside any transaction | scan for an owed reply, search, compare-and-swap, fail the game |
| page, `HumanPlayApp.jsx` | phase, game payload, token, busy, promotion picker, review ply, poll timer; `localStorage` | start, drop a move, promote, resign, new game, review; poll, restore after a reload |

What makes it correct: the engine answers the human's move and nothing else; a
game that ended stays ended; an owed reply is settled; the page shows the game it
plays, one action at a time, and is never stuck on "thinking". What makes it
hard: a request decides on a row it read before others committed and writes by
id; the search takes seconds; answers reach the page in any order, or never.

### Worker arbitration, analysis and the public pages (modelled here)

| part | state | operations |
|---|---|---|
| `_worker_step`, `worker.py` | the supervised pair, the analysis thread | poll the pair; at a boundary one human move, then the scheduler, then analysis |
| analysis, `services/analysis.py` | `analysis/` of a game: request, temporary, result and error file | `run_analysis`, each check and each write on its own |
| admin pages, `api/tournaments.py` | the same files and the rows | request one or all analyses, delete a match |
| public API, `api/public.py`; `main.jsx` | none: reads of rows and files | match, PGN, analysis, live status; the page a URL opens |
| replay, `App.jsx`, `eval.js` | moves, positions of the analysis, ply, autoplay | three fetches; numbering, marks, error jumps; keys, wheel, buttons, timer |
| live page, `LiveApp.jsx` | phase and the last payload | a poll every 1.5 s that does not wait for the former |

What makes it correct: one CPU-heavy workload at a time and none starves; a
deleted match leaves no files; a result called ready is whole; marks, jumps and
numbers agree with the game; the pages end up showing what is true.

### Browser analysis (modelled here)

`useStockfishAnalysis.js` runs one web worker for the page: generation counters,
a stop whose bestmove must be awaited, three timeouts, and an engine that may
stall or die. The latest position must be searched, and no line of an older
search may be shown or mistaken for the end of the new one.

### The other components

| component | state and operations | what is hard | status |
|---|---|---|---|
| versions and channels (`versions.py`) | versions, channels, promotion history | a promotion is planned on one read and executed later | listed as a hazard, not modelled |
| verifier, SPRT, ratings, openings, live telemetry | none (pure) | boundaries, malformed inputs | their outcomes are inputs of the model |
| creation, presets, builds, model artifacts, experiments, admin tools, security, deployment | rows written once, or read models | none of their own | out of scope, see below |

## The modules

| module | models | actions and operators |
|---|---|---|
| `ArenaState` | the shared tables, files, processes and worker memory | `Init`, `TypeOK`, statuses |
| `MatchApi` | the five endpoints | `Start`, `Pause`, `Resume`, `CancelNow`, `CancelLater`, `ForceCancel` over `ConditionalUpdate` |
| `PairProcess` | process groups and PGN files | `Exit`, `Terminated`, `AfterTermination`, `StartOver` |
| `PairScheduler` | `Scheduler.tick` and `shutdown` | one action per read, flush or commit, see below |
| `StartupRecovery` | `run_recovery` | `RecoveryRead`, `Recover` |
| `Arena` | the composition with boots, crashes and fairness; the properties | `Next`, `Spec`, `FairSpec` |
| `PairLedger` | the abstract specification: what the runner promises about results | `Begin`, `Abandon`, `Score`, `Fail` |
| `ArenaClaims` | statements of the repository that the code does not keep | |
| `ArenaProofs`, `LedgerProofs`, `ProcessProofs` | theorems about `Arena`: results; rows that agree and the refinement of `PairLedger`; launches, processes, attempts and survivors | |
| `HumanGame` | rows, ply log, requests and executor of human play | `Load`, `Accept`, `Refuse`, `Resign`, `Create`, `Take`, `SeeOver`, `Land`, `LostRace`, ... |
| `HumanPlay` | one browser tab over it: clicks, poll timer, answers in any order, reloads, crashes; the properties | `Next`, `Spec`, `FairSpec` |
| `HumanGameProofs`, `HumanPlayProofs` | theorems about `HumanPlay`: what requests and executor preserve; the page and the properties | |
| `LatestSearch` | the abstract specification of browser analysis | `Ask`, `Turn`, `Show`, `Close` |
| `BrowserSearch` | the hook, its worker, both message queues and the engine | one action per effect, message handler and timeout |
| `BrowserSearchProofs` | theorems about `BrowserSearch` and the refinement of `LatestSearch` | |
| `WorkerLoop` | pairs, human moves and analysis on one worker; analysis files, admin requests and deletions | `TakeMove`, `LaunchPair`, `StartAnalysis`, ... |
| `ReplayView` | the replay page | fetches, `Rows`, `Swings`, `NextError`, navigation |
| `LiveView` | the live page | `Poll`, `GotPayload`, `PollFailed`, `Screen` |
| `PublicSite` | worker, admin, public API and one visitor's page composed; the properties | `Next`, `Spec`, `FairSpec` |
| `ReplayProofs` | what the folds and recursions of the replay compute, for games of any length | |
| `PublicSiteProofs` | theorems about `PublicSite` | |
| `MCArena`, `MCHumanPlay`, `MCBrowserSearch`, `MCPublicSite` | instances for TLC | |

State and code of the match runner. `status`, `pauseReq`, `cancelReq`, `forceReq`, `completed` are
the columns of `Tournament`; `pairSt`, `attempt`, `exitEv` those of `PairJob`
(`exitEv` is `return_code` with `return_code_attempt`); `games[p]` counts the
Game rows of a pair. `ident` is the process recorded in `worker_state`, 0 when
cleared. `pgn` is the content of `match.pgn` in the current attempt directory
(absent, two good games, two games the verifier rejects, another number);
`summary` is the status a `summary.json` was written with. `proc` are the
process groups. `pc` is where the worker is, `active` its Popen handle, `snap`
the rows its ORM session holds.

`WaldDecision` is a constant: the decision of the Wald test after n scored
pairs of a match. The properties depend on when a decision exists, not on the
likelihood ratio, and the theorems hold for every such function.

State and code of the other modules.

* `HumanGame`: `row` is `HumanGame` with `rev` for `revision`, `pending` for
  `engine_move_pending` and `fen` for `current_fen`; a position is the sequence of
  moves that leads to it. The API judges a position by its FEN (`Over`), the
  executor on a board with the whole history (`GameOver`): the constant `Repeats`
  says which histories end in a draw by repetition, `Corrupt` which logs cannot be
  replayed because `Board.push` raises an AssertionError. `log` is
  `HumanGameMove`; an entry also remembers the
  position its mover saw. `late` says a deadline has passed. A request in `calls`
  carries what it has read.
* `HumanPlay`: `phase`, `view` (the state `game`), `token`, `busy`, `picker`,
  `review` (`reviewPly`), `timer` are the states of `HumanPlayApp.jsx`, `stored`
  its `localStorage` entry. A request whose page is gone has `live = FALSE`.
* `BrowserSearch`: `gen`, `pending`, `requested`, `uciReady`, `searching`,
  `stopping` are the refs, `status` and `result` the UI state, `timers` the armed
  timeouts; `page` and `seen` are the props of the last render and those the
  effects last ran with. `of`, `cut` and `signedFor` record where a message came
  from; the hook does not read them.
* `WorkerLoop`: `pair` is the head of the match queue, `owed` a pending human
  move, `loop` and `job` where the two threads are, `admin` where a handler is,
  `files` the run directory. A bulk request chooses among games; for the game
  followed here it is a request or none.
* `ReplayView` and `LiveView`: the states of the two components under their names;
  `stage` is `status` with the fetch under way. Winning chances are percentages
  0 to 100 in place of floats, with the thresholds 10, 20 and 35 and the clamp of
  `eval.js`.

## Atomicity: what is one step

The SQLite driver opens a transaction at the first write, not at a SELECT, and
sessions are made with `expire_on_commit=False`. So:

* a row that was read is a copy (`snap`); what the worker does with it later is
  based on that copy, while any number of endpoint calls commit in between.
  `ReadPausing`/`ApplyPausing`, `ReadNext`/(`ApplyFlags`, `Launch`) and
  `RecoveryRead`/`Recover` are therefore pairs of steps;
* the ORM writes the columns whose value changed. A `RUNNING` assigned to a row
  that was loaded as `RUNNING` writes nothing (`LaunchCommit`), and recovery
  writes back no flag it did not change (`StatusAfter`);
* from the first flush to the commit the worker holds the write lock. In
  `launched` (between the flush and `_record_active_process`) and `finalizing`
  (between the conditional UPDATE and the commit, while artifacts are written)
  the endpoints wait: `WriteLocked`. The scoring of a pair flushes `VERIFYING`
  before the verifier runs, so reading the flags and committing is one step
  there and `VERIFYING` is never visible;
* the exit code is committed before scoring (`PollExit`), and an SPRT verdict
  before its artifacts (`FinishSprt`, then `SprtArtifacts`): these are the
  points a crash can fall between;
* an endpoint is one conditional UPDATE, so one step. A refused call is none.

`TickFails` is an exception anywhere in a tick: the transaction is rolled back,
`run_worker` logs it, and the next tick starts over with the handle it has. It
does not strike in `launched`: after Popen nothing but the commit itself can
fail, and a failing commit (disk full) is not modelled. `Crash` loses memory and
the open transaction at any point; with `SurviveCrash` groups may outlive the
worker, which the deployed `KillMode=mixed` excludes. A stop that exceeds
`TimeoutStopSec=20` is a `Crash`. `SurviveKill` lets a group survive SIGKILL.

Left out of these handlers: Event rows, W/L/D totals, error texts, the PID-reuse
guard and the dead-leader branch of `_kill_orphaned_pair` (both end in "the
group is gone"), deletion in the admin pages, and the two branches for a live
match without a pair to play (`_finish_without_pending` and its counterpart in
recovery), which `LiveMatchHasWork` shows to be unreachable.

The other processes:

* human-play requests read outside a transaction (`Load`) and write only the
  attributes they changed, by id. `Accept` therefore writes the revision it read
  plus one, and `pending` or the status only where they differ from what it read.
  A GET that expires a
  game does so in one step; the stale write it could make is the one of
  `ExpireFirst`. Create is one step: two creations that pass the cap together are not
  modelled. The expiries it makes first are rolled back when it refuses;
* the executor's scan sets `EXPIRED` on a row and flushes it later (`FindStale`,
  `FlushStale`), and so does the clearing of the flag of a game it finds over
  (`SeeOver`, `ClearFlag`). An exception in the replay of a log is caught by the
  loop only: nothing is written and the next tick tries again, so for a `Corrupt` log
  no step of the executor is enabled but the expiry. A reply is one transaction of a
  compare-and-swap and an insert whose unique ply may fail (`LandCollides`);
* in a page a step is a JavaScript task: a render with the effects that follow,
  a click, a timer, an answer. The hook is cut finer: a render and its effects are
  two steps, because messages of the engine fall between them;
* `run_analysis` and the admin's handlers touch files without any lock: each check
  and each write is a step, and the handlers of the API exclude each other only
  because they do not await between reading the form and answering. An iteration of
  `_worker_step` is one step, the search of a reply two.

## What is checked

| run | instance | question |
|---|---|---|
| `arena_faults` | one match of two pairs, four processes, two faults, survivors of SIGKILL and of worker deaths | are results right, do live matches settle and cancels end them, under every fault at once (176 758 states) |
| `arena_two` | an SPRT of two pairs and a match of one, one fault, the deployed process rules | one cutechess at a time, and the order between matches (2 577 562 states) |
| `human_play` | two games, one active at a time, two human plies, two requests at once, one fault | does the engine answer the human, do games stay ended, does the page keep up (404 450 states) |
| `browser_search` | two positions, two depths, five requests | is the latest position searched and nothing older shown (82 880 states) |
| `public_site` | one match with a game of two or three moves, two admin requests, one fault, two polls at once | one workload at a time, whole files, right marks, pages that settle (260 009 states) |
| `claim_cancel`, `claim_sprt`, `claim_force`, `claim_terminal`, `claim_stuck`, `claim_review`, `claim_revision` | small | counterexamples to statements of the repository |

Every operator action is enabled whenever the API accepts it, in every run of
`Arena`.

Properties of `arena_faults`. `CompletedHasNoCancel`: a match never ends
COMPLETED with a cancel on its row. `TallyMatchesPairs`: aggregate, pair
statuses and Game rows agree. `RetriesStartFresh`: the step that decides that a
pair is scored finds a directory with exactly its two games and the exit code 0 of
this attempt; a retry, by a launch after an interruption or by recovery, has the next
attempt number, an empty directory and no exit code; an exit code that was recorded
for an attempt is never replaced. `RunningPairHasLiveMatch`: neither endpoint nor
recovery takes a match away from under its pair, and one pair runs.
`LiveMatchHasWork`, `CompletedIsWhole`: a live match has a pair to play, a
COMPLETED one has all pairs scored and its artifacts. `ResultsAreFinal`: a result
is not taken back. `ImplementsLedger`: the runner refines `PairLedger` under the
mapping that forgets everything but who is RUNNING, COMPLETED or FAILED.
`QueuedMatchSettles`: a match handed to the worker ends or is paused; this is all
that a plain pause asks for. `StopRequestServed`: a cancel of a RUNNING or PAUSING
match ends it, and PAUSED does not count as service; excepted is the cancel that
commits after the worker has read the row as PAUSING, which `claim_cancel` shows
parked. A force-cancel of a match whose pair is supervised ends it; that of a PAUSED
match is the subject of `claim_force`.

Properties of `arena_two`. `OneCutechess`: at most one group lives, and the
worker or the recorded identity knows it. `EarliestMatchFirst`: no pair of a later
match starts while an earlier match is between two pairs. `ImplementsLedger`
again, now across matches and through SPRT stops. Survivors are switched off in this
run, so `OneCutechess` says what holds under `KillMode=mixed` and nothing about
groups that outlive a kill. Those are in `arena_faults`: `RetriesStartFresh` and
`TallyMatchesPairs` say that they do no harm to results, and the theorem
`SurvivorsStale` that none of them plays the attempt that is played.

Properties of `human_play`. `EngineAnswersTheHuman`: each reply was computed on
exactly the plies before it and follows a human move, or opens a game of Black;
neither racing submits nor a revision that comes back to the one being searched
can break it. `ActiveIsOpen`: an ACTIVE game is not over, neither by its FEN nor on
a board with its history, except by a repetition that a move of the human completed:
the API cannot see it, while the same draw by a move of the engine ends the game.
`DeadGamesStayDead`: a stale request may relabel an ended game but never revives
it, and the engine adds no ply to it nor to one past a deadline.
`OneActionAtATime`, `PlaysWithItsToken`: what the page has under way and what it
holds, through answers in any order, until it is loaded again: a restore that
answers late breaks both (below), so the history variable `reloaded` marks the
pages they speak of. `OwedReplySettles`, `ThinkingEnds`: liveness
on the server and on the page. Both leave out games whose log cannot be replayed,
whose reply stays owed until a deadline (`CorruptHistoryFails`, below). A game whose
last move only the executor sees as a draw is covered: the flag is cleared, the row
stays ACTIVE, and the page goes from "thinking" to "Engine to move".

Properties of `browser_search`. `OneSearchAtATime`: `searchingRef` is the truth
about both queues and the engine. `CutSearchIsAwaited`: a search cut by a stop is
never taken for one that finished, however the stop crosses a bestmove already on
its way. `ShownIsCurrent`: a score belongs to the position, depth and side to move
of the board. `ImplementsLatestSearch`: the refinement. `AnalysisSettles`: a session
ends with the score of its position unless the engine is gone.

Properties of `public_site`. `OneWorkload`, `PairNotStarved`: exclusion, and pairs
against human moves. `RequestIsServed`: a queued analysis of a COMPLETED match ends,
through crashes, new requests and half-done deletions. `NoOrphanArtifacts`, `ReadyIsWhole`: files
against deletion and crashes. `RowsFollowTheFen`, `MarksAreErrors`,
`ErrorButtonsCycle`, `PlyInGame`: the replay against the FEN rules and against
itself, over every analysis of the instance. `AutoplayEnds`, `LiveSettles`: the
pages end where they should.

Bounds. Two pairs are the least with a pair that is not the last; the second
match adds the choice between matches. Two faults give every crash followed by a
crash of its recovery, or a failed tick followed by a shutdown. `Pids` bounds the
launches: each fault can cost one process, so pairs plus faults are enough for
every run to end; `arena_two` has one process less, which cuts off only behaviours
that launch a fourth time. `MaxFaults` bounds crashes, restarts and failed ticks,
which is also what "as long as the worker stops crashing" means in the liveness
properties. In `Arena` a worker with nothing to do keeps polling, so no state is
stuck and deadlock is checked.

`human_play`: a second game exists so that answers of the first can meet it; the
first is played as Black (the engine opens) and the others as White; two plies
(`MaxPly` counts human moves against both logs) let two submits race and a game
end by a mate. `MaxCalls` bounds the clicks: the page's own poll, restore and
refetch are always sent. One resignation is under way at a time, and of the move
list the first and the last ply are clicked. A fault is a reload, a lost answer or
a death of the worker; losing the restore after a reload costs no further fault.
The second of two quiet moves is the draw by repetition; chess needs 17 plies for a
fivefold repetition, but what the model tells apart, a history that is over for one
board and not for the other, completed by the human or by the engine, occurs at two.
So every game of this instance ends at its second ply unless submits race; with
`Repeats <- NoRepeats` in the cfg they go on to a third, and the properties hold there as
well (489 325 states). A log is `Corrupt` when it records one move twice from one
position, which is what two raced submits of a move leave.
`browser_search`: `MaxGen` is the number of requests of a page load; five is two
more than a stopped search, its replacement and one that overtakes it. A reload
starts over. `public_site`: games start with either colour, one at move 7, and
their analyses range over equal, better, mated and unknown positions, one for the
start and one after each move, as `run_analysis` writes them. Nothing new is queued while a
page is open, a page is opened once and between two steps of the worker, and the
admin and the faults rest once a replay is loaded, since it reads nothing more.
These three cut only the product of parts that no longer interact: loading a
replay and polling the live page still race with every step of the worker, of the
admin and of a fault, and every such step interleaves freely without a page. Two
admin requests give a request with a re-request, and a request with a deletion.
Deadlock is not checked where the system may stop: the bounded user of
`human_play` has no more to do, and a replay that is loaded and left alone in
`public_site` rests for good.

Fairness. `FairSpec` assumes weak fairness of `Tick` (the worker loop polls for
ever), `Boot` (`Restart=always`), `Recovery` (run at every boot) and `Exit(k)`
(time controls are finite, and the verifier and artifact steps terminate).
Nothing is assumed of operators, faults, launch errors or heartbeats. A
force-kill that met a survivor leaves everything as it was, so `ForceKill` is the
attempt that succeeds; fairness of `Tick` then assumes that some attempt does.

`HumanPlay`: the server answers each poll or the browser gives up on it, the timer
fires, and the worker serves owed moves, since it is free after every pair and
every wait for the engine has a timeout. Nothing is assumed of the user, of other
requests or of the clock. `BrowserSearch`: the event loop runs effects, messages
and armed timeouts (weak fairness); the engine thread makes progress unless it is
stalled for good (strong fairness, as stalls come and go). `PublicSite`: the two
threads of the worker and the handlers run, fetches are answered or fail, and the
two intervals fire; nothing is assumed of the admin, the visitor or what arrives.

Mutants. Each property is paired with a seeded fault of the kind it exists for
(`PROJECT.json`, "mutants"; the definitions marked "Seeded fault" or "variant" in the
modules), and TLC finds the property violated under it.

## What is proved

Every invariant, action property and refinement that the passing runs check is
also a theorem of the specification, for every value of the constants;
`ScoredOnEvidence` and `SurvivorsAreStale` are theorems only. Only
liveness is left to TLC alone.

The constants are assumed to be what they are declared as, in `ArenaState`,
`PairProcess`, `Arena`, `HumanGame`, `HumanPlay`, `BrowserSearch`, `ReplayView`
and `WorkerLoop`: sets of numbers or keys (the matches, pairs and processes of
`Arena` finite), bounds that are natural numbers, a `None` that is none of the
values it stands beside, every match with a pair, no repetition before the first move
(`FreshBoard`). TLC evaluates
these assumptions in every run. Each inductive invariant was an invariant of
a TLC run on the instances above before it was proved.

| module | theorem | states |
|---|---|---|
| `ArenaProofs` | `TypeCorrect` | `Spec => []TypeOK` |
| | `NoCancelledCompletion` | `Spec => []CompletedHasNoCancel` |
| | `TallyCorrect` | `Spec => []TallyMatchesPairs` |
| | `EvidenceCorrect` | `Spec => []ScoredOnEvidence` |
| | `ResultsFinal` | `Spec => ResultsAreFinal` |
| `LedgerProofs` | `RunningPairCorrect` | `Spec => []RunningPairHasLiveMatch` |
| | `LiveMatchCorrect` | `Spec => []LiveMatchHasWork` |
| | `CompletedCorrect` | `Spec => []CompletedIsWhole` |
| | `RunnerImplementsLedger` | `Spec => ImplementsLedger` |
| `ProcessProofs` | `EarliestFirst` | `Spec => EarliestMatchFirst` |
| | `CpuIsolation` | `Spec => []OneCutechess`, if no group survives SIGKILL or its worker |
| | `RetriesFresh` | `Spec => RetriesStartFresh` |
| | `SurvivorsStale` | `Spec => []SurvivorsAreStale`, if no group survives its worker |
| `HumanPlayProofs` | `TypesCorrect` | `Spec => []TypeOK` |
| | `RepliesCorrect` | `Spec => []EngineAnswersTheHuman` |
| | `OpenCorrect` | `Spec => []ActiveIsOpen` |
| | `OneActionCorrect` | `Spec => []OneActionAtATime` |
| | `TokenCorrect` | `Spec => []PlaysWithItsToken` |
| | `DeadGamesCorrect` | `Spec => DeadGamesStayDead` |
| `BrowserSearchProofs` | `SearchTypes` | `Spec => []TypeOK` |
| | `OneSearchCorrect` | `Spec => []OneSearchAtATime` |
| | `ScoreCorrect` | `Spec => []ShownIsCurrent` |
| | `CutCorrect` | `Spec => []CutSearchIsAwaited` |
| | `SearchImplementsLatest` | `Spec => ImplementsLatestSearch` |
| `PublicSiteProofs` | `SiteTypes` | `Spec => []TypeOK` |
| | `ExclusiveWork` | `Spec => []OneWorkload` |
| | `DeletedLeavesNothing` | `Spec => []NoOrphanArtifacts` |
| | `ResultsAreWhole` | `Spec => []ReadyIsWhole` |
| | `PlyCorrect` | `Spec => []PlyInGame` |
| | `RowsCorrect` | `Spec => []RowsFollowTheFen` |
| | `MarksCorrect` | `Spec => []MarksAreErrors` |
| | `ButtonsCorrect` | `Spec => []ErrorButtonsCycle` |

### The match runner

For any finite number of matches, pairs and processes, any Wald decisions, any
number of crashes and failed ticks, and (but for `CpuIsolation` and
`SurvivorsStale`) whether or not processes survive.

The inductive invariant `IInv` of `ArenaProofs` adds to the three safety
invariants of the results what the worker knows about the pair it supervises.
None of them is inductive alone. The tally needs that a pair being scored is
RUNNING and not already counted. The evidence needs that from the commit of an
exit code to the scoring the row holds exactly that exit code, and that a pair
polled once more after it was scored (an SPRT tick that failed before clearing its
handle) had exited with 0: otherwise the second poll would overwrite good
evidence. `CompletedHasNoCancel` needs that flags cannot be set while a completion
is being finalised (`LockHeld`). Even the type invariant needs the tally: the Wald
test is asked about `completed + 1` pairs, which is within its domain only because
the pair just played is not among the counted ones (`VerdictType`).

The argument. `ResultSteps` classifies every step: it scores nothing, scores one
pair on evidence, or is a recovery. The tally, the evidence and the finality of
results each follow from this classification in three cases; for recovery
`RecoverPairs` says what it does to each pair, and the cardinalities are added by
the library's `FS_Union`. In the same way every step but the commit of a
finalisation and a recovery completes no match (`NoneCompleted`), and those two
decide on committed flags.

`WInv` of `LedgerProofs` adds what the rows in the worker's memory are still worth
(`Memory`), since a tick acts on rows it read before operators changed them: past
its recovery the worker supervises the only RUNNING pair (`OnBoard`); a match that
was loaded to be launched may have been paused or cancelled since, but its pairs
are as they were and no older match has started (`StillRunnable`); all that
recovery loaded as in play still is, and nothing else (`StillInPlay`). With that,
the three invariants about rows hold together: `LiveMatchHasWork` alone is not
inductive, because only the worker ends pairs and it decides on what it remembers.
`RunnerImplementsLedger` maps every step to one step of `PairLedger` or none: a
launch begins, a scoring scores, and recovery, which may settle many pairs, is one
step of the ledger because at most one pair was RUNNING. `EarliestFirst` follows
from `StillRunnable` at the commit of a launch.

`CpuIsolation` assumes `~SurviveKill` and `~SurviveCrash`, the deployed process rules
(`KillMode=mixed`, nothing stuck in the kernel) and those of the run that checks
it. Without them the property is false, as `SurvivorKeepsIdentity` and
`OrphanHasIdentity` show.

`RetriesFresh` needs, beyond `WInv`, that a PENDING pair has no exit code left over and a
supervised one none but that of its exited process (`Fresh`); otherwise a launch could
meet an old one.
`SurvivorsStale` assumes `~SurviveCrash` only. Its invariant `Groups` says whose every
live group is: the supervised one plays the current attempt or, between Popen and the
commit, the next; any other was left by an older attempt or by a pair that is out, or
was left behind by a shutdown and waits for the recovery that has not run yet. The
attempt number, which every retry increments, carries the proof. TLC agrees on the
instance of `arena_faults` with `SurviveCrash = FALSE` (106 711 states); no run is listed
for it.

### Human play

For any games, moves, requests at once, plies and faults. `HumanInv` is
`GameInv /\ Page /\ Session`.

`GameInv` is about the server. A request decides on a row it read (`CallOK` keeps
which), the executor on plies it loaded: `Searched` says that what is searched is
the start of what was played, whatever came after. So a reply that passes the
compare-and-swap and whose ply is free was computed on exactly the plies before it.
`Owing` says that a reply is owed only to a human ply, or to nobody at the start of
a game the human plays as Black. `EngineAnswersTheHuman` without them is not
inductive: a revision can come back to the one being searched.

`Page` says that what is shown was created and what is reviewed exists. `Session`
holds until a reload: one start or move at a time, under `busy`, with the token of
the page, and an open picker leaves the board idle. It was found by proof attempts:
`OneActionAtATime` as it was first stated, for reloaded pages too, is not
preserved, and a longer run of the code violates it (the picker in the list
below), beyond what the instance reaches. `DeadGamesStayDead` follows from `OneWay`: what the writes by id
can do to a row whatever they read.

### Browser analysis

For any positions, depths and number of requests. `SearchInv` follows the one search
there is through both message queues: `Flight` says that while the hook believes
that a search is under way it is on its way to the engine (`Sent`), in it
(`Running`) or on its way back (`Back`), and otherwise nothing of a search is
anywhere (`Resting`). `Stops`: a stop the hook remembers was sent for this search,
and no stop reaches another one, which needs their order in the queue (a stop that
crosses a bestmove is read before the next `go`). `Asked`: the request on the board
is that of the last effect, and a result belongs to it. `Closed`: without a session
there is nothing. `OneSearchAtATime` counts over two queues and is only inductive
with the place of each message.

`SearchImplementsLatest` maps a render of new props to `Ask`, a `go` to `Turn`, a
line that is taken to `Show`, and the engine's own steps to nothing.

### Analysis, admin and pages

For any bounds on requests, faults and polls and any games and analyses.

`SiteInv` has four parts: `Shape` (the types of the files), `Apart` (while the
analysis thread runs, the main thread polls and no pair runs; while a reply is
searched, no pair runs), `Gone` (a deletion is of a match that is over, and its
rows go after its files) and `Written` (a file about to be moved into place is
complete). `OneWorkload` and `ReadyIsWhole` are not inductive alone: the first needs
to know that the main thread does not search while the analysis is on, the second
what the temporary file holds.

`PageInv` of `ReplayProofs` is about the replay: diagnostics come with the last
fetch and are those of the game on the page, nothing moves before, and the ply is
one of the game. Whatever a jump leads to is a ply of the game only because the
analysis has one position more than the game has moves.

The rest of `ReplayProofs` says what the page computes from any game and any
analysis. The prover cannot instantiate the library's induction theorems, but the
well-foundedness of the numbers is among them, and induction is written out as
"the least number for which it fails" (`Least`). By it the number of plies of one
colour is counted (`CountSame`), the FEN counter is put in closed form
(`FenNumberIs`), and a fold over a sequence, which is a recursion over the
subsets of its indices, is shown to exist (`FoldExists`) and is then followed
index by index:

* `RowsAre`: the move list is `After(N)`, in which row r holds the plies 2r - 1 and
  2r, or 2r - 2 and 2r - 1 when Black begins. Both descriptions of a ply's number,
  the counting in `App.jsx` and the FEN rule, are this closed form;
* `BiggestIs`: no known swing exceeds the biggest one, and it is a known swing
  unless none loses anything;
* `ErrorsAre`: the plies of the error buttons are the marked ones;
* `Ring`: forward and back undo each other on any set of errors.

`LiveInv` (in `SiteTypes`): the live page's phase is set together with the payload
it comes from.

### What is only model-checked

Liveness: `QueuedMatchSettles`, `StopRequestServed`, `OwedReplySettles`,
`ThinkingEnds`, `AnalysisSettles`, `PairNotStarved`, `RequestIsServed`,
`AutoplayEnds`, `LiveSettles`. They need fairness and ENABLED, which are beyond
this prover. The statements the code does not keep are refuted by the
`claim_...` runs.

## Where the code and its documentation disagree

The runs named `claim_...` check one statement each and TLC refutes it:

* `CancelWins` (`scheduler.py:549`). "Cancel wins over both pause and automatic
  completion" (`scheduler.py:13-14`, `:541`). Two writers ignore the flag. The run
  reports the shorter behaviour, `CancelBeatsPause`: the pair of a PAUSING match has
  ended, the tick reads the row, the operator cancels (200), the tick commits
  PAUSED; the cancelled match is parked until somebody resumes it. The other one is
  `CancelBeatsSprt`: `_maybe_sprt` commits its verdict (`scheduler.py:495`) without
  looking at the flags, so that a match cancelled during its last pair ends
  `SPRT_MAX_PAIRS` with the cancel set (put it in the cfg in place of `CancelWins` to see
  it).
* `SprtStopsAtBoundary` (`recovery.py:680`). A pair that recovery scores is not
  put to the Wald test, although the test runs "after every VERIFIED COMPLETE
  pair" (`scheduler.py:444-447`). A crash between the commit of the exit code and
  the scoring sends a decided match back to the queue.
* `ForceCancelIsApplied` (`api/tournaments.py:703`). A force-cancel of a PAUSED
  match is accepted, but no tick looks at a PAUSED match; the flag waits for a
  resume or a restart of the worker.
* `EndedNeverRuns` (`scheduler.py:606`). The launch writes `RUNNING` by id over a
  cancel that committed after the row was read, although CANCELLED has no
  successor (`models.py:80`): read, cancel (200, CANCELLED), launch, and the commit of
  the launch says RUNNING. The pair is played; the flag ends the match at its end.

* `SilentEngineReported` (`useStockfishAnalysis.js:163-164`). "A worker that loads
  but never answers `uci` must not leave the page stuck on `searching`". The init
  timeout reports it once; the next navigation sets "searching" again and arms
  nothing.
* `YourMoveCanBePlayed` (`HumanPlayApp.jsx:521`). A click in the move list starts a
  review although the game goes on; the status line says it is your move, no piece
  can be moved, and the review controls that would lead back are shown for ended
  games only.
* `RevisionCountsMoves` (`human_game.py:272`). Each accepted move is said to
  increment the revision (`models.py:463-464`). Two submits that both read revision 1
  both write 2; the second counts the plies after the first has committed, so the
  unique ply does not stop it and the log has one ply more than the revision says.

Other divergences are stated without a run of
their own, those of the match runner in `ArenaClaims` and the last two at the end of
`HumanPlay`; adding the name to a copy of a cfg reproduces them:

* `SurvivorKeepsIdentity` with `SurviveKill = TRUE` and a fault: "a group that survives
  SIGKILL keeps its identity" (`recovery.py:451-452`). Launch, shutdown, the group
  survives, recovery keeps its identity, and the next heartbeat overwrites it
  (`worker.py:153`).
* `OrphanHasIdentity` with `SurviveCrash = TRUE`: between Popen and the commit of
  `_record_active_process` a crash leaves a group that no row names
  (`scheduler.py:874`). The deployed KillMode hides it.
* `RunningFollowsTable`: recovery takes RUNNING to QUEUED, which
  `TOURNAMENT_TRANSITIONS` (`models.py:69`) does not list.
* `ResultHasArtifacts`: "Every completed tournament produces ... `summary.json`"
  (`README.md`), but a failure after the SPRT commit leaves none and nothing
  retries it.
* `OwedGameIsOpen`: "Terminal position with a pending flag can only be a race with
  expiry/finish" (`human_engine.py:355-356`). No race is needed: the API judges the
  outcome on `chess.Board(current_fen)` (`human_game.py:275`, `:315`), which has no
  history, so a move of the human that completes a fivefold repetition is accepted
  and a reply owed. The executor clears the flag, the row stays ACTIVE, and the page says
  "Engine to move" (`HumanPlayApp.jsx:505`), polls no more (`:114`) and offers neither a
  move nor a resignation (`:639`) until the game expires.
* `CorruptHistoryFails`, with one fault, three plies and `FairSpec`: "fail the game rather
  than spawn an engine on a corrupt history" (`human_engine.py:348-350`). Only ValueError
  is caught there, but `Board.push` raises an AssertionError for a move from an empty
  square, as the log of two raced submits of one move has it. The exception
  reaches `worker.py:86`, nothing is written and every tick does the same again until a
  deadline; `next_pending_game` takes the oldest game first, so replies owed in other
  games wait as long (with one game ACTIVE at a time the instances do not show that).

Met while reading and modelling the other parts, without a run:

* analysis requests of matches that ended by an SPRT verdict are accepted and never
  served: `analysis.py:103` asks for `COMPLETED`, although every contract is to use
  `RESULT_TERMINAL_STATUSES` (`models.py:86-91`). `RequestIsServed` speaks of
  COMPLETED matches for this reason;
* a session restore that answers after a new game was started replaces it with its
  token (`HumanPlayApp.jsx:160`), and a poll that then meets a 401 drops a healthy
  session (`:128`). An answer to a resignation puts the old game back in the same
  way (`:244`);
* a promotion picker left open survives the end of its game
  (`HumanPlayApp.jsx:379`): resign with the picker open, start a new game, and let
  the restore of an earlier reload (`:160`) answer while the create is under way; an
  ACTIVE game stands behind the picker, and choosing a piece submits a move beside
  the create;
* a move refused with 410 shows EXPIRED over whatever ended the game (`:227`), and on
  the server a stale resignation, submit or expiry relabels an ended game;
* a payload shorter than the ply under review throws while rendering (`:431`); the
  model has it as the phase "crashed";
* the live page's evaluation bar asks for a score and a switch, not for a running
  session (`LiveApp.jsx:269`): without telemetry it keeps the last position's score;
* without telemetry the live payload falls back to the opening's FEN
  (`public.py:353`), although `LiveApp.jsx:108` says that the fallback fails closed;
* a deletion whose rmtree meets a file the analysis writes fails half-way: each file may
  be left or gone, the rows stay (`RemoveStops`).

## What is not modelled, and the plan

Modelled: the match runner, because every other part depends on its rows and its
races decide whether results are right; then human play from the browser to the
executor, the arbitration of the worker with analysis and the admin's files, the
browser's analysis, and the replay and live pages.

Simplifications inside the modelled parts, beyond those named above: the PGN of a
human game, rate limits by hour and address, and two creations at once are left
out; the UCI dialogue of a search is one step that answers or fails; the drawing of
boards, clocks and score texts, the live engine panels, and keys and autoplay of
the review page are left out; `WorkerLoop` knows of the scheduler only that a pair
is queued, runs and ends, which is what `Arena` details.

Left, in this order:

1. Promotion of engine versions as plan and execution, two operators at once.
2. Algorithms: the pentanomial tally and the Wald test over bounded inputs, the
   checks of the verifier, the live-log parser, the sampling of openings.

Not modelled: labels, history lists and server-rendered pages (read-only views of
committed rows), creation, presets, builds and model artifacts (validation of one
request; the result is `Init`, a refusal at launch is `LaunchFails`), ratings
(floating-point estimation), migrations, CSRF and origin checks (no state),
one-shot administration scripts, and the release switch of the deployment.
