---------------------------- MODULE BrowserSearch ----------------------------
(***************************************************************************)
(* The browser Stockfish session of the Replay and Live pages: the control *)
(* panel, the useStockfishAnalysis hook with its refs and timers, the      *)
(* singleton web worker, and the engine inside it (external).              *)
(*                                                                         *)
(* A step is one JavaScript task: a render, the passive effects of one     *)
(* render, one message handler, one timer, or one step of the engine       *)
(* thread.  The two queues are the postMessage channels of the worker.     *)
(***************************************************************************)
EXTENDS Integers, Sequences, FiniteSets

CONSTANTS Fens,      \* the positions the page can show
          Depths,    \* ANALYSIS_DEPTHS
          None,
          MaxGen     \* bound: requests of one page load

ASSUME PageAssumption ==
    /\ Fens # {} /\ Depths # {} /\ MaxGen \in Nat \ {0}
    /\ LET Reqs == [gen : 1 .. MaxGen, fen : Fens, depth : Depths] IN
       None \notin Reqs \cup [of : Reqs, signedFor : Fens]

VARIABLES
    page,       \* the props of the last render
    seen,       \* the props its effects last ran with
    gen, pending, requested, uciReady, searching, stopping,   \* refs
    timers,     \* the timeouts that are armed
    status, result,       \* UI state of the hook
    toEngine, fromEngine, \* the two message queues
    engine      \* the web worker: mode, the search it runs, has it scored

refs == <<gen, pending, requested, uciReady, searching, stopping>>
ui   == <<status, result>>
link == <<toEngine, fromEngine>>
vars == <<page, seen, refs, timers, ui, link, engine>>

Props    == [enabled : BOOLEAN, fen : Fens, depth : Depths]
Requests == [gen : 1 .. MaxGen, fen : Fens, depth : Depths]

-----------------------------------------------------------------------------
(* The worker and its messages. *)

\* "none": no worker exists.  "ok", "stuck" (answers late or never), "dead".
NoWorker == [mode |-> "none", run |-> None, told |-> FALSE]
FreshWorker == [NoWorker EXCEPT !.mode = "ok"]

Cmd(c)  == [cmd |-> c, of |-> None]
Go(r)   == [cmd |-> "go", of |-> r]      \* "position fen ..." and "go depth N"
Line(l) == [line |-> l, of |-> None, cut |-> FALSE]
Info(r) == [line |-> "info", of |-> r, cut |-> FALSE]
BestMove(r, cut) == [line |-> "bestmove", of |-> r, cut |-> cut]

HasWorker == engine.mode # "none"

\* disposeStockfishWorker: terminate() drops the thread and both queues.
DisposeWorker == /\ engine' = NoWorker
                 /\ toEngine' = << >> /\ fromEngine' = << >>

\* getStockfishWorker: a fresh worker is told "uci"; the constructor may throw.
GetWorker == /\ engine' = FreshWorker
             /\ toEngine' = <<Cmd("uci")>> /\ fromEngine' = << >>
LoadFails == UNCHANGED <<engine, link, timers>>
\* The bring-up effect: listeners and the init timeout of a new worker.
BringUp == GetWorker /\ timers' = timers \cup {"init"}

\* serve: the request becomes the running one.
Serve(r) == /\ requested' = r /\ searching' = TRUE
            /\ toEngine' = Append(toEngine, Go(r))

-----------------------------------------------------------------------------
(* The page: panel buttons, navigation, a live payload, a reload. *)

\* What the panel says; "score" is the only case that shows the result.
Panel == CASE ~page.enabled -> "start"
           [] page.enabled /\ status = "error" -> "unavailable"
           [] page.enabled /\ status # "error" /\ result # None -> "score"
           [] OTHER -> status

\* A render with other props.  React runs the effects of a render before the
\* next one; a render with analysis on costs a generation.
Render(p) == /\ page = seen /\ p # page
             /\ p.enabled => gen < MaxGen
             /\ page' = p
             /\ UNCHANGED <<seen, refs, timers, ui, link, engine>>

ToggleAnalysis == Render([page EXCEPT !.enabled = ~@])
ChangeDepth == page.enabled /\ \E d \in Depths : Render([page EXCEPT !.depth = d])
Navigate == \E f \in Fens : Render([page EXCEPT !.fen = f])
\* One live poll can change the position and start or end the session.
LivePayload == \E f \in Fens \ {page.fen} :
                    Render([page EXCEPT !.fen = f, !.enabled = ~@])

-----------------------------------------------------------------------------
(* The effects of a render. *)

OldRequest == [gen |-> gen, fen |-> page.fen, depth |-> page.depth]   \* variant
\* The FEN/depth effect up to its early returns: a new generation is pending.
Request == [gen |-> gen + 1, fen |-> page.fen, depth |-> page.depth]
NewRequest == /\ gen' = gen + 1 /\ pending' = Request
              /\ status' = "searching" /\ result' = None

\* Analysis starts: both effects run, the request waits for the handshake.
StartSession == /\ page.enabled /\ ~seen.enabled
                /\ seen' = page
                /\ (BringUp \/ LoadFails) /\ NewRequest
                /\ UNCHANGED <<page, requested, uciReady, searching, stopping>>

\* The cleanup of the bring-up effect.
StopSession == /\ ~page.enabled /\ seen.enabled
               /\ seen' = page
               /\ DisposeWorker
               /\ pending' = None /\ requested' = None /\ timers' = {}
               /\ uciReady' = FALSE /\ searching' = FALSE /\ stopping' = FALSE
               /\ UNCHANGED <<page, gen, ui>>

\* Variant: the stop is posted but not remembered.
ForgetStop == /\ toEngine' = Append(toEngine, Cmd("stop"))
              /\ timers' = timers \cup {"stop"}
              /\ UNCHANGED <<requested, searching, stopping>>
\* Stop the running search; its bestmove will serve what is pending then.
PostStop == /\ stopping' = TRUE
            /\ toEngine' = Append(toEngine, Cmd("stop"))
            /\ timers' = timers \cup {"stop"}
            /\ UNCHANGED <<requested, searching>>

\* A request while there is no engine, or while a stop is under way, waits.
NoServe == UNCHANGED <<requested, searching, stopping, timers, toEngine>>
ServeNow == Serve(Request) /\ UNCHANGED <<stopping, timers>>

\* Variant: a new request does not wait for the old search.
DispatchAtOnce == IF HasWorker /\ uciReady THEN ServeNow ELSE NoServe
Dispatch == CASE ~HasWorker \/ ~uciReady \/ stopping -> NoServe
              [] HasWorker /\ uciReady /\ ~stopping /\ searching -> PostStop
              [] OTHER -> ServeNow

ChangeRequest == /\ page.enabled /\ seen.enabled /\ page # seen
                 /\ seen' = page
                 /\ NewRequest /\ Dispatch
                 /\ UNCHANGED <<page, uciReady, fromEngine, engine>>

IdleRender == /\ ~page.enabled /\ ~seen.enabled /\ page # seen
              /\ seen' = page
              /\ UNCHANGED <<page, refs, timers, ui, link, engine>>

-----------------------------------------------------------------------------
(* onMessage, onError and the timeouts. *)

Receive(l) == /\ fromEngine # << >> /\ Head(fromEngine).line = l
              /\ fromEngine' = Tail(fromEngine)
              /\ UNCHANGED <<page, seen, gen, pending, engine>>

OnUciok == /\ Receive("uciok")
           /\ uciReady' = TRUE /\ status' = "ready"
           /\ toEngine' = Append(toEngine, Cmd("isready"))
           /\ timers' = (timers \ {"init"}) \cup {"barrier"}
           /\ UNCHANGED <<requested, searching, stopping, result>>

OnReadyok == /\ Receive("readyok")
             /\ timers' = timers \ {"barrier"}
             /\ IF pending # None /\ ~searching /\ ~stopping
                THEN Serve(pending) /\ status' = "searching"
                ELSE UNCHANGED <<requested, searching, toEngine, status>>
             /\ UNCHANGED <<uciReady, stopping, result>>

\* A score counts only for the latest request, outside a stop; its sign is
\* taken from the side to move of the position that was sent.
AnyScore == pending # None /\ requested # None   \* variant
Wanted == ~stopping /\ pending # None /\ requested # None
                    /\ requested.gen = pending.gen
OnInfo == /\ Receive("info")
          /\ result' = IF Wanted
                       THEN [of |-> Head(fromEngine).of, signedFor |-> requested.fen]
                       ELSE result
          /\ UNCHANGED <<requested, uciReady, searching, stopping, timers, status,
                         toEngine>>

\* A search that reached its depth ends the session's work; a stopped one
\* makes room for the latest request.
NaturalEnd == /\ status' = "ready" /\ searching' = FALSE
              /\ UNCHANGED <<requested, stopping, timers, toEngine>>
Outstanding == pending # None /\ (requested = None \/ requested.gen # pending.gen)
\* Variant: the latest request is not restarted.
StoppedForGood == /\ stopping' = FALSE /\ timers' = timers \ {"stop"}
                  /\ searching' = FALSE /\ UNCHANGED <<requested, toEngine, status>>
StoppedEnd == /\ stopping' = FALSE /\ timers' = timers \ {"stop"}
              /\ IF Outstanding
                 THEN Serve(pending) /\ status' = "searching"
                 ELSE searching' = FALSE /\ UNCHANGED <<requested, toEngine, status>>
OnBestmove == /\ Receive("bestmove")
              /\ IF stopping THEN StoppedEnd ELSE NaturalEnd
              /\ UNCHANGED <<uciReady, result>>

OnError == /\ Receive("error")
           /\ status' = "error"
           /\ UNCHANGED <<requested, uciReady, searching, stopping, timers, result,
                          toEngine>>

\* The three timeouts, in whatever order they elapse.
Elapse(t) == /\ t \in timers
             /\ timers' = timers \ {t}
             /\ UNCHANGED <<page, seen, refs, result, link, engine>>
InitTimeout == /\ Elapse("init")
               /\ status' = IF uciReady THEN status ELSE "error"
BarrierTimeout == Elapse("barrier") /\ status' = "error"
StopTimeout == /\ Elapse("stop")
               /\ status' = IF stopping THEN "error" ELSE status

-----------------------------------------------------------------------------
(* The engine thread (external): commands in order, one search. *)

EngineFrame == UNCHANGED <<page, seen, refs, timers, ui>>
Say(line) == fromEngine' = Append(fromEngine, line)

Obey == /\ engine.mode = "ok" /\ toEngine # << >>
        /\ toEngine' = Tail(toEngine)
        /\ LET c == Head(toEngine) IN
           \/ c.cmd = "uci" /\ Say(Line("uciok")) /\ UNCHANGED engine
           \/ c.cmd = "isready" /\ Say(Line("readyok")) /\ UNCHANGED engine
           \/ /\ c.cmd = "go" /\ UNCHANGED fromEngine
              /\ engine' = [engine EXCEPT !.run = c.of, !.told = FALSE]
           \/ /\ c.cmd = "stop" /\ engine.run # None
              /\ Say(BestMove(engine.run, TRUE))
              /\ engine' = [engine EXCEPT !.run = None]
           \/ c.cmd = "stop" /\ engine.run = None /\ UNCHANGED <<fromEngine, engine>>
        /\ EngineFrame

\* The score lines of a search; one stands for all of them.
Score == /\ engine.mode = "ok" /\ engine.run # None /\ ~engine.told
         /\ Say(Info(engine.run))
         /\ engine' = [engine EXCEPT !.told = TRUE]
         /\ UNCHANGED toEngine /\ EngineFrame

ReachDepth == /\ engine.mode = "ok" /\ engine.run # None /\ engine.told
              /\ Say(BestMove(engine.run, FALSE))
              /\ engine' = [engine EXCEPT !.run = None]
              /\ UNCHANGED toEngine /\ EngineFrame

\* The engine stalls, comes back, or dies with an "error" event.
Stall == /\ engine.mode = "ok" /\ engine' = [engine EXCEPT !.mode = "stuck"]
         /\ UNCHANGED link /\ EngineFrame
Wake  == /\ engine.mode = "stuck" /\ engine' = [engine EXCEPT !.mode = "ok"]
         /\ UNCHANGED link /\ EngineFrame
Die   == /\ engine.mode \in {"ok", "stuck"}
         /\ engine' = [engine EXCEPT !.mode = "dead"] /\ Say(Line("error"))
         /\ UNCHANGED toEngine /\ EngineFrame

-----------------------------------------------------------------------------
Init == /\ page \in [enabled : {FALSE}, fen : Fens, depth : Depths]
        /\ seen = page
        /\ gen = 0 /\ pending = None /\ requested = None
        /\ uciReady = FALSE /\ searching = FALSE /\ stopping = FALSE
        /\ timers = {} /\ status = "idle" /\ result = None
        /\ toEngine = << >> /\ fromEngine = << >> /\ engine = NoWorker

\* A page load discards everything, the worker included.
Reload == /\ page' = [page EXCEPT !.enabled = FALSE] /\ seen' = page'
          /\ gen' = 0 /\ pending' = None /\ requested' = None
          /\ uciReady' = FALSE /\ searching' = FALSE /\ stopping' = FALSE
          /\ timers' = {} /\ status' = "idle" /\ result' = None
          /\ DisposeWorker

User    == ToggleAnalysis \/ ChangeDepth \/ Navigate \/ LivePayload \/ Reload
Effects == StartSession \/ StopSession \/ ChangeRequest \/ IdleRender
Deliver == OnUciok \/ OnReadyok \/ OnInfo \/ OnBestmove \/ OnError
Timeout == InitTimeout \/ BarrierTimeout \/ StopTimeout
Engine  == Obey \/ Score \/ ReachDepth

Next == User \/ Effects \/ Deliver \/ Timeout \/ Engine \/ Stall \/ Wake \/ Die

Spec == Init /\ [][Next]_vars

\* The event loop runs effects and messages; an engine that is not stalled
\* for good works on; an armed timeout elapses.  Users and faults are free.
FairSpec == /\ Spec
            /\ WF_vars(Effects) /\ WF_vars(Deliver) /\ WF_vars(Timeout)
            /\ SF_vars(Engine)

-----------------------------------------------------------------------------
(* What must hold. *)

Timers   == {"init", "barrier", "stop"}
Statuses == {"idle", "ready", "searching", "error"}
Score_   == [of : Requests, signedFor : Fens]

\* The refs, timers and messages have the shapes the hook gives them.
TypeOK ==
    /\ page \in Props /\ seen \in Props
    /\ gen \in 0 .. MaxGen
    /\ pending \in Requests \cup {None} /\ requested \in Requests \cup {None}
    /\ {uciReady, searching, stopping} \subseteq BOOLEAN
    /\ timers \subseteq Timers
    /\ status \in Statuses /\ result \in Score_ \cup {None}
    /\ toEngine \in Seq([cmd : {"uci", "isready", "go", "stop"},
                         of : Requests \cup {None}])
    /\ fromEngine \in Seq([line : {"uciok", "readyok", "info", "bestmove", "error"},
                           of : Requests \cup {None}, cut : BOOLEAN])
    /\ engine \in [mode : {"none", "ok", "stuck", "dead"},
                   run : Requests \cup {None}, told : BOOLEAN]

\* How many searches are between the serve that starts them and the handling
\* of their bestmove.
Gos       == Cardinality({i \in DOMAIN toEngine : toEngine[i].cmd = "go"})
BestMoves == Cardinality({i \in DOMAIN fromEngine : fromEngine[i].line = "bestmove"})
Searches  == Gos + BestMoves + (IF engine.run = None THEN 0 ELSE 1)

\* The hook's idea of a running search is the truth: searchingRef is set
\* exactly while one search is on its way to, in, or back from the engine, so
\* the engine never gets a "go" while it searches (lines 67 and 192-196).
OneSearchAtATime == Searches = IF searching THEN 1 ELSE 0

\* A score on the panel is the score of the position on the board, at the
\* depth asked for, with the sign of its own side to move (lines 120-130).
ShownIsCurrent ==
    page = seen /\ Panel = "score" =>
        /\ result.of.fen = page.fen /\ result.of.depth = page.depth
        /\ result.of.gen = gen
        /\ result.signedFor = page.fen

\* A bestmove the hook takes for a natural end comes from a search that
\* reached its depth: a stop never cuts the search after the one it was for,
\* however the stop crosses a bestmove already on its way (lines 131-147).
CutSearchIsAwaited ==
    \A i \in 1 .. Len(fromEngine) : fromEngine[i].cut => stopping

\* The session shows and searches the latest request only.
Latest == INSTANCE LatestSearch WITH
              want  <- pending,
              run   <- IF searching THEN requested ELSE None,
              shown <- IF pending = None \/ result = None THEN None ELSE result.of
ImplementsLatestSearch == Latest!Spec

\* Whatever was navigated, stopped, timed out or answered late, a session ends
\* with the finished score of the position on the board, unless the user ends
\* it, no worker could be made, or the engine is dead or stuck for good
\* (lines 27-30 and 148-155).
Answered == /\ page = seen /\ Panel = "score" /\ status = "ready"
            /\ result.of.fen = page.fen /\ result.of.depth = page.depth
AnalysisSettles ==
    page.enabled ~> \/ ~page.enabled \/ Answered
                    \/ engine.mode \in {"none", "dead"}
                    \/ [](engine.mode = "stuck")

\* What the code says of a silent engine: "a worker that loads but never
\* answers uci must not leave the page stuck on searching" (lines 163-164).
SilentEngineReported ==
    (HasWorker /\ ~uciReady /\ Panel = "searching") ~>
        (~HasWorker \/ uciReady \/ Panel = "unavailable")
=============================================================================
