-------------------------- MODULE PublicSiteProofs --------------------------
(***************************************************************************)
(* What the worker's threads, the admin and the faults preserve in         *)
(* PublicSite, for any bounds, games and analyses.  The pages only read,   *)
(* and show what ReplayProofs says of the game and the analysis they got.  *)
(***************************************************************************)
EXTENDS PublicSite, ReplayProofs

-----------------------------------------------------------------------------
(* The inductive invariant. *)

\* The shape of the files, and where the main thread can be.
Shape == files \in AnyFiles /\ loop \in {"poll", "reply"}

\* The analysis thread starts at a boundary and the main thread then waits for
\* it; a reply is searched between two pairs.
Apart == /\ job # "off" => loop = "poll" /\ pair # "running"
         /\ loop = "reply" => pair # "running"

\* A deletion is of a match that is over, and its rows go after its files.
Gone == /\ admin \in {"rmtree", "rmdir", "rows"} => match \in Terminal
        /\ admin = "rows" => files = NoFiles
        /\ match = "deleted" => files = NoFiles /\ admin = "none"

\* The temporary file is complete before it can be moved into place.
Written == /\ files.res # "part"
           /\ job \in {"recheck", "move"} => files.tmp # "part"

SiteInv == Shape /\ Apart /\ Gone /\ Written

-----------------------------------------------------------------------------
(* Every part of the site preserves it. *)

LEMMA InitSite == Init => SiteInv
BY DEF Init, SiteInit, SiteInv, Shape, Apart, Gone, Written, AnyFiles, RunDir,
       Terminal, ResultTerminal

\* The main thread looks at the analysis thread before anything else.
LEMMA LoopSite == SiteInv /\ Loop => SiteInv'
<1> SUFFICES ASSUME SiteInv, MainThread, UNCHANGED <<admin, files>>
             PROVE  SiteInv'
    BY DEF Loop
<1> USE DEF SiteInv, Shape, Apart, Gone, Written, Terminal, ResultTerminal
<1>1. CASE PairEnds  BY <1>1 DEF PairEnds, May, NoAnalysis
<1>2. CASE TakeMove  BY <1>2 DEF TakeMove, AtBoundary, May, NoAnalysis
<1>3. CASE MoveThenTick  BY <1>3 DEF MoveThenTick, TickLaunches
<1>4. CASE LaunchPair  BY <1>4 DEF LaunchPair, AtBoundary, May, NoAnalysis, TickLaunches
<1>5. CASE StartAnalysis  BY <1>5 DEF StartAnalysis, AtBoundary, May, NoAnalysis
<1> QED  BY <1>1, <1>2, <1>3, <1>4, <1>5 DEF MainThread

\* Without a directory, or without a match, the analysis thread writes nothing.
LEMMA AnalysisSite == SiteInv /\ Analysis => SiteInv'
<1> SUFFICES ASSUME SiteInv, AnalysisThread, UNCHANGED admin
             PROVE  SiteInv'
    BY DEF Analysis
<1> USE DEF SiteInv, Shape, Apart, Gone, Written, AnyFiles, NoFiles, RunDir, Goto, Keep, Put
<1>1. CASE Searched \/ SearchFails \/ FirstCheck \/ FailCheck
      BY <1>1 DEF Searched, SearchFails, FirstCheck, FailCheck
<1>2. CASE OpenTmp  BY <1>2 DEF OpenTmp
<1>3. CASE WriteTmp  BY <1>3 DEF WriteTmp
<1>4. CASE SecondCheck  BY <1>4 DEF SecondCheck, MatchStillExists
<1>5. CASE MoveResult  BY <1>5 DEF MoveResult
<1>6. CASE RecordError  BY <1>6, ZenonT(60) DEF RecordError
<1> QED  BY <1>1, <1>2, <1>3, <1>4, <1>5, <1>6 DEF AnalysisThread

\* The admin asks only for matches that are over, one handler at a time.
LEMMA AdminSite == SiteInv /\ (Manage \/ Handle) => SiteInv'
<1> SUFFICES ASSUME SiteInv, Admin \/ Handler
             PROVE  SiteInv'
    BY DEF Manage, Handle
<1> USE DEF SiteInv, Shape, Apart, Gone, Written, AnyFiles, NoFiles, RunDir, Put, Keep,
            Then, Ask, Continue, worker, Terminal, ResultTerminal
<1>1. CASE Request  BY <1>1 DEF Request
<1>2. CASE Delete  BY <1>2 DEF Delete
<1>3. CASE ClearResult \/ ClearError  BY <1>3 DEF ClearResult, ClearError
<1>4. CASE RemoveFiles  BY <1>4 DEF RemoveFiles
<1>5. CASE RemoveStops
  <2>1. PICK left \in LeftOver : files' = left
        BY <1>5 DEF RemoveStops
  <2>2. /\ files' \in AnyFiles /\ files'.res \in {files.res, "no"}
        /\ files'.tmp \in {files.tmp, "no"}
        BY <2>1 DEF LeftOver
  <2>3. admin' = "none" /\ UNCHANGED <<match, pair, owed, loop, job>> /\ match \in Terminal
        BY <1>5 DEF RemoveStops
  <2> QED  BY <2>2, <2>3
<1>6. CASE RemoveDir  BY <1>6 DEF RemoveDir
<1>7. CASE DeleteRows  BY <1>7 DEF DeleteRows
<1> QED  BY <1>1, <1>2, <1>3, <1>4, <1>5, <1>6, <1>7 DEF Admin, Handler

\* A dead worker has no thread left; a dead API process has no handler.
LEMMA OutsideSite == SiteInv /\ (Arrivals \/ Breaks) => SiteInv'
<1> USE DEF SiteInv, Shape, Apart, Gone, Written, worker
<1>1. SiteInv /\ Arrivals => SiteInv'
      BY DEF Arrivals, QueueMatch, AskMove
<1>2. SiteInv /\ WorkerDies => SiteInv'
      BY DEF WorkerDies
<1>3. SiteInv /\ ApiDies => SiteInv'
      BY DEF ApiDies
<1> QED  BY <1>1, <1>2, <1>3 DEF Breaks

\* The pages change nothing of the site.
PageStep == \/ Visit \/ Load \/ Lost \/ Browse \/ Autoplay
            \/ \E s \in Slots : SendPoll(s) \/ AnswerPoll(s) \/ LosePoll(s) \/ ShowPoll(s)

LEMMA PagesSite == SiteInv /\ (PageStep \/ UNCHANGED vars) => SiteInv'
<1>1. PageStep \/ UNCHANGED vars => UNCHANGED <<match, worker, admin, files>>
      BY DEF PageStep, vars, siteVars, Visit, OnReplay, Load, Lost, Browse, Autoplay,
             OnLive, SendPoll, AnswerPoll, LosePoll, ShowPoll
<1> QED  BY <1>1 DEF SiteInv, Shape, Apart, Gone, Written, worker

\* The inductive invariant holds throughout.
THEOREM SiteCorrect == Spec => []SiteInv
<1>1. SiteInv /\ [Next]_vars => SiteInv'
      BY LoopSite, AnalysisSite, AdminSite, OutsideSite, PagesSite DEF Next, PageStep
<1> QED  BY InitSite, <1>1, PTL DEF Spec

-----------------------------------------------------------------------------
(* What follows from it. *)

\* Pairs, replies and analyses never overlap (worker.py, _worker_step).
THEOREM ExclusiveWork == Spec => []OneWorkload
<1>1. SiteInv => OneWorkload
  <2> DEFINE Runs(w) == \/ w = "pair" /\ pair = "running"
                        \/ w = "reply" /\ loop = "reply"
                        \/ w = "analysis" /\ job # "off"
             Works == {w \in {"pair", "reply", "analysis"} : Runs(w)}
  <2> SUFFICES ASSUME SiteInv  PROVE  Cardinality(Works) <= 1
      BY DEF OneWorkload
  <2>1. CASE Works = {}
        BY <2>1, FS_EmptySet
  <2>2. CASE Works # {}
    <3>1. PICK w : w \in Works  BY <2>2
    <3>2. Works = {w}  BY <3>1 DEF SiteInv, Apart
    <3>3. Cardinality({w}) = 1  BY FS_Singleton
    <3> HIDE DEF Works
    <3> QED  BY <3>2, <3>3
  <2> QED  BY <2>1, <2>2
<1> QED  BY <1>1, SiteCorrect, PTL

\* A deleted match has no files, whatever the analysis was doing meanwhile
\* (analysis.py, _match_still_exists; tournaments.py, admin_tournament_delete).
THEOREM DeletedLeavesNothing == Spec => []NoOrphanArtifacts
<1>1. SiteInv => NoOrphanArtifacts  BY DEF SiteInv, Gone, NoOrphanArtifacts
<1> QED  BY <1>1, SiteCorrect, PTL

\* A result is never half written (analysis.py, tmp.replace).
THEOREM ResultsAreWhole == Spec => []ReadyIsWhole
<1>1. SiteInv => ReadyIsWhole  BY DEF SiteInv, Written, ReadyIsWhole
<1> QED  BY <1>1, SiteCorrect, PTL

-----------------------------------------------------------------------------
(* The replay page. *)

\* Only a fetch or the visitor's own moves change the page.
LEMMA NextPage == PageInv /\ [Next]_vars => PageInv'
<1> SUFFICES ASSUME PageInv, [Next]_vars PROVE PageInv'
    OBVIOUS
<1>1. CASE UNCHANGED replay
      BY <1>1 DEF replay, PageInv, Diagnosed, Analysed, GameOK, N, Ready
<1>2. CASE Load
  <2>1. CASE GetMatch
    <3>1. (files.res # "no") \in BOOLEAN
          OBVIOUS
    <3>2. (\E known \in BOOLEAN : GotMatch(known)) \/ Refused
          BY <2>1, <3>1, Zenon DEF GetMatch
    <3> QED  BY <3>2, LoadPage
  <2>2. CASE GetPgn
        BY <2>2, LoadPage DEF GetPgn
  <2>3. CASE GetAnalysis
    <3>1. \E seq : /\ GotAnalysis(seq)
                   /\ seq = << >> \/ (seq \in Analyses /\ Len(seq) = N + 1)
          BY <2>3 DEF GetAnalysis
    <3> QED  BY <3>1, AnalysisPage
  <2> QED  BY <1>2, <2>1, <2>2, <2>3 DEF Load, OnReplay, Fetch
<1>3. CASE Lost
      BY <1>3, LoadPage DEF Lost, OnReplay
<1>4. CASE Browse \/ Autoplay
      BY <1>4, VisitorPage DEF Browse, Autoplay, OnReplay
<1>5. CASE Loop \/ Analysis \/ Manage \/ Handle \/ Arrivals \/ Breaks \/ Visit
      BY <1>1, <1>5 DEF Loop, Analysis, Manage, Handle, Arrivals, Breaks, Alters, Unseen, Visit
<1>6. CASE \E s \in Slots : SendPoll(s) \/ AnswerPoll(s) \/ LosePoll(s) \/ ShowPoll(s)
      BY <1>1, <1>6 DEF SendPoll, AnswerPoll, LosePoll, ShowPoll, OnLive
<1>7. CASE UNCHANGED vars
      BY <1>1, <1>7 DEF vars
<1> QED  BY <1>2, <1>3, <1>4, <1>5, <1>6, <1>7 DEF Next

\* The inductive invariant of the replay page holds throughout.
THEOREM PageCorrect == Spec => []PageInv
<1> QED  BY PageInit, NextPage, PTL DEF Spec, Init

\* No key, wheel, button, jump or tick of autoplay leaves the game, and a page
\* shows a position of the game from its first render (App.jsx, setPly).
THEOREM PlyCorrect == Spec => []PlyInGame
<1>1. PageInv => PlyInGame  BY DEF PageInv, PlyInGame
<1> QED  BY <1>1, PageCorrect, PTL

\* The move list numbers the plies as FEN does, for games of any length from
\* either colour and any first move (App.jsx, moveNumber and moveRows).
THEOREM RowsCorrect == Spec => []RowsFollowTheFen
<1>1. PageInv => RowsFollowTheFen
      BY RowsAreRight DEF PageInv, Diagnosed
<1> QED  BY <1>1, PageCorrect, PTL

\* The marks, the error buttons and the biggest swing agree for any analysis
\* (App.jsx, diagnostics; analysis.py, the artifact's positions).
THEOREM MarksCorrect == Spec => []MarksAreErrors
<1>1. PageInv => MarksAreErrors
  <2>1. CASE positions = << >>
        BY <2>1 DEF MarksAreErrors
  <2>2. CASE positions # << >>
        BY <2>2, MarksAreRight DEF PageInv, Diagnosed
  <2> QED  BY <2>1, <2>2
<1> QED  BY <1>1, PageCorrect, PTL

\* The error buttons walk the ring of errors in both directions, whatever the
\* errors are (App.jsx, gotoError).
THEOREM ButtonsCorrect == Spec => []ErrorButtonsCycle
<1>1. PageInv => ErrorButtonsCycle
      BY ButtonsAreRight DEF PageInv
<1> QED  BY <1>1, PageCorrect, PTL

-----------------------------------------------------------------------------
(* The live page, and the types. *)

\* What the server says of a match.
Said == [status : {"idle", "live", "completed"}, link : BOOLEAN]

\* A page is what its last answer said.
LiveInv == /\ polls \in [Slots -> {Free, Sent, Failed} \cup Said]
           /\ phase \in {"loading", "idle", "live", "completed", "error"}
           /\ phase = "completed" => payload.status = "completed"

\* The types of the rest.
Typed == /\ match \in Terminal \cup {"live", "deleted"}
         /\ pair \in {"none", "queued", "running"} /\ owed \in BOOLEAN
         /\ job \in {"off", "search", "check", "open", "write", "recheck",
                     "move", "failed", "record"}
         /\ admin \in {"none", "result", "error", "rmtree", "rmdir", "rows"}
         /\ asks \in 0 .. MaxAsks /\ faults \in 0 .. MaxFaults
         /\ page \in {"none", "replay", "live"} /\ pinned \in BOOLEAN

LEMMA AnswerSaid == LiveAnswer \in Said
BY DEF LiveAnswer, LiveStatus, Answer, Said

\* A phase is set together with the payload it comes from.
LEMMA NextLive == LiveInv /\ [Next]_vars => LiveInv'
<1> SUFFICES ASSUME LiveInv, [Next]_vars PROVE LiveInv'
    OBVIOUS
<1>1. CASE UNCHANGED live
      BY <1>1 DEF live, LiveInv, Slots
<1>2. ASSUME NEW s \in Slots, NEW a \in {Free, Sent, Failed} \cup Said,
             Slot(s, a), UNCHANGED <<phase, payload>>
      PROVE  LiveInv'
      BY <1>2 DEF LiveInv, Slot
<1>3. ASSUME NEW s \in Slots, SendPoll(s) \/ AnswerPoll(s) \/ LosePoll(s) PROVE LiveInv'
      BY <1>2, <1>3, AnswerSaid DEF SendPoll, AnswerPoll, LosePoll, OnLive, Poll, Serve
<1>4. ASSUME NEW s \in Slots, ShowPoll(s) PROVE LiveInv'
  <2>1. CASE GotPayload(s)
    <3>1. polls[s] \in Said
          BY <2>1 DEF GotPayload, LiveInv
    <3>2. polls' = [polls EXCEPT ![s] = Free] /\ payload' = polls[s] /\ phase' = polls[s].status
          BY <2>1 DEF GotPayload, Slot
    <3> QED  BY <3>1, <3>2 DEF LiveInv, Said
  <2>2. CASE PollFailed(s)
        BY <2>2 DEF PollFailed, Slot, LiveInv
  <2> QED  BY <1>4, <2>1, <2>2 DEF ShowPoll, OnLive
<1>5. CASE Loop \/ Analysis \/ Manage \/ Handle \/ Arrivals \/ Breaks \/ Visit
      BY <1>1, <1>5 DEF Loop, Analysis, Manage, Handle, Arrivals, Breaks, Alters, Unseen, Visit
<1>6. CASE Load \/ Lost \/ Browse \/ Autoplay
      BY <1>1, <1>6 DEF Load, Lost, Browse, Autoplay, OnReplay
<1>7. CASE UNCHANGED vars
      BY <1>1, <1>7 DEF vars
<1> QED  BY <1>3, <1>4, <1>5, <1>6, <1>7 DEF Next

LEMMA NextTyped == Typed /\ SiteInv /\ [Next]_vars => Typed'
<1> SUFFICES ASSUME Typed, SiteInv, [Next]_vars PROVE Typed'
    OBVIOUS
<1> USE DEF Typed, Terminal, ResultTerminal
<1>1. CASE Loop
      BY <1>1 DEF Loop, Unseen, MainThread, PairEnds, TakeMove, MoveThenTick, LaunchPair,
             StartAnalysis, TickLaunches
<1>2. CASE Analysis
      BY <1>2 DEF Analysis, Unseen, AnalysisThread, Searched, SearchFails, FirstCheck, OpenTmp,
             WriteTmp, SecondCheck, MoveResult, FailCheck, RecordError, Goto
<1>3. CASE Manage
      BY <1>3, WorkerAssumption DEF Manage, Alters, Unseen, Admin, Request, Delete, Ask, Then, worker
<1>4. CASE Handle
      BY <1>4 DEF Handle, Unseen, Handler, ClearResult, ClearError, RemoveFiles, RemoveStops,
             RemoveDir, DeleteRows, Continue, Then, worker
<1>5. CASE Arrivals
      BY <1>5 DEF Arrivals, Unseen, QueueMatch, AskMove
<1>6. CASE Breaks
  <2>1. faults' \in 0 .. MaxFaults
        BY <1>6, WorkerAssumption DEF Breaks, WorkerDies, ApiDies, Fault
  <2>2. owed' \in BOOLEAN
    <3>1. owed' = owed \/ owed' = (owed \/ loop = "reply")
          BY <1>6 DEF Breaks, WorkerDies, ApiDies, worker
    <3> QED  BY <3>1, Zenon
  <2>3. /\ match' = match /\ asks' = asks /\ page' = page /\ pinned' = pinned
        /\ pair' \in {pair, "queued"} /\ job' \in {job, "off"} /\ admin' \in {admin, "none"}
        BY <1>6 DEF Breaks, Alters, Unseen, WorkerDies, ApiDies, worker
  <2> QED  BY <2>1, <2>2, <2>3
<1>7. CASE Visit
      BY <1>7, ZenonT(60) DEF Visit, siteVars, worker
<1>8. CASE Load \/ Lost \/ Browse \/ Autoplay
      BY <1>8 DEF Load, Lost, Browse, Autoplay, OnReplay, siteVars, worker
<1>9. CASE \E s \in Slots : SendPoll(s) \/ AnswerPoll(s) \/ ShowPoll(s)
      BY <1>9 DEF SendPoll, AnswerPoll, ShowPoll, OnLive, siteVars, worker
<1>10. CASE \E s \in Slots : LosePoll(s)
      BY <1>10, WorkerAssumption DEF LosePoll, OnLive, Fault, worker
<1>11. CASE UNCHANGED vars
      BY <1>11 DEF vars, siteVars, worker
<1> QED  BY <1>1, <1>2, <1>3, <1>4, <1>5, <1>6, <1>7, <1>8, <1>9, <1>10, <1>11 DEF Next

\* The site and its pages keep their types; a link to the replay is only shown
\* of a match that the last answer called completed (LiveApp.jsx).
THEOREM SiteTypes == Spec => []TypeOK
<1>1. Init => LiveInv /\ Typed
  <2>1. Init => LiveInv
    <3>1. [s \in Slots |-> Free] \in [Slots -> {Free, Sent, Failed} \cup Said]
          OBVIOUS
    <3>2. LiveInit => LiveInv
          BY <3>1 DEF LiveInit, LiveInv
    <3> QED  BY <3>2 DEF Init
  <2>2. Init => Typed
    <3>1. 0 \in 0 .. MaxAsks /\ 0 \in 0 .. MaxFaults
          BY WorkerAssumption
    <3>2. SiteInit /\ page = "none" /\ pinned = FALSE => Typed
          BY <3>1, Zenon DEF SiteInit, Typed, Terminal, ResultTerminal
    <3> QED  BY <3>2 DEF Init
  <2> QED  BY <2>1, <2>2
<1>2. SiteInv /\ PageInv /\ LiveInv /\ Typed => TypeOK
  <2> SUFFICES ASSUME SiteInv, PageInv, LiveInv, Typed PROVE TypeOK
      OBVIOUS
  <2>1. Screen = "finished, replay" => phase = "completed"
        BY DEF Screen, LiveInv
  <2>2. files \in AnyFiles /\ loop \in {"poll", "reply"}
        BY DEF SiteInv, Shape
  <2>3. positions # << >> => positions \in Analyses /\ Len(positions) = N + 1
        BY DEF PageInv, Diagnosed, Analysed
  <2>4. game \in Pgns \cup {NoGame}
        BY DEF PageInv, Diagnosed, GameOK
  <2> QED  BY <2>1, <2>2, <2>3, <2>4, Zenon DEF TypeOK, PageInv, LiveInv, Typed
<1>3. LiveInv /\ [Next]_vars => LiveInv'
      BY NextLive
<1>4. Typed /\ SiteInv /\ [Next]_vars => Typed'
      BY NextTyped
<1> QED  BY <1>1, <1>2, <1>3, <1>4, SiteCorrect, PageCorrect, PTL DEF Spec
=============================================================================
