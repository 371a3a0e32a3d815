----------------------------- MODULE PublicSite -----------------------------
(***************************************************************************)
(* The site around one match: the worker that plays and analyses it        *)
(* (WorkerLoop), the admin, and one visitor's page, which main.jsx makes a *)
(* replay (ReplayView) or a live page (LiveView).                          *)
(***************************************************************************)
EXTENDS WorkerLoop, ReplayView, LiveView

VARIABLES
    page,    \* "none", "replay", "live"
    pinned   \* the live page was opened for this match

vars == <<siteVars, replay, live, page, pinned>>

-----------------------------------------------------------------------------
(* The public API: reads only. *)

Public == match \in ResultTerminal
\* /matches/{id}, /games/{id}/pgn and /games/{id}/analysis.
GetMatch == IF Public THEN GotMatch(files.res # "no") ELSE stage = "match" /\ Refused
GetPgn == IF Public /\ files.pgn THEN \E pgn \in Pgns : GotPgn(pgn)
          ELSE stage = "pgn" /\ Refused
GetAnalysis == IF Public /\ files.res = "whole"
               THEN \E seq \in {a \in Analyses : Len(a) = N + 1} : GotAnalysis(seq)
               ELSE GotAnalysis(<< >>)
Fetch == GetMatch \/ GetPgn \/ GetAnalysis

RawStatus == match                      \* variant: the row's own status
\* /live: a pinned match is idle, live or completed; otherwise the head of the
\* queue is live, and nothing ever completed.
LiveStatus == CASE match = "live" -> "live"
                [] pinned /\ match \in Terminal -> "completed"
                [] ~pinned /\ match # "live" /\ pair # "none" -> "live"
                [] OTHER -> "idle"
LiveAnswer == Answer(LiveStatus, LiveStatus = "completed" /\ match \in ResultTerminal)

-----------------------------------------------------------------------------
Unseen == UNCHANGED <<replay, live, page, pinned>>

Loop == MainThread /\ UNCHANGED <<admin, files, asks, faults>> /\ Unseen
Analysis == AnalysisThread /\ UNCHANGED <<admin, asks, faults>> /\ Unseen
Handle == Handler /\ UNCHANGED faults /\ Unseen
\* Bound: nothing new arrives while a page is open.
Arrivals == /\ page = "none"
            /\ QueueMatch \/ AskMove
            /\ UNCHANGED <<admin, files, asks, faults>> /\ Unseen
\* Bound: admin and faults rest once the replay is loaded; it reads no more.
Alters == ~Ready /\ Unseen
Manage == Admin /\ UNCHANGED faults /\ Alters
Breaks == (WorkerDies \/ ApiDies) /\ Alters

\* Bound: a page is opened while the worker is between two steps, once.
Quiet == loop = "poll" /\ job = "off" /\ admin = "none" /\ ~owed
Visit == /\ page = "none" /\ Quiet
         /\ page' \in {"replay", "live"}
         /\ pinned' \in (IF page' = "live" THEN BOOLEAN ELSE {FALSE})
         /\ UNCHANGED <<siteVars, replay, live>>

OnReplay(A) == page = "replay" /\ A /\ UNCHANGED <<siteVars, live, page, pinned>>
Load == OnReplay(Fetch)
Lost == OnReplay(NetworkFails)
Browse == OnReplay(Visitor)
Autoplay == OnReplay(Tick)

OnLive(A) == page = "live" /\ A /\ UNCHANGED <<replay, page, pinned>>
SendPoll(s) == OnLive(Poll(s)) /\ UNCHANGED siteVars
AnswerPoll(s) == OnLive(Serve(s, LiveAnswer)) /\ UNCHANGED siteVars
LosePoll(s) == /\ OnLive(Serve(s, Failed)) /\ Fault
               /\ UNCHANGED <<match, worker, admin, files, asks>>
ShowPoll(s) == OnLive(GotPayload(s) \/ PollFailed(s)) /\ UNCHANGED siteVars

Init == SiteInit /\ ReplayInit /\ LiveInit /\ page = "none" /\ pinned = FALSE

Next == \/ Loop \/ Analysis \/ Manage \/ Handle
        \/ Arrivals \/ Breaks \/ Visit
        \/ Load \/ Lost \/ Browse \/ Autoplay
        \/ \E s \in Slots : SendPoll(s) \/ AnswerPoll(s) \/ LosePoll(s) \/ ShowPoll(s)

Spec == Init /\ [][Next]_vars

\* The worker's threads and the handlers run, cutechess and every engine
\* search have a deadline, every request is answered or fails, and timers
\* fire.  Nothing is assumed of the admin, the visitor or what arrives.
Fairness ==
    /\ WF_vars(Loop) /\ WF_vars(Analysis) /\ WF_vars(Handle)
    /\ WF_vars(Load) /\ WF_vars(Autoplay)
    /\ \A s \in Slots : /\ WF_vars(SendPoll(s)) /\ WF_vars(AnswerPoll(s))
                        /\ WF_vars(ShowPoll(s))
FairSpec == Spec /\ Fairness

-----------------------------------------------------------------------------
\* Types of the match, the files, the worker and the two pages.
TypeOK ==
    /\ match \in Terminal \cup {"live", "deleted"}
    /\ pair \in {"none", "queued", "running"} /\ owed \in BOOLEAN
    /\ loop \in {"poll", "reply"}
    /\ job \in {"off", "search", "check", "open", "write", "recheck", "move", "failed", "record"}
    /\ admin \in {"none", "result", "error", "rmtree", "rmdir", "rows"}
    /\ files \in AnyFiles /\ asks \in 0 .. MaxAsks /\ faults \in 0 .. MaxFaults
    /\ stage \in Loading \cup {"ready", "error"} /\ analyzed \in BOOLEAN
    /\ game \in Pgns \cup {NoGame} /\ playing \in BOOLEAN
    /\ positions # << >> => positions \in Analyses /\ Len(positions) = N + 1
    /\ phase \in {"loading", "idle", "live", "completed", "error"}
    /\ Screen = "finished, replay" => payload.status = "completed"
    /\ page \in {"none", "replay", "live"} /\ pinned \in BOOLEAN

\* "No two CPU-heavy workloads ever overlap": a timed pair, the engine's reply
\* in a human game and an analysis exclude each other.
OneWorkload ==
    Cardinality({w \in {"pair", "reply", "analysis"} :
        \/ w = "pair" /\ pair = "running"
        \/ w = "reply" /\ loop = "reply"
        \/ w = "analysis" /\ job # "off"}) <= 1

\* A queued pair is launched however many human moves are asked meanwhile, and
\* also when a game is being analysed as it arrives.
PairNotStarved == pair = "queued" ~> pair # "queued"

\* Analysis comes last: unless matches and human moves keep the worker busy
\* for ever, a queued request of a COMPLETED match ends in a result, an error,
\* or with its match, across crashes, new requests and half-done deletions.
Busy == pair # "none" \/ owed \/ loop = "reply"
RequestIsServed == []<>Busy \/ (NextRequest ~> ~NextRequest)

\* A deleted match leaves nothing behind and nothing brings its directory
\* back, although the analysis checks and writes in separate steps.
NoOrphanArtifacts == match = "deleted" => files = NoFiles

\* What is called ready is a whole artifact, also after a crash in the write.
ReadyIsWhole == files.res # "part"

\* Unless the visitor keeps on navigating, autoplay reaches the end and stops.
AutoplayEnds == []<>~playing \/ []<><<Browse>>_vars

\* Answers overtake each other and some are lost, but a page whose match is
\* over for good shows that for good, and so does one that watches nothing.
LiveSettles ==
    \A said \in {"completed", "idle"} :
        <>[](page = "live" /\ LiveStatus = said) => <>[](phase = said)
=============================================================================
