------------------------- MODULE BrowserSearchProofs -------------------------
(***************************************************************************)
(* Theorems about BrowserSearch: its safety invariants and that it         *)
(* implements LatestSearch, for any positions, depths and bound.           *)
(*                                                                         *)
(* The inductive invariant follows the one search there is: on its way to  *)
(* the engine, in it, or on its way back (Flight), with the stops that may *)
(* cross it (Stops) and the request it is for (Asked).                     *)
(***************************************************************************)
EXTENDS BrowserSearch, SequenceTheorems, FiniteSetTheorems, TLAPS

Commands == [cmd : {"uci", "isready", "go", "stop"}, of : Requests \cup {None}]
Lines == [line : {"uciok", "readyok", "info", "bestmove", "error"},
          of : Requests \cup {None}, cut : BOOLEAN]
Workers == [mode : {"none", "ok", "stuck", "dead"}, run : Requests \cup {None},
            told : BOOLEAN]

-----------------------------------------------------------------------------
(* What a queue holds. *)

NoGo(s) == \A i \in DOMAIN s : s[i].cmd # "go"
\* One search is on its way, and it is for r.
OneGo(s, r) == \E i \in DOMAIN s :
    /\ s[i].cmd = "go" /\ s[i].of = r
    /\ \A j \in DOMAIN s \ {i} : s[j].cmd # "go"
NoStop(s) == \A i \in DOMAIN s : s[i].cmd # "stop"
\* A stop that waits is before every search that waits.
StopsFirst(s) == \A i, j \in DOMAIN s : s[i].cmd = "go" /\ s[j].cmd = "stop" => j < i

NoBest(s) == \A i \in DOMAIN s : s[i].line # "bestmove"
NoScore(s) == \A i \in DOMAIN s : s[i].line \notin {"info", "bestmove"}
\* Nothing is said but of r.
Of(s, r) == \A i \in DOMAIN s : s[i].line \in {"info", "bestmove"} => s[i].of = r
\* One bestmove is on its way, and no score line of the search is behind it.
OneBest(s) == \E i \in DOMAIN s :
    /\ s[i].line = "bestmove"
    /\ \A j \in DOMAIN s \ {i} : s[j].line # "bestmove"
    /\ \A j \in DOMAIN s : s[j].line = "info" => j < i

-----------------------------------------------------------------------------
(* The inductive invariant. *)

\* Where the search is.
Resting == NoGo(toEngine) /\ NoScore(fromEngine) /\ engine.run = None
Sent    == OneGo(toEngine, requested) /\ NoScore(fromEngine) /\ engine.run = None
Running == /\ NoGo(toEngine) /\ NoBest(fromEngine) /\ Of(fromEngine, requested)
           /\ engine.run = requested
Back    == /\ NoGo(toEngine) /\ OneBest(fromEngine) /\ Of(fromEngine, requested)
           /\ engine.run = None
Flight == IF searching THEN requested # None /\ (Sent \/ Running \/ Back) ELSE Resting

\* A stop is remembered until the search it is for is back, and never reaches
\* another one.
Stops == /\ stopping => searching
         /\ ~stopping => StopsFirst(toEngine) /\ (engine.run # None => NoStop(toEngine))
         /\ \A i \in DOMAIN fromEngine :
                fromEngine[i].cut => stopping /\ fromEngine[i].line = "bestmove"

\* The request of the session is that of the props its effects last ran with.
Asked == /\ seen.enabled =>
                pending = [gen |-> gen, fen |-> seen.fen, depth |-> seen.depth]
         /\ page # seen /\ page.enabled => gen < MaxGen
         /\ requested # None => requested.gen <= gen
         /\ pending # None /\ requested # None /\ requested.gen = pending.gen =>
                requested = pending
         /\ seen.enabled /\ result # None =>
                result = [of |-> pending, signedFor |-> seen.fen]

\* Without a session there is no worker, no message and no timer.
Closed == ~seen.enabled =>
              /\ pending = None /\ requested = None
              /\ ~uciReady /\ ~searching /\ ~stopping
              /\ timers = {} /\ engine = NoWorker
              /\ toEngine = << >> /\ fromEngine = << >>

SearchInv == TypeOK /\ Flight /\ Stops /\ Asked /\ Closed

-----------------------------------------------------------------------------
(* Lemmas about the queues. *)

LEMMA AppendAt ==
  ASSUME NEW S, NEW s \in Seq(S), NEW e \in S
  PROVE  /\ Append(s, e) \in Seq(S)
         /\ DOMAIN s = 1 .. Len(s) /\ Len(s) \in Nat
         /\ DOMAIN Append(s, e) = 1 .. Len(s) + 1
         /\ \A i \in 1 .. Len(s) : Append(s, e)[i] = s[i]
         /\ Append(s, e)[Len(s) + 1] = e
BY AppendProperties, LenProperties

LEMMA TailAt ==
  ASSUME NEW S, NEW s \in Seq(S), s # << >>
  PROVE  /\ Tail(s) \in Seq(S) /\ Head(s) \in S /\ Head(s) = s[1]
         /\ DOMAIN s = 1 .. Len(s) /\ Len(s) \in Nat \ {0}
         /\ DOMAIN Tail(s) = 1 .. Len(s) - 1
         /\ \A i \in DOMAIN Tail(s) : i + 1 \in DOMAIN s /\ Tail(s)[i] = s[i + 1]
<1>1. Len(s) \in Nat \ {0}
  BY EmptySeq, LenProperties
<1>2. Tail(s) \in Seq(S) /\ Len(Tail(s)) = Len(s) - 1
  BY HeadTailProperties
<1>. QED
  BY <1>1, <1>2, HeadTailProperties, LenProperties

\* A command that is posted.
LEMMA Posted ==
  ASSUME NEW s \in Seq(Commands), NEW c \in Commands, NEW r
  PROVE  /\ Append(s, c) \in Seq(Commands)
         /\ c.cmd # "go" /\ NoGo(s) => NoGo(Append(s, c))
         /\ c.cmd # "go" /\ OneGo(s, r) => OneGo(Append(s, c), r)
         /\ c.cmd = "go" /\ c.of = r /\ NoGo(s) => OneGo(Append(s, c), r)
         /\ c.cmd # "stop" /\ NoStop(s) => NoStop(Append(s, c))
         /\ c.cmd # "stop" /\ StopsFirst(s) => StopsFirst(Append(s, c))
<1> DEFINE t == Append(s, c)
<1>1. /\ t \in Seq(Commands)
      /\ DOMAIN s = 1 .. Len(s) /\ Len(s) \in Nat
      /\ DOMAIN t = 1 .. Len(s) + 1
      /\ \A i \in 1 .. Len(s) : t[i] = s[i]
      /\ t[Len(s) + 1] = c
  BY AppendAt
<1> HIDE DEF t
<1>2. c.cmd # "go" /\ NoGo(s) => NoGo(t)
  BY <1>1 DEF NoGo
<1>3. ASSUME c.cmd # "go", OneGo(s, r) PROVE OneGo(t, r)
  <2>1. PICK i \in DOMAIN s : /\ s[i].cmd = "go" /\ s[i].of = r
                              /\ \A j \in DOMAIN s \ {i} : s[j].cmd # "go"
    BY <1>3 DEF OneGo
  <2>2. i \in DOMAIN t /\ t[i].cmd = "go" /\ t[i].of = r
    BY <1>1, <2>1
  <2>3. \A j \in DOMAIN t \ {i} : t[j].cmd # "go"
    BY <1>1, <1>3, <2>1
  <2>. QED
    BY <2>2, <2>3 DEF OneGo
<1>4. ASSUME c.cmd = "go", c.of = r, NoGo(s) PROVE OneGo(t, r)
  <2>1. Len(s) + 1 \in DOMAIN t /\ t[Len(s) + 1].cmd = "go" /\ t[Len(s) + 1].of = r
    BY <1>1, <1>4
  <2>2. \A j \in DOMAIN t \ {Len(s) + 1} : t[j].cmd # "go"
    BY <1>1, <1>4 DEF NoGo
  <2>. QED
    BY <2>1, <2>2 DEF OneGo
<1>5. c.cmd # "stop" /\ NoStop(s) => NoStop(t)
  BY <1>1 DEF NoStop
<1>6. c.cmd # "stop" /\ StopsFirst(s) => StopsFirst(t)
  BY <1>1 DEF StopsFirst
<1>. QED
  BY <1>1, <1>2, <1>3, <1>4, <1>5, <1>6 DEF t

\* A command that the engine takes.
LEMMA Taken ==
  ASSUME NEW s \in Seq(Commands), s # << >>, NEW r
  PROVE  /\ Tail(s) \in Seq(Commands) /\ Head(s) \in Commands
         /\ NoGo(s) => NoGo(Tail(s)) /\ Head(s).cmd # "go"
         /\ OneGo(s, r) /\ Head(s).cmd # "go" => OneGo(Tail(s), r)
         /\ OneGo(s, r) /\ Head(s).cmd = "go" => NoGo(Tail(s)) /\ Head(s).of = r
         /\ NoStop(s) => NoStop(Tail(s)) /\ Head(s).cmd # "stop"
         /\ StopsFirst(s) => StopsFirst(Tail(s))
         /\ StopsFirst(s) /\ Head(s).cmd = "go" => NoStop(Tail(s))
<1> DEFINE t == Tail(s)
           h == Head(s)
<1>1. /\ t \in Seq(Commands) /\ h \in Commands /\ h = s[1]
      /\ DOMAIN s = 1 .. Len(s) /\ Len(s) \in Nat \ {0}
      /\ DOMAIN t = 1 .. Len(s) - 1
      /\ \A i \in DOMAIN t : i + 1 \in DOMAIN s /\ t[i] = s[i + 1]
  BY TailAt
<1> HIDE DEF t, h
<1>2. NoGo(s) => NoGo(t) /\ h.cmd # "go"
  BY <1>1 DEF NoGo
<1>3. ASSUME OneGo(s, r), h.cmd # "go" PROVE OneGo(t, r)
  <2>1. PICK i \in DOMAIN s : /\ s[i].cmd = "go" /\ s[i].of = r
                              /\ \A j \in DOMAIN s \ {i} : s[j].cmd # "go"
    BY <1>3 DEF OneGo
  <2>2. i - 1 \in DOMAIN t /\ t[i - 1].cmd = "go" /\ t[i - 1].of = r
    BY <1>1, <1>3, <2>1
  <2>3. \A j \in DOMAIN t \ {i - 1} : t[j].cmd # "go"
    BY <1>1, <2>1
  <2>. QED
    BY <2>2, <2>3 DEF OneGo
<1>4. ASSUME OneGo(s, r), h.cmd = "go" PROVE NoGo(t) /\ h.of = r
  <2>1. PICK i \in DOMAIN s : /\ s[i].cmd = "go" /\ s[i].of = r
                              /\ \A j \in DOMAIN s \ {i} : s[j].cmd # "go"
    BY <1>4 DEF OneGo
  <2>2. i = 1
    BY <1>1, <1>4, <2>1
  <2>. QED
    BY <1>1, <2>1, <2>2 DEF NoGo
<1>5. NoStop(s) => NoStop(t) /\ h.cmd # "stop"
  BY <1>1 DEF NoStop
<1>6. StopsFirst(s) => StopsFirst(t)
  BY <1>1 DEF StopsFirst
<1>7. StopsFirst(s) /\ h.cmd = "go" => NoStop(t)
  BY <1>1 DEF StopsFirst, NoStop
<1>. QED
  BY <1>1, <1>2, <1>3, <1>4, <1>5, <1>6, <1>7 DEF t, h

\* What is known of a queue without go, without score lines.
LEMMA Still ==
  /\ \A s : NoGo(s) => StopsFirst(s)
  /\ \A s, r : NoScore(s) => NoBest(s) /\ Of(s, r)
BY DEF NoGo, StopsFirst, NoScore, NoBest, Of

\* A line that the engine says.
LEMMA Said ==
  ASSUME NEW s \in Seq(Lines), NEW l \in Lines, NEW r
  PROVE  /\ Append(s, l) \in Seq(Lines)
         /\ l.line \notin {"info", "bestmove"} /\ NoScore(s) => NoScore(Append(s, l))
         /\ l.line # "bestmove" /\ NoBest(s) => NoBest(Append(s, l))
         /\ l.line \notin {"info", "bestmove"} /\ OneBest(s) => OneBest(Append(s, l))
         /\ l.line = "bestmove" /\ NoBest(s) => OneBest(Append(s, l))
         /\ (l.line \in {"info", "bestmove"} => l.of = r) /\ Of(s, r) => Of(Append(s, l), r)
<1> DEFINE t == Append(s, l)
<1>1. /\ t \in Seq(Lines)
      /\ DOMAIN s = 1 .. Len(s) /\ Len(s) \in Nat
      /\ DOMAIN t = 1 .. Len(s) + 1
      /\ \A i \in 1 .. Len(s) : t[i] = s[i]
      /\ t[Len(s) + 1] = l
  BY AppendAt
<1> HIDE DEF t
<1>2. l.line \notin {"info", "bestmove"} /\ NoScore(s) => NoScore(t)
  BY <1>1 DEF NoScore
<1>3. l.line # "bestmove" /\ NoBest(s) => NoBest(t)
  BY <1>1 DEF NoBest
<1>4. ASSUME l.line \notin {"info", "bestmove"}, OneBest(s) PROVE OneBest(t)
  <2>1. PICK i \in DOMAIN s : /\ s[i].line = "bestmove"
                              /\ \A j \in DOMAIN s \ {i} : s[j].line # "bestmove"
                              /\ \A j \in DOMAIN s : s[j].line = "info" => j < i
    BY <1>4 DEF OneBest
  <2>2. i \in DOMAIN t /\ t[i].line = "bestmove"
    BY <1>1, <2>1
  <2>3. \A j \in DOMAIN t \ {i} : t[j].line # "bestmove"
    BY <1>1, <1>4, <2>1
  <2>4. \A j \in DOMAIN t : t[j].line = "info" => j < i
    BY <1>1, <1>4, <2>1
  <2>. QED
    BY <2>2, <2>3, <2>4 DEF OneBest
<1>5. ASSUME l.line = "bestmove", NoBest(s) PROVE OneBest(t)
  <2>1. Len(s) + 1 \in DOMAIN t /\ t[Len(s) + 1].line = "bestmove"
    BY <1>1, <1>5
  <2>2. \A j \in DOMAIN t \ {Len(s) + 1} : t[j].line # "bestmove"
    BY <1>1, <1>5 DEF NoBest
  <2>3. \A j \in DOMAIN t : t[j].line = "info" => j < Len(s) + 1
    BY <1>1, <1>5
  <2>. QED
    BY <2>1, <2>2, <2>3 DEF OneBest
<1>6. (l.line \in {"info", "bestmove"} => l.of = r) /\ Of(s, r) => Of(t, r)
  BY <1>1 DEF Of
<1>. QED
  BY <1>1, <1>2, <1>3, <1>4, <1>5, <1>6 DEF t

\* A line that the page handles.
LEMMA Heard ==
  ASSUME NEW s \in Seq(Lines), s # << >>, NEW r
  PROVE  /\ Tail(s) \in Seq(Lines) /\ Head(s) \in Lines
         /\ NoScore(s) => NoScore(Tail(s)) /\ Head(s).line \notin {"info", "bestmove"}
         /\ NoBest(s) => NoBest(Tail(s)) /\ Head(s).line # "bestmove"
         /\ OneBest(s) /\ Head(s).line # "bestmove" => OneBest(Tail(s))
         /\ OneBest(s) /\ Head(s).line = "bestmove" => NoScore(Tail(s))
         /\ Of(s, r) => /\ Of(Tail(s), r)
                        /\ Head(s).line \in {"info", "bestmove"} => Head(s).of = r
<1> DEFINE t == Tail(s)
           h == Head(s)
<1>1. /\ t \in Seq(Lines) /\ h \in Lines /\ h = s[1]
      /\ DOMAIN s = 1 .. Len(s) /\ Len(s) \in Nat \ {0}
      /\ DOMAIN t = 1 .. Len(s) - 1
      /\ \A i \in DOMAIN t : i + 1 \in DOMAIN s /\ t[i] = s[i + 1]
  BY TailAt
<1> HIDE DEF t, h
<1>2. NoScore(s) => NoScore(t) /\ h.line \notin {"info", "bestmove"}
  BY <1>1 DEF NoScore
<1>3. NoBest(s) => NoBest(t) /\ h.line # "bestmove"
  BY <1>1 DEF NoBest
<1>4. ASSUME OneBest(s), h.line # "bestmove" PROVE OneBest(t)
  <2>1. PICK i \in DOMAIN s : /\ s[i].line = "bestmove"
                              /\ \A j \in DOMAIN s \ {i} : s[j].line # "bestmove"
                              /\ \A j \in DOMAIN s : s[j].line = "info" => j < i
    BY <1>4 DEF OneBest
  <2>2. i - 1 \in DOMAIN t /\ t[i - 1].line = "bestmove"
    BY <1>1, <1>4, <2>1
  <2>3. \A j \in DOMAIN t \ {i - 1} : t[j].line # "bestmove"
    BY <1>1, <2>1
  <2>4. \A j \in DOMAIN t : t[j].line = "info" => j < i - 1
    BY <1>1, <2>1
  <2>. QED
    BY <2>2, <2>3, <2>4 DEF OneBest
<1>5. ASSUME OneBest(s), h.line = "bestmove" PROVE NoScore(t)
  <2>1. PICK i \in DOMAIN s : /\ s[i].line = "bestmove"
                              /\ \A j \in DOMAIN s \ {i} : s[j].line # "bestmove"
                              /\ \A j \in DOMAIN s : s[j].line = "info" => j < i
    BY <1>5 DEF OneBest
  <2>2. i = 1
    BY <1>1, <1>5, <2>1
  <2>. QED
    BY <1>1, <2>1, <2>2 DEF NoScore
<1>6. Of(s, r) => Of(t, r) /\ (h.line \in {"info", "bestmove"} => h.of = r)
  BY <1>1 DEF Of
<1>. QED
  BY <1>1, <1>2, <1>3, <1>4, <1>5, <1>6 DEF t, h

-----------------------------------------------------------------------------
(* What the page does. *)

USE PageAssumption

LEMMA NoneIsNoRequest == None \notin Requests /\ None \notin Score_
BY DEF Requests, Score_

\* A worker that does not search.
LEMMA WorkerTypes ==
  /\ NoWorker \in Workers /\ NoWorker.run = None /\ NoWorker.mode = "none"
  /\ FreshWorker \in Workers /\ FreshWorker.run = None
BY DEF NoWorker, FreshWorker, Workers

LEMMA OneMessage == ASSUME NEW S, NEW e \in S PROVE <<e>> \in Seq(S)
OBVIOUS

LEMMA SearchInit == Init => SearchInv
<1> SUFFICES ASSUME Init PROVE SearchInv
  OBVIOUS
<1>1. TypeOK
  <2>1. toEngine \in Seq(Commands) /\ fromEngine \in Seq(Lines)
    BY EmptySeq DEF Init
  <2>2. page \in Props
    BY DEF Init, Props
  <2>3. seen \in Props
    BY <2>2 DEF Init
  <2>4. gen \in 0 .. MaxGen
    BY DEF Init
  <2>. QED
    BY <2>1, <2>2, <2>3, <2>4, WorkerTypes DEF Init, TypeOK, Statuses, Timers, Commands, Lines, Workers
<1>2. Flight
  BY DEF Init, Flight, Resting, NoGo, NoScore, NoWorker
<1>3. Stops
  BY DEF Init, Stops, StopsFirst, NoWorker
<1>4. Asked /\ Closed
  BY DEF Init, Asked, Closed
<1>. QED
  BY <1>1, <1>2, <1>3, <1>4 DEF SearchInv

\* A render changes the props only.
LEMMA RenderStep ==
  ASSUME SearchInv, NEW p \in Props, Render(p)
  PROVE  SearchInv'
<1>1. TypeOK'
  BY DEF SearchInv, TypeOK, Render, refs, ui, link
<1>2. Flight' /\ Stops'
  BY DEF SearchInv, Render, refs, ui, link, Flight, Resting, Sent, Running, Back, Stops
<1>3. Asked' /\ Closed'
  BY DEF SearchInv, Render, refs, ui, link, Asked, Closed, TypeOK, Props
<1>. QED
  BY <1>1, <1>2, <1>3 DEF SearchInv

LEMMA UserStep ==
  ASSUME SearchInv, User
  PROVE  SearchInv'
<1> USE DEF SearchInv, TypeOK, Props
<1>1. CASE ToggleAnalysis
  <2>1. [page EXCEPT !.enabled = ~@] \in Props
    OBVIOUS
  <2>. QED
    BY <1>1, <2>1, RenderStep DEF ToggleAnalysis
<1>2. CASE ChangeDepth
  <2>1. PICK d \in Depths : Render([page EXCEPT !.depth = d])
    BY <1>2 DEF ChangeDepth
  <2>2. [page EXCEPT !.depth = d] \in Props
    OBVIOUS
  <2>. QED
    BY <2>1, <2>2, RenderStep
<1>3. CASE Navigate
  <2>1. PICK f \in Fens : Render([page EXCEPT !.fen = f])
    BY <1>3 DEF Navigate
  <2>2. [page EXCEPT !.fen = f] \in Props
    OBVIOUS
  <2>. QED
    BY <2>1, <2>2, RenderStep
<1>4. CASE LivePayload
  <2>1. PICK f \in Fens : Render([page EXCEPT !.fen = f, !.enabled = ~@])
    BY <1>4 DEF LivePayload
  <2>2. [page EXCEPT !.fen = f, !.enabled = ~@] \in Props
    OBVIOUS
  <2>. QED
    BY <2>1, <2>2, RenderStep
<1>5. CASE Reload
  <2>1. toEngine' \in Seq(Commands) /\ fromEngine' \in Seq(Lines)
    BY <1>5, EmptySeq DEF Reload, DisposeWorker
  <2>2. TypeOK'
    <3>1. page' \in Props
      BY <1>5 DEF Reload
    <3>2. seen' \in Props
      BY <1>5, <3>1 DEF Reload
    <3>3. gen' \in 0 .. MaxGen
      BY <1>5 DEF Reload
    <3>. QED
      BY <1>5, <2>1, <3>1, <3>2, <3>3, WorkerTypes
         DEF Reload, DisposeWorker, Statuses, Timers, Commands, Lines, Workers
  <2>3. Flight' /\ Stops'
    BY <1>5 DEF Reload, DisposeWorker, NoWorker, Flight, Resting, NoGo, NoScore, Stops, StopsFirst
  <2>4. Asked' /\ Closed'
    BY <1>5 DEF Reload, DisposeWorker, Asked, Closed
  <2>. QED
    BY <2>2, <2>3, <2>4
<1>. QED
  BY <1>1, <1>2, <1>3, <1>4, <1>5 DEF User

LEMMA NewIsRequest ==
  ASSUME SearchInv, page.enabled, page # seen
  PROVE  Request \in Requests /\ Request.gen = gen + 1 /\ gen + 1 \in 1 .. MaxGen
BY DEF SearchInv, Asked, TypeOK, Props, Request, Requests

LEMMA StartStep ==
  ASSUME SearchInv, StartSession
  PROVE  SearchInv'
<1>1. /\ seen' = page /\ page' = page /\ page.enabled /\ ~seen.enabled
      /\ gen' = gen + 1 /\ pending' = Request /\ status' = "searching" /\ result' = None
      /\ UNCHANGED <<requested, uciReady, searching, stopping>>
  BY DEF StartSession, NewRequest
<1>2. Request \in Requests /\ Request.gen = gen + 1 /\ gen + 1 \in 1 .. MaxGen
  BY <1>1, NewIsRequest
<1>3. /\ requested = None /\ ~uciReady /\ ~searching /\ ~stopping /\ timers = {}
      /\ engine = NoWorker /\ toEngine = << >> /\ fromEngine = << >>
  BY <1>1 DEF SearchInv, Closed
<1>4. /\ toEngine' \in {<< >>, <<Cmd("uci")>>} /\ fromEngine' = << >>
      /\ engine' \in {NoWorker, FreshWorker} /\ timers' \in {{}, {"init"}}
  BY <1>3 DEF StartSession, BringUp, GetWorker, LoadFails, link
<1>5. TypeOK'
  <2>1. toEngine' \in Seq(Commands) /\ fromEngine' \in Seq(Lines)
    <3>1. Cmd("uci") \in Commands
      BY DEF Cmd, Commands
    <3>2. <<Cmd("uci")>> \in Seq(Commands)
      BY <3>1, OneMessage
    <3>3. << >> \in Seq(Commands) /\ << >> \in Seq(Lines)
      BY EmptySeq
    <3>. QED
      BY <1>4, <3>2, <3>3
  <2>2. engine' \in Workers
    BY <1>4, WorkerTypes
  <2>. QED
    BY <1>1, <1>2, <1>4, <2>1, <2>2 DEF SearchInv, TypeOK, Statuses, Timers, Commands, Lines, Workers
<1>6. NoGo(toEngine') /\ NoScore(fromEngine') /\ engine'.run = None
  BY <1>4 DEF NoGo, NoScore, Cmd, NoWorker, FreshWorker
<1>7. Flight' /\ Stops'
  BY <1>1, <1>3, <1>4, <1>6, Still DEF Flight, Resting, Stops
<1>8. Asked' /\ Closed'
  BY <1>1, <1>2, <1>3 DEF Asked, Closed, Request
<1>. QED
  BY <1>5, <1>7, <1>8 DEF SearchInv

LEMMA StopStep ==
  ASSUME SearchInv, StopSession
  PROVE  SearchInv'
<1> USE DEF SearchInv, StopSession, DisposeWorker
<1>1. TypeOK'
  <2>1. toEngine' \in Seq(Commands) /\ fromEngine' \in Seq(Lines)
    BY EmptySeq
  <2>. QED
    BY <2>1 DEF TypeOK, NoWorker, Timers, Commands, Lines, ui
<1>2. Flight' /\ Stops'
  BY DEF NoWorker, Flight, Resting, NoGo, NoScore, Stops, StopsFirst
<1>3. Asked' /\ Closed'
  BY DEF Asked, Closed
<1>. QED
  BY <1>1, <1>2, <1>3

LEMMA ChangeStep ==
  ASSUME SearchInv, ChangeRequest
  PROVE  SearchInv'
<1>1. /\ seen' = page /\ page' = page /\ page.enabled /\ seen.enabled /\ page # seen
      /\ gen' = gen + 1 /\ pending' = Request /\ status' = "searching" /\ result' = None
      /\ UNCHANGED <<uciReady, fromEngine, engine>> /\ Dispatch
  BY DEF ChangeRequest, NewRequest
<1>2. Request \in Requests /\ Request.gen = gen + 1 /\ gen + 1 \in 1 .. MaxGen
  BY <1>1, NewIsRequest
<1>3. toEngine \in Seq(Commands)
  BY DEF SearchInv, TypeOK, Commands
<1>4. Cmd("stop") \in Commands /\ Go(Request) \in Commands
  BY <1>2 DEF Cmd, Go, Commands
<1>5. \/ NoServe
      \/ PostStop /\ searching /\ ~stopping
      \/ ServeNow /\ ~searching /\ ~stopping
  BY <1>1 DEF Dispatch, HasWorker, SearchInv, TypeOK
<1>6. /\ toEngine' \in Seq(Commands) /\ requested' \in {requested, Request}
      /\ timers' \subseteq timers \cup {"stop"} /\ {searching', stopping'} \subseteq BOOLEAN
  <2>1. {searching, stopping} \subseteq BOOLEAN
    BY DEF SearchInv, TypeOK
  <2>2. /\ Append(toEngine, Cmd("stop")) \in Seq(Commands)
        /\ Append(toEngine, Go(Request)) \in Seq(Commands)
    BY <1>3, <1>4, AppendAt
  <2>3. CASE NoServe
    BY <1>3, <2>1, <2>3 DEF NoServe
  <2>4. CASE PostStop
    BY <2>1, <2>2, <2>4 DEF PostStop
  <2>5. CASE ServeNow
    BY <2>1, <2>2, <2>5 DEF ServeNow, Serve
  <2>. QED
    BY <1>5, <2>3, <2>4, <2>5
<1>7. TypeOK'
  BY <1>1, <1>2, <1>6 DEF SearchInv, TypeOK, Statuses, Timers, Commands
<1>8. Flight'
  <2>1. CASE NoServe
    BY <1>1, <2>1 DEF NoServe, SearchInv, Flight, Resting, Sent, Running, Back
  <2>2. CASE PostStop /\ searching
    <3>1. /\ NoGo(toEngine) => NoGo(toEngine')
          /\ OneGo(toEngine, requested) => OneGo(toEngine', requested)
      BY <2>2, <1>3, <1>4, Posted DEF PostStop, Cmd
    <3>. QED
      BY <1>1, <2>2, <3>1 DEF PostStop, SearchInv, Flight, Sent, Running, Back
  <2>3. CASE ServeNow /\ ~searching
    <3>1. NoGo(toEngine) /\ NoScore(fromEngine) /\ engine.run = None
      BY <2>3 DEF SearchInv, Flight, Resting
    <3>2. OneGo(toEngine', Request)
      BY <2>3, <1>3, <1>4, <3>1, Posted DEF ServeNow, Serve, Go
    <3>. QED
      BY <1>1, <1>2, <2>3, <3>1, <3>2, NoneIsNoRequest DEF ServeNow, Serve, Flight, Sent
  <2>. QED
    BY <1>5, <2>1, <2>2, <2>3
<1>9. Stops'
  <2>1. CASE NoServe
    BY <1>1, <2>1 DEF NoServe, SearchInv, Stops
  <2>2. CASE PostStop /\ searching
    BY <1>1, <2>2 DEF PostStop, SearchInv, Stops
  <2>3. CASE ServeNow /\ ~searching /\ ~stopping
    <3>1. StopsFirst(toEngine) /\ engine.run = None
      BY <2>3 DEF SearchInv, Stops, Flight, Resting
    <3>2. StopsFirst(toEngine')
      BY <2>3, <1>3, <1>4, <3>1, Posted DEF ServeNow, Serve, Go
    <3>. QED
      BY <1>1, <2>3, <3>1, <3>2 DEF ServeNow, Serve, SearchInv, Stops
  <2>. QED
    BY <1>5, <2>1, <2>2, <2>3
<1>10. Asked' /\ Closed'
  <2>1. requested # None => requested.gen <= gen /\ requested.gen \in Nat /\ gen \in Nat
    BY DEF SearchInv, Asked, TypeOK, Requests
  <2>. QED
    BY <1>1, <1>2, <1>6, <2>1 DEF Asked, Closed, Request
<1>. QED
  BY <1>7, <1>8, <1>9, <1>10 DEF SearchInv

LEMMA IdleStep ==
  ASSUME SearchInv, IdleRender
  PROVE  SearchInv'
<1> USE DEF SearchInv, IdleRender, refs, ui, link
<1>1. TypeOK'
  BY DEF TypeOK
<1>2. Flight' /\ Stops'
  BY DEF Flight, Resting, Sent, Running, Back, Stops
<1>3. Asked' /\ Closed'
  BY DEF Asked, Closed
<1>. QED
  BY <1>1, <1>2, <1>3

-----------------------------------------------------------------------------
(* What the handlers and the timeouts do. *)

\* A line is only received in a session.
LEMMA ReceiveFacts ==
  ASSUME SearchInv, NEW l, Receive(l)
  PROVE  /\ fromEngine \in Seq(Lines) /\ fromEngine # << >> /\ seen.enabled
         /\ Head(fromEngine) \in Lines /\ Head(fromEngine).line = l
         /\ fromEngine' = Tail(fromEngine) /\ fromEngine' \in Seq(Lines)
         /\ UNCHANGED <<page, seen, gen, pending, engine>>
         /\ toEngine \in Seq(Commands)
<1>1. fromEngine \in Seq(Lines) /\ fromEngine # << >> /\ toEngine \in Seq(Commands)
  BY DEF Receive, SearchInv, TypeOK, Commands, Lines
<1>. QED
  BY <1>1, Heard DEF Receive, SearchInv, Closed

\* No line behind the head is cut unless a stop is under way.
LEMMA CutStays ==
  ASSUME SearchInv, NEW l, Receive(l)
  PROVE  \A i \in DOMAIN fromEngine' :
             fromEngine'[i].cut => stopping /\ fromEngine'[i].line = "bestmove"
<1>1. \A i \in DOMAIN Tail(fromEngine) :
          i + 1 \in DOMAIN fromEngine /\ Tail(fromEngine)[i] = fromEngine[i + 1]
  BY ReceiveFacts, TailAt
<1>2. \A i \in DOMAIN fromEngine :
          fromEngine[i].cut => stopping /\ fromEngine[i].line = "bestmove"
  BY DEF SearchInv, Stops
<1>3. fromEngine' = Tail(fromEngine)
  BY DEF Receive
<1>. QED
  BY <1>1, <1>2, <1>3

\* A line that is neither a score nor the end of a search moves no search.
LEMMA OtherLine ==
  ASSUME SearchInv, NEW l \in {"uciok", "readyok", "error"}, Receive(l),
         UNCHANGED <<requested, searching>>,
         \/ toEngine' = toEngine
         \/ \E c \in Commands : c.cmd = "isready" /\ toEngine' = Append(toEngine, c)
  PROVE  Flight' /\ toEngine' \in Seq(Commands)
<1>1. /\ NoGo(toEngine) => NoGo(toEngine')
      /\ OneGo(toEngine, requested) => OneGo(toEngine', requested)
      /\ toEngine' \in Seq(Commands)
  BY ReceiveFacts, Posted
<1>2. /\ NoScore(fromEngine) => NoScore(fromEngine')
      /\ NoBest(fromEngine) => NoBest(fromEngine')
      /\ OneBest(fromEngine) => OneBest(fromEngine')
      /\ Of(fromEngine, requested) => Of(fromEngine', requested)
  BY ReceiveFacts, Heard
<1>. QED
  BY <1>1, <1>2, ReceiveFacts
     DEF SearchInv, Flight, Resting, Sent, Running, Back

\* The request that is pending is served while nothing is searched.
LEMMA ServeStep ==
  ASSUME SearchInv, NEW l, Receive(l), Serve(pending), pending # None,
         NoGo(toEngine), NoScore(fromEngine'), engine.run = None,
         StopsFirst(toEngine), ~stopping',
         \A i \in DOMAIN fromEngine' : ~fromEngine'[i].cut
  PROVE  /\ Flight' /\ Stops' /\ toEngine' \in Seq(Commands)
         /\ requested' \in Requests /\ requested' = pending /\ searching'
<1>1. pending \in Requests /\ toEngine \in Seq(Commands)
  BY ReceiveFacts DEF SearchInv, TypeOK
<1>2. Go(pending) \in Commands
  BY <1>1 DEF Go, Commands
<1>3. /\ OneGo(toEngine', pending) /\ StopsFirst(toEngine')
      /\ toEngine' \in Seq(Commands)
  BY <1>1, <1>2, Posted DEF Serve, Go
<1>4. engine'.run = None
  BY ReceiveFacts
<1>. QED
  BY <1>1, <1>3, <1>4 DEF Serve, Flight, Sent, Stops

LEMMA UciokStep ==
  ASSUME SearchInv, OnUciok
  PROVE  SearchInv'
<1>1. Receive("uciok") /\ UNCHANGED <<requested, searching, stopping, result>>
  BY DEF OnUciok
<1>2. Cmd("isready") \in Commands /\ toEngine' = Append(toEngine, Cmd("isready"))
  BY DEF OnUciok, Cmd, Commands
<1>3. Flight' /\ toEngine' \in Seq(Commands)
  <2>1. Cmd("isready").cmd = "isready"
    BY DEF Cmd
  <2>. QED
    BY <1>1, <1>2, <2>1, OtherLine
<1>4. Stops'
  <2>1. /\ NoStop(toEngine) => NoStop(toEngine')
        /\ StopsFirst(toEngine) => StopsFirst(toEngine')
    BY <1>1, <1>2, Posted, ReceiveFacts DEF Cmd
  <2>. QED
    BY <1>1, <2>1, CutStays, ReceiveFacts DEF SearchInv, Stops
<1>5. TypeOK'
  BY <1>1, <1>3, ReceiveFacts
     DEF OnUciok, SearchInv, TypeOK, Timers, Statuses, Commands, Lines
<1>6. Asked' /\ Closed'
  BY <1>1, ReceiveFacts DEF SearchInv, Asked, Closed
<1>. QED
  BY <1>3, <1>4, <1>5, <1>6 DEF SearchInv

LEMMA ErrorStep ==
  ASSUME SearchInv, OnError
  PROVE  SearchInv'
<1>1. /\ Receive("error")
      /\ UNCHANGED <<requested, uciReady, searching, stopping, timers, result, toEngine>>
  BY DEF OnError
<1>2. Flight' /\ toEngine' \in Seq(Commands)
  BY <1>1, OtherLine
<1>3. Stops'
  BY <1>1, CutStays, ReceiveFacts DEF SearchInv, Stops
<1>4. TypeOK'
  BY <1>1, <1>2, ReceiveFacts DEF OnError, SearchInv, TypeOK, Statuses, Commands, Lines
<1>5. Asked' /\ Closed'
  BY <1>1, ReceiveFacts DEF SearchInv, Asked, Closed
<1>. QED
  BY <1>2, <1>3, <1>4, <1>5 DEF SearchInv

LEMMA ReadyokStep ==
  ASSUME SearchInv, OnReadyok
  PROVE  SearchInv'
<1>1. /\ Receive("readyok") /\ timers' = timers \ {"barrier"}
      /\ UNCHANGED <<uciReady, stopping, result>>
  BY DEF OnReadyok
<1>2. CASE pending # None /\ ~searching /\ ~stopping
  <2>1. Serve(pending) /\ status' = "searching"
    BY <1>2 DEF OnReadyok
  <2>2. NoGo(toEngine) /\ NoScore(fromEngine) /\ engine.run = None /\ StopsFirst(toEngine)
    BY <1>2 DEF SearchInv, Flight, Resting, Stops
  <2>3. NoScore(fromEngine')
    BY <1>1, <2>2, ReceiveFacts, Heard
  <2>4. \A i \in DOMAIN fromEngine' : ~fromEngine'[i].cut
    BY <1>1, <1>2, CutStays
  <2>5. /\ Flight' /\ Stops' /\ toEngine' \in Seq(Commands)
        /\ requested' \in Requests /\ requested' = pending /\ searching'
    BY <1>1, <1>2, <2>1, <2>2, <2>3, <2>4, ServeStep
  <2>6. TypeOK'
    BY <1>1, <2>1, <2>5, ReceiveFacts
       DEF Serve, SearchInv, TypeOK, Timers, Statuses, Commands, Lines
  <2>7. Asked' /\ Closed'
    BY <1>1, <1>2, <2>5, ReceiveFacts DEF SearchInv, Asked, Closed, TypeOK, Requests
  <2>. QED
    BY <2>5, <2>6, <2>7 DEF SearchInv
<1>3. CASE ~(pending # None /\ ~searching /\ ~stopping)
  <2>1. UNCHANGED <<requested, searching, toEngine, status>>
    BY <1>3 DEF OnReadyok
  <2>2. Flight' /\ toEngine' \in Seq(Commands)
    BY <1>1, <2>1, OtherLine
  <2>3. Stops'
    BY <1>1, <2>1, CutStays, ReceiveFacts DEF SearchInv, Stops
  <2>4. TypeOK'
    BY <1>1, <2>1, <2>2, ReceiveFacts DEF SearchInv, TypeOK, Timers, Commands, Lines
  <2>5. Asked' /\ Closed'
    BY <1>1, <2>1, ReceiveFacts DEF SearchInv, Asked, Closed
  <2>. QED
    BY <2>2, <2>3, <2>4, <2>5 DEF SearchInv
<1>. QED
  BY <1>2, <1>3

\* A score that is received belongs to the search under way.
LEMMA InfoFacts ==
  ASSUME SearchInv, Receive("info")
  PROVE  /\ searching /\ requested \in Requests /\ Head(fromEngine).of = requested
         /\ Sent \/ Running \/ Back => NoGo(toEngine)
         /\ NoBest(fromEngine) => NoBest(fromEngine')
         /\ OneBest(fromEngine) => OneBest(fromEngine')
         /\ Of(fromEngine, requested) => Of(fromEngine', requested)
         /\ ~NoScore(fromEngine)
<1>1. /\ NoScore(fromEngine) => FALSE
      /\ NoBest(fromEngine) => NoBest(fromEngine')
      /\ OneBest(fromEngine) => OneBest(fromEngine')
      /\ Of(fromEngine, requested) =>
             Of(fromEngine', requested) /\ Head(fromEngine).of = requested
  <2>1. /\ fromEngine \in Seq(Lines) /\ fromEngine # << >>
        /\ Head(fromEngine).line = "info" /\ fromEngine' = Tail(fromEngine)
    BY ReceiveFacts
  <2>. QED
    BY <2>1, Heard
<1>2. searching /\ requested # None /\ (Running \/ Back)
  BY <1>1 DEF SearchInv, Flight, Resting, Sent
<1>. QED
  BY <1>1, <1>2 DEF SearchInv, TypeOK, Sent, Running, Back

LEMMA InfoStep ==
  ASSUME SearchInv, OnInfo
  PROVE  SearchInv'
<1>1. /\ Receive("info")
      /\ UNCHANGED <<requested, uciReady, searching, stopping, timers, status, toEngine>>
  BY DEF OnInfo
<1>2. /\ searching /\ requested \in Requests /\ Head(fromEngine).of = requested
      /\ Wanted => requested = pending
  BY <1>1, InfoFacts DEF Wanted, SearchInv, Asked
<1>3. result' = IF Wanted THEN [of |-> requested, signedFor |-> requested.fen] ELSE result
  BY <1>2 DEF OnInfo
<1>4. Flight'
  BY <1>1, InfoFacts, ReceiveFacts DEF SearchInv, Flight, Sent, Running, Back
<1>5. Stops'
  BY <1>1, CutStays, ReceiveFacts DEF SearchInv, Stops
<1>6. TypeOK'
  <2>1. result' \in Score_ \cup {None}
    BY <1>2, <1>3 DEF SearchInv, TypeOK, Score_, Requests
  <2>. QED
    BY <1>1, <2>1, ReceiveFacts DEF SearchInv, TypeOK, Commands, Lines
<1>7. Asked' /\ Closed'
  BY <1>1, <1>2, <1>3, ReceiveFacts DEF SearchInv, Asked, Closed
<1>. QED
  BY <1>4, <1>5, <1>6, <1>7 DEF SearchInv

\* A bestmove that is received ends the search under way, the only one.
LEMMA BestmoveFacts ==
  ASSUME SearchInv, Receive("bestmove")
  PROVE  /\ searching /\ requested \in Requests /\ requested # None
         /\ NoGo(toEngine) /\ StopsFirst(toEngine)
         /\ NoScore(fromEngine') /\ engine.run = None
         /\ \A i \in DOMAIN fromEngine' : ~fromEngine'[i].cut
<1>1. /\ NoScore(fromEngine) => FALSE
      /\ NoBest(fromEngine) => FALSE
      /\ OneBest(fromEngine) => NoScore(fromEngine')
  <2>1. /\ fromEngine \in Seq(Lines) /\ fromEngine # << >>
        /\ Head(fromEngine).line = "bestmove" /\ fromEngine' = Tail(fromEngine)
    BY ReceiveFacts
  <2>. QED
    BY <2>1, Heard
<1>2. searching /\ requested # None /\ Back
  BY <1>1 DEF SearchInv, Flight, Resting, Sent, Running
<1>. QED
  BY <1>1, <1>2, CutStays, Still DEF SearchInv, TypeOK, Back, NoScore

LEMMA BestmoveStep ==
  ASSUME SearchInv, OnBestmove
  PROVE  SearchInv'
<1>1. Receive("bestmove") /\ UNCHANGED <<uciReady, result>>
  BY DEF OnBestmove
<1>2. CASE stopping /\ Outstanding
  <2>1. /\ ~stopping' /\ timers' = timers \ {"stop"}
        /\ Serve(pending) /\ status' = "searching" /\ pending # None
    BY <1>2 DEF OnBestmove, StoppedEnd, Outstanding
  <2>2. /\ Flight' /\ Stops' /\ toEngine' \in Seq(Commands)
        /\ requested' \in Requests /\ requested' = pending /\ searching'
    BY <1>1, <2>1, BestmoveFacts, ServeStep
  <2>3. TypeOK'
    BY <1>1, <1>2, <2>1, <2>2, ReceiveFacts
       DEF OnBestmove, StoppedEnd, SearchInv, TypeOK, Timers, Statuses, Commands, Lines
  <2>4. Asked' /\ Closed'
    BY <1>1, <2>2, ReceiveFacts DEF SearchInv, Asked, Closed, TypeOK, Requests
  <2>. QED
    BY <2>2, <2>3, <2>4 DEF SearchInv
<1>3. CASE ~(stopping /\ Outstanding)
  <2>1. /\ stopping' = FALSE /\ searching' = FALSE /\ UNCHANGED <<requested, toEngine>>
        /\ timers' \subseteq timers /\ status' \in {status, "ready"}
    BY <1>3 DEF OnBestmove, StoppedEnd, NaturalEnd, SearchInv, TypeOK
  <2>2. Flight' /\ Stops'
    BY <1>1, <2>1, BestmoveFacts, ReceiveFacts DEF Flight, Resting, Stops
  <2>3. TypeOK'
    BY <1>1, <2>1, ReceiveFacts
       DEF SearchInv, TypeOK, Timers, Statuses, Commands, Lines
  <2>4. Asked' /\ Closed'
    BY <1>1, <2>1, ReceiveFacts DEF SearchInv, Asked, Closed
  <2>. QED
    BY <2>2, <2>3, <2>4 DEF SearchInv
<1>. QED
  BY <1>2, <1>3

LEMMA TimeoutStep ==
  ASSUME SearchInv, Timeout
  PROVE  SearchInv'
<1>1. /\ \E t \in timers : timers' = timers \ {t}
      /\ UNCHANGED <<page, seen, refs, result, link, engine>>
      /\ status' \in {status, "error"}
  BY DEF Timeout, InitTimeout, BarrierTimeout, StopTimeout, Elapse
<1>2. TypeOK'
  BY <1>1 DEF SearchInv, TypeOK, refs, link, Timers, Statuses
<1>3. Flight' /\ Stops'
  BY <1>1 DEF SearchInv, refs, link, Flight, Resting, Sent, Running, Back, Stops
<1>4. Asked' /\ Closed'
  BY <1>1 DEF SearchInv, refs, link, Asked, Closed
<1>. QED
  BY <1>2, <1>3, <1>4 DEF SearchInv

-----------------------------------------------------------------------------
(* What the engine does. *)

\* Of the page, the engine changes nothing.
LEMMA EngineKeeps ==
  ASSUME SearchInv, EngineFrame, engine.mode # "none",
         toEngine' \in Seq(Commands), fromEngine' \in Seq(Lines), engine' \in Workers
  PROVE  TypeOK' /\ Asked' /\ Closed'
<1>1. TypeOK'
  BY DEF SearchInv, TypeOK, EngineFrame, refs, ui, Commands, Lines, Workers
<1>2. seen.enabled
  BY WorkerTypes DEF SearchInv, Closed
<1>3. Asked' /\ Closed'
  BY <1>2 DEF SearchInv, Asked, Closed, EngineFrame, refs, ui
<1>. QED
  BY <1>1, <1>3

LEMMA EngineFacts ==
  ASSUME SearchInv
  PROVE  /\ toEngine \in Seq(Commands) /\ fromEngine \in Seq(Lines) /\ engine \in Workers
         /\ \A r \in Requests \cup {None}, b \in BOOLEAN :
                [engine EXCEPT !.run = r, !.told = b] \in Workers
         /\ \A r \in Requests \cup {None} : [engine EXCEPT !.run = r] \in Workers
         /\ \A b \in BOOLEAN : [engine EXCEPT !.told = b] \in Workers
         /\ \A m \in {"ok", "stuck", "dead"} : [engine EXCEPT !.mode = m] \in Workers
BY DEF SearchInv, TypeOK, Commands, Lines, Workers

\* Cut lines stay cut for the stop under way when another is appended.
LEMMA CutSaid ==
  ASSUME SearchInv, EngineFrame, NEW l \in Lines, fromEngine' = Append(fromEngine, l),
         l.cut => stopping /\ l.line = "bestmove"
  PROVE  \A i \in DOMAIN fromEngine' :
             fromEngine'[i].cut => stopping /\ fromEngine'[i].line = "bestmove"
<1>1. \A i \in DOMAIN fromEngine :
          fromEngine[i].cut => stopping /\ fromEngine[i].line = "bestmove"
  BY DEF SearchInv, Stops
<1>2. /\ DOMAIN fromEngine = 1 .. Len(fromEngine) /\ Len(fromEngine) \in Nat
      /\ DOMAIN fromEngine' = 1 .. Len(fromEngine) + 1
      /\ \A i \in 1 .. Len(fromEngine) : fromEngine'[i] = fromEngine[i]
      /\ fromEngine'[Len(fromEngine) + 1] = l
  <2>1. fromEngine \in Seq(Lines)
    BY EngineFacts
  <2>. QED
    BY <2>1, AppendAt
<1>. QED
  BY <1>1, <1>2

\* The answers to "uci" and "isready", and the error event.
LEMMA OtherSaid ==
  ASSUME SearchInv, EngineFrame, NEW l \in {"uciok", "readyok", "error"},
         fromEngine' = Append(fromEngine, Line(l)), engine'.run = engine.run,
         \/ toEngine' = toEngine
         \/ /\ toEngine # << >> /\ Head(toEngine).cmd \in {"uci", "isready"}
            /\ toEngine' = Tail(toEngine)
  PROVE  /\ toEngine' \in Seq(Commands) /\ fromEngine' \in Seq(Lines)
         /\ Flight' /\ Stops'
<1>1. Line(l) \in Lines /\ Line(l).line = l /\ Line(l).cut = FALSE
  BY DEF Line, Lines
<1>2. /\ fromEngine' \in Seq(Lines)
      /\ NoScore(fromEngine) => NoScore(fromEngine')
      /\ NoBest(fromEngine) => NoBest(fromEngine')
      /\ OneBest(fromEngine) => OneBest(fromEngine')
      /\ Of(fromEngine, requested) => Of(fromEngine', requested)
  BY <1>1, EngineFacts, Said
<1>3. /\ toEngine' \in Seq(Commands)
      /\ NoGo(toEngine) => NoGo(toEngine')
      /\ OneGo(toEngine, requested) => OneGo(toEngine', requested)
      /\ NoStop(toEngine) => NoStop(toEngine')
      /\ StopsFirst(toEngine) => StopsFirst(toEngine')
  BY EngineFacts, Taken
<1>4. Flight'
  BY <1>2, <1>3 DEF SearchInv, EngineFrame, refs, Flight, Resting, Sent, Running, Back
<1>5. Stops'
  BY <1>1, <1>3, CutSaid DEF SearchInv, EngineFrame, refs, Stops
<1>. QED
  BY <1>2, <1>3, <1>4, <1>5

LEMMA ObeyStep ==
  ASSUME SearchInv, Obey
  PROVE  SearchInv'
<1> DEFINE c == Head(toEngine)
<1>1. /\ engine.mode = "ok" /\ toEngine # << >> /\ toEngine' = Tail(toEngine)
      /\ EngineFrame
  BY DEF Obey
<1>2. /\ toEngine \in Seq(Commands) /\ fromEngine \in Seq(Lines) /\ engine \in Workers
      /\ toEngine' \in Seq(Commands) /\ c \in Commands
  BY <1>1, EngineFacts, Taken
<1>3. \/ c.cmd = "uci" /\ Say(Line("uciok")) /\ UNCHANGED engine
      \/ c.cmd = "isready" /\ Say(Line("readyok")) /\ UNCHANGED engine
      \/ /\ c.cmd = "go" /\ UNCHANGED fromEngine
         /\ engine' = [engine EXCEPT !.run = c.of, !.told = FALSE]
      \/ /\ c.cmd = "stop" /\ engine.run # None /\ Say(BestMove(engine.run, TRUE))
         /\ engine' = [engine EXCEPT !.run = None]
      \/ c.cmd = "stop" /\ engine.run = None /\ UNCHANGED <<fromEngine, engine>>
  BY DEF Obey
<1> HIDE DEF c
<1>4. /\ fromEngine' \in Seq(Lines) /\ engine' \in Workers /\ Flight' /\ Stops'
  <2>1. CASE c.cmd = "uci" /\ Say(Line("uciok")) /\ UNCHANGED engine
    BY <1>1, <1>2, <2>1, OtherSaid DEF Say, c
  <2>2. CASE c.cmd = "isready" /\ Say(Line("readyok")) /\ UNCHANGED engine
    BY <1>1, <1>2, <2>2, OtherSaid DEF Say, c
  <2>3. CASE /\ c.cmd = "go" /\ UNCHANGED fromEngine
             /\ engine' = [engine EXCEPT !.run = c.of, !.told = FALSE]
    <3>1. /\ NoGo(toEngine) => FALSE
          /\ OneGo(toEngine, requested) => NoGo(toEngine') /\ c.of = requested
          /\ StopsFirst(toEngine) => NoStop(toEngine') /\ StopsFirst(toEngine')
      BY <1>1, <1>2, <2>3, Taken DEF c
    <3>2. searching /\ requested # None /\ Sent
      BY <3>1 DEF SearchInv, Flight, Resting, Running, Back
    <3>3. engine' \in Workers /\ engine'.run = requested
      BY <1>2, <2>3, <3>1, <3>2, EngineFacts, ZenonT(60) DEF Sent, Commands, Workers
    <3>4. Flight'
      BY <1>1, <2>3, <3>1, <3>2, <3>3, Still
         DEF EngineFrame, refs, Flight, Sent, Running
    <3>5. Stops'
      BY <1>1, <2>3, <3>1, <3>2, <3>3 DEF EngineFrame, refs, SearchInv, Stops
    <3>. QED
      BY <1>2, <2>3, <3>3, <3>4, <3>5
  <2>4. CASE /\ c.cmd = "stop" /\ engine.run # None /\ Say(BestMove(engine.run, TRUE))
             /\ engine' = [engine EXCEPT !.run = None]
    <3> DEFINE l == BestMove(engine.run, TRUE)
    <3>1. searching /\ requested # None /\ Running
      BY <2>4 DEF SearchInv, Flight, Resting, Sent, Back
    <3>2. l \in Lines /\ l.line = "bestmove" /\ l.of = requested
      BY <1>2, <3>1 DEF BestMove, Lines, Running, Workers
    <3>3. stopping
      <4>1. NoStop(toEngine) => FALSE
        BY <1>1, <1>2, <2>4, Taken DEF c
      <4>. QED
        BY <2>4, <4>1 DEF SearchInv, Stops
    <3>4. NoGo(toEngine')
      BY <1>1, <1>2, <3>1, Taken DEF Running
    <3> HIDE DEF l
    <3>5. /\ fromEngine' \in Seq(Lines) /\ OneBest(fromEngine')
          /\ Of(fromEngine', requested)
      <4>1. fromEngine' = Append(fromEngine, l)
        BY <2>4 DEF Say, l
      <4>. QED
        BY <1>2, <3>1, <3>2, <4>1, Said DEF Running
    <3>6. engine' \in Workers /\ engine'.run = None
      BY <1>2, <2>4, EngineFacts DEF Workers
    <3>7. Flight'
      BY <1>1, <3>1, <3>4, <3>5, <3>6 DEF EngineFrame, refs, Flight, Back
    <3>8. \A i \in DOMAIN fromEngine' :
              fromEngine'[i].cut => stopping /\ fromEngine'[i].line = "bestmove"
      BY <1>1, <2>4, <3>2, <3>3, CutSaid DEF Say, l
    <3>9. Stops'
      BY <1>1, <3>1, <3>3, <3>8 DEF EngineFrame, refs, Stops
    <3>. QED
      BY <3>5, <3>6, <3>7, <3>9
  <2>5. CASE c.cmd = "stop" /\ engine.run = None /\ UNCHANGED <<fromEngine, engine>>
    <3>1. /\ NoGo(toEngine) => NoGo(toEngine')
          /\ OneGo(toEngine, requested) => OneGo(toEngine', requested)
          /\ StopsFirst(toEngine) => StopsFirst(toEngine')
      BY <1>1, <1>2, <2>5, Taken DEF c
    <3>. QED
      BY <1>1, <1>2, <2>5, <3>1
         DEF SearchInv, EngineFrame, refs, Flight, Resting, Sent, Running, Back, Stops
  <2>. QED
    BY <1>3, <2>1, <2>2, <2>3, <2>4, <2>5
<1>. QED
  BY <1>1, <1>2, <1>4, EngineKeeps DEF SearchInv

LEMMA SearchingStep ==
  ASSUME SearchInv, Score \/ ReachDepth
  PROVE  SearchInv'
<1>1. /\ engine.mode = "ok" /\ engine.run # None /\ UNCHANGED toEngine /\ EngineFrame
      /\ \/ /\ Say(Info(engine.run)) /\ engine' = [engine EXCEPT !.told = TRUE]
         \/ Say(BestMove(engine.run, FALSE)) /\ engine' = [engine EXCEPT !.run = None]
  BY DEF Score, ReachDepth
<1>2. /\ toEngine \in Seq(Commands) /\ fromEngine \in Seq(Lines) /\ engine \in Workers
      /\ engine' \in Workers
  BY <1>1, EngineFacts
<1>3. searching /\ requested # None /\ Running
  BY <1>1 DEF SearchInv, Flight, Resting, Sent, Back
<1>4. PICK l \in Lines :
          /\ fromEngine' = Append(fromEngine, l) /\ l.of = requested /\ l.cut = FALSE
          /\ \/ l.line = "info" /\ engine'.run = requested
             \/ l.line = "bestmove" /\ engine'.run = None
  <2>1. engine.run = requested /\ requested \in Requests \cup {None}
    BY <1>2, <1>3 DEF Running, Workers
  <2>2. /\ Info(requested) \in Lines /\ Info(requested).of = requested
        /\ Info(requested).cut = FALSE /\ Info(requested).line = "info"
    BY <2>1 DEF Info, Lines
  <2>3. /\ BestMove(requested, FALSE) \in Lines /\ BestMove(requested, FALSE).of = requested
        /\ BestMove(requested, FALSE).cut = FALSE
        /\ BestMove(requested, FALSE).line = "bestmove"
    BY <2>1 DEF BestMove, Lines
  <2>4. /\ [engine EXCEPT !.told = TRUE].run = requested
        /\ [engine EXCEPT !.run = None].run = None
    BY <1>2, <2>1 DEF Workers
  <2>. QED
    BY <1>1, <2>1, <2>2, <2>3, <2>4 DEF Say
<1>5. /\ fromEngine' \in Seq(Lines) /\ Of(fromEngine', requested)
      /\ l.line = "info" => NoBest(fromEngine')
      /\ l.line = "bestmove" => OneBest(fromEngine')
  BY <1>2, <1>3, <1>4, Said DEF Running
<1>6. Flight'
  BY <1>1, <1>3, <1>4, <1>5 DEF EngineFrame, refs, Flight, Running, Back
<1>7. Stops'
  <2>1. \A i \in DOMAIN fromEngine' :
            fromEngine'[i].cut => stopping /\ fromEngine'[i].line = "bestmove"
    BY <1>1, <1>4, CutSaid
  <2>. QED
    BY <1>1, <2>1 DEF SearchInv, EngineFrame, refs, Stops
<1>. QED
  BY <1>1, <1>2, <1>5, <1>6, <1>7, EngineKeeps DEF SearchInv

LEMMA FaultStep ==
  ASSUME SearchInv, Stall \/ Wake \/ Die
  PROVE  SearchInv'
<1>1. /\ engine.mode # "none" /\ EngineFrame /\ UNCHANGED toEngine
      /\ \E m \in {"ok", "stuck", "dead"} : engine' = [engine EXCEPT !.mode = m]
      /\ \/ UNCHANGED fromEngine
         \/ fromEngine' = Append(fromEngine, Line("error"))
  BY DEF Stall, Wake, Die, Say, link
<1>2. engine' \in Workers /\ engine'.run = engine.run
  <2>1. PICK m \in {"ok", "stuck", "dead"} : engine' = [engine EXCEPT !.mode = m]
    BY <1>1
  <2>2. engine \in Workers /\ [engine EXCEPT !.mode = m] \in Workers
    BY EngineFacts
  <2>. QED
    BY <2>1, <2>2 DEF Workers
<1>3. /\ toEngine' \in Seq(Commands) /\ fromEngine' \in Seq(Lines)
      /\ Flight' /\ Stops'
  <2>1. CASE UNCHANGED fromEngine
    BY <1>1, <1>2, <2>1, EngineFacts
       DEF SearchInv, EngineFrame, refs, Flight, Resting, Sent, Running, Back, Stops
  <2>2. CASE fromEngine' = Append(fromEngine, Line("error"))
    BY <1>1, <1>2, <2>2, OtherSaid
  <2>. QED
    BY <1>1, <2>1, <2>2
<1>. QED
  BY <1>1, <1>2, <1>3, EngineKeeps DEF SearchInv

-----------------------------------------------------------------------------
(* The invariant. *)

LEMMA SearchNext ==
  ASSUME SearchInv, [Next]_vars
  PROVE  SearchInv'
<1>1. CASE User
  BY <1>1, UserStep
<1>2. CASE Effects
  BY <1>2, StartStep, StopStep, ChangeStep, IdleStep DEF Effects
<1>3. CASE Deliver
  BY <1>3, UciokStep, ReadyokStep, InfoStep, BestmoveStep, ErrorStep DEF Deliver
<1>4. CASE Timeout
  BY <1>4, TimeoutStep
<1>5. CASE Engine
  BY <1>5, ObeyStep, SearchingStep DEF Engine
<1>6. CASE Stall \/ Wake \/ Die
  BY <1>6, FaultStep
<1>7. CASE UNCHANGED vars
  <2>1. UNCHANGED <<page, seen, gen, pending, requested, uciReady, searching, stopping,
                    timers, status, result, toEngine, fromEngine, engine>>
    BY <1>7 DEF vars, refs, ui, link
  <2>2. TypeOK'
    BY <2>1 DEF SearchInv, TypeOK
  <2>3. Flight' /\ Stops'
    BY <2>1 DEF SearchInv, Flight, Resting, Sent, Running, Back, Stops
  <2>4. Asked' /\ Closed'
    BY <2>1 DEF SearchInv, Asked, Closed
  <2>. QED
    BY <2>2, <2>3, <2>4 DEF SearchInv
<1>. QED
  BY <1>1, <1>2, <1>3, <1>4, <1>5, <1>6, <1>7 DEF Next

\* The inductive invariant holds of every reachable state of the session.
THEOREM SearchHolds == Spec => []SearchInv
<1>1. Init => SearchInv
  BY SearchInit
<1>2. SearchInv /\ [Next]_vars => SearchInv'
  BY SearchNext
<1>. QED
  BY <1>1, <1>2, PTL DEF Spec

\* The refs, timers, messages and the engine keep their shapes: in particular
\* no generation is made beyond the requests of a page load.
THEOREM SearchTypes == Spec => []TypeOK
<1>1. SearchInv => TypeOK
  BY DEF SearchInv
<1>. QED
  BY <1>1, SearchHolds, PTL

-----------------------------------------------------------------------------
(* One search at a time. *)

LEMMA Alone ==
  ASSUME NEW S, NEW P, NEW i \in S, P \subseteq S, i \in P, \A j \in S \ {i} : j \notin P
  PROVE  Cardinality(P) = 1
<1>1. P = {i}
  OBVIOUS
<1>. QED
  BY <1>1, FS_Singleton

LEMMA Nothing ==
  ASSUME NEW S, NEW P, P \subseteq S, \A j \in S : j \notin P
  PROVE  Cardinality(P) = 0
<1>1. P = {}
  OBVIOUS
<1>. QED
  BY <1>1, FS_EmptySet

\* searchingRef is set exactly while one search is on its way to the engine,
\* in it, or on its way back: no "go" ever reaches an engine that searches.
THEOREM OneSearchCorrect == Spec => []OneSearchAtATime
<1>1. NoGo(toEngine) => Gos = 0
  BY Nothing DEF NoGo, Gos
<1>2. OneGo(toEngine, requested) => Gos = 1
  <2>1. SUFFICES ASSUME NEW i \in DOMAIN toEngine, toEngine[i].cmd = "go",
                        \A j \in DOMAIN toEngine \ {i} : toEngine[j].cmd # "go"
                 PROVE  Gos = 1
    BY DEF OneGo
  <2>. QED
    BY <2>1, Alone DEF Gos
<1>3. NoBest(fromEngine) => BestMoves = 0
  BY Nothing DEF NoBest, BestMoves
<1>4. OneBest(fromEngine) => BestMoves = 1
  <2>1. SUFFICES ASSUME NEW i \in DOMAIN fromEngine, fromEngine[i].line = "bestmove",
                        \A j \in DOMAIN fromEngine \ {i} : fromEngine[j].line # "bestmove"
                 PROVE  BestMoves = 1
    BY DEF OneBest
  <2>. QED
    BY <2>1, Alone DEF BestMoves
<1>5. SearchInv => OneSearchAtATime
  BY <1>1, <1>2, <1>3, <1>4, Still
     DEF SearchInv, Flight, Resting, Sent, Running, Back, OneSearchAtATime, Searches
<1>. QED
  BY <1>5, SearchHolds, PTL

\* A score on the panel is the score of the position on the board, at the
\* depth asked for, signed for its own side to move.
THEOREM ScoreCorrect == Spec => []ShownIsCurrent
<1>1. SearchInv => ShownIsCurrent
  <2> SUFFICES ASSUME SearchInv, page = seen, Panel = "score"
               PROVE  /\ result.of.fen = page.fen /\ result.of.depth = page.depth
                      /\ result.of.gen = gen /\ result.signedFor = page.fen
    BY DEF ShownIsCurrent
  <2>1. page.enabled /\ result # None
    BY DEF Panel, SearchInv, TypeOK, Props, Statuses
  <2>2. /\ result = [of |-> pending, signedFor |-> seen.fen]
        /\ pending = [gen |-> gen, fen |-> seen.fen, depth |-> seen.depth]
    BY <2>1 DEF SearchInv, Asked
  <2>. QED
    BY <2>2
<1>. QED
  BY <1>1, SearchHolds, PTL

\* A search that a stop cut short is never taken for one that reached its
\* depth, however the stop crosses a bestmove on its way.
THEOREM CutCorrect == Spec => []CutSearchIsAwaited
<1>1. SearchInv => CutSearchIsAwaited
  <2> SUFFICES ASSUME SearchInv, NEW i \in 1 .. Len(fromEngine), fromEngine[i].cut
               PROVE  stopping
    BY DEF CutSearchIsAwaited
  <2>1. i \in DOMAIN fromEngine
    BY EngineFacts, LenProperties
  <2>. QED
    BY <2>1 DEF SearchInv, Stops
<1>. QED
  BY <1>1, SearchHolds, PTL

-----------------------------------------------------------------------------
(* The session implements LatestSearch. *)

shownNow == IF pending = None \/ result = None THEN None ELSE result.of
runNow   == IF searching THEN requested ELSE None

\* What a step must do to the latest request, the search and the score.
LatestStep == Latest!Next \/ UNCHANGED <<pending, runNow, shownNow>>

LEMMA LatestInit == Init => Latest!Init
BY DEF Init, Latest!Init

LEMMA SameLatest ==
  ASSUME UNCHANGED <<pending, requested, searching, result>>
  PROVE  LatestStep
BY DEF LatestStep, runNow, shownNow

LEMMA CloseLatest ==
  ASSUME pending' = None, searching' = FALSE
  PROVE  LatestStep
BY DEF LatestStep, Latest!Next, Latest!Close

LEMMA AskLatest ==
  ASSUME SearchInv, StartSession \/ ChangeRequest
  PROVE  LatestStep
<1>1. /\ page.enabled /\ page # seen
      /\ pending' = Request /\ result' = None
  BY DEF StartSession, ChangeRequest, NewRequest
<1>2. Request \in Requests /\ Request # pending
  BY <1>1, NewIsRequest, NoneIsNoRequest DEF SearchInv, Asked, Closed, TypeOK
<1>3. \/ UNCHANGED <<requested, searching>>
      \/ ~searching /\ searching' /\ requested' = Request
  <2>1. CASE StartSession
    BY <2>1 DEF StartSession
  <2>2. CASE ChangeRequest
    BY <2>2 DEF ChangeRequest, Dispatch, NoServe, PostStop, ServeNow, Serve, HasWorker,
                SearchInv, TypeOK
  <2>. QED
    BY <2>1, <2>2
<1>4. runNow' = runNow \/ (runNow = None /\ runNow' = Request)
  BY <1>3 DEF runNow
<1>5. Latest!Ask(Request)
  BY <1>1, <1>2, <1>4 DEF Latest!Ask, runNow
<1>. QED
  BY <1>2, <1>5 DEF LatestStep, Latest!Next

LEMMA TurnLatest ==
  ASSUME SearchInv, OnReadyok \/ OnBestmove
  PROVE  LatestStep
<1>1. UNCHANGED <<pending, result>>
  BY DEF OnReadyok, OnBestmove, Receive
<1>2. runNow' = runNow \/ runNow' \in {None, pending} \ {runNow}
  <2>1. CASE OnReadyok
    BY <2>1 DEF OnReadyok, Serve, runNow, SearchInv, TypeOK
  <2>2. CASE OnBestmove
    BY <2>2 DEF OnBestmove, StoppedEnd, NaturalEnd, Serve, runNow
  <2>. QED
    BY <2>1, <2>2
<1>3. shownNow' = shownNow
  BY <1>1 DEF shownNow
<1>. QED
  BY <1>1, <1>2, <1>3 DEF LatestStep, Latest!Next, Latest!Turn, runNow, shownNow

LEMMA ShowLatest ==
  ASSUME SearchInv, OnInfo
  PROVE  LatestStep
<1>1. Receive("info") /\ UNCHANGED <<pending, requested, searching>>
  BY DEF OnInfo, Receive
<1>2. searching /\ requested \in Requests /\ Head(fromEngine).of = requested
  BY <1>1, InfoFacts
<1>3. CASE Wanted
  <2>1. requested = pending /\ pending # None
    BY <1>3 DEF Wanted, SearchInv, Asked
  <2>2. result' = [of |-> requested, signedFor |-> requested.fen] /\ result' # None
    BY <1>2, <1>3, NoneIsNoRequest DEF OnInfo, Score_, Requests
  <2>3. Latest!Show
    BY <1>1, <1>2, <2>1, <2>2 DEF Latest!Show
  <2>. QED
    BY <2>3 DEF LatestStep, Latest!Next
<1>4. CASE ~Wanted
  BY <1>1, <1>4, SameLatest DEF OnInfo
<1>. QED
  BY <1>3, <1>4

\* Every step of the session, its faults included, is a step of LatestSearch or
\* none: a position is asked for, an idle engine takes the latest one, its score
\* is shown, or the session closes.
THEOREM SearchImplementsLatest == Spec => ImplementsLatestSearch
<1>1. Init => Latest!Init
  BY LatestInit
<1>2. ASSUME SearchInv, [Next]_vars
      PROVE  LatestStep
  <2>1. CASE ToggleAnalysis \/ ChangeDepth \/ Navigate \/ LivePayload
    BY <2>1, SameLatest
       DEF ToggleAnalysis, ChangeDepth, Navigate, LivePayload, Render, refs, ui
  <2>2. CASE Reload \/ StopSession
    BY <2>2, CloseLatest DEF Reload, StopSession
  <2>3. CASE StartSession \/ ChangeRequest
    BY <2>3, AskLatest, <1>2
  <2>4. CASE IdleRender \/ Timeout
    BY <2>4, SameLatest
       DEF IdleRender, Timeout, InitTimeout, BarrierTimeout, StopTimeout, Elapse, refs, ui
  <2>5. CASE OnUciok \/ OnError
    BY <2>5, SameLatest DEF OnUciok, OnError, Receive
  <2>6. CASE OnReadyok \/ OnBestmove
    BY <2>6, TurnLatest, <1>2
  <2>7. CASE OnInfo
    BY <2>7, ShowLatest, <1>2
  <2>8. CASE Engine \/ Stall \/ Wake \/ Die
    BY <2>8, SameLatest
       DEF Engine, Obey, Score, ReachDepth, Stall, Wake, Die, EngineFrame, refs, ui
  <2>9. CASE UNCHANGED vars
    BY <2>9, SameLatest DEF vars, refs, ui
  <2>. QED
    BY <1>2, <2>1, <2>2, <2>3, <2>4, <2>5, <2>6, <2>7, <2>8, <2>9
       DEF Next, User, Effects, Deliver
<1>3. LatestStep => [Latest!Next]_(Latest!vars)
  BY DEF LatestStep, runNow, shownNow, Latest!vars
<1>. QED
  BY <1>1, <1>2, <1>3, SearchHolds, PTL DEF Spec, ImplementsLatestSearch, Latest!Spec
=============================================================================
