--------------------------- MODULE HumanPlayProofs ---------------------------
(***************************************************************************)
(* The page and its server, for any games, moves and bounds: the page      *)
(* preserves its own part of the invariant, the requests and the executor  *)
(* theirs (HumanGameProofs), and the properties of HumanPlay follow.       *)
(***************************************************************************)
EXTENDS HumanGameProofs, FiniteSetTheorems

USE HumanAssumption

-----------------------------------------------------------------------------
(* The inductive invariant. *)

\* The page shows a game that was created, and no ply beyond it; it polls with
\* the token it holds, and only while it shows a game.
Page ==
    /\ phase \in {"lobby", "playing", "crashed"}
    /\ {busy, picker, timer, reloaded} \subseteq BOOLEAN /\ faults \in 0 .. MaxFaults
    /\ token \in Games \cup {None}
    /\ stored \in Games \cup {None} /\ (stored # None => Born(stored))
    /\ view # None => view \in Views /\ Born(view.game)
    /\ InReview => view # None /\ review \in 0 .. view.len
    /\ timer => view # None
    /\ \A c \in calls : c.live /\ c.op = "get" => view # None /\ c.tok = token
    /\ phase = "crashed" => ~timer /\ \A c \in calls : ~c.live

Working(c) == c.live /\ c.op \in {"create", "submit", "resync"}

\* Until the page is loaded again: no restore is under way; a start or a move
\* is, one at most, only while busy; an open picker leaves the board idle; what
\* is under way on the board carries the token of the page, which is that of
\* the ACTIVE game it shows.
Session == ~reloaded =>
    /\ \A c \in calls : c.live => c.op # "restore"
    /\ \A c, d \in calls : Working(c) /\ Working(d) => c = d
    /\ \A c \in calls : Working(c) => busy
    /\ picker /\ phase = "playing" => ~busy
    /\ \A c \in calls : Working(c) /\ c.op # "create" /\ phase = "playing" => c.tok = token
    /\ Shown /\ view.status = "ACTIVE" => token = view.game

HumanInv == GameInv /\ Page /\ Session

-----------------------------------------------------------------------------
(* The requests of the page. *)

\* What the page does leaves the server alone.
LEMMA SameServer == ASSUME GameInv, UNCHANGED <<served, executor>>, CallsOK'
                    PROVE  GameInv' /\ OneWay
<1>1. UNCHANGED <<row, log, late, executor>>
      BY DEF served
<1>2. Typed' /\ Owing' /\ Searched'
      BY <1>1 DEF GameInv, Typed, Owing, Owed, Active, Searched, Searching, Born
<1>3. EngineAnswersTheHuman' /\ ActiveIsOpen'
      BY <1>1 DEF GameInv, EngineAnswersTheHuman, ActiveIsOpen, Active, History
<1>4. OneWay
      BY <1>1 DEF OneWay, Born
<1> QED  BY <1>2, <1>3, <1>4 DEF GameInv

LEMMA SameCall == ASSUME row' = row, NEW c  PROVE CallOK(c)' = CallOK(c)
BY DEF CallOK, Born

\* A request that is sent.
LEMMA NewCall ==
    ASSUME NEW op, NEW g, NEW tok, NEW uci, NEW rev,
           op \in Reads \cup {"create", "submit", "resign"},
           {g, tok} \subseteq Games \cup {None},
           uci \in Moves \cup Colors \cup {"illegal", None}, rev \in Nat,
           op = "create" => uci \in Colors,
           op # "create" => g \in Games /\ Born(g)
    PROVE  CallOK(Call(op, g, tok, uci, rev))
<1> DEFINE k == Call(op, g, tok, uci, rev)
<1>1. k = [op |-> op, game |-> g, tok |-> tok, uci |-> uci, rev |-> rev,
           at |-> "sent", read |-> None, reply |-> None, live |-> TRUE]
      BY DEF Call
<1>2. /\ k \in Requests /\ k.op = op /\ k.game = g /\ k.tok = tok /\ k.uci = uci
      /\ k.at = "sent" /\ k.live = TRUE
      BY <1>1 DEF Requests
<1> HIDE DEF k
<1>3. CallOK(k)
      BY <1>2 DEF CallOK, Born
<1> QED  BY <1>3 DEF k

\* Nobody waits for the answer of this request any more.
Forgotten(c) == [c EXCEPT !.live = FALSE]
LEMMA Forgetting == ASSUME NEW c, CallOK(c)
                    PROVE  CallOK(Forgotten(c)) /\ ~Forgotten(c).live
<1> DEFINE d == Forgotten(c)
<1>1. /\ d \in Requests /\ ~d.live /\ d.op = c.op /\ d.at = c.at /\ d.uci = c.uci
      /\ d.game = c.game /\ d.tok = c.tok /\ d.read = c.read /\ d.reply = c.reply
      <2>1. c \in Requests
            BY DEF CallOK
      <2> QED  BY <2>1 DEF Requests, Forgotten
<1> HIDE DEF d
<1>2. CallOK(d)
      BY <1>1 DEF CallOK, Born
<1> QED  BY <1>1, <1>2 DEF d

LEMMA Orphaned == ASSUME NEW cs, \A c \in cs : CallOK(c),
                         NEW e \in Undelivered(Orphans(cs, "get"))
                  PROVE  CallOK(e) /\ (e.live => e \in cs /\ e.op # "get")
<1>1. PICK c \in cs : e = IF c.op = "get" THEN Forgotten(c) ELSE c
      BY DEF Undelivered, Orphans, Forgotten
<1> QED  BY <1>1, Forgetting

LEMMA AllForgotten == ASSUME NEW cs, \A c \in cs : CallOK(c),
                             NEW e \in Undelivered({[c EXCEPT !.live = FALSE] : c \in cs})
                      PROVE  CallOK(e) /\ ~e.live
<1>1. PICK c \in cs : e = Forgotten(c)
      BY DEF Undelivered, Forgotten
<1> QED  BY <1>1, Forgetting

-----------------------------------------------------------------------------
(* What is put on the page. *)

\* No pair is None: two keys are equal when there is a game in both, or none.
LEMMA Keys == ASSUME NEW v \in Views PROVE Key(v) # None \/ v = None
<1>1. <<v.status, v.len>> \in (Terminal \cup {"ACTIVE"}) \X Nat
      BY DEF Views
<1> QED  BY <1>1, NoneIsNoKey DEF Key

LEMMA ReviewInGame == ASSUME Page, NEW v, v # None => v \in Views
                      PROVE  ReviewOf(v) # None => v # None /\ ReviewOf(v) \in 0 .. v.len
<1> SUFFICES ASSUME ReviewOf(v) # None  PROVE v # None /\ ReviewOf(v) \in 0 .. v.len
    OBVIOUS
<1>1. CASE Key(v) = Key(view)
      <2>1. ReviewOf(v) = review /\ review # None
            BY <1>1 DEF ReviewOf
      <2>2. view # None /\ view \in Views /\ review \in 0 .. view.len
            BY <2>1 DEF Page, InReview
      <2>3. v # None
            BY <1>1, <2>2, Keys DEF Key
      <2>4. v.len = view.len
            BY <1>1, <2>2, <2>3 DEF Key
      <2> QED  BY <2>1, <2>2, <2>3, <2>4
<1>2. CASE Key(v) # Key(view)
      <2>1. v # None /\ ReviewOf(v) = v.len
            BY <1>2 DEF ReviewOf
      <2>2. v.len \in Nat
            BY <2>1 DEF Views
      <2> QED  BY <2>1, <2>2
<1> QED  BY <1>1, <1>2

\* A payload is shown: what was polled for the former one is forgotten.
LEMMA Shows ==
    ASSUME Page, row' = row, NEW v, v # None => v \in Views /\ Born(v.game),
           NEW t \in Games \cup {None}, NEW cs, \A c \in cs : CallOK(c), Show(v, t, cs)
    PROVE  /\ CallsOK' /\ \A c \in calls' : c.live => c \in cs /\ c.op # "get"
           /\ view' = v /\ token' = t /\ timer' \in BOOLEAN
           /\ (v # None => v \in Views /\ Born(v.game))'
           /\ InReview' => view' # None /\ review' \in 0 .. view'.len
           /\ timer' => view' # None
<1>1. /\ view' = v /\ token' = t /\ review' = ReviewOf(v) /\ timer' = Polls(v, t)
      /\ calls' = Undelivered(Orphans(cs, "get"))
      BY DEF Show
<1>2. CallsOK' /\ \A c \in calls' : c.live => c \in cs /\ c.op # "get"
      BY <1>1, Orphaned, SameCall DEF CallsOK
<1>3. InReview' => view' # None /\ review' \in 0 .. view'.len
      BY <1>1, ReviewInGame DEF InReview
<1>4. timer' \in BOOLEAN /\ (timer' => view' # None)
      BY <1>1 DEF Polls
<1> QED  BY <1>1, <1>2, <1>3, <1>4 DEF Born

\* An exception while rendering: nobody waits for anything any more.
LEMMA Crashes ==
    ASSUME row' = row, NEW cs, \A c \in cs : CallOK(c), Crash(cs)
    PROVE  /\ CallsOK' /\ \A c \in calls' : ~c.live
           /\ phase' = "crashed" /\ view' = None /\ token' = None /\ ~InReview'
           /\ ~timer' /\ ~picker' /\ ~busy' /\ {timer, picker, busy}' \subseteq BOOLEAN
BY AllForgotten, SameCall DEF Crash, CallsOK, InReview

-----------------------------------------------------------------------------
(* The user. *)

\* Views and rows that stay, seen from one state to the next.
LEMMA Sending == ASSUME CallsOK, row' = row, NEW k, CallOK(k), calls' = calls \cup {k}
                 PROVE  CallsOK'
BY SameCall DEF CallsOK

LEMMA StartStep == ASSUME HumanInv, NEW color \in Colors, ClickStart(color)
                   PROVE  CallsOK' /\ Page' /\ Session'
<1> DEFINE k == Call("create", None, None, color, 0)
<1>1. /\ phase = "lobby" /\ ~busy /\ busy' = TRUE /\ calls' = calls \cup {k}
      /\ UNCHANGED <<row, phase, view, token, stored, picker, review, timer, faults, reloaded>>
      BY DEF ClickStart, MayStart, Send, Quiet, served, past
<1>2. CallOK(k) /\ k.op = "create" /\ k.live
      <2>1. CallOK(k)
            BY NewCall
      <2> QED  BY <2>1 DEF Call
<1> HIDE DEF k
<1>3. CallsOK'
      BY <1>1, <1>2, Sending DEF HumanInv, GameInv
<1>4. Page'
      BY <1>1, <1>2 DEF HumanInv, Page, Born, InReview
<1>5. Session'
      BY <1>1, <1>2 DEF HumanInv, Session, Working, Shown
<1> QED  BY <1>3, <1>4, <1>5

\* A move is sent from the board or from the picker.
LEMMA MoveStep == ASSUME HumanInv, NEW uci \in Moves \cup {"illegal"},
                         DropMove(uci) \/ PickPromotion(uci)
                  PROVE  CallsOK' /\ Page' /\ Session'
<1> DEFINE k == Call("submit", view.game, token, uci, view.rev)
<1>1. /\ busy' = TRUE /\ calls' = calls \cup {k} /\ token # None
      /\ Shown /\ view # None /\ picker' = FALSE
      /\ UNCHANGED <<row, phase, view, token, stored, review, timer, faults, reloaded>>
      <2>1. picker \in BOOLEAN
            BY DEF HumanInv, Page
      <2> QED  BY <2>1 DEF DropMove, PickPromotion, MayDrag, Submit, Send, Quiet, served, past,
                           Shown
<1>2. ~reloaded => ~busy
      BY DEF HumanInv, Session, DropMove, PickPromotion, MayDrag, Shown
<1>3. CallOK(k) /\ k.op = "submit" /\ k.tok = token /\ k.live
      <2>1. view \in Views /\ Born(view.game) /\ token \in Games
            BY <1>1 DEF HumanInv, Page
      <2>2. view.game \in Games /\ view.rev \in Nat
            BY <2>1 DEF Views
      <2>3. CallOK(k)
            BY <2>1, <2>2, NewCall
      <2> QED  BY <2>3 DEF Call
<1> HIDE DEF k
<1>4. CallsOK'
      BY <1>1, <1>3, Sending DEF HumanInv, GameInv
<1>5. Page'
      BY <1>1, <1>3 DEF HumanInv, Page, Born, InReview, Shown
<1>6. Session'
      BY <1>1, <1>2, <1>3 DEF HumanInv, Session, Working, Shown
<1> QED  BY <1>4, <1>5, <1>6

LEMMA PickerStep == ASSUME HumanInv, DropPromotion
                    PROVE  CallsOK' /\ Page' /\ Session'
<1>1. /\ picker' = TRUE /\ ~busy
      /\ UNCHANGED <<row, phase, view, token, stored, busy, review, timer, calls, faults,
                     reloaded>>
      BY DEF DropPromotion, MayDrag, Quiet, served, past
<1>2. CallsOK'
      BY <1>1, SameCall DEF HumanInv, GameInv, CallsOK
<1>3. Page'
      BY <1>1 DEF HumanInv, Page, Born, InReview
<1>4. Session'
      BY <1>1 DEF HumanInv, Session, Working, Shown
<1> QED  BY <1>2, <1>3, <1>4

\* The button of a game on the page, and the timer, send one more request.
LEMMA AskStep == ASSUME HumanInv, ClickResign \/ Tick
                 PROVE  CallsOK' /\ Page' /\ Session'
<1>1. /\ view # None /\ view \in Views /\ Born(view.game)
      /\ token \in Games \cup {None} /\ phase # "crashed"
      BY DEF HumanInv, Page, ClickResign, Tick, Shown
<1>2. ASSUME NEW op \in {"resign", "get"}, calls' = calls \cup {Call(op, view.game, token, None, 0)},
             timer' \in BOOLEAN,
             UNCHANGED <<row, phase, view, token, stored, busy, picker, review, faults, reloaded>>
      PROVE  CallsOK' /\ Page' /\ Session'
      <2> DEFINE k == Call(op, view.game, token, None, 0)
      <2>1. CallOK(k) /\ k.op = op /\ k.tok = token
            <3>1. view.game \in Games
                  BY <1>1 DEF Views
            <3>2. CallOK(k)
                  BY <1>1, <3>1, NewCall DEF Reads
            <3> QED  BY <3>2 DEF Call
      <2>2. calls' = calls \cup {k}
            BY <1>2
      <2> HIDE DEF k
      <2>3. CallsOK'
            BY <1>2, <2>1, <2>2, Sending DEF HumanInv, GameInv
      <2>4. Page'
            BY <1>1, <1>2, <2>1, <2>2 DEF HumanInv, Page, Born, InReview
      <2>5. Session'
            BY <1>2, <2>1, <2>2 DEF HumanInv, Session, Working, Shown
      <2> QED  BY <2>3, <2>4, <2>5
<1>3. timer \in BOOLEAN
      BY DEF HumanInv, Page
<1>4. CASE ClickResign
      <2>1. /\ calls' = calls \cup {Call("resign", view.game, token, None, 0)} /\ timer' = timer
            /\ UNCHANGED <<row, phase, view, token, stored, busy, picker, review, faults, reloaded>>
            BY <1>4 DEF ClickResign, Send, Quiet, served, past, tab
      <2> QED  BY <1>2, <1>3, <2>1
<1>5. CASE Tick
      <2>1. /\ calls' = calls \cup {Call("get", view.game, token, None, 0)} /\ timer' = FALSE
            /\ UNCHANGED <<row, phase, view, token, stored, busy, picker, review, faults, reloaded>>
            BY <1>5 DEF Tick, Quiet, served, past
      <2> QED  BY <1>2, <2>1
<1> QED  BY <1>4, <1>5

\* What the page is after a payload was put on it, or after it broke.
LEMMA ShowPage ==
    ASSUME HumanInv, row' = row, NEW v, v # None => v \in Views /\ Born(v.game),
           NEW t \in Games \cup {None}, NEW cs \in SUBSET calls, Show(v, t, cs),
           phase' \in {"lobby", "playing"}, busy' \in BOOLEAN, picker' \in BOOLEAN,
           stored' \in Games \cup {None}, stored' # None => Born(stored'),
           UNCHANGED <<faults, reloaded>>
    PROVE  /\ Page' /\ CallsOK' /\ \A c \in calls' : c.live => c \in cs /\ c.op # "get"
           /\ view' = v /\ token' = t
<1>1. /\ CallsOK' /\ \A c \in calls' : c.live => c \in cs /\ c.op # "get"
      /\ view' = v /\ token' = t /\ timer' \in BOOLEAN
      /\ (v # None => v \in Views /\ Born(v.game))'
      /\ InReview' => view' # None /\ review' \in 0 .. view'.len
      /\ timer' => view' # None
      <2>1. \A c \in cs : CallOK(c)
            BY DEF HumanInv, GameInv, CallsOK
      <2> QED  BY <2>1, Shows DEF HumanInv
<1>2. reloaded \in BOOLEAN /\ faults \in 0 .. MaxFaults
      BY DEF HumanInv, Page
<1>3. Page'
      BY <1>1, <1>2 DEF Page, Born
<1> QED  BY <1>1, <1>3

LEMMA CrashPage ==
    ASSUME HumanInv, row' = row, NEW cs \in SUBSET calls, Crash(cs),
           stored' \in Games \cup {None}, stored' # None => Born(stored'),
           UNCHANGED <<faults, reloaded>>
    PROVE  Page' /\ CallsOK' /\ Session'
<1>1. /\ CallsOK' /\ \A c \in calls' : ~c.live
      /\ phase' = "crashed" /\ view' = None /\ token' = None /\ ~InReview'
      /\ ~timer' /\ ~picker' /\ ~busy' /\ {timer, picker, busy}' \subseteq BOOLEAN
      <2>1. \A c \in cs : CallOK(c)
            BY DEF HumanInv, GameInv, CallsOK
      <2> QED  BY <2>1, Crashes
<1>2. reloaded \in BOOLEAN /\ faults \in 0 .. MaxFaults
      BY DEF HumanInv, Page
<1>3. Page'
      BY <1>1, <1>2 DEF Page, Born
<1>4. Session'
      BY <1>1 DEF Session, Working, Shown
<1> QED  BY <1>1, <1>3, <1>4

\* The answer of a request that the page waits for.
LEMMA Delivery ==
    ASSUME HumanInv, NEW c, NEW op, NEW codes, Gets(c, op, codes), NEW n \in {200, 201},
           codes = {n}
    PROVE  /\ c \in calls /\ c.live /\ c.op = op
           /\ c.reply.view \in Views /\ Born(c.reply.view.game)
           /\ op # "create" => c.reply.view.game = c.game /\ c.tok = c.game
           /\ op = "resign" => c.reply.view.status = "RESIGNED"
BY DEF HumanInv, GameInv, CallsOK, CallOK, Gets

\* A payload of a game that the page already plays, or that is over.
LEMMA SetGameStep ==
    ASSUME HumanInv, row' = row, NEW v \in Views, Born(v.game), NEW c \in calls, c.live,
           SetGame(v, Rest(c)), UNCHANGED <<stored, faults, reloaded>>, busy' \in BOOLEAN,
           ~reloaded => \/ busy' = (busy /\ phase' # "crashed")
                        \/ Working(c) /\ busy' = FALSE,
           ~reloaded /\ phase = "playing" /\ v.status = "ACTIVE" => v.game = token
    PROVE  CallsOK' /\ Page' /\ Session'
<1>1. Rest(c) \in SUBSET calls /\ c \notin Rest(c)
      BY DEF Rest
<1>2. /\ stored' \in Games \cup {None} /\ (stored' # None => Born(stored'))
      /\ token \in Games \cup {None} /\ phase \in {"lobby", "playing"}
      /\ picker \in BOOLEAN /\ busy \in BOOLEAN
      BY DEF HumanInv, Page
<1>3. CASE Crash(Rest(c))
      BY <1>1, <1>2, <1>3, CrashPage
<1>4. CASE Show(v, token, Rest(c)) /\ phase' = phase /\ picker' = picker
      <2>1. /\ Page' /\ CallsOK'
            /\ \A d \in calls' : d.live => d \in Rest(c) /\ d.op # "get"
            /\ view' = v /\ token' = token
            BY <1>1, <1>2, <1>4, ShowPage
      <2>2. Session'
            <3> SUFFICES ASSUME ~reloaded  PROVE Session'
                BY DEF Session
            <3>1. /\ \A d \in calls : d.live => d.op # "restore"
                  /\ \A d, e \in calls : Working(d) /\ Working(e) => d = e
                  /\ \A d \in calls : Working(d) => busy
                  /\ picker /\ phase = "playing" => ~busy
                  /\ \A d \in calls : Working(d) /\ d.op # "create" /\ phase = "playing" =>
                         d.tok = token
                  BY DEF HumanInv, Session
            <3>2. \A d \in calls' : d.live => d \in calls /\ d # c
                  BY <1>1, <2>1
            <3>3. \A d \in calls' : Working(d) => busy'
                  BY <1>2, <1>4, <3>1, <3>2 DEF Working
            <3>4. picker' /\ phase' = "playing" => ~busy'
                  BY <1>4, <3>1
            <3>5. \A d \in calls' : Working(d) /\ d.op # "create" /\ phase' = "playing" =>
                         d.tok = token'
                  BY <1>4, <2>1, <3>1, <3>2 DEF Working
            <3>6. (Shown /\ view.status = "ACTIVE" => token = view.game)'
                  BY <1>4, <2>1 DEF Shown
            <3>7. /\ \A d \in calls' : d.live => d.op # "restore"
                  /\ \A d, e \in calls' : Working(d) /\ Working(e) => d = e
                  BY <3>1, <3>2 DEF Working
            <3> QED  BY <3>3, <3>4, <3>5, <3>6, <3>7 DEF Session, Working
      <2> QED  BY <2>1, <2>2
<1> QED  BY <1>3, <1>4 DEF SetGame

LEMMA NewGameStep == ASSUME HumanInv, ClickNewGame
                     PROVE  CallsOK' /\ Page' /\ Session'
<1>1. /\ phase' = "lobby" /\ stored' = None /\ Show(None, None, calls)
      /\ busy' = busy /\ picker' = picker /\ UNCHANGED <<row, faults, reloaded>>
      BY DEF ClickNewGame, Quiet, served, past
<1>2. busy \in BOOLEAN /\ picker \in BOOLEAN
      BY DEF HumanInv, Page
<1>3. /\ Page' /\ CallsOK' /\ \A c \in calls' : c.live => c \in calls /\ c.op # "get"
      /\ view' = None /\ token' = None
      BY <1>1, <1>2, ShowPage
<1>4. Session'
      BY <1>1, <1>3 DEF HumanInv, Session, Working, Shown
<1> QED  BY <1>3, <1>4

\* The first and the last of the plies in reach are in reach.
LEMMA Ends == ASSUME NEW lo \in Nat, NEW hi \in Nat, lo <= hi
              PROVE  Min(lo .. hi) \in lo .. hi /\ Max(lo .. hi) \in lo .. hi
<1>1. lo \in lo .. hi /\ \A y \in lo .. hi : lo <= y
      OBVIOUS
<1>2. hi \in lo .. hi /\ \A y \in lo .. hi : hi >= y
      OBVIOUS
<1>3. Min(lo .. hi) \in lo .. hi
      BY <1>1 DEF Min
<1>4. Max(lo .. hi) \in lo .. hi
      BY <1>2 DEF Max
<1> QED  BY <1>3, <1>4

LEMMA PlyClickStep == ASSUME HumanInv, ClickPly
                      PROVE  CallsOK' /\ Page' /\ Session'
<1>1. /\ Reach # {} /\ review' \in {Min(Reach), Max(Reach)} /\ view # None
      /\ UNCHANGED <<row, phase, view, token, stored, busy, picker, timer, calls, faults,
                     reloaded>>
      BY DEF ClickPly, Shown, Quiet, served, past
<1>2. view.len \in Nat
      BY <1>1 DEF HumanInv, Page, Views
<1>3. review' \in 0 .. view.len
      <2>1. PICK lo \in {0, 1} : Reach = lo .. view.len
            BY DEF Reach
      <2>2. lo <= view.len
            BY <1>1, <1>2, <2>1
      <2>3. Min(Reach) \in lo .. view.len /\ Max(Reach) \in lo .. view.len
            BY <1>2, <2>1, <2>2, Ends
      <2> QED  BY <1>1, <1>2, <2>1, <2>3
<1>4. CallsOK'
      BY <1>1, SameCall DEF HumanInv, GameInv, CallsOK
<1>5. Page'
      BY <1>1, <1>3 DEF HumanInv, Page, Born, InReview
<1>6. Session'
      BY <1>1 DEF HumanInv, Session, Working, Shown
<1> QED  BY <1>4, <1>5, <1>6

-----------------------------------------------------------------------------
(* The answers. *)

\* A payload that the page asked for with its token.
LEMMA PayloadStep == ASSUME HumanInv, NEW c \in calls, PollAnswer(c) \/ Resigned(c) \/ MoveTaken(c)
                     PROVE  CallsOK' /\ Page' /\ Session'
<1> DEFINE v == c.reply.view
<1>1. UNCHANGED <<row, stored, faults, reloaded>> /\ SetGame(v, Rest(c))
      BY DEF PollAnswer, Resigned, MoveTaken, Quiet, served, past
<1>2. busy \in BOOLEAN
      BY DEF HumanInv, Page
<1>3. CASE PollAnswer(c)
      <2>1. /\ c.live /\ c.op = "get" /\ v \in Views /\ Born(v.game)
            /\ v.game = c.game /\ c.tok = c.game
            BY <1>3, Delivery DEF PollAnswer
      <2>2. busy' = (busy /\ phase' # "crashed")
            BY <1>3 DEF PollAnswer
      <2>3. v.game = token
            BY <2>1 DEF HumanInv, Page
      <2> HIDE DEF v
      <2> QED  BY <1>1, <1>2, <2>1, <2>2, <2>3, SetGameStep
<1>4. CASE Resigned(c)
      <2>1. c.live /\ v \in Views /\ Born(v.game) /\ v.status = "RESIGNED"
            BY <1>4, Delivery DEF Resigned
      <2>2. busy' = (busy /\ phase' # "crashed")
            BY <1>4 DEF Resigned
      <2> HIDE DEF v
      <2> QED  BY <1>1, <1>2, <2>1, <2>2, SetGameStep
<1>5. CASE MoveTaken(c)
      <2>1. PICK op \in {"submit", "resync"} : Gets(c, op, {200})
            BY <1>5 DEF MoveTaken
      <2>2. /\ c.live /\ c.op = op /\ v \in Views /\ Born(v.game)
            /\ v.game = c.game /\ c.tok = c.game
            BY <2>1, Delivery
      <2>3. Working(c) /\ busy' = FALSE
            BY <1>5, <2>2 DEF Working, MoveTaken
      <2>4. ~reloaded /\ phase = "playing" => v.game = token
            BY <2>2, <2>3 DEF HumanInv, Session
      <2> HIDE DEF v
      <2> QED  BY <1>1, <2>2, <2>3, <2>4, SetGameStep
<1> QED  BY <1>3, <1>4, <1>5

\* Back to the lobby: the session is gone.
LEMMA DropStep == ASSUME HumanInv, NEW c \in calls, PollDrops(c)
                  PROVE  CallsOK' /\ Page' /\ Session'
<1>1. /\ phase' = "lobby" /\ stored' = None /\ Show(None, None, Rest(c))
      /\ busy' = busy /\ picker' = picker /\ UNCHANGED <<row, faults, reloaded>>
      /\ Rest(c) \in SUBSET calls
      BY DEF PollDrops, Quiet, served, past, Rest
<1>2. busy \in BOOLEAN /\ picker \in BOOLEAN
      BY DEF HumanInv, Page
<1>3. /\ Page' /\ CallsOK' /\ \A d \in calls' : d.live => d \in Rest(c) /\ d.op # "get"
      /\ view' = None /\ token' = None
      BY <1>1, <1>2, ShowPage
<1>4. Session'
      BY <1>1, <1>3 DEF HumanInv, Session, Working, Shown
<1> QED  BY <1>3, <1>4

\* A restore puts its game on the page; it only follows a reload.
LEMMA RestoredStep == ASSUME HumanInv, NEW c \in calls, Restored(c)
                      PROVE  CallsOK' /\ Page' /\ Session'
<1> DEFINE v == c.reply.view
<1>1. /\ UNCHANGED <<row, stored, faults, reloaded>> /\ Rest(c) \in SUBSET calls
      BY DEF Restored, Quiet, served, past, Rest
<1>2. /\ c.live /\ c.op = "restore" /\ v \in Views /\ Born(v.game)
      /\ v.game = c.game /\ c.tok = c.game
      BY Delivery DEF Restored
<1>3. reloaded
      BY <1>2 DEF HumanInv, Session
<1>4. /\ busy \in BOOLEAN /\ picker \in BOOLEAN
      /\ stored' \in Games \cup {None} /\ (stored' # None => Born(stored'))
      BY <1>1 DEF HumanInv, Page
<1>5. CASE Crash(Rest(c))
      BY <1>1, <1>4, <1>5, CrashPage
<1>6. CASE /\ phase' = "playing" /\ Show(v, c.tok, Rest(c))
           /\ picker' = picker /\ busy' = busy
      <2>1. c.tok \in Games
            BY <1>2 DEF Views
      <2> HIDE DEF v
      <2>2. Page' /\ CallsOK'
            BY <1>1, <1>2, <1>4, <1>6, <2>1, ShowPage
      <2>3. Session'
            BY <1>1, <1>3 DEF Session
      <2> QED  BY <2>2, <2>3
<1> QED  BY <1>5, <1>6 DEF Restored

\* The game that was created replaces what the page had.
LEMMA CreatedStep == ASSUME HumanInv, NEW c \in calls, Created(c)
                     PROVE  CallsOK' /\ Page' /\ Session'
<1> DEFINE v == c.reply.view
<1>1. /\ UNCHANGED <<row, faults, reloaded>> /\ Rest(c) \in SUBSET calls /\ stored' = v.game
      BY DEF Created, Quiet, served, past, Rest
<1>2. c.live /\ c.op = "create" /\ v \in Views /\ Born(v.game)
      BY Delivery DEF Created
<1>3. v.game \in Games
      BY <1>2 DEF Views
<1>4. /\ picker \in BOOLEAN
      /\ stored' \in Games \cup {None} /\ (stored' # None => Born(stored'))
      BY <1>1, <1>2, <1>3 DEF HumanInv, Page
<1>5. CASE Crash(Rest(c))
      BY <1>1, <1>4, <1>5, CrashPage
<1>6. CASE /\ phase' = "playing" /\ Show(v, v.game, Rest(c))
           /\ picker' = picker /\ busy' = FALSE
      <2> HIDE DEF v
      <2>1. /\ Page' /\ CallsOK' /\ \A d \in calls' : d.live => d \in Rest(c) /\ d.op # "get"
            /\ view' = v /\ token' = v.game
            BY <1>1, <1>2, <1>3, <1>4, <1>6, ShowPage
      <2>2. ~reloaded => \A d \in calls' : ~Working(d) /\ (d.live => d.op # "restore")
            <3>1. Working(c)
                  BY <1>2 DEF Working
            <3> QED  BY <2>1, <3>1 DEF HumanInv, Session, Rest, Working
      <2>3. Session'
            BY <1>1, <1>6, <2>1, <2>2 DEF Session, Working, Shown
      <2> QED  BY <2>1, <2>3
<1> QED  BY <1>5, <1>6 DEF Created

\* The answer is only noted: an error, or a move that is dropped.
LEMMA NotedStep == ASSUME HumanInv, NEW c \in calls,
                          PollFails(c) \/ RestoreFails(c) \/ CreateFails(c) \/ MoveFails(c)
                             \/ ResignFails(c)
                   PROVE  CallsOK' /\ Page' /\ Session'
<1>1. /\ UNCHANGED <<row, phase, view, token, picker, review, faults, reloaded>>
      /\ calls' = Rest(c) /\ Rest(c) = calls \ {c} /\ c.live
      BY DEF PollFails, RestoreFails, CreateFails, MoveFails, ResignFails, Gets, Quiet, served,
             past, tab, Rest
<1>2. stored' = stored \/ stored' = None
      BY DEF PollFails, RestoreFails, CreateFails, MoveFails, ResignFails, tab
<1>3. CallsOK'
      BY <1>1, SameCall DEF HumanInv, GameInv, CallsOK
<1>4. timer' \in BOOLEAN /\ (timer' => view # None) /\ phase # "crashed"
      <2>1. timer \in BOOLEAN /\ (timer => view # None) /\ phase # "crashed"
            BY <1>1 DEF HumanInv, Page
      <2>2. CASE PollFails(c)
            BY <2>1, <2>2 DEF PollFails, Gets, HumanInv, Page
      <2>3. CASE timer' = timer
            BY <2>1, <2>3
      <2> QED  BY <2>2, <2>3 DEF PollFails, RestoreFails, CreateFails, MoveFails, ResignFails, tab
<1>5. \/ busy' = busy
      \/ Working(c) /\ busy' = FALSE
      BY DEF PollFails, RestoreFails, CreateFails, MoveFails, ResignFails, Gets, tab, Working
<1>6. Page'
      BY <1>1, <1>2, <1>4, <1>5 DEF HumanInv, Page, Born, InReview
<1>7. Session'
      BY <1>1, <1>5 DEF HumanInv, Session, Working, Shown
<1> QED  BY <1>3, <1>6, <1>7

\* 409: the game is fetched again, with the same token.
LEMMA StaleStep == ASSUME HumanInv, NEW c \in calls, MoveStale(c)
                   PROVE  CallsOK' /\ Page' /\ Session'
<1> DEFINE k == Call("resync", c.game, c.tok, None, 0)
<1>1. /\ UNCHANGED <<row, phase, view, token, stored, busy, picker, review, timer, faults,
                     reloaded>>
      /\ calls' = (calls \ {c}) \cup {k} /\ c.live /\ c.op = "submit"
      BY DEF MoveStale, Gets, Quiet, served, past, tab, Rest
<1>2. CallOK(k) /\ k.op = "resync" /\ k.tok = c.tok
      <2>1. c.game \in Games /\ Born(c.game) /\ c.tok \in Games \cup {None}
            BY <1>1 DEF HumanInv, GameInv, CallsOK, CallOK, Requests
      <2>2. CallOK(k)
            BY <2>1, NewCall DEF Reads
      <2> QED  BY <2>2 DEF Call
<1> HIDE DEF k
<1>3. CallsOK'
      BY <1>1, <1>2, SameCall DEF HumanInv, GameInv, CallsOK
<1>4. Page'
      BY <1>1, <1>2 DEF HumanInv, Page, Born, InReview
<1>5. Working(c)
      BY <1>1 DEF Working
<1>6. Session'
      BY <1>1, <1>2, <1>5 DEF HumanInv, Session, Working, Shown
<1> QED  BY <1>3, <1>4, <1>6

\* 410: what the page shows is over.
LEMMA TooLateStep == ASSUME HumanInv, NEW c \in calls, MoveTooLate(c)
                     PROVE  CallsOK' /\ Page' /\ Session'
<1> DEFINE v == IF view = None THEN None ELSE [view EXCEPT !.status = "EXPIRED"]
<1>1. /\ UNCHANGED <<row, phase, stored, picker, faults, reloaded>> /\ Rest(c) \in SUBSET calls
      /\ Show(v, token, Rest(c)) /\ busy' = FALSE /\ c.live /\ c.op = "submit"
      BY DEF MoveTooLate, Gets, Quiet, served, past, Rest
<1>2. /\ stored \in Games \cup {None} /\ (stored # None => Born(stored))
      /\ token \in Games \cup {None} /\ phase \in {"lobby", "playing"} /\ picker \in BOOLEAN
      BY <1>1 DEF HumanInv, Page
<1>3. v # None => v \in Views /\ Born(v.game) /\ v.status = "EXPIRED"
      <2>1. view # None => view \in Views /\ Born(view.game)
            BY DEF HumanInv, Page
      <2> QED  BY <2>1, Terminals DEF Views
<1> HIDE DEF v
<1>4. /\ Page' /\ CallsOK' /\ \A d \in calls' : d.live => d \in Rest(c) /\ d.op # "get"
      /\ view' = v /\ token' = token
      BY <1>1, <1>2, <1>3, ShowPage DEF Born
<1>5. ~reloaded => \A d \in calls' : ~Working(d) /\ (d.live => d.op # "restore")
      <2>1. Working(c)
            BY <1>1 DEF Working
      <2> QED  BY <1>4, <2>1 DEF HumanInv, Session, Rest, Working
<1>6. Session'
      BY <1>1, <1>3, <1>4, <1>5 DEF Session, Working, Shown
<1> QED  BY <1>4, <1>6

-----------------------------------------------------------------------------
(* The server and the faults. *)

\* The page has not moved, and what it waits for is the same request.
LEMMA PageWaits ==
    ASSUME HumanInv, OneWay, UNCHANGED <<tab, reloaded>>, faults' \in 0 .. MaxFaults,
           calls' = calls \/ \E c \in calls : Follows(c)
    PROVE  Page' /\ Session'
<1>1. UNCHANGED <<phase, view, token, stored, busy, picker, review, timer, reloaded>>
      BY DEF tab
<1>2. /\ stored # None => row'[stored].status # "NONE"
      /\ view # None => row'[view.game].status # "NONE"
      BY DEF HumanInv, Page, OneWay, Views
<1>3. CASE calls' = calls
      <2>1. Page'
            BY <1>1, <1>2, <1>3 DEF HumanInv, Page, Born, InReview
      <2>2. Session'
            BY <1>1, <1>3 DEF HumanInv, Session, Working, Shown
      <2> QED  BY <2>1, <2>2
<1>4. CASE \E c \in calls : Follows(c)
      <2> PICK c \in calls : Follows(c)
          BY <1>4
      <2>1. PICK r : /\ r.op = c.op /\ r.tok = c.tok
                     /\ r.live => c.live
                     /\ calls' \subseteq (calls \ {c}) \cup {r}
            BY DEF Follows
      <2>2. Page'
            BY <1>1, <1>2, <2>1 DEF HumanInv, Page, Born, InReview
      <2>3. Session'
            <3> SUFFICES ASSUME ~reloaded  PROVE Session'
                BY <1>1 DEF Session
            <3>1. \A d \in calls' : Working(d) => busy'
                  BY <1>1, <2>1 DEF HumanInv, Session, Working
            <3>2. /\ \A d \in calls' : d.live => d.op # "restore"
                  /\ \A d, e \in calls' : Working(d) /\ Working(e) => d = e
                  BY <2>1 DEF HumanInv, Session, Working
            <3>3. \A d \in calls' : Working(d) /\ d.op # "create" /\ phase = "playing" =>
                      d.tok = token
                  BY <2>1 DEF HumanInv, Session, Working
            <3> QED  BY <1>1, <3>1, <3>2, <3>3 DEF HumanInv, Session, Working, Shown
      <2> QED  BY <2>2, <2>3
<1> QED  BY <1>3, <1>4

LEMMA ServerStep == ASSUME HumanInv, Server \/ Worker \/ Time
                    PROVE  HumanInv' /\ OneWay
<1>1. UNCHANGED <<tab, reloaded>> /\ faults' \in 0 .. MaxFaults
      BY DEF Server, Worker, Time, past, HumanInv, Page
<1>2. GameInv' /\ OneWay /\ (calls' = calls \/ \E c \in calls : Follows(c))
      <2>1. CASE Server
            BY <2>1, ApiStep DEF Server, HumanInv
      <2>2. CASE Worker
            BY <2>2, ServeStep DEF Worker, HumanInv
      <2>3. CASE Time
            BY <2>3, DeadlineStep DEF Time, DeadlinePasses, HumanInv
      <2> QED  BY <2>1, <2>2, <2>3
<1> QED  BY <1>1, <1>2, PageWaits DEF HumanInv

LEMMA FaultBound == Fault /\ Page => faults' \in 0 .. MaxFaults
BY BoundsAssumption DEF Fault, Page

LEMMA LoseStep == ASSUME HumanInv, NEW c \in calls, Lose(c)
                  PROVE  HumanInv' /\ OneWay
<1>1. UNCHANGED <<served, executor, tab, reloaded>> /\ row' = row
      BY DEF Lose, served
<1>2. faults' \in 0 .. MaxFaults
      BY FaultBound DEF Lose, HumanInv, Page
<1>3. OneWay
      BY <1>1 DEF OneWay, Born
<1>4. PICK code \in {404, 500} : calls' = Answered(c, code, None)
      BY DEF Lose
<1>5. CallsOK' /\ Follows(c)
      BY <1>3, <1>4, Answering, CodesBelow DEF HumanInv, GameInv
<1> QED  BY <1>1, <1>2, <1>3, <1>5, SameServer, PageWaits DEF HumanInv

LEMMA WorkerDiesStep == ASSUME HumanInv, WorkerDies
                        PROVE  HumanInv' /\ OneWay
<1>1. UNCHANGED <<tab, reloaded>> /\ faults' \in 0 .. MaxFaults
      BY FaultBound DEF WorkerDies, HumanInv
<1>2. GameInv' /\ OneWay /\ calls' = calls
      BY ServeStep DEF WorkerDies, HumanInv
<1> QED  BY <1>1, <1>2, PageWaits DEF HumanInv

LEMMA ReloadStep == ASSUME HumanInv, Reload
                    PROVE  CallsOK' /\ Page' /\ Session'
<1> DEFINE old == Undelivered({[c EXCEPT !.live = FALSE] : c \in calls})
<1>1. /\ phase' = "lobby" /\ view' = None /\ token' = None /\ busy' = FALSE /\ picker' = FALSE
      /\ review' = None /\ timer' = FALSE /\ reloaded' = TRUE /\ row' = row /\ stored' = stored
      /\ calls' = old \cup {Call("restore", g, g, None, 0) : g \in {stored} \ {None}}
      BY DEF Reload, served
<1>2. faults' \in 0 .. MaxFaults
      BY FaultBound DEF Reload, HumanInv
<1>3. \A c \in old : CallOK(c) /\ ~c.live
      BY AllForgotten DEF HumanInv, GameInv, CallsOK
<1> HIDE DEF old
<1>4. ASSUME NEW c \in calls', c \notin old
      PROVE  CallOK(c) /\ c.op = "restore"
      <2>1. c = Call("restore", stored, stored, None, 0) /\ stored # None
            BY <1>1, <1>4
      <2>2. stored \in Games /\ Born(stored)
            BY <2>1 DEF HumanInv, Page
      <2>3. CallOK(c)
            BY <2>1, <2>2, NewCall DEF Reads
      <2> QED  BY <2>1, <2>3 DEF Call
<1>5. CallsOK'
      BY <1>1, <1>3, <1>4, SameCall DEF CallsOK
<1>6. Page'
      BY <1>1, <1>2, <1>3, <1>4 DEF HumanInv, Page, Born, InReview
<1>7. Session'
      BY <1>1 DEF Session
<1> QED  BY <1>5, <1>6, <1>7

-----------------------------------------------------------------------------
(* Every step. *)

LEMMA PageStep == ASSUME HumanInv, User \/ Tick \/ Answers \/ Reload
                  PROVE  HumanInv' /\ OneWay
<1>1. UNCHANGED <<served, executor>>
      <2>1. CASE User
            BY <2>1, Zenon DEF User, ClickStart, DropMove, DropPromotion, PickPromotion, ClickResign,
                   ClickNewGame, ClickPly, Quiet
      <2>2. CASE Tick  BY <2>2, Zenon DEF Tick, Quiet
      <2>3. CASE Answers
            <3>1. PICK c \in calls : Deliver(c)
                  BY <2>3 DEF Answers
            <3> QED  BY <3>1, Zenon DEF Deliver, PollAnswer, PollDrops, PollFails, Restored,
                         RestoreFails, Created, CreateFails, MoveTaken, MoveStale, MoveTooLate,
                         MoveFails, Resigned, ResignFails, Quiet
      <2>4. CASE Reload  BY <2>4, Zenon DEF Reload
      <2> QED  BY <2>1, <2>2, <2>3, <2>4
<1>2. CallsOK' /\ Page' /\ Session'
      <2>1. CASE User
            BY <2>1, StartStep, MoveStep, PickerStep, AskStep, NewGameStep, PlyClickStep DEF User
      <2>2. CASE Tick  BY <2>2, AskStep
      <2>3. CASE Answers
            BY <2>3, PayloadStep, DropStep, RestoredStep, CreatedStep, NotedStep, StaleStep,
               TooLateStep DEF Answers, Deliver
      <2>4. CASE Reload  BY <2>4, ReloadStep
      <2> QED  BY <2>1, <2>2, <2>3, <2>4
<1> QED  BY <1>1, <1>2, SameServer DEF HumanInv

LEMMA HumanStep == ASSUME HumanInv, [Next]_vars
                   PROVE  HumanInv' /\ OneWay
<1>1. CASE Next
      BY <1>1, PageStep, ServerStep, LoseStep, WorkerDiesStep DEF Next
<1>2. CASE UNCHANGED vars
      <2>1. UNCHANGED <<served, executor, calls, tab, faults, reloaded, row>>
            BY <1>2 DEF vars, past, served
      <2>2. CallsOK' /\ OneWay
            BY <2>1, SameCall DEF HumanInv, GameInv, CallsOK, OneWay, Born
      <2>3. faults' \in 0 .. MaxFaults
            BY <2>1 DEF HumanInv, Page
      <2> QED  BY <2>1, <2>2, <2>3, SameServer, PageWaits DEF HumanInv
<1> QED  BY <1>1, <1>2

LEMMA HumanStart == Init => HumanInv
<1> SUFFICES ASSUME Init  PROVE HumanInv
    OBVIOUS
<1>1. GameInv
      BY GameInit DEF Init
<1>2. Page
      <2>1. MaxFaults \in Nat
            BY BoundsAssumption
      <2>2. faults \in 0 .. MaxFaults
            BY <2>1 DEF Init
      <2> QED  BY <2>2 DEF Init, ServerInit, Page, InReview
<1>3. Session
      BY DEF Init, ServerInit, Session, Working, Shown
<1> QED  BY <1>1, <1>2, <1>3 DEF HumanInv

THEOREM HumanHolds == Spec => []HumanInv
<1>1. HumanInv /\ [Next]_vars => HumanInv'
      BY HumanStep
<1> QED  BY <1>1, HumanStart, PTL DEF Spec

-----------------------------------------------------------------------------
(* The properties. *)

\* Types of the rows, the plies, the answers and the page, and no review of a
\* ply that the game on the page does not have: the payload, the errors and
\* the reload that change the game all move or close the review.
THEOREM TypesCorrect == Spec => []TypeOK
<1>1. HumanInv => TypeOK
      <2> SUFFICES ASSUME HumanInv  PROVE TypeOK
          OBVIOUS
      <2>1. \A g \in Games : \A i \in DOMAIN log[g] : log[g][i] \in Ply
            <3>1. ASSUME NEW g \in Games, NEW i \in DOMAIN log[g]  PROVE log[g][i] \in Ply
                  <4>1. log[g] \in Seq(Ply)
                        BY DEF HumanInv, GameInv, Typed
                  <4> QED  BY <4>1, ElementOfSeq
            <3> QED  BY <3>1
      <2>2. \A c \in calls : c.at = "answered" => c.reply.code \in Codes
            BY DEF HumanInv, GameInv, CallsOK, CallOK, Replies
      <2>3. view # None => IsView(view)
            BY DEF HumanInv, Page, Views, IsView
      <2>4. row \in [Games -> Rows] /\ late \in [Games -> BOOLEAN]
            BY DEF HumanInv, GameInv, Typed
      <2>5. executor.at \in {"idle", "flush", "clear", "search"}
            BY DEF HumanInv, GameInv, Typed
      <2> QED  BY <2>1, <2>2, <2>3, <2>4, <2>5 DEF HumanInv, Page, TypeOK, Ply
<1> QED  BY <1>1, HumanHolds, PTL

\* A reply of the engine answers the position it was computed on, and a ply of
\* the human or the start: the unique ply number and the pending flag, together
\* with the search being a prefix of the log, make it so.
THEOREM RepliesCorrect == Spec => []EngineAnswersTheHuman
<1>1. HumanInv => EngineAnswersTheHuman
      BY DEF HumanInv, GameInv
<1> QED  BY <1>1, HumanHolds, PTL

\* A game that is ACTIVE is not over by its FEN, and one that no longer owes a
\* reply after the engine's move is not over on the executor's board either.
THEOREM OpenCorrect == Spec => []ActiveIsOpen
<1>1. HumanInv => ActiveIsOpen
      BY DEF HumanInv, GameInv
<1> QED  BY <1>1, HumanHolds, PTL

\* Until it is loaded again, the page has one start or move under way at most.
THEOREM OneActionCorrect == Spec => []OneActionAtATime
<1>1. HumanInv => OneActionAtATime
      <2> SUFFICES ASSUME HumanInv, ~reloaded
                   PROVE  Cardinality({c \in calls : c.live /\ c.op \in {"create", "submit", "resync"}})
                             <= 1
          BY DEF OneActionAtATime
      <2> DEFINE W == {c \in calls : c.live /\ c.op \in {"create", "submit", "resync"}}
      <2>1. \A c, d \in W : c = d
            BY DEF HumanInv, Session, Working
      <2>2. W = {} \/ \E c : W = {c}
            BY <2>1, ZenonT(60)
      <2> HIDE DEF W
      <2>3. Cardinality(W) \in {0, 1}
            BY <2>2, FS_EmptySet, FS_Singleton
      <2>4. Cardinality(W) <= 1
            BY <2>3
      <2> QED  BY <2>4 DEF W
<1> QED  BY <1>1, HumanHolds, PTL

\* Until it is loaded again, what the page plays is the game of its token.
THEOREM TokenCorrect == Spec => []PlaysWithItsToken
<1>1. HumanInv => PlaysWithItsToken
      BY DEF HumanInv, Session, PlaysWithItsToken
<1> QED  BY <1>1, HumanHolds, PTL

\* The log of a game changes by a move of the human or a reply that lands.
LEMMA PliesOfLog ==
    ASSUME [Next]_vars
    PROVE  log' = log \/ (\E c \in calls : Accept(c)) \/ \E m \in Moves : Land(m)
<1>1. CASE Server
      BY <1>1 DEF Server, Api, Unauthorized, Get, Load, ExpireFirst, Refuse, PlyTaken, Resign,
                  Create, served
<1>2. CASE Worker
      BY <1>2 DEF Worker, Serve, Answer, FindStale, Take, SeeOver, FlushStale, ClearFlag, LandCollides,
                  LostToDeadline, LostRace, EngineFails, served
<1>3. CASE \/ User \/ Tick \/ Answers \/ Time \/ (\E c \in calls : Lose(c)) \/ Reload
           \/ WorkerDies \/ UNCHANGED vars
      BY <1>3, ZenonT(60) DEF User, Tick, Answers, Deliver, Time, Lose, Reload, WorkerDies, vars, served,
             ClickStart, DropMove, DropPromotion, PickPromotion, ClickResign, ClickNewGame,
             ClickPly, PollAnswer, PollDrops, PollFails, Restored, RestoreFails, Created,
             CreateFails, MoveTaken, MoveStale, MoveTooLate, MoveFails, Resigned, ResignFails,
             DeadlinePasses, WorkerCrash, Quiet
<1> QED  BY <1>1, <1>2, <1>3 DEF Next

\* No handler brings a game back to life, and no reply lands on one that ended
\* or is past its deadline.
THEOREM DeadGamesCorrect == Spec => DeadGamesStayDead
<1> DEFINE A == \A g \in Games :
               /\ row[g].status \in Terminal => row'[g].status \in Terminal
               /\ \A n \in DOMAIN log'[g] :
                     n > Len(log[g]) /\ log'[g][n].by = "engine" => Owed(g) /\ ~late[g]
<1>1. HumanInv /\ [Next]_vars => [A]_vars
      <2> SUFFICES ASSUME HumanInv, [Next]_vars, NEW g \in Games
                   PROVE  /\ row[g].status \in Terminal => row'[g].status \in Terminal
                          /\ \A n \in DOMAIN log'[g] :
                                n > Len(log[g]) /\ log'[g][n].by = "engine" => Owed(g) /\ ~late[g]
          OBVIOUS
      <2>1. row[g].status \in Terminal => row'[g].status \in Terminal
            BY HumanStep DEF OneWay
      <2>2. Typed /\ log[g] \in Seq(Ply) /\ Len(log[g]) \in Nat /\ DOMAIN log[g] = 1 .. Len(log[g])
            BY DEF HumanInv, GameInv, Typed
      <2>3. ASSUME NEW n \in DOMAIN log'[g], n > Len(log[g]), log'[g][n].by = "engine"
            PROVE  Owed(g) /\ ~late[g]
            <3>1. CASE log' = log
                  BY <2>2, <2>3, <3>1
            <3>2. CASE \E c \in calls : Accept(c)
                  <4>1. PICK c \in calls : Accept(c)
                        BY <3>2
                  <4> DEFINE r == c.read.row
                             p == [by |-> "human", uci |-> c.uci, on |-> r.fen]
                  <4>2. /\ c.game \in Games /\ r \in Rows /\ Refusal(c) = None
                        BY <4>1, Deciding DEF Accept, HumanInv
                  <4>3. c.uci \in Moves /\ r.fen \in Seq(Moves)
                        BY <4>2, NotRefused DEF Rows
                  <4>4. p \in Ply /\ p.by = "human"
                        BY <4>3 DEF Ply
                  <4>5. log' = [log EXCEPT ![c.game] = Append(@, p)]
                        BY <4>1 DEF Accept
                  <4> HIDE DEF p
                  <4>6. \/ log'[g] = log[g]
                        \/ DOMAIN log'[g] = 1 .. Len(log[g]) + 1 /\ log'[g][Len(log[g]) + 1] = p
                        <5>1. CASE g = c.game
                              BY <2>2, <4>2, <4>4, <4>5, <5>1, Grown
                        <5>2. CASE g # c.game
                              BY <2>2, <4>2, <4>4, <4>5, <5>2, Grown
                        <5> QED  BY <5>1, <5>2
                  <4> QED  BY <2>2, <2>3, <4>4, <4>6
            <3>3. CASE \E m \in Moves : Land(m)
                  <4>1. PICK m \in Moves : Land(m)
                        BY <3>3
                  <4>2. executor.game = g
                        <5>1. log \in [Games -> Seq(Ply)]
                              BY <2>2 DEF Typed
                        <5>2. log'[g] # log[g]
                              BY <2>2, <2>3
                        <5> QED  BY <4>1, <5>1, <5>2 DEF Land
                  <4> QED  BY <4>1, <4>2 DEF Land, Owns
            <3> QED  BY <3>1, <3>2, <3>3, PliesOfLog
      <2> QED  BY <2>1, <2>3
<1> QED  BY <1>1, HumanHolds, PTL DEF Spec, DeadGamesStayDead

=============================================================================
