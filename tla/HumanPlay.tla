------------------------------ MODULE HumanPlay ------------------------------
(***************************************************************************)
(* One browser tab (HumanPlayApp.jsx) playing against the server and its   *)
(* executor (HumanGame): the lobby, the board, the poll timer, localStorage*)
(* and every request the page can have under way, answered in any order.   *)
(***************************************************************************)
EXTENDS HumanGame, FiniteSetsExt

CONSTANTS MaxPly,    \* bound: no human move is sent once the logs hold this many plies
          MaxCalls,  \* bound: requests under way
          MaxFaults  \* bound: reloads, lost answers and worker deaths

ASSUME BoundsAssumption == {MaxPly, MaxCalls, MaxFaults} \subseteq Nat
ASSUME NoneIsNoKey == None \notin (Terminal \cup {"ACTIVE"}) \X Nat

VARIABLES
    phase,     \* lobby, playing; "crashed": an exception while rendering
    view,      \* game: the last payload shown
    token,     \* gameToken: the game whose token the page holds
    stored,    \* localStorage: the game a reload restores
    busy,      \* a start or a move is under way
    picker,    \* the promotion picker is open
    review,    \* reviewPly
    timer,     \* the poll timer is armed
    faults,
    reloaded   \* history: the page was loaded again

tab  == <<phase, view, token, stored, busy, picker, review, timer>>
past == <<faults, reloaded>>
vars == <<served, calls, executor, tab, past>>

-----------------------------------------------------------------------------
(* What the page shows. *)

Shown    == phase = "playing" /\ view # None
Ended    == view # None /\ view.status \in Terminal
Thinking == view # None /\ view.status = "ACTIVE" /\ view.pending
MyTurn   == /\ view # None /\ view.status = "ACTIVE"
            /\ ~view.pending /\ view.turn = view.human
InReview == review # None

MayDragAgain == Shown /\ MyTurn /\ ~InReview       \* variant: busy is not asked
\* allowDragging and the first test of onPieceDrop.
MayDrag == Shown /\ MyTurn /\ ~InReview /\ ~busy

\* A payload is put on the page with a token.  displayFen reads the ply under
\* review before the effect can move it: beyond the move list it throws.
\* The effects follow: the ply under review is reset when status or number of
\* moves changed, the poll of the former payload is cancelled, and the timer
\* is armed when the engine owes a move.
Orphans(cs, op) == {IF c.op = op THEN [c EXCEPT !.live = FALSE] ELSE c : c \in cs}
Undelivered(cs) == {c \in cs : c.live \/ c.at # "answered"}
Key(v) == IF v = None THEN None ELSE <<v.status, v.len>>
Breaks(v) == v # None /\ InReview /\ review > v.len
KeepReview(v) == review                           \* variant: no effect resets it
ReviewOf(v) == IF Key(v) = Key(view) THEN review
               ELSE IF v # None /\ v.status \in Terminal THEN v.len ELSE None
Polls(v, t) == v # None /\ t # None /\ v.status = "ACTIVE" /\ v.pending

Show(v, t, cs) ==
    /\ view' = v /\ token' = t
    /\ review' = ReviewOf(v)
    /\ timer' = Polls(v, t)
    /\ calls' = Undelivered(Orphans(cs, "get"))
\* An exception while rendering unmounts the page: nothing is delivered to it.
Crash(cs) ==
    /\ phase' = "crashed" /\ view' = None /\ token' = None /\ review' = None
    /\ timer' = FALSE /\ picker' = FALSE /\ busy' = FALSE
    /\ calls' = Undelivered({[c EXCEPT !.live = FALSE] : c \in cs})
SetGame(v, cs) == IF Breaks(v) THEN Crash(cs)
                  ELSE Show(v, token, cs) /\ UNCHANGED <<phase, picker>>

-----------------------------------------------------------------------------
(* The user. *)

Room == Cardinality(calls) < MaxCalls
Send(c) == Room /\ calls' = calls \cup {c}
Quiet == UNCHANGED <<served, executor, past>>

LobbyShown == phase = "lobby"                     \* variant: busy is not asked
\* Lobby: Start game is disabled while busy.
MayStart == phase = "lobby" /\ ~busy
\* Bound: the first game is played as black, the others as white.
ClickStart(color) ==
    /\ MayStart
    /\ color = (IF Unborn = Games THEN "black" ELSE "white")
    /\ Cardinality({c \in calls : c.op = "create"}) < Cardinality(Unborn)
    /\ Send(Call("create", None, None, color, 0))
    /\ busy' = TRUE
    /\ UNCHANGED <<phase, view, token, stored, picker, review, timer>> /\ Quiet

Plies == MapThenSumSet(LAMBDA g : Len(log[g]), Games)
\* submitMove: with the revision of the payload on the page.
Submit(uci) ==
    /\ Plies + Cardinality({c \in calls : c.op = "submit" /\ c.at # "answered"}) < MaxPly
    /\ Send(Call("submit", view.game, token, uci, view.rev))
    /\ busy' = TRUE

\* onPieceDrop: a move is sent, or a pawn on its last rank opens the picker.
DropMove(uci) == /\ MayDrag /\ token # None /\ ~picker
                 /\ Submit(uci)
                 /\ UNCHANGED <<phase, view, token, stored, picker, review, timer>> /\ Quiet
DropPromotion == /\ MayDrag /\ ~picker
                 /\ picker' = TRUE
                 /\ UNCHANGED <<phase, view, token, stored, busy, review, timer, calls>> /\ Quiet
\* The picker asks nothing: neither whose turn it is nor which game is shown.
PickPromotion(uci) ==
    /\ picker /\ Shown /\ token # None
    /\ Submit(uci)
    /\ picker' = FALSE
    /\ UNCHANGED <<phase, view, token, stored, review, timer>> /\ Quiet

\* The button does not ask for busy.  Bound: one resignation under way.
ClickResign == /\ Shown /\ (MyTurn \/ Thinking) /\ token # None
               /\ \A c \in calls : c.op # "resign"
               /\ Send(Call("resign", view.game, token, None, 0))
               /\ UNCHANGED tab /\ Quiet

ClickNewGame == /\ Shown /\ Ended
                /\ phase' = "lobby" /\ stored' = None
                /\ Show(None, None, calls)
                /\ UNCHANGED <<busy, picker>> /\ Quiet

\* A click on a ply of the move list, or on a review control of an ended game.
\* Bound: of the plies in reach, the first and the last.
Reach == IF Ended THEN 0 .. view.len ELSE 1 .. view.len
ClickPly == /\ Shown /\ Reach # {}
            /\ review' \in {Min(Reach), Max(Reach)} \ {review}
            /\ UNCHANGED <<phase, view, token, stored, busy, picker, timer, calls>> /\ Quiet

-----------------------------------------------------------------------------
(* The page's timer and the answers. *)

Tick == /\ timer /\ calls' = calls \cup {Call("get", view.game, token, None, 0)}
        /\ timer' = FALSE
        /\ UNCHANGED <<phase, view, token, stored, busy, picker, review>> /\ Quiet

\* The answer of a live request of this kind.
Gets(c, op, codes) == /\ c \in calls /\ c.live /\ c.at = "answered"
                      /\ c.op = op /\ c.reply.code \in codes
Errors == {400, 401, 404, 409, 410, 500, 503}
Rest(c) == calls \ {c}

PollAnswer(c) == /\ Gets(c, "get", {200}) /\ SetGame(c.reply.view, Rest(c))
                 /\ busy' = (busy /\ phase' # "crashed")
                 /\ UNCHANGED stored /\ Quiet
\* Token or feature gone: back to the lobby.
PollDrops(c) == /\ Gets(c, "get", {401, 404})
                /\ phase' = "lobby" /\ stored' = None
                /\ Show(None, None, Rest(c))
                /\ UNCHANGED <<busy, picker>> /\ Quiet
PollGivesUp(c) == /\ Gets(c, "get", Errors \ {401, 404})   \* variant: not tried again
                  /\ calls' = Rest(c)
                  /\ UNCHANGED tab /\ Quiet
PollFails(c) == /\ Gets(c, "get", Errors \ {401, 404})
                /\ timer' = TRUE /\ calls' = Rest(c)
                /\ UNCHANGED <<phase, view, token, stored, busy, picker, review>> /\ Quiet

\* Session restore, over whatever the page shows by now.
Restored(c) == /\ Gets(c, "restore", {200})
               /\ IF Breaks(c.reply.view) THEN Crash(Rest(c))
                  ELSE /\ phase' = "playing"
                       /\ Show(c.reply.view, c.tok, Rest(c))
                       /\ UNCHANGED <<picker, busy>>
               /\ UNCHANGED stored /\ Quiet
RestoreFails(c) == /\ Gets(c, "restore", Errors)
                   /\ stored' = None /\ calls' = Rest(c)
                   /\ UNCHANGED <<phase, view, token, busy, picker, review, timer>> /\ Quiet

Created(c) == /\ Gets(c, "create", {201})
              /\ stored' = c.reply.view.game
              /\ IF Breaks(c.reply.view) THEN Crash(Rest(c))
                 ELSE /\ phase' = "playing" /\ busy' = FALSE
                      /\ Show(c.reply.view, c.reply.view.game, Rest(c))
                      /\ UNCHANGED picker
              /\ Quiet
CreateFails(c) == /\ Gets(c, "create", Errors)
                  /\ busy' = FALSE /\ calls' = Rest(c)
                  /\ UNCHANGED <<phase, view, token, stored, picker, review, timer>> /\ Quiet

MoveTaken(c) == /\ Gets(c, "submit", {200}) \/ Gets(c, "resync", {200})
                /\ SetGame(c.reply.view, Rest(c))
                /\ busy' = FALSE
                /\ UNCHANGED stored /\ Quiet
\* 409: the page fetches the game again before it lets go of the move.
MoveStale(c) == /\ Gets(c, "submit", {409})
                /\ calls' = Rest(c) \cup {Call("resync", c.game, c.tok, None, 0)}
                /\ UNCHANGED tab /\ Quiet
\* 410: the game on the page is called EXPIRED, whatever ended it.
MoveTooLate(c) == /\ Gets(c, "submit", {410})
                  /\ Show(IF view = None THEN None ELSE [view EXCEPT !.status = "EXPIRED"],
                          token, Rest(c))
                  /\ busy' = FALSE
                  /\ UNCHANGED <<phase, stored, picker>> /\ Quiet
MoveFails(c) == /\ Gets(c, "submit", Errors \ {409, 410}) \/ Gets(c, "resync", Errors)
                /\ busy' = FALSE /\ calls' = Rest(c)
                /\ UNCHANGED <<phase, view, token, stored, picker, review, timer>> /\ Quiet

Resigned(c) == /\ Gets(c, "resign", {200}) /\ SetGame(c.reply.view, Rest(c))
               /\ busy' = (busy /\ phase' # "crashed")
               /\ UNCHANGED stored /\ Quiet
ResignFails(c) == /\ Gets(c, "resign", Errors) /\ calls' = Rest(c)
                  /\ UNCHANGED tab /\ Quiet

Deliver(c) == \/ PollAnswer(c) \/ PollDrops(c) \/ PollFails(c)
              \/ Restored(c) \/ RestoreFails(c) \/ Created(c) \/ CreateFails(c)
              \/ MoveTaken(c) \/ MoveStale(c) \/ MoveTooLate(c) \/ MoveFails(c)
              \/ Resigned(c) \/ ResignFails(c)

-----------------------------------------------------------------------------
(* Faults. *)

Fault == faults < MaxFaults /\ faults' = faults + 1

\* The answer is lost, or the feature was switched off (404).  The loss of a
\* restore comes with its reload.
Lose(c) == /\ c.live
           /\ IF c.op = "restore" THEN UNCHANGED faults ELSE Fault
           /\ \/ c.at = "sent" /\ calls' = Answered(c, 404, None)
              \/ c.at = "answered" /\ c.reply.code < 400 /\ calls' = Answered(c, 500, None)
           /\ UNCHANGED <<served, executor, tab, reloaded>>

\* The page is loaded again; the server goes on with what it was asked.
Reload == /\ Fault /\ reloaded' = TRUE
          /\ phase' = "lobby" /\ view' = None /\ token' = None
          /\ busy' = FALSE /\ picker' = FALSE /\ review' = None /\ timer' = FALSE
          /\ calls' = Undelivered({[c EXCEPT !.live = FALSE] : c \in calls})
                      \cup {Call("restore", g, g, None, 0) : g \in {stored} \ {None}}
          /\ UNCHANGED <<served, executor, stored>>

WorkerDies == Fault /\ WorkerCrash /\ UNCHANGED <<tab, reloaded>>

-----------------------------------------------------------------------------
Init == /\ ServerInit
        /\ phase = "lobby" /\ view = None /\ token = None /\ stored = None
        /\ busy = FALSE /\ picker = FALSE /\ review = None /\ timer = FALSE
        /\ faults = 0 /\ reloaded = FALSE

User == \/ \E color \in Colors : ClickStart(color)
        \/ (\E uci \in Moves : DropMove(uci)) \/ DropPromotion
        \/ \E uci \in Moves \cup {"illegal"} : PickPromotion(uci)
        \/ ClickResign \/ ClickNewGame \/ ClickPly
Server == (\E c \in calls : Api(c)) /\ UNCHANGED <<tab, past>>
Worker == Serve /\ UNCHANGED <<tab, past>>
Time == (\E g \in Games : DeadlinePasses(g)) /\ UNCHANGED <<tab, past>>
Answers == \E c \in calls : Deliver(c)

Next == \/ User \/ Tick \/ Answers \/ Server \/ Worker \/ Time
        \/ (\E c \in calls : Lose(c)) \/ Reload \/ WorkerDies

Spec == Init /\ [][Next]_vars

\* Every request is answered (the server or the browser gives up on it), the
\* timer fires, and the worker, which is free again after every pair, takes
\* the next owed move; its search ends, because every wait for the engine has
\* a timeout.  Nothing is assumed of the user, and time need not pass.
Fairness ==
    /\ WF_vars((\E c \in calls : c.op = "get" /\ Api(c)) /\ UNCHANGED <<tab, past>>)
    /\ WF_vars(\E c \in calls : c.op = "get" /\ Deliver(c))
    /\ WF_vars(Tick) /\ WF_vars(Worker)
FairSpec == Spec /\ Fairness

-----------------------------------------------------------------------------
Codes == Errors \cup {200, 201}
Rows  == [status : Terminal \cup {"NONE", "ACTIVE"}, pending : BOOLEAN, rev : Nat,
          fen : Seq(Moves), human : Colors]
IsView(v) == /\ v.game \in Games /\ v.status \in Terminal \cup {"ACTIVE"}
             /\ v.pending \in BOOLEAN /\ v.rev \in Nat /\ v.len \in Nat
             /\ v.turn \in Colors /\ v.human \in Colors

\* Types of the rows, the plies, the executor and the page; a review is never
\* beyond the moves of the game on the page.
TypeOK ==
    /\ row \in [Games -> Rows] /\ late \in [Games -> BOOLEAN]
    /\ \A g \in Games : \A i \in DOMAIN log[g] :
          log[g][i] \in [by : {"human", "engine"}, uci : Moves, on : Seq(Moves)]
    /\ \A c \in calls : c.at = "answered" => c.reply.code \in Codes
    /\ executor.at \in {"idle", "flush", "clear", "search"}
    /\ phase \in {"lobby", "playing", "crashed"}
    /\ view # None => IsView(view)
    /\ {token, stored} \subseteq Games \cup {None}
    /\ {busy, picker, timer, reloaded} \subseteq BOOLEAN
    /\ InReview => view # None /\ review \in 0 .. view.len
    /\ faults \in 0 .. MaxFaults

\* A reply of the engine was computed on exactly the plies that precede it,
\* and it never follows a reply of its own, even when two submits race, the
\* revision comes back to the one being searched, or the worker dies.
EngineAnswersTheHuman ==
    \A g \in Games : \A i \in DOMAIN log[g] :
        log[g][i].by = "engine" =>
            /\ log[g][i].on = [j \in 1 .. i - 1 |-> log[g][j].uci]
            /\ i > 1 => log[g][i - 1].by = "human"
            /\ i = 1 => row[g].human = "black"

\* A game that is ACTIVE is not over, neither by its FEN nor on a board that
\* has its history, with one exception: its last ply is a move of the human
\* that draws by repetition, which the API's board cannot see.  The executor's
\* does, so that the same draw by a move of the engine ends the game.
ActiveIsOpen ==
    \A g \in Games : Active(g) =>
        /\ ~Over(row[g].fen) /\ ~Over(History(g))
        /\ Repeats(History(g)) => log[g][Len(log[g])].by = "human"

\* A game that ended may be relabelled by a stale request, but it never comes
\* back to life, and the engine adds no ply to it nor to one past a deadline.
DeadGamesStayDead ==
    [][\A g \in Games :
        /\ row[g].status \in Terminal => row'[g].status \in Terminal
        /\ \A n \in DOMAIN log'[g] :
              n > Len(log[g]) /\ log'[g][n].by = "engine" => Owed(g) /\ ~late[g]]_vars

\* Starts and moves share one busy flag across the lobby, the board and the
\* picker: until the page is loaded again, two of them are never under way.
\* A reload's restore ignores the flag; answered late, it puts an ACTIVE game
\* behind a picker left open while the lobby starts another.
OneActionAtATime ==
    ~reloaded =>
        Cardinality({c \in calls : c.live /\ c.op \in {"create", "submit", "resync"}}) <= 1

\* Answers come in any order (a resignation's after a new game was started,
\* a move's after its game ended, none at all), but until the page is loaded
\* again, what it plays is the game whose token it holds: no request of it
\* meets a 401.
PlaysWithItsToken ==
    ~reloaded /\ Shown /\ view.status = "ACTIVE" => token = view.game

\* However the worker dies and requests race, an owed reply does not stay owed:
\* it is played, the engine fails, the game ends or expires, or the worker sees
\* that the game is over.  Left out are games whose log cannot be replayed.
OwedReplySettles == \A g \in Games : Owed(g) ~> ~Owed(g) \/ Corrupt(log[g])

\* "Engine is thinking" is not shown forever, although polls fail and are lost,
\* but for a game whose log cannot be replayed.
ThinkingEnds ==
    (Shown /\ Thinking) ~> ~(Shown /\ Thinking) \/ Corrupt(log[view.game])

\* Claim: on "Your move" the board takes a move (unless one is under way).
YourMoveCanBePlayed == Shown /\ MyTurn /\ ~busy => MayDrag
\* Claim: at rest, no reply is owed to a position that is over.
OwedGameIsOpen == \A g \in Games :
    Owed(g) /\ executor = Idle /\ calls = {} => ~GameOver(History(g))
\* Claim: a corrupt history fails the game (or a request of the user ends it).
CorruptHistoryFails == \A g \in Games :
    Owed(g) /\ Corrupt(log[g]) ~> ~Owed(g) \/ \E c \in calls : c.op # "get"
\* Claim: each accepted move, and nothing else, increments the revision.
RevisionCountsMoves == \A g \in Games : row[g].rev = Len(log[g])
=============================================================================
