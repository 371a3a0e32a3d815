--------------------------- MODULE HumanGameProofs ---------------------------
(***************************************************************************)
(* What the requests of the API and the executor of the worker preserve of *)
(* the rows and the plies, for any games, moves and number of requests.    *)
(***************************************************************************)
EXTENDS HumanPlay, SequenceTheorems, TLAPS

USE HumanAssumption

-----------------------------------------------------------------------------
(* What is kept. *)

Born(g) == row[g].status # "NONE"
Ply     == [by : {"human", "engine"}, uci : Moves, on : Seq(Moves)]
Views   == [game : Games, status : Terminal \cup {"ACTIVE"}, pending : BOOLEAN, rev : Nat,
            turn : Colors, human : Colors, len : Nat]
Held    == [row : Rows, len : Nat, late : BOOLEAN]
Replies == [code : Codes, view : Views \cup {None}]
Requests ==
    [op : Reads \cup {"create", "submit", "resign"},
     game : Games \cup {None}, tok : Games \cup {None},
     uci : Moves \cup Colors \cup {"illegal", None}, rev : Nat,
     at : {"sent", "read", "answered"}, read : Held \cup {None},
     reply : Replies \cup {None}, live : BOOLEAN]

\* Rows, plies and the executor have their types.
Typed ==
    /\ row \in [Games -> Rows] /\ log \in [Games -> Seq(Ply)] /\ late \in [Games -> BOOLEAN]
    /\ executor \in [at : {"idle", "flush", "clear", "search"}, game : Games \cup {None}, rev : Nat,
                     hist : Seq(Moves)]
    /\ executor.at # "idle" => executor.game \in Games /\ Born(executor.game)

\* A request is about a game that was created, decides on a row of it, and is
\* answered with a payload of it only when its token is that game's.
CallOK(c) ==
    /\ c \in Requests
    /\ c.op = "create" /\ c.at = "sent" => c.uci \in Colors
    /\ c.op # "create" => c.game \in Games /\ Born(c.game)
    /\ c.at = "read" => /\ c.op # "create" /\ c.tok = c.game
                        /\ c.read \in Held /\ c.read.row.status # "NONE"
    /\ c.at = "answered" => c.reply \in Replies
    /\ c.at = "answered" /\ c.reply.code < 400 =>
          /\ c.reply.view \in Views /\ Born(c.reply.view.game)
          /\ c.op # "create" => c.reply.view.game = c.game /\ c.tok = c.game
          /\ c.op = "resign" => c.reply.view.status = "RESIGNED"
CallsOK == \A c \in calls : CallOK(c)

\* A game without a row has no ply, and the engine owes a reply to a ply of
\* the human, or the first move of a game the human plays as black.
Owing == \A g \in Games :
    /\ ~Born(g) => log[g] = << >>
    /\ Owed(g) => IF log[g] = << >> THEN row[g].human = "black"
                  ELSE log[g][Len(log[g])].by = "human"
\* What is searched is the start of what was played, whatever came after.
Searched == Searching =>
    LET plies == log[executor.game] IN
    /\ Len(executor.hist) <= Len(plies)
    /\ executor.hist = [j \in 1 .. Len(executor.hist) |-> plies[j].uci]

GameInv == Typed /\ CallsOK /\ Owing /\ Searched /\ EngineAnswersTheHuman /\ ActiveIsOpen

-----------------------------------------------------------------------------
(* Positions and plies. *)

LEMMA Terminals == /\ "ACTIVE" \notin Terminal /\ "NONE" \notin Terminal
                   /\ {"FINISHED", "RESIGNED", "EXPIRED", "ENGINE_FAILED"} = Terminal
BY DEF Terminal

\* A position is over when its last move is a mate.
LEMMA LastMove == ASSUME NEW pos \in Seq(Moves), NEW m \in Moves
                  PROVE  /\ Append(pos, m) \in Seq(Moves)
                         /\ Over(Append(pos, m)) <=> m \in Mates
BY DEF Over

LEMMA TurnIsAColor == ASSUME NEW pos \in Seq(Moves) PROVE Turn(pos) \in Colors
BY DEF Turn, Colors

\* The moves of the plies of a game, and whether the last one is a mate.
MovesOf(plies) == [i \in DOMAIN plies |-> plies[i].uci]

LEMMA Histories == ASSUME NEW plies \in Seq(Ply)
                   PROVE  /\ MovesOf(plies) \in Seq(Moves)
                          /\ Len(MovesOf(plies)) = Len(plies)
                          /\ MovesOf(plies) = [j \in 1 .. Len(plies) |-> plies[j].uci]
<1>1. DOMAIN plies = 1 .. Len(plies) /\ Len(plies) \in Nat
      OBVIOUS
<1>2. \A j \in 1 .. Len(plies) : plies[j].uci \in Moves
      <2>1. ASSUME NEW j \in 1 .. Len(plies)  PROVE plies[j] \in Ply
            BY ElementOfSeq
      <2> QED  BY <2>1 DEF Ply
<1>3. MovesOf(plies) = [j \in 1 .. Len(plies) |-> plies[j].uci]
      BY <1>1 DEF MovesOf
<1>4. MovesOf(plies) \in [1 .. Len(plies) -> Moves]
      BY <1>2, <1>3
<1> QED  BY <1>1, <1>3, <1>4

LEMMA LastPly == ASSUME NEW plies \in Seq(Ply)
                 PROVE  Over(MovesOf(plies)) <=>
                            plies # << >> /\ plies[Len(plies)].uci \in Mates
<1>1. Len(plies) \in Nat /\ (plies = << >> <=> Len(plies) = 0)
      OBVIOUS
<1>2. MovesOf(plies) = << >> <=> Len(MovesOf(plies)) = 0
      BY Histories
<1>3. CASE plies = << >>
      BY <1>1, <1>2, <1>3, Histories DEF Over
<1>4. CASE plies # << >>
      <2>1. Len(plies) \in 1 .. Len(plies)
            BY <1>1, <1>4
      <2>2. MovesOf(plies)[Len(plies)] = plies[Len(plies)].uci
            BY <2>1, Histories
      <2> QED  BY <2>2, <1>1, <1>2, <1>4, Histories DEF Over
<1> QED  BY <1>3, <1>4

\* A ply is added to the log of one game.
LEMMA Grown == ASSUME Typed, NEW g \in Games, NEW p \in Ply,
                      log' = [log EXCEPT ![g] = Append(@, p)]
               PROVE  /\ log' \in [Games -> Seq(Ply)]
                      /\ \A h \in Games \ {g} : log'[h] = log[h]
                      /\ Len(log[g]) \in Nat /\ Len(log'[g]) = Len(log[g]) + 1
                      /\ \A j \in 1 .. Len(log[g]) : log'[g][j] = log[g][j]
                      /\ log'[g][Len(log[g]) + 1] = p
                      /\ log'[g] # << >>
<1>1. log \in [Games -> Seq(Ply)] /\ log[g] \in Seq(Ply)
      BY DEF Typed
<1>2. log'[g] = Append(log[g], p) /\ Append(log[g], p) \in Seq(Ply)
      BY <1>1
<1>3. \A h \in Games \ {g} : log'[h] = log[h]
      BY <1>1
<1>4. log' \in [Games -> Seq(Ply)]
      BY <1>1, <1>2
<1>5. /\ Len(log[g]) \in Nat /\ Len(log'[g]) = Len(log[g]) + 1
      /\ \A j \in 1 .. Len(log[g]) : log'[g][j] = log[g][j]
      /\ log'[g][Len(log[g]) + 1] = p
      BY <1>1, <1>2
<1>6. log'[g] # << >>
      <2>1. log'[g] \in Seq(Ply)
            BY <1>2
      <2>2. Len(log'[g]) # 0
            BY <1>5
      <2>3. Len(<< >>) = 0
            OBVIOUS
      <2> QED  BY <2>1, <2>2, <2>3
<1> QED  BY <1>3, <1>4, <1>5, <1>6

-----------------------------------------------------------------------------
(* Steps that add no ply. *)

\* No reply is owed any more.
Cleared(h) == Born(h) /\ row'[h] = [row[h] EXCEPT !.pending = FALSE]
QuietRow(h) ==
    \/ row'[h] = row[h] \/ Cleared(h)
    \/ Born(h) /\ row'[h].status \in Terminal /\ row'[h].human = row[h].human
    \/ ~Born(h) /\ \E color \in Colors : row'[h] = NewRow(color)
QuietRows == row' \in [Games -> Rows] /\ \A h \in Games : QuietRow(h)

\* A game that was created stays, and one that ended does not come back.
OneWay == \A g \in Games : /\ Born(g) => row'[g].status # "NONE"
                           /\ row[g].status \in Terminal => row'[g].status \in Terminal

LEMMA NewRows == ASSUME NEW color \in Colors
                 PROVE  /\ NewRow(color) \in Rows
                        /\ NewRow(color).status = "ACTIVE" /\ NewRow(color).fen = << >>
                        /\ NewRow(color).human = color
                        /\ NewRow(color).pending <=> color = "black"
                        /\ NewRow(color).rev = 0
<1> DEFINE b == (color = "black")
<1>0. b \in BOOLEAN /\ (b <=> color = "black")
      OBVIOUS
<1>1. NewRow(color) = [NoRow EXCEPT !.status = "ACTIVE", !.human = color, !.pending = b]
      BY DEF NewRow
<1> HIDE DEF b
<1>2. << >> \in Seq(Moves)
      OBVIOUS
<1>3. NewRow(color) = [status |-> "ACTIVE", pending |-> b, rev |-> 0, fen |-> << >>,
                       human |-> color]
      BY <1>1 DEF NoRow
<1>4. NewRow(color) \in Rows
      BY <1>0, <1>2, <1>3 DEF Rows
<1>5. /\ NewRow(color).status = "ACTIVE" /\ NewRow(color).fen = << >>
      /\ NewRow(color).human = color /\ NewRow(color).rev = 0
      /\ NewRow(color).pending = b
      BY <1>3
<1> QED  BY <1>0, <1>4, <1>5

\* A row that is not touched is quiet.
LEMMA SameRows == Typed /\ row' = row => QuietRows
BY DEF Typed, QuietRows, QuietRow

\* A status, and whether a reply is owed, are written over a row.
LEMMA Written == ASSUME Typed, NEW g \in Games, Born(g), NEW st \in Terminal, NEW b \in BOOLEAN,
                        row' = [row EXCEPT ![g].status = st, ![g].pending = b]
                 PROVE  QuietRows
<1>1. row \in [Games -> Rows] /\ row[g] \in Rows
      BY DEF Typed
<1>2. /\ row'[g] = [row[g] EXCEPT !.status = st, !.pending = b]
      /\ \A h \in Games \ {g} : row'[h] = row[h]
      BY <1>1
<1>3. /\ row'[g] \in Rows /\ row'[g].status = st /\ row'[g].human = row[g].human
      BY <1>1, <1>2 DEF Rows
<1>4. row' \in [Games -> Rows]
      BY <1>1, <1>2, <1>3
<1> QED  BY <1>2, <1>3, <1>4 DEF QuietRows, QuietRow

LEMMA Expired == ASSUME Typed, NEW g \in Games, Born(g), NEW w \in BOOLEAN, ExpireRow(g, w)
                 PROVE  QuietRows
<1>1. row \in [Games -> Rows] /\ row[g] \in Rows /\ row[g].pending \in BOOLEAN
      BY DEF Typed, Rows
<1>2. row' = [row EXCEPT ![g].status = "EXPIRED", ![g].pending = row[g].pending /\ ~w]
      BY <1>1 DEF ExpireRow
<1>3. (row[g].pending /\ ~w) \in BOOLEAN
      BY <1>1
<1> DEFINE b == row[g].pending /\ ~w
<1>4. row' = [row EXCEPT ![g].status = "EXPIRED", ![g].pending = b] /\ b \in BOOLEAN
      BY <1>2, <1>3
<1> HIDE DEF b
<1> QED  BY <1>4, Written, Terminals

\* What is said of the plies holds on.
LEMMA QuietPlies == ASSUME Typed, Owing, EngineAnswersTheHuman, ActiveIsOpen,
                           QuietRows, log' = log
                    PROVE  /\ Owing' /\ EngineAnswersTheHuman' /\ ActiveIsOpen'
                           /\ OneWay
<1>1. /\ row \in [Games -> Rows] /\ row' \in [Games -> Rows]
      /\ \A h \in Games : QuietRow(h)
      BY DEF Typed, QuietRows
<1>2. OneWay
      <2> SUFFICES ASSUME NEW g \in Games, Born(g)
                   PROVE  /\ row'[g].status # "NONE"
                          /\ row[g].status \in Terminal => row'[g].status \in Terminal
          BY Terminals DEF OneWay, Born
      <2>1. row[g] \in Rows
            BY <1>1
      <2>2. CASE Cleared(g)
            BY <2>1, <2>2 DEF Cleared, Rows, Born
      <2> QED  BY <1>1, <2>2, Terminals DEF QuietRow, Born
<1>3. Owing'
      <2> SUFFICES ASSUME NEW g \in Games
                   PROVE  /\ row'[g].status = "NONE" => log[g] = << >>
                          /\ row'[g].status = "ACTIVE" /\ row'[g].pending =>
                                IF log[g] = << >> THEN row'[g].human = "black"
                                ELSE log[g][Len(log[g])].by = "human"
          BY DEF Owing, Born, Owed, Active
      <2>1. CASE row'[g] = row[g]
            BY <2>1 DEF Owing, Born, Owed, Active
      <2>2. CASE row'[g].status \in Terminal
            BY <2>2, Terminals
      <2>3. CASE ~Born(g) /\ \E color \in Colors : row'[g] = NewRow(color)
            BY <2>3, NewRows DEF Owing
      <2>4. CASE Cleared(g)
            <3>1. row[g] \in Rows
                  BY <1>1
            <3> QED  BY <2>4, <3>1 DEF Cleared, Born, Rows
      <2> QED  BY <1>1, <2>1, <2>2, <2>3, <2>4 DEF QuietRow
<1>4. EngineAnswersTheHuman'
      <2> SUFFICES ASSUME NEW g \in Games, NEW i \in DOMAIN log[g], log[g][i].by = "engine"
                   PROVE  /\ log[g][i].on = [j \in 1 .. i - 1 |-> log[g][j].uci]
                          /\ i > 1 => log[g][i - 1].by = "human"
                          /\ i = 1 => row'[g].human = "black"
          BY DEF EngineAnswersTheHuman
      <2>1. /\ log[g][i].on = [j \in 1 .. i - 1 |-> log[g][j].uci]
            /\ i > 1 => log[g][i - 1].by = "human"
            /\ i = 1 => row[g].human = "black"
            BY DEF EngineAnswersTheHuman
      <2>2. Born(g)
            <3>1. log[g] # << >>
                  OBVIOUS
            <3> QED  BY <3>1 DEF Owing
      <2>3. row'[g].human = row[g].human
            <3>1. row[g] \in Rows
                  BY <1>1
            <3>2. Cleared(g) => row'[g].human = row[g].human
                  BY <3>1 DEF Cleared, Rows
            <3> QED  BY <1>1, <2>2, <3>2 DEF QuietRow
      <2> QED  BY <2>1, <2>3
<1>5. ActiveIsOpen'
      <2> SUFFICES ASSUME NEW g \in Games, row'[g].status = "ACTIVE"
                   PROVE  /\ ~Over(History(g)) /\ ~Over(row'[g].fen)
                          /\ Repeats(History(g)) => log[g][Len(log[g])].by = "human"
          BY DEF ActiveIsOpen, Active, History
      <2>1. CASE row'[g] = row[g]
            BY <2>1 DEF ActiveIsOpen, Active
      <2>2. CASE row'[g].status \in Terminal
            BY <2>2, Terminals
      <2>3. CASE ~Born(g) /\ \E color \in Colors : row'[g] = NewRow(color)
            <3>1. log[g] = << >>
                  BY <2>3 DEF Owing
            <3>2. ~Over(History(g)) /\ ~Repeats(History(g))
                  <4>1. << >> \in Seq(Ply) /\ History(g) = MovesOf(<< >>)
                        BY <3>1 DEF History, MovesOf
                  <4>2. MovesOf(<< >>) = << >>
                        BY DEF MovesOf
                  <4> QED  BY <4>1, <4>2, LastPly, FreshBoard
            <3>3. row'[g].fen = << >>
                  BY <2>3, NewRows
            <3> QED  BY <3>2, <3>3 DEF Over
      <2>4. CASE Cleared(g)
            <3>1. row[g] \in Rows
                  BY <1>1
            <3>2. row[g].status = "ACTIVE" /\ row'[g].fen = row[g].fen
                  BY <2>4, <3>1 DEF Cleared, Rows
            <3> QED  BY <3>2 DEF ActiveIsOpen, Active
      <2> QED  BY <1>1, <2>1, <2>2, <2>3, <2>4 DEF QuietRow
<1> QED  BY <1>2, <1>3, <1>4, <1>5

-----------------------------------------------------------------------------
(* A request takes its next step. *)

\* One request is replaced by its next form, or by none.
Follows(c) == \E r : /\ r.op = c.op /\ r.tok = c.tok /\ r.game = c.game
                     /\ r.live => c.live
                     /\ calls' \subseteq (calls \ {c}) \cup {r}

\* What is said of a request holds on when games are only created.
LEMMA StillOK == ASSUME OneWay, Typed, NEW c, CallOK(c)
                 PROVE  CallOK(c)'
<1>1. c \in Requests
      BY DEF CallOK
<1>2. c.op # "create" => row'[c.game].status # "NONE"
      BY DEF CallOK, OneWay, Born
<1>3. c.at = "answered" /\ c.reply.code < 400 => row'[c.reply.view.game].status # "NONE"
      BY DEF CallOK, OneWay, Born, Views
<1> QED  BY <1>1, <1>2, <1>3 DEF CallOK, Born

\* The answer of a request is a payload of its game, with its token.
LEMMA Answering ==
    ASSUME CallsOK, OneWay, Typed, NEW c \in calls,
           NEW code \in Codes, NEW shown \in Views \cup {None},
           code < 400 => /\ shown \in Views /\ row'[shown.game].status # "NONE"
                         /\ c.op # "create" => shown.game = c.game /\ c.tok = c.game
                         /\ c.op = "resign" => shown.status = "RESIGNED",
           calls' = Answered(c, code, shown)
    PROVE  CallsOK' /\ Follows(c)
<1> DEFINE rep == [code |-> code, view |-> shown]
           q == Call(c.op, c.game, c.tok, None, 0)
           r == [q EXCEPT !.at = "answered", !.reply = rep]
<1>1. CallOK(c) /\ c \in Requests
      BY DEF CallsOK, CallOK
<1>2. /\ r \in Requests
      /\ r.op = c.op /\ r.game = c.game /\ r.tok = c.tok /\ r.at = "answered"
      /\ r.reply \in Replies /\ r.reply.code = code /\ r.reply.view = shown
      <2>1. rep \in Replies /\ rep.code = code /\ rep.view = shown
            BY DEF Replies
      <2> HIDE DEF rep
      <2>2. /\ q \in Requests /\ q.op = c.op /\ q.game = c.game /\ q.tok = c.tok
            BY <1>1 DEF Requests, Call
      <2> HIDE DEF q
      <2> QED  BY <2>1, <2>2 DEF Requests
<1>3. /\ calls' \subseteq (calls \ {c}) \cup {r}
      /\ r \in calls' => c.live \/ r \in calls \ {c}
      BY <1>1 DEF Answered, Requests
<1>4. CallOK(r)'
      <2>3. c.op # "create" => c.game \in Games /\ row'[c.game].status # "NONE"
            BY <1>1 DEF CallOK, OneWay, Born
      <2> HIDE DEF r
      <2> QED  BY <1>2, <2>3 DEF CallOK, Born
<1>5. CallsOK'
      <2> SUFFICES ASSUME NEW d \in calls'  PROVE CallOK(d)'
          BY DEF CallsOK
      <2>1. CASE d = r  BY <2>1, <1>4
      <2>2. CASE d \in calls  BY <2>2, StillOK DEF CallsOK
      <2> QED  BY <2>1, <2>2, <1>3
<1>6. Follows(c)
      <2>1. CASE c.live
            <3> HIDE DEF r
            <3> QED  BY <1>2, <1>3, <2>1 DEF Follows
      <2>2. CASE ~c.live
            <3>1. calls' \subseteq (calls \ {c}) \cup {c}
                  BY <1>3, <2>2
            <3> QED  BY <3>1 DEF Follows
      <2> QED  BY <2>1, <2>2
<1> QED  BY <1>5, <1>6

\* The payload of a row is a view of a game that was created.
LEMMA Payloads == ASSUME NEW g \in Games, NEW r \in Rows, r.status # "NONE", NEW n \in Nat
                  PROVE  /\ Payload(g, r, n) \in Views
                         /\ Payload(g, r, n).game = g /\ Payload(g, r, n).status = r.status
<1>1. r.status \in Terminal \cup {"ACTIVE"} /\ r.fen \in Seq(Moves)
      BY DEF Rows
<1>2. Turn(r.fen) \in Colors
      BY <1>1, TurnIsAColor
<1> QED  BY <1>1, <1>2 DEF Payload, Views, Rows

-----------------------------------------------------------------------------
(* The requests. *)

\* A step that adds no ply and starts no search.
LEMMA QuietStep ==
    ASSUME GameInv, QuietRows, log' = log, late' \in [Games -> BOOLEAN],
           executor' \in {executor, Idle}
    PROVE  /\ OneWay /\ Typed' /\ Owing' /\ Searched'
           /\ EngineAnswersTheHuman' /\ ActiveIsOpen'
<1>1. /\ OneWay /\ Owing' /\ EngineAnswersTheHuman' /\ ActiveIsOpen'
      BY QuietPlies DEF GameInv
<1>2. Typed'
      <2>1. CASE executor' = executor
            BY <1>1, <2>1 DEF GameInv, Typed, QuietRows, OneWay, Born
      <2>2. CASE executor' = Idle
            <3>1. << >> \in Seq(Moves)
                  OBVIOUS
            <3> QED  BY <2>2, <3>1 DEF GameInv, Typed, QuietRows, Idle
      <2> QED  BY <2>1, <2>2
<1>3. Searched'
      <2>1. CASE executor' = executor
            BY <2>1 DEF GameInv, Searched, Searching
      <2>2. CASE executor' = Idle
            BY <2>2 DEF Searched, Searching, Idle
      <2> QED  BY <2>1, <2>2
<1> QED  BY <1>1, <1>2, <1>3

\* A request that adds no ply is answered.
LEMMA QuietAnswer ==
    ASSUME GameInv, QuietRows, UNCHANGED <<log, late, executor>>, NEW c \in calls,
           NEW code \in Codes, NEW shown \in Views \cup {None},
           code < 400 => /\ shown \in Views /\ row'[shown.game].status # "NONE"
                         /\ c.op # "create" => shown.game = c.game /\ c.tok = c.game
                         /\ c.op = "resign" => shown.status = "RESIGNED",
           calls' = Answered(c, code, shown)
    PROVE  GameInv' /\ OneWay /\ Follows(c)
<1>1. late' \in [Games -> BOOLEAN]
      BY DEF GameInv, Typed
<1>2. /\ OneWay /\ Typed' /\ Owing' /\ Searched'
      /\ EngineAnswersTheHuman' /\ ActiveIsOpen'
      BY <1>1, QuietStep
<1>3. CallsOK' /\ Follows(c)
      BY <1>2, Answering DEF GameInv
<1> QED  BY <1>2, <1>3 DEF GameInv

LEMMA CodesBelow == /\ {400, 401, 404, 409, 410, 500, 503, 200, 201} = Codes
                    /\ \A code \in Codes : code \in Nat /\ code # None
                    /\ None \in Views \cup {None}
BY DEF Codes, Errors

LEMMA UnauthorizedStep == ASSUME GameInv, NEW c \in calls, Unauthorized(c)
                          PROVE  GameInv' /\ OneWay /\ Follows(c)
<1>1. row' = row /\ UNCHANGED <<log, late, executor>> /\ calls' = Answered(c, 401, None)
      BY DEF Unauthorized, served
<1>2. QuietRows
      BY <1>1, SameRows DEF GameInv
<1> QED  BY <1>1, <1>2, QuietAnswer, CodesBelow

LEMMA GetStep == ASSUME GameInv, NEW c \in calls, Get(c)
                 PROVE  GameInv' /\ OneWay /\ Follows(c)
<1> DEFINE g == c.game
           shown == Payload(g, row'[g], Len(log[g]))
<1>1. /\ c.op # "create" /\ c.op # "resign" /\ c.tok = g
      /\ UNCHANGED <<log, late, executor>> /\ calls' = Answered(c, 200, shown)
      BY DEF Get, Sent, Reads
<1>2. g \in Games /\ Born(g) /\ Typed
      BY <1>1 DEF GameInv, CallsOK, CallOK
<1>3. QuietRows
      <2>1. CASE Active(g) /\ late[g]
            <3>1. ExpireRow(g, row[g].pending) /\ row[g].pending \in BOOLEAN
                  BY <1>2, <2>1 DEF Get, Typed, Rows
            <3> QED  BY <1>2, <3>1, Expired
      <2>2. CASE ~(Active(g) /\ late[g])
            BY <1>2, <2>2, SameRows DEF Get
      <2> QED  BY <2>1, <2>2
<1>4. row'[g] \in Rows /\ row'[g].status # "NONE"
      <2>1. OneWay
            BY <1>1, <1>3, QuietPlies DEF GameInv
      <2> QED  BY <1>2, <1>3, <2>1 DEF QuietRows, OneWay
<1>5. Len(log[g]) \in Nat
      BY <1>2 DEF Typed
<1>6. shown \in Views /\ shown.game = g
      BY <1>2, <1>4, <1>5, Payloads
<1> HIDE DEF shown
<1> QED  BY <1>1, <1>3, <1>4, <1>6, QuietAnswer, CodesBelow

\* The row is remembered as it is.
LEMMA LoadStep == ASSUME GameInv, NEW c \in calls, Load(c)
                  PROVE  GameInv' /\ OneWay /\ Follows(c)
<1> DEFINE held == [row |-> row[c.game], len |-> Len(log[c.game]), late |-> late[c.game]]
           d == [c EXCEPT !.at = "read", !.read = held]
<1>1. /\ row' = row /\ UNCHANGED <<log, late, executor>>
      /\ calls' = (calls \ {c}) \cup {d}
      /\ c.op # "create" /\ c.tok = c.game
      BY DEF Load, served, Sent
<1>2. CallOK(c) /\ c \in Requests /\ c.game \in Games /\ Born(c.game) /\ Typed
      BY <1>1 DEF GameInv, CallsOK, CallOK
<1>3. held \in Held /\ held.row.status # "NONE"
      <2>1. row \in [Games -> Rows] /\ log \in [Games -> Seq(Ply)] /\ late \in [Games -> BOOLEAN]
            BY <1>2, Zenon DEF Typed
      <2>2. row[c.game] \in Rows /\ log[c.game] \in Seq(Ply) /\ late[c.game] \in BOOLEAN
            BY <1>2, <2>1, Zenon
      <2>3. Len(log[c.game]) \in Nat
            BY <2>2, LenProperties, Zenon
      <2> QED  BY <1>2, <2>2, <2>3 DEF Held, Born
<1> HIDE DEF held
<1>4. /\ d \in Requests /\ d.op = c.op /\ d.tok = c.tok /\ d.game = c.game
      /\ d.live = c.live /\ d.at = "read" /\ d.read = held
      BY <1>2, <1>3 DEF Requests
<1> HIDE DEF d
<1>5. CallOK(d)
      BY <1>1, <1>2, <1>3, <1>4 DEF CallOK
<1>6. QuietRows /\ late' \in [Games -> BOOLEAN]
      BY <1>1, <1>2, SameRows DEF Typed
<1>7. /\ OneWay /\ Typed' /\ Owing' /\ Searched'
      /\ EngineAnswersTheHuman' /\ ActiveIsOpen'
      BY <1>1, <1>6, QuietStep
<1>8. CallsOK'
      BY <1>1, <1>2, <1>5, <1>7, StillOK DEF GameInv, CallsOK
<1>9. Follows(c)
      BY <1>1, <1>4 DEF Follows
<1> QED  BY <1>7, <1>8, <1>9 DEF GameInv

\* What a decision is taken on.
LEMMA Deciding == ASSUME GameInv, NEW c \in calls, NEW op, Decides(c, op)
                  PROVE  /\ c.op # "create" /\ c.op = op /\ c.tok = c.game
                         /\ c.game \in Games /\ Born(c.game)
                         /\ c.read \in Held /\ c.read.row \in Rows /\ c.read.row.status # "NONE"
<1>1. CallOK(c) /\ c.at = "read" /\ c.op = op
      BY DEF GameInv, CallsOK, Decides
<1> QED  BY <1>1 DEF CallOK, Held

LEMMA ExpireFirstStep == ASSUME GameInv, NEW c \in calls, ExpireFirst(c)
                         PROVE  GameInv' /\ OneWay /\ Follows(c)
<1>1. /\ UNCHANGED <<log, late, executor>> /\ calls' = Answered(c, 410, None)
      /\ c.game \in Games /\ Born(c.game) /\ Typed
      /\ c.read.row.pending \in BOOLEAN
      BY Deciding DEF ExpireFirst, GameInv, Rows
<1>2. QuietRows
      <2>1. CASE c.read.late
            BY <1>1, <2>1, Expired DEF ExpireFirst
      <2>2. CASE ~c.read.late
            BY <1>1, <2>2, SameRows DEF ExpireFirst
      <2> QED  BY <2>1, <2>2
<1> QED  BY <1>1, <1>2, QuietAnswer, CodesBelow

LEMMA RefuseStep == ASSUME GameInv, NEW c \in calls, Refuse(c) \/ PlyTaken(c)
                    PROVE  GameInv' /\ OneWay /\ Follows(c)
<1>1. /\ row' = row /\ UNCHANGED <<log, late, executor>>
      BY DEF Refuse, PlyTaken, served
<1>2. QuietRows
      BY <1>1, SameRows DEF GameInv
<1>3. CASE Refuse(c)
      <2>1. Refusal(c) # None
            BY <1>3 DEF Refuse
      <2>3. Refusal(c) \in {400, 409, 410, None}
            BY DEF Refusal
      <2>2. calls' = Answered(c, Refusal(c), None)
            BY <1>3 DEF Refuse
      <2> QED  BY <1>1, <1>2, <2>1, <2>2, <2>3, QuietAnswer, CodesBelow
<1>4. CASE PlyTaken(c)
      <2>1. calls' = Answered(c, 500, None)
            BY <1>4 DEF PlyTaken
      <2> QED  BY <1>1, <1>2, <2>1, QuietAnswer, CodesBelow
<1> QED  BY <1>3, <1>4

LEMMA ResignStep == ASSUME GameInv, NEW c \in calls, Resign(c)
                    PROVE  GameInv' /\ OneWay /\ Follows(c)
<1> DEFINE g == c.game
           r == c.read.row
           seen == [r EXCEPT !.status = "RESIGNED", !.pending = FALSE]
           shown == Payload(g, seen, Len(log[g]))
<1>1. /\ UNCHANGED <<log, late, executor>>
      /\ g \in Games /\ Born(g) /\ r \in Rows /\ Typed
      /\ c.op = "resign" /\ c.tok = g
      BY Deciding DEF Resign, GameInv
<1>2. CASE r.status = "ACTIVE"
      <2>0. calls' = Answered(c, 200, shown)
            BY <1>2 DEF Resign
      <2>1. row' = [row EXCEPT ![g].status = "RESIGNED", ![g].pending = @ /\ ~r.pending]
            BY <1>2 DEF Resign
      <2>2. row \in [Games -> Rows] /\ row[g].pending \in BOOLEAN /\ r.pending \in BOOLEAN
            BY <1>1 DEF Typed, Rows
      <2> DEFINE b == row[g].pending /\ ~r.pending
      <2>3. row' = [row EXCEPT ![g].status = "RESIGNED", ![g].pending = b] /\ b \in BOOLEAN
            BY <1>1, <2>1, <2>2
      <2> HIDE DEF b
      <2>4. QuietRows
            BY <1>1, <2>3, Written, Terminals
      <2>5. row'[g].status # "NONE"
            BY <1>1, <2>4, QuietPlies DEF GameInv, OneWay
      <2>6. seen \in Rows /\ seen.status = "RESIGNED"
            BY <1>1, Terminals DEF Rows
      <2>7. Len(log[g]) \in Nat
            BY <1>1 DEF Typed
      <2> HIDE DEF seen
      <2>8. shown \in Views /\ shown.game = g /\ shown.status = seen.status
            <3>1. seen.status # "NONE"
                  BY <2>6
            <3> HIDE DEF g
            <3> QED  BY <1>1, <2>6, <2>7, <3>1, Payloads
      <2>9. shown.status = "RESIGNED"
            BY <2>6, <2>8
      <2> HIDE DEF shown
      <2> QED  BY <1>1, <2>0, <2>4, <2>5, <2>8, <2>9, QuietAnswer, CodesBelow
<1>3. CASE r.status # "ACTIVE"
      <2>1. row' = row /\ calls' = Answered(c, 410, None)
            BY <1>3 DEF Resign
      <2>2. QuietRows
            BY <1>1, <2>1, SameRows
      <2> QED  BY <1>1, <2>1, <2>2, QuietAnswer, CodesBelow
<1> QED  BY <1>2, <1>3

\* Abandoned games are expired first.
LEMMA Reaping == ASSUME Typed
                 PROVE  /\ Reaped \in [Games -> Rows]
                        /\ \A h \in Games : \/ Reaped[h] = row[h]
                                            \/ /\ Born(h) /\ Reaped[h].status \in Terminal
                                               /\ Reaped[h].human = row[h].human
                        /\ \A h \in Games : ~Born(h) => Reaped[h] = row[h]
<1>1. ASSUME NEW h \in Games
      PROVE  /\ Reaped[h] \in Rows
             /\ \/ Reaped[h] = row[h]
                \/ /\ Born(h) /\ Reaped[h].status \in Terminal
                   /\ Reaped[h].human = row[h].human
             /\ ~Born(h) => Reaped[h] = row[h]
      <2>1. row[h] \in Rows
            BY DEF Typed
      <2>2. Active(h) => Born(h)
            BY DEF Active, Born
      <2>3. CASE Active(h) /\ late[h]
            BY <2>1, <2>2, <2>3, Terminals DEF Reaped, Rows
      <2>4. CASE ~(Active(h) /\ late[h])
            BY <2>1, <2>4 DEF Reaped
      <2> QED  BY <2>3, <2>4
<1>2. Reaped \in [Games -> Rows]
      BY <1>1 DEF Reaped
<1> QED  BY <1>1, <1>2

LEMMA CreateStep == ASSUME GameInv, NEW c \in calls, Create(c)
                    PROVE  GameInv' /\ OneWay /\ Follows(c)
<1>1. /\ UNCHANGED <<log, late, executor>> /\ Typed
      /\ c.op = "create" /\ c.uci \in Colors
      BY DEF Create, Sent, GameInv, CallsOK, CallOK
<1>2. CASE row' = row /\ calls' = Answered(c, 503, None)
      <2>1. QuietRows
            BY <1>1, <1>2, SameRows
      <2> QED  BY <1>1, <1>2, <2>1, QuietAnswer, CodesBelow
<1>3. ASSUME NEW g \in Unborn, row' = [Reaped EXCEPT ![g] = NewRow(c.uci)],
             calls' = Answered(c, 201, Payload(g, NewRow(c.uci), 0))
      PROVE  GameInv' /\ OneWay /\ Follows(c)
      <2>1. g \in Games /\ ~Born(g)
            BY DEF Unborn, Born
      <2>2. QuietRows
            BY <1>1, <1>3, <2>1, Reaping, NewRows DEF QuietRows, QuietRow
      <2>3. row'[g].status # "NONE"
            BY <1>1, <1>3, <2>1, Reaping, NewRows
      <2> DEFINE shown == Payload(g, NewRow(c.uci), 0)
      <2>4. shown \in Views /\ shown.game = g
            BY <1>1, <2>1, NewRows, Payloads
      <2>5. calls' = Answered(c, 201, shown)
            BY <1>3
      <2> HIDE DEF shown
      <2> QED  BY <1>1, <2>2, <2>3, <2>4, <2>5, QuietAnswer, CodesBelow
<1> QED  BY <1>2, <1>3 DEF Create

-----------------------------------------------------------------------------
(* Steps that add a ply. *)

\* A ply of the human, or the reply the engine owed, computed on all plies
\* before it; a mate, or the engine's draw by repetition, ends the game.
LEMMA PlyStep ==
    ASSUME Typed, Owing, EngineAnswersTheHuman, ActiveIsOpen,
           NEW g \in Games, Born(g), NEW p \in Ply,
           log' = [log EXCEPT ![g] = Append(@, p)],
           row' \in [Games -> Rows], \A h \in Games \ {g} : row'[h] = row[h],
           row'[g].human = row[g].human, row'[g].status # "NONE",
           row[g].status \in Terminal => row'[g].status \in Terminal,
           p.by = "engine" => Owed(g) /\ p.on = History(g) /\ ~row'[g].pending,
           row'[g].status = "ACTIVE" =>
               /\ p.uci \notin Mates /\ ~Over(row'[g].fen)
               /\ p.by = "engine" => ~Repeats(MovesOf(log'[g]))
    PROVE  OneWay /\ Owing' /\ EngineAnswersTheHuman' /\ ActiveIsOpen'
<1> DEFINE n == Len(log[g])
<1>1. /\ log' \in [Games -> Seq(Ply)]
      /\ \A h \in Games \ {g} : log'[h] = log[h]
      /\ n \in Nat /\ Len(log'[g]) = n + 1
      /\ \A j \in 1 .. n : log'[g][j] = log[g][j]
      /\ log'[g][n + 1] = p
      /\ log'[g] # << >>
      BY Grown
<1>2. DOMAIN log[g] = 1 .. n /\ DOMAIN log'[g] = 1 .. n + 1
      BY <1>1 DEF Typed
<1>3. log[g] = << >> <=> n = 0
      BY DEF Typed
<1> HIDE DEF n
<1>0. \A h \in Games : h # g => row'[h] = row[h] /\ log'[h] = log[h]
      BY <1>1
<1>4. OneWay
      BY DEF OneWay, Born
<1>5. Owing'
      <2> SUFFICES ASSUME NEW h \in Games
                   PROVE  /\ row'[h].status = "NONE" => log'[h] = << >>
                          /\ row'[h].status = "ACTIVE" /\ row'[h].pending =>
                                IF log'[h] = << >> THEN row'[h].human = "black"
                                ELSE log'[h][Len(log'[h])].by = "human"
          BY DEF Owing, Born, Owed, Active
      <2>1. CASE h = g
            BY <1>1, <2>1 DEF Ply
      <2>2. CASE h # g
            BY <1>0, <2>2, SMTT(60) DEF Owing, Born, Owed, Active
      <2> QED  BY <2>1, <2>2
<1>6. EngineAnswersTheHuman'
      <2> DEFINE InTurn(x, k) ==
                     /\ log'[x][k].on = [j \in 1 .. k - 1 |-> log'[x][j].uci]
                     /\ k > 1 => log'[x][k - 1].by = "human"
                     /\ k = 1 => row'[x].human = "black"
      <2> SUFFICES ASSUME NEW h \in Games, NEW i \in DOMAIN log'[h], log'[h][i].by = "engine"
                   PROVE  InTurn(h, i)
          BY DEF EngineAnswersTheHuman
      <2>1. CASE h # g
            <3>1. row'[h] = row[h] /\ log'[h] = log[h]
                  BY <1>0, <2>1
            <3>2. i \in DOMAIN log[h] /\ log[h][i].by = "engine"
                  BY <3>1
            <3>3. /\ log[h][i].on = [j \in 1 .. i - 1 |-> log[h][j].uci]
                  /\ i > 1 => log[h][i - 1].by = "human"
                  /\ i = 1 => row[h].human = "black"
                  BY <3>2 DEF EngineAnswersTheHuman
            <3>4. [j \in 1 .. i - 1 |-> log'[h][j].uci] = [j \in 1 .. i - 1 |-> log[h][j].uci]
                  BY <3>1
            <3> QED  BY <3>1, <3>3, <3>4
      <2>2. CASE h = g /\ i \in 1 .. n
            <3>1. /\ log[g][i].on = [j \in 1 .. i - 1 |-> log[g][j].uci]
                  /\ i > 1 => log[g][i - 1].by = "human"
                  /\ i = 1 => row[g].human = "black"
                  <4>1. log[g][i] = log'[g][i] /\ i \in DOMAIN log[g]
                        BY <1>1, <1>2, <2>2
                  <4>2. log[g][i].by = "engine"
                        BY <4>1, <2>2
                  <4> QED  BY <4>1, <4>2 DEF EngineAnswersTheHuman
            <3>2. i \in Int /\ \A j \in 1 .. i - 1 : j \in 1 .. n
                  BY <1>1, <2>2
            <3>3. [j \in 1 .. i - 1 |-> log'[g][j].uci] = [j \in 1 .. i - 1 |-> log[g][j].uci]
                  BY <1>1, <3>2
            <3>4. i > 1 => i - 1 \in 1 .. n
                  BY <1>1, <2>2
            <3>5. log'[g][i] = log[g][i] /\ (i > 1 => log'[g][i - 1] = log[g][i - 1])
                  BY <1>1, <2>2, <3>4
            <3>6. log'[g][i].on = [j \in 1 .. i - 1 |-> log'[g][j].uci]
                  BY <3>1, <3>3, <3>5
            <3>7. /\ i > 1 => log'[g][i - 1].by = "human"
                  /\ i = 1 => row'[g].human = "black"
                  BY <3>1, <3>5
            <3>8. InTurn(g, i)
                  BY <3>6, <3>7
            <3> HIDE DEF InTurn
            <3> QED  BY <2>2, <3>8
      <2>3. CASE h = g /\ i = n + 1
            <3>1. Owed(g) /\ p.on = History(g)
                  BY <1>1, <2>3
            <3>2. p.on = [j \in 1 .. n |-> log[g][j].uci]
                  BY <1>2, <3>1 DEF History
            <3>3. [j \in 1 .. i - 1 |-> log'[g][j].uci] = [j \in 1 .. n |-> log[g][j].uci]
                  BY <1>1, <2>3
            <3>4. IF n = 0 THEN row[g].human = "black" ELSE log[g][n].by = "human"
                  BY <1>3, <3>1 DEF Owing, n
            <3>5. i > 1 => log'[g][i - 1].by = "human"
                  BY <1>1, <2>3, <3>4
            <3>6. log'[g][i] = p /\ row'[g].human = row[g].human
                  BY <1>1, <2>3
            <3>7. p.on = [j \in 1 .. i - 1 |-> log'[g][j].uci]
                  BY <3>2, <3>3
            <3>8. i = 1 => row[g].human = "black"
                  BY <1>1, <2>3, <3>4
            <3>9. InTurn(g, i)
                  BY <3>5, <3>6, <3>7, <3>8
            <3> HIDE DEF InTurn
            <3> QED  BY <2>3, <3>9
      <2>4. i \in 1 .. n \/ i = n + 1 \/ h # g
            BY <1>1, <1>2
      <2> QED  BY <2>1, <2>2, <2>3, <2>4
<1>7. ActiveIsOpen'
      <2> SUFFICES ASSUME NEW h \in Games, row'[h].status = "ACTIVE"
                   PROVE  /\ ~Over(MovesOf(log'[h])) /\ ~Over(row'[h].fen)
                          /\ Repeats(MovesOf(log'[h])) => log'[h][Len(log'[h])].by = "human"
          BY DEF ActiveIsOpen, Active, History, MovesOf
      <2>1. CASE h = g
            <3>1. log'[g] \in Seq(Ply) /\ log'[g][Len(log'[g])] = p
                  BY <1>1
            <3>2. p.uci \notin Mates /\ ~Over(row'[g].fen)
                  BY <2>1
            <3>3. ~Over(MovesOf(log'[g]))
                  BY <3>1, <3>2, LastPly
            <3>4. Repeats(MovesOf(log'[g])) => p.by = "human"
                  BY <2>1 DEF Ply
            <3> QED  BY <2>1, <3>1, <3>2, <3>3, <3>4
      <2>2. CASE h # g
            <3>1. row'[h] = row[h] /\ log'[h] = log[h]
                  BY <1>0, <2>2
            <3>2. History(h) = MovesOf(log[h])
                  BY DEF History, MovesOf
            <3>3. /\ ~Over(History(h)) /\ ~Over(row[h].fen)
                  /\ Repeats(History(h)) => log[h][Len(log[h])].by = "human"
                  BY <3>1 DEF ActiveIsOpen, Active
            <3> QED  BY <3>1, <3>2, <3>3
      <2> QED  BY <2>1, <2>2
<1> QED  BY <1>4, <1>5, <1>6, <1>7

\* What is searched is still the start of what was played.
LEMMA StillSearched == ASSUME Typed, Searched, NEW g \in Games, NEW p \in Ply,
                              log' = [log EXCEPT ![g] = Append(@, p)], executor' = executor
                       PROVE  Searched'
<1> DEFINE x == executor.game
           k == Len(executor.hist)
<1> SUFFICES ASSUME Searching
             PROVE  /\ k <= Len(log'[x])
                    /\ executor.hist = [j \in 1 .. k |-> log'[x][j].uci]
    BY SMTT(60) DEF Searched, Searching
<1>1. /\ k <= Len(log[x]) /\ executor.hist = [j \in 1 .. k |-> log[x][j].uci]
      BY DEF Searched
<1>2. x \in Games /\ k \in Nat /\ Len(log[x]) \in Nat
      BY DEF Typed, Searching
<1>3. Len(log[x]) <= Len(log'[x]) /\ \A j \in 1 .. Len(log[x]) : log'[x][j] = log[x][j]
      <2>1. CASE x = g  BY <2>1, <1>2, Grown
      <2>2. CASE x # g
            <3>1. log'[x] = log[x]
                  BY <2>2, <1>2, Grown
            <3> QED  BY <3>1, <1>2
      <2> QED  BY <2>1, <2>2
<1>4. Len(log'[x]) \in Nat
      BY <1>2, Grown
<1> HIDE DEF x, k
<1>5. [j \in 1 .. k |-> log'[x][j].uci] = [j \in 1 .. k |-> log[x][j].uci]
      BY <1>1, <1>2, <1>3
<1> QED  BY <1>1, <1>2, <1>3, <1>4, <1>5

\* The checks that a move passes.
LEMMA NotRefused == ASSUME NEW c, c.read.row \in Rows, Refusal(c) = None
                    PROVE  /\ c.read.row.status = "ACTIVE" /\ ~c.read.row.pending
                           /\ c.read.row.rev = c.rev
                           /\ Turn(c.read.row.fen) = c.read.row.human
                           /\ c.uci \in Moves /\ ~Over(c.read.row.fen)
<1>1. 400 # None /\ 409 # None /\ 410 # None
      OBVIOUS
<1>2. c.read.row.pending \in BOOLEAN
      BY DEF Rows
<1> QED  BY <1>1, <1>2 DEF Refusal, Legal

LEMMA AcceptStep == ASSUME GameInv, NEW c \in calls, Accept(c)
                    PROVE  GameInv' /\ OneWay /\ Follows(c)
<1> DEFINE g == c.game
           r == c.read.row
           pos == Append(r.fen, c.uci)
           over == Over(pos)
           seen == [r EXCEPT !.fen = pos, !.rev = @ + 1, !.pending = ~over,
                             !.status = Outcome(over, @)]
           shown == Payload(g, seen, Len(log'[g]))
           p == [by |-> "human", uci |-> c.uci, on |-> r.fen]
           b == row[g].pending \/ ~over
           st == Outcome(over, row[g].status)
<1>1. /\ late' = late /\ executor' = executor
      /\ log' = [log EXCEPT ![g] = Append(@, p)]
      /\ calls' = Answered(c, 200, shown)
      BY DEF Accept
<1>2. /\ g \in Games /\ Born(g) /\ Typed /\ r \in Rows /\ Refusal(c) = None
      /\ c.op = "submit" /\ c.tok = g
      BY Deciding DEF Accept, GameInv
<1>3. /\ r.status = "ACTIVE" /\ c.uci \in Moves /\ r.fen \in Seq(Moves) /\ r.rev \in Nat
      BY <1>2, NotRefused DEF Rows
<1>4. pos \in Seq(Moves) /\ (over <=> c.uci \in Mates) /\ over \in BOOLEAN
      BY <1>3, LastMove DEF Over
<1>5. p \in Ply /\ p.by = "human" /\ p.uci = c.uci
      BY <1>3 DEF Ply
<1>6. /\ row \in [Games -> Rows] /\ row[g] \in Rows /\ row[g].pending \in BOOLEAN
      /\ row[g].status \in Terminal \cup {"ACTIVE"}
      BY <1>2 DEF Typed, Rows, Born
<1>7. row' = [row EXCEPT ![g].fen = pos, ![g].rev = r.rev + 1, ![g].pending = b,
                         ![g].status = st]
      BY <1>2, <1>6 DEF Accept
<1>8. /\ b \in BOOLEAN /\ st \in Terminal \cup {"ACTIVE"}
      /\ st = "ACTIVE" => ~over
      /\ row[g].status \in Terminal => st \in Terminal
      BY <1>6, Terminals DEF Outcome
<1>9. seen \in Rows /\ seen.status # "NONE"
      <2> DEFINE owed == ~over
                 left == Outcome(over, r.status)
      <2>1. left \in {"FINISHED", "ACTIVE"}
            BY <1>3 DEF Outcome
      <2>2. owed \in BOOLEAN
            OBVIOUS
      <2>3. seen = [r EXCEPT !.fen = pos, !.rev = r.rev + 1, !.pending = owed, !.status = left]
            BY <1>2 DEF Rows
      <2>5. r.rev + 1 \in Nat /\ left \in Terminal \cup {"NONE", "ACTIVE"}
            BY <1>3, <2>1, Terminals
      <2> HIDE DEF r, pos, over, owed, left, seen
      <2>4. /\ seen \in [status : Terminal \cup {"NONE", "ACTIVE"}, pending : BOOLEAN, rev : Nat,
                         fen : Seq(Moves), human : Colors]
            /\ seen.status = left
            BY <1>2, <1>4, <2>2, <2>3, <2>5 DEF Rows
      <2> QED  BY <2>1, <2>4 DEF Rows
<1> HIDE DEF pos, over, b, st, p, seen
<1>10. /\ row'[g].fen = pos /\ row'[g].status = st /\ row'[g].human = row[g].human
       /\ row'[g] \in Rows
       /\ \A h \in Games \ {g} : row'[h] = row[h]
      <2>1. row'[g] = [row[g] EXCEPT !.fen = pos, !.rev = r.rev + 1, !.pending = b,
                                     !.status = st]
            BY <1>2, <1>6, <1>7
      <2>2. \A h \in Games \ {g} : row'[h] = row[h]
            BY <1>6, <1>7
      <2>3. r.rev + 1 \in Nat
            BY <1>3
      <2> QED  BY <1>4, <1>6, <1>8, <2>1, <2>2, <2>3, ZenonT(60) DEF Rows
<1>11. row' \in [Games -> Rows]
      BY <1>2, <1>6, <1>7, <1>10
<1>12. OneWay /\ Owing' /\ EngineAnswersTheHuman' /\ ActiveIsOpen'
      BY <1>1, <1>2, <1>4, <1>5, <1>8, <1>10, <1>11, PlyStep, Terminals DEF GameInv, over
<1>13. Typed'
      BY <1>1, <1>2, <1>5, <1>11, <1>12, Grown DEF Typed, OneWay, Born
<1>14. Searched'
      BY <1>1, <1>2, <1>5, StillSearched DEF GameInv
<1>15. Len(log'[g]) \in Nat
      BY <1>1, <1>2, <1>5, Grown
<1>16. shown \in Views /\ shown.game = g
      BY <1>2, <1>9, <1>15, Payloads
<1>17. CallsOK' /\ Follows(c)
      <2> HIDE DEF shown
      <2>1. row'[shown.game].status # "NONE"
            BY <1>8, <1>10, <1>16, Terminals
      <2>2. CallsOK /\ Typed
            BY DEF GameInv
      <2>3. 200 \in Codes /\ shown \in Views \cup {None}
            BY <1>16, CodesBelow
      <2>4. /\ c.op # "create" => shown.game = c.game /\ c.tok = c.game
            /\ c.op = "resign" => shown.status = "RESIGNED"
            BY <1>2, <1>16
      <2> QED  BY <1>1, <1>12, <1>16, <2>1, <2>2, <2>3, <2>4, Answering
<1> QED  BY <1>12, <1>13, <1>14, <1>17 DEF GameInv

LEMMA ApiStep == ASSUME GameInv, NEW c \in calls, Api(c)
                 PROVE  GameInv' /\ OneWay /\ Follows(c)
BY UnauthorizedStep, GetStep, LoadStep, ExpireFirstStep, RefuseStep, AcceptStep, ResignStep,
   CreateStep DEF Api

-----------------------------------------------------------------------------
(* The executor, and time. *)

\* A step of the worker, or of time, that adds no ply and starts no search.
LEMMA QuietWork == ASSUME GameInv, QuietRows, log' = log, late' \in [Games -> BOOLEAN],
                          executor' \in {executor, Idle}, calls' = calls
                   PROVE  GameInv' /\ OneWay
<1>1. /\ OneWay /\ Typed' /\ Owing' /\ Searched'
      /\ EngineAnswersTheHuman' /\ ActiveIsOpen'
      BY QuietStep
<1>2. CallsOK'
      BY <1>1, StillOK DEF GameInv, CallsOK
<1> QED  BY <1>1, <1>2 DEF GameInv

LEMMA DeadlineStep == ASSUME GameInv, NEW g \in Games, DeadlinePasses(g)
                      PROVE  GameInv' /\ OneWay
<1>1. late' \in [Games -> BOOLEAN]
      BY DEF DeadlinePasses, GameInv, Typed
<1>2. QuietRows
      BY SameRows DEF DeadlinePasses, GameInv
<1> QED  BY <1>1, <1>2, QuietWork DEF DeadlinePasses

\* The executor takes a game that owes a reply.
LEMMA TakeStep == ASSUME GameInv, NEW g \in Games, FindStale(g) \/ Take(g) \/ SeeOver(g)
                  PROVE  GameInv' /\ OneWay
<1>1. UNCHANGED <<row, log, late, calls>> /\ Owed(g)
      BY DEF FindStale, Take, SeeOver, Serves, served
<1>2. Born(g) /\ Typed /\ row[g] \in Rows
      BY <1>1 DEF Owed, Active, Born, GameInv, Typed
<1>3. History(g) = MovesOf(log[g]) /\ log[g] \in Seq(Ply)
      BY <1>2 DEF History, MovesOf, Typed
<1>4. Typed' /\ Searched'
      <2>1. CASE FindStale(g) \/ SeeOver(g)
            <3>1. << >> \in Seq(Moves)
                  OBVIOUS
            <3>2. PICK at \in {"flush", "clear"} :
                     executor' = [at |-> at, game |-> g, rev |-> 0, hist |-> << >>]
                  BY <2>1 DEF FindStale, SeeOver, Idle
            <3> QED  BY <1>1, <1>2, <3>1, <3>2 DEF Typed, Searched, Searching, Born
      <2>2. CASE Take(g)
            <3>1. executor' = [at |-> "search", game |-> g, rev |-> row[g].rev,
                               hist |-> History(g)]
                  BY <2>2 DEF Take
            <3>2. /\ History(g) \in Seq(Moves) /\ Len(History(g)) = Len(log[g])
                  /\ History(g) = [j \in 1 .. Len(log[g]) |-> log[g][j].uci]
                  BY <1>3, Histories
            <3>3. Typed'
                  BY <1>1, <1>2, <3>1, <3>2 DEF Typed, Born, Rows
            <3>4. Len(log[g]) \in Nat
                  BY <1>3
            <3>5. Searched'
                  BY <1>1, <3>1, <3>2, <3>4 DEF Searched, Searching
            <3> QED  BY <3>3, <3>5
      <2> QED  BY <2>1, <2>2
<1>5. Owing' /\ EngineAnswersTheHuman' /\ ActiveIsOpen' /\ OneWay
      BY <1>1, <1>2, SameRows, QuietPlies DEF GameInv
<1>6. CallsOK'
      BY <1>1, <1>5, StillOK DEF GameInv, CallsOK
<1> QED  BY <1>4, <1>5, <1>6 DEF GameInv

\* It gives the game up, for a deadline, another writer or a failure.
LEMMA GiveUpStep == ASSUME GameInv,
                           \/ FlushStale \/ ClearFlag \/ LandCollides \/ LostToDeadline \/ LostRace
                           \/ EngineFails \/ WorkerCrash
                    PROVE  GameInv' /\ OneWay
<1>1. /\ UNCHANGED <<log, late, calls>> /\ executor' = Idle
      /\ Typed /\ late \in [Games -> BOOLEAN]
      BY DEF FlushStale, ClearFlag, LandCollides, LostToDeadline, LostRace, EngineFails,
             WorkerCrash, served, GameInv, Typed
<1>2. QuietRows
      <2>1. CASE LandCollides \/ LostRace \/ WorkerCrash
            BY <1>1, <2>1, SameRows DEF LandCollides, LostRace, WorkerCrash, served
      <2>2. CASE FlushStale \/ LostToDeadline
            <3>1. executor.game \in Games /\ Born(executor.game)
                  BY <1>1, <2>2 DEF Typed, FlushStale, LostToDeadline, Searching
            <3>2. ExpireRow(executor.game, TRUE)
                  BY <2>2 DEF FlushStale, LostToDeadline
            <3> QED  BY <1>1, <3>1, <3>2, Expired
      <2>3. CASE EngineFails
            <3>1. executor.game \in Games /\ Born(executor.game)
                  BY <1>1, <2>3 DEF Typed, EngineFails, Searching
            <3>2. row' = [row EXCEPT ![executor.game].status = "ENGINE_FAILED",
                                     ![executor.game].pending = FALSE]
                  BY <2>3 DEF EngineFails
            <3> QED  BY <1>1, <3>1, <3>2, Written, Terminals
      <2>4. CASE ClearFlag
            <3> DEFINE g == executor.game
            <3>1. g \in Games /\ Born(g) /\ row \in [Games -> Rows] /\ row[g] \in Rows
                  BY <1>1, <2>4 DEF Typed, ClearFlag
            <3>2. row' = [row EXCEPT ![g].pending = FALSE]
                  BY <2>4 DEF ClearFlag
            <3> HIDE DEF g
            <3>3. row'[g] = [row[g] EXCEPT !.pending = FALSE] /\ row'[g] \in Rows
                  BY <3>1, <3>2 DEF Rows
            <3>4. \A h \in Games \ {g} : row'[h] = row[h]
                  BY <3>1, <3>2
            <3>5. row' \in [Games -> Rows]
                  BY <3>1, <3>2, <3>3
            <3> QED  BY <3>1, <3>3, <3>4, <3>5 DEF QuietRows, QuietRow, Cleared
      <2> QED  BY <2>1, <2>2, <2>3, <2>4
<1> QED  BY <1>1, <1>2, QuietWork

\* The reply is played: nothing was played since the search was started.
LEMMA LandStep == ASSUME GameInv, NEW m \in Moves, Land(m)
                  PROVE  GameInv' /\ OneWay
<1> DEFINE g == executor.game
           pos == Append(executor.hist, m)
           st == Outcome(GameOver(pos), "ACTIVE")
           p == [by |-> "engine", uci |-> m, on |-> executor.hist]
<1>1. /\ late' = late /\ calls' = calls /\ executor' = Idle
      /\ log' = [log EXCEPT ![g] = Append(@, p)]
      /\ row' = [row EXCEPT ![g].fen = pos, ![g].pending = FALSE,
                            ![g].rev = executor.rev + 1, ![g].status = st]
      /\ Searching /\ Owed(g) /\ Len(log[g]) = Len(executor.hist)
      BY DEF Land, Owns, PlyFree
<1>2. /\ Typed /\ g \in Games /\ Born(g) /\ executor.hist \in Seq(Moves)
      /\ executor.rev \in Nat /\ row \in [Games -> Rows] /\ row[g] \in Rows
      /\ log[g] \in Seq(Ply)
      BY <1>1 DEF GameInv, Typed, Searching
<1>3. History(g) = executor.hist
      <2>1. History(g) = [j \in 1 .. Len(log[g]) |-> log[g][j].uci]
            <3>1. History(g) = MovesOf(log[g])
                  BY DEF History, MovesOf
            <3> QED  BY <1>2, <3>1, Histories
      <2>2. executor.hist = [j \in 1 .. Len(executor.hist) |-> log[g][j].uci]
            BY <1>1 DEF GameInv, Searched
      <2> QED  BY <1>1, <2>1, <2>2
<1>4. pos \in Seq(Moves) /\ (Over(pos) <=> m \in Mates)
      BY <1>2, LastMove
<1>5. st \in Terminal \cup {"ACTIVE"} /\ (st = "ACTIVE" => ~Over(pos) /\ ~Repeats(pos))
      BY Terminals DEF Outcome, GameOver
<1>6. p \in Ply /\ p.by = "engine" /\ p.uci = m /\ p.on = executor.hist
      BY <1>2 DEF Ply
<1> HIDE DEF pos, st, p
<1>7. /\ row'[g].fen = pos /\ row'[g].status = st /\ row'[g].human = row[g].human
      /\ ~row'[g].pending /\ row'[g] \in Rows
      <2>1. row'[g] = [row[g] EXCEPT !.fen = pos, !.pending = FALSE,
                                     !.rev = executor.rev + 1, !.status = st]
            BY <1>1, <1>2
      <2>2. executor.rev + 1 \in Nat
            BY <1>2
      <2> QED  BY <1>2, <1>4, <1>5, <2>1, <2>2 DEF Rows
<1>8. \A h \in Games \ {g} : row'[h] = row[h]
      BY <1>1, <1>2
<1>9. row' \in [Games -> Rows]
      BY <1>1, <1>2, <1>7
<1>13. MovesOf(log'[g]) = pos
      <2> DEFINE n == Len(log[g])
      <2>1. /\ log'[g] \in Seq(Ply) /\ Len(log'[g]) = n + 1 /\ n \in Nat
            /\ \A j \in 1 .. n : log'[g][j] = log[g][j]
            /\ log'[g][n + 1] = p
            BY <1>1, <1>2, <1>6, Grown
      <2>2. MovesOf(log'[g]) = [j \in 1 .. n + 1 |-> log'[g][j].uci]
            BY <2>1, Histories
      <2>3. executor.hist = [j \in 1 .. n |-> log[g][j].uci]
            BY <1>2, <1>3 DEF History
      <2>4. pos = [j \in 1 .. n + 1 |-> IF j <= n THEN executor.hist[j] ELSE m]
            BY <1>1, <1>2, <2>1 DEF pos
      <2> HIDE DEF g, n
      <2>5. \A j \in 1 .. n + 1 : log'[g][j].uci = IF j <= n THEN executor.hist[j] ELSE m
            BY <2>1, <2>3, <1>6
      <2> QED  BY <2>2, <2>4, <2>5
<1>10. OneWay /\ Owing' /\ EngineAnswersTheHuman' /\ ActiveIsOpen'
      <2>1. row'[g].status # "NONE"
            BY <1>5, <1>7, Terminals
      <2>2. row'[g].status = "ACTIVE" => /\ p.uci \notin Mates /\ ~Over(row'[g].fen)
                                         /\ ~Repeats(MovesOf(log'[g]))
            BY <1>4, <1>5, <1>6, <1>7, <1>13
      <2>3. Owed(g) /\ p.on = History(g) /\ row[g].status \notin Terminal
            BY <1>1, <1>3, <1>6, Terminals DEF Owed, Active
      <2> HIDE DEF g
      <2> QED  BY <1>1, <1>2, <1>6, <1>7, <1>8, <1>9, <2>1, <2>2, <2>3, PlyStep DEF GameInv
<1>11. Typed' /\ Searched'
      <2>1. log' \in [Games -> Seq(Ply)]
            BY <1>1, <1>2, <1>6, Grown
      <2>2. << >> \in Seq(Moves)
            OBVIOUS
      <2> QED  BY <1>1, <1>2, <1>9, <2>1, <2>2 DEF Typed, Searched, Searching, Idle
<1>12. CallsOK'
      BY <1>1, <1>2, <1>10, StillOK DEF GameInv, CallsOK
<1> QED  BY <1>10, <1>11, <1>12 DEF GameInv

LEMMA ServeStep == ASSUME GameInv, Serve \/ WorkerCrash
                   PROVE  GameInv' /\ OneWay /\ calls' = calls
<1>1. GameInv' /\ OneWay
      BY TakeStep, GiveUpStep, LandStep DEF Serve, Answer
<1>2. calls' = calls
      BY DEF Serve, Answer, FindStale, Take, SeeOver, FlushStale, ClearFlag, Land, LandCollides, LostToDeadline,
             LostRace, EngineFails, WorkerCrash
<1> QED  BY <1>1, <1>2

\* Nothing happened yet.
LEMMA GameInit == ServerInit => GameInv
<1> SUFFICES ASSUME ServerInit  PROVE GameInv
    OBVIOUS
<1>1. << >> \in Seq(Moves) /\ << >> \in Seq(Ply)
      OBVIOUS
<1>2. Typed
      <2>1. NoRow \in Rows /\ Idle.hist = << >>
            BY <1>1 DEF NoRow, Rows, Colors, Idle
      <2> QED  BY <1>1, <2>1 DEF ServerInit, Typed, Idle
<1>3. CallsOK /\ Searched
      BY DEF ServerInit, CallsOK, Searched, Searching, Idle
<1>4. Owing /\ EngineAnswersTheHuman /\ ActiveIsOpen
      BY DEF ServerInit, Owing, EngineAnswersTheHuman, ActiveIsOpen, Owed, Active, Born, NoRow
<1> QED  BY <1>2, <1>3, <1>4 DEF GameInv

=============================================================================
