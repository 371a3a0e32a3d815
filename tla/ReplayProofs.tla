---------------------------- MODULE ReplayProofs ----------------------------
(***************************************************************************)
(* What the replay page computes, for games of any length that start with  *)
(* either colour at any move, and any analysis of them: the numbered rows, *)
(* the marks, the error buttons and the biggest swing.                     *)
(*                                                                         *)
(* Recursive functions and folds are unfolded by induction, written out as *)
(* the least number for which a statement fails (Least).                   *)
(***************************************************************************)
EXTENDS ReplayView, FiniteSetTheorems, WellFoundedInduction, SequenceTheorems, TLAPS

USE ReplayAssumption

-----------------------------------------------------------------------------
(* Least and greatest numbers. *)

LEMMA Least ==
  ASSUME NEW T, T \subseteq Nat, T # {}
  PROVE  \E x \in T : \A y \in T : x <= y
<1>1. PICK x \in T : \A y \in T : ~(<<y, x>> \in OpToRel(<, Nat))
  BY NatLessThanWellFounded, WFMin
<1>2. \A y \in T : ~(y < x)
  BY <1>1, Zenon DEF OpToRel
<1>. QED
  BY <1>2

LEMMA MinOf ==
  ASSUME NEW T, T \subseteq Nat, T # {}
  PROVE  Min(T) \in T /\ \A y \in T : Min(T) <= y
BY Least DEF Min

LEMMA MaxOf ==
  ASSUME NEW n \in Nat, NEW T, T \subseteq 0 .. n, T # {}
  PROVE  Max(T) \in T /\ \A y \in T : y <= Max(T)
<1> DEFINE R == {n - y : y \in T}
<1>1. PICK x \in R : \A y \in R : x <= y
  <2>1. \A y \in T : n - y \in Nat
    OBVIOUS
  <2>2. R \subseteq Nat
    BY <2>1
  <2>3. R # {}
    OBVIOUS
  <2>. QED
    BY <2>2, <2>3, Least
<1>2. PICK m \in T : x = n - m
  BY <1>1
<1>3. \A y \in T : n - m <= n - y
  BY <1>1, <1>2
<1>4. \A y \in T : m >= y
  BY <1>3
<1>. QED
  BY <1>4 DEF Max

\* What a fold that takes out the greatest element computes, for every set.
Folds(g, T, base, n, step) ==
    /\ g \in [SUBSET (1 .. n) -> T]
    /\ \A s \in SUBSET (1 .. n) :
          g[s] = IF s = {} THEN base ELSE step[Max(s)][g[s \ {Max(s)}]]

LEMMA FoldExists ==
  ASSUME NEW T, NEW base \in T, NEW n \in Nat, NEW step \in [1 .. n -> [T -> T]]
  PROVE  \E g : Folds(g, T, base, n, step)
<1> DEFINE Unfolds(g, k) == \A s \in SUBSET (1 .. k) :
               g[s] = IF s = {} THEN base ELSE step[Max(s)][g[s \ {Max(s)}]]
           Holds(k) == \E g \in [SUBSET (1 .. k) -> T] : Unfolds(g, k)
           Bad == {k \in 0 .. n : ~Holds(k)}
<1>1. Holds(0)
  <2>1. [s \in SUBSET (1 .. 0) |-> base] \in [SUBSET (1 .. 0) -> T]
    OBVIOUS
  <2>2. Unfolds([s \in SUBSET (1 .. 0) |-> base], 0)
    OBVIOUS
  <2>. QED
    BY <2>1, <2>2
<1>2. ASSUME NEW k \in 0 .. n - 1, Holds(k) PROVE Holds(k + 1)
  <2>1. PICK g \in [SUBSET (1 .. k) -> T] : Unfolds(g, k)
    BY <1>2
  <2> DEFINE h == [s \in SUBSET (1 .. k + 1) |->
                       IF k + 1 \in s THEN step[k + 1][g[s \ {k + 1}]] ELSE g[s]]
  <2>2. \A s \in SUBSET (1 .. k + 1) :
            /\ k + 1 \in s => s \ {k + 1} \in SUBSET (1 .. k)
            /\ k + 1 \notin s => s \in SUBSET (1 .. k)
    OBVIOUS
  <2>3. h \in [SUBSET (1 .. k + 1) -> T]
    <3>1. \A s \in SUBSET (1 .. k + 1) :
              (IF k + 1 \in s THEN step[k + 1][g[s \ {k + 1}]] ELSE g[s]) \in T
      BY <2>2
    <3>. QED
      BY <3>1
  <2>4. Unfolds(h, k + 1)
    <3> SUFFICES ASSUME NEW s \in SUBSET (1 .. k + 1)
                 PROVE  h[s] = IF s = {} THEN base ELSE step[Max(s)][h[s \ {Max(s)}]]
      OBVIOUS
    <3>1. CASE k + 1 \in s
      <4>1. s \subseteq 0 .. k + 1 /\ k + 1 \in Nat
        OBVIOUS
      <4>2. Max(s) \in s /\ \A y \in s : y <= Max(s)
        BY <3>1, <4>1, MaxOf
      <4>3. Max(s) = k + 1
        BY <3>1, <4>2, k + 1 \in Nat
      <4>4. h[s \ {k + 1}] = g[s \ {k + 1}]
        BY <2>2, <3>1
      <4>5. h[s] = step[k + 1][g[s \ {k + 1}]]
        BY <3>1
      <4>. QED
        BY <3>1, <4>3, <4>4, <4>5
    <3>2. CASE k + 1 \notin s
      <4>1. s \in SUBSET (1 .. k) /\ h[s] = g[s]
        BY <2>2, <3>2
      <4>2. h[s \ {Max(s)}] = g[s \ {Max(s)}]
        BY <2>2, <3>2
      <4>3. g[s] = IF s = {} THEN base ELSE step[Max(s)][g[s \ {Max(s)}]]
        BY <2>1, <4>1
      <4>. QED
        BY <4>1, <4>2, <4>3
    <3>. QED
      BY <3>1, <3>2
  <2>. QED
    BY <2>3, <2>4
<1>3. Bad = {}
  <2> HIDE DEF Holds
  <2>1. SUFFICES ASSUME Bad # {} PROVE FALSE
    OBVIOUS
  <2>2. Bad \subseteq Nat
    OBVIOUS
  <2>3. PICK k \in Bad : \A j \in Bad : k <= j
    BY <2>1, <2>2, Least
  <2>4. k # 0 /\ k - 1 \in 0 .. n - 1 /\ k - 1 \notin Bad
    BY <1>1, <2>3
  <2>5. Holds(k - 1)
    BY <2>4
  <2>6. Holds((k - 1) + 1)
    BY <1>2, <2>4, <2>5
  <2>7. (k - 1) + 1 = k
    BY <2>3
  <2>. QED
    BY <2>3, <2>6, <2>7
<1>. QED
  <2>1. n \in 0 .. n
    OBVIOUS
  <2>2. Holds(n)
    BY <1>3, <2>1
  <2>. QED
    BY <2>2 DEF Folds

-----------------------------------------------------------------------------
(* Move numbers. *)

\* The game on the page is one the server has, or none.
GameOK == game \in Pgns \cup {NoGame}

LEMMA GameType ==
  ASSUME GameOK
  PROVE  game.side \in {"w", "b"} /\ game.full \in Nat \ {0} /\ N \in Nat
BY DEF GameOK, NoGame, N

\* Two plies make a move; a game that starts with Black has one ply in its
\* first move.
Num(i) == IF game.side = "w" THEN game.full + (i - 1) \div 2 ELSE game.full + i \div 2

LEMMA Halves ==
  ASSUME NEW i \in Nat
  PROVE  /\ i \div 2 \in Nat /\ i % 2 \in {0, 1}
         /\ i % 2 = i - 2 * (i \div 2)
<1>1. i \div 2 \in Nat
  OBVIOUS
<1>2. i % 2 \in {0, 1}
  OBVIOUS
<1>3. i % 2 = i - 2 * (i \div 2)
  OBVIOUS
<1>. QED
  BY <1>1, <1>2, <1>3

LEMMA SameColor ==
  ASSUME GameOK, NEW i \in Nat, NEW k \in Nat
  PROVE  Color(k) = Color(i) <=> k % 2 = i % 2
BY GameType, Halves DEF Color, Other

\* How many plies of the same colour come before ply i.
Same(i) == {k \in 1 .. i - 1 : Color(k) = Color(i)}

LEMMA CountSame ==
  ASSUME GameOK
  PROVE  \A i \in Nat \ {0} : IsFiniteSet(Same(i)) /\ Cardinality(Same(i)) = (i - 1) \div 2
<1> DEFINE Counted(i) == IsFiniteSet(Same(i)) /\ Cardinality(Same(i)) = (i - 1) \div 2
           Bad == {i \in Nat \ {0} : ~Counted(i)}
<1>1. Counted(1)
  <2>1. Same(1) = {}
    BY DEF Same
  <2>. QED
    BY <2>1, FS_EmptySet
<1>2. Counted(2)
  <2>1. Same(2) = {}
    BY SameColor DEF Same
  <2>. QED
    BY <2>1, FS_EmptySet
<1>3. ASSUME NEW i \in Nat \ {0}, Counted(i) PROVE Counted(i + 2)
  <2>1. Same(i + 2) = Same(i) \cup {i}
    <3>1. \A k \in Nat : Color(k) = Color(i + 2) <=> k % 2 = (i + 2) % 2
      BY SameColor
    <3>2. \A k \in Nat : Color(k) = Color(i) <=> k % 2 = i % 2
      BY SameColor
    <3>3. (i + 2) % 2 = i % 2 /\ (i + 1) % 2 # i % 2
      OBVIOUS
    <3>. QED
      BY <3>1, <3>2, <3>3 DEF Same
  <2>2. i \notin Same(i)
    BY DEF Same
  <2>3. IsFiniteSet(Same(i + 2)) /\ Cardinality(Same(i + 2)) = Cardinality(Same(i)) + 1
    <3>1. IsFiniteSet(Same(i))
      BY <1>3
    <3>2. /\ IsFiniteSet(Same(i) \cup {i})
          /\ Cardinality(Same(i) \cup {i}) = Cardinality(Same(i)) + 1
      BY <2>2, <3>1, FS_AddElement
    <3>. QED
      BY <2>1, <3>2
  <2>. QED
    BY <1>3, <2>3
<1> HIDE DEF Counted
<1>4. Bad = {}
  <2>1. SUFFICES ASSUME Bad # {} PROVE FALSE
    OBVIOUS
  <2>2. PICK i \in Bad : \A j \in Bad : i <= j
    BY <2>1, Least
  <2>3. i \notin {1, 2} /\ i - 2 \in Nat \ {0} /\ i - 2 \notin Bad
    BY <1>1, <1>2, <2>2
  <2>4. Counted((i - 2) + 2)
    BY <1>3, <2>3
  <2>. QED
    BY <2>2, <2>4
<1>5. \A i \in Nat \ {0} : Counted(i)
  BY <1>4
<1>. QED
  BY <1>5 DEF Counted

LEMMA NumberOf ==
  ASSUME GameOK, NEW i \in Nat \ {0}
  PROVE  MoveNumber(i) = Num(i)
<1>1. Cardinality(Same(i)) = (i - 1) \div 2
  BY CountSame
<1>2. MoveNumber(i) = Before(Color(i)) + Cardinality(Same(i)) + 1
  BY DEF MoveNumber, Same
<1>3. CASE game.side = "w"
  BY <1>1, <1>2, <1>3, GameType DEF Before, Num
<1>4. CASE game.side = "b" /\ i % 2 = 1
  BY <1>1, <1>2, <1>4, GameType, Halves DEF Before, Num, Color
<1>5. CASE game.side = "b" /\ i % 2 = 0
  BY <1>1, <1>2, <1>5, GameType, Halves DEF Before, Num, Color, Other
<1>. QED
  BY <1>3, <1>4, <1>5, GameType, Halves

\* The counter of the FEN: one more after each move of Black.
LEMMA NextNum ==
  ASSUME GameOK, NEW i \in Nat \ {0, 1}
  PROVE  Num(i) = Num(i - 1) + (IF Color(i - 1) = "b" THEN 1 ELSE 0)
<1>1. i - 1 \in Nat
  OBVIOUS
<1>2. CASE game.side = "w"
  BY <1>1, <1>2, GameType, Halves DEF Num, Color, Other
<1>3. CASE game.side = "b"
  BY <1>1, <1>3, GameType, Halves DEF Num, Color, Other
<1>. QED
  BY <1>2, <1>3, GameType

LEMMA FirstNum == GameOK => Num(1) = game.full
BY GameType DEF Num

LEMMA FenNumberIs ==
  ASSUME GameOK
  PROVE  \A i \in Plies : FenNumber[i] = Num(i)
<1> DEFINE Unfolds(g) == g = [i \in Plies |->
               IF i = 1 THEN game.full
               ELSE g[i - 1] + (IF Color(i - 1) = "b" THEN 1 ELSE 0)]
           Bad == {i \in Plies : FenNumber[i] # Num(i)}
<1>1. FenNumber = CHOOSE g : Unfolds(g)
  BY Zenon DEF FenNumber
<1>2. Unfolds([i \in Plies |-> Num(i)])
  <2> DEFINE h == [i \in Plies |-> Num(i)]
  <2>1. \A i \in Plies : Num(i) = IF i = 1 THEN game.full
                ELSE h[i - 1] + (IF Color(i - 1) = "b" THEN 1 ELSE 0)
    <3> SUFFICES ASSUME NEW i \in Plies, i # 1
                 PROVE  Num(i) = h[i - 1] + (IF Color(i - 1) = "b" THEN 1 ELSE 0)
      BY FirstNum
    <3>1. i \in Nat \ {0, 1} /\ i - 1 \in Plies
      BY GameType DEF Plies
    <3>. QED
      BY <3>1, NextNum
  <2>. QED
    BY <2>1
<1>3. Unfolds(FenNumber)
  BY <1>1, <1>2
<1>4. Bad = {}
  <2>1. SUFFICES ASSUME Bad # {} PROVE FALSE
    OBVIOUS
  <2>2. Bad \subseteq Nat
    BY GameType DEF Plies
  <2>3. PICK i \in Bad : \A j \in Bad : i <= j
    BY <2>1, <2>2, Least
  <2>4. i # 1
    BY <1>3, <2>3, FirstNum
  <2>5. i \in Nat \ {0, 1} /\ i - 1 \in Plies /\ i - 1 \notin Bad
    BY <2>3, <2>4, GameType DEF Plies
  <2>6. FenNumber[i] = FenNumber[i - 1] + (IF Color(i - 1) = "b" THEN 1 ELSE 0)
    BY <1>3, <2>3, <2>4
  <2>7. FenNumber[i] = Num(i)
    BY <2>5, <2>6, NextNum
  <2>. QED
    BY <2>3, <2>7
<1>. QED
  BY <1>4

-----------------------------------------------------------------------------
(* The rows of the move list. *)

RowSet == [n : Int, w : Nat, b : Nat]

\* White's ply of row r, 0 when the game starts with Black; Black's is next.
White(r) == IF game.side = "w" THEN 2 * r - 1 ELSE 2 * r - 2
RowAt(k, r) == [n |-> game.full + r - 1,
                w |-> IF White(r) <= k THEN White(r) ELSE 0,
                b |-> IF White(r) + 1 <= k THEN White(r) + 1 ELSE 0]
Count(k) == IF k = 0 THEN 0 ELSE Num(k) - game.full + 1
\* The rows after k plies.
After(k) == [r \in 1 .. Count(k) |-> RowAt(k, r)]

LEMMA SameRow ==
  ASSUME NEW x \in RowSet, NEW y \in RowSet, x.n = y.n, x.w = y.w, x.b = y.b
  PROVE  x = y
BY DEF RowSet

LEMMA InRowIs ==
  ASSUME GameOK, NEW row \in RowSet, NEW i \in Nat
  PROVE  /\ InRow(row, i) \in RowSet /\ InRow(row, i).n = row.n
         /\ Color(i) = "w" => InRow(row, i).w = i /\ InRow(row, i).b = row.b
         /\ Color(i) = "b" => InRow(row, i).b = i /\ InRow(row, i).w = row.w
<1>1. Color(i) \in {"w", "b"}
  BY GameType DEF Color, Other
<1>2. CASE Color(i) = "w"
  <2>1. InRow(row, i) = [row EXCEPT !.w = i]
    BY <1>2 DEF InRow, RowSet
  <2>. QED
    BY <1>2, <2>1 DEF RowSet
<1>3. CASE Color(i) = "b"
  <2>1. InRow(row, i) = [row EXCEPT !.b = i]
    BY <1>3 DEF InRow, RowSet
  <2>. QED
    BY <1>3, <2>1 DEF RowSet
<1>. QED
  BY <1>1, <1>2, <1>3

LEMMA NewRowIs ==
  ASSUME GameOK, NEW i \in Nat \ {0}
  PROVE  /\ NewRow(i) \in RowSet /\ NewRow(i).n = Num(i)
         /\ NewRow(i).w = 0 /\ NewRow(i).b = 0
<1>1. Num(i) \in Int
  BY GameType DEF Num
<1>. QED
  BY <1>1, NumberOf DEF NewRow, RowSet

\* The row a ply goes to.
LEMMA FoundAt ==
  ASSUME GameOK, NEW rows \in Seq(RowSet), NEW i \in Nat \ {0}
  PROVE  LET at == SelectInSeq(rows, LAMBDA row : row.n = MoveNumber(i)) IN
         /\ at \in 0 .. Len(rows)
         /\ at = 0 => \A r \in 1 .. Len(rows) : rows[r].n # Num(i)
         /\ at # 0 => rows[at].n = Num(i)
<1> DEFINE here == {r \in 1 .. Len(rows) : rows[r].n = MoveNumber(i)}
           at == SelectInSeq(rows, LAMBDA row : row.n = MoveNumber(i))
<1>1. at = IF here # {} THEN Min(here) ELSE 0
  BY Zenon DEF SelectInSeq
<1>2. here \subseteq Nat /\ Len(rows) \in Nat
  BY LenProperties
<1>3. here # {} => Min(here) \in here
  BY <1>2, MinOf
<1> HIDE DEF at
<1>4. MoveNumber(i) = Num(i)
  BY NumberOf
<1>5. /\ at \in 0 .. Len(rows)
      /\ at = 0 => \A r \in 1 .. Len(rows) : rows[r].n # Num(i)
      /\ at # 0 => rows[at].n = Num(i)
  BY <1>1, <1>2, <1>3, <1>4
<1>. QED
  BY <1>5 DEF at

LEMMA PlaceType ==
  ASSUME GameOK, NEW rows \in Seq(RowSet), NEW i \in Nat \ {0}
  PROVE  Place(rows, i) \in Seq(RowSet)
<1> DEFINE at == SelectInSeq(rows, LAMBDA row : row.n = MoveNumber(i))
<1>1. at \in 0 .. Len(rows)
  BY FoundAt
<1>2. Place(rows, i) = IF at = 0 THEN Append(rows, InRow(NewRow(i), i))
                       ELSE [rows EXCEPT ![at] = InRow(@, i)]
  BY DEF Place
<1> HIDE DEF at
<1>3. CASE at = 0
  <2>1. InRow(NewRow(i), i) \in RowSet
    BY NewRowIs, InRowIs
  <2>. QED
    BY <1>2, <1>3, <2>1, AppendProperties
<1>4. CASE at # 0
  <2>1. at \in 1 .. Len(rows) /\ rows[at] \in RowSet
    BY <1>1, <1>4, LenProperties, ElementOfSeq
  <2>2. InRow(rows[at], i) \in RowSet
    BY <2>1, InRowIs
  <2>3. [rows EXCEPT ![at] = InRow(rows[at], i)] \in Seq(RowSet)
    BY <2>1, <2>2, ExceptSeq
  <2>. QED
    BY <1>2, <1>4, <2>3
<1>. QED
  BY <1>3, <1>4

\* The rows are built by placing the plies in playing order.
LEMMA RowsFold ==
  ASSUME GameOK
  PROVE  \E it : /\ Rows = it[Plies]
                 /\ \A s \in SUBSET Plies :
                        it[s] = IF s = {} THEN << >> ELSE Place(it[s \ {Max(s)}], Max(s))
<1> DEFINE seq == [i \in Plies |-> i]
           Unfolds(it) == it = [s \in SUBSET DOMAIN seq |->
               IF s = {} THEN << >> ELSE LET x == Max(s) IN Place(it[s \ {x}], seq[x])]
           it == CHOOSE f : Unfolds(f)
<1>1. Rows = it[DOMAIN seq]
  BY Zenon DEF Rows, FoldLeft, MapThenFoldSet
<1>2. N \in Nat /\ Plies = 1 .. N /\ DOMAIN seq = Plies
  BY GameType DEF Plies
<1>3. \A s \in SUBSET Plies : s # {} => Max(s) \in s /\ seq[Max(s)] = Max(s)
  <2>1. \A s \in SUBSET Plies : s \subseteq 0 .. N
    BY <1>2
  <2>. QED
    BY <1>2, <2>1, MaxOf
<1>4. \E f : Unfolds(f)
  <2> DEFINE step == [x \in 1 .. N |-> [t \in Seq(RowSet) |-> Place(t, x)]]
  <2>1. step \in [1 .. N -> [Seq(RowSet) -> Seq(RowSet)]]
    BY <1>2, PlaceType
  <2>2. << >> \in Seq(RowSet)
    BY EmptySeq
  <2>3. PICK g : Folds(g, Seq(RowSet), << >>, N, step)
    <3> HIDE DEF step
    <3>1. N \in Nat
      BY <1>2
    <3>. QED
      BY <2>1, <2>2, <3>1, FoldExists
  <2>4. \A s \in SUBSET Plies :
            g[s] = IF s = {} THEN << >> ELSE Place(g[s \ {Max(s)}], seq[Max(s)])
    <3> SUFFICES ASSUME NEW s \in SUBSET Plies, s # {}
                 PROVE  g[s] = Place(g[s \ {Max(s)}], seq[Max(s)])
      BY <1>2, <2>3 DEF Folds
    <3>1. Max(s) \in 1 .. N /\ g[s \ {Max(s)}] \in Seq(RowSet)
      BY <1>2, <1>3, <2>3 DEF Folds
    <3>2. step[Max(s)][g[s \ {Max(s)}]] = Place(g[s \ {Max(s)}], Max(s))
      BY <3>1
    <3>. QED
      BY <1>2, <1>3, <2>3, <3>2 DEF Folds
  <2>5. g = [s \in SUBSET Plies |->
                 IF s = {} THEN << >> ELSE Place(g[s \ {Max(s)}], seq[Max(s)])]
    BY <1>2, <2>3, <2>4 DEF Folds
  <2>. QED
    BY <1>2, <2>5
<1>5. Unfolds(it)
  BY <1>4
<1>6. \A s \in SUBSET Plies :
          it[s] = IF s = {} THEN << >> ELSE Place(it[s \ {Max(s)}], Max(s))
  <2> HIDE DEF it
  <2>. QED
    BY <1>2, <1>3, <1>5
<1>. QED
  BY <1>1, <1>2, <1>6

LEMMA UpTo ==
  ASSUME NEW k \in Nat \ {0}
  PROVE  1 .. k # {} /\ Max(1 .. k) = k /\ (1 .. k) \ {k} = 1 .. k - 1
<1>1. 1 .. k # {} /\ 1 .. k \subseteq 0 .. k /\ k \in 1 .. k
  BY SMTT(60)
<1>2. Max(1 .. k) \in 1 .. k /\ \A y \in 1 .. k : y <= Max(1 .. k)
  BY <1>1, MaxOf
<1>3. Max(1 .. k) = k
  BY <1>1, <1>2
<1>4. (1 .. k) \ {k} = 1 .. k - 1
  OBVIOUS
<1>. QED
  BY <1>1, <1>3, <1>4

\* White's plies open rows; Black's do when the game starts with Black.
LEMMA PlaceOf ==
  ASSUME GameOK, NEW k \in Nat \ {0}
  PROVE  /\ Count(k) \in Nat \ {0} /\ Count(k - 1) \in Nat
         /\ Num(k) = game.full + Count(k) - 1
         /\ Color(k) = "w" => White(Count(k)) = k
         /\ Color(k) = "b" => White(Count(k)) + 1 = k
         /\ Count(k - 1) = IF Color(k) = "w" \/ k = 1 THEN Count(k) - 1 ELSE Count(k)
<1> DEFINE h == k \div 2
           g == (k - 1) \div 2
           f == ((k - 1) - 1) \div 2
<1>1. /\ h \in Nat /\ g \in Nat /\ f \in Int
      /\ k % 2 = 1 => k = 2 * h + 1 /\ g = h /\ (k # 1 => f = g - 1)
      /\ k % 2 # 1 => k = 2 * h /\ g = h - 1 /\ f = g /\ k # 1
  OBVIOUS
<1>2. CASE game.side = "w"
  <2>1. /\ Num(k) = game.full + g
        /\ k # 1 => Num(k - 1) = game.full + f
        /\ Color(k) = IF k % 2 = 1 THEN "w" ELSE "b"
    BY <1>2 DEF Num, Color, Other
  <2>2. /\ Count(k) = g + 1
        /\ Count(k - 1) = IF k = 1 THEN 0 ELSE f + 1
    <3> HIDE DEF g, f
    <3>. QED
      BY <1>1, <2>1, GameType DEF Count
  <2>3. White(Count(k)) = 2 * g + 1
    BY <1>1, <1>2, <2>2 DEF White
  <2> HIDE DEF h, g, f
  <2>. QED
    BY <1>1, <2>1, <2>2, <2>3, GameType
<1>3. CASE game.side = "b"
  <2>1. /\ Num(k) = game.full + h
        /\ k # 1 => Num(k - 1) = game.full + g
        /\ Color(k) = IF k % 2 = 1 THEN "b" ELSE "w"
    BY <1>3 DEF Num, Color, Other
  <2>2. /\ Count(k) = h + 1
        /\ Count(k - 1) = IF k = 1 THEN 0 ELSE g + 1
    <3> HIDE DEF h, g
    <3>. QED
      BY <1>1, <2>1, GameType DEF Count
  <2>3. White(Count(k)) = 2 * h
    BY <1>1, <1>3, <2>2 DEF White
  <2> HIDE DEF h, g, f
  <2>. QED
    BY <1>1, <2>1, <2>2, <2>3, GameType
<1>. QED
  BY <1>2, <1>3, GameType

LEMMA RowAtType ==
  ASSUME GameOK, NEW k \in Nat, NEW r \in Nat \ {0}
  PROVE  RowAt(k, r) \in RowSet /\ White(r) \in Nat
BY GameType DEF RowAt, RowSet, White

LEMMA AfterType ==
  ASSUME GameOK, NEW k \in Nat
  PROVE  /\ After(k) \in Seq(RowSet) /\ Len(After(k)) = Count(k) /\ Count(k) \in Nat
         /\ \A r \in 1 .. Count(k) : After(k)[r] = RowAt(k, r)
<1>1. Count(k) \in Nat
  BY PlaceOf DEF Count
<1>2. After(k) \in [1 .. Count(k) -> RowSet]
  BY <1>1, RowAtType DEF After
<1>3. After(k) \in Seq(RowSet) /\ Len(After(k)) = Count(k)
  BY <1>1, <1>2, SeqDef, LenProperties
<1>. QED
  BY <1>1, <1>3 DEF After

\* Earlier rows are full; the last one gets the ply.
LEMMA RowGrows ==
  ASSUME GameOK, NEW k \in Nat \ {0}
  PROVE  /\ \A r \in 1 .. Count(k) - 1 : RowAt(k - 1, r) = RowAt(k, r)
         /\ InRow(RowAt(k - 1, Count(k)), k) = RowAt(k, Count(k))
         /\ Count(k - 1) # Count(k) => InRow(NewRow(k), k) = RowAt(k, Count(k))
<1> DEFINE c == Count(k)
<1>1. /\ c \in Nat \ {0} /\ Num(k) = game.full + c - 1
      /\ Color(k) = "w" => White(c) = k
      /\ Color(k) = "b" => White(c) + 1 = k
      /\ Count(k - 1) = IF Color(k) = "w" \/ k = 1 THEN c - 1 ELSE c
  BY PlaceOf
<1>2. Color(k) \in {"w", "b"} /\ k - 1 \in Nat
  BY GameType DEF Color, Other
<1> HIDE DEF c
<1>3. ASSUME NEW r \in 1 .. c - 1 PROVE RowAt(k - 1, r) = RowAt(k, r)
  <2>1. White(r) + 1 <= k - 1 /\ White(r) <= k - 1
    BY <1>1, <1>2, GameType DEF White
  <2>. QED
    BY <1>1, <2>1, GameType DEF RowAt, White
<1>4. InRow(RowAt(k - 1, c), k) = RowAt(k, c)
  <2> DEFINE x == InRow(RowAt(k - 1, c), k)
             y == RowAt(k, c)
  <2>1. RowAt(k - 1, c) \in RowSet /\ y \in RowSet /\ White(c) \in Nat
    BY <1>1, <1>2, RowAtType
  <2>2. x \in RowSet /\ x.n = RowAt(k - 1, c).n
        /\ (Color(k) = "w" => x.w = k /\ x.b = RowAt(k - 1, c).b)
        /\ (Color(k) = "b" => x.b = k /\ x.w = RowAt(k - 1, c).w)
    BY <2>1, InRowIs
  <2> HIDE DEF x
  <2>3. x.n = y.n /\ x.w = y.w /\ x.b = y.b
    <3>1. x.n = y.n
      BY <2>2 DEF RowAt
    <3>2. CASE Color(k) = "w"
      BY <1>1, <2>1, <2>2, <3>1, <3>2 DEF RowAt
    <3>3. CASE Color(k) = "b"
      BY <1>1, <2>1, <2>2, <3>1, <3>3 DEF RowAt
    <3>. QED
      BY <1>2, <3>2, <3>3
  <2>4. x = y
    BY <2>1, <2>2, <2>3, SameRow
  <2>. QED
    BY <2>4 DEF x
<1>5. ASSUME Count(k - 1) # c PROVE InRow(NewRow(k), k) = RowAt(k, c)
  <2> DEFINE x == InRow(NewRow(k), k)
             y == RowAt(k, c)
  <2>1. y \in RowSet /\ White(c) \in Nat
    BY <1>1, <1>2, RowAtType
  <2>2. NewRow(k) \in RowSet /\ NewRow(k).n = Num(k) /\ NewRow(k).w = 0 /\ NewRow(k).b = 0
    BY NewRowIs
  <2>3. x \in RowSet /\ x.n = NewRow(k).n
        /\ (Color(k) = "w" => x.w = k /\ x.b = NewRow(k).b)
        /\ (Color(k) = "b" => x.b = k /\ x.w = NewRow(k).w)
    BY <2>2, InRowIs
  <2> HIDE DEF x
  <2>4. x.n = y.n /\ x.w = y.w /\ x.b = y.b
    <3>1. x.n = y.n
      BY <1>1, <2>2, <2>3 DEF RowAt
    <3>2. CASE Color(k) = "w"
      BY <1>1, <2>1, <2>2, <2>3, <3>1, <3>2 DEF RowAt
    <3>3. CASE Color(k) = "b"
      <4>1. k = 1 /\ White(c) = 0
        BY <1>1, <1>5, <2>1, <3>3
      <4>. QED
        BY <1>1, <2>2, <2>3, <3>1, <3>3, <4>1 DEF RowAt
    <3>. QED
      BY <1>2, <3>2, <3>3
  <2>5. x = y
    BY <2>1, <2>3, <2>4, SameRow
  <2>. QED
    BY <2>5 DEF x
<1>. QED
  BY <1>3, <1>4, <1>5 DEF c

LEMMA PlaceAfter ==
  ASSUME GameOK, NEW k \in Nat \ {0}
  PROVE  Place(After(k - 1), k) = After(k)
<1> DEFINE c == Count(k)
           d == Count(k - 1)
           rows == After(k - 1)
           at == SelectInSeq(rows, LAMBDA row : row.n = MoveNumber(k))
<1>1. k - 1 \in Nat
  OBVIOUS
<1>2. /\ c \in Nat \ {0} /\ Num(k) = game.full + c - 1
      /\ d \in {c - 1, c}
  BY PlaceOf
<1>3. /\ rows \in Seq(RowSet) /\ Len(rows) = d /\ d \in Nat
      /\ \A r \in 1 .. d : rows[r] = RowAt(k - 1, r)
  BY <1>1, AfterType
<1>4. /\ at \in 0 .. Len(rows)
      /\ at = 0 => \A r \in 1 .. Len(rows) : rows[r].n # Num(k)
      /\ at # 0 => rows[at].n = Num(k)
  BY <1>3, FoundAt
<1>5. Place(rows, k) = IF at = 0 THEN Append(rows, InRow(NewRow(k), k))
                       ELSE [rows EXCEPT ![at] = InRow(@, k)]
  BY DEF Place
<1>6. /\ \A r \in 1 .. c - 1 : RowAt(k - 1, r) = RowAt(k, r)
      /\ InRow(RowAt(k - 1, c), k) = RowAt(k, c)
      /\ d # c => InRow(NewRow(k), k) = RowAt(k, c)
  BY RowGrows
<1>7. /\ After(k) = [r \in 1 .. c |-> RowAt(k, r)]
      /\ rows = [r \in 1 .. d |-> RowAt(k - 1, r)]
  BY DEF After
<1> HIDE DEF at, rows, c, d
<1>8. \A r \in 1 .. d : rows[r].n = game.full + r - 1
  BY <1>3 DEF RowAt
<1>9. CASE at = 0
  <2>1. d = c - 1
    <3>1. d = c => c \in 1 .. d /\ rows[c].n # Num(k)
      BY <1>2, <1>3, <1>4, <1>9
    <3>. QED
      BY <1>2, <1>8, <3>1
  <2>2. InRow(NewRow(k), k) \in RowSet
    BY NewRowIs, InRowIs
  <2>3. /\ Append(rows, InRow(NewRow(k), k)) \in Seq(RowSet)
        /\ Len(Append(rows, InRow(NewRow(k), k))) = c
        /\ \A r \in 1 .. c : Append(rows, InRow(NewRow(k), k))[r] = After(k)[r]
    <3>1. /\ Append(rows, InRow(NewRow(k), k)) \in Seq(RowSet)
          /\ Len(Append(rows, InRow(NewRow(k), k))) = Len(rows) + 1
          /\ \A r \in 1 .. Len(rows) : Append(rows, InRow(NewRow(k), k))[r] = rows[r]
          /\ Append(rows, InRow(NewRow(k), k))[Len(rows) + 1] = InRow(NewRow(k), k)
      BY <1>3, <2>2, AppendProperties
    <3>2. Len(rows) = c - 1
      BY <1>3, <2>1
    <3>3. \A r \in 1 .. c - 1 : rows[r] = After(k)[r]
      BY <1>2, <1>3, <1>6, <1>7, <2>1
    <3>4. InRow(NewRow(k), k) = After(k)[c]
      BY <1>2, <1>6, <1>7, <2>1
    <3>. QED
      BY <1>2, <3>1, <3>2, <3>3, <3>4
  <2>4. Append(rows, InRow(NewRow(k), k)) = After(k)
    <3>1. After(k) \in Seq(RowSet) /\ Len(After(k)) = c
      BY AfterType DEF c
    <3>. QED
      BY <2>3, <3>1, SeqEqual
  <2>. QED
    BY <1>5, <1>9, <2>4 DEF rows
<1>10. CASE at # 0
  <2>1. at = c /\ d = c /\ c \in 1 .. d
    BY <1>2, <1>3, <1>4, <1>8, <1>10, GameType
  <2>2. \A r \in 1 .. c : (IF r = c THEN InRow(rows[c], k) ELSE rows[r]) = RowAt(k, r)
    BY <1>2, <1>3, <1>6, <2>1
  <2>3. [rows EXCEPT ![c] = InRow(@, k)] =
            [r \in 1 .. c |-> IF r = c THEN InRow(rows[c], k) ELSE rows[r]]
    BY <1>7, <2>1
  <2>4. [rows EXCEPT ![c] = InRow(@, k)] = After(k)
    BY <1>7, <2>2, <2>3
  <2>. QED
    BY <1>5, <1>10, <2>1, <2>4 DEF rows
<1>. QED
  BY <1>9, <1>10

LEMMA RowsAre ==
  ASSUME GameOK
  PROVE  Rows = After(N)
<1>1. PICK it : /\ Rows = it[Plies]
                /\ \A s \in SUBSET Plies :
                       it[s] = IF s = {} THEN << >> ELSE Place(it[s \ {Max(s)}], Max(s))
  BY RowsFold
<1>2. N \in Nat /\ Plies = 1 .. N
  BY GameType DEF Plies
<1> DEFINE Bad == {k \in 0 .. N : it[1 .. k] # After(k)}
<1>3. Bad = {}
  <2>1. SUFFICES ASSUME Bad # {} PROVE FALSE
    OBVIOUS
  <2>2. Bad \subseteq Nat
    BY <1>2
  <2>3. PICK k \in Bad : \A j \in Bad : k <= j
    BY <2>1, <2>2, Least
  <2>4. it[1 .. 0] = After(0)
    <3>1. 1 .. 0 = {} /\ {} \in SUBSET Plies
      OBVIOUS
    <3>2. After(0) = << >>
      <4>1. After(0) \in Seq(RowSet) /\ Len(After(0)) = 0
        BY AfterType DEF Count
      <4>. QED
        BY <4>1, EmptySeq
    <3>. QED
      BY <1>1, <3>1, <3>2
  <2>5. k \in Nat \ {0} /\ k - 1 \in 0 .. N /\ k - 1 \notin Bad
    BY <1>2, <2>3, <2>4
  <2>6. it[1 .. k - 1] = After(k - 1)
    BY <2>5
  <2>7. 1 .. k \in SUBSET Plies /\ 1 .. k # {} /\ Max(1 .. k) = k
        /\ (1 .. k) \ {k} = 1 .. k - 1
    <3>1. 1 .. k # {} /\ Max(1 .. k) = k /\ (1 .. k) \ {k} = 1 .. k - 1
      BY <2>5, UpTo
    <3>2. k \in 0 .. N
      BY <2>3
    <3>. QED
      BY <1>2, <3>1, <3>2
  <2>8. it[1 .. k] = Place(it[1 .. k - 1], k)
    BY <1>1, <2>7
  <2>9. it[1 .. k] = After(k)
    BY <2>5, <2>6, <2>8, PlaceAfter
  <2>. QED
    BY <2>3, <2>9
<1>4. N \in 0 .. N
  BY <1>2
<1>. QED
  BY <1>1, <1>2, <1>3, <1>4

LEMMA CountGrows ==
  ASSUME GameOK, NEW k \in Nat, NEW i \in 1 .. k
  PROVE  Count(i) \in 1 .. Count(k)
<1>1. i \in Nat \ {0} /\ k \in Nat \ {0} /\ i <= k
  OBVIOUS
<1>2. i \div 2 <= k \div 2 /\ (i - 1) \div 2 <= (k - 1) \div 2
  BY <1>1
<1>3. Count(i) \in Nat \ {0} /\ Count(k) \in Nat
  BY <1>1, PlaceOf
<1>4. Count(i) <= Count(k)
  <2> DEFINE a == i \div 2
             b == (i - 1) \div 2
             c == k \div 2
             d == (k - 1) \div 2
  <2>1. /\ Count(i) = Num(i) - game.full + 1
        /\ Count(k) = Num(k) - game.full + 1
    BY <1>1 DEF Count
  <2>2. a \in Int /\ b \in Int /\ c \in Int /\ d \in Int /\ game.full \in Int
    BY <1>1, GameType
  <2>3. /\ Num(i) = IF game.side = "w" THEN game.full + b ELSE game.full + a
        /\ Num(k) = IF game.side = "w" THEN game.full + d ELSE game.full + c
    BY Zenon DEF Num
  <2>4. a <= c /\ b <= d
    BY <1>2
  <2> HIDE DEF a, b, c, d
  <2>. QED
    BY <2>1, <2>2, <2>3, <2>4
<1>. QED
  BY <1>3, <1>4

\* What the move list shows is what the FEN counts.
LEMMA RowsAreRight == GameOK => RowsFollowTheFen
<1> SUFFICES ASSUME GameOK PROVE RowsFollowTheFen
  OBVIOUS
<1> DEFINE c == Count(N)
<1>1. /\ Rows = After(N) /\ N \in Nat /\ Plies = 1 .. N
  BY RowsAre, GameType DEF Plies
<1>2. /\ DOMAIN Rows = 1 .. c /\ c \in Nat
      /\ \A r \in 1 .. c : Rows[r] = RowAt(N, r)
  BY <1>1, AfterType DEF After
<1>3. \A r \in 1 .. c : White(r) \in Nat
  BY <1>2, RowAtType
<1>4. ASSUME NEW i \in Plies
      PROVE  \E r \in 1 .. c : Rows[r].n = FenNumber[i] /\ Rows[r][Color(i)] = i
  <2>1. i \in Nat \ {0} /\ i \in 1 .. N
    BY <1>1
  <2>2. /\ Num(i) = game.full + Count(i) - 1
        /\ Color(i) = "w" => White(Count(i)) = i
        /\ Color(i) = "b" => White(Count(i)) + 1 = i
        /\ Count(i) \in Nat
    BY <2>1, PlaceOf
  <2>3. Count(i) \in 1 .. c
    BY <1>1, <2>1, CountGrows
  <2>4. FenNumber[i] = Num(i)
    BY FenNumberIs
  <2>5. Rows[Count(i)] = RowAt(N, Count(i))
    BY <1>2, <2>3
  <2>6. Rows[Count(i)].n = FenNumber[i]
    BY <2>2, <2>4, <2>5 DEF RowAt
  <2>7. CASE Color(i) = "w"
    <3>1. RowAt(N, Count(i)).w = i
      BY <1>1, <2>1, <2>2, <2>7 DEF RowAt
    <3>. QED
      BY <2>3, <2>5, <2>6, <2>7, <3>1
  <2>8. CASE Color(i) = "b"
    <3>1. RowAt(N, Count(i)).b = i
      BY <1>1, <2>1, <2>2, <2>8 DEF RowAt
    <3>. QED
      BY <2>3, <2>5, <2>6, <2>8, <3>1
  <2>. QED
    BY <2>7, <2>8, GameType DEF Color, Other
<1>5. ASSUME NEW r \in 1 .. c
      PROVE  /\ {Rows[r].w, Rows[r].b} \cap Plies # {}
             /\ 0 \notin {Rows[r].w, Rows[r].b} => Rows[r].b = Rows[r].w + 1
             /\ r > 1 => Rows[r].n = Rows[r - 1].n + 1
  <2>1. /\ N \in Nat \ {0}
        /\ White(c) = N \/ White(c) + 1 = N
    <3>1. N # 0
      BY <1>2 DEF Count
    <3>. QED
      BY <1>1, <3>1, PlaceOf, GameType DEF Color, Other
  <2>2. White(r) \in Nat /\ White(r) <= N /\ (White(r) = 0 => White(r) + 1 <= N)
    <3>1. White(r) \in Nat
      BY <1>3
    <3>2. White(r) <= White(c) /\ White(c) \in Nat
      BY <1>2, <1>3, GameType DEF White
    <3> HIDE DEF c
    <3>. QED
      BY <2>1, <3>1, <3>2
  <2>3. /\ Rows[r].w = White(r)
        /\ Rows[r].b = IF White(r) + 1 <= N THEN White(r) + 1 ELSE 0
    <3>1. Rows[r] = RowAt(N, r)
      BY <1>2
    <3>. QED
      BY <2>2, <3>1 DEF RowAt
  <2>4. {Rows[r].w, Rows[r].b} \cap Plies # {}
    <3>1. CASE White(r) = 0
      <4>1. Rows[r].b = 1 /\ 1 \in 1 .. N
        BY <2>1, <2>2, <2>3, <3>1
      <4>. QED
        BY <1>1, <4>1
    <3>2. CASE White(r) # 0
      <4>1. White(r) \in 1 .. N
        BY <2>1, <2>2, <3>2
      <4>. QED
        BY <1>1, <2>3, <4>1
    <3>. QED
      BY <3>1, <3>2
  <2>5. 0 \notin {Rows[r].w, Rows[r].b} => Rows[r].b = Rows[r].w + 1
    BY <2>3
  <2>6. r > 1 => Rows[r].n = Rows[r - 1].n + 1
    <3> SUFFICES ASSUME r > 1 PROVE Rows[r].n = Rows[r - 1].n + 1
      OBVIOUS
    <3>1. r - 1 \in 1 .. c
      BY <1>2
    <3>2. Rows[r].n = game.full + r - 1 /\ Rows[r - 1].n = game.full + (r - 1) - 1
      BY <1>2, <3>1 DEF RowAt
    <3>. QED
      BY <1>2, <3>2, GameType
  <2>. QED
    BY <2>4, <2>5, <2>6
<1> HIDE DEF c
<1>. QED
  BY <1>2, <1>4, <1>5 DEF RowsFollowTheFen

-----------------------------------------------------------------------------
(* Swings, marks and the biggest swing. *)

\* The page has an analysis of its game: a position before and after each ply.
Analysed == GameOK /\ positions \in Analyses /\ Len(positions) = N + 1

SwingSet == [ply : Nat, loss : Int, known : BOOLEAN]

LEMMA ClampType == ASSUME NEW share \in Int PROVE Clamp(share) \in Int
<1> DEFINE a == Min({98, share})
<1>1. a \in Int
  <2>1. \E x \in {98, share} : \A y \in {98, share} : x <= y
    <3>1. CASE share <= 98
      BY <3>1
    <3>2. CASE 98 < share
      BY <3>2
    <3>. QED
      BY <3>1, <3>2
  <2>2. Min({98, share}) \in {98, share}
    BY <2>1 DEF Min
  <2>. QED
    BY <2>2
<1> HIDE DEF a
<1>2. \E x \in {2, a} : \A y \in {2, a} : x >= y
  <2>1. CASE a <= 2
    BY <2>1, <1>1
  <2>2. CASE 2 < a
    BY <2>2, <1>1
  <2>. QED
    BY <2>1, <2>2, <1>1
<1>3. Max({2, a}) \in {2, a}
  BY <1>2 DEF Max
<1>. QED
  BY <1>1, <1>3 DEF Clamp, a

LEMMA ShareType ==
  ASSUME Analysed, NEW i \in 1 .. N + 1
  PROVE  ShareOf(positions[i]) = None \/ ShareOf(positions[i]) \in Int
<1> DEFINE e == positions[i]
<1>1. \A v \in {e.mate, e.cp} : v = None \/ v \in Int
  BY DEF Analysed
<1> HIDE DEF e
<1>2. e.mate \notin {0, None} => e.mate \in Int
  BY <1>1
<1>3. e.cp # None => Clamp(e.cp) \in Int
  BY <1>1, ClampType
<1>4. ShareOf(e) = None \/ ShareOf(e) \in Int
  BY <1>2, <1>3 DEF ShareOf
<1>. QED
  BY <1>4 DEF e

LEMMA SwingsAre ==
  ASSUME Analysed
  PROVE  /\ N \in Nat /\ Plies = 1 .. N
         /\ DOMAIN Swings = 1 .. N /\ Swings = [i \in 1 .. N |-> Swing(i)]
         /\ Len(Swings) = N
         /\ \A i \in 1 .. N :
               /\ Swings[i] = Swing(i) /\ Swing(i) \in SwingSet /\ Swing(i).ply = i
               /\ Swing(i).known =>
                    /\ ShareOf(positions[i]) \in Int
                    /\ ShareOf(positions[i + 1]) \in Int
                    /\ Swing(i).loss =
                         IF Color(i) = "w"
                         THEN ShareOf(positions[i]) - ShareOf(positions[i + 1])
                         ELSE ShareOf(positions[i + 1]) - ShareOf(positions[i])
<1>1. N \in Nat /\ Plies = 1 .. N
  BY GameType DEF Analysed, Plies
<1>2. Swings = [i \in 1 .. N |-> Swing(i)]
  BY <1>1 DEF Analysed, Swings, AllSwings
<1>3. ASSUME NEW i \in 1 .. N
      PROVE  /\ Swing(i) \in SwingSet /\ Swing(i).ply = i
             /\ Swing(i).known =>
                  /\ ShareOf(positions[i]) \in Int
                  /\ ShareOf(positions[i + 1]) \in Int
                  /\ Swing(i).loss =
                       IF Color(i) = "w"
                       THEN ShareOf(positions[i]) - ShareOf(positions[i + 1])
                       ELSE ShareOf(positions[i + 1]) - ShareOf(positions[i])
  <2> DEFINE before == ShareOf(positions[i])
             after == ShareOf(positions[i + 1])
  <2>1. i \in Nat /\ ~(i > N) /\ i \in 1 .. N + 1 /\ i + 1 \in 1 .. N + 1
    BY <1>1
  <2>2. (before = None \/ before \in Int) /\ (after = None \/ after \in Int)
    BY <2>1, ShareType
  <2>3. Swing(i) = IF before = None \/ after = None THEN Unknown(i)
                   ELSE [ply |-> i, known |-> TRUE,
                         loss |-> IF Color(i) = "w" THEN before - after ELSE after - before]
    BY <2>1 DEF Swing
  <2> HIDE DEF before, after
  <2>4. CASE before = None \/ after = None
    <3>1. Swing(i) = [ply |-> i, loss |-> 0, known |-> FALSE]
      BY <2>3, <2>4 DEF Unknown
    <3>. QED
      BY <2>1, <3>1 DEF SwingSet
  <2>5. CASE ~(before = None \/ after = None)
    <3> DEFINE loss == IF Color(i) = "w" THEN before - after ELSE after - before
    <3>1. before \in Int /\ after \in Int /\ loss \in Int
      BY <2>2, <2>5
    <3>2. Swing(i) = [ply |-> i, known |-> TRUE, loss |-> loss]
      BY <2>3, <2>5
    <3> HIDE DEF loss
    <3>3. Swing(i) \in SwingSet /\ Swing(i).ply = i /\ Swing(i).loss = loss
      BY <2>1, <3>1, <3>2 DEF SwingSet
    <3>. QED
      BY <3>1, <3>3 DEF before, after, loss
  <2>. QED
    BY <2>4, <2>5
<1>4. Len(Swings) = N /\ DOMAIN Swings = 1 .. N
  <2>1. Swings \in [1 .. N -> SwingSet]
    BY <1>2, <1>3
  <2>2. Swings \in Seq(SwingSet)
    BY <1>1, <2>1, SeqDef
  <2>. QED
    BY <1>1, <1>2, <2>2, LenProperties
<1>. QED
  BY <1>1, <1>2, <1>3, <1>4

LEMMA MarkIs ==
  ASSUME NEW loss \in Int
  PROVE  Mark(loss) # "" <=> loss >= Inaccuracy
<1>1. CASE loss >= 35
  BY <1>1 DEF Mark, Inaccuracy
<1>2. CASE loss \in 20 .. 34
  BY <1>2 DEF Mark, Inaccuracy
<1>3. CASE loss \in 10 .. 19
  <2>1. ~(loss >= 35) /\ loss \notin 20 .. 34 /\ loss \in Inaccuracy .. 19
    BY <1>3 DEF Inaccuracy
  <2>2. Mark(loss) = "?!"
    BY <2>1 DEF Mark
  <2>. QED
    BY <1>3, <2>2 DEF Inaccuracy
<1>4. CASE loss < 10
  <2>1. ~(loss >= 35) /\ loss \notin 20 .. 34 /\ loss \notin Inaccuracy .. 19
    BY <1>4 DEF Inaccuracy
  <2>2. Mark(loss) = ""
    BY <2>1 DEF Mark
  <2>3. ~(loss >= Inaccuracy)
    BY <1>4 DEF Inaccuracy
  <2>. QED
    BY <2>2, <2>3, Zenon
<1>5. loss >= 35 \/ loss \in 20 .. 34 \/ loss \in 10 .. 19 \/ loss < 10
  OBVIOUS
<1>. QED
  BY <1>1, <1>2, <1>3, <1>4, <1>5, Zenon

\* A mark is beside a ply the error buttons stop at.
LEMMA ErrorsAre ==
  ASSUME Analysed
  PROVE  /\ ErrorPlies = {i \in Plies : Swing(i).known /\ Swing(i).loss >= Inaccuracy}
         /\ ErrorPlies = {i \in Plies : MarkOf(i) # ""}
<1>1. ErrorPlies = {i \in Plies : Swing(i).known /\ Swing(i).loss >= Inaccuracy}
  <2>1. Range(Swings) = {Swing(i) : i \in 1 .. N}
    <3>1. DOMAIN Swings = 1 .. N /\ \A i \in 1 .. N : Swings[i] = Swing(i)
      BY SwingsAre
    <3>. QED
      BY <3>1 DEF Range
  <2>. QED
    BY <2>1, SwingsAre DEF ErrorPlies
<1>2. ASSUME NEW i \in Plies
      PROVE  MarkOf(i) # "" <=> Swing(i).known /\ Swing(i).loss >= Inaccuracy
  <2>1. /\ i \in 1 .. N /\ i <= Len(Swings) /\ Swings[i] = Swing(i)
        /\ Swing(i) \in SwingSet
    BY SwingsAre
  <2>2. MarkOf(i) = IF Swing(i).known THEN Mark(Swing(i).loss) ELSE ""
    BY <2>1 DEF MarkOf
  <2>3. Swing(i).loss \in Int
    BY <2>1 DEF SwingSet
  <2>4. Mark(Swing(i).loss) # "" <=> Swing(i).loss >= Inaccuracy
    BY <2>3, MarkIs
  <2>. QED
    BY <2>2, <2>4
<1>. QED
  BY <1>1, <1>2

\* The biggest swing is found by comparing the swings in playing order.
LEMMA BiggestFold ==
  ASSUME Analysed
  PROVE  \E it : /\ Biggest = it[1 .. N].ply
                 /\ \A s \in SUBSET (1 .. N) :
                        it[s] = IF s = {} THEN Unknown(0)
                                ELSE Worse(it[s \ {Max(s)}], Swing(Max(s)))
<1> DEFINE Unfolds(it) == it = [s \in SUBSET DOMAIN Swings |->
               IF s = {} THEN Unknown(0)
               ELSE LET x == Max(s) IN Worse(it[s \ {x}], Swings[x])]
           it == CHOOSE f : Unfolds(f)
<1>1. Biggest = it[DOMAIN Swings].ply
  BY Zenon DEF Biggest, FoldLeft, MapThenFoldSet
<1>2. N \in Nat /\ DOMAIN Swings = 1 .. N
  BY SwingsAre
<1>3. \A i \in 1 .. N : Swings[i] = Swing(i) /\ Swing(i) \in SwingSet
  BY SwingsAre
<1>4. \A s \in SUBSET (1 .. N) : s # {} => Max(s) \in s
  <2>1. \A s \in SUBSET (1 .. N) : s \subseteq 0 .. N
    BY <1>2
  <2>. QED
    BY <1>2, <2>1, MaxOf
<1>5. \E f : Unfolds(f)
  <2> DEFINE step == [x \in 1 .. N |-> [t \in SwingSet |-> Worse(t, Swing(x))]]
  <2>1. step \in [1 .. N -> [SwingSet -> SwingSet]]
    BY <1>3 DEF Worse
  <2>2. Unknown(0) \in SwingSet
    BY DEF Unknown, SwingSet
  <2>3. PICK g : Folds(g, SwingSet, Unknown(0), N, step)
    <3> HIDE DEF step
    <3>1. N \in Nat
      BY <1>2
    <3>. QED
      BY <2>1, <2>2, <3>1, FoldExists
  <2>4. \A s \in SUBSET (1 .. N) :
            g[s] = IF s = {} THEN Unknown(0) ELSE Worse(g[s \ {Max(s)}], Swings[Max(s)])
    <3> SUFFICES ASSUME NEW s \in SUBSET (1 .. N), s # {}
                 PROVE  g[s] = Worse(g[s \ {Max(s)}], Swings[Max(s)])
      BY <2>3 DEF Folds
    <3>1. Max(s) \in 1 .. N /\ g[s \ {Max(s)}] \in SwingSet
      BY <1>4, <2>3 DEF Folds
    <3>2. step[Max(s)][g[s \ {Max(s)}]] = Worse(g[s \ {Max(s)}], Swing(Max(s)))
      BY <3>1
    <3>3. g[s] = step[Max(s)][g[s \ {Max(s)}]]
      <4> HIDE DEF step
      <4>. QED
        BY <2>3 DEF Folds
    <3>. QED
      BY <1>3, <3>1, <3>2, <3>3
  <2>5. g = [s \in SUBSET (1 .. N) |->
                 IF s = {} THEN Unknown(0) ELSE Worse(g[s \ {Max(s)}], Swings[Max(s)])]
    BY <2>3, <2>4 DEF Folds
  <2>. QED
    BY <1>2, <2>5
<1>6. Unfolds(it)
  BY <1>5
<1>7. \A s \in SUBSET (1 .. N) :
          it[s] = IF s = {} THEN Unknown(0) ELSE Worse(it[s \ {Max(s)}], Swing(Max(s)))
  <2> HIDE DEF it
  <2>. QED
    BY <1>2, <1>3, <1>4, <1>6
<1>. QED
  BY <1>1, <1>2, <1>7

\* No known swing is greater, and it is a swing unless none loses anything.
LEMMA BiggestIs ==
  ASSUME Analysed
  PROVE  /\ Biggest \in 0 .. N
         /\ \A i \in 1 .. N : Swing(i).known /\ Swing(i).loss > 0 =>
               /\ Biggest # 0 /\ Swing(Biggest).known
               /\ Swing(i).loss <= Swing(Biggest).loss
<1>1. PICK it : /\ Biggest = it[1 .. N].ply
                /\ \A s \in SUBSET (1 .. N) :
                       it[s] = IF s = {} THEN Unknown(0)
                               ELSE Worse(it[s \ {Max(s)}], Swing(Max(s)))
  BY BiggestFold
<1>2. /\ N \in Nat
      /\ \A i \in 1 .. N : Swing(i) \in SwingSet /\ Swing(i).ply = i
  BY SwingsAre
<1> DEFINE Best(k, b) ==
               /\ b.loss \in Nat
               /\ \A i \in 1 .. k : Swing(i).known => Swing(i).loss <= b.loss
               /\ \/ b = Unknown(0)
                  \/ \E i \in 1 .. k : b = Swing(i) /\ b.known
           Bad == {k \in 0 .. N : ~Best(k, it[1 .. k])}
<1>3. Best(0, it[1 .. 0])
  <2>1. 1 .. 0 = {} /\ {} \in SUBSET (1 .. N)
    OBVIOUS
  <2>2. it[1 .. 0] = Unknown(0)
    BY <1>1, <2>1
  <2>3. Unknown(0).loss = 0
    BY DEF Unknown
  <2>. QED
    BY <2>2, <2>3
<1>4. ASSUME NEW k \in 1 .. N, Best(k - 1, it[1 .. k - 1])
      PROVE  Best(k, it[1 .. k])
  <2> DEFINE b == it[1 .. k - 1]
             s == Swing(k)
  <2>1. k \in Nat \ {0} /\ 1 .. k \in SUBSET (1 .. N)
    BY <1>2
  <2>2. 1 .. k # {} /\ Max(1 .. k) = k /\ (1 .. k) \ {k} = 1 .. k - 1
    BY <2>1, UpTo
  <2>3. it[1 .. k] = Worse(b, s)
    BY <1>1, <2>1, <2>2
  <2>4. s \in SwingSet /\ s.loss \in Int
    BY <1>2 DEF SwingSet
  <2>5. /\ b.loss \in Nat
        /\ \A i \in 1 .. k - 1 : Swing(i).known => Swing(i).loss <= b.loss
        /\ \/ b = Unknown(0)
           \/ \E i \in 1 .. k - 1 : b = Swing(i) /\ b.known
    BY <1>4
  <2>6. \A i \in 1 .. k : i = k \/ i \in 1 .. k - 1
    OBVIOUS
  <2>7. \A i \in 1 .. k - 1 : Swing(i).loss \in Int
    BY <1>2, <2>1 DEF SwingSet
  <2> HIDE DEF b
  <2>8. CASE s.known /\ s.loss > b.loss
    <3>1. Worse(b, s) = s
      BY <2>8 DEF Worse
    <3>2. s.loss \in Nat
      BY <2>4, <2>5, <2>8
    <3>3. \A i \in 1 .. k : Swing(i).known => Swing(i).loss <= s.loss
      BY <2>4, <2>5, <2>6, <2>7, <2>8
    <3>4. k \in 1 .. k /\ s = Swing(k)
      BY <2>1
    <3> HIDE DEF s
    <3>. QED
      BY <2>3, <2>8, <3>1, <3>2, <3>3, <3>4
  <2>9. CASE ~(s.known /\ s.loss > b.loss)
    <3>1. Worse(b, s) = b
      BY <2>9 DEF Worse
    <3>2. \A i \in 1 .. k : Swing(i).known => Swing(i).loss <= b.loss
      BY <2>4, <2>5, <2>6, <2>9
    <3>3. b = Unknown(0) \/ \E i \in 1 .. k : b = Swing(i) /\ b.known
      BY <2>1, <2>5
    <3>. QED
      BY <2>3, <2>5, <3>1, <3>2, <3>3
  <2>. QED
    BY <2>8, <2>9
<1> HIDE DEF Best
<1>5. Bad = {}
  <2>1. SUFFICES ASSUME Bad # {} PROVE FALSE
    OBVIOUS
  <2>2. Bad \subseteq Nat
    BY <1>2
  <2>3. PICK k \in Bad : \A j \in Bad : k <= j
    BY <2>1, <2>2, Least
  <2>4. k \in 1 .. N /\ k - 1 \in 0 .. N /\ k - 1 \notin Bad
    BY <1>2, <1>3, <2>3
  <2>5. Best(k - 1, it[1 .. k - 1])
    BY <2>4
  <2>6. Best(k, it[1 .. k])
    BY <1>4, <2>4, <2>5
  <2>. QED
    BY <2>3, <2>6
<1>6. Best(N, it[1 .. N])
  <2>1. N \in 0 .. N
    BY <1>2
  <2>. QED
    BY <1>5, <2>1
<1> DEFINE best == it[1 .. N]
<1>7. /\ best.loss \in Nat
      /\ \A i \in 1 .. N : Swing(i).known => Swing(i).loss <= best.loss
      /\ best = Unknown(0) \/ \E i \in 1 .. N : best = Swing(i) /\ best.known
  BY <1>6 DEF Best
<1>8. Biggest = best.ply
  BY <1>1
<1> HIDE DEF best
<1>9. CASE best = Unknown(0)
  <2>1. best.ply = 0 /\ best.loss = 0
    BY <1>9 DEF Unknown
  <2>2. \A i \in 1 .. N : Swing(i).loss \in Int
    BY <1>2 DEF SwingSet
  <2>. QED
    BY <1>2, <1>7, <1>8, <2>1, <2>2
<1>10. CASE best # Unknown(0)
  <2>1. PICK i \in 1 .. N : best = Swing(i) /\ best.known
    BY <1>7, <1>10
  <2>2. Biggest = i
    BY <1>2, <1>8, <2>1
  <2>. QED
    BY <1>2, <1>7, <2>1, <2>2
<1>. QED
  BY <1>9, <1>10

\* The marks, the error buttons and the biggest swing agree.
LEMMA MarksAreRight == Analysed => MarksAreErrors
<1> SUFFICES ASSUME Analysed PROVE MarksAreErrors
  OBVIOUS
<1>1. ErrorPlies = {i \in Plies : MarkOf(i) # ""}
  BY ErrorsAre
<1>2. ErrorPlies = {i \in Plies : Swing(i).known /\ Swing(i).loss >= 10}
  BY ErrorsAre DEF Inaccuracy
<1>3. N \in Nat /\ Plies = 1 .. N
  BY SwingsAre
<1>4. \A i \in 1 .. N : Swing(i).loss \in Int
  BY SwingsAre DEF SwingSet
<1>5. Biggest \in 0 .. N
  BY BiggestIs
<1>6. ErrorPlies # {} => Biggest \in ErrorPlies
  <2> SUFFICES ASSUME NEW i \in ErrorPlies PROVE Biggest \in ErrorPlies
    OBVIOUS
  <2>1. i \in 1 .. N /\ Swing(i).known /\ Swing(i).loss >= 10 /\ Swing(i).loss > 0
    BY <1>2, <1>3, <1>4
  <2>2. Biggest # 0 /\ Swing(Biggest).known /\ Swing(i).loss <= Swing(Biggest).loss
    BY <2>1, BiggestIs
  <2>3. Biggest \in 1 .. N
    BY <1>3, <1>5, <2>2
  <2>4. Swing(Biggest).loss >= 10
    BY <1>4, <2>1, <2>2, <2>3
  <2>. QED
    BY <1>2, <1>3, <2>2, <2>3, <2>4
<1>7. ASSUME NEW i \in ErrorPlies
      PROVE  Color(i) = "w" <=> ShareOf(positions[i + 1]) - ShareOf(positions[i]) < 0
  <2>1. i \in 1 .. N /\ Swing(i).known /\ Swing(i).loss >= 10
    BY <1>2, <1>3
  <2>2. /\ ShareOf(positions[i]) \in Int
        /\ ShareOf(positions[i + 1]) \in Int
        /\ Swing(i).loss =
             IF Color(i) = "w"
             THEN ShareOf(positions[i]) - ShareOf(positions[i + 1])
             ELSE ShareOf(positions[i + 1]) - ShareOf(positions[i])
    BY <2>1, SwingsAre
  <2>. QED
    BY <2>1, <2>2
<1>. QED
  BY <1>1, <1>6, <1>7, Zenon DEF MarksAreErrors

-----------------------------------------------------------------------------
(* The error buttons. *)

LEMMA NextIs ==
  ASSUME NEW n \in Nat, NEW errors \in SUBSET (1 .. n), errors # {}, NEW p \in Int
  PROVE  LET e == NextError(errors, p) IN
         /\ e \in errors
         /\ \/ e > p /\ \A x \in errors : x > p => e <= x
            \/ \A x \in errors : x <= p /\ e <= x
<1> DEFINE later == {e \in errors : e > p}
<1>1. errors \subseteq Nat /\ later \subseteq Nat
  <2>1. 1 .. n \subseteq Nat
    OBVIOUS
  <2>. QED
    BY <2>1
<1>2. Min(errors) \in errors /\ \A x \in errors : Min(errors) <= x
  BY <1>1, MinOf
<1>3. later # {} => Min(later) \in later /\ \A x \in later : Min(later) <= x
  BY <1>1, MinOf
<1>4. NextError(errors, p) = IF later # {} THEN Min(later) ELSE Min(errors)
  BY DEF NextError
<1>5. CASE later # {}
  BY <1>3, <1>4, <1>5
<1>6. CASE later = {}
  BY <1>1, <1>2, <1>4, <1>6
<1>. QED
  BY <1>5, <1>6

LEMMA PrevIs ==
  ASSUME NEW n \in Nat, NEW errors \in SUBSET (1 .. n), errors # {}, NEW p \in Int
  PROVE  LET e == PrevError(errors, p) IN
         /\ e \in errors
         /\ \/ e < p /\ \A x \in errors : x < p => x <= e
            \/ \A x \in errors : x >= p /\ x <= e
<1> DEFINE earlier == {e \in errors : e < p}
<1>1. errors \subseteq 0 .. n /\ earlier \subseteq 0 .. n
  <2>1. 1 .. n \subseteq 0 .. n
    OBVIOUS
  <2>. QED
    BY <2>1
<1>2. Max(errors) \in errors /\ \A x \in errors : x <= Max(errors)
  BY <1>1, MaxOf
<1>3. earlier # {} => Max(earlier) \in earlier /\ \A x \in earlier : x <= Max(earlier)
  BY <1>1, MaxOf
<1>4. PrevError(errors, p) = IF earlier # {} THEN Max(earlier) ELSE Max(errors)
  BY DEF PrevError
<1>5. CASE earlier # {}
  BY <1>3, <1>4, <1>5
<1>6. CASE earlier = {}
  BY <1>1, <1>2, <1>4, <1>6
<1>. QED
  BY <1>5, <1>6

\* Forward and back undo each other, and every error is reached.
LEMMA Ring ==
  ASSUME NEW n \in Nat, NEW errors \in SUBSET (1 .. n), errors # {}
  PROVE  /\ \A e \in errors : /\ PrevError(errors, NextError(errors, e)) = e
                              /\ NextError(errors, PrevError(errors, e)) = e
         /\ {NextError(errors, p) : p \in 0 .. n} = errors
<1>1. ASSUME NEW e \in errors
      PROVE  /\ PrevError(errors, NextError(errors, e)) = e
             /\ NextError(errors, PrevError(errors, e)) = e
  <2> DEFINE f == NextError(errors, e)
             g == PrevError(errors, f)
             b == PrevError(errors, e)
             h == NextError(errors, b)
  <2>1. e \in Int /\ \A x \in errors : x \in Int
    OBVIOUS
  <2>2. /\ f \in errors
        /\ \/ f > e /\ \A x \in errors : x > e => f <= x
           \/ \A x \in errors : x <= e /\ f <= x
    BY <2>1, NextIs
  <2>3. /\ b \in errors
        /\ \/ b < e /\ \A x \in errors : x < e => x <= b
           \/ \A x \in errors : x >= e /\ x <= b
    BY <2>1, PrevIs
  <2> HIDE DEF f, b
  <2>4. /\ g \in errors
        /\ \/ g < f /\ \A x \in errors : x < f => x <= g
           \/ \A x \in errors : x >= f /\ x <= g
    BY <2>1, <2>2, PrevIs
  <2>5. /\ h \in errors
        /\ \/ h > b /\ \A x \in errors : x > b => h <= x
           \/ \A x \in errors : x <= b /\ h <= x
    BY <2>1, <2>3, NextIs
  <2> HIDE DEF g, h
  <2>6. g = e
    BY <2>1, <2>2, <2>4
  <2>7. h = e
    BY <2>1, <2>3, <2>5
  <2>. QED
    BY <2>6, <2>7 DEF f, g, b, h
<1>2. \A p \in 0 .. n : NextError(errors, p) \in errors
  <2>1. \A p \in 0 .. n : p \in Int
    OBVIOUS
  <2>. QED
    BY <2>1, NextIs
<1>3. ASSUME NEW e \in errors
      PROVE  e - 1 \in 0 .. n /\ NextError(errors, e - 1) = e
  <2> DEFINE f == NextError(errors, e - 1)
  <2>1. e \in Int /\ e - 1 \in Int /\ e - 1 \in 0 .. n /\ \A x \in errors : x \in Int
    OBVIOUS
  <2>2. /\ f \in errors
        /\ \/ f > e - 1 /\ \A x \in errors : x > e - 1 => f <= x
           \/ \A x \in errors : x <= e - 1 /\ f <= x
    BY <2>1, NextIs
  <2> HIDE DEF f
  <2>3. f = e
    BY <2>1, <2>2
  <2>. QED
    BY <2>1, <2>3 DEF f
<1>4. errors \subseteq {NextError(errors, p) : p \in 0 .. n}
  BY <1>3
<1>. QED
  BY <1>1, <1>2, <1>4

\* With no positions there is no swing, hence no error.
LEMMA NoErrorsWithout ==
  ASSUME positions = << >>
  PROVE  ErrorPlies = {}
<1>1. Len(positions) = 0
  OBVIOUS
<1>2. 1 .. 0 - 1 = {}
  OBVIOUS
<1>3. DOMAIN Swings = {}
  BY <1>1, <1>2 DEF Swings, AllSwings
<1>4. Range(Swings) = {}
  BY <1>3 DEF Range
<1>. QED
  BY <1>4 DEF ErrorPlies

\* The diagnostics on the page are those of its game, if it has any.
Diagnosed == GameOK /\ (positions # << >> => Analysed)

LEMMA ErrorsInGame == Diagnosed => ErrorPlies \in SUBSET (1 .. N) /\ N \in Nat
<1> SUFFICES ASSUME Diagnosed PROVE ErrorPlies \in SUBSET (1 .. N) /\ N \in Nat
  OBVIOUS
<1>1. N \in Nat
  BY GameType DEF Diagnosed
<1>2. CASE positions = << >>
  BY <1>1, <1>2, NoErrorsWithout
<1>3. CASE positions # << >>
  BY <1>1, <1>3, ErrorsAre, SwingsAre DEF Diagnosed
<1>. QED
  BY <1>2, <1>3

\* A jump leads to a ply of the game.
LEMMA JumpsIn ==
  ASSUME Diagnosed, ErrorPlies # {}, NEW p \in Int
  PROVE  NextError(ErrorPlies, p) \in 0 .. N /\ PrevError(ErrorPlies, p) \in 0 .. N
<1> DEFINE errors == ErrorPlies
<1>1. errors \in SUBSET (1 .. N) /\ N \in Nat /\ errors # {}
  BY ErrorsInGame
<1> HIDE DEF errors
<1>2. NextError(errors, p) \in errors /\ PrevError(errors, p) \in errors
  <2> DEFINE n == N
  <2>1. n \in Nat /\ errors \in SUBSET (1 .. n)
    BY <1>1
  <2> HIDE DEF n
  <2>2. NextError(errors, p) \in errors
    BY <1>1, <2>1, NextIs
  <2>3. PrevError(errors, p) \in errors
    BY <1>1, <2>1, PrevIs
  <2>. QED
    BY <2>2, <2>3
<1>3. NextError(errors, p) \in 0 .. N /\ PrevError(errors, p) \in 0 .. N
  <2>1. errors \subseteq 0 .. N
    BY <1>1
  <2>. QED
    BY <1>2, <2>1
<1>. QED
  BY <1>3 DEF errors

LEMMA ButtonsAreRight == Diagnosed => ErrorButtonsCycle
<1> SUFFICES ASSUME Diagnosed, ErrorPlies # {} PROVE ErrorButtonsCycle
  BY DEF ErrorButtonsCycle
<1>1. /\ \A e \in ErrorPlies :
            /\ PrevError(ErrorPlies, NextError(ErrorPlies, e)) = e
            /\ NextError(ErrorPlies, PrevError(ErrorPlies, e)) = e
      /\ {NextError(ErrorPlies, p) : p \in 0 .. N} = ErrorPlies
  BY ErrorsInGame, Ring
<1>. QED
  BY <1>1, Zenon DEF ErrorButtonsCycle

-----------------------------------------------------------------------------
(* Loading and navigation. *)

\* The inductive invariant of the page.  Diagnostics come with the last fetch,
\* after which the game stays; nothing navigates before.
PageInv == /\ stage \in Loading \cup {"ready", "error"}
           /\ analyzed \in BOOLEAN /\ playing \in BOOLEAN
           /\ Diagnosed
           /\ positions # << >> => Ready
           /\ ply \in 0 .. N
           /\ ~Ready => ply = 0

LEMMA PageInit == ReplayInit => PageInv
<1> SUFFICES ASSUME ReplayInit PROVE PageInv
  OBVIOUS
<1>1. N = 0 /\ 0 \in 0 .. 0
  BY DEF ReplayInit, N, NoGame
<1>2. Diagnosed
  BY DEF ReplayInit, Diagnosed, GameOK
<1>. QED
  BY <1>1, <1>2 DEF ReplayInit, PageInv, Loading, Ready

\* The fetches before the last leave no diagnostics behind.
LEMMA LoadPage ==
  ASSUME PageInv,
         \/ \E known \in BOOLEAN : GotMatch(known)
         \/ \E pgn \in Pgns : GotPgn(pgn)
         \/ Refused
         \/ NetworkFails
  PROVE  PageInv'
<1>1. /\ ~Ready /\ positions = << >> /\ positions' = << >> /\ ply = 0 /\ ply' = 0
      /\ playing' = playing
      /\ stage' \in Loading \cup {"ready", "error"} /\ analyzed' \in BOOLEAN
      /\ game' \in Pgns \cup {NoGame}
  BY DEF PageInv, Diagnosed, GameOK, GotMatch, GotPgn, Refused, NetworkFails, Fails, Still,
         Ready, Loading
<1>2. game'.moves \in Nat
  BY <1>1 DEF NoGame
<1>. QED
  BY <1>1, <1>2 DEF PageInv, Diagnosed, GameOK, N, Ready

\* The analysis that arrives is the one of the game on the page, or none.
LEMMA AnalysisPage ==
  ASSUME PageInv, NEW seq, GotAnalysis(seq),
         seq = << >> \/ (seq \in Analyses /\ Len(seq) = N + 1)
  PROVE  PageInv'
<1>1. /\ stage' = "ready" /\ positions' = seq /\ game' = game
      /\ analyzed' = analyzed /\ ply' = ply /\ playing' = playing
  BY DEF GotAnalysis, Still
<1>. QED
  BY <1>1 DEF PageInv, Diagnosed, Analysed, GameOK, N, Ready, Loading

\* Wherever a visitor goes from a position of the game is one of the game.
LEMMA VisitorPage ==
  ASSUME PageInv, Visitor \/ Tick
  PROVE  PageInv'
<1>1. N \in Nat /\ ply \in 0 .. N /\ Diagnosed
  BY GameType DEF PageInv, Diagnosed
<1>2. Ready /\ Frozen
  BY DEF Visitor, Navigate, Jump, StepForward, StepBack, ClickMove, JumpToBiggest,
         ClickNextError, ClickPrevError, Panel, GoTo, TogglePlay, Tick
<1>3. ply' \in 0 .. N /\ playing' \in BOOLEAN
  <2>1. CASE StepForward
    <3>1. {N, ply + 1} \subseteq Nat
      BY <1>1
    <3>2. Min({N, ply + 1}) \in {N, ply + 1} /\ Min({N, ply + 1}) <= N
      BY <3>1, MinOf
    <3>. QED
      BY <1>1, <2>1, <3>2 DEF StepForward, GoTo, PageInv
  <2>2. CASE StepBack
    <3>1. Max({0, ply - 1}) = IF ply = 0 THEN 0 ELSE ply - 1
      <4>1. CASE ply = 0
        <5>1. \E x \in {0, -1} : \A y \in {0, -1} : x >= y
          OBVIOUS
        <5>2. Max({0, -1}) \in {0, -1} /\ \A y \in {0, -1} : Max({0, -1}) >= y
          BY <5>1 DEF Max
        <5>3. Max({0, -1}) = 0
          BY <5>2
        <5>. QED
          BY <4>1, <5>3
      <4>2. CASE ply # 0
        <5>1. {0, ply - 1} \subseteq 0 .. N
          BY <1>1, <4>2
        <5>2. /\ Max({0, ply - 1}) \in {0, ply - 1}
              /\ \A y \in {0, ply - 1} : y <= Max({0, ply - 1})
          BY <1>1, <5>1, MaxOf
        <5>. QED
          BY <1>1, <4>2, <5>2
      <4>. QED
        BY <4>1, <4>2
    <3>. QED
      BY <1>1, <2>2, <3>1 DEF StepBack, GoTo, PageInv
  <2>3. CASE ClickMove
    BY <1>1, <2>3 DEF ClickMove, GoTo, Plies, PageInv
  <2>4. CASE Jump
    <3>1. playing' = playing
      BY <2>4 DEF Jump, JumpToBiggest, ClickNextError, ClickPrevError, GoTo
    <3>2. CASE JumpToBiggest
      <4>1. positions # << >>
        BY <1>1, <3>2 DEF JumpToBiggest, Panel
      <4>2. Biggest \in 0 .. N
        BY <1>1, <4>1, BiggestIs DEF Diagnosed
      <4>. QED
        BY <3>1, <3>2, <4>2 DEF JumpToBiggest, GoTo, PageInv
    <3>3. CASE ClickNextError
      <4>1. ErrorPlies # {} /\ ply \in Int
        BY <1>1, <3>3 DEF ClickNextError
      <4>2. NextError(ErrorPlies, ply) \in 0 .. N
        BY <1>1, <4>1, JumpsIn
      <4>. QED
        BY <3>1, <3>3, <4>2 DEF ClickNextError, GoTo, PageInv
    <3>4. CASE ClickPrevError
      <4>1. ErrorPlies # {} /\ ply \in Int
        BY <1>1, <3>4 DEF ClickPrevError
      <4>2. PrevError(ErrorPlies, ply) \in 0 .. N
        BY <1>1, <4>1, JumpsIn
      <4>. QED
        BY <3>1, <3>4, <4>2 DEF ClickPrevError, GoTo, PageInv
    <3>. QED
      BY <2>4, <3>2, <3>3, <3>4 DEF Jump
  <2>5. CASE TogglePlay
    BY <1>1, <2>5 DEF TogglePlay, PageInv
  <2>6. CASE Tick
    <3>1. playing \in BOOLEAN
      BY DEF PageInv
    <3>2. /\ playing' = playing \/ playing' = FALSE
          /\ ply' = ply \/ (~(ply >= N) /\ ply' = ply + 1)
      BY <2>6, Zenon DEF Tick
    <3>3. ply' \in 0 .. N
      BY <1>1, <3>2
    <3>. QED
      BY <3>1, <3>2, <3>3
  <2>. QED
    BY <2>1, <2>2, <2>3, <2>4, <2>5, <2>6 DEF Visitor, Navigate
<1>. QED
  BY <1>1, <1>2, <1>3 DEF PageInv, Frozen, Diagnosed, Analysed, GameOK, N, Ready
=============================================================================
