----------------------------- MODULE SnakeProofs -----------------------------
(***************************************************************************)
(* What the snake game keeps for all window sizes it can be played in,     *)
(* lengths of the snake and movements of the mouse.                        *)
(***************************************************************************)
EXTENDS Snake, TLAPS

USE SnakeAssumption

Cells == Int \X Int

\* On each axis one cell on, and in again on the other side.
LEMMA WrapIsOnBoard ==
  ASSUME NEW x \in Int, NEW n \in Nat, n > 0
  PROVE  Wrap(x, n) \in 0 .. n - 1
  BY DEF Wrap

LEMMA SteerIsDir ==
  ASSUME NEW d \in Dirs, NEW head, NEW mouse
  PROVE  Steer(d, head, mouse) \in Dirs
  BY DEF Steer, Dirs

LEMMA NextHeadIsOnBoard ==
  ASSUME TypeOK, NEW b \in Boards, NEW d \in Dirs
  PROVE  NextHead(b, d) \in Cells /\ OnBoard(NextHead(b, d), b)
<1>1. snake[1] \in Cells
  BY DEF TypeOK, Cells
<1>2. d[1] \in Int /\ d[2] \in Int
  BY DEF Dirs
<1>3. snake[1][1] + d[1] \in Int /\ snake[1][2] + d[2] \in Int
  BY <1>1, <1>2 DEF Cells
<1>. DEFINE x == Wrap(snake[1][1] + d[1], b.cols)
            y == Wrap(snake[1][2] + d[2], b.rows)
<1>4. x \in 0 .. b.cols - 1 /\ y \in 0 .. b.rows - 1
  <2>1. b.cols \in Nat /\ b.cols > 0 /\ b.rows \in Nat /\ b.rows > 0
    OBVIOUS
  <2>2. x \in 0 .. b.cols - 1
    BY <1>3, <2>1, WrapIsOnBoard
  <2>3. y \in 0 .. b.rows - 1
    BY <1>3, <2>1, WrapIsOnBoard
  <2>. QED  BY <2>2, <2>3
<1>5. NextHead(b, d) = <<x, y>>
  BY DEF NextHead
<1>. HIDE DEF x, y
<1>. QED  BY <1>4, <1>5 DEF OnBoard, Cells

\* One cell in front of a body it does not touch, with or without the tail.
LEMMA GrowKeepsApart ==
  ASSUME NEW s \in Seq(Cells), \A i, j \in DOMAIN s : s[i] = s[j] => i = j,
         NEW h \in Cells, \A i \in DOMAIN s : h # s[i]
  PROVE  /\ <<h>> \o s \in Seq(Cells)
         /\ (<<h>> \o s)[1] = h
         /\ \A i, j \in DOMAIN (<<h>> \o s) :
              (<<h>> \o s)[i] = (<<h>> \o s)[j] => i = j
<1>. DEFINE t == <<h>> \o s
<1>1. t \in Seq(Cells) /\ Len(t) = Len(s) + 1 /\ t[1] = h
  OBVIOUS
<1>2. \A i \in 2 .. Len(t) : t[i] = s[i - 1] /\ i - 1 \in DOMAIN s
  OBVIOUS
<1>3. DOMAIN t = 1 .. Len(t)
  BY <1>1
<1>. HIDE DEF t
<1>4. ASSUME NEW i \in DOMAIN t, NEW j \in DOMAIN t, t[i] = t[j]
      PROVE  i = j
  BY <1>1, <1>2, <1>3, <1>4
<1>. QED  BY <1>1, <1>4 DEF t

LEMMA DropTailKeepsApart ==
  ASSUME NEW s \in Seq(Cells), s # <<>>,
         \A i, j \in DOMAIN s : s[i] = s[j] => i = j
  PROVE  LET t == SubSeq(s, 1, Len(s) - 1)
         IN  /\ t \in Seq(Cells)
             /\ DOMAIN t = 1 .. Len(s) - 1
             /\ \A i \in DOMAIN t : t[i] = s[i] /\ i \in DOMAIN s
             /\ \A i, j \in DOMAIN t : t[i] = t[j] => i = j
  OBVIOUS

LEMMA StartIsApart ==
  /\ <<Start>> \in Seq(Cells) /\ <<Start>> # <<>>
  /\ \A i, j \in DOMAIN <<Start>> : <<Start>>[i] = <<Start>>[j] => i = j
<1>1. Start \in Cells
  BY DEF Cells
<1>. QED  BY <1>1

LEMMA FoodIsNat ==
  ASSUME NEW b \in Boards
  PROVE  FoodCells(b) \subseteq Nat \X Nat
  BY DEF FoodCells

-----------------------------------------------------------------------------
Inv == TypeOK /\ NeverOverlaps

LEMMA InvInit == Init => Inv
  BY StartIsApart, FoodIsNat DEF Init, Inv, TypeOK, NeverOverlaps, Dirs, Cells

LEMMA AdvanceKeepsApart ==
  ASSUME Inv, NEW b \in Boards, NEW h \in Cells, ~HitsItself(h), Advance(b, h)
  PROVE  /\ snake' \in Seq(Cells) /\ snake' # <<>> /\ snake'[1] = h
         /\ NeverOverlaps'
         /\ food' \in Nat \X Nat
<1>1. snake \in Seq(Cells) /\ snake # <<>> /\ food \in Nat \X Nat
  BY DEF Inv, TypeOK, Cells
<1>2. \A i, j \in DOMAIN snake : snake[i] = snake[j] => i = j
  BY DEF Inv, NeverOverlaps
<1>3. \A i \in DOMAIN snake : h # snake[i]
  BY DEF HitsItself, Range
<1>4. CASE h = food
  <2>1. snake' = <<h>> \o snake /\ food' \in FoodCells(b)
    BY <1>4 DEF Advance
  <2>2. snake' \in Seq(Cells) /\ snake'[1] = h
        /\ \A i, j \in DOMAIN snake' : snake'[i] = snake'[j] => i = j
    BY <1>1, <1>2, <1>3, <2>1, GrowKeepsApart
  <2>3. snake' # <<>>
    BY <1>1, <2>1
  <2>. QED  BY <2>1, <2>2, <2>3, FoodIsNat DEF NeverOverlaps
<1>5. CASE h # food
  <2>. DEFINE t == SubSeq(snake, 1, Len(snake) - 1)
  <2>1. snake' = <<h>> \o t /\ food' = food
    BY <1>5 DEF Advance
  <2>2. /\ t \in Seq(Cells)
        /\ \A i \in DOMAIN t : t[i] = snake[i] /\ i \in DOMAIN snake
        /\ \A i, j \in DOMAIN t : t[i] = t[j] => i = j
    BY <1>1, <1>2, DropTailKeepsApart
  <2>. HIDE DEF t
  <2>3. \A i \in DOMAIN t : h # t[i]
    BY <1>3, <2>2
  <2>4. snake' \in Seq(Cells) /\ snake'[1] = h
        /\ \A i, j \in DOMAIN snake' : snake'[i] = snake'[j] => i = j
    BY <2>1, <2>2, <2>3, GrowKeepsApart
  <2>5. snake' # <<>>
    BY <2>1, <2>2
  <2>. QED  BY <1>1, <2>1, <2>4, <2>5 DEF NeverOverlaps
<1>. QED  BY <1>4, <1>5

\* One call of gpi_update, with all that the theorems say of it.
LEMMA UpdateStep ==
  ASSUME Inv, Update
  PROVE  /\ Inv'
         /\ snake' # snake /\ snake' # <<Start>> => OnBoard(snake'[1], board')
<1>1. PICK b \in Boards, due \in BOOLEAN :
        /\ board' = b
        /\ dir' \in {Steer(dir, snake[1], mouse) : mouse \in MouseCells(b)}
        /\ IF ~due THEN UNCHANGED <<snake, food>>
           ELSE LET h == NextHead(b, dir')
                IN IF HitsItself(h) THEN Reset(b) ELSE Advance(b, h)
  BY DEF Update
<1>2. dir' \in Dirs
  BY <1>1, SteerIsDir DEF Inv, TypeOK
<1>. DEFINE h == NextHead(b, dir')
<1>3. h \in Cells /\ OnBoard(h, b)
  BY <1>2, NextHeadIsOnBoard DEF Inv
<1>. HIDE DEF h
<1>4. CASE ~due
  BY <1>1, <1>2, <1>4 DEF Inv, TypeOK, NeverOverlaps
<1>5. CASE due /\ Reset(b)
  BY <1>1, <1>2, <1>5, StartIsApart, FoodIsNat
     DEF Reset, Inv, TypeOK, NeverOverlaps, Cells
<1>6. CASE due /\ ~HitsItself(h) /\ Advance(b, h)
  BY <1>1, <1>2, <1>3, <1>6, AdvanceKeepsApart DEF Inv, TypeOK, Cells
<1>. QED  BY <1>1, <1>4, <1>5, <1>6 DEF h

LEMMA InvHolds == Spec => []Inv
<1>1. Init => Inv
  BY InvInit
<1>2. Inv /\ [Next]_vars => Inv'
  <2>1. ASSUME Inv, UNCHANGED vars
        PROVE  Inv'
    BY <2>1 DEF Inv, TypeOK, NeverOverlaps, vars
  <2>. QED  BY <2>1, UpdateStep DEF Next
<1>. QED  BY <1>1, <1>2, PTL DEF Spec

-----------------------------------------------------------------------------
(* The theorems. *)

\* gpi_init and gpi_update: the state keeps its types, and the snake at least
\* its head.
THEOREM SnakeTypeCorrect == Spec => []TypeOK
<1>1. Inv => TypeOK
  BY DEF Inv
<1>. QED  BY <1>1, InvHolds, PTL

\* The test of gpi_update against the whole body, before the push and the pop:
\* no two parts of a snake of any length are ever in one cell.
THEOREM SnakeStaysApart == Spec => []NeverOverlaps
<1>1. Inv => NeverOverlaps
  BY DEF Inv
<1>. QED  BY <1>1, InvHolds, PTL

\* The wrap of gpi_update: a step ends on the board as it is in that step,
\* wherever a resize has left the head.
THEOREM SnakeStaysOnBoard == Spec => HeadEndsOnBoard
<1>1. Inv /\ [Next]_vars =>
        [snake' # snake /\ snake' # <<Start>> => OnBoard(snake'[1], board')]_vars
  BY UpdateStep DEF Next
<1>. QED  BY <1>1, InvHolds, PTL DEF Spec, HeadEndsOnBoard
=============================================================================
