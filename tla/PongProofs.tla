------------------------------ MODULE PongProofs ------------------------------
(***************************************************************************)
(* What the pong game keeps in windows of all sizes it can be played in,   *)
(* for all frame times and movements of the mouse.                         *)
(***************************************************************************)
EXTENDS Pong, TLAPS

\* The paddle has a place whatever the window's height.
LEMMA PaddleAtIsInt ==
  ASSUME PongAssumption, NEW c \in Courts, NEW mouse \in Int
  PROVE  PaddleAt(mouse, c) \in Int
<1>1. PaddleHeight \div 2 \in Int /\ c.h - PaddleHeight \in Int
  BY DEF PongAssumption
<1>. QED  BY <1>1 DEF PaddleAt

\* Between the ceiling and the floor after the two tests of the walls.
LEMMA OffWallsIsInside ==
  ASSUME PongAssumption, NEW c \in Courts, NEW y \in Int, NEW v \in {1, -1}
  PROVE  /\ OffWalls(y, v, c.h) \in [y : Int, v : {1, -1}]
         /\ OffWalls(y, v, c.h).y \in 0 .. c.h - Ball
<1>1. c.h \in Nat /\ Ball \in Nat /\ c.h - Ball >= 0
  BY DEF PongAssumption
<1>2. CASE y < 0
  BY <1>1, <1>2 DEF OffWalls
<1>3. CASE ~(y < 0) /\ y > c.h - Ball
  BY <1>1, <1>3 DEF OffWalls
<1>4. CASE ~(y < 0) /\ ~(y > c.h - Ball)
  BY <1>1, <1>4 DEF OffWalls
<1>. QED  BY <1>2, <1>3, <1>4

\* The middle of a window is on it, and clear of the paddle.
LEMMA MiddleIsClear ==
  ASSUME PongAssumption, NEW c \in Courts
  PROVE  /\ c.w \div 2 \in Reach .. c.w - Ball
         /\ c.h \div 2 \in 0 .. c.h - Ball
<1>1. /\ Ball \in Nat /\ c.w \in Nat /\ c.h \in Nat /\ Reach \in Nat
      /\ c.w >= 2 * Ball /\ c.h >= 2 * Ball /\ c.w >= 2 * Reach
  BY DEF PongAssumption, Reach
<1>. QED  BY <1>1

\* The paddle and the sides: where the ball is after them, it is on the court
\* and clear of the paddle it was tested against.
LEMMA ReturnedIsInside ==
  ASSUME PongAssumption, NEW c \in Courts, NEW top \in Int,
         NEW x \in Int, NEW y \in 0 .. c.h - Ball,
         NEW vx \in {1, -1}, NEW vy \in {1, -1},
         Returned(x, y, vx, vy, c, top)
  PROVE  /\ ball' \in [x : Int, y : Int]
         /\ vel' \in [x : {1, -1}, y : {1, -1}]
         /\ ball'.x \in 0 .. c.w - Ball /\ ball'.y \in 0 .. c.h - Ball
         /\ ~Meets(ball'.x, ball'.y, top)
<1>. DEFINE hit == Meets(x, y, top)
            bx == IF hit THEN Reach ELSE x
            v == IF hit THEN 1 ELSE vx
<1>1. /\ Ball \in Nat /\ c.w \in Nat /\ c.h \in Nat /\ Reach \in Nat
      /\ PaddleHeight \in Nat
  BY DEF PongAssumption, Reach
<1>2. bx \in Int /\ v \in {1, -1} /\ ~Meets(bx, y, top)
  BY <1>1 DEF Meets
<1>3. IF bx < 0 \/ bx > c.w - Ball
        THEN ServeAnew(bx, y, v, vy, c)
        ELSE ball' = [x |-> bx, y |-> y] /\ vel' = [x |-> v, y |-> vy]
  BY Zenon DEF Returned
<1>. HIDE DEF hit, bx, v
<1>4. CASE bx < 0 \/ bx > c.w - Ball
  <2>1. ball' = [x |-> c.w \div 2, y |-> c.h \div 2] /\ vel' = [x |-> -v, y |-> vy]
    BY <1>3, <1>4 DEF ServeAnew
  <2>. QED  BY <1>1, <1>2, <2>1, MiddleIsClear DEF Meets
<1>5. CASE ~(bx < 0 \/ bx > c.w - Ball)
  BY <1>1, <1>2, <1>3, <1>5
<1>. QED  BY <1>4, <1>5

-----------------------------------------------------------------------------
\* Clearing the paddle alone is not inductive: a lost ball must be known to be
\* served between the walls.
PongInv == PongTypeOK /\ BallOnCourt /\ BallClearsPaddle

LEMMA PongInvInit == PongAssumption /\ PongInit => PongInv
<1>. SUFFICES ASSUME PongAssumption, PongInit  PROVE PongInv
  OBVIOUS
<1>1. /\ Reach \in Nat /\ Ball \in Nat /\ FirstCourt.w \in Nat /\ FirstCourt.h \in Nat
      /\ Serve.x \in Reach .. FirstCourt.w - Ball
      /\ Serve.y \in 0 .. FirstCourt.h - Ball
  BY DEF PongAssumption, Reach
<1>2. ball = Serve /\ court = FirstCourt /\ paddle = FirstPaddle
      /\ vel = [x |-> 1, y |-> 1]
  BY DEF PongInit
<1>3. BallOnCourt
  BY <1>1, <1>2 DEF BallOnCourt
<1>4. BallClearsPaddle
  BY <1>1, <1>2 DEF BallClearsPaddle, Meets
<1>. QED  BY <1>1, <1>2, <1>3, <1>4 DEF PongInv, PongTypeOK, PongAssumption

\* One call of gpi_update.
LEMMA PongUpdateStep ==
  ASSUME PongAssumption, PongInv, PongUpdate
  PROVE  PongInv'
<1>1. PICK c \in Courts, m \in Moves :
        /\ court' = c
        /\ paddle' \in {PaddleAt(mouse, c) : mouse \in MouseYs}
        /\ LET wall == OffWalls(ball.y + vel.y * m.y, vel.y, c.h)
           IN Returned(ball.x + vel.x * m.x, wall.y, vel.x, wall.v, c, paddle')
  BY DEF PongUpdate
<1>2. paddle' \in Int
  <2>1. PICK mouse \in MouseYs : paddle' = PaddleAt(mouse, c)
    BY <1>1
  <2>2. mouse \in Int
    BY <2>1 DEF MouseYs, PongAssumption
  <2>. QED  BY <2>1, <2>2, PaddleAtIsInt
<1>. DEFINE x == ball.x + vel.x * m.x
            y == ball.y + vel.y * m.y
            wall == OffWalls(y, vel.y, c.h)
<1>3. x \in Int /\ y \in Int /\ vel.x \in {1, -1} /\ vel.y \in {1, -1}
  BY DEF PongInv, PongTypeOK, PongAssumption
<1>4. Returned(x, wall.y, vel.x, wall.v, c, paddle')
  BY <1>1
<1>. HIDE DEF x, y
<1>5. wall.y \in 0 .. c.h - Ball /\ wall.v \in {1, -1}
  BY <1>3, OffWallsIsInside
<1>. HIDE DEF wall
<1>6. /\ ball' \in [x : Int, y : Int]
      /\ vel' \in [x : {1, -1}, y : {1, -1}]
      /\ ball'.x \in 0 .. c.w - Ball /\ ball'.y \in 0 .. c.h - Ball
      /\ ~Meets(ball'.x, ball'.y, paddle')
  BY <1>2, <1>3, <1>4, <1>5, ReturnedIsInside
<1>. QED  BY <1>1, <1>2, <1>6 DEF PongInv, PongTypeOK, BallOnCourt, BallClearsPaddle

LEMMA PongInvHolds == PongSpec => []PongInv
<1>1. PongInit => PongInv
  BY PongInvInit, PongAssumption
<1>2. PongInv /\ [PongUpdate]_pongVars => PongInv'
  <2>1. ASSUME PongInv, UNCHANGED pongVars
        PROVE  PongInv'
    BY <2>1 DEF PongInv, PongTypeOK, BallOnCourt, BallClearsPaddle, Meets, Reach,
                pongVars
  <2>. QED  BY <2>1, PongUpdateStep, PongAssumption
<1>. QED  BY <1>1, <1>2, PTL DEF PongSpec

-----------------------------------------------------------------------------
(* The theorems. *)

\* gpi_update, its walls, its paddle and its new serve: the whole of the ball is
\* in the window it was moved in, of whatever size.
THEOREM PongStaysOnCourt == PongSpec => []BallOnCourt
<1>1. PongInv => BallOnCourt
  BY DEF PongInv
<1>. QED  BY <1>1, PongInvHolds, PTL

\* gpi_update's paddle test: no frame shows the ball in or behind the paddle at
\* its height, however far a frame carries the one and the mouse the other.
THEOREM PongBallClearsPaddle == PongSpec => []BallClearsPaddle
<1>1. PongInv => BallClearsPaddle
  BY DEF PongInv
<1>. QED  BY <1>1, PongInvHolds, PTL
=============================================================================
