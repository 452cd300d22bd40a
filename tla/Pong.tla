--------------------------------- MODULE Pong ---------------------------------
(***************************************************************************)
(* plugins/pong/pong.cpp: the pong game's update, one call a frame, in a   *)
(* window the user may resize and with the mouse as the paddle.  Lengths   *)
(* are in a unit the instance chooses: the code's pixels, or coarser.      *)
(***************************************************************************)
EXTENDS Integers

CONSTANTS
  Courts,       \* window sizes, [w, h]
  FirstCourt,   \* the one the statics are compiled with, 1280 by 720
  Ball,         \* 20: the side of the ball
  PaddleX,      \* px = 40: the paddle's left edge
  PaddleWidth,  \* 12
  PaddleHeight, \* 80
  Serve,        \* {320, 200}: the ball as it is compiled, [x, y]
  FirstPaddle,  \* 260: the paddle as it is compiled
  Moves         \* how far a frame carries the ball, [x, y]: 220 and 180 times dt

Reach == PaddleX + PaddleWidth

\* No frame takes no time; the ball fits the window, and half the window is
\* clear of the paddle.
ASSUME PongAssumption ==
  /\ Ball \in Nat \ {0} /\ PaddleX \in Nat
  /\ PaddleWidth \in Nat /\ PaddleHeight \in Nat
  /\ \A m \in Moves : m.x \in Nat \ {0} /\ m.y \in Nat \ {0}
  /\ \A c \in Courts : c.w \in Nat /\ c.h \in Nat
                       /\ c.w >= 2 * Ball /\ c.h >= 2 * Ball /\ c.w >= 2 * Reach
  /\ FirstCourt \in Courts
  /\ FirstPaddle \in Int
  /\ Serve \in [x : Int, y : Int]
  /\ Serve.x \in Reach .. FirstCourt.w - Ball
  /\ Serve.y \in 0 .. FirstCourt.h - Ball

VARIABLES
  court,  \* fbw and fbh
  paddle, \* py
  ball,   \* bx and by
  vel     \* the signs of vx and vy

pongVars == <<court, paddle, ball, vel>>

PongInit ==
  /\ court = FirstCourt
  /\ paddle = FirstPaddle
  /\ ball = Serve
  /\ vel = [x |-> 1, y |-> 1]

\* The paddle's middle follows the mouse as far as the window reaches: both
\* tests are made, and in a window lower than the paddle the second wins.
PaddleAt(mouse, c) ==
  LET y == mouse - PaddleHeight \div 2
      top == IF y < 0 THEN 0 ELSE y
  IN IF top > c.h - PaddleHeight THEN c.h - PaddleHeight ELSE top

\* Mutant: the bottom is the window's, not the ball's.
OffWallsDeep(y, v, h) ==
  IF y < 0 THEN [y |-> 0, v |-> -v]
  ELSE IF y > h THEN [y |-> h, v |-> -v]
  ELSE [y |-> y, v |-> v]

\* Off the ceiling and off the floor, in that order.
OffWalls(y, v, h) ==
  IF y < 0 THEN [y |-> 0, v |-> -v]
  ELSE IF y > h - Ball THEN [y |-> h - Ball, v |-> -v]
  ELSE [y |-> y, v |-> v]

\* A ball at the height of the paddle, in front of it or anywhere behind.
Meets(x, y, top) == x < Reach /\ y + Ball > top /\ y < top + PaddleHeight

\* Mutant: a ball that is lost is served again the way it was going.
ServeAnewStraight(x, y, vx, vy, c) ==
  /\ ball' = [x |-> c.w \div 2, y |-> c.h \div 2]
  /\ vel' = [x |-> vx, y |-> vy]

\* From the middle, the other way.
ServeAnew(x, y, vx, vy, c) ==
  /\ ball' = [x |-> c.w \div 2, y |-> c.h \div 2]
  /\ vel' = [x |-> -vx, y |-> vy]

\* After the walls: off the paddle, and then past the sides.
Returned(x, y, vx, vy, c, top) ==
  LET hit == Meets(x, y, top)
      bx == IF hit THEN Reach ELSE x
      v == IF hit THEN 1 ELSE vx
  IN IF bx < 0 \/ bx > c.w - Ball
       THEN ServeAnew(bx, y, v, vy, c)
       ELSE ball' = [x |-> bx, y |-> y] /\ vel' = [x |-> v, y |-> vy]

\* Where the mouse moved last in this frame, in this window or before it was
\* resized; 0 in every frame in which it has not moved.
MouseYs == UNION {0 .. c.h : c \in Courts}

\* Mutant: the ball meets the paddle of the frame before.
PongUpdateLate ==
  \E c \in Courts, m \in Moves :
    /\ court' = c
    /\ paddle' \in {PaddleAt(mouse, c) : mouse \in MouseYs}
    /\ LET wall == OffWalls(ball.y + vel.y * m.y, vel.y, c.h)
       IN Returned(ball.x + vel.x * m.x, wall.y, vel.x, wall.v, c, paddle)

\* gpi_update.
PongUpdate ==
  \E c \in Courts, m \in Moves :
    /\ court' = c
    /\ paddle' \in {PaddleAt(mouse, c) : mouse \in MouseYs}
    /\ LET wall == OffWalls(ball.y + vel.y * m.y, vel.y, c.h)
       IN Returned(ball.x + vel.x * m.x, wall.y, vel.x, wall.v, c, paddle')

PongSpec == PongInit /\ [][PongUpdate]_pongVars
-----------------------------------------------------------------------------
(* Correctness *)

PongTypeOK ==
  /\ court \in Courts
  /\ paddle \in Int
  /\ ball \in [x : Int, y : Int]
  /\ vel \in [x : {1, -1}, y : {1, -1}]

\* Whatever is drawn, the whole of the ball is in the window as it is in that
\* frame, however the window was resized and whatever the ball met.
BallOnCourt ==
  ball.x \in 0 .. court.w - Ball /\ ball.y \in 0 .. court.h - Ball

\* The paddle and the ball that are drawn never overlap, nor is the ball behind
\* the paddle at its height: it is the paddle of this frame that is met, after
\* the walls and before the sides.
BallClearsPaddle == ~Meets(ball.x, ball.y, paddle)

\* The ball goes to and fro for as long as there are frames: no paddle, side or
\* change of the window keeps it going one way.
BallKeepsGoing == []<>(vel.x = 1) /\ []<>(vel.x = -1)
=============================================================================
