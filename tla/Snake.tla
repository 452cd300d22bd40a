-------------------------------- MODULE Snake --------------------------------
(***************************************************************************)
(* plugins/snake/snake.cpp: the snake game's update, one call a frame, in  *)
(* a window the user may resize and with the mouse as the helm.            *)
(***************************************************************************)
EXTENDS Integers, Sequences, Functions

CONSTANTS
  Boards,    \* board sizes in cells, [cols, rows], the window may have
  Default,   \* the one of them gpi_init finds: cols and rows before any frame
  Start      \* {5,5}: the cell a snake starts from, as <<column, row>>

\* spawn_food() takes rand() modulo cols-4 and rows-4: a narrower window makes
\* that a division by zero.
ASSUME SnakeAssumption ==
  /\ \A b \in Boards : b.cols \in Nat /\ b.rows \in Nat /\ b.cols > 4 /\ b.rows > 4
  /\ Default \in Boards
  /\ Start \in Nat \X Nat

VARIABLES
  board,  \* cols and rows
  snake,  \* the deque of cells, the head first
  dir,    \* <<dirx, diry>>
  food    \* <<foodx, foody>>

vars == <<board, snake, dir, food>>

Dirs == {<<1, 0>>, <<-1, 0>>, <<0, 1>>, <<0, -1>>}

\* Where spawn_food() may put it.
FoodCells(b) == (2 .. b.cols - 3) \X (2 .. b.rows - 3)

\* The cells the mouse can be over: a strip narrower than a cell may follow the
\* last column and row.  It reads as the corner <<0, 0>> in every frame in which
\* it has not moved.
MouseCells(b) == (0 .. b.cols) \X (0 .. b.rows)

\* gpi_init: food is put down before the first frame tells the window's size.
Init ==
  /\ board = Default
  /\ snake = <<Start>>
  /\ dir = <<1, 0>>
  /\ food \in FoodCells(board)

\* Mutant: a turn to the side keeps the way up or down.
SteerDiagonally(d, head, mouse) ==
  IF mouse[2] < head[2] THEN <<0, -1>>
  ELSE IF mouse[2] > head[2] THEN <<0, 1>>
  ELSE IF mouse[1] < head[1] THEN <<-1, d[2]>>
  ELSE IF mouse[1] > head[1] THEN <<1, d[2]>>
  ELSE d

\* The helm: four tests one after the other, so that the rows win.
Steer(d, head, mouse) ==
  IF mouse[2] < head[2] THEN <<0, -1>>
  ELSE IF mouse[2] > head[2] THEN <<0, 1>>
  ELSE IF mouse[1] < head[1] THEN <<-1, 0>>
  ELSE IF mouse[1] > head[1] THEN <<1, 0>>
  ELSE d

\* Mutant: the far edge is one too far.
WrapLate(x, n) == IF x < 0 THEN n - 1 ELSE IF x > n THEN 0 ELSE x

\* Over the edge and in again on the other side.
Wrap(x, n) == IF x < 0 THEN n - 1 ELSE IF x >= n THEN 0 ELSE x

NextHead(b, d) ==
  <<Wrap(snake[1][1] + d[1], b.cols), Wrap(snake[1][2] + d[2], b.rows)>>

\* Mutant: only the neck is looked at.
HitsItselfNeck(h) == Len(snake) > 1 /\ h = snake[2]

HitsItself(h) == h \in Range(snake)

Reset(b) == snake' = <<Start>> /\ food' \in FoodCells(b)

\* On to the next cell, a meal leaves the tail where it is.
Advance(b, h) ==
  IF h = food
    THEN snake' = <<h>> \o snake /\ food' \in FoodCells(b)
    ELSE snake' = <<h>> \o SubSeq(snake, 1, Len(snake) - 1) /\ UNCHANGED food

\* gpi_update: the window as it is now, the helm, and, when 0.09 seconds have
\* gathered, one cell ahead.
Update ==
  \E b \in Boards, due \in BOOLEAN :
    /\ board' = b
    /\ dir' \in {Steer(dir, snake[1], mouse) : mouse \in MouseCells(b)}
    /\ IF ~due THEN UNCHANGED <<snake, food>>
       ELSE LET h == NextHead(b, dir')
            IN IF HitsItself(h) THEN Reset(b) ELSE Advance(b, h)

Next == Update

Spec == Init /\ [][Next]_vars
-----------------------------------------------------------------------------
(* Correctness *)

\* Cells may lie beyond a window that has become smaller.
TypeOK ==
  /\ board \in Boards
  /\ snake \in Seq(Int \X Int) /\ snake # <<>>
  /\ dir \in Dirs
  /\ food \in Nat \X Nat

\* The snake never lies over itself, whatever the helm does and however the
\* window changes: the test against the whole body comes before the tail moves.
NeverOverlaps == \A i, j \in DOMAIN snake : snake[i] = snake[j] => i = j

OnBoard(c, b) == c[1] \in 0 .. b.cols - 1 /\ c[2] \in 0 .. b.rows - 1

\* A step of the snake ends on the board as it is in that step, from wherever a
\* resize has left the head: only a reset to {5,5} can put it elsewhere.
HeadEndsOnBoard ==
  [][snake' # snake /\ snake' # <<Start>> => OnBoard(snake'[1], board')]_vars
=============================================================================
