------------------------------- MODULE MCGames -------------------------------
(* Instances of Games for TLC: windows as small as the games allow. *)
EXTENDS Games

\* A window that is made narrower and wider again, in cells.
TwoBoards == {[cols |-> 6, rows |-> 5], [cols |-> 5, rows |-> 5]}
DefaultBoard == [cols |-> 6, rows |-> 5]
StartCell == <<5, 5>>

\* And in balls for Pong, down to a window lower than the paddle.
ThreeCourts == {[w |-> 7, h |-> 6], [w |-> 6, h |-> 5], [w |-> 6, h |-> 3]}
WideCourt == [w |-> 7, h |-> 6]
FirstServe == [x |-> 3, y |-> 2]
ShortAndLong == {[x |-> 1, y |-> 1], [x |-> 3, y |-> 2]}

CONSTANT MaxLength
ShortSnakes == Len(snake) < MaxLength
=============================================================================
