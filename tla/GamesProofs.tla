----------------------------- MODULE GamesProofs -----------------------------
(***************************************************************************)
(* The games in the host's frame loop, through every load, unload and swap *)
(* and with draw lists of any size: what each game keeps by itself it also *)
(* keeps here, and the screen shows the game that is played.               *)
(***************************************************************************)
EXTENDS Games, SnakeProofs, PongProofs

Phases == {"update", "lists", "render", "panel"}

\* What the loaded game has put on an empty screen.
Drawn ==
  CASE game = "none" -> <<>>
    [] game = "pong" -> PongRects
    [] game = "snake" -> AtMost(MaxRects, SnakeRects)

\* No plugin is ever given a draw list, so the host's stays empty and every
\* frame starts from an empty screen.
DrawInv ==
  /\ phase \in Phases
  /\ game \in Loadable \cup {"none"}
  /\ ~DL_PTR /\ ~plugin_dl
  /\ quads = <<>>
  /\ phase = "render" => screen = <<>>
  /\ phase = "panel" => screen = Drawn

GamesInv == Inv /\ PongInv /\ DrawInv

-----------------------------------------------------------------------------
(* The games at rest and at their start. *)

LEMMA RestIsGood == SnakeAtRest => Inv'
  BY StartIsApart, SnakeAssumption
     DEF SnakeAtRest, Inv, TypeOK, NeverOverlaps, Dirs, Cells

LEMMA InitIsGood ==
  ASSUME board' = Default, dir' = <<1, 0>>, Reset(Default)
  PROVE  Inv'
  BY StartIsApart, FoodIsNat, SnakeAssumption
     DEF Reset, Inv, TypeOK, NeverOverlaps, Dirs, Cells

LEMMA PongRestIsGood == PongAtRest => PongInv'
<1>. SUFFICES ASSUME PongAtRest  PROVE PongInv'
  OBVIOUS
<1>1. /\ Reach \in Nat /\ Ball \in Nat /\ FirstCourt.w \in Nat /\ FirstCourt.h \in Nat
      /\ Serve.x \in Reach .. FirstCourt.w - Ball
      /\ Serve.y \in 0 .. FirstCourt.h - Ball
  BY PongAssumption DEF PongAssumption, Reach
<1>2. ball' = Serve /\ court' = FirstCourt /\ paddle' = FirstPaddle
      /\ vel' = [x |-> 1, y |-> 1]
  BY DEF PongAtRest
<1>3. BallOnCourt' /\ BallClearsPaddle'
  BY <1>1, <1>2 DEF BallOnCourt, BallClearsPaddle, Meets, Reach
<1>4. PongTypeOK'
  BY <1>2, PongAssumption DEF PongTypeOK, PongAssumption
<1>. QED  BY <1>3, <1>4 DEF PongInv

LEMMA GpiInitIsGood ==
  ASSUME DrawInv, NEW g \in Loadable, GpiInit(g)
  PROVE  Inv' /\ PongInv' /\ game' \in Loadable /\ ~plugin_dl'
         /\ (snake' # snake /\ snake' # <<Start>> => OnBoard(snake'[1], board'))
<1>1. game' \in Loadable /\ ~plugin_dl' /\ PongAtRest
  BY Zenon DEF GpiInit, GivenDrawList, DrawInv
<1>2. SnakeAtRest \/ (board' = Default /\ dir' = <<1, 0>> /\ Reset(Default))
  BY Zenon DEF GpiInit
<1>3. snake' = <<Start>>
  BY <1>2 DEF SnakeAtRest, Reset
<1>. QED  BY <1>1, <1>2, <1>3, RestIsGood, InitIsGood, PongRestIsGood

-----------------------------------------------------------------------------
(* Steps *)

LEMMA GamesInvInit == GamesInit => GamesInv
<1>. SUFFICES ASSUME GamesInit  PROVE GamesInv
  OBVIOUS
<1>1. Inv
  BY StartIsApart, SnakeAssumption
     DEF GamesInit, Inv, TypeOK, NeverOverlaps, Dirs, Cells
<1>2. PongInv
  BY PongInvInit, PongAssumption DEF GamesInit
<1>3. DrawInv
  BY DEF GamesInit, DrawInv, Phases
<1>. QED  BY <1>1, <1>2, <1>3 DEF GamesInv

\* A step that leaves the games alone leaves their invariants.
LEMMA SnakeUnchanged == Inv /\ UNCHANGED snakeVars => Inv'
  BY DEF Inv, TypeOK, NeverOverlaps, snakeVars, vars

LEMMA PongUnchanged == PongInv /\ UNCHANGED pongVars => PongInv'
  BY DEF PongInv, PongTypeOK, BallOnCourt, BallClearsPaddle, Meets, Reach, pongVars

HeadStep == snake' # snake /\ snake' # <<Start>> => OnBoard(snake'[1], board')

LEMMA CallUpdateStep ==
  ASSUME GamesInv, CallUpdate
  PROVE  GamesInv' /\ HeadStep
<1>1. DrawInv'
  BY DEF CallUpdate, GamesInv, DrawInv, drawVars, Phases
<1>2. CASE UpdateSnake
  BY <1>1, <1>2, UpdateStep, PongUnchanged DEF UpdateSnake, GamesInv, HeadStep
<1>3. CASE UpdatePong
  BY <1>1, <1>3, PongUpdateStep, PongAssumption, SnakeUnchanged
     DEF UpdatePong, GamesInv, HeadStep, snakeVars, vars
<1>4. CASE NoPlugin
  BY <1>1, <1>4, SnakeUnchanged, PongUnchanged
     DEF NoPlugin, GamesInv, HeadStep, snakeVars, vars
<1>. QED  BY <1>2, <1>3, <1>4 DEF CallUpdate

LEMMA RenderListsStep ==
  ASSUME GamesInv, RenderLists
  PROVE  GamesInv' /\ HeadStep
<1>1. screen' = <<>>
  BY DEF RenderLists, GamesInv, DrawInv
<1>2. DrawInv'
  BY <1>1 DEF RenderLists, GamesInv, DrawInv, drawVars, Phases
<1>. QED  BY <1>2, SnakeUnchanged, PongUnchanged
          DEF RenderLists, GamesInv, HeadStep, snakeVars, vars

\* A game that was given no list draws onto the empty screen.
LEMMA CallRenderStep ==
  ASSUME GamesInv, CallRender
  PROVE  GamesInv' /\ HeadStep
<1>1. UNCHANGED <<snakeVars, pongVars, dl_host, DL_PTR, plugin_dl, game>>
      /\ phase = "render" /\ phase' = "panel"
  BY DEF CallRender
<1>2. screen = <<>> /\ ~plugin_dl /\ quads = <<>>
      /\ game \in {"snake", "pong", "none"}
  BY <1>1 DEF GamesInv, DrawInv, Loadable
<1>3. Drawn' = Drawn
  BY <1>1 DEF Drawn, PongRects, SnakeRects, AtMost, snakeVars, vars, pongVars
<1>4. screen' = Drawn /\ quads' = <<>>
  <2>1. CASE game = "none"
    BY <1>2, <2>1 DEF CallRender, Drawn
  <2>2. CASE game = "pong"
    <3>1. screen' = screen \o AtMost(Len(PongRects), PongRects) /\ quads' = quads
      BY <1>2, <2>2 DEF CallRender, Render
    <3>2. AtMost(Len(PongRects), PongRects) = PongRects
      BY DEF AtMost, PongRects
    <3>. QED  BY <1>2, <2>2, <3>1, <3>2 DEF Drawn, PongRects
  <2>3. CASE game = "snake"
    <3>1. screen' = screen \o AtMost(MaxRects, SnakeRects) /\ quads' = quads
      BY <1>2, <2>3 DEF CallRender, Render
    <3>2. SnakeRects \in Seq({"cell", "food"} \X (Cells \cup (Nat \X Nat)))
      BY DEF SnakeRects, GamesInv, Inv, TypeOK, Cells
    <3>3. AtMost(MaxRects, SnakeRects) \in Seq({"cell", "food"} \X (Cells \cup (Nat \X Nat)))
      BY <3>2, ScreenAssumption DEF AtMost, ScreenAssumption
    <3>. HIDE DEF Cells
    <3>. QED  BY <1>2, <2>3, <3>1, <3>3 DEF Drawn
  <2>. QED  BY <1>2, <2>1, <2>2, <2>3
<1>5. DrawInv'
  BY <1>1, <1>2, <1>3, <1>4 DEF GamesInv, DrawInv, Phases
<1>. QED  BY <1>1, <1>5, SnakeUnchanged, PongUnchanged
          DEF GamesInv, HeadStep, snakeVars, vars

LEMMA DrawPanelStep ==
  ASSUME GamesInv, DrawPanel
  PROVE  GamesInv' /\ HeadStep
<1>1. phase' = "update"
  BY DEF DrawPanel
<1>2. CASE PanelIdle
  BY <1>1, <1>2, SnakeUnchanged, PongUnchanged
     DEF PanelIdle, GamesInv, DrawInv, HeadStep, snakeVars, vars, drawVars, Phases
<1>3. CASE PanelLoad
  <2>1. PICK g \in Loadable : GpiInit(g)
    BY <1>3 DEF PanelLoad
  <2>2. DrawInv'
    BY <1>1, <1>3, <2>1, GpiInitIsGood DEF PanelLoad, GamesInv, DrawInv, Phases
  <2>. QED  BY <2>1, <2>2, GpiInitIsGood DEF GamesInv, HeadStep
<1>4. CASE PanelUnload
  <2>1. DrawInv'
    BY <1>1, <1>4 DEF PanelUnload, GamesInv, DrawInv, Phases
  <2>2. SnakeAtRest /\ PongAtRest
    BY <1>4 DEF PanelUnload
  <2>. QED  BY <2>1, <2>2, RestIsGood, PongRestIsGood
            DEF GamesInv, HeadStep, SnakeAtRest
<1>5. CASE PanelSwap
  <2>1. PICK g \in Loadable : GpiInit(g)
    BY <1>5 DEF PanelSwap
  <2>2. DrawInv'
    BY <1>1, <1>5, <2>1, GpiInitIsGood DEF PanelSwap, GamesInv, DrawInv, Phases
  <2>. QED  BY <2>1, <2>2, GpiInitIsGood DEF GamesInv, HeadStep
<1>. QED  BY <1>2, <1>3, <1>4, <1>5 DEF DrawPanel

LEMMA GamesStep ==
  ASSUME GamesInv, GamesNext
  PROVE  GamesInv' /\ HeadStep
  BY CallUpdateStep, RenderListsStep, CallRenderStep, DrawPanelStep DEF GamesNext

LEMMA GamesInvHolds == GamesSpec => []GamesInv
<1>1. GamesInv /\ [GamesNext]_gamesVars => GamesInv'
  <2>1. ASSUME GamesInv, UNCHANGED gamesVars
        PROVE  GamesInv'
    <3>1. DrawInv'
      BY <2>1 DEF GamesInv, DrawInv, Drawn, PongRects, SnakeRects, AtMost,
                  gamesVars, snakeVars, vars, pongVars, drawVars
    <3>. QED  BY <2>1, <3>1, SnakeUnchanged, PongUnchanged DEF GamesInv, gamesVars
  <2>. QED  BY <2>1, GamesStep
<1>. QED  BY <1>1, GamesInvInit, PTL DEF GamesSpec

-----------------------------------------------------------------------------
(* The screen *)

LEMMA SnakeIsShown ==
  ASSUME Inv, screen = AtMost(MaxRects, SnakeRects)
  PROVE  LET shown == {<<"cell", c>> : c \in Range(snake)} \cup {<<"food", food>>}
         IN  /\ OnScreen \subseteq shown
             /\ <<"cell", snake[1]>> \in OnScreen
             /\ Len(snake) < MaxRects => OnScreen = shown
<1>. DEFINE n == Len(snake)
            shown == {<<"cell", c>> : c \in Range(snake)} \cup {<<"food", food>>}
<1>1. n \in Nat /\ n >= 1 /\ DOMAIN snake = 1 .. n /\ MaxRects \in Nat /\ MaxRects >= 1
  BY ScreenAssumption DEF Inv, TypeOK, ScreenAssumption
<1>2. /\ Len(SnakeRects) = n + 1 /\ DOMAIN SnakeRects = 1 .. n + 1
      /\ \A i \in 1 .. n : SnakeRects[i] = <<"cell", snake[i]>>
      /\ SnakeRects[n + 1] = <<"food", food>>
  BY DEF SnakeRects, Inv, TypeOK
<1>3. \A i \in 1 .. n + 1 : SnakeRects[i] \in shown
  <2>1. ASSUME NEW i \in 1 .. n
        PROVE  SnakeRects[i] \in shown
    <3>1. snake[i] \in Range(snake)
      BY <1>1 DEF Range
    <3>2. SnakeRects[i] = <<"cell", snake[i]>>
      BY <1>2
    <3>. QED  BY <3>1, <3>2
  <2>2. SnakeRects[n + 1] \in shown
    BY <1>2
  <2>3. \A i \in 1 .. n + 1 : i \in 1 .. n \/ i = n + 1
    BY <1>1
  <2>. HIDE DEF shown, n
  <2>. QED  BY <2>1, <2>2, <2>3
<1>4. /\ DOMAIN screen \subseteq 1 .. n + 1 /\ 1 \in DOMAIN screen
      /\ \A i \in DOMAIN screen : screen[i] = SnakeRects[i]
      /\ n < MaxRects => DOMAIN screen = 1 .. n + 1
  BY <1>1, <1>2 DEF AtMost
<1>5. OnScreen \subseteq shown
  BY <1>3, <1>4 DEF OnScreen
<1>6. <<"cell", snake[1]>> \in OnScreen
  <2>1. 1 \in 1 .. n
    BY <1>1
  <2>2. screen[1] = <<"cell", snake[1]>>
    BY <1>2, <1>4, <2>1
  <2>3. screen[1] \in OnScreen
    BY <1>4 DEF OnScreen
  <2>. QED  BY <2>2, <2>3
<1>7. ASSUME n < MaxRects
      PROVE  shown \subseteq OnScreen
  <2>1. \A i \in 1 .. n + 1 : SnakeRects[i] \in OnScreen
    <3>1. DOMAIN screen = 1 .. n + 1
      BY <1>4, <1>7
    <3>. QED  BY <1>4, <3>1 DEF OnScreen
  <2>2. ASSUME NEW c \in Range(snake)
        PROVE  <<"cell", c>> \in OnScreen
    <3>1. PICK i \in 1 .. n : c = snake[i]
      BY <1>1 DEF Range
    <3>2. i \in 1 .. n + 1 /\ SnakeRects[i] = <<"cell", snake[i]>>
      BY <1>1, <1>2
    <3>. QED  BY <2>1, <3>1, <3>2
  <2>3. <<"food", food>> \in OnScreen
    BY <1>1, <1>2, <2>1
  <2>. QED  BY <2>2, <2>3
<1>. QED  BY <1>5, <1>6, <1>7

LEMMA InvShowsGame == GamesInv => ScreenShowsGame
<1>. SUFFICES ASSUME GamesInv, phase = "panel"  PROVE ScreenShowsGame
  BY DEF ScreenShowsGame
<1>1. screen = Drawn /\ game \in {"snake", "pong", "none"}
  BY DEF GamesInv, DrawInv, Loadable
<1>2. CASE game = "none"
  BY <1>1, <1>2 DEF ScreenShowsGame, Drawn
<1>3. CASE game = "pong"
  BY <1>1, <1>3 DEF ScreenShowsGame, Drawn
<1>4. CASE game = "snake"
  <2>1. screen = AtMost(MaxRects, SnakeRects)
    BY <1>1, <1>4 DEF Drawn
  <2>. QED  BY <1>4, <2>1, SnakeIsShown DEF ScreenShowsGame, GamesInv
<1>. QED  BY <1>1, <1>2, <1>3, <1>4

-----------------------------------------------------------------------------
(* The theorems. *)

\* The order of a frame, gpi_update, render_drawlist_v1 and v15, gpi_render, and
\* the getters that hand out what make_host_api found: what a frame shows is the
\* game of that frame, for snakes of any length and lists of any size.
THEOREM ScreenIsTheGame == GamesSpec => []ScreenShowsGame
  BY GamesInvHolds, InvShowsGame, PTL

\* Loading, unloading and swapping from the panel disturb nothing of what the
\* games promise.
THEOREM GamesStaySound ==
  GamesSpec => [](TypeOK /\ NeverOverlaps /\ BallOnCourt /\ BallClearsPaddle)
<1>1. GamesInv => TypeOK /\ NeverOverlaps /\ BallOnCourt /\ BallClearsPaddle
  BY DEF GamesInv, Inv, PongInv
<1>. QED  BY <1>1, GamesInvHolds, PTL

\* The snake steps onto the board there too.
THEOREM SnakeStaysOnBoardInGames == GamesSpec => HeadEndsOnBoard
<1>1. GamesInv /\ [GamesNext]_gamesVars =>
        [snake' # snake /\ snake' # <<Start>> => OnBoard(snake'[1], board')]_vars
  BY GamesStep DEF HeadStep, gamesVars, snakeVars, vars
<1>. QED  BY <1>1, GamesInvHolds, PTL DEF GamesSpec, HeadEndsOnBoard
=============================================================================
