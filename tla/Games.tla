-------------------------------- MODULE Games --------------------------------
(***************************************************************************)
(* The bundled games on the host's screen: the frame loop of src/main.cpp  *)
(* with a window, from the plugin's update over the draw list and the      *)
(* plugin's render to the panel that loads, unloads and swaps it.  The     *)
(* games are Snake and Pong; a game that is not loaded is kept at rest, as *)
(* its statics go with its library.                                        *)
(***************************************************************************)
EXTENDS Snake, Pong

CONSTANTS
  MaxRects, \* 2048: what snake's render passes to draw_rects at most
  MaxQuads  \* 4096: what a draw list takes

ASSUME ScreenAssumption == MaxRects \in Nat \ {0} /\ MaxQuads \in Nat \ {0}

VARIABLES
  phase,     \* the frame's next step
  game,      \* the plugin that is loaded
  dl_host,   \* whether the host has allocated a draw list
  DL_PTR,    \* whether make_host_api found one, in its static variable
  plugin_dl, \* whether the loaded plugin was given one
  quads,     \* what is in the host's draw list
  screen     \* ImGui's background draw list: what this frame shows

snakeVars == vars
drawVars == <<dl_host, DL_PTR, plugin_dl, quads>>
gamesVars == <<snakeVars, pongVars, drawVars, phase, game, screen>>

Loadable == {"snake", "pong"}

-----------------------------------------------------------------------------
(* What the games draw. *)

AtMost(n, s) == IF Len(s) > n THEN SubSeq(s, 1, n) ELSE s

\* The cells from the head on, the food last.
SnakeRects ==
  [i \in DOMAIN snake |-> <<"cell", snake[i]>>] \o <<<<"food", food>>>>

\* The paddle, one on the right that goes with the ball, and the ball.
PongRects == <<<<"paddle", paddle>>, <<"right", ball.y>>, <<"ball", ball>>>>

\* gpi_render of the loaded game: into the draw list it was given, where it
\* starts from nothing, or else through draw_rects onto the screen.
Render ==
  LET rects == IF game = "snake" THEN SnakeRects ELSE PongRects
      limit == IF game = "snake" THEN MaxRects ELSE Len(PongRects)
  IN IF plugin_dl
       THEN quads' = AtMost(MaxQuads, rects) /\ UNCHANGED screen
       ELSE screen' = screen \o AtMost(limit, rects) /\ UNCHANGED quads

-----------------------------------------------------------------------------
(* Start-up and loading. *)

SnakeAtRest == board' = Default /\ snake' = <<Start>> /\ dir' = <<1, 0>> /\ food' = Start
PongAtRest == court' = FirstCourt /\ paddle' = FirstPaddle /\ ball' = Serve
              /\ vel' = [x |-> 1, y |-> 1]

\* make_host_api runs before there is a window, a plugin or a draw list.
GamesInit ==
  /\ board = Default /\ snake = <<Start>> /\ dir = <<1, 0>> /\ food = Start
  /\ PongInit
  /\ phase = "update"
  /\ game = "none"
  /\ dl_host = FALSE
  /\ DL_PTR = FALSE
  /\ plugin_dl = FALSE
  /\ quads = <<>>
  /\ screen = <<>>

\* Mutant: the getter looks at the host's list as it is when it is called.
GivenDrawListNow == dl_host

\* get_drawlist_v1 and get_drawlist_v15 give what make_host_api found.
GivenDrawList == DL_PTR

\* The library's statics and gpi_init.
GpiInit(g) ==
  /\ game' = g
  /\ plugin_dl' = GivenDrawList
  /\ IF g = "snake"
       THEN board' = Default /\ dir' = <<1, 0>> /\ Reset(Default) /\ PongAtRest
       ELSE SnakeAtRest /\ PongAtRest

\* "Load": a draw list is allocated after the plugin has asked for it.
PanelLoad ==
  /\ game = "none"
  /\ \E g \in Loadable : GpiInit(g)
  /\ dl_host' = TRUE
  /\ quads' = <<>>
  /\ UNCHANGED DL_PTR

\* "Unload" leaves the host's list alone.
PanelUnload ==
  /\ game # "none"
  /\ game' = "none"
  /\ plugin_dl' = FALSE
  /\ SnakeAtRest /\ PongAtRest
  /\ UNCHANGED <<dl_host, DL_PTR, quads>>

\* "Swap" allocates none.
PanelSwap ==
  /\ game # "none"
  /\ \E g \in Loadable \ {game} : GpiInit(g)
  /\ UNCHANGED <<dl_host, DL_PTR, quads>>

-----------------------------------------------------------------------------
(* A frame. *)

UpdateSnake == game = "snake" /\ Update /\ UNCHANGED pongVars
UpdatePong == game = "pong" /\ PongUpdate /\ UNCHANGED snakeVars
NoPlugin == game = "none" /\ UNCHANGED <<snakeVars, pongVars>>

CallUpdate ==
  /\ phase = "update"
  /\ UpdateSnake \/ UpdatePong \/ NoPlugin
  /\ phase' = "lists"
  /\ UNCHANGED <<drawVars, game, screen>>

\* imgui.new_frame empties the screen, render_drawlist shows the host's list.
RenderLists ==
  /\ phase = "lists"
  /\ screen' = IF dl_host THEN quads ELSE <<>>
  /\ phase' = "render"
  /\ UNCHANGED <<snakeVars, pongVars, drawVars, game>>

CallRender ==
  /\ phase = "render"
  /\ IF game = "none" THEN UNCHANGED <<quads, screen>> ELSE Render
  /\ phase' = "panel"
  /\ UNCHANGED <<snakeVars, pongVars, dl_host, DL_PTR, plugin_dl, game>>

PanelIdle == UNCHANGED <<snakeVars, pongVars, drawVars, game>>

\* draw_plugin_panel, and the frame is shown.
DrawPanel ==
  /\ phase = "panel"
  /\ PanelIdle \/ PanelLoad \/ PanelUnload \/ PanelSwap
  /\ phase' = "update"
  /\ UNCHANGED screen

GamesNext == CallUpdate \/ RenderLists \/ CallRender \/ DrawPanel

\* The frame loop goes on.
GamesSpec == GamesInit /\ [][GamesNext]_gamesVars /\ WF_gamesVars(GamesNext)
-----------------------------------------------------------------------------
(* Correctness *)

OnScreen == {screen[i] : i \in DOMAIN screen}

\* What a frame shows is the game as its update has left it, whole and alone:
\* nothing of the frame before, of the game before or of a game that is gone.
\* Only a snake that fills the list loses its food and its end.
ScreenShowsGame ==
  phase = "panel" =>
    LET shown == {<<"cell", c>> : c \in Range(snake)} \cup {<<"food", food>>}
    IN CASE game = "none" -> screen = <<>>
         [] game = "pong" -> screen = PongRects
         [] game = "snake" -> /\ OnScreen \subseteq shown
                              /\ <<"cell", snake[1]>> \in OnScreen
                              /\ Len(snake) < MaxRects => OnScreen = shown

\* Pong goes to and fro for as long as it is left on the screen.
PongKeepsGoing == <>[](game = "pong") => BallKeepsGoing
=============================================================================
