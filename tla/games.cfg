SPECIFICATION GamesSpec
CONSTANTS
  Boards <- TwoBoards
  Default <- DefaultBoard
  Start <- StartCell
  MaxLength = 5
  Courts <- ThreeCourts
  FirstCourt <- WideCourt
  Serve <- FirstServe
  Moves <- ShortAndLong
  Ball = 1
  PaddleX = 2
  PaddleWidth = 1
  PaddleHeight = 4
  FirstPaddle = 1
  MaxRects = 4
  MaxQuads = 8
CONSTRAINTS
  ShortSnakes
INVARIANTS
  TypeOK
  NeverOverlaps
  BallOnCourt
  BallClearsPaddle
  ScreenShowsGame
PROPERTIES
  HeadEndsOnBoard
  PongKeepsGoing
