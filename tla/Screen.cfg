CONSTANTS
  WIDTH = 8
  ROWS = 3
  COLS = 3
  TAB_WIDTH = 2
  SPARE = 1
  LINE_BUFFER_SIZE = 3
  Prompt <- ThePrompt
  Letters = {97}
  Numbers <- TheNumbers
  Notes <- TheNotes
  PRINTS = 2
SPECIFICATION Spec
INVARIANTS LineOnScreen NumbersReadBack
PROPERTY ImplementsSheets
