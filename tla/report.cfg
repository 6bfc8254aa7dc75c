SPECIFICATION ReportSpec
CONSTANTS
  Contexts = {c1, c2}
  Processors = {p1, p2}
  Nobody = Nobody
  Lengths = {0, 1}
  ReportLength = 1
  FONT_WIDTH = 2
  FONT_HEIGHT = 2
  Width = 5
  Height = 4
  Outside = 5
INVARIANTS CursorHeals ReportOwnsBuffer
PROPERTIES ReportEnds
CHECK_DEADLOCK FALSE
