CONSTANTS
  Streams = {"stdout"}
  Rich = "rich"
  HeadChars = 1
  TailChars = 1
  Slack = 1
  HeadOutputs = 1
  TailOutputs = 1
  Sizes = {1, 4}
  MaxChars = 6
  MaxCells = 2
  MaxInFlight = 1
SPECIFICATION Spec
INVARIANTS TypeOK KeepsEnds OwnOutputs OwnOutcome
PROPERTIES EndsUnlessPrinting InterruptEnds
