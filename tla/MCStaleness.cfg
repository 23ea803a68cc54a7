CONSTANTS
  load = load
  clean = clean
  plot = plot
  x = x
  y = y
  z = z
  load1 = load1
  load2 = load2
  clean1 = clean1
  clean2 = clean2
  plot1 = plot1
  plot2 = plot2
  Cells = {load, clean, plot}
  Vars = {x, y, z}
  Sources = {load1, load2, clean1, clean2, plot1, plot2}
  SourcesOf <- MCSourcesOf
  Uses <- MCUses
  Writes <- MCWrites
  NoStamp = NoStamp
  NoTask = NoTask
  Unset = Unset
  MaxBatches = 2
SPECIFICATION Spec
INVARIANTS TypeOK CalmInputsCurrent
PROPERTIES RunFreshens
CONSTRAINT Calm
CHECK_DEADLOCK FALSE
