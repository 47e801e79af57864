SPECIFICATION BuildSpec
INVARIANTS BuildTypeOK PathsAreDistinct ReplayAgrees ResultsAreRecorded PassedIsProof VerdictIsTrue
CHECK_DEADLOCK FALSE
CONSTANTS
  None = None
  k = k
  l = l
  first_ct = first_ct
  second_ct = second_ct
  outer = outer
  inner = inner
  silent = silent
  a = a
  b = b
  c = c
  one = one
  two = two
  list = list
  tuple = tuple
  Draw = Draw
  DrawAgain = DrawAgain
  Pick = Pick
  Judge = Judge
  Transforms <- TransformsOfAll
  Molecules = {outer, inner, silent}
  Symbols = {a, b, c}
  Values = {one, two, list, tuple}
  Payload = list
  Runs <- All
  Body <- Sound
  Emits <- Emitted
  Draws <- Drawable
  Answer <- Answering
  Members <- Listed
  Written <- Read
  Whatever = Whatever
  Builds <- Compiled
