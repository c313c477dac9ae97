SPECIFICATION Spec
CONSTANTS
  o = o
  p = p
  a = a
  None = None
  Object <- MCObject
  Array <- MCArray
  Key <- MCKey
  x = x
  y = y
  Text <- MCText
  Number = {1}
  Flag = {TRUE}
  Code <- MCCode
  Alien <- MCAlien
  MaxSize = 3
SYMMETRY Alike
INVARIANT TypeOK
INVARIANT ArrivesAsPrepared
