\* Two workers; batches of up to two items, bad ones included.
SPECIFICATION Spec
CONSTANTS
  Callers = {w1, w2}
  Ids = {i1, i2}
  Urls = {u1, u2}
  WellFormed = {u1, u2}
  NoUrl = NoUrl
  NoCall = NoCall
  MaxItems = 2
  BadItem = BadItem
SYMMETRY Symmetry
INVARIANT TypeOK
INVARIANT ResponsesAccountForChannels
PROPERTY SuccessMeansAllAdded
