\* One reader, of either role and with pages of one or two rows, of a list of up
\* to three rows beside a row that does not match its search.
SPECIFICATION Spec
CONSTANTS
  Tasks = {t1, t2, t3, x1}
  Matching = {t1, t2, t3}
  Readers = {r1}
  NoUser = NoUser
  Stamps = {1, 2, 3}
  PageSizes = {1, 2}
  MaxMoves = 2
SYMMETRY Symmetric
INVARIANTS
  PagingTypeOK
  MissesAtMostLost
  RowsFitTotal
CHECK_DEADLOCK FALSE
