CONSTANTS
  small = small
  full = full
  exe = exe
  book = book
  Files = {small, full, exe}
  Texts = {book}
  Size <- MCSize
  HeaderLen <- MCHeaderLen
  Blocked = {exe}
  MaxBytes = 10485760
  Submissions = {1, 2}
  Visits = {v1, v2}
  None = None
SPECIFICATION Spec
SYMMETRY Symmetry
INVARIANTS
  SentFileIsShown
  LinkOpens
  GoneIsTrue
  SeenOnce
  TooLargeIsSaid
  ButtonComesBack
  Inductive
