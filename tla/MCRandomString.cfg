\* randomString(3) over draws whose four low 6-bit groups are 0 (letter
\* 'a'), 61 (the last letter) or 62 (the first rejected group) and whose
\* higher groups are all 63 (rejected), so a draw gives 0 to 4 letters of two
\* kinds and the loop skips, refills and writes from the end; up to three draws.
CONSTANTS
  N = 3
  GroupVals = {0, 61, 62}
  FreeGroups = 4
  PadVal = 63
  TopVals = {7}
  MaxDraws = 3
SPECIFICATION Spec
INVARIANT TypeOK
INVARIANT RandomStringCorrect
