SPECIFICATION Spec
CONSTANTS
  full = full
  odd = odd
  Windows = {w1, w2}
  Texts = {blank, full, odd}
  Blank = blank
  Complete = {full}
  Unsupported = {odd}
  Dates = {1, 2}
  FirstDates = 1
  Fillings <- MCFillings
  MaxForms = 1
  MaxOps = 2
  MaxCalls = 5
INVARIANTS SavedIsNotSubmitted
CHECK_DEADLOCK FALSE
