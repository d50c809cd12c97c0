\* Values of up to three bytes: digits, what surrounds them in ASCII, signs.
SPECIFICATION Spec
CONSTANTS
  Bytes = {0, 32, 43, 45, 47, 48, 49, 50, 51, 52, 53, 54, 55, 56, 57, 58, 120, 255}
  MaxLen = 3
INVARIANTS
  AcceptsNumeralsOnly
  FromStrAgrees
  FromStrIsThisLenient
\* Values stop at MaxLen.
CHECK_DEADLOCK FALSE
