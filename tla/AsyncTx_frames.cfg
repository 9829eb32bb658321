\* Every framing with 5, 7 or 8 data bits, any parity, 1 or 2 stop bits.
CONSTANTS
  DataBits = {5, 7, 8}
  Parities = {"none", "even", "odd"}
  StopBits = {1, 2}
  MaxChars = 9
SPECIFICATION Spec
INVARIANTS
  TypeOK
  FramesWellFormed
