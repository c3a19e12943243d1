SPECIFICATION Spec
CONSTANTS
  Documents = {d1, d2}
  Null = Null
  Garbage = Garbage
INVARIANT
  ResultIsOfMessage
