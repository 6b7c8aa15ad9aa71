SPECIFICATION Spec
CONSTANTS
  Task = {t1, t2}
  Null = Null
  Text = {title}
  Status = status
  Value = {a, b}
  MaxVersion = 3
  MaxCalls = 2
SYMMETRY Symmetry
PROPERTIES NoSilentOverwrite
CHECK_DEADLOCK FALSE
