SPECIFICATION mcSpec
CONSTANTS
  Keys = {l1}
  Values = {v1, v2}
  ApiMayFail = TRUE
  MaxWrites = 4
  t1 = t1 t2 = t2 i1 = i1 i2 = i2
  None = None
CHECK_DEADLOCK FALSE
PROPERTIES EventuallyMirrored EventuallyBacked EventuallyImported
