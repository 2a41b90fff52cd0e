SPECIFICATION Spec
CONSTANT MaxGross = 120
INVARIANT NearestTiesToEven
PROPERTY DearerIsNeverCheaper
CHECK_DEADLOCK FALSE
