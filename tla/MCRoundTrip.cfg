CONSTANTS
    IntBits = 16
    LongBits = 17
    NumericText <- MCNumericText
    FractionText <- MCFractionText
    LooseBase64 <- MCLooseBase64
    Types <- MCTypes
    ValuesOf <- MCValuesOf
    Foreign <- MCForeign

SPECIFICATION Spec

INVARIANTS
    StoredAsDocumented
    ReadReproducesWrite
    RefusedForItsKeysOnly
    ScalarMismatchRaises
CHECK_DEADLOCK FALSE
