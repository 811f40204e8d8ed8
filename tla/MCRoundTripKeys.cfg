CONSTANTS
    IntBits = 16
    LongBits = 17
    NumericText <- MCNumericText
    FractionText <- MCFractionText
    LooseBase64 <- MCLooseBase64
    Types <- MCTypes
    ValuesOf <- MCValuesOf
    Foreign <- NoFields

SPECIFICATION Spec

INVARIANT EveryColumnExports
CHECK_DEADLOCK FALSE
