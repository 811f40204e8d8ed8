CONSTANTS
    IntBits = 16
    LongBits = 17
    NumericText <- MCNumericText
    FractionText <- MCFractionText
    LooseBase64 <- MCLooseBase64
    Types <- NoTypes
    ValuesOf <- NoValues
    Foreign <- MCObjectFields

SPECIFICATION Spec

INVARIANT MismatchRaises
CHECK_DEADLOCK FALSE
