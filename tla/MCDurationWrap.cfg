SPECIFICATION Spec
CONSTANTS
    WordMax = 127
    IntMax = 20
    Ms = 6
    Null = Null
    Inputs <- MCInputs
INVARIANT OversizedRefused
