CONSTANTS
    MAX_BYTES_BLOCK <- MCMax
    Lengths <- MCLengths
    CodeLengths <- MCCodeLengths
    Numbers <- MCNumbers
SPECIFICATION Spec
INVARIANT SplitFitsAllocation
