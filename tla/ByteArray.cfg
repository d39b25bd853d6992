SPECIFICATION Spec
CONSTANTS
    Width = 3
    Group = 2
    BaseSizes = {1}
    Texts <- MCTexts
    Numbers = {4}
    Shorts = {10}
    Junk = {0, 4}
    MaxCapacity = 4
VIEW MCView
INVARIANTS
    ChainInv
    NumbersComeBack
PROPERTIES
    ImplementsFlat
