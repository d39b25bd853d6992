SPECIFICATION Spec
CONSTANTS
    Width = 3
    Group = 2
    BaseSizes = {2}
    Texts <- MCTexts
    Numbers = {4}
    Shorts = {10}
    Junk = {0, 4}
    MaxCapacity = 4
VIEW MCView
PROPERTIES
    WriteAdvancesBySize
