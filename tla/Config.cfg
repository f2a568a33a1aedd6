\* A program started from each file and preset in each environment, whose
\* file is then edited once.
SPECIFICATION Spec
CONSTANTS
    nil = nil
    garbled = garbled
    Nil <- nil
    Garbled <- garbled
    Files <- MCFiles
    Environs <- MCEnvirons
    Replaced <- MCReplaced
    NaN = 99991
    Infinity = 99997
    MaxUint8 = 255
    MaxUint32 = 65535
    MaxEdits = 1
INVARIANT CopyIsFaithful
\* A program that cannot be configured exits; one may never be edited.
CHECK_DEADLOCK FALSE
