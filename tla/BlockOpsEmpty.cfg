CONSTANTS
    BlockSize = 4
    MaxOffset = 12
    MinSize = 0
    MaxSize = 0
SPECIFICATION Spec
INVARIANT EmptyWriteIsNoOp
