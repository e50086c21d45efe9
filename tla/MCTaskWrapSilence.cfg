\* A LocalOps that goes silent once; no operator.
SPECIFICATION Spec
CONSTANTS
    Threshold = 1
    Interval = 1
    OperatorActions = {}
    MaxOutages = 1
    MaxActions = 0
PROPERTIES NeverBlocks
