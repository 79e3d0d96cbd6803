CONSTANTS
    Block <- MCBlock
    Task <- MCTask
    BlockOf <- MCBlockOf
    DirectParents <- MCDirectParents
SPECIFICATION Spec
INVARIANTS NoPanic NoLostGroup ParentsEndFirst IdleIsFinal
