CONSTANTS
    Block <- ChainBlock
    DirectParents <- ChainParents
    Task <- ChainTask
    BlockOf <- ChainBlockOf
    BodyOf <- ChainBodyOf
    Trusted <- ChainTrusted
    HeaderRule <- ChainHeaderRule
    BodyRule <- ChainBodyRule
SPECIFICATION FairSpec
INVARIANTS TopologicalSubmissionAccepted AnsweredBeforeExit
PROPERTIES ProcessorsImplementManager StatusNeverGoesBack EverySubmissionAnswered
