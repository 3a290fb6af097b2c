SPECIFICATION Spec
CONSTANTS
    Jobs <- JobsSmall
    BcastNRep = 1
    None = None
INVARIANTS
    MessagesMatch
    RoundsDoNotOverlap
PROPERTIES
    ImplementsBarrier
    ImplementsReduction
    ImplementsBroadcast
    EveryCallReturns
