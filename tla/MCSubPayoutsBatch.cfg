\* One office request at a time on a batch of two rows.
CONSTANTS
    Work = {w1, w2}
    Requests = {q1}
    Generators = {g1}
    TransferIds = {tr1, tr2, tr3}
    NoRef = NoRef
    NoWork = NoWork
SPECIFICATION Spec
SYMMETRY Symmetry
INVARIANTS
    TypeOK
    PaidOnceUnlessReversed
    UnlearnedIsRefused
    
PROPERTIES
    StatusOnlyMovesForward
    BackInBatchOnlyByReversal
    ImplementsLedger
