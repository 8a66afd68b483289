\* Two sends of the same row overlap.
CONSTANTS
    Work = {w1}
    Requests = {q1, q2}
    Generators = {g1}
    TransferIds = {tr1, tr2}
    NoRef = NoRef
    NoWork = NoWork
SPECIFICATION Spec
INVARIANTS
    PaidOnceUnlessReversed
