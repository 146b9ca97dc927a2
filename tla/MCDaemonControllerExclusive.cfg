\* DaemonController with two requesters: one may switch the mode while the other's
\* transaction is queued, being executed, or just finished.
CONSTANTS
    Requesters = {r1, r2}
    NoOne = NoOne
    Worker = Worker
    Exclusive = TRUE
    Interface = TRUE
SPECIFICATION Spec
INVARIANTS
    ExclusiveBlocksOthers
