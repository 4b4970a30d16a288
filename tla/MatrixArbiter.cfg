\* Four requesters: every priority order (24) and every request vector (16).
SPECIFICATION Spec
CONSTANT NumReq = 4
INVARIANTS ExactlyOneWinner BoundedWaiting IInv
PROPERTY ImplementsQueue
