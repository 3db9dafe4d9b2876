\* Three cancelling threads: a winner, a loser and one that comes late.
CONSTANT Threads = {t1, t2, t3}
SPECIFICATION Spec
INVARIANT TypeOK
INVARIANT CancelledExactlyOnce
PROPERTY ControlIsAtomic
PROPERTY CancellationIsSignalled
PROPERTY CancelReturns
