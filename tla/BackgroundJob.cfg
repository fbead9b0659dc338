\* Five errors, so that a worker reports again after its caller has left.
CONSTANTS
    Error = {timeout, refused, noSpace, badMount, lost}
    NoError = NoError
    Pending = Pending
SPECIFICATION Spec
INVARIANT ResultIsFirstError
PROPERTY ImplementsOutcome
\* The system stops when the goroutine has ended and its caller has left.
CHECK_DEADLOCK FALSE
