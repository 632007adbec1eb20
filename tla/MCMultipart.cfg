\* Good and spoilt messages, cut into pieces of every size.
SPECIFICATION FairSpec
CONSTANTS
    Boundary <- MCBoundary
    Letter <- MCLetter
    Messages <- MCMessages
INVARIANTS
    AsWhole
    StopsAtWrong
    NothingLost
PROPERTY
    ExecuteReturns
