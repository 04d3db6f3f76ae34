SPECIFICATION FairSpec
CONSTANTS
    Candidates = {c1, c2}
    Runs = {A, B}
    Fragile = {A}
    Nobody = Nobody
    MaxTasks = 4
    Schedulers <- MCSchedulers
INVARIANTS OneTaskPerIdentity RetryAfterFailure DocumentsTrue
PROPERTY VerificationEnds
\* Every run ends with a document or an error.
CHECK_DEADLOCK FALSE
