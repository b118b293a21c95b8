\* One scan of two issuers, at most two deviations from authorized evidence, two releases.
CONSTANTS
    Issuers <- MCIssuers
    Catalogue <- Book
    Cases <- MCCases
    MaxRelease = 2
SPECIFICATION Spec
INVARIANTS
    TypeOK
    AuthorizedOnCleanEvidence
    BlocksAreGrounded
    RejectedStaysOut
    ShockDelays
    CapFollowsRegime
    StopBounded
    EnrichedOnce
PROPERTIES
    NothingPromotes
    RefinalizeKeeps
\* A radar that the last release has finalized is only copied.
CHECK_DEADLOCK FALSE
