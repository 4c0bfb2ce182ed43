SPECIFICATION FairSpec
CONSTANTS
    Run = {1, 2}
    Principal = {alice, bob}
    alice = alice
    bob = bob
    NoOwner = NoOwner
    MaxNow = 4
    Served = TRUE
    FirstStep = "reviews"
    MaxReviews = 1
    MaxRevision = 6
    ReviewTtl = 3
    ClaimLease = 1
    ReviewAccept = 2
INVARIANTS TypeOK WellFormed TimersSettled
PROPERTIES RevisionTracksChange OwnershipReleased KeepsLife EventuallyDone EventuallyReleased
