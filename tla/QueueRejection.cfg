SPECIFICATION Spec
CONSTANTS
    Run = {1}
    Principal = {alice, bob}
    NoOwner = NoOwner
    alice = alice
    bob = bob
    MaxNow = 4
    Served = TRUE
    FirstStep = "reviews"
    MaxReviews = 2
    MaxRevision = 4
    ReviewTtl = 3
    ClaimLease = 1
    ReviewAccept = 2

PROPERTIES RejectionIsFinal
