SPECIFICATION RotationSpec
CONSTANTS
    Run = {1, 2, 3}
    Principal = {alice}
    NoOwner = NoOwner
    alice = alice
    MaxNow = 1
    Served = TRUE
    FirstStep = "reviews"
    MaxReviews = 3
    MaxRevision = 4
    ReviewTtl = 1
    ClaimLease = 1
    ReviewAccept = 1
    Cards = {"warning", "critical"}
PROPERTIES NoSecondTurn
