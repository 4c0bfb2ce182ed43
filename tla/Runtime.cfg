SPECIFICATION Spec
CONSTANTS
    c1 = c1
    c2 = c2
    act = act
    create1 = create1
    create2 = create2
    declare = declare
    confirm = confirm
    deny = deny
    NoAnswer = NoAnswer
    MaxNow = 2
    Served = TRUE
    FirstStep = "tick"
    Request = {create1, create2, declare, confirm, deny}
    MinHead = 2
    Restored = 0
    MaxStarts = 3
    CheckId = {c1, c2}
    Action = {act}
    ActionOf <- MCActionOf
    CheckOf <- MCCheckOf
    EffectOf <- MCEffectOf
    Evaluation = 1
    Clearance = 1
    Cost = 1
    Cap = 2
INVARIANTS TypeOK OneEffect EffectsAreCleared EvidenceIsTrue NoJobLost RepliesKept RepliesMatchStore PinHoldsBack
PROPERTIES KeepsRequests
CHECK_DEADLOCK FALSE
