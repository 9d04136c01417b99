CONSTANTS
    Users = {ann, bob}
    Admins = {ann}
    Texts = {text}
    Originals = {original}
    Nothing = Nothing
    Deliveries = {d1, d2}
    MaxStaged = 2
    MaxEdits = 1
    MaxRestarts = 1
SPECIFICATION FairSpec
INVARIANTS
    SentWasPreviewed
    OncePerStaging
    NothingLeavesUnconfirmed
    ReportAddsUp
    DeliveriesSpaced
PROPERTIES
    EveryDeliveryEnds
