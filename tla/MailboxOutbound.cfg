SPECIFICATION Spec
CONSTANTS
    m1 = m1
    alice = alice
    bob = bob
    Messages = {m1}
    Peers = {alice, bob}
    Recipient <- OneRecipient
    PlacedCopyKept = 0
    OutboundDeadline = 1
    MaxDay = 2
    MaxKeys = 1
INVARIANTS
    TypeOK
    CopyKept
    InTransitIsCarried
    ShipmentAwaited
PROPERTIES
    SentOnlyWhenDue
    PlacedIsFinal
    LifecycleKept
    EdgeAnswered
    ReceiptWritten
