SPECIFICATION Spec
CONSTANTS
    m1 = m1
    alice = alice
    bob = bob
    Messages = {m1}
    Peers = {alice}
    Recipient <- OneRecipient
    PlacedCopyKept = 0
    OutboundDeadline = 1
    MaxDay = 2
    MaxKeys = 0
PROPERTY
    GivenUpWasNotCarried
