\* Commands that arrive late, repeated and in any order, over deletions of the account.
SPECIFICATION MCSpec
CONSTANTS
    shop = shop
    other = other
    orders = orders
    offers = offers
    notes = notes
    alice = alice
    bob = bob
    inbox = inbox
    security = security
    k1 = k1
    k2 = k2
    k3 = k3
    Messages = {1, 2, 3}
    Senders = {alice, bob}
    Sources = {shop, other}
    Flows = {orders, offers, notes}
    Labels = {inbox}
    Protections = {security}
    NoAddress = NoAddress
    Sender <- MCSender
    ReceivedAt <- MCReceivedAt
    FlowSource <- MCFlowSource
    Day = 2
    Compositions <- MCFewCompositions
    Requests <- MCFewRequests
    CommandIds = {k1, k2, k3}
    Times = {4, 5, 6}
    MaxMaps = 3
    MaxCommands = 3
SYMMETRY CommandSymmetry
INVARIANTS
    TypeOK
    ReceiptsReplay
    OneReceiptPerEvent
    ExecutedOnce
PROPERTIES
    PlanPromise
