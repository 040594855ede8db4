SPECIFICATION QueueSpec
CONSTANTS
    r1 = r1
    r2 = r2
    r3 = r3
    r4 = r4
    eip7702 = eip7702
    Request = {r1}
    Account = {}
    Direct = Direct
    NoSlot = NoSlot
    settle_queue_size = 0
    max_solutions_to_propose = 1
    MAX_CONCURRENT_AUCTIONS = 5
    MaxAuctions = 8
INVARIANTS
    RecentSettlementsStay
