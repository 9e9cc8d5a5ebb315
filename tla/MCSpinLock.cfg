SPECIFICATION FairSpec
CONSTANTS
    page_lock = page_lock
    pool_lock = pool_lock
    phy_lock = phy_lock
    Lock <- MCLock
    Calls <- MCCalls
    Core = {1, 2}
INVARIANTS
    LocksExclude
    OwnersAreMasked
PROPERTIES
    MaskRestored
    SomeoneGoesOn
