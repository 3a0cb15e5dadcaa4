\* Two wallets of one user, one name.
CONSTANTS
    OwnedName = {n}
    Owner = {w, z}
    Market = Market
    NoOwner = NoOwner
    MaxSwitch = 2
    MaxTrade = 1
SPECIFICATION OwnedSpec
INVARIANTS
    SelectionIsOwned
CHECK_DEADLOCK FALSE
