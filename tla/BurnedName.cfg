\* The holder of one name burns its node with reclaim(id, 0) and goes on.
CONSTANTS
    Zero = Zero
    arc = arc
    alice = alice
    registrar = registrar
    u = u
    v = v
    Address = {deployer, u, v, registrar, ctrl, res}
    Account = {deployer, u, v}
    Deployer = deployer
    Admin = u
    Grantee = {Zero, u, v, registrar}
    Operator = {u, v}
    ResolverAddr = {res}
    TTL = {0}
    Label <- MCLabel
    Nodes <- MCNodes
    TLD <- MCTLD
    SLD <- MCSLD
    RegistrarOf <- MCRegistrarOf
    ControllerAddr = {ctrl}
    GRACE = 2
    StartTime = 3
    MaxTime = 8
    MaxExpiry = 10
    Duration = {1, 3}
    SeedExpiry = {1, 4}
SPECIFICATION ScenesSpec
PROPERTIES
    BurnedNameIsLocked
