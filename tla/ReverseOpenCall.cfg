\* v, without authority over the reverse node of u, calls the reverse registrar.
CONSTANTS
    Zero = Zero
    arc = arc
    alice = alice
    reverse = reverse
    addr = addr
    u = u
    Address = {deployer, u, v, rr, res}
    Account = {u, v}
    Deployer = deployer
    Grantee = {Zero, u, deployer}
    Operator = {v}
    ResolverAddr = {res}
    TTL = {0}
    Label = {arc, alice, reverse, addr, u, v}
    Nodes <- MCNodes
    Resolver = {res}
    ReverseRegistrar = {rr}
    ADDR_REVERSE_NODE <- MCReverse
    ResolverAdmin = u
    Trustee = {rr, v}
    PrimaryName <- MCPrimaryName
    Recorded <- MCRecorded
SPECIFICATION ResolverSpec
PROPERTIES
    OpenCallKeepsNodeOwner
