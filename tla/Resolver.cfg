\* Two resolvers and one reverse registrar; u administers them, v may be given
\* CONTROLLER_ROLE and may be an operator of u.
CONSTANTS
    Zero = Zero
    arc = arc
    alice = alice
    reverse = reverse
    addr = addr
    u = u
    Address = {deployer, u, v, rr, res, res2}
    Account = {u, v}
    Deployer = deployer
    Grantee = {u, v}
    Operator = {v}
    ResolverAddr = {res, res2}
    TTL = {0}
    Label = {arc, alice, reverse, addr, u, v}
    Nodes <- MCNodes
    Resolver = {res, res2}
    ReverseRegistrar = {rr}
    ADDR_REVERSE_NODE <- MCReverse
    ResolverAdmin = u
    Trustee = {v}
    PrimaryName <- MCPrimaryName
    Recorded <- MCRecorded
SPECIFICATION ResolverSpec
PROPERTIES
    ResolutionMovesByAuthority
    WrittenNameIsReadable
    ReverseNodeStaysHome
