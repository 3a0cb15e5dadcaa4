\* The operator's procedures: handover of authority, replacement of the reverse
\* registrar, exchange of the registrars.
CONSTANTS
    Deployer = deployer
    Timelock = timelock
    Safe = {s1, s2}
    NoParty = NoParty
    NoRegistrar = NoRegistrar
    NoHolder = NoHolder
    MaxCrash = 1
    Registrar = {r1, r2, r3, r4, r5, r6, r7, r8}
    First = r1
    MaxInterrupt = 2
    Token = {t1}
    Holder = {h1, h2}
    GRACE_PERIOD = 1
    DELAY = 1
    MaxTime = 4
SPECIFICATION OperationsSpec
INVARIANTS Governed RecordIsHonest OnlyCurrentTrusted
PROPERTIES HandoverCompletes PauseIsLifted ReverseIsRepaired CutoverKeepsLeases
\* The exchange ends with the validation.
CHECK_DEADLOCK FALSE
