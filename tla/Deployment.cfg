CONSTANTS
    Scripts <- MCScripts
    Commands <- MCCommands
    Files <- MCFiles
    Kind <- MCKind
    RoleKind <- MCRoleKind
    LibRoles <- MCLibRoles
    NetworkConfig <- MCNetworkConfig
    Networks = {"mainnet", "localhost", "ropsten"}
    FirstCommand <- MCFirst
    Verification <- MCVerification
    External <- MCExternal
    Absent = Absent
    Torn = Torn
    MaxFaults = 1
    MaxStarts = 1
    Skipped = {"ICETH"}
SPECIFICATION Spec
INVARIANTS
    FilesDescribeChain
    LinksAreRight
    FinishedIsCoherent
PROPERTIES
    NothingForgotten
    InterruptedWorkCompletes
    EventuallyVerified
CHECK_DEADLOCK FALSE
