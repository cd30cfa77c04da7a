\* Two datagrams behind every start; every way in which one part of a datagram can be wrong or missing.
SPECIFICATION Spec
CONSTANTS
    MAXUSERS = 2
    IDLENGTH = 2
    VERSION <- Version
    AUTHKEY <- Key
    VERSIONSIZE = 6
    AUTHORIZATION = 4
    UIDSIZE = 3
    USERNAMESIZE = 4
    PASSWORDSIZE = 4
    USERDATASIZE = 8
    ArgumentLists <- AllArgumentLists
    Requests <- AllRequests
    Residues <- AllResidues
    Users <- AllUsers
    Passwords <- AllPasswords
    NoPassword = NoPassword
    MaxRequests = 2
    MaxConnections = 1
INVARIANTS
    TypeOK
    PasswordIsTheUsers
PROPERTIES
    
    ChangesAreCommanded
    ArgumentsBecomeUsers
    RegistrySpec
CHECK_DEADLOCK FALSE
