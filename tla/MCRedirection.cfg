SPECIFICATION Spec
CONSTANTS
    Setups <- MCSetups
    Session = {s1, s2}
    This = s1
    SafeHost <- MCSafeHost
    Ipv4 = {"10.0.0.1"}
    Ipv6 = {"::1"}
    NoHost = NoHost
    NoUrl = NoUrl
    NoCall = NoCall
    Nowhere = Nowhere
    MaxKeys = 4
    Order <- MCOrder
    Unparsed = Unparsed
    ListenPorts = {3000, 16791}
    EgressPorts = {16789, 3000}
    DependencyBasePort = 16790
    ReplayBasePort = 16890
INVARIANTS
    TypeOK
    AddressesLeadToServers
    CallsAreCaptured
CHECK_DEADLOCK FALSE
