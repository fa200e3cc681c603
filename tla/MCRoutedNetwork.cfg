SPECIFICATION Spec
CONSTANTS
    MSG_EXPIRY = 1
    ENTRY_EXPIRY = 2
    ETHERNET_BROADCAST = "broadcast"
    ARPMSG_ETHERNET_BROADCAST = "none"
    AddrBits = 3
    Host <- MCHost
    Port <- MCPort
    IpOf <- MCIpOf
    LanOf <- MCLanOf
    Gateway <- MCGateway
    Routes <- MCRoutes
    Datagrams <- MCDatagrams
    MaxFaults = 1
INVARIANTS
    OneCopy
    KnownMeansSent
    RequestsSpaced
    RightNextHop
    NoneLeftBehind
