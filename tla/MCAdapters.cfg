SPECIFICATION Spec
CONSTANTS
    MSG_EXPIRY = 0
    ENTRY_EXPIRY = 1
    ETHERNET_BROADCAST <- Broadcast
    ARPMSG_ETHERNET_BROADCAST <- NoEthernet
    MaxWaiting = 2
INVARIANTS
    DamageHarmless
    PeerHeard
    OnePeer
