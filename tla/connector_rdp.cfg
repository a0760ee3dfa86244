\* Activation, the login switch, updates, keys and the end of a peer.
SPECIFICATION RdSpec
CONSTANTS
    RdSizes = {1, 2}
    RdKeymap <- McKeymap
    RdTiles <- McTiles
    RdMaxRequest = 150
    RdBpp = 32
    RdDesktops = {2}
    RdEvents = 2
\* the connector ends
CHECK_DEADLOCK FALSE
INVARIANTS
    RdScreenKept
    
PROPERTIES
    RdEnd
