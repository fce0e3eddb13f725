SPECIFICATION FairSpec
CONSTANTS
    Content <- MCContent
    Embedded <- MCEmbedded
    Sum <- MCSum
    Hosts <- MCHosts
    MaxBytes = 2
    Pinned <- MCPinned
    Releases <- MCReleases
    Archives <- MCArchives
    Stored = {"on"}
    Autoconnect = TRUE
    Targets = 1
    MaxOps = 1
    MaxTicks = 1
CHECK_DEADLOCK FALSE
INVARIANTS FilterFollowsSwitch OnlyTrustedBundles FilterIsSerialized
PROPERTIES CommandReturns
