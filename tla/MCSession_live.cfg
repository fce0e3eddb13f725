CONSTANTS
    n1 = n1
    n2 = n2
    c1 = c1
    c2 = c2
    None = None
    NoTunnel = NoTunnel
    Nodes = {n1, n2}
    Clients = {c1, c2}
    MaxRelaunches = 1
    MaxGen = 12
    Scenes <- LiveScenes
SPECIFICATION FairSpec
PROPERTIES ConnectSettles DeathIsReported CloseReturns
