\* Two sockets of one process and one of another.
SPECIFICATION Spec
CONSTANTS
    near = near
    other = other
    remote = remote
    Ranks = {0, 1}
    Tags = {0, 1}
    Sockets = {near, other, remote}
    RankOf <- MCRankOf
    Requested <- MCRequested
    AnySource <- MCAnySource
    MaxSends = 2
    MaxOpenings = 3
    MaxReceives = 2
CHECK_DEADLOCK FALSE
INVARIANT RemoteNamesSender
