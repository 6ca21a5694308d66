\* Three changes of the network, in foreground and background.
CONSTANTS
    NetworkFlags = {{}, {"reachable", "connectionRequired"}, {"reachable"},
                    {"reachable", "isWWAN"}}
    MaxChanges = 3
    MaxTries = 2
SPECIFICATION Spec
INVARIANTS StatusCurrent HeldBannerCurrent BannersTruthful
PROPERTY StatusCatchesUp
