SPECIFICATION OtaSpec
CONSTANTS
    u1 = u1  u2 = u2
    r1 = r1  r2 = r2
    Updaters <- MCOneUpdater
    Releases <- MCReleases
    Limit = 2
    MaxCommands = 2
INVARIANT WritesInactiveSlot
