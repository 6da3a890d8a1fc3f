SPECIFICATION FleetSpec
CONSTANTS
    d1 = d1
    q1 = q1  q2 = q2
    NoCommand = NoCommand
    Devices <- MCDevices
    Requests <- MCRequests
    CommandIds <- MCRequests
    IdOf <- MCIdOf
    Times <- MCTimes
    MaxTime = 3
    OfflineMax = 2
    MaxFaults = 2
    MaxDbErrors = 0
    MaxCrashes = 1
INVARIANT ReturnedIsProcessed
