SPECIFICATION Spec
CONSTANTS
    d1 = d1  d2 = d2
    q1 = q1  q2 = q2  q3 = q3
    c1 = c1  c2 = c2
    Devices <- MCDevices
    Requests <- MCRequests
    CommandIds <- MCCommandIds
    IdOf <- MCIdOf
    Times <- MCTimes
    MaxDbErrors = 0
    MaxCrashes = 0
SYMMETRY Symmetry
INVARIANT DuplicateIsIgnored
