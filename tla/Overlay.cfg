CONSTANTS
    sh = sh  sa = sa  sb = sb  nh = nh  na = na  nb = nb
    Hub = sh
    Spokes = {sa, sb}
    Nodes = {nh, na, nb}
    SiteOf <- MCSiteOf
    Cidrs <- MCCidrs
    Procs = {p1}
    MaxOps = 4
    MaxFaults = 1
    MaxKeys = 2
SPECIFICATION Spec
CHECK_DEADLOCK FALSE
INVARIANTS AddressesDistinct   
