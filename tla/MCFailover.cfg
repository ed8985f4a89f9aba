SPECIFICATION FairSpec
CONSTANTS
    Instances = {vm1, vm2}
    nobody = nobody
    Callers = {vm1, vm2}
    Events = {"stop", "suspend", "crash", "delete", "restart"}
    ApiFaults = {"error", "lost"}
    OnMounted = {"taken", "left"}
    ForceDetachAfter = 1
    DefaultForceDetachAfter = 2
    OpTimeout = 3
PROPERTIES
    
    TaskGetsItsVolume
