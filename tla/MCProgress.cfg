SPECIFICATION FairSpec
CONSTANTS
    Sizes = {10}
    DiskTypes = {"pd-balanced"}
    FSTypes = {"ext4"}
    Sources = {}
    UserLabelKeys = {}
    UserLabelValues = {}
    Instances = {vm1, vm2}
    nobody = nobody
    NoDisk = NoDisk
    ApiFaults = {}
    Name = {v1, v2}
    Slots = {1}
    Requests <- TwoRequests
    InitialDisks <- EmptyZone
    Self = vm1
    Faults = {"device", "crash", "reboot"}
    CreateAfter = "deletion"
    MaxRef = 1
    MaxContainers = 1
    NoVolume = NoVolume
    NoOp = NoOp
PROPERTIES
    OperationEnds
    ComesUp
    MarkedDeletionEnds
    RemovalEnds
