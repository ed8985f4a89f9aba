SPECIFICATION Spec
CONSTANTS
    Sizes = {10}
    DiskTypes = {"pd-balanced"}
    FSTypes = {"ext4"}
    Sources = {}
    UserLabelKeys = {}
    UserLabelValues = {}
    Instances = {vm1, vm2}
    nobody = nobody
    NoDisk = NoDisk
    ApiFaults = {}
    Name = {v1}
    Slots = {1}
    Requests <- AskAny
    InitialDisks <- EmptyZone
    Faults = {"device"}
    CreateAfter = "mark"
    MaxRef = 2
    MaxContainers = 2
    NoVolume = NoVolume
    NoOp = NoOp
    VmA = vm1
    VmB = vm2
INVARIANTS
    UsedIsMounted
    AttachedIsCounted
PROPERTIES
    RefusesAttached
