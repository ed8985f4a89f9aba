SPECIFICATION Spec
CONSTANTS
    Sizes = {10}
    DiskTypes = {"pd-balanced"}
    FSTypes = {"ext4"}
    Sources = {}
    UserLabelKeys = {}
    UserLabelValues = {}
    Instances = {vm1, vm2}
    nobody = nobody
    NoDisk = NoDisk
    ApiFaults = {}
    Name = {v1}
    Slots = {1}
    Requests <- ThreeRequests
    InitialDisks <- EmptyZone
    Self = vm1
    Faults = {"crash"}
    CreateAfter = "deletion"
    MaxRef = 2
    MaxContainers = 2
    NoVolume = NoVolume
    NoOp = NoOp
PROPERTIES
    SnapshotBeforeDelete
