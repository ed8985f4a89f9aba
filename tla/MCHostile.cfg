SPECIFICATION Spec
CONSTANTS
    Sizes = {10}
    DiskTypes = {"pd-balanced"}
    FSTypes = {"ext4"}
    Sources = {}
    UserLabelKeys = {}
    UserLabelValues = {}
    Instances = {vm1, vm2}
    nobody = nobody
    NoDisk = NoDisk
    ApiFaults = {"error", "lost"}
    Name = {v1}
    Slots = {1, 2}
    Requests <- ThreeRequests
    InitialDisks <- MixedZone
    Self = vm1
    Faults = {"persist", "probe", "crash", "reboot", "other"}
    CreateAfter = "removal"
    MaxRef = 2
    MaxContainers = 2
    NoVolume = NoVolume
    NoOp = NoOp
INVARIANTS
    TypeOK
    NeverTorn
PROPERTIES
    ForeignUntouched
