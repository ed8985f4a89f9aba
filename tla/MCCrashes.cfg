SPECIFICATION Spec
CONSTANTS
    Sizes = {10}
    DiskTypes = {"pd-balanced"}
    FSTypes = {"ext4"}
    Sources = {}
    UserLabelKeys = {}
    UserLabelValues = {}
    Instances = {vm1, vm2}
    nobody = nobody
    NoDisk = NoDisk
    ApiFaults = {"error", "lost"}
    Name = {v1, v2}
    Slots = {1}
    Requests <- ThreeRequests
    InitialDisks <- EmptyZone
    Self = vm1
    Faults = {"device", "crash", "reboot", "other"}
    CreateAfter = "deletion"
    MaxRef = 2
    MaxContainers = 1
    NoVolume = NoVolume
    NoOp = NoOp
INVARIANTS
    AdvertisedIsMounted
    NeverTorn
    TrackedHasDisk
    UsedIsMounted
PROPERTIES
    DeletesOnlyDoomed
    MarkedBeforeDeleted
    FollowsVolumeLife
