SPECIFICATION FairSpec
CONSTANTS
    Name = {db, logs}
    Origins = {"blank", "ext4", "xfs"}
    FSTypes = {"ext4", "xfs"}
    Faults = {"probe", "mkfs", "mount", "umount", "crash"}
PROPERTIES
    KeepsData
    GetsMounted
