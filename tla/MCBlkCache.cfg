SPECIFICATION Spec
CONSTANTS
    Devs = {0, 1}
    Nvme = {1}
    Long = {1}
    NSectors = 2
    Data = {x, y}
    Zero = x
    NEntries = 2
    Counts = {2}
INVARIANTS TypeOK OneCopy CleanIsCurrent
PROPERTIES IsDisk
