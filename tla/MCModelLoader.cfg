SPECIFICATION Spec
CONSTANTS
    NoImage = NoImage
    Torn = Torn
    Images <- MCImages
    Lbas = {0, 4}
    DiskSectors = 10
    ReadMax = 1
    RamMax = 3000
    MaxWrites = 2
INVARIANTS
    TypeOK
    HeadersAccepted
    SectionsFound
    LayerPartsFound
    
    StreamOwnModel

    
