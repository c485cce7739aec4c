CONSTANTS
    Names = {f1, f2}
    Texts <- MCTexts
    Fds = {3}
    MaxFiles = 3
    Area = 5
    Block = 2
    MaxSeek = 1
    Room = 3
    Profiles = {"commands", "own"}
SPECIFICATION Spec
INVARIANT TypeOK
 
 
SYMMETRY MCSymmetry
