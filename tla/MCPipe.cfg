SPECIFICATION Spec
CONSTANTS
    NProc = 3
    NFds = 3
    KeptFds = 1
    NPipes = 2
    PipeBytes = 1
    MaxRefs = 4
    Profiles = {{}, {"dup"}, {"exec", "exit", "kill"}}
CONSTRAINT ThirdIfCareful
INVARIANTS TypeOK RefsExact EofDetected
 
