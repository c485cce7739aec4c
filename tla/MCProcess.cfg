SPECIFICATION FairSpec
CONSTANT NProc = 3
INVARIANTS TypeOK OnlyCurrentRuns
   
