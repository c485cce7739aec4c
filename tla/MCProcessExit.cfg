SPECIFICATION Spec
CONSTANT NProc = 3
PROPERTY ExitWakesWaiter
