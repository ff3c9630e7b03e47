\* The documentation of Ctrl-C in a run.
CONSTANT MaxInterrupts = 1
SPECIFICATION Spec
INVARIANT CtrlCCleansUp
CHECK_DEADLOCK FALSE
