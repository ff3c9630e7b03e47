\* The troubleshooting guide on busy mounts.
CONSTANT MaxInterrupts = 0
SPECIFICATION Spec
PROPERTY NeverDetachedInUse
CHECK_DEADLOCK FALSE
