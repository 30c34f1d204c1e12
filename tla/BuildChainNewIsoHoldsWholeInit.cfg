CONSTANT NoFile = NoFile
CONSTANT MaxRuns = 3
SPECIFICATION Spec
INVARIANT NewIsoHoldsWholeInit
CONSTANT Fragile = {"init.sh", "boot/vmlinuz", "chrysalis_daemon"}
