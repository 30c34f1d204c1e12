CONSTANT NoFile = NoFile
CONSTANT MaxRuns = 3
SPECIFICATION Spec
INVARIANT NewIsoOfOneRelease
CONSTANT Fragile = {"init.sh", "boot/vmlinuz", "chrysalis_daemon"}
