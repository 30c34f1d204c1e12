CONSTANT NoFile = NoFile
CONSTANT MaxRuns = 3
SPECIFICATION Spec
INVARIANT ReportedIsoIsThere
CONSTANT Fragile = {"init.sh", "boot/vmlinuz", "chrysalis_daemon"}
