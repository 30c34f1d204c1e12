CONSTANT NoFile = NoFile
CONSTANT MaxRuns = 3
SPECIFICATION Spec
PROPERTY BackupKeepsGoodImage
CONSTANT Fragile = {"init.sh", "boot/vmlinuz", "chrysalis_daemon"}
