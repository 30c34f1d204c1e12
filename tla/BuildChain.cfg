CONSTANT NoFile = NoFile
CONSTANT MaxRuns = 3
SPECIFICATION Spec
INVARIANT TypeOK
INVARIANT NewIsoCarriesThisBuild
INVARIANT AlpinePromisesHoldInChain
PROPERTY BuildsKeepTreeBootable
CONSTANT Fragile = {"init.sh", "boot/vmlinuz", "chrysalis_daemon"}
