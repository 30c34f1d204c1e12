CONSTANT NoFile = NoFile
CONSTANT MaxRuns = 4
SPECIFICATION Spec
INVARIANT TypeOK
INVARIANT NewIsoCarriesThisBuild
INVARIANT AlpinePromisesHoldInChain
PROPERTY BuildsKeepTreeBootable
CONSTANT Fragile = {"init.sh", "boot/vmlinuz", "chrysalis_daemon"}
