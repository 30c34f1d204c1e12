SPECIFICATION Spec
CONSTANT NoFile = NoFile
INVARIANT TypeOK
INVARIANT NewIsoCarriesThisBuild
INVARIANT CompleteBuildWroteIso
CONSTANT Fragile = {"chrysalis_daemon", "gui/launcher.sh", ".bashrc", "init.sh", "bin/network-utils.sh", "README_GUI.md"}
