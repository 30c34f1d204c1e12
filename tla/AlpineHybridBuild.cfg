CONSTANT NoFile = NoFile
SPECIFICATION Spec
INVARIANT TypeOK
INVARIANT ArchiveIsCoherent
INVARIANT CompleteBuildPackedTree
CONSTANT Fragile = {"boot/vmlinuz", "init.sh", "BUILD_MANIFEST.txt", "etc/hosts"}
