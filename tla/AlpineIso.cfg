CONSTANT NoFile = NoFile
SPECIFICATION Spec
INVARIANT TypeOK
INVARIANT NewIsoPacksWhatIsOnDisk
INVARIANT ChecksumIsOfIso
CONSTANT Fragile = {"boot/vmlinuz", "boot/rootfs.tar.gz", "README.txt", "DEPLOY_INFO.txt"}
