SPECIFICATION Spec
CONSTANT NoFile = NoFile
INVARIANT CompleteBuildExitsZero
CONSTANT Fragile = {"chrysalis_daemon", "include/types_linux.h", "include/syscall_map.h", "Makefile", "README_LINUX.md"}
