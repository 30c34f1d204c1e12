------------------------------ MODULE HybridFs ------------------------------
(***************************************************************************)
(* The files the build scripts share: the sources under os/linux_port, the *)
(* tree under hybrid/rootfs, and the archive and ISO images next to it.    *)
(*                                                                         *)
(* A file is NoFile or a record of what it holds and whether it is         *)
(* executable.  What a file holds is a name: generated text is named after *)
(* the script that writes it, a compiled binary and an image after the run *)
(* that made it, "new" for the run in progress (or the last one) and "old" *)
(* for any run before.  Starting a run ages every "new" to "old".          *)
(***************************************************************************)
EXTENDS Naturals, TLC

CONSTANTS NoFile,
          Fragile         \* bound: the files whose copy or write may be cut short

\* required_files of both build scripts, and the two headers among them.
LinuxPortSources == {"chrysalis_daemon.c", "types_linux.h", "syscall_map.h", "Makefile"}
Headers          == {"types_linux.h", "syscall_map.h"}

\* What may be under os/linux_port: all the sources, or all but one.  Both
\* scripts stop at the first source they miss, so a second missing one would
\* make no run different.
SourceSets == {LinuxPortSources \ gone : gone \in {{}} \cup {{f} : f \in LinuxPortSources}}

\* Where a header goes below hybrid/rootfs/opt/chrysalis.
HeaderDst == ("types_linux.h" :> "include/types_linux.h") @@
             ("syscall_map.h" :> "include/syscall_map.h")

File(content, exec) == [content |-> content, exec |-> exec]

(***************************************************************************)
(* The four files build-alpine-hybrid.py takes from alpine/, and where it  *)
(* puts them.  They are of one Alpine release or another; two releases are *)
(* enough for a tree to mix them.  shutil.copy keeps content and mode, and *)
(* busybox is the one executable among them.                               *)
(***************************************************************************)
AlpineFiles == {"vmlinuz", "initramfs", "modloop", "busybox"}
Releases    == {"alpine-a", "alpine-b"}

AlpineDst == ("vmlinuz" :> "boot/vmlinuz") @@ ("initramfs" :> "boot/initramfs") @@
             ("modloop" :> "boot/modloop") @@ ("busybox" :> "bin/busybox")

AlpineFile(name, release) == File(release, name = "busybox")

\* The files of stage 7 of build-alpine-hybrid.py.
EtcFiles == {"etc/fstab", "etc/hostname", "etc/hosts", "etc/passwd"}

\* The files of the rootfs tree that a build script writes or tests.
RootfsPaths == {"init.sh", "chrysalis_daemon", "Makefile", "README_LINUX.md",
                "include/types_linux.h", "include/syscall_map.h",
                "gui/launcher.sh", ".bashrc", "bin/network-utils.sh", "README_GUI.md",
                "boot/vmlinuz", "boot/initramfs", "boot/modloop", "bin/busybox",
                "bin/sh", "kernel.h", "boot/grub/grub.cfg"} \cup EtcFiles

Builds   == {"old", "new"}
Contents == Builds \cup LinuxPortSources \cup Releases
               \cup {"hybrid", "linux", "gui", "iso", "kernel", "link", "partial"}
Files    == {NoFile} \cup [content : Contents, exec : BOOLEAN]
Trees    == [RootfsPaths -> Files]

EmptyTree == [p \in RootfsPaths |-> NoFile]

(***************************************************************************)
(* hybrid/iso_root, the tree create-alpine-iso.py stages and packs: three  *)
(* files copied from the rootfs tree under their own paths, three files it *)
(* writes, and a copy of rootfs.tar.gz.                                    *)
(***************************************************************************)
StagedBoot    == <<"boot/vmlinuz", "boot/initramfs", "boot/grub/grub.cfg">>
StagedWritten == {"boot/grub/menu.lst", "README.txt", "boot/syslinux/syslinux.cfg"}
StagedArchive == "boot/rootfs.tar.gz"

IsoRootPaths == {StagedBoot[k] : k \in DOMAIN StagedBoot} \cup StagedWritten \cup {StagedArchive}

EmptyIsoRoot == [p \in IsoRootPaths |-> NoFile]

\* open(path, "w") and write: a new file is not executable, an old one keeps
\* its mode.
WrittenAll(tree, paths, content) ==
    [p \in DOMAIN tree |->
        IF p \in paths THEN File(content, tree[p] # NoFile /\ tree[p].exec) ELSE tree[p]]

\* Fault: the file is removed and made anew, and its mode is lost.
WrittenResetsMode(tree, path, content) == [tree EXCEPT ![path] = File(content, FALSE)]

Written(tree, path, content) == WrittenAll(tree, {path}, content)

(***************************************************************************)
(* A copy (shutil.copy, copy2) or a write (open(path, "w"), write_text)    *)
(* that an error of the disk cuts short.  The file was opened, and so      *)
(* emptied, and holds part of what was to be in it; a file that was there  *)
(* keeps its mode, which a copy sets only after the content.               *)
(***************************************************************************)
CutShort(tree, path) ==
    [tree EXCEPT ![path] = File("partial", @ # NoFile /\ @.exec)]

\* os.chmod(path, 0o755) or 0o644.
Chmod(tree, path, exec) == [tree EXCEPT ![path].exec = exec]

(***************************************************************************)
(* tar czf and grub-mkrescue pack the tree as it is when they run.  A      *)
(* command that fails, or is killed, leaves what it had written: an image  *)
(* that is not complete.                                                   *)
(***************************************************************************)
Packed(tree, complete) == [made |-> "new", complete |-> complete, tree |-> tree]

Images == {NoFile} \cup [made : Builds, complete : BOOLEAN, tree : Trees]

IsoRoots == {t \in [IsoRootPaths -> Files \cup Images] :
                t[StagedArchive] \in Images /\ \A p \in IsoRootPaths \ {StagedArchive} : t[p] \in Files}

\* What can be at the path of the ISO: the image of the rootfs tree, as the
\* two build scripts make it, or the image of iso_root.
IsoImages == Images \cup [made : Builds, complete : BOOLEAN, tree : IsoRoots]

\* The line sha256sum writes for an image; nothing when it fails.
Checksum(image) == [of |-> image]
Checksums == {NoFile} \cup [of : IsoImages]

(***************************************************************************)
(* grub-mkrescue writes the image of the tree, fails before it touched the *)
(* output path, or fails having written part of the image.                 *)
(***************************************************************************)
GrubOutcomes == {"written", "untouched", "partial"}

AfterGrub(outcome, tree, before) ==
    CASE outcome = "written"   -> Packed(tree, TRUE)
      [] outcome = "untouched" -> before
      [] outcome = "partial"   -> Packed(tree, FALSE)

\* A file that is there with all of its content.
Whole(f) == f # NoFile /\ f.content # "partial"

\* An image one could boot or unpack.
Good(image) == image # NoFile /\ image.complete

(***************************************************************************)
(* A tree the boot sequence of the manifest can start from: GRUB loads     *)
(* vmlinuz and initramfs, which must be of one release together with the   *)
(* modules and busybox; grub.cfg and init.sh must be whole, and init.sh    *)
(* executable.                                                             *)
(***************************************************************************)
Bootable(tree) ==
    /\ \E r \in Releases : \A f \in AlpineFiles : tree[AlpineDst[f]] = AlpineFile(f, r)
    /\ Whole(tree["boot/grub/grub.cfg"])
    /\ Whole(tree["init.sh"]) /\ tree["init.sh"].exec

\* What a run now starting finds: everything was made by an earlier run.
AgedBuild(b) == IF b = "new" THEN "old" ELSE b

AgedFile(f) == IF f = NoFile THEN NoFile ELSE [f EXCEPT !.content = AgedBuild(@)]

RECURSIVE AgedImage(_)

AgedTree(tree) ==
    [p \in DOMAIN tree |->
        IF p = StagedArchive THEN AgedImage(tree[p]) ELSE AgedFile(tree[p])]

AgedImage(image) ==
    IF image = NoFile THEN NoFile
    ELSE [made |-> "old", complete |-> image.complete, tree |-> AgedTree(image.tree)]

AgedChecksum(c) == IF c = NoFile THEN NoFile ELSE Checksum(AgedImage(c.of))
=============================================================================
