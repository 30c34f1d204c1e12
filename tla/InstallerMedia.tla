--------------------------- MODULE InstallerMedia ---------------------------
(***************************************************************************)
(* src/prepare-installer-media.py: five stages at the top level of the     *)
(* script, over installer/iso/install.  It copies the compiled kernel,     *)
(* makes the directories of a root tree, writes grub.cfg into it, packs    *)
(* the tree into rootfs.tar and writes a manifest that quotes the sizes of *)
(* kernel and archive.  Nothing is caught: an exception ends the run.      *)
(*                                                                         *)
(* Each of the four files is opened for writing, which empties it, and     *)
(* filled afterwards; a run that ends in between leaves it torn.           *)
(***************************************************************************)
EXTENDS Naturals, FiniteSets, TLC

CONSTANT NoFile

VARIABLES stage,          \* the stage the script is in, 0 when no run is in progress
          open,           \* the file of this stage is open and not yet written
          exit_code,      \* of the last run, once stage = 0
          said,           \* what the run has printed, of the Messages
          kernel_src,     \* os/iso/boot/kernel.bin
          dirs,           \* the seven directories under rootfs/ exist
          media           \* the four files the script writes

control == <<stage, open, exit_code, said>>
files   == <<kernel_src, dirs, media>>
vars    == <<control, files>>

\* The files in the order the script writes them, and the stage of each.
Artefacts == <<"kernel_dest", "grub_cfg", "rootfs_tar", "manifest">>
StageOf   == [kernel_dest |-> 1, grub_cfg |-> 3, rootfs_tar |-> 4, manifest |-> 5]
SUMMARY   == 6
Messages  == {"NO_KERNEL", "MEDIA_READY"}
KILLED    == 130

\* Two builds of the kernel, and what os.path.getsize says of each.
KernelSize == ("kernel-a" :> 2) @@ ("kernel-b" :> 3)
Kernels    == DOMAIN KernelSize

GRUB_CFG == "grub_cfg"    \* the two menu entries of stage 3
Builds   == {"old", "new"}

\* A file this run wrote, and one it has emptied or written in part.
File(data) == [made |-> "new", whole |-> TRUE, data |-> data]
Torn       == [made |-> "new", whole |-> FALSE]
Whole(f)   == f # NoFile /\ f.whole

\* tar.add of rootfs/: the directories and grub.cfg as they are on disk.
Tree == [dirs |-> dirs, grub |-> Whole(media.grub_cfg)]

\* os.path.getsize of the kernel and of the archive.
KernelBytes(f) == IF f.whole THEN KernelSize[f.data] ELSE 0
TarBytes(f)    == IF ~f.whole THEN 0 ELSE IF f.data.grub THEN 2 ELSE 1

\* Fault: the branches of the conditional are the wrong way round.
ManifestSwapsBranches ==
    [kernel |-> IF media.kernel_dest = NoFile THEN KernelBytes(media.kernel_dest) ELSE 0,
     tar    |-> TarBytes(media.rootfs_tar)]

\* The FILES section of the manifest.
Manifest ==
    [kernel |-> IF media.kernel_dest # NoFile THEN KernelBytes(media.kernel_dest) ELSE 0,
     tar    |-> TarBytes(media.rootfs_tar)]

Trees     == [dirs : BOOLEAN, grub : BOOLEAN]
Manifests == [kernel : 0 .. 3, tar : 0 .. 2]
FilesOf   == [kernel_dest |-> Kernels, grub_cfg |-> {GRUB_CFG},
              rootfs_tar |-> Trees, manifest |-> Manifests]
Files(a)  == {NoFile} \cup [made : Builds, whole : {FALSE}]
                      \cup [made : Builds, whole : {TRUE}, data : FilesOf[a]]

-----------------------------------------------------------------------------
Goes(k) == stage' = k /\ open' = FALSE /\ UNCHANGED <<exit_code, said>>

\* The process ends: sys.exit, the last line, a traceback or a signal.
Exits(code) == stage' = 0 /\ open' = FALSE /\ exit_code' = code

\* open(path, 'wb') or 'w': the file is there and empty.
Opens(a) ==
    /\ stage = StageOf[a] /\ ~open
    /\ open' = TRUE
    /\ media' = [media EXCEPT ![a] = Torn]
    /\ UNCHANGED <<stage, exit_code, said, kernel_src, dirs>>

\* write and close: the file holds the data, and the next stage begins.
Writes(a, data, next) ==
    /\ stage = StageOf[a] /\ open
    /\ media' = [media EXCEPT ![a] = File(data)]
    /\ Goes(next)
    /\ UNCHANGED <<kernel_src, dirs>>

Init ==
    /\ stage = 0 /\ open = FALSE /\ exit_code = 0 /\ said = {}
    /\ kernel_src = NoFile /\ dirs = FALSE
    /\ media = [a \in DOMAIN StageOf |-> NoFile]

\* Fault: a missing kernel is reported with the errno.
NoKernelExitsWithErrno ==
    /\ stage = 1 /\ kernel_src = NoFile
    /\ said' = said \cup {"NO_KERNEL"}
    /\ Exits(2)
    /\ UNCHANGED files

\* Stage 1, the else branch: no kernel to copy, sys.exit(1).
NoKernel ==
    /\ stage = 1 /\ kernel_src = NoFile
    /\ said' = said \cup {"NO_KERNEL"}
    /\ Exits(1)
    /\ UNCHANGED files

\* Stage 1: the destination is opened, and so emptied, before the source is
\* read into it.
OpenKernel == kernel_src # NoFile /\ Opens("kernel_dest")
CopyKernel == Writes("kernel_dest", kernel_src, 2)

\* Stage 2: os.makedirs, seven times.
MakeDirs ==
    /\ stage = 2
    /\ dirs' = TRUE
    /\ Goes(3)
    /\ UNCHANGED <<kernel_src, media>>

\* Stage 3.
OpenGrubCfg  == Opens("grub_cfg")
WriteGrubCfg == Writes("grub_cfg", GRUB_CFG, 4)

\* Fault: an archive that could not be filled is passed over.
AddRootfsFailsQuietly ==
    \/ Writes("rootfs_tar", Tree, 5)
    \/ stage = 4 /\ open /\ Goes(5) /\ UNCHANGED files

\* Stage 4: tarfile.open(rootfs_tar, 'w'), then tar.add of the tree.
OpenTar   == Opens("rootfs_tar")
AddRootfs == Writes("rootfs_tar", Tree, 5)

\* Stage 5: the sizes are those of the files as they are now.
OpenManifest  == Opens("manifest")
WriteManifest == Writes("manifest", Manifest, SUMMARY)

\* makedirs, open or write raises OSError: a file that was open stays torn.
StageRaises ==
    /\ stage \in 1 .. 5 /\ (stage = 1 => kernel_src # NoFile)
    /\ Exits(1)
    /\ UNCHANGED <<said, files>>

\* "INSTALLATION MEDIA READY", and the script ends.
Summary ==
    /\ stage = SUMMARY
    /\ said' = said \cup {"MEDIA_READY"}
    /\ Exits(0)
    /\ UNCHANGED files

\* The run is killed.
Interrupted ==
    /\ stage # 0
    /\ Exits(KILLED)
    /\ UNCHANGED <<said, files>>

Aged(f) == IF f = NoFile THEN NoFile ELSE [f EXCEPT !.made = "old"]

(***************************************************************************)
(* The script is started.  What it wrote before was made by an earlier     *)
(* run; since then the kernel was built again (`npm run build`), or        *)
(* cleaned away, or left as it was.                                        *)
(***************************************************************************)
Invoke ==
    /\ stage = 0
    /\ stage' = 1 /\ open' = FALSE /\ exit_code' = 0 /\ said' = {}
    /\ kernel_src' \in Kernels \cup {NoFile}
    /\ media' = [a \in DOMAIN media |-> Aged(media[a])]
    /\ UNCHANGED dirs

Stage == \/ NoKernel \/ OpenKernel \/ CopyKernel \/ MakeDirs
         \/ OpenGrubCfg \/ WriteGrubCfg \/ OpenTar \/ AddRootfs
         \/ OpenManifest \/ WriteManifest \/ StageRaises \/ Summary

Next == Stage \/ Invoke \/ Interrupted

Spec == Init /\ [][Next]_vars

-----------------------------------------------------------------------------
TypeOK ==
    /\ stage \in 0 .. SUMMARY /\ open \in BOOLEAN
    /\ exit_code \in {0, 1, KILLED}
    /\ said \subseteq Messages
    /\ kernel_src \in Kernels \cup {NoFile} /\ dirs \in BOOLEAN
    /\ \A a \in DOMAIN StageOf : media[a] \in Files(a)

(***************************************************************************)
(* "INSTALLATION MEDIA READY" is said of media that hang together: the     *)
(* kernel is the compiled kernel as it is now, the archive holds the tree  *)
(* as it is on disk with grub.cfg in it, and the manifest quotes the sizes *)
(* the kernel and the archive have.  Earlier runs may have left any of the *)
(* four files torn, or whole and of another kernel; the script tests none  *)
(* of them, so this rests on every stage writing its file again and on the *)
(* manifest being written last.                                            *)
(***************************************************************************)
ReadyMediaHangTogether ==
    "MEDIA_READY" \in said =>
        /\ \A k \in DOMAIN Artefacts : Whole(media[Artefacts[k]])
        /\ media.kernel_dest.data = kernel_src
        /\ media.rootfs_tar.data = Tree /\ Tree.grub
        /\ media.manifest.data = [kernel |-> KernelBytes(media.kernel_dest),
                                  tar    |-> TarBytes(media.rootfs_tar)]

(***************************************************************************)
(* The script as an update of media (MediaUpdate): the artefacts that are  *)
(* whole and of this run are always the first few in the order kernel,     *)
(* grub.cfg, archive, manifest; each step of the script adds at most the   *)
(* next one; and the run reports the media ready only with all four.  The  *)
(* mapping reads the files, not the stage counter.                         *)
(***************************************************************************)
Fresh(a) == Whole(media[a]) /\ media[a].made = "new"

FreshPrefix ==
    Cardinality({k \in DOMAIN Artefacts : \A j \in 1 .. k : Fresh(Artefacts[j])})

Update == INSTANCE MediaUpdate WITH
              N <- 4, active <- stage # 0, fresh <- FreshPrefix,
              reported <- "MEDIA_READY" \in said

ImplementsMediaUpdate == Update!Spec
=============================================================================
