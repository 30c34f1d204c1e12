----------------------------- MODULE BuildChain -----------------------------
(***************************************************************************)
(* The four scripts that work on hybrid/, over one file system:            *)
(* build-alpine-hybrid.py, build_chrysalis_linux.py, build_chrysalis_gui.py *)
(* and create-alpine-iso.py.  They are run by hand, one at a time, in any  *)
(* order and any number of times; each run may fail or be killed at any    *)
(* stage, and the next run, of whichever script, starts from what is on    *)
(* disk.  Every step of a run is a step of that script's own module.       *)
(***************************************************************************)
EXTENDS Naturals, HybridFs

CONSTANT MaxRuns          \* how many runs a behaviour has, all scripts together

VARIABLES running,        \* the script that runs, or ran last
          runs,           \* the runs started so far
          stage, step, exit_code, said,            \* of that run
          srcFiles, daemon_built,                  \* os/linux_port
          alpine,                                  \* alpine/
          rootfs, tarball, manifest,               \* hybrid/rootfs and its archive
          iso_root, iso, bak, sha256, deploy       \* the ISO and what goes with it

control == <<stage, step, exit_code, said>>
vars    == <<running, runs, control, srcFiles, daemon_built, alpine, rootfs, tarball,
             manifest, iso_root, iso, bak, sha256, deploy>>

Alpine == INSTANCE AlpineHybridBuild
Linux  == INSTANCE LinuxPortBuild
Gui    == INSTANCE GuiBuild
MkIso  == INSTANCE AlpineIso

Scripts == {"alpine", "linux", "gui", "iso"}

Init ==
    /\ running = "none" /\ runs = 0
    /\ stage = 0 /\ step = 1 /\ exit_code = 0 /\ said = {}
    /\ srcFiles = LinuxPortSources /\ daemon_built = NoFile
    /\ alpine = [f \in AlpineFiles |-> NoFile]
    /\ rootfs = EmptyTree /\ tarball = NoFile /\ manifest = NoFile
    /\ iso_root = EmptyIsoRoot
    /\ iso = NoFile /\ bak = NoFile /\ sha256 = NoFile /\ deploy = NoFile

-----------------------------------------------------------------------------
(***************************************************************************)
(* A script is started.  Its own module ages the files it knows; the files *)
(* of the other scripts are as old.                                        *)
(***************************************************************************)
Starts(script) ==
    /\ runs < MaxRuns
    /\ runs' = runs + 1
    /\ running' = script

StartAlpine ==
    /\ Starts("alpine")
    /\ Alpine!Invoke
    /\ daemon_built' = AgedBuild(daemon_built)
    /\ iso_root' = AgedTree(iso_root)
    /\ iso' = AgedImage(iso) /\ bak' = AgedImage(bak)
    /\ sha256' = AgedChecksum(sha256) /\ deploy' = AgedChecksum(deploy)
    /\ UNCHANGED srcFiles

StartLinux ==
    /\ Starts("linux")
    /\ Linux!Invoke
    /\ manifest' = AgedBuild(manifest)
    /\ iso_root' = AgedTree(iso_root)
    /\ sha256' = AgedChecksum(sha256) /\ deploy' = AgedChecksum(deploy)
    /\ UNCHANGED alpine

StartGui ==
    /\ Starts("gui")
    /\ Gui!Invoke
    /\ manifest' = AgedBuild(manifest)
    /\ iso_root' = AgedTree(iso_root)
    /\ sha256' = AgedChecksum(sha256) /\ deploy' = AgedChecksum(deploy)
    /\ UNCHANGED alpine

StartMkIso ==
    /\ Starts("iso")
    /\ MkIso!Invoke
    /\ daemon_built' = AgedBuild(daemon_built)
    /\ manifest' = AgedBuild(manifest)
    /\ bak' = AgedImage(bak)
    /\ UNCHANGED <<srcFiles, alpine>>

\* One step of the script that runs; the files it does not know stay.
AlpineStep ==
    /\ running = "alpine"
    /\ Alpine!Stage
    /\ UNCHANGED <<running, runs, srcFiles, daemon_built, iso_root, iso, bak, sha256, deploy>>

LinuxStep ==
    /\ running = "linux"
    /\ Linux!Stage
    /\ UNCHANGED <<running, runs, alpine, manifest, iso_root, sha256, deploy>>

GuiStep ==
    /\ running = "gui"
    /\ Gui!Stage
    /\ UNCHANGED <<running, runs, alpine, manifest, iso_root, sha256, deploy>>

MkIsoStep ==
    /\ running = "iso"
    /\ MkIso!Stage
    /\ UNCHANGED <<running, runs, srcFiles, daemon_built, alpine, manifest, bak>>

\* The script that runs is killed; what it was writing is left as its own
\* module says.
Killed ==
    \/ /\ running = "alpine" /\ Alpine!Interrupted
       /\ UNCHANGED <<running, runs, srcFiles, daemon_built, iso_root, iso, bak, sha256, deploy>>
    \/ /\ running = "linux" /\ Linux!Interrupted
       /\ UNCHANGED <<running, runs, alpine, manifest, iso_root, sha256, deploy>>
    \/ /\ running = "gui" /\ Gui!Interrupted
       /\ UNCHANGED <<running, runs, alpine, manifest, iso_root, sha256, deploy>>
    \/ /\ running = "iso" /\ MkIso!Interrupted
       /\ UNCHANGED <<running, runs, srcFiles, daemon_built, alpine, manifest, bak>>

(***************************************************************************)
(* Between runs alpine/ is filled by a download of one release: all four   *)
(* files, or the kernel alone when the download stopped after it.          *)
(***************************************************************************)
Download ==
    /\ stage = 0
    /\ \E r \in Releases, present \in {AlpineFiles, {"vmlinuz"}} :
          alpine' = Alpine!Downloaded(r, present)
    /\ UNCHANGED <<running, runs, control, srcFiles, daemon_built, rootfs, tarball,
                   manifest, iso_root, iso, bak, sha256, deploy>>

Step == AlpineStep \/ LinuxStep \/ GuiStep \/ MkIsoStep

Next == StartAlpine \/ StartLinux \/ StartGui \/ StartMkIso \/ Step \/ Killed \/ Download

Spec == Init /\ [][Next]_vars

-----------------------------------------------------------------------------
TypeOK ==
    /\ running \in Scripts \cup {"none"} /\ runs \in 0 .. MaxRuns
    /\ stage \in 0 .. 14 /\ step \in 1 .. 3
    /\ exit_code \in {0, 1, 130}
    /\ said \subseteq Alpine!Messages \cup Linux!Messages \cup Gui!Messages \cup MkIso!Messages
    /\ srcFiles \subseteq LinuxPortSources
    /\ daemon_built \in {NoFile} \cup Builds
    /\ alpine \in [AlpineFiles -> Files]
    /\ rootfs \in Trees /\ tarball \in Images
    /\ manifest \in {NoFile, "partial"} \cup Builds
    /\ iso_root \in IsoRoots
    /\ {iso, bak} \subseteq IsoImages
    /\ {sha256, deploy} \subseteq Checksums

\* Kernel and initramfs of an image, whichever tree it was packed from.
OneRelease(tree) ==
    tree["boot/vmlinuz"] # NoFile =>
        /\ tree["boot/initramfs"] # NoFile
        /\ tree["boot/initramfs"].content = tree["boot/vmlinuz"].content

(***************************************************************************)
(* No step of build_chrysalis_linux.py, build_chrysalis_gui.py or          *)
(* create-alpine-iso.py that lets its run go on makes a tree that boots    *)
(* into one that does not.  The build scripts add to the tree, the GUI     *)
(* build rewrites init.sh in two calls, open and chmod, and a run may be   *)
(* killed between any two steps; create-alpine-iso.py only reads the tree. *)
(* After every step of theirs the tree still holds kernel, initramfs,      *)
(* modloop and busybox of one release, grub.cfg and a whole init.sh that   *)
(* can be executed.  The one exception is the write of stage 8 of the GUI  *)
(* build that does not reach its end: init.sh is written in place, so an   *)
(* error or a kill inside the write leaves it in part, and the run ends    *)
(* there, with exit code 1 or by the signal.                               *)
(***************************************************************************)
InitLeftInPart ==
    /\ running = "gui" /\ rootfs'["init.sh"].content = "partial"
    /\ stage = 8 /\ stage' = 0 /\ exit_code' \in {1, 130}

BuildsKeepTreeBootable ==
    [][(Bootable(rootfs) /\ ~Bootable(rootfs')) => (running = "alpine" \/ InitLeftInPart)]_vars

(***************************************************************************)
(* What each build script promises of its ISO on its own holds in the      *)
(* chain: an ISO the Linux port build or the GUI build has just written    *)
(* carries the daemon that run compiled and the files that run wrote,      *)
(* whatever the runs of the other scripts before it left in the tree, in   *)
(* os/linux_port and at the path of the ISO.                               *)
(***************************************************************************)
NewIsoCarriesThisBuild ==
    /\ running = "linux" => Linux!NewIsoCarriesThisBuild
    /\ running = "gui"   => Gui!NewIsoCarriesThisBuild

(***************************************************************************)
(* What build-alpine-hybrid.py and create-alpine-iso.py promise on their   *)
(* own holds in the chain, where the tree is not only what a download and  *)
(* one script left: the two build scripts have rewritten init.sh and added *)
(* to the tree, any run may have stopped anywhere, and the archive and the *)
(* ISO may be those of another script, whole or in part.  An archive       *)
(* build-alpine-hybrid.py packs still starts, "BUILD COMPLETE" is still    *)
(* said of the tree as packed, and an ISO create-alpine-iso.py writes      *)
(* still carries the boot files and the archive that are on disk, with a   *)
(* checksum that is its own.                                               *)
(***************************************************************************)
AlpinePromisesHoldInChain ==
    /\ running = "alpine" => Alpine!ArchiveIsCoherent /\ Alpine!CompleteBuildPackedTree
    /\ running = "iso"    => MkIso!NewIsoPacksWhatIsOnDisk /\ MkIso!ChecksumIsOfIso

(***************************************************************************)
(* "Bootable ISO", "READY FOR PRODUCTION": an ISO a script has just        *)
(* written starts the kernel with the initramfs that belongs to it.        *)
(***************************************************************************)
NewIsoOfOneRelease ==
    (Good(iso) /\ iso.made = "new") => OneRelease(iso.tree)

(***************************************************************************)
(* "All files present", "Rootfs ready": the init.sh in an ISO that         *)
(* build_chrysalis_linux.py has just written is a whole script.  Stage 1   *)
(* asks whether init.sh exists and stage 7 makes it executable; neither    *)
(* looks into it.                                                          *)
(***************************************************************************)
NewIsoHoldsWholeInit ==
    (running = "linux" /\ Good(iso) /\ iso.made = "new") => Whole(iso.tree["init.sh"])

(***************************************************************************)
(* What a script reports of the ISO is true of the file at the ISO's path: *)
(* "Created" of build_chrysalis_linux.py (stage 8, "Create new bootable    *)
(* ISO") is said of a complete image this run wrote, "Created" of          *)
(* build_chrysalis_gui.py (which has an else branch "Failed to create      *)
(* ISO") of a complete image, and "BOOTABLE ISO READY FOR DEPLOYMENT" of   *)
(* create-alpine-iso.py of a complete image this run wrote.                *)
(***************************************************************************)
ReportedIsoIsThere ==
    /\ running = "linux" => Linux!CreatedIsoIsNew
    /\ running = "gui"   => Gui!CreatedIsoIsGood
    /\ running = "iso"   => MkIso!ReadyIsoIsNew

(***************************************************************************)
(* "Backup old ISO", "Backed up old ISO": no step of a build script        *)
(* destroys the last image that can be booted.  While the ISO or its       *)
(* backup is complete, one of them still is after a step of                *)
(* build_chrysalis_linux.py or build_chrysalis_gui.py, whichever script    *)
(* wrote the two files before.                                             *)
(***************************************************************************)
BackupKeepsGoodImage ==
    [][(running' \in {"linux", "gui"} /\ (Good(iso) \/ Good(bak)))
          => (Good(iso') \/ Good(bak'))]_vars
=============================================================================
