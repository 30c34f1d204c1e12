--------------------------- MODULE LinuxPortBuild ---------------------------
(***************************************************************************)
(* src/build_chrysalis_linux.py: the nine stages that compile the daemon,  *)
(* install it into the rootfs tree and pack the tree into an archive and a *)
(* bootable ISO.                                                           *)
(*                                                                         *)
(* main calls the stages in order and stops at the first one whose result  *)
(* is not true or that raises.  run_command ends the process itself when a *)
(* checked command fails.  Stages 2 and 8 run external commands and are    *)
(* split at them; every other stage is one step.                           *)
(***************************************************************************)
EXTENDS Naturals, Sequences, HybridFs

VARIABLES stage,          \* the stage main is in, 0 when no run is in progress
          step,           \* the command a split stage is at
          exit_code,      \* of the last run, once stage = 0
          said,           \* what the run has printed, of the Messages
          srcFiles,       \* the files present under os/linux_port
          daemon_built,   \* os/linux_port/chrysalis_daemon
          rootfs,         \* the tree under hybrid/rootfs
          tarball,        \* hybrid/rootfs.tar.gz
          iso,            \* hybrid/chrysalis-alpine-hybrid.iso
          bak             \* hybrid/chrysalis-alpine-hybrid.iso.bak

control == <<stage, step, exit_code, said>>
files   == <<srcFiles, daemon_built, rootfs, tarball, iso, bak>>
vars    == <<control, files>>

\* The `stages` list of main.
Stages == <<"Validation", "Compilation", "Installation", "Headers", "Build System",
            "Documentation", "Rootfs Prep", "ISO Creation", "Summary">>

Messages == {"ISO_CREATED", "BUILD_COMPLETE", "STAGE_FAILED", "BUILD_SUCCESSFUL"}

\* What a stage function hands back; `not` takes None for a failure.
Results == {"True", "False", "None"}
Falsy(r) == r \in {"False", "None"}

KILLED == 130

(***************************************************************************)
(* The body of main's loop once stage k has returned r and printed what    *)
(* it printed: stop with 1, go on, or, after the last stage, succeed.      *)
(***************************************************************************)
Returns(k, r, printed) ==
    /\ step' = 1
    /\ IF Falsy(r)
       THEN stage' = 0 /\ exit_code' = 1 /\ said' = said \cup printed \cup {"STAGE_FAILED"}
       ELSE IF k < Len(Stages)
       THEN stage' = k + 1 /\ said' = said \cup printed /\ UNCHANGED exit_code
       ELSE stage' = 0 /\ exit_code' = 0 /\ said' = said \cup printed \cup {"BUILD_SUCCESSFUL"}

\* Fault: the process exits with the code of the command that failed.
SysExitWithCommandCode ==
    /\ stage' = 0 /\ step' = 1 /\ exit_code' = 2
    /\ UNCHANGED said

\* run_command with check=True on a command that fails: sys.exit(1).
SysExit ==
    /\ stage' = 0 /\ step' = 1 /\ exit_code' = 1
    /\ UNCHANGED said

\* The except clause of main.
Raised ==
    /\ stage' = 0 /\ step' = 1 /\ exit_code' = 1
    /\ said' = said \cup {"STAGE_FAILED"}

Init ==
    /\ stage = 0 /\ step = 1 /\ exit_code = 0 /\ said = {}
    /\ srcFiles = LinuxPortSources
    /\ daemon_built = NoFile
    /\ rootfs = EmptyTree
    /\ tarball = NoFile /\ iso = NoFile /\ bak = NoFile

-----------------------------------------------------------------------------
\* stage_1_validate: the four sources and init.sh must exist.
Validate ==
    /\ stage = 1
    /\ LET present == srcFiles = LinuxPortSources /\ rootfs["init.sh"] # NoFile
       IN  Returns(1, IF present THEN "True" ELSE "False", {})
    /\ UNCHANGED files

\* stage_2_compile_daemon, `make clean`: the binary of an earlier build goes.
MakeClean ==
    /\ stage = 2 /\ step = 1
    /\ daemon_built' = NoFile
    /\ step' = 2
    /\ UNCHANGED <<stage, exit_code, said, srcFiles, rootfs, tarball, iso, bak>>

MakeCleanFails ==
    /\ stage = 2 /\ step = 1
    /\ SysExit
    /\ UNCHANGED files

(***************************************************************************)
(* `make` returns 0, with or without a binary at the path the stage looks  *)
(* at; the stage answers by whether the file exists.                       *)
(***************************************************************************)
Make ==
    /\ stage = 2 /\ step = 2
    /\ \E produced \in BOOLEAN :
          /\ daemon_built' = IF produced THEN "new" ELSE daemon_built
          /\ Returns(2, IF daemon_built' # NoFile THEN "True" ELSE "False", {})
    /\ UNCHANGED <<srcFiles, rootfs, tarball, iso, bak>>

MakeFails ==
    /\ stage = 2 /\ step = 2
    /\ SysExit
    /\ UNCHANGED files

\* stage_3_copy_daemon: copy2 and chmod 755, or a warning and on.
CopyDaemon ==
    /\ stage = 3
    /\ rootfs' = IF daemon_built # NoFile
                 THEN [rootfs EXCEPT !["chrysalis_daemon"] = File(daemon_built, TRUE)]
                 ELSE rootfs
    /\ Returns(3, "True", {})
    /\ UNCHANGED <<srcFiles, daemon_built, tarball, iso, bak>>

\* The `headers` list of stage 4, in the order of its loop.
HeaderList == <<"types_linux.h", "syscall_map.h">>

\* The tree once the loop has copied those of the first k headers that exist.
HeadersCopied(k) ==
    LET done == {HeaderDst[HeaderList[j]] : j \in {i \in 1 .. k : HeaderList[i] \in srcFiles}}
    IN  [p \in RootfsPaths |->
            IF p \in done THEN File(CHOOSE h \in Headers : HeaderDst[h] = p, FALSE)
                          ELSE rootfs[p]]

\* stage_4_copy_headers: every header that exists is copied.
CopyHeaders ==
    /\ stage = 4
    /\ rootfs' = HeadersCopied(Len(HeaderList))
    /\ Returns(4, "True", {})
    /\ UNCHANGED <<srcFiles, daemon_built, tarball, iso, bak>>

\* stage_5_create_buildfile and stage_6_create_documentation: write_text.
CreateBuildfile ==
    /\ stage = 5
    /\ rootfs' = Written(rootfs, "Makefile", "linux")
    /\ Returns(5, "True", {})
    /\ UNCHANGED <<srcFiles, daemon_built, tarball, iso, bak>>

CreateDocumentation ==
    /\ stage = 6
    /\ rootfs' = Written(rootfs, "README_LINUX.md", "linux")
    /\ Returns(6, "True", {})
    /\ UNCHANGED <<srcFiles, daemon_built, tarball, iso, bak>>

\* Fault: the stage makes the directories and leaves the mode of init.sh.
PrepareRootfsNoChmod ==
    /\ stage = 7
    /\ Returns(7, "True", {})
    /\ UNCHANGED files

\* stage_7_prepare_rootfs: init.sh, if it is there, is made executable.
PrepareRootfs ==
    /\ stage = 7
    /\ rootfs' = IF rootfs["init.sh"] # NoFile
                 THEN Chmod(rootfs, "init.sh", TRUE)
                 ELSE rootfs
    /\ Returns(7, "True", {})
    /\ UNCHANGED <<srcFiles, daemon_built, tarball, iso, bak>>

(***************************************************************************)
(* What a copy2 of stage 3 or 4 that stops while it writes leaves in the   *)
(* tree: part of the daemon, or part of a header beside the headers the    *)
(* loop copied before it.                                                  *)
(***************************************************************************)
LeftByCopy ==
    /\ \/ /\ stage = 3 /\ daemon_built # NoFile /\ "chrysalis_daemon" \in Fragile
          /\ rootfs' = CutShort(rootfs, "chrysalis_daemon")
       \/ /\ stage = 4
          /\ \E k \in DOMAIN HeaderList :
                /\ HeaderList[k] \in srcFiles /\ HeaderDst[HeaderList[k]] \in Fragile
                /\ rootfs' = CutShort(HeadersCopied(k - 1), HeaderDst[HeaderList[k]])
    /\ UNCHANGED <<srcFiles, daemon_built, tarball, iso, bak>>

\* Fault: the stage catches the error of copy2, warns and goes on.
CopyCutShortGoesOn == LeftByCopy /\ Returns(stage, "True", {})

\* The copy raises, and the except clause of main ends the run.
CopyCutShort == LeftByCopy /\ Raised

\* What a write_text of stage 5 or 6 that stops while it writes leaves: part
\* of the Makefile, or of the README.
LeftByWrite ==
    /\ stage \in {5, 6}
    /\ LET p == IF stage = 5 THEN "Makefile" ELSE "README_LINUX.md"
       IN  p \in Fragile /\ rootfs' = CutShort(rootfs, p)
    /\ UNCHANGED <<srcFiles, daemon_built, tarball, iso, bak>>

WriteCutShort == LeftByWrite /\ Raised

\* mkdir, copy2, write_text or chmod of stages 2 to 7 raises OSError before
\* it changed a file.
StageRaises ==
    /\ stage \in 2 .. 7 /\ step = 1
    /\ Raised
    /\ UNCHANGED files

-----------------------------------------------------------------------------
\* stage_8_create_iso, "Backup old ISO": copy2 over the backup of before.
BackupIso ==
    /\ stage = 8 /\ step = 1
    /\ bak' = IF iso # NoFile THEN iso ELSE bak
    /\ step' = 2
    /\ UNCHANGED <<stage, exit_code, said, srcFiles, daemon_built, rootfs, tarball, iso>>

\* copy2 raises after it opened the backup for writing.
BackupFails ==
    /\ stage = 8 /\ step = 1
    /\ iso # NoFile
    /\ bak' = [iso EXCEPT !.complete = FALSE]
    /\ Raised
    /\ UNCHANGED <<srcFiles, daemon_built, rootfs, tarball, iso>>

\* tar czf rootfs.tar.gz, checked.
Tar ==
    /\ stage = 8 /\ step = 2
    /\ tarball' = Packed(rootfs, TRUE)
    /\ step' = 3
    /\ UNCHANGED <<stage, exit_code, said, srcFiles, daemon_built, rootfs, iso, bak>>

\* Fault: tar is run like grub-mkrescue, with check=False.
TarFailsUnchecked ==
    /\ stage = 8 /\ step = 2
    /\ tarball' = Packed(rootfs, FALSE)
    /\ step' = 3
    /\ UNCHANGED <<stage, exit_code, said, srcFiles, daemon_built, rootfs, iso, bak>>

TarFails ==
    /\ stage = 8 /\ step = 2
    /\ tarball' = Packed(rootfs, FALSE)
    /\ SysExit
    /\ UNCHANGED <<srcFiles, daemon_built, rootfs, iso, bak>>

(***************************************************************************)
(* grub-mkrescue with check=False, then the test that decides the stage:   *)
(* whether a file is at the ISO's path.  The command writes the image,     *)
(* fails before it touched the path, or fails having written part of it.  *)
(***************************************************************************)
GrubMkrescue ==
    /\ stage = 8 /\ step = 3
    /\ \E outcome \in GrubOutcomes :
          /\ iso' = AfterGrub(outcome, rootfs, iso)
          /\ IF iso' # NoFile THEN Returns(8, "True", {"ISO_CREATED"})
                              ELSE Returns(8, "False", {})
    /\ UNCHANGED <<srcFiles, daemon_built, rootfs, tarball, bak>>

\* subprocess.run finds no tar or no grub-mkrescue to run: FileNotFoundError,
\* which the except clause of main takes.
CommandNotFound ==
    /\ stage = 8 /\ step \in {2, 3}
    /\ Raised
    /\ UNCHANGED files

\* stage_9_summary prints the banner and ends without a return statement.
Summary ==
    /\ stage = 9
    /\ Returns(9, "None", {"BUILD_COMPLETE"})
    /\ UNCHANGED files

-----------------------------------------------------------------------------
\* The script is started: whatever exists was made by an earlier run.
Invoke ==
    /\ stage = 0
    /\ stage' = 1 /\ step' = 1 /\ exit_code' = 0 /\ said' = {}
    /\ daemon_built' = AgedBuild(daemon_built)
    /\ rootfs' = AgedTree(rootfs)
    /\ tarball' = AgedImage(tarball)
    /\ iso' = AgedImage(iso)
    /\ bak' = AgedImage(bak)
    /\ UNCHANGED srcFiles

(***************************************************************************)
(* The run is killed (KeyboardInterrupt is no Exception; neither is a      *)
(* signal): between two calls, inside a copy or a write, in stage 4 after  *)
(* the first header, or while tar or grub-mkrescue writes its output.      *)
(***************************************************************************)
Interrupted ==
    /\ stage # 0
    /\ stage' = 0 /\ step' = 1 /\ exit_code' = KILLED
    /\ UNCHANGED said
    /\ \/ UNCHANGED files
       \/ LeftByCopy \/ LeftByWrite
       \/ /\ stage = 4 /\ rootfs' = HeadersCopied(1)
          /\ UNCHANGED <<srcFiles, daemon_built, tarball, iso, bak>>
       \/ /\ stage = 8 /\ step = 1 /\ iso # NoFile
          /\ bak' = [iso EXCEPT !.complete = FALSE]
          /\ UNCHANGED <<srcFiles, daemon_built, rootfs, tarball, iso>>
       \/ /\ stage = 8 /\ step = 2 /\ tarball' = Packed(rootfs, FALSE)
          /\ UNCHANGED <<srcFiles, daemon_built, rootfs, iso, bak>>
       \/ /\ stage = 8 /\ step = 3 /\ iso' = Packed(rootfs, FALSE)
          /\ UNCHANGED <<srcFiles, daemon_built, rootfs, tarball, bak>>

(***************************************************************************)
(* Between runs the sources are edited, checked out or removed, and        *)
(* init.sh is written by build-alpine-hybrid.py (mode 755), restored       *)
(* without its mode, or removed.                                           *)
(***************************************************************************)
InitScripts == {NoFile, File("hybrid", TRUE), File("hybrid", FALSE)}

TreeChanges ==
    /\ stage = 0
    /\ srcFiles' \in SourceSets
    /\ \E f \in InitScripts : rootfs' = [rootfs EXCEPT !["init.sh"] = f]
    /\ UNCHANGED <<control, daemon_built, tarball, iso, bak>>

Stage == \/ Validate
         \/ MakeClean \/ MakeCleanFails \/ Make \/ MakeFails
         \/ CopyDaemon \/ CopyHeaders \/ CreateBuildfile \/ CreateDocumentation
         \/ PrepareRootfs \/ CopyCutShort \/ WriteCutShort \/ StageRaises
         \/ BackupIso \/ BackupFails \/ Tar \/ TarFails \/ GrubMkrescue
         \/ CommandNotFound
         \/ Summary

Next == Stage \/ Invoke \/ Interrupted \/ TreeChanges

Spec == Init /\ [][Next]_vars

-----------------------------------------------------------------------------
TypeOK ==
    /\ stage \in 0 .. Len(Stages) /\ step \in 1 .. 3
    /\ exit_code \in {0, 1, KILLED}
    /\ said \subseteq Messages
    /\ srcFiles \subseteq LinuxPortSources
    /\ daemon_built \in {NoFile} \cup Builds
    /\ rootfs \in Trees
    /\ {tarball, iso, bak} \subseteq Images

\* What the ISO of a finished, successful stage 8 must hold.
ThisBuild(tree) ==
    /\ tree["chrysalis_daemon"] = File("new", TRUE)
    /\ tree["init.sh"] # NoFile /\ tree["init.sh"].exec
    /\ \A h \in Headers : tree[HeaderDst[h]] = File(h, FALSE)
    /\ \A p \in {"Makefile", "README_LINUX.md"} : tree[p] = File("linux", FALSE)

(***************************************************************************)
(* An ISO this run wrote boots this run's build: the daemon in it is the   *)
(* one stage 2 compiled in this run, executable, next to an executable     *)
(* init.sh, both headers and the generated Makefile and README.  However   *)
(* earlier runs ended, and whatever they left in the tree, no binary of an *)
(* earlier build and no init.sh without its mode reaches a new image.      *)
(***************************************************************************)
NewIsoCarriesThisBuild ==
    (Good(iso) /\ iso.made = "new") => ThisBuild(iso.tree)

(***************************************************************************)
(* The archive and the ISO of one run are packed from the same tree: when  *)
(* stage 8 has written a new ISO, rootfs.tar.gz is complete, is of this    *)
(* run, and holds what the ISO holds.  The archive is what                 *)
(* create-alpine-iso.py packs later; tar is the checked command of the     *)
(* stage, grub-mkrescue the unchecked one.                                 *)
(***************************************************************************)
ArchiveMatchesIso ==
    (Good(iso) /\ iso.made = "new") => tarball = Packed(iso.tree, TRUE)

(***************************************************************************)
(* main ends with "BUILD SUCCESSFUL" and return 0 once every stage has     *)
(* passed: a run that got as far as the "BUILD COMPLETE" banner of the     *)
(* last stage exits with 0.                                                *)
(***************************************************************************)
CompleteBuildExitsZero ==
    (stage = 0 /\ "BUILD_COMPLETE" \in said) => exit_code = 0

(***************************************************************************)
(* Stage 8 is "Create new bootable ISO": when it prints "Created", the     *)
(* file at the ISO's path is a complete image this run wrote (and          *)
(* otherwise it says "ERROR: ISO creation failed").                        *)
(***************************************************************************)
CreatedIsoIsNew ==
    "ISO_CREATED" \in said => (Good(iso) /\ iso.made = "new")
=============================================================================
