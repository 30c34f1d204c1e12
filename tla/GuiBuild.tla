------------------------------ MODULE GuiBuild ------------------------------
(***************************************************************************)
(* src/build_chrysalis_gui.py: main runs thirteen stages in a row and a    *)
(* final summary.  It compiles the daemon, writes the launcher, .bashrc,   *)
(* a new init.sh and the network script into the rootfs tree, installs the *)
(* daemon, and packs the tree into the archive and the ISO.                *)
(*                                                                         *)
(* There is no try block: print_error ends the process with 1, and so does *)
(* any exception.  run_cmd answers by the exit status of the shell.        *)
(***************************************************************************)
EXTENDS Naturals, HybridFs

VARIABLES stage,          \* the stage main is in, 0 when no run is in progress
          step,           \* the command a stage of several commands is at
          exit_code,      \* of the last run, once stage = 0
          said,           \* what the run has printed, of the Messages
          srcFiles, daemon_built, rootfs, tarball, iso, bak    \* the files of HybridFs

control == <<stage, step, exit_code, said>>
files   == <<srcFiles, daemon_built, rootfs, tarball, iso, bak>>
vars    == <<control, files>>

SUMMARY  == 14            \* the final summary, after stage 13
Messages == {"ISO_CREATED", "BUILD_COMPLETE"}
KILLED   == 130

\* The next stage begins.
Goes(k) ==
    /\ stage' = k /\ step' = 1
    /\ UNCHANGED <<exit_code, said>>

\* Fault: print_error exits with a code of its own.
PrintErrorOtherCode ==
    /\ stage' = 0 /\ step' = 1 /\ exit_code' = 2
    /\ UNCHANGED said

\* print_error: the message, then sys.exit(1).
PrintError ==
    /\ stage' = 0 /\ step' = 1 /\ exit_code' = 1
    /\ UNCHANGED said

\* An exception nobody catches: the traceback, and the process ends with 1.
Uncaught ==
    /\ stage' = 0 /\ step' = 1 /\ exit_code' = 1
    /\ UNCHANGED said

Init ==
    /\ stage = 0 /\ step = 1 /\ exit_code = 0 /\ said = {}
    /\ srcFiles = LinuxPortSources
    /\ daemon_built = NoFile
    /\ rootfs = EmptyTree
    /\ tarball = NoFile /\ iso = NoFile /\ bak = NoFile

-----------------------------------------------------------------------------
\* Stage 1: the first of the four sources that is missing ends the run.
Validate ==
    /\ stage = 1
    /\ IF srcFiles = LinuxPortSources THEN Goes(2) ELSE PrintError
    /\ UNCHANGED files

\* Stage 2: chdir to os/linux_port and `mkdir -p /tmp/apk_cache`.
ApkCache ==
    /\ stage = 2
    /\ Goes(3)
    /\ UNCHANGED files

ApkCacheFails ==
    /\ stage = 2
    /\ PrintError
    /\ UNCHANGED files

\* Stage 3, `make clean`.
MakeClean ==
    /\ stage = 3 /\ step = 1
    /\ daemon_built' = NoFile
    /\ step' = 2
    /\ UNCHANGED <<stage, exit_code, said, srcFiles, rootfs, tarball, iso, bak>>

MakeCleanFails ==
    /\ stage = 3 /\ step = 1
    /\ PrintError
    /\ UNCHANGED files

\* Stage 3, `make`: "Compiled" is printed on exit status 0, binary or not.
Make ==
    /\ stage = 3 /\ step = 2
    /\ \E produced \in BOOLEAN :
          daemon_built' = IF produced THEN "new" ELSE daemon_built
    /\ Goes(4)
    /\ UNCHANGED <<srcFiles, rootfs, tarball, iso, bak>>

MakeFails ==
    /\ stage = 3 /\ step = 2
    /\ PrintError
    /\ UNCHANGED files

\* Stage 4 lists the packages; stage 5 makes the directories of the tree.
IdentifyPackages ==
    /\ stage = 4
    /\ Goes(5)
    /\ UNCHANGED files

MakeDirs ==
    /\ stage = 5
    /\ Goes(6)
    /\ UNCHANGED files

(***************************************************************************)
(* Stages 6 to 9 each write one file of the tree and then set its mode;    *)
(* GuiFiles says which files, and which of them are made executable (755   *)
(* or 644).  The run can end between the two.  Stage 11 writes the README  *)
(* and sets no mode.                                                       *)
(***************************************************************************)
GuiFiles == ("gui/launcher.sh" :> TRUE) @@ (".bashrc" :> FALSE) @@ ("init.sh" :> TRUE) @@
            ("bin/network-utils.sh" :> TRUE) @@ ("README_GUI.md" :> FALSE)

Writes(k, path) ==
    /\ stage = k
    /\ \/ /\ step = 1
          /\ rootfs' = Written(rootfs, path, "gui")
          /\ step' = 2
          /\ UNCHANGED <<stage, exit_code, said>>
       \/ /\ step = 2
          /\ rootfs' = Chmod(rootfs, path, GuiFiles[path])
          /\ Goes(k + 1)
    /\ UNCHANGED <<srcFiles, daemon_built, tarball, iso, bak>>

CreateLauncher == Writes(6, "gui/launcher.sh")
CreateBashrc   == Writes(7, ".bashrc")

\* Stage 8 replaces the init.sh that build-alpine-hybrid.py wrote.
UpdateInit     == Writes(8, "init.sh")
CreateNetUtils == Writes(9, "bin/network-utils.sh")

CreateDocs ==
    /\ stage = 11
    /\ rootfs' = Written(rootfs, "README_GUI.md", "gui")
    /\ Goes(12)
    /\ UNCHANGED <<srcFiles, daemon_built, tarball, iso, bak>>

\* Fault: a missing binary is a warning, as in build_chrysalis_linux.py.
InstallDaemonWarnsOnly ==
    /\ stage = 10
    /\ rootfs' = IF daemon_built # NoFile
                 THEN [rootfs EXCEPT !["chrysalis_daemon"] = File(daemon_built, TRUE)]
                 ELSE rootfs
    /\ Goes(11)
    /\ UNCHANGED <<srcFiles, daemon_built, tarball, iso, bak>>

\* Stage 10: copy2 and chmod 755, or the run ends here.
InstallDaemon ==
    /\ stage = 10
    /\ IF daemon_built # NoFile
       THEN /\ rootfs' = [rootfs EXCEPT !["chrysalis_daemon"] = File(daemon_built, TRUE)]
            /\ Goes(11)
       ELSE /\ PrintError
            /\ UNCHANGED rootfs
    /\ UNCHANGED <<srcFiles, daemon_built, tarball, iso, bak>>

\* The file each of the writing stages opens.
StageFile == (6 :> "gui/launcher.sh") @@ (7 :> ".bashrc") @@ (8 :> "init.sh") @@
             (9 :> "bin/network-utils.sh") @@ (11 :> "README_GUI.md")

(***************************************************************************)
(* What a run that stops inside copy2 of stage 10, or inside the write of  *)
(* stage 6 to 9 or 11, leaves: open has emptied the file, part of the      *)
(* content is in it, and chmod is not reached.                             *)
(***************************************************************************)
LeftInPart ==
    /\ \/ /\ stage = 10 /\ daemon_built # NoFile /\ "chrysalis_daemon" \in Fragile
          /\ rootfs' = CutShort(rootfs, "chrysalis_daemon")
       \/ /\ stage \in DOMAIN StageFile /\ step = 1 /\ StageFile[stage] \in Fragile
          /\ rootfs' = CutShort(rootfs, StageFile[stage])
    /\ UNCHANGED <<srcFiles, daemon_built, tarball, iso, bak>>

\* copy2 raises while it writes.
CopyCutShort == stage = 10 /\ LeftInPart /\ Uncaught

\* f.write raises, or the buffer cannot be flushed when the with-block closes
\* the file.
WriteCutShort == stage # 10 /\ LeftInPart /\ Uncaught

\* chdir of stage 2 or 12, makedirs, open, chmod or copy2 of stages 5 to 11,
\* or remove or rename of stage 13 raises; what the run wrote before stays.
StageRaises ==
    /\ stage \in {2} \cup (5 .. 13) /\ (stage = 13 => step < 3)
    /\ Uncaught
    /\ UNCHANGED files

-----------------------------------------------------------------------------
\* Stage 12: tar czf rootfs.tar.gz.
Tar ==
    /\ stage = 12
    /\ tarball' = Packed(rootfs, TRUE)
    /\ Goes(13)
    /\ UNCHANGED <<srcFiles, daemon_built, rootfs, iso, bak>>

TarFails ==
    /\ stage = 12
    /\ tarball' = Packed(rootfs, FALSE)
    /\ PrintError
    /\ UNCHANGED <<srcFiles, daemon_built, rootfs, iso, bak>>

\* Stage 13 begins: the backup of before is removed ...
RemoveBackup ==
    /\ stage = 13 /\ step = 1
    /\ bak' = NoFile
    /\ step' = 2
    /\ UNCHANGED <<stage, exit_code, said, srcFiles, daemon_built, rootfs, tarball, iso>>

\* ... and the ISO, if there is one, is renamed to be the backup.
RenameIso ==
    /\ stage = 13 /\ step = 2
    /\ IF iso # NoFile THEN bak' = iso /\ iso' = NoFile
                       ELSE UNCHANGED <<iso, bak>>
    /\ step' = 3
    /\ UNCHANGED <<stage, exit_code, said, srcFiles, daemon_built, rootfs, tarball>>

(***************************************************************************)
(* `grub-mkrescue ... 2>&1 | tail -20` through the shell: the status       *)
(* run_cmd sees is that of tail, whatever grub-mkrescue did.  The next     *)
(* line asks for the size of the ISO and raises when no file is there.     *)
(***************************************************************************)
\* The exit status of the pipeline `grub-mkrescue | tail`.
PipelineOk(outcome) == TRUE

\* Fault: "Created" is printed without asking for the size of the file.
GrubMkrescueNoSize ==
    /\ stage = 13 /\ step = 3
    /\ \E outcome \in GrubOutcomes :
          /\ iso' = AfterGrub(outcome, rootfs, iso)
          /\ IF ~PipelineOk(outcome) THEN PrintError
             ELSE /\ stage' = SUMMARY /\ step' = 1
                  /\ said' = said \cup {"ISO_CREATED"}
                  /\ UNCHANGED exit_code
    /\ UNCHANGED <<srcFiles, daemon_built, rootfs, tarball, bak>>

GrubMkrescue ==
    /\ stage = 13 /\ step = 3
    /\ \E outcome \in GrubOutcomes :
          /\ iso' = AfterGrub(outcome, rootfs, iso)
          /\ IF ~PipelineOk(outcome) THEN PrintError
             ELSE IF iso' = NoFile   THEN Uncaught
             ELSE /\ stage' = SUMMARY /\ step' = 1
                  /\ said' = said \cup {"ISO_CREATED"}
                  /\ UNCHANGED exit_code
    /\ UNCHANGED <<srcFiles, daemon_built, rootfs, tarball, bak>>

\* The final summary; main returns and the process ends with 0.
FinalSummary ==
    /\ stage = SUMMARY
    /\ stage' = 0 /\ step' = 1 /\ exit_code' = 0
    /\ said' = said \cup {"BUILD_COMPLETE"}
    /\ UNCHANGED files

-----------------------------------------------------------------------------
\* The script is started: whatever exists was made by an earlier run.
Invoke ==
    /\ stage = 0
    /\ stage' = 1 /\ step' = 1 /\ exit_code' = 0 /\ said' = {}
    /\ daemon_built' = AgedBuild(daemon_built)
    /\ rootfs' = AgedTree(rootfs)
    /\ tarball' = AgedImage(tarball)
    /\ iso' = AgedImage(iso)
    /\ bak' = AgedImage(bak)
    /\ UNCHANGED srcFiles

\* The run is killed: between two calls, inside a copy or a write, or while
\* tar or grub-mkrescue writes its output.
Interrupted ==
    /\ stage # 0
    /\ stage' = 0 /\ step' = 1 /\ exit_code' = KILLED
    /\ UNCHANGED said
    /\ \/ UNCHANGED files
       \/ LeftInPart
       \/ /\ stage = 12 /\ tarball' = Packed(rootfs, FALSE)
          /\ UNCHANGED <<srcFiles, daemon_built, rootfs, iso, bak>>
       \/ /\ stage = 13 /\ step = 3 /\ iso' = Packed(rootfs, FALSE)
          /\ UNCHANGED <<srcFiles, daemon_built, rootfs, tarball, bak>>

\* Between runs the sources are edited, checked out or removed.
SourcesChange ==
    /\ stage = 0
    /\ srcFiles' \in SourceSets
    /\ UNCHANGED <<control, daemon_built, rootfs, tarball, iso, bak>>

Stage == \/ Validate \/ ApkCache \/ ApkCacheFails
         \/ MakeClean \/ MakeCleanFails \/ Make \/ MakeFails
         \/ IdentifyPackages \/ MakeDirs \/ CreateLauncher \/ CreateBashrc \/ UpdateInit
         \/ CreateNetUtils \/ InstallDaemon \/ CopyCutShort \/ WriteCutShort \/ CreateDocs \/ StageRaises
         \/ Tar \/ TarFails \/ RemoveBackup \/ RenameIso \/ GrubMkrescue
         \/ FinalSummary

Next == Stage \/ Invoke \/ Interrupted \/ SourcesChange

Spec == Init /\ [][Next]_vars

-----------------------------------------------------------------------------
TypeOK ==
    /\ stage \in 0 .. SUMMARY /\ step \in 1 .. 3
    /\ exit_code \in {0, 1, KILLED}
    /\ said \subseteq Messages
    /\ srcFiles \subseteq LinuxPortSources
    /\ daemon_built \in {NoFile} \cup Builds
    /\ rootfs \in Trees
    /\ {tarball, iso, bak} \subseteq Images

\* What stages 6 to 11 of this run put into the tree.
ThisBuild(tree) ==
    /\ tree["chrysalis_daemon"] = File("new", TRUE)
    /\ \A p \in DOMAIN GuiFiles : tree[p] = File("gui", GuiFiles[p])

(***************************************************************************)
(* An ISO this run wrote boots this run's build: the init.sh in it is the  *)
(* GUI one, executable, and the daemon it starts is the binary stage 3     *)
(* compiled in this run.  Stage 3 does not look whether make left a        *)
(* binary; that an old or missing one never reaches an image rests on      *)
(* `make clean` before it and on stage 10 after it.                        *)
(***************************************************************************)
NewIsoCarriesThisBuild ==
    (Good(iso) /\ iso.made = "new") => ThisBuild(iso.tree)

(***************************************************************************)
(* A run that ends with the "BUILD COMPLETE" summary and exit code 0 has   *)
(* put a file of its own at the ISO's path, and the archive it packed from *)
(* the same tree beside it.  The exit status of grub-mkrescue is hidden by *)
(* the pipeline; what stops a run without an ISO is os.path.getsize.       *)
(***************************************************************************)
CompleteBuildWroteIso ==
    "BUILD_COMPLETE" \in said =>
        /\ iso # NoFile /\ iso.made = "new"
        /\ tarball = Packed(iso.tree, TRUE)

(***************************************************************************)
(* "if run_cmd(cmd) ... else print_error("Failed to create ISO")": a run   *)
(* whose grub-mkrescue failed does not report an ISO.  When the run says   *)
(* "Created", the ISO is a complete image.                                 *)
(***************************************************************************)
CreatedIsoIsGood ==
    "ISO_CREATED" \in said => Good(iso)
=============================================================================
