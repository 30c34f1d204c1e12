-------------------------- MODULE AlpineHybridBuild --------------------------
(***************************************************************************)
(* src/build-alpine-hybrid.py: nine stages at the top level of the script  *)
(* that lay out hybrid/rootfs (kernel, initramfs, modloop and busybox from *)
(* alpine/, grub.cfg, init.sh, the files under etc) and pack it into       *)
(* rootfs.tar.gz.                                                          *)
(*                                                                         *)
(* Nothing is caught except where the script says so: an exception ends    *)
(* the run with a traceback, and the tree keeps what the stages before     *)
(* wrote.  Stage 2 copies three files one after the other and stage 6      *)
(* writes init.sh before it sets its mode; both are split at those points. *)
(***************************************************************************)
EXTENDS Naturals, Sequences, HybridFs

VARIABLES stage,          \* the stage the script is in, 0 when no run is in progress
          step,           \* the file or call a split stage is at
          exit_code,      \* of the last run, once stage = 0
          said,           \* what the run has printed, of the Messages
          alpine,         \* the files under alpine/
          rootfs,         \* the tree under hybrid/rootfs
          tarball,        \* hybrid/rootfs.tar.gz
          manifest        \* hybrid/BUILD_MANIFEST.txt

control == <<stage, step, exit_code, said>>
files   == <<alpine, rootfs, tarball, manifest>>
vars    == <<control, files>>

SUMMARY  == 10            \* "Final summary", after stage 9
Messages == {"BUILD_COMPLETE"}
KILLED   == 130

\* The three copies of stage 2, in the order of the script.
BootFiles == <<"vmlinuz", "initramfs", "modloop">>

\* The next stage begins.
Goes(k) ==
    /\ stage' = k /\ step' = 1
    /\ UNCHANGED <<exit_code, said>>

\* An exception nobody catches: the traceback, and the process ends with 1.
Uncaught ==
    /\ stage' = 0 /\ step' = 1 /\ exit_code' = 1
    /\ UNCHANGED said

Init ==
    /\ stage = 0 /\ step = 1 /\ exit_code = 0 /\ said = {}
    /\ alpine = [f \in AlpineFiles |-> NoFile]
    /\ rootfs = EmptyTree
    /\ tarball = NoFile /\ manifest = NoFile

-----------------------------------------------------------------------------
\* Stage 1: os.makedirs, exist_ok.
MakeDirs ==
    /\ stage = 1
    /\ Goes(2)
    /\ UNCHANGED files

\* Fault: a file that is already in the tree is not copied again.
CopyBootSkipsExisting ==
    /\ stage = 2
    /\ LET f == BootFiles[step]
       IN  /\ alpine[f] # NoFile
           /\ rootfs' = IF rootfs[AlpineDst[f]] = NoFile
                        THEN [rootfs EXCEPT ![AlpineDst[f]] = alpine[f]]
                        ELSE rootfs
    /\ IF step < Len(BootFiles)
       THEN step' = step + 1 /\ UNCHANGED <<stage, exit_code, said>>
       ELSE Goes(3)
    /\ UNCHANGED <<alpine, tarball, manifest>>

\* Fault: the stage looks for a fourth file.
CopyBootCountsOn ==
    /\ stage = 2
    /\ LET f == BootFiles[step]
       IN  /\ alpine[f] # NoFile
           /\ rootfs' = [rootfs EXCEPT ![AlpineDst[f]] = alpine[f]]
    /\ IF step <= Len(BootFiles)
       THEN step' = step + 1 /\ UNCHANGED <<stage, exit_code, said>>
       ELSE Goes(3)
    /\ UNCHANGED <<alpine, tarball, manifest>>

\* Stage 2, one shutil.copy: vmlinuz, then initramfs, then modloop.
CopyBoot ==
    /\ stage = 2
    /\ LET f == BootFiles[step]
       IN  /\ alpine[f] # NoFile
           /\ rootfs' = [rootfs EXCEPT ![AlpineDst[f]] = alpine[f]]
    /\ IF step < Len(BootFiles)
       THEN step' = step + 1 /\ UNCHANGED <<stage, exit_code, said>>
       ELSE Goes(3)
    /\ UNCHANGED <<alpine, tarball, manifest>>

\* The file is not under alpine/: FileNotFoundError, after the copies before.
CopyBootFails ==
    /\ stage = 2
    /\ alpine[BootFiles[step]] = NoFile
    /\ Uncaught
    /\ UNCHANGED files

(***************************************************************************)
(* Stage 3: busybox is copied, then a symlink is made for every command;   *)
(* a name that is already there is left as it is (FileExistsError, pass).  *)
(* "bin/sh" stands for the 36 names.                                       *)
(***************************************************************************)
InstallBusybox ==
    /\ stage = 3
    /\ alpine["busybox"] # NoFile
    /\ rootfs' = [rootfs EXCEPT !["bin/busybox"] = alpine["busybox"],
                                !["bin/sh"] = IF @ = NoFile THEN File("link", TRUE) ELSE @]
    /\ Goes(4)
    /\ UNCHANGED <<alpine, tarball, manifest>>

InstallBusyboxFails ==
    /\ stage = 3
    /\ alpine["busybox"] = NoFile
    /\ Uncaught
    /\ UNCHANGED files

(***************************************************************************)
(* What a copy of stage 2 or 3 that stops while it writes leaves (the disk *)
(* is full, the source cannot be read to its end, the run is killed): the  *)
(* file in the tree in part, beside the copies made before it.             *)
(***************************************************************************)
LeftByCopy ==
    /\ stage \in {2, 3}
    /\ LET f == IF stage = 2 THEN BootFiles[step] ELSE "busybox"
       IN  /\ alpine[f] # NoFile /\ AlpineDst[f] \in Fragile
           /\ rootfs' = CutShort(rootfs, AlpineDst[f])
    /\ UNCHANGED <<alpine, tarball, manifest>>

\* The copy raises.
CopyCutShort == LeftByCopy /\ Uncaught

(***************************************************************************)
(* Stage 4: kernel.h is copied if os/kernel has it, and then once more by  *)
(* the loop over the sources, whose exceptions are passed over: a copy     *)
(* that fails there leaves what it had written and the stage goes on.      *)
(***************************************************************************)
MergeChrysalis ==
    /\ stage = 4
    /\ \E present, copied \in BOOLEAN :
          rootfs' = IF ~present THEN rootfs
                    ELSE [rootfs EXCEPT !["kernel.h"] =
                             File(IF copied THEN "kernel" ELSE "partial", FALSE)]
    /\ Goes(5)
    /\ UNCHANGED <<alpine, tarball, manifest>>

\* Stage 5: boot/grub/grub.cfg.
WriteGrubCfg ==
    /\ stage = 5
    /\ rootfs' = Written(rootfs, "boot/grub/grub.cfg", "hybrid")
    /\ Goes(6)
    /\ UNCHANGED <<alpine, tarball, manifest>>

\* Fault: an init.sh that is there is kept, whichever script wrote it.
WriteInitKeepsExisting ==
    /\ stage = 6
    /\ \/ /\ step = 1
          /\ rootfs' = IF rootfs["init.sh"] = NoFile
                       THEN Written(rootfs, "init.sh", "hybrid") ELSE rootfs
          /\ step' = 2
          /\ UNCHANGED <<stage, exit_code, said>>
       \/ /\ step = 2
          /\ rootfs' = Chmod(rootfs, "init.sh", TRUE)
          /\ Goes(7)
    /\ UNCHANGED <<alpine, tarball, manifest>>

\* Stage 6: init.sh is written, whatever was there, and then made executable.
WriteInit ==
    /\ stage = 6
    /\ \/ /\ step = 1
          /\ rootfs' = Written(rootfs, "init.sh", "hybrid")
          /\ step' = 2
          /\ UNCHANGED <<stage, exit_code, said>>
       \/ /\ step = 2
          /\ rootfs' = Chmod(rootfs, "init.sh", TRUE)
          /\ Goes(7)
    /\ UNCHANGED <<alpine, tarball, manifest>>

\* Stage 7: fstab, hostname, hosts, passwd.
WriteEtc ==
    /\ stage = 7
    /\ rootfs' = WrittenAll(rootfs, EtcFiles, "hybrid")
    /\ Goes(8)
    /\ UNCHANGED <<alpine, tarball, manifest>>

\* The files stages 5, 6 and 7 write, in the order the script writes them.
WrittenAt == (5 :> <<"boot/grub/grub.cfg">>) @@ (6 :> <<"init.sh">>) @@
             (7 :> <<"etc/fstab", "etc/hostname", "etc/hosts", "etc/passwd">>)

\* The tree once stage 5, 6 or 7 has written the first k of its files.
WrittenUpTo(k) ==
    WrittenAll(rootfs, {WrittenAt[stage][j] : j \in 1 .. k}, "hybrid")

(***************************************************************************)
(* What a write of stage 5, 6 or 7 that stops in the middle leaves:        *)
(* grub.cfg, init.sh or one of the files under etc in part, behind the     *)
(* files the stage wrote before it.                                        *)
(***************************************************************************)
LeftByWrite ==
    /\ stage \in DOMAIN WrittenAt /\ step = 1
    /\ \E k \in DOMAIN WrittenAt[stage] :
          /\ WrittenAt[stage][k] \in Fragile
          /\ rootfs' = CutShort(WrittenUpTo(k - 1), WrittenAt[stage][k])
    /\ UNCHANGED <<alpine, tarball, manifest>>

\* f.write raises, or the buffer cannot be flushed when the with-block closes
\* the file.
WriteCutShort == LeftByWrite /\ Uncaught

\* The manifest of stage 9 is left in part.
LeftByManifest ==
    /\ stage = 9 /\ "BUILD_MANIFEST.txt" \in Fragile
    /\ manifest' = "partial"
    /\ UNCHANGED <<alpine, rootfs, tarball>>

ManifestCutShort == LeftByManifest /\ Uncaught

\* makedirs, open, write or chmod of a stage raises OSError; what the run
\* wrote before stays.
StageRaises ==
    /\ stage \in {1, 9} \cup (4 .. 7)
    /\ Uncaught
    /\ UNCHANGED files

\* Stage 8: tarfile.open(..., "w:gz") over a walk of the tree.
Tar ==
    /\ stage = 8
    /\ tarball' = Packed(rootfs, TRUE)
    /\ Goes(9)
    /\ UNCHANGED <<alpine, rootfs, manifest>>

\* Fault: a failure of tar.add is reported and the script goes on.
TarFailsGoesOn ==
    /\ stage = 8
    /\ tarball' = Packed(rootfs, FALSE)
    /\ Goes(9)
    /\ UNCHANGED <<alpine, rootfs, manifest>>

\* tarfile.open raises before it has emptied the archive of before, or
\* tar.add raises and the with-block closes the archive with what it holds.
TarFails ==
    /\ stage = 8
    /\ tarball' \in {tarball, Packed(rootfs, FALSE)}
    /\ Uncaught
    /\ UNCHANGED <<alpine, rootfs, manifest>>

(***************************************************************************)
(* Stage 9: BUILD_MANIFEST.txt, with the sizes of the files under alpine/, *)
(* which stages 2 and 3 of this run have read.                             *)
(***************************************************************************)
WriteManifest ==
    /\ stage = 9
    /\ manifest' = "new"
    /\ Goes(SUMMARY)
    /\ UNCHANGED <<alpine, rootfs, tarball>>

\* The final summary; the script ends and the process exits with 0.
Summary ==
    /\ stage = SUMMARY
    /\ stage' = 0 /\ step' = 1 /\ exit_code' = 0
    /\ said' = said \cup {"BUILD_COMPLETE"}
    /\ UNCHANGED files

-----------------------------------------------------------------------------
\* The script is started: whatever it wrote before was made by an earlier run.
Begin ==
    /\ stage = 0
    /\ stage' = 1 /\ step' = 1 /\ exit_code' = 0 /\ said' = {}
    /\ rootfs' = AgedTree(rootfs)
    /\ tarball' = AgedImage(tarball)
    /\ manifest' = AgedBuild(manifest)

Invoke == Begin /\ UNCHANGED alpine

(***************************************************************************)
(* The run is killed: between two calls, inside a copy or a write, in      *)
(* stage 7 between two of its files, or while the archive is written.      *)
(***************************************************************************)
Interrupted ==
    /\ stage # 0
    /\ stage' = 0 /\ step' = 1 /\ exit_code' = KILLED
    /\ UNCHANGED said
    /\ \/ UNCHANGED files
       \/ LeftByCopy \/ LeftByWrite \/ LeftByManifest
       \/ /\ stage = 7
          /\ \E k \in DOMAIN WrittenAt[7] : rootfs' = WrittenUpTo(k)
          /\ UNCHANGED <<alpine, tarball, manifest>>
       \/ /\ stage = 8 /\ tarball' = Packed(rootfs, FALSE)
          /\ UNCHANGED <<alpine, rootfs, manifest>>

(***************************************************************************)
(* What the script finds under alpine/ when it starts: the files of one    *)
(* release, as a download left them, all four or all but one.  The script  *)
(* stops at the first file it misses, so a second missing file would make  *)
(* no run different.                                                       *)
(***************************************************************************)
Downloaded(release, present) ==
    [f \in AlpineFiles |-> IF f \in present THEN AlpineFile(f, release) ELSE NoFile]

InvokeAfterDownload ==
    /\ Begin
    /\ \E r \in Releases, missing \in AlpineFiles \cup {NoFile} :
          alpine' = Downloaded(r, AlpineFiles \ {missing})

Stage == \/ MakeDirs \/ CopyBoot \/ CopyBootFails \/ CopyCutShort \/ WriteCutShort \/ ManifestCutShort
         \/ InstallBusybox \/ InstallBusyboxFails \/ MergeChrysalis
         \/ WriteGrubCfg \/ WriteInit \/ WriteEtc \/ StageRaises
         \/ Tar \/ TarFails \/ WriteManifest \/ Summary

Next == Stage \/ InvokeAfterDownload \/ Interrupted

Spec == Init /\ [][Next]_vars

-----------------------------------------------------------------------------
TypeOK ==
    /\ stage \in 0 .. SUMMARY /\ step \in 1 .. 3
    /\ exit_code \in {0, 1, KILLED}
    /\ said \subseteq Messages
    /\ alpine \in [AlpineFiles -> Files]
    /\ rootfs \in Trees
    /\ tarball \in Images
    /\ manifest \in {NoFile, "partial"} \cup Builds

(***************************************************************************)
(* An archive this run packed holds a system that starts: kernel,          *)
(* initramfs, modloop and busybox of one and the same Alpine release, the  *)
(* script's own init.sh, executable, grub.cfg and the files under etc.     *)
(* alpine/ may have been replaced by another release, or by part of one,   *)
(* between runs, and earlier runs may have stopped after any copy; the     *)
(* script has no check of its own, and what keeps a mixed tree out of a    *)
(* new archive is that every copy of stages 2 and 3 is made again, and     *)
(* raises, before stage 8 is reached.                                      *)
(***************************************************************************)
ArchiveIsCoherent ==
    (Good(tarball) /\ tarball.made = "new") =>
        /\ Bootable(tarball.tree)
        /\ tarball.tree["init.sh"].content = "hybrid"
        /\ \A p \in EtcFiles : Whole(tarball.tree[p])

(***************************************************************************)
(* "BUILD COMPLETE" is said of what is on disk: the archive is complete,   *)
(* was packed by this run after the last change to the tree, and the       *)
(* manifest beside it is this run's.                                       *)
(***************************************************************************)
CompleteBuildPackedTree ==
    "BUILD_COMPLETE" \in said =>
        tarball = Packed(rootfs, TRUE) /\ manifest = "new"
=============================================================================
