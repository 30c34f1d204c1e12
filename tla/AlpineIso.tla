------------------------------ MODULE AlpineIso ------------------------------
(***************************************************************************)
(* src/create-alpine-iso.py: seven stages at the top level of the script.  *)
(* It stages kernel, initramfs and grub.cfg from the rootfs tree and a     *)
(* copy of rootfs.tar.gz under hybrid/iso_root, runs grub-mkrescue over    *)
(* that, and writes the checksum of the ISO and DEPLOY_INFO.txt.           *)
(*                                                                         *)
(* The copies raise when their source is missing, which ends the run.      *)
(* Stage 6 is the one place with a try block: whatever grub-mkrescue does, *)
(* the script prints and goes on to stage 7.                               *)
(***************************************************************************)
EXTENDS Naturals, Sequences, HybridFs

VARIABLES stage,          \* the stage the script is in, 0 when no run is in progress
          step,           \* the copy stage 1 is at
          exit_code,      \* of the last run, once stage = 0
          said,           \* what the run has printed, of the Messages
          rootfs,         \* the tree under hybrid/rootfs
          tarball,        \* hybrid/rootfs.tar.gz
          iso_root,       \* the tree under hybrid/iso_root
          iso,            \* hybrid/chrysalis-alpine-hybrid.iso
          sha256,         \* hybrid/chrysalis-alpine-hybrid.iso.sha256
          deploy          \* hybrid/DEPLOY_INFO.txt: the checksum it quotes

control == <<stage, step, exit_code, said>>
files   == <<rootfs, tarball, iso_root, iso, sha256, deploy>>
vars    == <<control, files>>

SUMMARY  == 8             \* "Final summary", after stage 7
Messages == {"ISO_CREATED", "ISO_ERROR", "ISO_READY"}
KILLED   == 130

\* The next stage begins.
Goes(k) ==
    /\ stage' = k /\ step' = 1
    /\ UNCHANGED <<exit_code, said>>

\* An exception nobody catches: the traceback, and the process ends with 1.
Uncaught ==
    /\ stage' = 0 /\ step' = 1 /\ exit_code' = 1
    /\ UNCHANGED said

Init ==
    /\ stage = 0 /\ step = 1 /\ exit_code = 0 /\ said = {}
    /\ rootfs = EmptyTree /\ tarball = NoFile
    /\ iso_root = EmptyIsoRoot
    /\ iso = NoFile /\ sha256 = NoFile /\ deploy = NoFile

-----------------------------------------------------------------------------
\* Fault: a file that is already staged is not copied again.
StageBootSkipsExisting ==
    /\ stage = 1
    /\ LET p == StagedBoot[step]
       IN  /\ rootfs[p] # NoFile
           /\ iso_root' = IF iso_root[p] = NoFile
                          THEN [iso_root EXCEPT ![p] = rootfs[p]]
                          ELSE iso_root
    /\ IF step < Len(StagedBoot)
       THEN step' = step + 1 /\ UNCHANGED <<stage, exit_code, said>>
       ELSE Goes(2)
    /\ UNCHANGED <<rootfs, tarball, iso, sha256, deploy>>

\* Stage 1, one shutil.copy: vmlinuz, then initramfs, then grub.cfg.
StageBoot ==
    /\ stage = 1
    /\ LET p == StagedBoot[step]
       IN  /\ rootfs[p] # NoFile
           /\ iso_root' = [iso_root EXCEPT ![p] = rootfs[p]]
    /\ IF step < Len(StagedBoot)
       THEN step' = step + 1 /\ UNCHANGED <<stage, exit_code, said>>
       ELSE Goes(2)
    /\ UNCHANGED <<rootfs, tarball, iso, sha256, deploy>>

\* The file is not in the rootfs tree: FileNotFoundError.
StageBootFails ==
    /\ stage = 1
    /\ rootfs[StagedBoot[step]] = NoFile
    /\ Uncaught
    /\ UNCHANGED files

\* Stages 2, 3 and 5 each write one file: menu.lst, README.txt, syslinux.cfg.
WritesStaged(k, path) ==
    /\ stage = k
    /\ iso_root' = Written(iso_root, path, "iso")
    /\ Goes(k + 1)
    /\ UNCHANGED <<rootfs, tarball, iso, sha256, deploy>>

WriteMenuLst  == WritesStaged(2, "boot/grub/menu.lst")
WriteReadme   == WritesStaged(3, "README.txt")
WriteSyslinux == WritesStaged(5, "boot/syslinux/syslinux.cfg")

\* Fault: the tree is staged where the archive belongs.
StageArchiveCopiesTree ==
    /\ stage = 4
    /\ tarball # NoFile
    /\ iso_root' = [iso_root EXCEPT ![StagedArchive] = rootfs]
    /\ Goes(5)
    /\ UNCHANGED <<rootfs, tarball, iso, sha256, deploy>>

\* Stage 4: the archive, as it is, is copied beside the kernel.
StageArchive ==
    /\ stage = 4
    /\ tarball # NoFile
    /\ iso_root' = [iso_root EXCEPT ![StagedArchive] = tarball]
    /\ Goes(5)
    /\ UNCHANGED <<rootfs, tarball, iso, sha256, deploy>>

StageArchiveFails ==
    /\ stage = 4
    /\ tarball = NoFile
    /\ Uncaught
    /\ UNCHANGED files

(***************************************************************************)
(* What a copy of stage 1 or 4 that stops while it writes leaves: the      *)
(* staged file, or the staged archive, in part.                            *)
(***************************************************************************)
LeftByCopy ==
    /\ \/ /\ stage = 1 /\ rootfs[StagedBoot[step]] # NoFile /\ StagedBoot[step] \in Fragile
          /\ iso_root' = CutShort(iso_root, StagedBoot[step])
       \/ /\ stage = 4 /\ tarball # NoFile /\ StagedArchive \in Fragile
          /\ iso_root' = [iso_root EXCEPT ![StagedArchive] = [tarball EXCEPT !.complete = FALSE]]
    /\ UNCHANGED <<rootfs, tarball, iso, sha256, deploy>>

\* The copy raises.
StageCutShort == LeftByCopy /\ Uncaught

\* What a write of stage 2, 3 or 5 that stops in the middle leaves: the file
\* it was writing in part.
LeftByWrite ==
    /\ \E p \in Fragile :
          /\ <<stage, p>> \in {<<2, "boot/grub/menu.lst">>, <<3, "README.txt">>,
                                <<5, "boot/syslinux/syslinux.cfg">>}
          /\ iso_root' = CutShort(iso_root, p)
    /\ UNCHANGED <<rootfs, tarball, iso, sha256, deploy>>

\* f.write raises.
WriteCutShort == LeftByWrite /\ Uncaught

\* makedirs or open of stages 1 to 5 raises OSError.
StageRaises ==
    /\ stage \in 1 .. 5 /\ step = 1
    /\ Uncaught
    /\ UNCHANGED files

(***************************************************************************)
(* Stage 6: grub-mkrescue over iso_root.  Exit status 0 and the size of    *)
(* the ISO give "OK: ISO created"; any other status, or an exception, an   *)
(* "ERROR" line.  Either way the script goes on.                           *)
(***************************************************************************)
GrubMkrescue ==
    /\ stage = 6
    /\ \E outcome \in GrubOutcomes :
          /\ iso' = AfterGrub(outcome, iso_root, iso)
          /\ said' = said \cup {IF outcome = "written" THEN "ISO_CREATED" ELSE "ISO_ERROR"}
    /\ stage' = 7 /\ step' = 1
    /\ UNCHANGED <<exit_code, rootfs, tarball, iso_root, sha256, deploy>>

\* Fault: the checksum file of an earlier run is kept.
ChecksumKeepsExisting ==
    /\ stage = 7
    /\ \E hashed \in BOOLEAN :
          sha256' = IF sha256 # NoFile THEN sha256
                    ELSE Checksum(IF hashed THEN iso ELSE NoFile)
    /\ IF iso = NoFile \/ sha256'.of = NoFile
       THEN Uncaught /\ UNCHANGED deploy
       ELSE Goes(SUMMARY) /\ deploy' = sha256'
    /\ UNCHANGED <<rootfs, tarball, iso_root, iso>>

(***************************************************************************)
(* Stage 7: `sha256sum iso > iso.sha256` through os.system, whose status   *)
(* nobody looks at: the shell creates the file, and sha256sum fills it or  *)
(* not.  DEPLOY_INFO.txt then quotes the size of the ISO and the first     *)
(* word of the checksum file; a missing ISO and an empty file both raise.  *)
(***************************************************************************)
ChecksumAndDeployInfo ==
    /\ stage = 7
    /\ \E hashed \in BOOLEAN :
          sha256' = Checksum(IF hashed THEN iso ELSE NoFile)
    /\ IF iso = NoFile \/ sha256'.of = NoFile
       THEN Uncaught /\ UNCHANGED deploy
       ELSE Goes(SUMMARY) /\ deploy' = sha256'
    /\ UNCHANGED <<rootfs, tarball, iso_root, iso>>

\* What a write of DEPLOY_INFO.txt that stops in the middle leaves: the text
\* ends before or after the line that quotes the checksum.
LeftByDeployInfo ==
    /\ stage = 7 /\ iso # NoFile /\ "DEPLOY_INFO.txt" \in Fragile
    /\ sha256' = Checksum(iso)
    /\ \E quoted \in {NoFile, iso} : deploy' = Checksum(quoted)
    /\ UNCHANGED <<rootfs, tarball, iso_root, iso>>

DeployInfoCutShort == LeftByDeployInfo /\ Uncaught

\* The final summary; the script ends and the process exits with 0.
Summary ==
    /\ stage = SUMMARY
    /\ stage' = 0 /\ step' = 1 /\ exit_code' = 0
    /\ said' = said \cup {"ISO_READY"}
    /\ UNCHANGED files

-----------------------------------------------------------------------------
\* The script is started: whatever it wrote before was made by an earlier run.
Begin ==
    /\ stage = 0
    /\ stage' = 1 /\ step' = 1 /\ exit_code' = 0 /\ said' = {}
    /\ iso_root' = AgedTree(iso_root)
    /\ iso' = AgedImage(iso)
    /\ sha256' = AgedChecksum(sha256)
    /\ deploy' = AgedChecksum(deploy)

\* ... and so was what it finds in the rootfs tree.
Invoke ==
    /\ Begin
    /\ rootfs' = AgedTree(rootfs)
    /\ tarball' = AgedImage(tarball)

(***************************************************************************)
(* The run is killed: between two calls, inside a copy or a write, while   *)
(* grub-mkrescue writes the image, or in stage 7 once the shell has made   *)
(* the checksum file.                                                      *)
(***************************************************************************)
Interrupted ==
    /\ stage # 0
    /\ stage' = 0 /\ step' = 1 /\ exit_code' = KILLED
    /\ UNCHANGED said
    /\ \/ UNCHANGED files
       \/ LeftByCopy \/ LeftByWrite \/ LeftByDeployInfo
       \/ /\ stage = 6 /\ iso' = Packed(iso_root, FALSE)
          /\ UNCHANGED <<rootfs, tarball, iso_root, sha256, deploy>>
       \/ /\ stage = 7 /\ sha256' \in {Checksum(NoFile), Checksum(iso)}
          /\ UNCHANGED <<rootfs, tarball, iso_root, iso, deploy>>

(***************************************************************************)
(* Between runs of this script the build scripts run.  What this script    *)
(* finds of them when it starts: a kernel and an initramfs of some release *)
(* and a grub.cfg in the rootfs tree, or all but one of the three, and an  *)
(* archive of the tree, or none.                                           *)
(***************************************************************************)
LeftByBuilds(release, missing) ==
    [p \in RootfsPaths |->
        CASE p = missing                               -> NoFile
          [] p \in {"boot/vmlinuz", "boot/initramfs"} -> File(release, FALSE)
          [] p = "boot/grub/grub.cfg"                  -> File("hybrid", FALSE)
          [] OTHER                                     -> NoFile]

InvokeAfterBuilds ==
    /\ Begin
    /\ \E r \in Releases, missing \in {StagedBoot[k] : k \in DOMAIN StagedBoot} \cup {NoFile} :
          rootfs' = LeftByBuilds(r, missing)
    /\ tarball' \in {NoFile, [Packed(rootfs', TRUE) EXCEPT !.made = "old"]}

Stage == \/ StageBoot \/ StageBootFails \/ WriteMenuLst \/ WriteReadme
         \/ StageArchive \/ StageArchiveFails \/ StageCutShort \/ WriteCutShort
         \/ WriteSyslinux \/ StageRaises
         \/ GrubMkrescue \/ ChecksumAndDeployInfo \/ DeployInfoCutShort \/ Summary

Next == Stage \/ InvokeAfterBuilds \/ Interrupted

Spec == Init /\ [][Next]_vars

-----------------------------------------------------------------------------
TypeOK ==
    /\ stage \in 0 .. SUMMARY /\ step \in 1 .. 3
    /\ exit_code \in {0, 1, KILLED}
    /\ said \subseteq Messages
    /\ rootfs \in Trees /\ tarball \in Images
    /\ iso_root \in IsoRoots
    /\ iso \in IsoImages
    /\ {sha256, deploy} \subseteq Checksums

(***************************************************************************)
(* An ISO this run wrote is the image of what the build scripts left: its  *)
(* kernel, initramfs and grub.cfg are the ones in the rootfs tree and the  *)
(* archive in it is rootfs.tar.gz as it is on disk, with the three files   *)
(* the script writes.  iso_root is never cleaned, so files staged by       *)
(* earlier runs are still there when a run begins; every one of them is    *)
(* replaced before grub-mkrescue runs.                                     *)
(***************************************************************************)
NewIsoPacksWhatIsOnDisk ==
    (Good(iso) /\ iso.made = "new") =>
        /\ \A k \in DOMAIN StagedBoot : iso.tree[StagedBoot[k]] = rootfs[StagedBoot[k]]
        /\ iso.tree[StagedArchive] = tarball
        /\ \A p \in StagedWritten : Whole(iso.tree[p])

(***************************************************************************)
(* When the script ends with "BOOTABLE ISO READY", the checksum file and   *)
(* the checksum DEPLOY_INFO.txt quotes are those of the file that is at    *)
(* the ISO's path, whichever run or script wrote that file.                *)
(***************************************************************************)
ChecksumIsOfIso ==
    "ISO_READY" \in said => (sha256 = Checksum(iso) /\ deploy = sha256)

(***************************************************************************)
(* "BOOTABLE ISO READY FOR DEPLOYMENT", "READY FOR PRODUCTION": the ISO    *)
(* the script announces is a complete image that this run built.           *)
(***************************************************************************)
ReadyIsoIsNew ==
    "ISO_READY" \in said => (Good(iso) /\ iso.made = "new")
=============================================================================
