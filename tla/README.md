# ChrysalisOS build tooling: TLA+ models

This directory holds the TLA+ specifications of the Python tooling of
ChrysalisOS, the TLC configurations that check them, and `PROJECT.json`, which
lists the components, the runs, the source lines behind every definition, the
hazards and the findings.

## 1. The system

The repository's Python sources are one packer and five build scripts.

| Part | Source | What it does |
|---|---|---|
| icon bundle writer | `src/tools/icons/mkicons.py` | loads 16 images, writes `icons.mod`: header, entry table, pixel buffers |
| icon bundle reader | (no source; `spec.md` section 4.2) | `open` validates a byte buffer, `lookup` returns a slice by icon id |
| Linux port build | `src/build_chrysalis_linux.py` | nine stages: validate, compile the daemon, install it, headers, Makefile, README, rootfs, tar + ISO, summary |
| GUI build | `src/build_chrysalis_gui.py` | thirteen stages: validate, compile the daemon, write the launcher, `.bashrc`, a new `init.sh` and the network script into the tree, install the daemon, rebuild the tar and the ISO |
| hybrid rootfs build | `src/build-alpine-hybrid.py` | builds the rootfs tree, `init.sh`, `grub.cfg`, `rootfs.tar.gz` |
| Alpine ISO | `src/create-alpine-iso.py` | assembles the ISO tree from kernel, initramfs and `rootfs.tar.gz`, runs `grub-mkrescue`, writes a checksum |
| installer media | `src/prepare-installer-media.py` | copies `kernel.bin` into `installer/iso/install`, writes a `grub.cfg`, a `rootfs.tar` and a manifest there |

The parts interact only through files:

* `mkicons.py` writes `icons.mod`; the runtime's reader maps that file.
* `build-alpine-hybrid.py` creates `hybrid/rootfs/opt/chrysalis/init.sh`, which
  stage 1 of `build_chrysalis_linux.py` requires; `build_chrysalis_gui.py`
  overwrites it.
* `build_chrysalis_linux.py` and `build_chrysalis_gui.py` both write
  `hybrid/rootfs.tar.gz`, `hybrid/chrysalis-alpine-hybrid.iso` and its `.bak`.
* `create-alpine-iso.py` copies kernel, initramfs and `grub.cfg` from the
  rootfs tree and whatever `rootfs.tar.gz` exists into `hybrid/iso_root`, and
  writes the same ISO path as the two build scripts, with a `.sha256` and
  `DEPLOY_INFO.txt` beside it.
* `prepare-installer-media.py` works in `installer/` and shares no file with
  the others; it reads the kernel that `npm run build` leaves under `os/iso`.

Nothing orders the scripts: each is started by hand, and each starts from
whatever the last run of any of them left on disk, finished or not.

### State, operations and what is hard, per part

**Icon bundle writer.** State: the lists `entries` and `pixel_blobs`, the
running sums `offset` and `cur`, the file `icons.mod`. Operations: one
iteration of each of the three loops, the open of the file, the two ways a run
ends early (`Image.open` raises before the file is touched; `struct.pack`
raises while it is open). Hard: the file is truncated and rewritten in place,
so whoever reads it during or after a failed run sees a prefix; the offsets
are computed by a running sum that must agree with the literal sizes `8` and
`10` and with the order of the pixel loop; the widths of the fields overflow
at 65535 and 2^32-1.

**Icon bundle reader.** State: the handle (buffer, table, index). Operations:
`open` (five checks, fail-fast, in order) and `lookup`. Hard: which byte
strings it accepts, given what the writer can leave on disk.

**Build scripts.** State: the files under `alpine/`, `os/linux_port/` and
`hybrid/` (the rootfs tree, the archive, `iso_root`, the ISO, its backup, its
checksum), the stage the run is in, what it has printed and its exit code.
Operations: one stage each, split where a stage makes several calls that can
fail separately. Hard: a stage that fails halfway and what it leaves for the
next run of the same or another script; files copied and written in place,
which an error or a kill leaves in part under their final name; external
commands whose exit status is or is not looked at; an ISO of an earlier run taken for the result of this one;
a backup replaced before the new ISO exists; trees that are only ever added to.

**Installer media.** State: the compiled kernel, the four files the script
writes (`kernel.bin`, `grub.cfg`, `rootfs.tar`, `manifest.txt`), the stage, what
was printed, the exit code. Operations: open and write of each file, the
directories, the two ways a run ends early. Hard: every file is emptied by its
`open` before it is filled, nothing is rolled back, and the manifest quotes
sizes that it reads from disk, so what a run reports depends on every stage
before it having rewritten its file over whatever earlier runs left.

## 2. Modules

| Module | Models | Source |
|---|---|---|
| `StructPack` | `struct.pack("<...")`: bytes as digits in base `ByteBase`, `Fits`, `PackLE`, and the inverse `UnpackLE`/`Field` | `mkicons.py` 43, 51 |
| `BundleFormat` | the layout and `encode` of the format description | `spec.md` 3, 4.1, 6 |
| `MkIcons` | the script, one action per loop iteration and per failure | `mkicons.py` |
| `BundleReader` | `open` and `lookup` | `spec.md` 4.2 |
| `IconPipeline` | writer, file and reader together; interruption | `mkicons.py` 41-56 and `spec.md` |
| `MCMkIcons`, `MCIconPipeline` | the constants of the runs | |
| `HybridFs` | the files the build scripts share, as values, and the operations on them: write, chmod, a copy or write cut short, pack, checksum, the outcomes of `grub-mkrescue` | all four build scripts |
| `LinuxPortBuild` | `main`, `run_command` and the nine stages | `build_chrysalis_linux.py` |
| `GuiBuild` | `main`, `print_error`, `run_cmd` and the thirteen stages | `build_chrysalis_gui.py` |
| `AlpineHybridBuild` | the nine stages of the script | `build-alpine-hybrid.py` |
| `AlpineIso` | the seven stages of the script | `create-alpine-iso.py` |
| `BuildChain` | the four scripts over one file system, run one at a time in any order | the four scripts |
| `InstallerMedia` | the five stages of the script, each file at open and at write | `prepare-installer-media.py` |
| `MediaUpdate` | the abstract specification `InstallerMedia` implements: artefacts made anew in order, and reported only when all are | (what the script promises) |

`BundleFormat` and `BundleReader` are written from the format description
because the repository has no reader and no separate encoder; `PROJECT.json`
marks their definitions `spec_modelled`. `MkIcons` is written from the script
alone and is checked against `BundleFormat`.

### How `MkIcons` corresponds to the script

| Script | Model |
|---|---|
| `entries`, `pixel_blobs`, `offset`, `cur` | variables of the same names |
| `for icon_id, path in icons` (32-39) | `LoadIcon`, once per icon; `LoadFails` when `Image.open` raises |
| `open("icons.mod", "wb")`, header, `data_offset`, `cur` (41-48) | `WriteHeader`: `out` becomes the header, which is the truncation |
| entry loop (50-52) | `WriteEntry`; `WriteEntryFails` when `struct.pack` raises |
| pixel loop (55-56) | `WriteBlob` |
| end of the `with` block, `print` (58) | `Finish` |
| the script started again | `Invoke`: the image files may have changed, `icons.mod` is what the last run left |

`i` is the position in the write sequence (N records, then N blobs); it stands
for the two loop iterators. `disk` maps each path of the list to the image
behind it or to `NoFile`.

### Abstractions

* **Bytes.** A byte is a digit in base `ByteBase`. The program has 256; the
  runs take 4, so that a 2-byte field overflows at 16
  and a 4-byte field at 256, and images of a few pixels reach both limits.
  Every width-derived limit scales with the base; nothing in the script or the
  format depends on the value 256 itself.
* **Pixels.** An image is `[w, h, tint]`; byte `k` of its buffer is
  `(tint + k) % ByteBase`, so that buffers of different images and shifted
  slices of one buffer differ.
* **The icon list.** The runs take three entries of the list, ids 6, 7 and 8,
  which includes the one path (`calc.png`) that the list names twice.

### How the build modules correspond to the scripts

All four scripts are sequences of numbered stages, and all four modules have
the same shape. `stage` is the stage the run is in and 0 between runs; `step`
is the call a split stage is at; `said` is the set of the messages the run has
printed that a property speaks about; `exit_code` is that of the last run. One
action models one stage with every call it makes; a stage is split into steps
only where the script makes several calls that can fail or be interrupted
separately and leave different files behind.

| Script | Model |
|---|---|
| `build_chrysalis_linux.py` `main`, lines 303-325 | `Returns(k, r, printed)`: a falsy result ends the run with 1, the last stage with 0; `Raised` is the `except` clause |
| `run_command` with `check=True` (20-30) | `SysExit`: the process ends inside the stage |
| `subprocess.run` of a list whose program is not installed (23) | `CommandNotFound`: `tar` or `grub-mkrescue` of stage 8 raises `FileNotFoundError`, which `main` catches; the GUI build runs its commands through a shell, where a missing program is a status |
| `stage_1_validate` ... `stage_9_summary` | `Validate`, `MakeClean`/`Make`, `CopyDaemon`, `CopyHeaders`, `CreateBuildfile`, `CreateDocumentation`, `PrepareRootfs`, `BackupIso`/`Tar`/`GrubMkrescue`, `Summary`, and `...Fails` for each checked command |
| `stage_9_summary` has no `return` | `Summary` hands `"None"` to `Returns` |
| `build_chrysalis_gui.py` `print_error` (28-30) | `PrintError`: exit with 1 |
| stages 1 to 13 and the summary of its `main` | `Validate`, `ApkCache`, `MakeClean`/`Make`, `IdentifyPackages`, `MakeDirs`, `CreateLauncher`, `CreateBashrc`, `UpdateInit`, `CreateNetUtils` (each `Writes`: open-and-write, then chmod), `InstallDaemon`, `CreateDocs`, `Tar`, `RemoveBackup`/`RenameIso`/`GrubMkrescue`, `FinalSummary` |
| `grub-mkrescue ... \| tail -20` (588-592) | `PipelineOk`: the status `run_cmd` sees is that of `tail` |
| `build-alpine-hybrid.py` stages 1 to 9 | `MakeDirs`, `CopyBoot` (one copy per step), `InstallBusybox`, `MergeChrysalis`, `WriteGrubCfg`, `WriteInit` (write, then chmod), `WriteEtc`, `Tar`, `WriteManifest`, `Summary` |
| `create-alpine-iso.py` stages 1 to 7 | `StageBoot` (one copy per step), `WriteMenuLst`, `WriteReadme`, `StageArchive`, `WriteSyslinux`, `GrubMkrescue`, `ChecksumAndDeployInfo`, `Summary` |
| an exception nothing catches | `Uncaught`, reached from `CopyBootFails`, `StageArchiveFails`, `TarFails`, `StageRaises`, ... |
| what a copy or a write leaves when it stops halfway | `LeftByCopy`, `LeftByWrite`, `LeftByManifest`, `LeftByDeployInfo` (`LeftInPart` in `GuiBuild`): the destination is at its final path in part; in stage 4 of `build_chrysalis_linux.py` the header the loop copied before it is in place (`HeadersCopied`), in stage 7 of `build-alpine-hybrid.py` the files written before it (`WrittenUpTo`) |
| `shutil.copy`/`copy2` raises while it writes | `CopyCutShort` (`StageCutShort` in `AlpineIso`): `LeftByCopy`, and the run ends, by `Raised` in `build_chrysalis_linux.py` and by `Uncaught` in the other three |
| `f.write`, `write_text` or the close of the file raises | `WriteCutShort`, `ManifestCutShort`, `DeployInfoCutShort`: `open` has emptied the file, part of the text is in it, and the run ends |
| `os.chdir`, `os.makedirs`, `open` or `os.chmod` raises | `StageRaises`: the run ends and the files are as they were; in the GUI build this includes the `os.chdir` of stage 2 (line 67) |
| `tarfile.open` of `build-alpine-hybrid.py` raises (214) | `TarFails`: before the file is opened, which leaves the archive of before, or after, which leaves part of a new one |
| the process is killed | `Interrupted`: between two steps, which leaves the files as they are, or inside a step, which leaves what the step had written so far: a file in part (the same `LeftBy...` as an error), the first files of a stage that writes several, part of an archive, of an ISO or of the backup copy, an empty checksum file |
| the script is started | `Invoke` (`Begin` in the two Alpine modules) |

### How `InstallerMedia` corresponds to the script

| Script | Model |
|---|---|
| `kernel_src`, `kernel_dest`, `rootfs_tar`, `grub.cfg`, `manifest.txt` | `kernel_src`, and `media`, a function from `"kernel_dest"`, `"grub_cfg"`, `"rootfs_tar"`, `"manifest"` to files |
| `if os.path.exists(kernel_src)` ... `else: sys.exit(1)` (27, 34-37) | the guard of `OpenKernel`; `NoKernel` |
| `open(kernel_dest, 'wb')`, then `dst.write(src.read())` (29-31) | `OpenKernel` (`Opens`: the file is `Torn`), then `CopyKernel` (`Writes`) |
| the seven `os.makedirs` (42-48) | `MakeDirs` |
| `open(grub.cfg, 'w')`, `write` (72-73) | `OpenGrubCfg`, `WriteGrubCfg` |
| `tarfile.open(rootfs_tar, 'w')`, `tar.add` (81-82) | `OpenTar`, `AddRootfs`: the archive holds `Tree`, the directories and `grub.cfg` as they are |
| the `FILES` section of the manifest (99-100), `open`, `write` (111-112) | `Manifest`, from `KernelBytes` and `TarBytes` of the files on disk; `OpenManifest`, `WriteManifest` |
| "INSTALLATION MEDIA READY" (116-118) | `Summary` |
| an `OSError` in any stage | `StageRaises`: the run ends with 1, a file that was open stays `Torn` |
| the process is killed | `Interrupted` |
| the script is started | `Invoke`: the files on disk become `"old"`, and the kernel is the one of before, a new build, or gone |

A file is `NoFile`, `Torn` (emptied or written in part) or whole with its
data, and carries `made`, `"new"` for the run in progress as in `HybridFs`.
A kernel is one of two builds of different sizes; the size of a torn file is
0 and that of the archive grows with what it holds. The text of `grub.cfg`
and of the manifest outside its `FILES` section is left out.

### Abstractions of the build modules (`HybridFs`)

* **Files.** A file is `NoFile` or `[content, exec]`. The content is a name,
  not text: generated files are named after the script that writes them
  (`"hybrid"`, `"linux"`, `"gui"`, `"iso"`), copied files after what they are
  copies of (the source file, the Alpine release), a compiled binary after
  the run that built it. The text of the generated scripts, Makefiles and
  documents is left out; their presence, origin and mode are kept.
* **Writing.** `Written` is `open(path, "w")` and `write`: a new file is not
  executable, an existing one keeps its mode. `Chmod` is `os.chmod`. A stage
  that writes and then sets the mode is two steps.
* **Copies and writes cut short.** No script writes to a temporary name and
  renames. `CutShort(tree, path)` is what an error during a copy or a write
  leaves: the file at its final path with content `"partial"` and the mode it
  had. `Whole(f)` is a file that is there with all of its content; `Bootable`
  and the properties about images ask for it. The constant `Fragile` is the
  set of paths this can happen to in a run of TLC (see Bounds). A stage that
  writes several files (`WrittenAt`: the four files under `etc`) leaves those
  before the one that failed whole.
* **Images.** An archive or an ISO is `[made, complete, tree]`: the tree it
  was packed from, whether the command finished, and whether this run made it.
  The ISO of `create-alpine-iso.py` is the image of `iso_root`, which holds a
  copy of the archive in turn.
* **This run and earlier runs.** Every binary, image and generated file made
  in the run in progress is `"new"`; starting a run turns every `"new"` on
  disk into `"old"` (`AgedTree`, `AgedImage`, ...). That is all the properties
  need to tell a run's own output from what it found, and it keeps the state
  space finite without counting runs.
* **`grub-mkrescue`** writes the image, fails before it touched the output
  path, or fails having written part of it (`GrubOutcomes`).
* **Alpine releases.** The four files under `alpine/` are of release
  `"alpine-a"` or `"alpine-b"`. Two are enough for a tree to mix them.
* **The 36 busybox links** are one path, `bin/sh`; the sources of
  `os/kernel` that stage 4 of `build-alpine-hybrid.py` copies are one file,
  `kernel.h`.

### The environment of each module

Between runs the world changes; each module has one action for that, folded
into the start of a run where the change only matters to the run that follows.

| Module | Action | What it stands for |
|---|---|---|
| `LinuxPortBuild` | `TreeChanges` | sources edited, checked out or removed (`SourceSets`: all of them there, or all but one); `init.sh` written by `build-alpine-hybrid.py`, restored without its mode, or removed |
| `GuiBuild` | `SourcesChange` | sources edited, checked out or removed (`SourceSets`) |
| `AlpineHybridBuild` | `InvokeAfterDownload` | `alpine/` holds the files of one release, all four or all but one |
| `AlpineIso` | `InvokeAfterBuilds` | the rootfs tree holds kernel, initramfs and `grub.cfg` of some release, or all but one of them; `rootfs.tar.gz` is an archive of that tree or is missing |
| `BuildChain` | `Download` | `alpine/` is refilled with one release, complete or kernel only |
| `InstallerMedia` | `Invoke` | `npm run build` has built the kernel again, or it was cleaned away, or nothing happened |

In `BuildChain` the four modules are instantiated over the same variables.
`StartAlpine`, `StartLinux`, `StartGui` and `StartMkIso` are the modules' own
`Invoke` plus the ageing of the files that script does not know; `AlpineStep`,
`LinuxStep`, `GuiStep` and `MkIsoStep` are their `Stage` relations, so every
step of the chain is a step of the module of the script that runs. The
environment actions of the single modules are not part of the chain: there,
what a script finds is what the other scripts really left. The scripts are run
one at a time; two of them at once are not modelled.

## 3. Runs

| Run | Module / cfg | Checks | Result |
|---|---|---|---|
| `mkicons` | `MCMkIcons` / `MkIcons.cfg` | `TypeOK`, `WriterImplementsEncode` | pass |
| `mkicons_partial` | `MCMkIcons` / `MkIconsPartial.cfg` | `NoPartialFile` | violated (finding) |
| `icon_pipeline` | `MCIconPipeline` / `IconPipeline.cfg` | `TypeOK`, `AcceptedIsComplete`, `LookupReturnsSource` | pass |
| `linux_build` | `LinuxPortBuild` / `LinuxPortBuild.cfg` | `TypeOK`, `NewIsoCarriesThisBuild`, `ArchiveMatchesIso` | pass |
| `gui_build` | `GuiBuild` / `GuiBuild.cfg` | `TypeOK`, `NewIsoCarriesThisBuild`, `CompleteBuildWroteIso` | pass |
| `alpine_build` | `AlpineHybridBuild` / `AlpineHybridBuild.cfg` | `TypeOK`, `ArchiveIsCoherent`, `CompleteBuildPackedTree` | pass |
| `alpine_iso` | `AlpineIso` / `AlpineIso.cfg` | `TypeOK`, `NewIsoPacksWhatIsOnDisk`, `ChecksumIsOfIso` | pass |
| `build_chain` | `BuildChain` / `BuildChain.cfg` | `TypeOK`, `NewIsoCarriesThisBuild`, `AlpinePromisesHoldInChain`, `BuildsKeepTreeBootable` | pass |
| `build_chain_reported` | `BuildChain` / `BuildChainReportedIsoIsThere.cfg` | `ReportedIsoIsThere` | violated (finding) |
| `build_chain_backup` | `BuildChain` / `BuildChainBackupKeepsGoodImage.cfg` | `BackupKeepsGoodImage` | violated (finding) |
| `build_chain_whole_init` | `BuildChain` / `BuildChainNewIsoHoldsWholeInit.cfg` | `NewIsoHoldsWholeInit` | violated (finding) |
| `installer_media` | `InstallerMedia` / `InstallerMedia.cfg` | `TypeOK`, `ReadyMediaHangTogether`, `ImplementsMediaUpdate` | pass |

### The icon bundle

* `WriterImplementsEncode`: a run that ends with "icons.mod generated" has
  written byte for byte what `encode` prescribes for the images it loaded.
* `NoPartialFile`: the description says no partial file is ever produced. TLC
  finds the run in which `calc.png` is 16 pixels wide (65536 at base 256):
  the file is truncated, the header written, and `struct.pack` raises on the
  first record.
* `AcceptedIsComplete`: the reader may open the file at any moment of any run,
  and after a run was killed leaving any prefix of what it had written; it
  only ever holds a handle on a complete bundle. This is what makes the
  finding above harmless for a reader with the five checks, and what would not
  hold for a reader without check 2 or 4.
* `LookupReturnsSource`: the round trip through the file.

A bundle that an earlier run left, from image files that have changed since,
is a complete bundle: the reader accepts it, and no property over the file can
tell it from a fresh one. The script keeps nothing that would.

### The build scripts, each on its own

Each of these runs lets the script be started any number of times, fail at
every command and every stage that can fail, leave every file of `Fragile` in
part, and be killed between any two steps and inside any copy, write or
command, with the environment of the table above between runs.

* `NewIsoCarriesThisBuild` (`linux_build`): a complete ISO this run wrote holds
  the daemon this run compiled, executable, an executable `init.sh`, both
  headers and the generated Makefile and README. This rests on `make clean`
  removing the old binary (see Assumptions), on the existence test after
  `make`, on the chmod
  of stage 7, and on a copy that raises ending the run, against everything
  earlier runs can have left, files in part included. A stage 3 that caught
  the error of `copy2` and went on, as its `else` branch goes on without a
  daemon, would pack part of a daemon.
* `ArchiveMatchesIso`: with a new ISO, `rootfs.tar.gz` is complete, of this
  run and of the same tree.
* `NewIsoCarriesThisBuild` (`gui_build`): the same for the GUI build, with the
  GUI `init.sh`; stage 3 does not look for the binary, and stage 10 is what
  keeps a missing one out of an image.
* `CompleteBuildWroteIso`: a run that prints the "BUILD COMPLETE" summary has
  put a file of its own at the ISO path, because `os.path.getsize` raises
  when `grub-mkrescue` left nothing. (That the file is a complete image does
  not follow; see `ReportedIsoIsThere`.)
* `ArchiveIsCoherent`: an archive `build-alpine-hybrid.py` has just packed
  holds kernel, initramfs, modloop and busybox of one release, the script's
  `init.sh`, executable, `grub.cfg` and the files under `etc`, all whole,
  although
  `alpine/` may have been refilled with another release between runs and
  earlier runs may have stopped after any copy. The script has no check; the
  property holds because every copy is repeated before the tar.
* `CompleteBuildPackedTree`: "BUILD COMPLETE" is said of a complete archive of
  the tree as it is, with this run's manifest.
* `NewIsoPacksWhatIsOnDisk`: a new ISO of `create-alpine-iso.py` holds the
  kernel, initramfs, `grub.cfg` and archive that are on disk now, not those an
  earlier run staged in `iso_root`, which is never emptied, and the menu
  files and the README the script writes are whole in it, although an
  earlier run may have left any staged file in part.
* `ChecksumIsOfIso`: when the script ends with "BOOTABLE ISO READY", the
  `.sha256` file and the checksum quoted in `DEPLOY_INFO.txt` are of the file
  at the ISO path: the unchecked `os.system` is followed by a `split()[0]` that
  raises on an empty file.

### The chain

* `NewIsoCarriesThisBuild` (`build_chain`): what the two build scripts promise
  of their ISO on their own still holds when the tree, the sources, the
  archive and the ISO path are what runs of the other three scripts left.
* `AlpinePromisesHoldInChain`: `ArchiveIsCoherent` and
  `CompleteBuildPackedTree` of `build-alpine-hybrid.py`, and
  `NewIsoPacksWhatIsOnDisk` and `ChecksumIsOfIso` of `create-alpine-iso.py`,
  hold while that script is the one that runs or ran last. The runs of the
  two modules on their own start from what a download and earlier runs of
  the same script left; here the tree also holds the `init.sh` of the GUI
  build and the files both build scripts added, and the archive and the ISO
  can be those of another script, whole or in part. A stage 6 that kept an
  `init.sh` it found would pass the run of `AlpineHybridBuild` alone and
  fails here, after a run of the GUI build.
* `BuildsKeepTreeBootable`: no step of `build_chrysalis_linux.py`,
  `build_chrysalis_gui.py` or `create-alpine-iso.py` turns a tree that boots
  (boot files of one release, whole `grub.cfg`, whole executable `init.sh`)
  into one that does not, with one exception. The GUI build rewrites
  `init.sh` in two calls and can be killed between them; the tree stays
  bootable because `open(path, "w")` keeps the mode of the file it
  truncates. The exception (`InitLeftInPart`) is the write of stage 8 that
  an error or a kill cuts short: `init.sh` is rewritten in place, so the
  tree is left with part of it, and the run ends there, with exit code 1 or
  by the signal. Without the exception TLC refutes the property by exactly
  that step.
* `ReportedIsoIsThere` (violated): what a script reports of the ISO is true of
  the file at the path. TLC's shortest behaviour is one run of the GUI build
  whose `grub-mkrescue` writes part of an image. The conjuncts for
  `build_chrysalis_linux.py` (`CreatedIsoIsNew`) and `create-alpine-iso.py`
  (`ReadyIsoIsNew`) are violated too, each by a run with a failing
  `grub-mkrescue` after a run that left an ISO; checking either conjunct
  alone as the invariant shows it.
* `BackupKeepsGoodImage` (violated): no step of a build script destroys the
  last complete image. TLC needs three runs: one that writes an ISO, one
  whose `grub-mkrescue` leaves part of an image, and one whose backup step
  copies that over the backup.
* `NewIsoHoldsWholeInit` (violated): a new ISO of `build_chrysalis_linux.py`
  holds a whole `init.sh`. TLC needs two runs: the write of `init.sh` is cut
  short in `build-alpine-hybrid.py` (stage 6) or in the GUI build (stage 8),
  and `build_chrysalis_linux.py`, whose stage 1 asks only whether the file
  exists (line 45), sets its mode in stage 7 and packs it. The GUI build and
  `build-alpine-hybrid.py` write the file themselves before they pack, so
  their images are not affected.

### The installer media

The run lets the script be started any number of times, raise in any stage,
with a file open or not, and be killed anywhere; between runs the kernel is
rebuilt, removed or left.

* `ReadyMediaHangTogether`: when "INSTALLATION MEDIA READY" is printed, all
  four files are whole, `kernel.bin` is the compiled kernel as it is now, the
  archive holds the tree as it is on disk with `grub.cfg` in it, and the
  manifest quotes the sizes the kernel and the archive have. Earlier runs can
  have left any file torn, or whole and of another kernel; the script tests
  none of them.
* `ImplementsMediaUpdate`: the script implements `MediaUpdate` with
  `active <- stage # 0`, `reported <- "MEDIA_READY" \in said` and `fresh <-
  FreshPrefix`, the number of leading artefacts (kernel, `grub.cfg`, archive,
  manifest) that are whole and of this run. The mapping reads the files and
  not the stage counter: a stage that left its file as it found it, or torn,
  and went on would make the run report with `fresh < 4`, which is no step of
  `MediaUpdate`. `TLC` checks `MediaUpdate`'s `Spec` as a property of
  `InstallerMedia`'s.

### Observations without a run

`NewIsoOfOneRelease` of `BuildChain`: a new ISO starts the kernel with the
initramfs that belongs to it. With `BuildChainNewIsoOfOneRelease.cfg` TLC
refutes it: a download that stopped after the kernel, a run of
`build-alpine-hybrid.py` that copies the kernel and raises at the initramfs
(stage 2, line 47), and a GUI build that packs the tree and reports a bootable
ISO. Neither build script looks at `boot/`, and `create-alpine-iso.py` only
needs the files to exist. `BuildsKeepTreeBootable` is the other half: only
`build-alpine-hybrid.py` can make the tree unbootable.

The `grub.cfg` that `prepare-installer-media.py` writes loads
`/boot/chrysalis/kernel.bin`; the script copies the kernel to
`install/bin/kernel.bin` and packs a tree that has no kernel in it, and its
summary names an `installer.iso` that it does not make. Whatever assembles
the installer ISO has to put the kernel where the menu entries look for it;
that step is not in the repository.

`stage_9_summary` of `build_chrysalis_linux.py` has no `return` statement.
`main` takes its `None` for a failure: after the "BUILD COMPLETE" banner it
prints "ERROR: Summary stage failed" and returns 1, and "BUILD SUCCESSFUL" is
never printed. `LinuxPortBuild` models this (`Summary`), and
`LinuxCompleteBuildExitsZero.cfg` checks `CompleteBuildExitsZero`, which TLC
refutes with a single run in which nothing fails. It is kept out of the list
of runs because no interleaving is needed to see it: running the script once
shows it.

### Assumptions about the tools

The scripts call programs that are not in the repository. The models take
them to do what their names say where the scripts rely on it, and let them
fail in every way the scripts can tell apart.

* `make clean` removes `chrysalis_daemon` (`MakeClean` sets `daemon_built`
  to `NoFile`). The Makefile of `os/linux_port` is not among the Python
  sources; the one that stage 5 of `build_chrysalis_linux.py` writes into
  the tree for rebuilding has `clean: rm -rf build $(TARGET)`, and the model
  takes the same of the one stage 2 calls. With a `clean` that left the
  binary, the existence test of line 64 would accept the binary of an
  earlier build, and `NewIsoCarriesThisBuild` would not hold. `make` itself
  may exit 0 with or without a binary.
* `grub-mkrescue` that exits 0 has written a complete image; one that fails
  has written nothing or part of an image (`GrubOutcomes`). An exit status 0
  over a broken image is not modelled.
* A download into `alpine/` is of one release (`Downloaded`). Files of two
  releases side by side in `alpine/` would be copied as they are; the mixed
  trees of the models come from runs that stop between two copies.
* `tar` and `tarfile` pack the tree as it is on disk when they are called.

### Bounds

| Bound | Value | Why it is enough |
|---|---|---|
| `ByteBase` | 4 | scales the field limits; see above |
| icons | 3 (`mkicons`), 2 (`icon_pipeline`) | offsets of a first, a middle and a last entry; a repeated path |
| images | 1x1, 2x1, 15x1, 16x1, 15x4 | smallest, the largest that fits a field, the first that does not, and one whose size pushes the offset past the 4-byte field |
| `LookupIds` | the ids of the list and one that is not in it | found and not found |
| runs of one build script | unbounded | the ageing of `HybridFs` makes the state space finite |
| `Releases` | 2 | a mixed tree needs two |
| `SourceSets` | all sources, or all but one | both build scripts stop at the first source they miss; a second missing one makes no run different |
| `Fragile` (`LinuxPortBuild`) | the daemon, both headers, Makefile, README | every file the script copies or writes into the tree |
| `Fragile` (`GuiBuild`) | the daemon, launcher, `.bashrc`, `init.sh`, network script, README | every file the script copies or writes into the tree |
| `Fragile` (`AlpineHybridBuild`) | `boot/vmlinuz`, `init.sh`, `etc/hosts`, the manifest | one copied file, the file that is written and then made executable, a file in the middle of a stage that writes four, and the file written after the tar; the other copies and writes go through the same two actions |
| `Fragile` (`AlpineIso`) | `boot/vmlinuz`, `boot/rootfs.tar.gz`, `README.txt`, `DEPLOY_INFO.txt` | one staged boot file, the staged archive, one written file, and the file written after the image |
| `Fragile` (`BuildChain`) | `init.sh`, `boot/vmlinuz`, the daemon | a file two scripts write and a third asks for, a boot file one script copies and another stages, and the binary both build scripts install; the other files of the tree go through the same actions in the runs of the single modules, where `Fragile` is larger |
| `MaxRuns` (`BuildChain`) | 3 (4 in `BuildChainFourRuns.cfg`) | a run that leaves something, a run that fails over it, and a run that packs or backs up the result; the violations and every action of the chain occur within three runs. Four runs, one of each script, are checked apart (below) |
| `Download` in `BuildChain` | complete, or kernel only | the two cases that differ for stage 2 of `build-alpine-hybrid.py`: every copy succeeds, or the second raises |
| archive found by `AlpineIso` | a complete archive of the tree, or none | an incomplete one is copied like a complete one; `BuildChain` has it |
| `Kernels` (`InstallerMedia`) | 2, of sizes 2 and 3 | a kernel of an earlier run differs from the current one in content and in size |
| runs of `prepare-installer-media.py` | unbounded | as for the build scripts |

### Fairness

No specification has a fairness condition, and no liveness property is
checked. The scripts are straight-line programs: no loop waits, nothing is
retried, and a run ends when its last stage returns. Whether it does depends
on `make`, `tar`, `grub-mkrescue` and `sha256sum` returning, and
`subprocess.run` and `os.system` are called without a timeout; that is a
property of those programs, not of the scripts. Every property here is a
safety property: it holds of the runs that end and of those that are killed
or hang at any step. No run switches deadlock checking off: between runs a
script can always be started, and in `BuildChain`, once `MaxRuns` runs have
been made, `alpine/` can still be refilled.

## 4. Findings

`PROJECT.json`, "findings", has one entry per violated run: the partial
`icons.mod`, the ISO that is reported but not there, the backup that is
overwritten, and the ISO with part of an `init.sh`. Each names the line and
says what the code does against what its messages, comments or the
description say. The observations above (the exit code of a complete Linux
build, the ISO of a mixed tree) are refuted properties too; their
configurations are in this directory.

## 5. Not modelled

* Two scripts running at the same time over `hybrid/` or `installer/`, and
  `npm run build` rewriting the kernel while `prepare-installer-media.py`
  reads it: the scripts are started by hand, one after the other.
* `npm run build`, `npm run installer` and whatever makes `installer.iso` and
  `hdd.img`: not in the repository. The kernel they leave is an input.
* The decoding of image files by PIL (`Image.open`, `convert`) beyond whether
  it succeeds and what size it yields.
* The contents of generated shell scripts, C sources and documentation the
  build scripts write, and whether the ISO boots: `Bootable` is the condition
  on the tree that `grub.cfg` and the manifest of `build-alpine-hybrid.py`
  state, not an emulation.
* A copy or a write that fails silently, leaving a short file without an
  error: Python raises on a failed `write` or `close`, so every file in part
  comes with a run that ended, by the exception or by a signal.
* An external command that never returns. The scripts set no timeout, so a
  run then waits until it is killed, which `Interrupted` covers; that every
  run ends is not claimed.
* A bundle changed by hand after it was written. `Validate` of
  `BundleReader` is what stands between such a file and the runtime, and it
  is written from the description, not from code of this repository.
* A reader that holds a mapped `icons.mod` while `mkicons.py` rewrites it.
  The format description makes the handle immutable and the buffer the
  reader's own for as long as it is mapped, and the repository has no
  reader whose mapping could be looked at; `IconPipeline` lets the reader
  open the file at any moment of a run instead, and the handle keeps what
  it read.
* The `.sha256` and `DEPLOY_INFO.txt` of `create-alpine-iso.py` after a later
  run of a build script has replaced the ISO: they are then of an image that
  no longer exists. No script claims otherwise, so no property states it.

## 6. Plan

Done: `StructPack`, `BundleFormat`, `MkIcons`, `BundleReader`, `IconPipeline`;
`HybridFs`, `LinuxPortBuild`, `GuiBuild`, `AlpineHybridBuild`, `AlpineIso`;
`BuildChain`; `InstallerMedia` with the abstract `MediaUpdate`; the fault
model of copies and writes cut short, by an error or by a kill inside the
step, in the four build modules and the chain.

The chain with a fourth run, in which all four scripts take part in one
behaviour, is checked with `BuildChainFourRuns.cfg` (`MaxRuns = 4`, `Fragile`
the three files `init.sh`, `boot/vmlinuz` and the daemon): TLC finds no
violation of `TypeOK`, `NewIsoCarriesThisBuild`, `AlpinePromisesHoldInChain`
and `BuildsKeepTreeBootable` in 49,045,307 distinct states (depth 81), in 57
minutes with two workers. It is kept beside the runs of `PROJECT.json`
because of its running time; `build_chain`, with three runs and the same
three files, has 1.99 million states and takes a little over two minutes.

Left:

1. `Fragile` as the set of all files in `AlpineHybridBuild`, `AlpineIso` and
   `BuildChain`. A smaller state (the archive and the ISO as the set of files
   they hold that a property reads) would bring it within reach.
