------------------------------- MODULE MkIcons -------------------------------
(***************************************************************************)
(* src/tools/icons/mkicons.py: the script that packs the icon images into  *)
(* the bundle file icons.mod.                                              *)
(*                                                                         *)
(* One run loads every image of the `icons` list (first loop), opens       *)
(* icons.mod for writing, which truncates it, and writes the header, one   *)
(* entry record per icon and then the pixel buffers.  An image that cannot *)
(* be opened ends the run before the file is touched; a field that does    *)
(* not fit its struct.pack width ends it while the file is open.           *)
(*                                                                         *)
(* Pixels are abstracted to a tint: the buffer of an image is determined   *)
(* by its width, height and tint, which is all the layout can tell apart.  *)
(***************************************************************************)
EXTENDS Naturals, Sequences, SequencesExt, StructPack

CONSTANTS Icons,          \* the `icons` list: a sequence of [id, path]
          Images,         \* what an image file may decode to: [w, h, tint]
          ICONS_MAGIC,
          VERSION,
          NoFile          \* a path with no file behind it

Paths == {Icons[k].path : k \in DOMAIN Icons}

(***************************************************************************)
(* The list is a literal of the script: its length and its ids fit their   *)
(* 2-byte fields, and so do the two constants.  What the script cannot     *)
(* know in advance is the size of the images.                              *)
(***************************************************************************)
ASSUME IconListFits ==
    /\ Fits(Len(Icons), 2)
    /\ \A k \in DOMAIN Icons : Fits(Icons[k].id, 2)
    /\ Fits(ICONS_MAGIC, 4) /\ Fits(VERSION, 2)
    /\ NoFile \notin Images

VARIABLES pc,             \* "load", "write" (icons.mod is open), "done", "failed"
          entries,        \* [id, w, h, off] per loaded icon
          pixel_blobs,    \* the pixel buffer of each loaded icon
          offset,         \* running sum of the first loop
          cur,            \* running offset of the entry loop
          i,              \* position in the write sequence: N records, then N blobs
          disk,           \* the image file behind each path
          out             \* the bytes of icons.mod, or NoFile

vars == <<pc, entries, pixel_blobs, offset, cur, i, disk, out>>

N == Len(Icons)

\* img.tobytes() of an RGBA image: 4 bytes per pixel, row-major.
Pixels(img) == [k \in 1 .. (img.w * img.h * 4) |-> (img.tint + k) % ByteBase]

\* struct.pack("<IHH", ICONS_MAGIC, VERSION, len(entries))
Header(count) == PackLE(ICONS_MAGIC, 4) \o PackLE(VERSION, 2) \o PackLE(count, 2)

\* Fault: the literal 10 of data_offset taken for a record of four 2-byte fields.
DataOffsetShortRecord(count) == 8 + count * 8

\* data_offset = 8 + len(entries) * 10
DataOffset(count) == 8 + count * 10

\* struct.pack("<HHHI", icon_id, w, h, cur)
EntryRecord(e, at) == PackLE(e.id, 2) \o PackLE(e.w, 2) \o PackLE(e.h, 2) \o PackLE(at, 4)

\* struct.pack raises unless every field of the record fits.
EntryFits(e, at) == Fits(e.id, 2) /\ Fits(e.w, 2) /\ Fits(e.h, 2) /\ Fits(at, 4)

Init ==
    /\ pc = "load"
    /\ entries = << >>
    /\ pixel_blobs = << >>
    /\ offset = 0
    /\ cur = 0
    /\ i = 1
    /\ disk \in [Paths -> Images \cup {NoFile}]
    /\ out = NoFile

\* Fault: img.size unpacked as (h, w).
LoadIconSwapsSize ==
    /\ pc = "load"
    /\ Len(entries) < N
    /\ LET icon == Icons[Len(entries) + 1]
           img  == disk[icon.path]
       IN  /\ img # NoFile
           /\ entries' = Append(entries, [id |-> icon.id, w |-> img.h,
                                          h |-> img.w, off |-> offset])
           /\ pixel_blobs' = Append(pixel_blobs, Pixels(img))
           /\ offset' = offset + Len(Pixels(img))
    /\ UNCHANGED <<pc, cur, i, disk, out>>

\* Fault: the first loop remembers the entry but not its pixels.
LoadIconDropsPixels ==
    /\ pc = "load"
    /\ Len(entries) < N
    /\ LET icon == Icons[Len(entries) + 1]
           img  == disk[icon.path]
       IN  /\ img # NoFile
           /\ entries' = Append(entries, [id |-> icon.id, w |-> img.w,
                                          h |-> img.h, off |-> offset])
           /\ offset' = offset + Len(Pixels(img))
    /\ UNCHANGED <<pc, pixel_blobs, cur, i, disk, out>>

(***************************************************************************)
(* One iteration of the first loop: open and decode the next image,        *)
(* remember its entry and its pixels.                                      *)
(***************************************************************************)
LoadIcon ==
    /\ pc = "load"
    /\ Len(entries) < N
    /\ LET icon == Icons[Len(entries) + 1]
           img  == disk[icon.path]
       IN  /\ img # NoFile
           /\ entries' = Append(entries, [id |-> icon.id, w |-> img.w,
                                          h |-> img.h, off |-> offset])
           /\ pixel_blobs' = Append(pixel_blobs, Pixels(img))
           /\ offset' = offset + Len(Pixels(img))
    /\ UNCHANGED <<pc, cur, i, disk, out>>

\* Image.open raises: the run ends before icons.mod is opened.
LoadFails ==
    /\ pc = "load"
    /\ Len(entries) < N
    /\ disk[Icons[Len(entries) + 1].path] = NoFile
    /\ pc' = "failed"
    /\ UNCHANGED <<entries, pixel_blobs, offset, cur, i, disk, out>>

(***************************************************************************)
(* open("icons.mod", "wb") truncates the file; the header follows and the  *)
(* entry loop starts at the data offset.                                   *)
(***************************************************************************)
WriteHeader ==
    /\ pc = "load"
    /\ Len(entries) = N
    /\ out' = Header(Len(entries))
    /\ cur' = DataOffset(Len(entries))
    /\ i' = 1
    /\ pc' = "write"
    /\ UNCHANGED <<entries, pixel_blobs, offset, disk>>

\* One iteration of the entry loop.
WriteEntry ==
    /\ pc = "write"
    /\ i <= N
    /\ EntryFits(entries[i], cur)
    /\ out' = out \o EntryRecord(entries[i], cur)
    /\ cur' = cur + Len(pixel_blobs[i])
    /\ i' = i + 1
    /\ UNCHANGED <<pc, entries, pixel_blobs, offset, disk>>

(***************************************************************************)
(* struct.error in the entry loop: the with-block closes icons.mod with    *)
(* what was written so far.                                                *)
(***************************************************************************)
WriteEntryFails ==
    /\ pc = "write"
    /\ i <= N
    /\ ~EntryFits(entries[i], cur)
    /\ pc' = "failed"
    /\ UNCHANGED <<entries, pixel_blobs, offset, cur, i, disk, out>>

\* Fault: the pixel loop runs over the blobs in the opposite order of the table.
WriteBlobReversed ==
    /\ pc = "write"
    /\ i \in (N + 1) .. (2 * N)
    /\ out' = out \o pixel_blobs[2 * N + 1 - i]
    /\ i' = i + 1
    /\ UNCHANGED <<pc, entries, pixel_blobs, offset, cur, disk>>

\* One iteration of the pixel loop.
WriteBlob ==
    /\ pc = "write"
    /\ i \in (N + 1) .. (2 * N)
    /\ out' = out \o pixel_blobs[i - N]
    /\ i' = i + 1
    /\ UNCHANGED <<pc, entries, pixel_blobs, offset, cur, disk>>

\* The with-block ends, the file is closed, "icons.mod generated".
Finish ==
    /\ pc = "write"
    /\ i = 2 * N + 1
    /\ pc' = "done"
    /\ UNCHANGED <<entries, pixel_blobs, offset, cur, i, disk, out>>

(***************************************************************************)
(* The script is run again.  The image files may have changed in between;  *)
(* icons.mod is whatever the last run left.                                *)
(***************************************************************************)
Invoke ==
    /\ pc \in {"done", "failed"}
    /\ pc' = "load"
    /\ entries' = << >>
    /\ pixel_blobs' = << >>
    /\ offset' = 0
    /\ cur' = 0
    /\ i' = 1
    /\ disk' \in [Paths -> Images \cup {NoFile}]
    /\ UNCHANGED out

Run == LoadIcon \/ LoadFails \/ WriteHeader \/ WriteEntry \/ WriteEntryFails
          \/ WriteBlob \/ Finish

Next == Run \/ Invoke

Spec == Init /\ [][Next]_vars

-----------------------------------------------------------------------------
Fmt == INSTANCE BundleFormat WITH MAGIC <- ICONS_MAGIC, FORMAT_VERSION <- VERSION

\* What a run loads from the image files d, as the input of encode.
Loaded(d) ==
    [k \in DOMAIN Icons |->
        [id |-> Icons[k].id, w |-> d[Icons[k].path].w,
         h |-> d[Icons[k].path].h, px |-> Pixels(d[Icons[k].path])]]

\* Every bundle encode can produce from the icon list.
CompleteBundles ==
    {Fmt!Encode(Loaded(d)) : d \in {e \in [Paths -> Images] : Fmt!Encodable(Loaded(e))}}

TypeOK ==
    /\ pc \in {"load", "write", "done", "failed"}
    /\ entries \in Seq([id : Nat, w : Nat, h : Nat, off : Nat])
    /\ pixel_blobs \in Seq(Seq(Byte))
    /\ Len(pixel_blobs) = Len(entries) /\ Len(entries) <= N
    /\ offset \in Nat /\ cur \in Nat
    /\ i \in 1 .. (2 * N + 1)
    /\ disk \in [Paths -> Images \cup {NoFile}]
    /\ out = NoFile \/ out \in Seq(Byte)

(***************************************************************************)
(* A run that reports "icons.mod generated" has written exactly the bytes  *)
(* encode prescribes for the images it loaded: the header, the records     *)
(* with the offsets the format derives from the sizes, and the pixels, in  *)
(* list order.  This ties the script's two running sums and its literal    *)
(* 8 and 10 to the widths struct.pack really writes.                       *)
(***************************************************************************)
WriterImplementsEncode ==
    pc = "done" => out = Fmt!Encode(Loaded(disk))

(***************************************************************************)
(* The format description promises that an invalid image is rejected       *)
(* before any byte is emitted, so that no partial file is ever produced:   *)
(* whenever a run has ended, icons.mod, if it exists, is a complete        *)
(* bundle.  The script checks nothing before it opens the file; an image   *)
(* too large for a field is found by struct.pack in the entry loop.        *)
(***************************************************************************)
NoPartialFile ==
    (pc \in {"done", "failed"} /\ out # NoFile) => out \in CompleteBundles
=============================================================================
