---------------------------- MODULE IconPipeline ----------------------------
(***************************************************************************)
(* The writer script and the reader around the one file they share.        *)
(*                                                                         *)
(* mkicons.py rewrites icons.mod in place; the reader opens whatever bytes *)
(* the file holds at that moment: a bundle of an earlier run, the file of  *)
(* a run that is still writing, or what a failed or interrupted run left.  *)
(* The handle keeps the buffer it was opened on, so a later rewrite does   *)
(* not change it.                                                          *)
(***************************************************************************)
EXTENDS Naturals, Sequences, SequencesExt, StructPack

CONSTANTS Icons, Images, ICONS_MAGIC, VERSION, NoFile,
          NoHandle,
          LookupIds        \* the ids callers ask for

VARIABLES pc, entries, pixel_blobs, offset, cur, i, disk, out,
          handle, status, result

W == INSTANCE MkIcons
R == INSTANCE BundleReader WITH MAGIC <- ICONS_MAGIC, FORMAT_VERSION <- VERSION

writerVars == <<pc, entries, pixel_blobs, offset, cur, i, disk, out>>
readerVars == <<handle, status, result>>
vars == <<writerVars, readerVars>>

Init == W!Init /\ R!ReaderInit

\* A step of the script.
WriterStep == W!Next /\ UNCHANGED readerVars

(***************************************************************************)
(* The run is killed, or a write fails, while icons.mod is open.  The      *)
(* script writes the file in place and through a buffer, so what stays on  *)
(* disk is some prefix of what it has written.                             *)
(***************************************************************************)
WriterInterrupted ==
    /\ pc = "write"
    /\ out' \in Prefixes(out)
    /\ pc' = "failed"
    /\ UNCHANGED <<entries, pixel_blobs, offset, cur, i, disk, readerVars>>

\* The runtime maps the file as it is now and opens it.
ReaderOpens ==
    /\ out # NoFile
    /\ R!OpenBundle(out)
    /\ UNCHANGED writerVars

ReaderLooksUp ==
    /\ \E id \in LookupIds : R!LookupIcon(id)
    /\ UNCHANGED writerVars

Next == WriterStep \/ WriterInterrupted \/ ReaderOpens \/ ReaderLooksUp

Spec == Init /\ [][Next]_vars

-----------------------------------------------------------------------------
TypeOK == W!TypeOK /\ R!ReaderTypeOK

\* The image files a complete bundle can have been written from.
Sources == {d \in [W!Paths -> Images] : W!Fmt!Encodable(W!Loaded(d))}

(***************************************************************************)
(* The reader never accepts what a run of the script left unfinished.      *)
(* Whatever moment the file is opened at (while the script is writing,     *)
(* after struct.error closed it with half a table, after the run was       *)
(* killed) a handle exists only on a complete bundle: the bytes encode     *)
(* prescribes for some set of image files.  The script protects the file   *)
(* in no way (it truncates and rewrites in place); the property rests on   *)
(* the count in the header and on checks 2, 4 and 5 of open.               *)
(***************************************************************************)
AcceptedIsComplete ==
    handle # NoHandle =>
        \E d \in Sources : handle.buf = W!Fmt!Encode(W!Loaded(d))

(***************************************************************************)
(* Round trip: a lookup on a bundle the script wrote answers, for every id *)
(* of the icon list, with the width, height and pixels of the image file   *)
(* that entry was loaded from, and with IconNotFound for any other id.     *)
(***************************************************************************)
LookupReturnsSource ==
    (handle # NoHandle /\ result # R!NoResult) =>
        \E d \in Sources :
            /\ handle.buf = W!Fmt!Encode(W!Loaded(d))
            /\ LET asked == {k \in DOMAIN Icons : Icons[k].id = result[1]}
               IN  IF asked = {} THEN result[2] = R!IconNotFound
                   ELSE \E k \in asked :
                          result[2] = [found |-> TRUE, w |-> W!Loaded(d)[k].w,
                                       h |-> W!Loaded(d)[k].h, px |-> W!Loaded(d)[k].px]
=============================================================================
