---------------------------- MODULE BundleReader ----------------------------
(***************************************************************************)
(* The reader of the icon bundle, as the format description states it      *)
(* (spec.md, section 4.2): open validates a byte buffer, failing fast on   *)
(* the first check that does not hold, and returns an immutable handle;    *)
(* lookup returns a view into the pixel region for an icon id.  The reader *)
(* is not part of the Python sources; this module is written from the      *)
(* description and every definition of it is marked so in the map.         *)
(***************************************************************************)
EXTENDS Naturals, Sequences, SequencesExt, BundleFormat

CONSTANT NoHandle          \* no bundle is open

VARIABLES handle,          \* NoHandle, or [buf, entries, index] of the open bundle
          status,          \* outcome of the last open: "Open" or the error kind
          result           \* outcome of the last lookup

readerVars == <<handle, status, result>>

IconNotFound == [found |-> FALSE]
NoResult     == << >>          \* no lookup since the last open

\* The N the header announces, and the k-th record of the table.
Count(buf) == Field(buf, 6, 2)

EntryAt(buf, k) ==
    LET at == HEADER_SIZE + (k - 1) * ENTRY_RECORD_SIZE
    IN  [id  |-> Field(buf, at, 2),     w   |-> Field(buf, at + 2, 2),
         h   |-> Field(buf, at + 4, 2), off |-> Field(buf, at + 6, 4)]

Table(buf) == [k \in 1 .. Count(buf) |-> EntryAt(buf, k)]

\* Check 1: the header is there, the magic matches, the version is known.
HeaderPresent(buf) == Len(buf) >= HEADER_SIZE
MagicMatches(buf)  == Field(buf, 0, 4) = MAGIC
VersionKnown(buf)  == Field(buf, 4, 2) = FORMAT_VERSION

\* Check 2: the entry table is fully present.
TablePresent(buf) == Len(buf) >= PixelRegionStart(Count(buf))

\* Check 4: no entry's pixel buffer runs past the end of the buffer.
InBounds(buf) ==
    \A k \in 1 .. Count(buf) :
        LET e == EntryAt(buf, k) IN e.off + PixelLen(e.w, e.h) <= Len(buf)

\* Check 5: every stored offset is the one the sizes before it derive.
Contiguous(buf) ==
    \A k \in 1 .. Count(buf) : EntryAt(buf, k).off = ExpectedOffset(Table(buf), k)

(***************************************************************************)
(* The validation of open: "Open", or the kind of the first check that     *)
(* fails.  Each check is evaluated only when the ones before it hold, so   *)
(* that no field is read from bytes that are not there.                    *)
(***************************************************************************)
Validate(buf) ==
    IF ~HeaderPresent(buf) \/ ~MagicMatches(buf) THEN "CorruptBundle"
    ELSE IF ~VersionKnown(buf)       THEN "UnsupportedVersion"
    ELSE IF ~TablePresent(buf)       THEN "CorruptBundle"
    ELSE IF ~UniqueIds(Table(buf))   THEN "DuplicateId"
    ELSE IF ~InBounds(buf)           THEN "TruncatedData"
    ELSE IF ~Contiguous(buf)         THEN "InconsistentLayout"
    ELSE "Open"

\* The id -> entry index mapping built once at open time.
IndexOf(entries) ==
    [id \in {entries[k].id : k \in DOMAIN entries} |->
        CHOOSE k \in DOMAIN entries : entries[k].id = id]

\* lookup: the dimensions and the pixel slice of the icon, or IconNotFound.
Lookup(h, id) ==
    IF id \notin DOMAIN h.index THEN IconNotFound
    ELSE LET e == h.entries[h.index[id]]
         IN  [found |-> TRUE, w |-> e.w, h |-> e.h,
              px |-> SubSeq(h.buf, e.off + 1, e.off + PixelLen(e.w, e.h))]

ReaderInit ==
    /\ handle = NoHandle
    /\ status = "None"
    /\ result = NoResult

\* Fault: a failed open leaves the handle of the bundle opened before.
OpenBundleKeepsHandle(bytes) ==
    /\ status' = Validate(bytes)
    /\ handle' = IF Validate(bytes) = "Open"
                 THEN [buf |-> bytes, entries |-> Table(bytes),
                       index |-> IndexOf(Table(bytes))]
                 ELSE handle
    /\ result' = NoResult

(***************************************************************************)
(* open(bytes): on success the handle replaces the one held before; on     *)
(* failure no handle exists.                                               *)
(***************************************************************************)
OpenBundle(bytes) ==
    /\ status' = Validate(bytes)
    /\ handle' = IF Validate(bytes) = "Open"
                 THEN [buf |-> bytes, entries |-> Table(bytes),
                       index |-> IndexOf(Table(bytes))]
                 ELSE NoHandle
    /\ result' = NoResult

\* lookup(handle, id): needs a handle, changes nothing but the answer.
LookupIcon(id) ==
    /\ handle # NoHandle
    /\ result' = <<id, Lookup(handle, id)>>
    /\ UNCHANGED <<handle, status>>

ErrorKinds == {"CorruptBundle", "UnsupportedVersion", "DuplicateId",
               "TruncatedData", "InconsistentLayout"}

ReaderTypeOK ==
    /\ status \in {"None", "Open"} \cup ErrorKinds
    /\ (handle # NoHandle) <=> (status = "Open")
    /\ handle # NoHandle =>
          /\ handle.buf \in Seq(Byte)
          /\ handle.entries \in Seq([id : Nat, w : Nat, h : Nat, off : Nat])
    /\ result = NoResult \/ (Len(result) = 2 /\ result[2].found \in BOOLEAN)
=============================================================================
