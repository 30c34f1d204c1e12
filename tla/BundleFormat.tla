---------------------------- MODULE BundleFormat ----------------------------
(***************************************************************************)
(* The icon bundle as the format description states it (spec.md, sections  *)
(* 3, 4.1 and 6): a header, a table of fixed-width entries and the pixel   *)
(* buffers back to back.  This module is the reference the writer script   *)
(* is checked against and the layout the reader parses; nothing in it is   *)
(* taken from the script.                                                  *)
(***************************************************************************)
EXTENDS Naturals, Sequences, SequencesExt, StructPack

CONSTANTS MAGIC,            \* the constant that identifies the format
          FORMAT_VERSION    \* the one version the format defines

HEADER_SIZE       == 4 + 2 + 2        \* magic, version, count
ENTRY_RECORD_SIZE == 2 + 2 + 2 + 4    \* id, width, height, offset

\* The length of an icon's pixel buffer is never stored: it is W*H*4.
PixelLen(w, h) == w * h * 4

\* Where the pixel region starts in a bundle of n entries.
PixelRegionStart(n) == HEADER_SIZE + n * ENTRY_RECORD_SIZE

(***************************************************************************)
(* Invariant 2 of the data model: the offset of entry k is fixed by the    *)
(* sizes of the entries before it.  dims is a sequence of records with     *)
(* fields w and h.                                                         *)
(***************************************************************************)
ExpectedOffset(dims, k) ==
    PixelRegionStart(Len(dims)) +
        FoldLeft(LAMBDA acc, d : acc + PixelLen(d.w, d.h), 0, SubSeq(dims, 1, k - 1))

\* encode rejects an image whose dimensions or buffer length are wrong.
ValidImage(icon) ==
    /\ icon.w \in 1 .. (ByteBase ^ 2 - 1)
    /\ icon.h \in 1 .. (ByteBase ^ 2 - 1)
    /\ Len(icon.px) = PixelLen(icon.w, icon.h)

UniqueIds(icons) ==
    \A j, k \in DOMAIN icons : icons[j].id = icons[k].id => j = k

\* The inputs encode accepts: every offset must also fit its 4-byte field.
Encodable(icons) ==
    /\ \A k \in DOMAIN icons : ValidImage(icons[k]) /\ Fits(ExpectedOffset(icons, k), 4)
    /\ UniqueIds(icons)
    /\ Fits(Len(icons), 2)

(***************************************************************************)
(* encode, steps 4 to 6: header, the entry records in input order, the     *)
(* pixel buffers in input order.  icons is a sequence of records           *)
(* [id, w, h, px].                                                         *)
(***************************************************************************)
Encode(icons) ==
    LET header    == PackLE(MAGIC, 4) \o PackLE(FORMAT_VERSION, 2) \o PackLE(Len(icons), 2)
        record(k) == PackLE(icons[k].id, 2) \o PackLE(icons[k].w, 2) \o
                     PackLE(icons[k].h, 2) \o PackLE(ExpectedOffset(icons, k), 4)
    IN  header \o FlattenSeq([k \in DOMAIN icons |-> record(k)])
               \o FlattenSeq([k \in DOMAIN icons |-> icons[k].px])
=============================================================================
