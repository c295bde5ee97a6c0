--------------------------- MODULE DocumentParsing ---------------------------
(***************************************************************************)
(* From a stored file to the text a model is given, and to its thumbnail.  *)
(* A file is a sequence of units (lines, rows, paragraphs, slides or       *)
(* pages); parse_file turns it into numbered blocks that name where they   *)
(* come from, and the context builder turns blocks, a user's edits and a   *)
(* section filter into text.  Renderer and parser share the PDFium lock.   *)
(*                                                                         *)
(* tools/documents/parsing.py, context.py, thumbnail.py, routes.py,        *)
(* buckets/routes.py                                                       *)
(***************************************************************************)
EXTENDS Integers, Sequences, SequencesExt, FiniteSets, Store

CONSTANTS
    MaxUnits,      \* units of a file
    FileLimit,     \* MAX_FILE_BYTES, in units
    PdfPageLimit,     \* pages of a PDF
    BlockLimit,    \* blocks of a result
    RowsPerTable   \* rows of a CSV block (100)

ASSUME ParsingAssumption ==
    /\ {MaxUnits, FileLimit, PdfPageLimit, BlockLimit} \subseteq Nat
    /\ RowsPerTable \in Nat \ {0}

FileKinds == {"txt", "md", "csv", "pdf", "docx", "xlsx", "pptx", "png"}
Formats == FileKinds \ {"png"}

\* What a unit holds: text, nothing, a Markdown heading, a formula without a cached value.
Units == {"text", "blank", "heading", "uncached"}

\* What the container of an Office file may have: a bomb, a password, broken parts, entities.
Containers == {"sound", "expanded", "encrypted", "corrupt", "entities"}
Encodings == {"utf-8", "gb18030", "unknown"}

VARIABLES
    file,       \* the file under parse: [ext, units, container, encoding]
    outcome,    \* None or [ok, blocks]
    edits,      \* block index -> whether the user replaced its text
    section,    \* the heading asked for (a unit index), or None
    shownText     \* None or what build_document_context returned: a sequence of unit indices

parseVars == <<file, outcome, edits, section, shownText>>

Failure == [ok |-> FALSE, blocks |-> <<>>]
\* A block: its type, the units whose text it holds, and the places its source names.
Block(type, units, first, last) ==
    [type |-> type, units |-> units, first |-> first, last |-> last, id |-> 0]

\* A reader that raises instead of returning blocks.
Raised == <<Block("ValueError", <<>>, 0, 0)>>

Paragraph(i) == Block("paragraph", <<i>>, i, i)

\* The numbers of a set, ascending.
InOrder(S) == [k \in 1..Cardinality(S) |-> CHOOSE n \in S : Cardinality({m \in S : m <= n}) = k]
Filled(units) == InOrder({i \in 1..Len(units) : units[i] # "blank"})

(***************************************************************************)
(* One reader per format.                                                  *)
(***************************************************************************)

\* UTF-8 with a signature, then GB18030.
Decode(f) == f.encoding \in {"utf-8", "gb18030"}

\* A part with a DOCTYPE or ENTITY declaration is refused.
Xml(f) == f.container # "entities"

TextBlocks(f, markdown) ==
    [k \in 1..Len(Filled(f.units)) |->
        LET i == Filled(f.units)[k]
        IN  IF markdown /\ f.units[i] = "heading" THEN Block("heading", <<i>>, i, i)
            ELSE Paragraph(i)]

(* Faulty variant of CsvBlocks: a table repeats the row before it.          *)
CsvBlocksOverlap(f) ==
    LET rows == Filled(f.units)
        tables == (Len(rows) - 1 + RowsPerTable - 1) \div RowsPerTable
    IN  IF rows = <<>> THEN <<>>
        ELSE IF Len(rows) = 1 THEN <<Block("paragraph", rows, 1, 1)>>
        ELSE [t \in 1..tables |->
                 LET start == 1 + (t - 1) * RowsPerTable
                     end == IF start + RowsPerTable < Len(rows) THEN start + RowsPerTable
                            ELSE Len(rows)
                 IN  Block("table", SubSeq(rows, start, end), start + 1, end)]

\* The first filled row is every table's header; the places are counted over filled rows.
CsvBlocks(f) ==
    LET rows == Filled(f.units)
        tables == (Len(rows) - 1 + RowsPerTable - 1) \div RowsPerTable
    IN  IF rows = <<>> THEN <<>>
        ELSE IF Len(rows) = 1 THEN <<Block("paragraph", rows, 1, 1)>>
        ELSE [t \in 1..tables |->
                 LET start == 1 + (t - 1) * RowsPerTable
                     end == IF start + RowsPerTable < Len(rows) THEN start + RowsPerTable
                            ELSE Len(rows)
                 IN  Block("table", SubSeq(rows, start + 1, end), start + 1, end)]

\* The archive is checked before any part of it is read.
OfficeReadable(f) == f.container \notin {"expanded", "encrypted"}

DocxBlocks(f) == TextBlocks(f, FALSE)

\* Blank slides are dropped later, by the filter every format goes through.
PptxBlocks(f) == [i \in 1..Len(f.units) |-> Paragraph(i)]

XlsxBlocks(f) ==
    IF \E i \in 1..Len(f.units) : f.units[i] = "uncached" THEN Raised
    ELSE [k \in 1..Len(Filled(f.units)) |-> Paragraph(Filled(f.units)[k])]

OfficeBlocks(f) ==
    IF ~OfficeReadable(f) \/ ~Xml(f) \/ f.container = "corrupt" THEN Raised
    ELSE CASE f.ext = "docx" -> DocxBlocks(f)
           [] f.ext = "pptx" -> PptxBlocks(f)
           [] OTHER -> XlsxBlocks(f)

\* Pages without text are reported in a notice put before the first block.
PdfBlocks(f) ==
    LET pages == Filled(f.units)
        blocks == [k \in 1..Len(pages) |-> Paragraph(pages[k])]
    IN  IF f.container # "sound" \/ Len(f.units) > PdfPageLimit \/ pages = <<>> THEN Raised
        ELSE IF Len(pages) < Len(f.units) THEN <<Block("notice", <<>>, 0, 0)>> \o blocks
        ELSE blocks

(***************************************************************************)
(* parse_file: every exception becomes a ValueError, empty blocks go, and  *)
(* the rest are numbered.                                                  *)
(***************************************************************************)

Read(f) ==
    IF f.ext = "csv" THEN IF Decode(f) THEN CsvBlocks(f) ELSE Raised
    ELSE IF f.ext \in {"txt", "md"} THEN IF Decode(f) THEN TextBlocks(f, f.ext = "md") ELSE Raised
    ELSE IF f.ext = "pdf" THEN PdfBlocks(f)
    ELSE OfficeBlocks(f)

HasText(f, b) == b.type \in {"notice", "table"} \/ \E k \in 1..Len(b.units) : f.units[b.units[k]] # "blank"

WithText(f, raw) ==
    LET kept == InOrder({k \in 1..Len(raw) : HasText(f, raw[k])})
    IN  [k \in 1..Len(kept) |-> raw[kept[k]]]

Numbered(blocks) == [k \in 1..Len(blocks) |-> [blocks[k] EXCEPT !.id = k]]

ParseFile(f) ==
    IF f.ext \notin Formats \/ f.units = <<>> \/ Len(f.units) > FileLimit \/ Read(f) = Raised
    THEN Failure
    ELSE LET blocks == WithText(f, Read(f))
         IN  IF blocks = <<>> \/ Len(blocks) > BlockLimit THEN Failure
             ELSE [ok |-> TRUE, blocks |-> Numbered(blocks)]

(***************************************************************************)
(* The context given to a model.                                           *)
(***************************************************************************)

\* Edits are stored by block position and replace a block's text; an edit without
\* text changes nothing, and a table, whose markdown is its cells, shows none.
ApplyEdits(blocks, edited) ==
    [k \in 1..Len(blocks) |->
        IF edited[k] /\ blocks[k].type # "table" THEN [blocks[k] EXCEPT !.units = <<-k>>] ELSE blocks[k]]

(* Faulty variant of FilterBySection: the document's last block is cut off. *)
FilterBySectionLast(blocks, wanted) ==
    LET starts == {k \in 1..Len(blocks) : blocks[k].type = "heading" /\ blocks[k].units = <<wanted>>}
        start == CHOOSE k \in starts : \A l \in starts : k <= l
        ends == {k \in (start + 1)..Len(blocks) : blocks[k].type = "heading"}
        end == IF ends = {} THEN Len(blocks) - 1 ELSE (CHOOSE k \in ends : \A l \in ends : k <= l) - 1
    IN  IF starts # {} THEN SubSeq(blocks, start, end)
        ELSE SelectSeq(blocks, LAMBDA b : b.type # "table" /\ b.units = <<wanted>>)

\* From the first matching heading up to the next one; else every matching block.
FilterBySection(blocks, wanted) ==
    LET starts == {k \in 1..Len(blocks) : blocks[k].type = "heading" /\ blocks[k].units = <<wanted>>}
        start == CHOOSE k \in starts : \A l \in starts : k <= l
        ends == {k \in (start + 1)..Len(blocks) : blocks[k].type = "heading"}
        end == IF ends = {} THEN Len(blocks) ELSE (CHOOSE k \in ends : \A l \in ends : k <= l) - 1
    IN  IF starts # {} THEN SubSeq(blocks, start, end)
        ELSE SelectSeq(blocks, LAMBDA b : b.type # "table" /\ b.units = <<wanted>>)

\* A paragraph or heading gives its text, a table its rows (its header, the same for
\* every table of a file, is left out).
BlocksToMarkdown(blocks) == FlattenSeq([k \in 1..Len(blocks) |-> blocks[k].units])

BuildDocumentContext(blocks, edited, wanted) ==
    LET shown == ApplyEdits(blocks, edited)
    IN  BlocksToMarkdown(IF wanted = None THEN shown ELSE FilterBySection(shown, wanted))

(***************************************************************************)
(* One file at a time.                                                     *)
(***************************************************************************)

SourceFiles ==
    [ext : FileKinds, units : UNION {[1..n -> Units] : n \in 0..MaxUnits},
     container : Containers, encoding : Encodings]

\* Only what the format can hold: headings in Markdown, formulas in sheets, containers in
\* binary formats, encodings in text formats.
Wellformed(f) ==
    /\ \A i \in 1..Len(f.units) : /\ f.units[i] = "heading" => f.ext = "md"
                                  /\ f.units[i] = "uncached" => f.ext = "xlsx"
    /\ f.ext \in {"txt", "md", "csv", "png"} => f.container = "sound"
    /\ f.ext \notin {"txt", "md", "csv"} => f.encoding = "utf-8"

ParsingInit ==
    /\ file \in {f \in SourceFiles : Wellformed(f)}
    /\ outcome = None /\ edits = <<>> /\ section = None /\ shownText = None

Parse ==
    /\ outcome = None /\ outcome' = ParseFile(file)
    /\ UNCHANGED <<file, edits, section, shownText>>

\* The document is read by a turn, edited by then and perhaps for one section only.
ReadDocument ==
    /\ outcome # None /\ outcome.ok /\ shownText = None
    /\ edits' \in [1..Len(outcome.blocks) -> BOOLEAN]
    /\ section' \in {None} \cup 1..Len(file.units)
    /\ shownText' = BuildDocumentContext(outcome.blocks, edits', section')
    /\ UNCHANGED <<file, outcome>>

ParsingNext == Parse \/ ReadDocument

ParsingSpec == ParsingInit /\ [][ParsingNext]_parseVars

-----------------------------------------------------------------------------
\* The units whose text must reach the model: a CSV's first row is the header of its tables.
Expected(f) ==
    IF f.ext = "csv" /\ Len(Filled(f.units)) > 1 THEN Tail(Filled(f.units)) ELSE Filled(f.units)

\* A file reported as parsed is parsed whole: its blocks hold every unit with text once and
\* in the file's order, each numbered by its position and naming the place it came from,
\* and a PDF that lost pages says so.  Nothing is reported as parsed without text.
ParsedWhole ==
    outcome # None /\ outcome.ok =>
        LET blocks == outcome.blocks
        IN  /\ BlocksToMarkdown(blocks) = Expected(file) /\ blocks # <<>>
            /\ \A k \in 1..Len(blocks) : blocks[k].id = k
            /\ file.ext # "csv" =>
                   \A k \in 1..Len(blocks) :
                       blocks[k].type # "notice" => blocks[k].units = <<blocks[k].first>>
            /\ (blocks[1].type = "notice") <=>
                   (file.ext = "pdf" /\ \E i \in 1..Len(file.units) : file.units[i] = "blank")

\* A Markdown section is read to its end and no further: asked for by its heading, the
\* context is every line with text from that heading up to the next one.
SectionWhole ==
    shownText # None /\ section # None /\ file.ext = "md" /\ file.units[section] = "heading"
        /\ (\A k \in DOMAIN edits : ~edits[k]) =>
        shownText = InOrder({i \in section..Len(file.units) :
                                /\ file.units[i] # "blank"
                                /\ \A j \in (section + 1)..i : file.units[j] # "heading"})

-----------------------------------------------------------------------------
(***************************************************************************)
(* Previews and thumbnails of documents and of bucket objects.  A library  *)
(* page fires one thumbnail request per document, each on a thread of its  *)
(* own: they share a bounded cache that has no lock, a semaphore that caps *)
(* renders, and the one lock under which PDFium may be entered, which the  *)
(* document parser takes too.                                              *)
(***************************************************************************)

CONSTANTS
    ThumbDocs,      \* documents of the user
    ThumbObjects,   \* objects of a readable bucket
    Pdfs, Images,   \* the files of each thumbnailable format; the others are neither
    Damaged,        \* the files no renderer can open
    Huge,           \* the objects above _PREVIEW_MAX_BYTES
    Views,          \* requests, each on a thread of its own
    Parsers,        \* parses of a PDF under way on other threads
    MaxRenders,     \* permits of _RENDER_SEM
    CacheMax        \* _CACHE_MAX

ASSUME ThumbAssumption ==
    /\ {MaxRenders, CacheMax} \subseteq Nat \ {0}
    /\ Views \cap Parsers = {} /\ None \notin Views \cup Parsers

VARIABLES
    rows,           \* documents that still have a row
    present,        \* documents whose bytes are in storage
    touched,        \* documents whose updatedAt has changed
    pngCache,       \* _CACHE: [key, png] entries, least recently used first
    views,          \* view -> [at, kind, file, key, png]
    pdfLock,        \* _PDFIUM_LOCK: the thread that holds it, or None
    parses          \* parser -> "idle", "native" or "done"

thumbVars == <<rows, present, touched, pngCache, views, pdfLock, parses>>

NoView == [at |-> "idle", kind |-> "", file |-> None, key |-> None, png |-> None]
Ended == {"served", "refused", "failed", "broken", "crashed"}

IsThumbnailable(f) == f \in Pdfs \cup Images

\* A document's key carries its updatedAt and is new once that changes; an
\* object's key is only its name.
CacheKeyOf(f) == IF f \in ThumbDocs THEN <<f, f \in touched>> ELSE <<f, FALSE>>

ThumbInit ==
    /\ rows = ThumbDocs /\ present = ThumbDocs /\ touched = {}
    /\ pngCache = <<>>
    /\ views = [v \in Views |-> NoView]
    /\ pdfLock = None
    /\ parses = [p \in Parsers |-> "idle"]

\* A request that has ended keeps only how it ended.
Moves(v, at) ==
    views' = [views EXCEPT ![v] = IF at \in Ended THEN [NoView EXCEPT !.at = at]
                                  ELSE [@ EXCEPT !.at = at]]
Opens(v, kind, f, at) ==
    views' = [views EXCEPT ![v] = IF at \in Ended THEN [NoView EXCEPT !.at = at]
                                  ELSE [at |-> at, kind |-> kind, file |-> f,
                                        key |-> CacheKeyOf(f), png |-> None]]

(***************************************************************************)
(* The routes.                                                             *)
(***************************************************************************)

\* A document of another user, or deleted, is 404 and another format 415.
ThumbnailDocument(v, f) ==
    /\ views[v].at = "idle"
    /\ Opens(v, "document", f, IF f \in rows /\ IsThumbnailable(f) THEN "looking" ELSE "refused")
    /\ UNCHANGED <<rows, present, touched, pngCache, pdfLock, parses>>

\* The bytes of a document are read only after the cache has missed.
FetchDocumentBytes(v) ==
    /\ views[v].at = "missed" /\ views[v].kind = "document"
    /\ \/ Moves(v, IF views[v].file \in present THEN "queued" ELSE "refused")
       \/ Moves(v, "failed")
    /\ UNCHANGED <<rows, present, touched, pngCache, pdfLock, parses>>

\* A preview or a download looks whether the object exists, and streams it afterwards.
StreamDocument(v, f) ==
    /\ views[v].at = "idle"
    /\ \/ Opens(v, "stream", f, IF f \in rows /\ f \in present THEN "streaming" ELSE "refused")
       \/ f \in rows /\ Opens(v, "stream", f, "failed")
    /\ UNCHANGED <<rows, present, touched, pngCache, pdfLock, parses>>

\* The body is read when it is sent: an object deleted since breaks the response.
StreamBytes(v) ==
    /\ views[v].at = "streaming"
    /\ Moves(v, IF views[v].file \in present THEN "served" ELSE "broken")
    /\ UNCHANGED <<rows, present, touched, pngCache, pdfLock, parses>>

\* An object's format and the caller's access are checked before the cache is read.
ThumbnailBucketObject(v, f, allowed) ==
    /\ views[v].at = "idle"
    /\ Opens(v, "object", f, IF IsThumbnailable(f) /\ allowed THEN "looking" ELSE "refused")
    /\ UNCHANGED <<rows, present, touched, pngCache, pdfLock, parses>>

PreviewBucketObject(v, f, allowed) ==
    /\ views[v].at = "idle"
    /\ Opens(v, "preview", f, IF allowed THEN "missed" ELSE "refused")
    /\ UNCHANGED <<rows, present, touched, pngCache, pdfLock, parses>>

\* The object's size is read before its bytes, and too large an object is
\* refused (413); a missing object and a failing store end the request too.
ReloadBlob(v) ==
    /\ views[v].at = "missed" /\ views[v].kind = "object"
    /\ \/ Moves(v, IF views[v].file \in Huge THEN "refused" ELSE "download")
       \/ Moves(v, "failed")
    /\ UNCHANGED <<rows, present, touched, pngCache, pdfLock, parses>>

DownloadBlob(v) ==
    /\ views[v].at = "download" /\ views[v].kind = "object"
    /\ Moves(v, "queued") \/ Moves(v, "failed")
    /\ UNCHANGED <<rows, present, touched, pngCache, pdfLock, parses>>

PreviewReloads(v) ==
    /\ views[v].at = "missed" /\ views[v].kind = "preview"
    /\ \/ Moves(v, IF views[v].file \in Huge THEN "refused" ELSE "download")
       \/ Moves(v, "failed")
    /\ UNCHANGED <<rows, present, touched, pngCache, pdfLock, parses>>

\* The whole object is in memory before the first byte is sent.
PreviewSends(v) ==
    /\ views[v].at = "download" /\ views[v].kind = "preview"
    /\ Moves(v, "served") \/ Moves(v, "failed")
    /\ UNCHANGED <<rows, present, touched, pngCache, pdfLock, parses>>

(***************************************************************************)
(* The renderer.                                                           *)
(***************************************************************************)

\* The threads that hold a permit of _RENDER_SEM, and those inside PDFium.
Rendering == {v \in Views : views[v].at \in {"awaiting", "native", "encoding", "drawing"}}
InPdfium == {v \in Views : views[v].at = "native"} \cup {p \in Parsers : parses[p] = "native"}

\* with _RENDER_SEM: a PDF goes on to the lock, an image is drawn at once.
RenderThumbnail(v) ==
    /\ views[v].at = "queued"
    /\ Cardinality(Rendering) < MaxRenders
    /\ Moves(v, IF views[v].file \in Pdfs THEN "awaiting" ELSE "drawing")
    /\ UNCHANGED <<rows, present, touched, pngCache, pdfLock, parses>>

(* Faulty variant of OpenPdf: the semaphore alone is trusted.               *)
OpenPdfUnlocked(v) ==
    /\ views[v].at = "awaiting"
    /\ pdfLock' = v
    /\ Moves(v, "native")
    /\ UNCHANGED <<rows, present, touched, pngCache, parses>>

\* with _PDFIUM_LOCK: the document is opened, rendered and closed inside.
OpenPdf(v) ==
    /\ views[v].at = "awaiting"
    /\ pdfLock = None /\ pdfLock' = v
    /\ Moves(v, "native")
    /\ UNCHANGED <<rows, present, touched, pngCache, parses>>

(* Faulty variant of ClosePdf: a damaged file leaves with the lock held.    *)
ClosePdfLeaks(v) ==
    /\ views[v].at = "native"
    /\ IF views[v].file \in Damaged
       THEN Moves(v, "refused") /\ pdfLock' = pdfLock
       ELSE Moves(v, "encoding") /\ pdfLock' = None
    /\ UNCHANGED <<rows, present, touched, pngCache, parses>>

\* A file that cannot be opened, or has no page, is a ValueError (422); both
\* ways out release the lock, and the ValueError the permit too.
ClosePdf(v) ==
    /\ views[v].at = "native"
    /\ Moves(v, IF views[v].file \in Damaged THEN "refused" ELSE "encoding")
    /\ pdfLock' = None
    /\ UNCHANGED <<rows, present, touched, pngCache, parses>>

\* The PNG is encoded outside the lock, still under the permit.
EncodePng(v) ==
    /\ views[v].at = "encoding"
    /\ views' = [views EXCEPT ![v].at = "rendered", ![v].png = views[v].file]
    /\ UNCHANGED <<rows, present, touched, pngCache, pdfLock, parses>>

\* Images need Pillow only and never the lock.
RenderImageThumbnail(v) ==
    /\ views[v].at = "drawing"
    /\ IF views[v].file \in Damaged
       THEN Moves(v, "refused")
       ELSE views' = [views EXCEPT ![v].at = "rendered", ![v].png = views[v].file]
    /\ UNCHANGED <<rows, present, touched, pngCache, pdfLock, parses>>

(***************************************************************************)
(* The cache.                                                              *)
(***************************************************************************)

Entries(key) == {i \in DOMAIN pngCache : pngCache[i].key = key}
WithoutEntry(key) == SelectSeq(pngCache, LAMBDA e : e.key # key)

\* cache_get reads the entry ...
CacheReads(v) ==
    /\ views[v].at = "looking"
    /\ IF Entries(views[v].key) = {}
       THEN Moves(v, "missed")
       ELSE views' = [views EXCEPT
                ![v].at = "found",
                ![v].png = pngCache[CHOOSE i \in Entries(views[v].key) : TRUE].png]
    /\ UNCHANGED <<rows, present, touched, pngCache, pdfLock, parses>>

\* ... and then moves it to the end: KeyError when another thread has evicted it.
CacheTouches(v) ==
    /\ views[v].at = "found"
    /\ IF Entries(views[v].key) = {}
       THEN Moves(v, "crashed") /\ pngCache' = pngCache
       ELSE /\ Moves(v, "served")
            /\ pngCache' = Append(WithoutEntry(views[v].key),
                                  [key |-> views[v].key, png |-> views[v].png])
    /\ UNCHANGED <<rows, present, touched, pdfLock, parses>>

\* cache_put inserts at the end and evicts the oldest.  The insertion and the
\* eviction are one step: what falls between them only matters to an entry
\* CacheMax insertions old.
CachePut(v) ==
    /\ views[v].at = "rendered"
    /\ LET grown == Append(WithoutEntry(views[v].key), [key |-> views[v].key, png |-> views[v].png])
       IN pngCache' = IF Len(grown) > CacheMax THEN Tail(grown) ELSE grown
    /\ Moves(v, "served")
    /\ UNCHANGED <<rows, present, touched, pdfLock, parses>>

(***************************************************************************)
(* What happens meanwhile.                                                 *)
(***************************************************************************)

\* A document is edited or parsed again, and its updatedAt changes.
DocumentTouched(f) ==
    /\ f \in rows \ touched
    /\ touched' = touched \cup {f}
    /\ UNCHANGED <<rows, present, pngCache, views, pdfLock, parses>>

\* A document is deleted: its binary first, then its row.
BinaryRemoved(f) ==
    /\ f \in rows \cap present
    /\ present' = present \ {f}
    /\ UNCHANGED <<rows, touched, pngCache, views, pdfLock, parses>>

RowRemoved(f) ==
    /\ f \in rows \ present
    /\ rows' = rows \ {f}
    /\ UNCHANGED <<present, touched, pngCache, views, pdfLock, parses>>

\* The parser reads a PDF's text under the same lock.
ParseEnters(p) ==
    /\ parses[p] = "idle" /\ pdfLock = None
    /\ pdfLock' = p
    /\ parses' = [parses EXCEPT ![p] = "native"]
    /\ UNCHANGED <<rows, present, touched, pngCache, views>>

ParseLeaves(p) ==
    /\ parses[p] = "native"
    /\ pdfLock' = None
    /\ parses' = [parses EXCEPT ![p] = "done"]
    /\ UNCHANGED <<rows, present, touched, pngCache, views>>

\* What a request's thread does once it has started.
ViewStep(v) ==
    \/ FetchDocumentBytes(v) \/ StreamBytes(v) \/ ReloadBlob(v) \/ DownloadBlob(v)
    \/ PreviewReloads(v) \/ PreviewSends(v)
    \/ RenderThumbnail(v) \/ OpenPdf(v) \/ ClosePdf(v) \/ EncodePng(v) \/ RenderImageThumbnail(v)
    \/ CacheReads(v) \/ CacheTouches(v) \/ CachePut(v)

ThumbNext ==
    \/ \E v \in Views : ViewStep(v)
    \/ \E v \in Views, f \in ThumbDocs : ThumbnailDocument(v, f) \/ StreamDocument(v, f)
    \/ \E v \in Views, f \in ThumbObjects, allowed \in BOOLEAN :
          ThumbnailBucketObject(v, f, allowed) \/ PreviewBucketObject(v, f, allowed)
    \/ \E f \in ThumbDocs : DocumentTouched(f) \/ BinaryRemoved(f) \/ RowRemoved(f)
    \/ \E p \in Parsers : ParseEnters(p) \/ ParseLeaves(p)

ThumbSpec == ThumbInit /\ [][ThumbNext]_thumbVars

(***************************************************************************)
(* Properties.                                                             *)
(***************************************************************************)

\* "ALL pdfium work goes under this hard mutex": however many thumbnails and
\* parses overlap, a thread is inside PDFium exactly as long as it holds the
\* lock, so none is ever left locked behind a damaged or deleted file, and the
\* renders in memory at one time stay within the semaphore.
PdfiumAlone ==
    /\ InPdfium = {pdfLock} \ {None}
    /\ Cardinality(Rendering) <= MaxRenders
===============================================================================
