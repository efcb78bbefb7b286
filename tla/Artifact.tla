------------------------------ MODULE Artifact ------------------------------
(* The .xinfer container (src/src/artifact): ArtifactWriter::write_to_file and   *)
(* the converter's main(), which write the same file in the same order, the      *)
(* faults between their steps, and ArtifactReader.                               *)
(* A file is a sequence of cells: one for the header, one for each entry of the  *)
(* section table, one for the footer, and the data and padding in between. The   *)
(* checksum is taken as collision free.                                          *)
EXTENDS Integers, Sequences

CONSTANTS
  Names, LongNames,    \* section names; the long ones have MAX_SECTION_NAME_LEN or more
  Truncated,           \* LongNames -> Names: the first MAX_SECTION_NAME_LEN - 1 bytes
  Payloads, Metadata,  \* sequences of data cells
  Align,               \* SECTION_ALIGNMENT
  Wrap,                \* 2^64
  Damaged(_),          \* the cells a fault may leave in place of a cell
  Garbage,             \* what other bytes look like when read as a table entry
  MaxSections, MaxWrites, MaxFaults, MaxReads   \* bounds

DataCells == UNION {{d[i] : i \in DOMAIN d} : d \in Payloads \cup Metadata}

ASSUME ArtifactAssumption ==
  /\ Payloads \cup Metadata \subseteq Seq(DataCells)
  /\ LongNames \subseteq Names /\ Truncated \in [LongNames -> Names \ LongNames]
  /\ Align \in Nat \ {0} /\ Wrap \in Nat \ {0}
  /\ {MaxSections, MaxWrites, MaxFaults, MaxReads} \subseteq Nat

VARIABLES
  sections,    \* ArtifactWriter::sections_, or the converter's list
  metadata,
  tool,        \* "writer" or "converter"
  step,        \* what the tool does next
  written,     \* how many sections it has written
  entries,     \* the table it collects
  file,        \* the file on disk
  altered,     \* a cell of the file was changed since it was created
  versions,    \* every file that was completely written, with its sections
  is_open, header, footer, raw_metadata, table, index,    \* ArtifactReader
  stream_failed,   \* failbit of file_stream_
  opened,          \* writes, when it opened the file
  validated,       \* validate_checksum has succeeded, and no tool had begun to write since open
  last,            \* what the last successful read_section returned
  writes, faults, reads

writer == <<sections, metadata, tool, step, written, entries>>
reader == <<is_open, header, footer, raw_metadata, table, index, stream_failed, opened, validated, last>>
vars == <<writer, file, altered, versions, reader, writes, faults, reads>>

-----------------------------------------------------------------------------
(* Cells *)

HeaderSize == 1
FooterSize == 1
EntrySize == 1
Zero == [data |-> 0]
Zeros(n) == [i \in 1..n |-> Zero]
NoHeader == [count |-> 0, moff |-> 0, msize |-> 0, toff |-> 0, tsize |-> 0, total |-> 0,
             magic |-> FALSE]
NoFooter == [crc |-> <<>>, foot |-> FALSE]
NoEntry == [name |-> "", offset |-> 0, size |-> 0, sum |-> <<>>]
NoRead == [name |-> "", data |-> <<>>, of |-> <<>>]

\* Crc64: distinct contents have distinct checksums; 0 is the one of no bytes.
Crc64(cells) == cells

\* Offsets count from 0.
Cells(f, offset, size) == SubSeq(f, offset + 1, offset + size)

-----------------------------------------------------------------------------
(* ArtifactWriter and the converter *)

Pad(offset) == (Align - (offset % Align)) % Align

\* add_section refuses a long name and a second section of the same name.
AddSection(n, d) ==
  /\ step = "idle" /\ tool = "writer"
  /\ Len(sections) < MaxSections
  /\ n \notin LongNames /\ \A i \in DOMAIN sections : sections[i].name # n
  /\ sections' = Append(sections, [name |-> n, data |-> d])
  /\ UNCHANGED <<metadata, tool, step, written, entries, file, altered, versions, reader,
                 writes, faults, reads>>

\* The tensors of a checkpoint have distinct names of any length.
AddTensor(n, d) ==
  /\ step = "idle" /\ tool = "converter"
  /\ Len(sections) < MaxSections
  /\ \A i \in DOMAIN sections : sections[i].name # n
  /\ sections' = Append(sections, [name |-> n, data |-> d])
  /\ UNCHANGED <<metadata, tool, step, written, entries, file, altered, versions, reader,
                 writes, faults, reads>>

StoredName(n) == IF n \in LongNames THEN Truncated[n] ELSE n

\* The file is truncated and the placeholder header written. The writer's has the
\* magic and the section count, the converter's is all zero.
Begin ==
  /\ step = "idle" /\ writes < MaxWrites
  /\ file' = <<IF tool = "writer"
               THEN [NoHeader EXCEPT !.magic = TRUE, !.count = Len(sections)]
               ELSE NoHeader>>
  /\ step' = "metadata"
  /\ writes' = writes + 1
  /\ altered' = FALSE
  /\ UNCHANGED <<sections, metadata, tool, written, entries, versions, reader, faults, reads>>

WriteMetadata ==
  /\ step = "metadata"
  /\ file' = file \o metadata
  /\ step' = "sections"
  /\ UNCHANGED <<sections, metadata, tool, written, entries, altered, versions, reader,
                 writes, faults, reads>>

\* Mutant: sections are not padded.
UnpaddedSection ==
  /\ step = "sections" /\ written < Len(sections)
  /\ LET s == sections[written + 1]
     IN /\ file' = file \o s.data
        /\ entries' = Append(entries, [name |-> StoredName(s.name),
                        offset |-> Len(file), size |-> Len(s.data), sum |-> Crc64(s.data)])
  /\ written' = written + 1
  /\ UNCHANGED <<sections, metadata, tool, step, altered, versions, reader, writes, faults, reads>>

WriteSection ==
  /\ step = "sections" /\ written < Len(sections)
  /\ LET s == sections[written + 1]
         offset == Len(file) + Pad(Len(file))
     IN /\ file' = file \o Zeros(Pad(Len(file))) \o s.data
        /\ entries' = Append(entries, [name |-> StoredName(s.name),
                        offset |-> offset, size |-> Len(s.data), sum |-> Crc64(s.data)])
  /\ written' = written + 1
  /\ UNCHANGED <<sections, metadata, tool, step, altered, versions, reader, writes, faults, reads>>

WriteTable ==
  /\ step = "sections" /\ written = Len(sections)
  /\ file' = file \o Zeros(Pad(Len(file))) \o entries
  /\ step' = "header"
  /\ UNCHANGED <<sections, metadata, tool, written, entries, altered, versions, reader,
                 writes, faults, reads>>

\* total_file_size already counts the footer, so the header does not fit the file
\* before the footer is there.
FinalHeader(f) ==
  [count |-> Len(entries), moff |-> HeaderSize, msize |-> Len(metadata),
   toff |-> Len(f) - Len(entries), tsize |-> Len(entries) * EntrySize,
   total |-> Len(f) + FooterSize, magic |-> TRUE]

WriteHeader ==
  /\ step = "header"
  /\ file' = [file EXCEPT ![1] = FinalHeader(file)]
  /\ step' = "footer"
  /\ UNCHANGED <<sections, metadata, tool, written, entries, altered, versions, reader,
                 writes, faults, reads>>

\* The checksum is computed from the file as it was read back.
WriteFooter ==
  /\ step = "footer"
  /\ file' = Append(file, [crc |-> Crc64(file), foot |-> TRUE])
  /\ versions' = versions \cup {[file |-> file', sections |-> sections, metadata |-> metadata]}
  /\ step' = "done"
  /\ UNCHANGED <<sections, metadata, tool, written, entries, altered, reader, writes, faults, reads>>

\* A new run of either tool, for another checkpoint.
Restart(m, t) ==
  /\ step \in {"done", "dead"} /\ writes < MaxWrites
  /\ step' = "idle" /\ sections' = <<>> /\ metadata' = m /\ tool' = t
  /\ written' = 0 /\ entries' = <<>>
  /\ UNCHANGED <<file, altered, versions, reader, writes, faults, reads>>

-----------------------------------------------------------------------------
(* Faults *)

\* The process dies or a write fails: what it had not flushed is missing at the end.
Die ==
  /\ step \in {"metadata", "sections", "header", "footer"} /\ faults < MaxFaults
  /\ \E n \in 0..Len(file) : file' = SubSeq(file, 1, n)
  /\ step' = "dead"
  /\ faults' = faults + 1
  /\ UNCHANGED <<sections, metadata, tool, written, entries, altered, versions, reader, writes, reads>>

\* The machine loses power, or the medium decays: a cell holds something else. The
\* file is never synced, so this also hits one just written.
Damage ==
  /\ step \in {"done", "dead"} /\ faults < MaxFaults
  /\ \E i \in DOMAIN file : \E c \in Damaged(file[i]) : file' = [file EXCEPT ![i] = c]
  /\ faults' = faults + 1 /\ altered' = TRUE
  /\ UNCHANGED <<writer, versions, reader, writes, reads>>

-----------------------------------------------------------------------------
(* ArtifactReader *)

Sum(a, b) == (a + b) % Wrap

IsHeader(c) == "magic" \in DOMAIN c
IsFooter(c) == "foot" \in DOMAIN c
AsHeader(c) == IF IsHeader(c) THEN c ELSE NoHeader
AsFooter(c) == IF IsFooter(c) THEN c ELSE NoFooter
AsEntries(c) == IF "offset" \in DOMAIN c THEN {c} ELSE Garbage

InFile(f, offset, size) == offset + size <= Len(f)

\* Mutant: only the magic of the header is looked at.
MagicOnly(f) == Len(f) >= HeaderSize + FooterSize /\ AsHeader(f[1]).magic

\* The checks of open() up to the footer; a read beyond the end fails.
FramingOk(f) ==
  /\ Len(f) >= HeaderSize + FooterSize
  /\ LET h == AsHeader(f[1])
     IN h.magic /\ h.total = Len(f) /\ AsFooter(f[Len(f)]).foot

MetadataOk(f, h) ==
  h.msize > 0 => Sum(h.moff, h.msize) <= Len(f) /\ InFile(f, h.moff, h.msize)

TableOk(f, h) ==
  h.count > 0 =>
    /\ h.tsize = h.count * EntrySize
    /\ Sum(h.toff, h.tsize) <= Len(f) /\ InFile(f, h.toff, h.tsize)

EntriesOk(f, t) == \A i \in DOMAIN t : Sum(t[i].offset, t[i].size) <= Len(f)

\* The tables open() may read; a cell that is no entry reads as garbage.
TablesOf(f, h) ==
  IF h.count = 0 THEN {<<>>}
  ELSE LET cells == Cells(f, h.toff, h.tsize)
           possible == UNION {AsEntries(cells[i]) : i \in DOMAIN cells}
       IN {t \in [DOMAIN cells -> possible] : \A i \in DOMAIN cells : t[i] \in AsEntries(cells[i])}

\* A later entry replaces an earlier one of the same name.
IndexOf(t) ==
  [n \in {t[i].name : i \in DOMAIN t} |->
     CHOOSE i \in DOMAIN t : t[i].name = n /\ \A j \in DOMAIN t : t[j].name = n => j <= i]

CloseReader ==
  /\ is_open' = FALSE /\ header' = NoHeader /\ footer' = NoFooter
  /\ raw_metadata' = <<>> /\ table' = <<>> /\ index' = IndexOf(<<>>)
  /\ stream_failed' = FALSE /\ opened' = writes /\ validated' = FALSE /\ last' = NoRead

OpenFails ==
  /\ reads < MaxReads
  /\ \/ ~ FramingOk(file)
     \/ FramingOk(file) /\ ~ (MetadataOk(file, file[1]) /\ TableOk(file, file[1]))
     \/ /\ FramingOk(file) /\ MetadataOk(file, file[1]) /\ TableOk(file, file[1])
        /\ \E t \in TablesOf(file, file[1]) : ~ EntriesOk(file, t)
  /\ CloseReader
  /\ reads' = reads + 1
  /\ UNCHANGED <<writer, file, altered, versions, writes, faults>>

Open ==
  /\ reads < MaxReads
  /\ FramingOk(file) /\ MetadataOk(file, file[1]) /\ TableOk(file, file[1])
  /\ \E t \in TablesOf(file, file[1]) :
       /\ EntriesOk(file, t)
       /\ table' = t /\ index' = IndexOf(t)
  /\ is_open' = TRUE
  /\ header' = file[1] /\ footer' = file[Len(file)]
  /\ raw_metadata' = Cells(file, file[1].moff, file[1].msize)
  /\ stream_failed' = FALSE /\ opened' = writes /\ validated' = FALSE /\ last' = NoRead
  /\ reads' = reads + 1
  /\ UNCHANGED <<writer, file, altered, versions, writes, faults>>

EntryOf(n) == table[index[n]]

\* seekg and read: after a read beyond the end the stream stays failed.
ReadReaches(e) == ~ stream_failed /\ InFile(file, e.offset, e.size)

\* Mutant: the checksum of a section is not compared.
UncheckedRead(n) ==
  /\ is_open /\ reads < MaxReads
  /\ n \in DOMAIN index
  /\ LET e == EntryOf(n)
     IN IF ReadReaches(e)
        THEN /\ last' = [name |-> n, data |-> Cells(file, e.offset, e.size), of |-> footer.crc]
             /\ UNCHANGED stream_failed
        ELSE stream_failed' = TRUE /\ UNCHANGED last
  /\ reads' = reads + 1
  /\ UNCHANGED <<writer, file, altered, versions, is_open, header, footer, raw_metadata, table, index,
                 opened, validated, writes, faults>>

ReadSection(n) ==
  /\ is_open /\ reads < MaxReads
  /\ n \in DOMAIN index
  /\ LET e == EntryOf(n)
         got == Cells(file, e.offset, e.size)
     IN IF e.size = 0 THEN last' = [name |-> n, data |-> <<>>, of |-> footer.crc] /\ UNCHANGED stream_failed
        ELSE IF ~ ReadReaches(e) THEN stream_failed' = TRUE /\ UNCHANGED last
        ELSE /\ last' = IF Crc64(got) = e.sum THEN [name |-> n, data |-> got, of |-> footer.crc] ELSE last
             /\ UNCHANGED stream_failed
  /\ reads' = reads + 1
  /\ UNCHANGED <<writer, file, altered, versions, is_open, header, footer, raw_metadata, table, index,
                 opened, validated, writes, faults>>

\* Mutant: the checksum starts after the header.
ChecksumWithoutHeader ==
  LET n == header.total - FooterSize
  IN n <= Len(file) /\ Tail(Crc64(Cells(file, 0, n))) = Tail(footer.crc)

\* Everything before the footer, compared with the footer that open() read.
ChecksumOk ==
  LET n == header.total - FooterSize
  IN n <= Len(file) /\ Crc64(Cells(file, 0, n)) = footer.crc

ValidateChecksum ==
  /\ is_open /\ reads < MaxReads
  /\ validated' = (validated \/ (opened = writes /\ ChecksumOk))
  /\ stream_failed' = FALSE
  /\ reads' = reads + 1
  /\ UNCHANGED <<writer, file, altered, versions, is_open, header, footer, raw_metadata, table, index,
                 opened, last, writes, faults>>

Init ==
  /\ sections = <<>> /\ metadata \in Metadata /\ tool \in {"writer", "converter"}
  /\ step = "idle" /\ written = 0 /\ entries = <<>>
  /\ file = <<>> /\ altered = FALSE /\ versions = {}
  /\ is_open = FALSE /\ header = NoHeader /\ footer = NoFooter /\ raw_metadata = <<>>
  /\ table = <<>> /\ index = IndexOf(<<>>)
  /\ stream_failed = FALSE /\ opened = 0 /\ validated = FALSE /\ last = NoRead
  /\ writes = 0 /\ faults = 0 /\ reads = 0

Next ==
  \/ \E n \in Names, d \in Payloads : AddSection(n, d) \/ AddTensor(n, d)
  \/ Begin \/ WriteMetadata \/ WriteSection \/ WriteTable \/ WriteHeader \/ WriteFooter
  \/ \E m \in Metadata, t \in {"writer", "converter"} : Restart(m, t)
  \/ Die \/ Damage
  \/ OpenFails \/ Open \/ ValidateChecksum
  \/ \E n \in Names : ReadSection(n)

Spec == Init /\ [][Next]_vars
-----------------------------------------------------------------------------
(* Properties *)

\* Type invariant.
TypeOK ==
  /\ step \in {"idle", "metadata", "sections", "header", "footer", "done", "dead"}
  /\ tool \in {"writer", "converter"} /\ metadata \in Metadata
  /\ Len(sections) <= MaxSections
  /\ written \in 0..Len(sections) /\ Len(entries) = written
  /\ is_open \in BOOLEAN /\ validated \in BOOLEAN /\ stream_failed \in BOOLEAN
  /\ Len(table) = header.count
  /\ writes \in 0..MaxWrites /\ faults \in 0..MaxFaults /\ reads \in 0..MaxReads

Complete(f) == \E v \in versions : v.file = f

\* Wherever the writing stopped, open() accepts only files that were completely
\* written: the total size in the header and the footer magic are enough to tell, with
\* no checksum, as long as no written byte changed.
OnlyCompleteFilesOpen ==
  ~ altered /\ FramingOk(file) /\ MetadataOk(file, file[1]) /\ TableOk(file, file[1])
    => Complete(file)

\* A complete file opens, every section that was added is found under its stored name,
\* aligned and with its own checksum, unless a later one has that name too, and the
\* metadata is where the header says.
CompleteFileRoundTrips ==
  \A v \in versions :
    LET f == v.file  h == v.file[1]
    IN /\ FramingOk(f) /\ MetadataOk(f, h) /\ TableOk(f, h)
       /\ Cells(f, h.moff, h.msize) = v.metadata
       /\ \E t \in TablesOf(f, h) :
            /\ EntriesOk(f, t)
            /\ \A i \in DOMAIN v.sections :
                 LET s == v.sections[i]
                     e == t[IndexOf(t)[StoredName(s.name)]]
                 IN \/ /\ e.offset % Align = 0 /\ e.sum = Crc64(s.data)
                       /\ Cells(f, e.offset, e.size) = s.data
                    \/ \E j \in (i + 1)..Len(v.sections) :
                         StoredName(v.sections[j].name) = StoredName(s.name)

\* When validate_checksum succeeds on a file nobody began to write since open(), the
\* header, footer and metadata that open() kept are those of one completely written
\* artifact. At most one fault, a crash or a damaged cell, is considered: with two, a cell
\* damaged before open() may be back in place when the checksum is computed.
ValidatedIsWritten ==
  validated => \E v \in versions :
                 v.file[1] = header /\ v.file[Len(v.file)] = footer /\ raw_metadata = v.metadata

\* A section read after a successful validation is the payload that the opened artifact
\* was written with, also when the file was damaged or written anew in between.
ReadsAreAuthentic ==
  validated /\ last # NoRead =>
    \E v \in versions :
      /\ v.file[Len(v.file)].crc = last.of
      /\ \E i \in DOMAIN v.sections :
           StoredName(v.sections[i].name) = last.name /\ v.sections[i].data = last.data
=============================================================================
