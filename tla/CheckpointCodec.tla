--------------------------- MODULE CheckpointCodec ---------------------------
(***************************************************************************)
(* The text form of a checkpoint: a header, sections in a fixed order, each *)
(* a line with the number of its entries followed by one line per entry,    *)
(* and a line that says end.  An entry is abstracted to its key; the        *)
(* section "symbols" stands for the book with its active orders.            *)
(***************************************************************************)
EXTENDS Naturals, Sequences, SequencesExt

CONSTANTS
  Ids,        \* natural numbers: the keys of entries
  Nothing     \* no checkpoint

ASSUME CodecAssumption == Ids \subseteq Nat /\ IsFiniteSet(Ids)

SectionTags ==
  <<"symbols", "idempotency", "public_sequences", "mark_prices", "funding_rates",
    "settled_funding_intervals", "positions", "risk_states", "metadata",
    "processed_input_ids", "processed_idempotency_keys">>

\* Sections that files of an earlier version do not have.
OptionalTags ==
  {"mark_prices", "funding_rates", "settled_funding_intervals", "positions",
   "risk_states"}

Sections == [Range(SectionTags) -> SUBSET Ids]
EmptySections == [t \in Range(SectionTags) |-> {}]

\* position is source_position.next_offset, which the checkpoint id ends in.
Checkpoint(position, sections) == [position |-> position, sections |-> sections]

Checkpoints == [position : Nat, sections : Sections]

-----------------------------------------------------------------------------
(* write_checkpoint.                                                       *)

Line(tag, kind, value) == [tag |-> tag, kind |-> kind, value |-> value]

Lines ==
  [tag : Range(SectionTags) \cup {"header", "end"},
   kind : {"header", "count", "entry", "end"}, value : Nat]

ASSUME NothingAssumption == Nothing \notin Checkpoints /\ Nothing \notin Seq(Lines)

\* Metadata is written for active orders only.
WrittenEntries(sections, t) ==
  IF t = "metadata" THEN sections["metadata"] \cap sections["symbols"] ELSE sections[t]

\* The code sorts the entries; the reader does not depend on their order.
SectionLines(sections, t) ==
  LET entries == SetToSeq(WrittenEntries(sections, t))
  IN  <<Line(t, "count", Len(entries))>>
        \o [i \in DOMAIN entries |-> Line(t, "entry", entries[i])]

\* The sections of the file that carry one of the tags.
LinesWith(c, tags) ==
  LET Part(t) == IF t \in tags THEN SectionLines(c.sections, t) ELSE <<>>
  IN  <<Line("header", "header", c.position)>>
        \o FlattenSeq([i \in DOMAIN SectionTags |-> Part(SectionTags[i])])
        \o <<Line("end", "end", 0)>>

WriteCheckpoint(c) == LinesWith(c, Range(SectionTags))

-----------------------------------------------------------------------------
(* CheckpointReader::read_checkpoint, line by line.                        *)

\* expect is the index of the next section, left the entries still to come.
NewReader ==
  [status |-> "reading", expect |-> 0, tag |-> "header", left |-> 0,
   position |-> 0, sections |-> EmptySections]

Failed(r) == [r EXCEPT !.status = "failed"]

ReadHeader(r, line) ==
  IF line.tag = "header" THEN [r EXCEPT !.position = line.value, !.expect = 1]
  ELSE Failed(r)

\* The section may come next: only optional ones are left out before it.
SectionsNext(r, line) ==
  {i \in r.expect .. Len(SectionTags) :
     /\ SectionTags[i] = line.tag
     /\ \A j \in r.expect .. i - 1 : SectionTags[j] \in OptionalTags}

ReadCount(r, line) ==
  LET next == SectionsNext(r, line)
  IN  IF line.kind = "count" /\ next # {}
      THEN [r EXCEPT !.expect = Max(next) + 1, !.tag = line.tag, !.left = line.value]
      ELSE Failed(r)

\* A key that came before is an error, except that orders are not compared.
ReadEntry(r, line) ==
  IF /\ line.tag = r.tag /\ line.kind = "entry"
     /\ r.tag # "symbols" => line.value \notin r.sections[r.tag]
  THEN [r EXCEPT !.sections[r.tag] = @ \cup {line.value}, !.left = @ - 1]
  ELSE Failed(r)

ReadEnd(r, line) ==
  IF line.kind = "end" THEN [r EXCEPT !.status = "done"] ELSE Failed(r)

ReadLine(r, line) ==
  IF r.status # "reading" THEN r
  ELSE IF r.left > 0 THEN ReadEntry(r, line)
  ELSE IF r.expect = 0 THEN ReadHeader(r, line)
  ELSE IF r.expect > Len(SectionTags) THEN ReadEnd(r, line)
  ELSE ReadCount(r, line)

\* Variant: the end of the file is as good as the line end.
ReadWithoutEnd(lines) ==
  LET r == FoldLeft(ReadLine, NewReader, lines)
  IN  IF r.status # "failed" THEN Checkpoint(r.position, r.sections) ELSE Nothing

\* Whatever the reader throws, the file counts as no checkpoint.
ReadCheckpoint(lines) ==
  LET r == FoldLeft(ReadLine, NewReader, lines)
  IN  IF r.status = "done" THEN Checkpoint(r.position, r.sections) ELSE Nothing

\* What a checkpoint must come back as, by definition and not by its text.
Restored(c) ==
  [c EXCEPT !.sections["metadata"] = c.sections["metadata"] \cap c.sections["symbols"]]

=============================================================================
