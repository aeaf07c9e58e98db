------------------------------- MODULE DnaSplit ------------------------------
(***************************************************************************)
(* dna_storage.split (src/swarm/dna_storage.py): cutting a genome into     *)
(* chunks of bytes that fit a state slot, never inside a codepoint.  A     *)
(* genome is the sequence of its codepoints' widths in UTF-8; a byte       *)
(* offset is a cut point when a codepoint starts there, or at the end.     *)
(***************************************************************************)
EXTENDS Integers, Sequences, SequencesExt, FiniteSetsExt

CONSTANTS
  Widths,       \* the UTF-8 widths that occur: some of 1 to 4
  MaxLength,    \* bound: the codepoints of a genome
  ChunkBytes,   \* CHUNK_BYTES, no less than a codepoint's width
  MaxChunks     \* MAX_CHUNKS

ASSUME SplitAssumption ==
  /\ Widths \subseteq Nat \ {0}
  /\ ChunkBytes \in Nat /\ \A w \in Widths : w <= ChunkBytes
  /\ MaxLength \in Nat /\ MaxChunks \in Nat

VARIABLES
  text,      \* the codepoint widths of the genome to split
  offset,    \* the byte offset split has reached
  chunks     \* the half-open byte ranges of the chunks so far

splitVars == <<text, offset, chunks>>

Bytes(s) == FoldLeft(+, 0, s)

\* The offsets where a codepoint starts, and the end: everything else is a
\* continuation byte 10xxxxxx.
CutPoints == {Bytes(SubSeq(text, 1, k)) : k \in 0..Len(text)}

SplitInit ==
  /\ text \in SeqOf(Widths, MaxLength)
  /\ offset = 0 /\ chunks = <<>>

\* Mutant: one byte of every chunk is never used.
FurthestShort == Min({offset + ChunkBytes - 1, Bytes(text)})

Furthest == Min({offset + ChunkBytes, Bytes(text)})

\* Mutant: the cut is not moved off a continuation byte.
EndAnywhere == Furthest

\* The end of the next chunk, backed up to a cut point.
End == Max({e \in offset..Furthest : e = offset \/ e \in CutPoints})

Cut ==
  /\ offset < Bytes(text) /\ Len(chunks) < MaxChunks
  /\ chunks' = Append(chunks, <<offset, End>>)
  /\ offset' = End
  /\ UNCHANGED text

SplitNext == Cut

SplitSpec == SplitInit /\ [][SplitNext]_splitVars
------------------------------------------------------------------------------
Done == offset = Bytes(text) \/ Len(chunks) = MaxChunks

\* Every chunk is nonempty, fits a slot, starts where the one before it ended
\* and ends between codepoints: an empty one would end the read of the chain, a
\* cut codepoint would come back as a replacement character.
ChunksWhole ==
  \A k \in 1..Len(chunks) :
    /\ chunks[k][1] < chunks[k][2] /\ chunks[k][2] - chunks[k][1] <= ChunkBytes
    /\ chunks[k][1] = IF k = 1 THEN 0 ELSE chunks[k - 1][2]
    /\ chunks[k][2] \in CutPoints

\* A genome is only cut short past what aligned chunks are sure to hold, a
\* genome of plain ASCII only past MaxChunks * ChunkBytes bytes.
ShortFits ==
  /\ Done /\ text # <<>>
  /\ Bytes(text) <= MaxChunks * (ChunkBytes - Max(ToSet(text)) + 1)
  => offset = Bytes(text)

\* dna_storage.py:40: "Truncates silently past MAX_CHUNKS * CHUNK_BYTES bytes".
\* A genome that is no longer than that comes through whole.
FitsWhole == Done /\ Bytes(text) <= MaxChunks * ChunkBytes => offset = Bytes(text)
==============================================================================
