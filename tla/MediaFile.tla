----------------------------- MODULE MediaFile -----------------------------
(***************************************************************************)
(* What media_import_service.rs and media_decoder.rs make of the bytes of  *)
(* a staged media file: the chunk table of a WAV file, the pieces in which *)
(* its audio is written, and the pieces of a decoded stream.  A byte of a  *)
(* WAV file is named by its offset.  Sizes and limits are parameters.      *)
(***************************************************************************)
EXTENDS Naturals, Sequences, SequencesExt

CONSTANTS
    PieceBytes,     \* IMPORT_PCM_CHUNK_BYTES
    MaxTable,       \* MAX_RIFF_CHUNKS
    MaxDuration,    \* MAX_IMPORT_DURATION_MS
    Rate,           \* the sample rate, in frames per second
    Second          \* milliseconds in a second

ASSUME MediaConstants ==
    /\ {PieceBytes, MaxTable, MaxDuration} \subseteq Nat
    /\ Rate \in Nat \ {0} /\ Second \in Nat \ {0}

RiffHeader == 12
ChunkHeader == 8
Rejected == [ok |-> FALSE]

\* A table entry is [id, len], a file [riff, channels, table, tail]: riff is
\* the length its header claims and tail the bytes after the last entry.
Padded(c) == ChunkHeader + c.len + (c.len % 2)

\* Where entry i starts.
Cursor(f, i) ==
    RiffHeader + FoldLeft(LAMBDA sum, c : sum + Padded(c), 0, SubSeq(f.table, 1, i - 1))

FileSize(f) == Cursor(f, Len(f.table) + 1) + f.tail

DataEntries(f) == SelectSeq([i \in DOMAIN f.table |-> i], LAMBDA i : f.table[i].id = "data")

\* The byte ranges of audio, in file order.
PcmRanges(f) ==
    [k \in DOMAIN DataEntries(f) |->
        LET i == DataEntries(f)[k]
        IN [offset |-> Cursor(f, i) + ChunkHeader, length |-> f.table[i].len]]

BlockAlign(f) == 2 * f.channels
FramesToMs(frames) == (frames * Second) \div Rate
TotalBytes(ranges) == FoldLeft(LAMBDA sum, r : sum + r.length, 0, ranges)

\* Mutant of ParsePcm16Wav: audio that ends in the middle of a frame passes.
ParseAnyLength(f) ==
    LET ranges == PcmRanges(f) IN
    IF /\ f.riff + 8 = FileSize(f) /\ f.tail = 0 /\ Len(f.table) <= MaxTable
       /\ Len(ranges) > 0 /\ \A i \in DOMAIN f.table : f.table[i].id = "data" => f.table[i].len > 0
       /\ \E i \in DOMAIN f.table : f.table[i].id = "fmt"
    THEN [ok |-> TRUE, ranges |-> ranges, align |-> BlockAlign(f), total |-> TotalBytes(ranges)]
    ELSE Rejected

\* parse_pcm16_wav: one format entry, audio in whole frames, a table that
\* ends exactly at the end of the file, a bounded duration.
ParsePcm16Wav(f) ==
    LET ranges == PcmRanges(f)
        formats == {i \in DOMAIN f.table : f.table[i].id = "fmt"}
        millis == FramesToMs(TotalBytes(ranges) \div BlockAlign(f))
    IN IF /\ f.riff + 8 = FileSize(f)
          /\ f.tail = 0
          /\ Len(f.table) <= MaxTable
          /\ \E i \in formats : formats = {i} /\ f.table[i].len >= 16
          /\ f.channels \in 1..8
          /\ Len(ranges) > 0
          /\ \A k \in DOMAIN ranges : ranges[k].length > 0 /\ ranges[k].length % BlockAlign(f) = 0
          /\ millis <= MaxDuration
       THEN [ok |-> TRUE, ranges |-> ranges, align |-> BlockAlign(f), total |-> TotalBytes(ranges)]
       ELSE Rejected

---------------------------------------------------------------------------
(* import_pcm_ranges: each range is cut into pieces of whole frames.       *)

Piece(offset, length, start) == [offset |-> offset, length |-> length, start |-> start]

Capacity(align) == PieceBytes - (PieceBytes % align)

\* The pieces of one range; the last may be shorter.
RangePieces(range, align) ==
    LET cap == Capacity(align)
        count == (range.length + cap - 1) \div cap
    IN [k \in 1..count |->
          Piece(range.offset + (k - 1) * cap,
                IF k < count THEN cap ELSE range.length - (count - 1) * cap, 0)]

\* Mutant of Timed: the position is kept in bytes of the range.
TimedByOffset(pieces, align) ==
    [k \in DOMAIN pieces |-> [pieces[k] EXCEPT !.start = FramesToMs(@ + pieces[k].offset \div align)]]

\* The start of a piece is the sum of the durations before it, each cut to
\* whole milliseconds.
Timed(pieces, align) ==
    LET startOf[k \in 1..Len(pieces) + 1] ==
            IF k = 1 THEN 0 ELSE startOf[k - 1] + FramesToMs(pieces[k - 1].length \div align)
    IN [k \in DOMAIN pieces |-> [pieces[k] EXCEPT !.start = startOf[k]]]

ImportPcmRanges(wav) ==
    Timed(FlattenSeq([k \in DOMAIN wav.ranges |-> RangePieces(wav.ranges[k], wav.align)]), wav.align)

---------------------------------------------------------------------------
(* decode_compressed_media: packets of frames are gathered into pieces.    *)
(* A stream is [header, channels, packets, intact]: whether what its       *)
(* header announces is acceptable, the channels it decodes to, the frames  *)
(* of each packet and the number of packets before the first that cannot   *)
(* be decoded.  Offset and length count frames.                            *)

Frames(packets) == FoldLeft(LAMBDA sum, p : sum + p, 0, packets)

\* The packets that are decoded: until one fails, turns out to have a wrong
\* number of channels or makes the audio too long.
DecodedPackets(s) ==
    LET good == {n \in 1..s.intact : /\ s.channels \in 1..8
                                     /\ FramesToMs(Frames(SubSeq(s.packets, 1, n))) <= MaxDuration}
    IN SubSeq(s.packets, 1, CHOOSE n \in good \cup {0} : \A m \in good : m <= n)

\* The whole stream was decoded, and to some audio.
DecodeAccepted(s) == DecodedPackets(s) = s.packets /\ Frames(s.packets) > 0

PieceFrames(channels) == Capacity(2 * channels) \div (2 * channels)

\* append_pcm16_le: a frame joins the piece that is being filled; a full
\* piece is handed on with the position of its first frame, counted from the
\* frames decoded before the packet (before) and in it (used).
AppendFrame(d, channels) ==
    LET used == d.used + 1
        filled == d.filled + 1
    IN IF filled = PieceFrames(channels)
       THEN [d EXCEPT !.used = used, !.filled = 0,
               !.out = Append(@, Piece(d.before + used - filled, filled,
                                       FramesToMs(d.before + used - filled)))]
       ELSE [d EXCEPT !.used = used, !.filled = filled]

\* Mutant of AppendPacket: the frames of the packet are counted too early.
AppendPacketEarly(d, frames, channels) ==
    LET e == FoldLeft(LAMBDA x, i : AppendFrame(x, channels),
                      [d EXCEPT !.before = @ + frames], [i \in 1..frames |-> i])
    IN [e EXCEPT !.used = 0]

AppendPacket(d, frames, channels) ==
    LET e == FoldLeft(LAMBDA x, i : AppendFrame(x, channels), d, [i \in 1..frames |-> i])
    IN [e EXCEPT !.before = @ + frames, !.used = 0]

\* A full piece is written at once, the last one when the stream has ended.
DecodePieces(s) ==
    LET d == FoldLeft(LAMBDA x, p : AppendPacket(x, p, s.channels),
                      [before |-> 0, used |-> 0, filled |-> 0, out |-> <<>>], DecodedPackets(s))
    IN IF d.filled = 0 \/ ~DecodeAccepted(s) THEN d.out
       ELSE Append(d.out, Piece(d.before - d.filled, d.filled, FramesToMs(d.before - d.filled)))
=============================================================================
