-------------------------------- MODULE Layout --------------------------------
(***************************************************************************)
(* Where the bytes of a torrent are: files in the content (src/torrent.rs),*)
(* pieces in the part file and the part file in the files again (src/      *)
(* storage.rs), blocks in a piece (src/download.rs).  One torrent is read, *)
(* its storage opened, its pieces fetched and stored in any order, and the *)
(* files materialized; every loop takes one step per round.                *)
(*                                                                         *)
(* A byte of the content is the number of its position, -1 a byte that was *)
(* never written.  A path is the sequence of its components.  usize has    *)
(* the values 0 .. Word - 1, of which an i64 reads the upper half as       *)
(* negative.  A build with overflow checks panics where another one wraps  *)
(* around: the model is of either.                                         *)
(***************************************************************************)
EXTENDS Integers, Sequences

CONSTANTS
  Torrents,  \* the metadata: single, name, files (path, length), pieceLength,
             \* pieces
  Unsafe,    \* components that validate_path_component refuses
  Block,     \* BLOCK_SIZE
  Buffer,    \* the buffer of materialize_multi_file_tree
  Memory,    \* the largest piece that can be allocated
  Word       \* 2^64

ASSUME LayoutAssumption ==
  \A t \in Torrents : /\ t.single \in BOOLEAN
                      /\ t.name \in STRING
                      /\ t.files \in Seq([path : Seq(STRING), length : 0 .. Word - 1])
                      /\ t.files # <<>>
                      /\ t.single => Len(t.files) = 1
                      /\ t.pieceLength \in 0 .. Word - 1
                      /\ t.pieces \in Nat

\* No torrent file is large enough to hold hashes for 2^64 bytes of pieces
\* that fit into memory.
ASSUME SizesAssumption == /\ Block \in Nat \ {0}
                          /\ Buffer \in Nat \ {0}
                          /\ Memory \in Nat \ {0}
                          /\ Word \in Nat
                          /\ 2 * Memory < Word
                          /\ \A t \in Torrents : t.pieces * Memory < Word

VARIABLES
  torrent,    \* the metadata
  checked,    \* the build has overflow checks
  phase,      \* what is being done
  index,      \* the round of the current loop
  length,     \* info.length, as a usize
  layout,     \* TorrentLayout: the offset of every file
  offset,     \* build_layout: the offset of the next file
  part,       \* the part file
  completed,  \* completed_pieces
  piece,      \* the piece being fetched, -1 for none
  data,       \* piece_data
  source,     \* the position of the part file's handle
  remaining,  \* what is left to copy of the current file
  output      \* the files materialized so far

fetch == <<piece, data>>
copy == <<source, remaining, output>>
vars == <<torrent, checked, phase, index, length, layout, offset, part,
          completed, fetch, copy>>

Files == torrent.files

Init == /\ torrent \in Torrents
        /\ checked \in BOOLEAN
        /\ phase = "layout"
        /\ index = 1
        /\ length = 0
        /\ layout = <<>>
        /\ offset = 0
        /\ part = <<>>
        /\ completed = {}
        /\ piece = -1
        /\ data = <<>>
        /\ source = 0
        /\ remaining = 0
        /\ output = <<>>

\* A usize read as an i64.
Signed(n) == IF 2 * n < Word THEN n ELSE n - Word

Smaller(a, b) == IF a < b THEN a ELSE b

Fails == /\ phase' = "failed"
         /\ UNCHANGED <<torrent, checked, index, length, layout, offset, part,
                        completed, fetch, copy>>

-----------------------------------------------------------------------------
(* calculate_length, build_layout *)

\* validate_relative_path
Safe(path) == path # <<>> /\ \A i \in 1 .. Len(path) : path[i] \notin Unsafe

\* Of a multi-file torrent the name becomes a directory, and is checked too.
Accepted(path) == torrent.single \/ (Safe(<<torrent.name>>) /\ Safe(path))

\* The sum of the lengths or the sum of the offsets overflows.
SumOverflows(n) == \/ 2 * (Signed(length) + Signed(n)) >= Word
                   \/ 2 * (Signed(length) + Signed(n)) < -Word
                   \/ offset + n >= Word

LayoutFile ==
  LET f == Files[index] IN
  /\ phase = "layout"
  /\ index <= Len(Files)
  /\ Accepted(f.path)
  /\ ~(checked /\ SumOverflows(f.length))
  /\ index' = index + 1
  /\ length' = (length + f.length) % Word
  /\ layout' = Append(layout, offset)
  /\ offset' = (offset + f.length) % Word
  /\ UNCHANGED <<torrent, checked, phase, part, completed, fetch, copy>>

RefuseLayout ==
  /\ phase = "layout"
  /\ index <= Len(Files)
  /\ \/ ~Accepted(Files[index].path)
     \/ checked /\ SumOverflows(Files[index].length)
  /\ Fails

-----------------------------------------------------------------------------
(* DownloadStorage::open *)

SelfDescribes == /\ Signed(length) > 0
                 /\ Signed(torrent.pieceLength) > 0
                 /\ torrent.pieces > 0

Open == /\ phase = "layout"
        /\ index > Len(Files)
        /\ SelfDescribes
        /\ phase' = "fetch"
        /\ part' = [i \in 1 .. length |-> -1]
        /\ UNCHANGED <<torrent, checked, index, length, layout, offset,
                       completed, fetch, copy>>

RefuseOpen == /\ phase = "layout"
              /\ index > Len(Files)
              /\ ~SelfDescribes
              /\ Fails

-----------------------------------------------------------------------------
(* piece_offset, piece_length_for, download_piece_from_peer *)

Pieces == 0 .. torrent.pieces - 1

Before == (torrent.pieces - 1) * torrent.pieceLength

\* Mutant of PieceLength: the remainder, which is 0 for a full last piece.
PieceLengthRemainder(p) ==
  IF p = torrent.pieces - 1 THEN length % torrent.pieceLength
  ELSE torrent.pieceLength

\* The last piece is what the others leave of the length.
PieceLength(p) == IF p = torrent.pieces - 1 THEN (length - Before) % Word
                  ELSE torrent.pieceLength

PieceOverflows(p) == /\ p = torrent.pieces - 1
                     /\ Before >= Word \/ length < Before

BeginPiece(p) ==
  /\ phase = "fetch"
  /\ piece = -1
  /\ p \in Pieces \ completed
  /\ ~(checked /\ PieceOverflows(p))
  /\ PieceLength(p) <= Memory
  /\ piece' = p
  /\ data' = <<>>
  /\ index' = 0
  /\ UNCHANGED <<torrent, checked, phase, length, layout, offset, part,
                 completed, copy>>

\* The subtraction panics, or the vector for its result cannot be allocated:
\* either ends the worker, and with it the download.
CannotBegin(p) ==
  /\ phase = "fetch"
  /\ piece = -1
  /\ p \in Pieces \ completed
  /\ (checked /\ PieceOverflows(p)) \/ PieceLength(p) > Memory
  /\ Fails

\* One round of the loop over the blocks: the peer sends what was asked for.
FetchBlock ==
  LET begin == index * Block
      size == Smaller(Block, PieceLength(piece) - begin) IN
  /\ phase = "fetch"
  /\ piece # -1
  /\ begin < PieceLength(piece)
  /\ data' = data \o [i \in 1 .. size |-> piece * torrent.pieceLength + begin + i - 1]
  /\ index' = index + 1
  /\ UNCHANGED <<torrent, checked, phase, length, layout, offset, part,
                 completed, piece, copy>>

\* seek_to_piece and write_all: a write behind the end extends the file.
Written(at) ==
  LET end == at + Len(data)
      size == IF end > Len(part) THEN end ELSE Len(part)
  IN  [i \in 1 .. size |-> IF i > at /\ i <= end THEN data[i - at]
                           ELSE IF i <= Len(part) THEN part[i] ELSE -1]

\* The product of usizes wraps around without a panic: a build with overflow
\* checks has met the same product in PieceLength.
PieceOffset(p) == (p * torrent.pieceLength) % Word

\* write_verified_piece is called, with data of the piece's length.
AllBlocks == /\ phase = "fetch"
             /\ piece # -1
             /\ index * Block >= PieceLength(piece)
             /\ Len(data) = PieceLength(piece)

\* Positions in a file are i64s.
Seekable == 2 * (PieceOffset(piece) + Len(data)) < Word

\* Mutant of StorePiece: the last piece is put where the length ends it.
StorePieceAtEnd ==
  /\ AllBlocks
  /\ part' = Written(IF piece = torrent.pieces - 1 THEN length - torrent.pieceLength
                     ELSE PieceOffset(piece))
  /\ completed' = completed \union {piece}
  /\ piece' = -1
  /\ UNCHANGED <<torrent, checked, phase, index, length, layout, offset, data,
                 copy>>

StorePiece ==
  /\ AllBlocks
  /\ Seekable
  /\ part' = Written(PieceOffset(piece))
  /\ completed' = completed \union {piece}
  /\ piece' = -1
  /\ UNCHANGED <<torrent, checked, phase, index, length, layout, offset, data,
                 copy>>

\* The seek, or the write, is refused: the download ends.
CannotStore == AllBlocks /\ ~Seekable /\ Fails

-----------------------------------------------------------------------------
(* finalize, materialize_multi_file_tree *)

\* A single file is the part file itself.
RenameSingle == /\ phase = "fetch"
                /\ completed = Pieces
                /\ torrent.single
                /\ phase' = "done"
                /\ output' = <<part>>
                /\ UNCHANGED <<torrent, checked, index, length, layout, offset,
                               part, completed, fetch, source, remaining>>

BeginCopy == /\ phase = "fetch"
             /\ completed = Pieces
             /\ ~torrent.single
             /\ phase' = "copy"
             /\ index' = 0
             /\ remaining' = 0
             /\ UNCHANGED <<torrent, checked, length, layout, offset, part,
                            completed, fetch, source, output>>

\* One path is the other or lies below it.
Clash(a, b) == LET n == Smaller(Len(a), Len(b))
               IN  SubSeq(a, 1, n) = SubSeq(b, 1, n)

Following == index + 1

\* The next file is created and its bytes looked up.
OpenFile ==
  /\ phase = "copy"
  /\ remaining = 0
  /\ index < Len(Files)
  /\ \A i \in 1 .. index : ~Clash(Files[i].path, Files[Following].path)
  /\ index' = Following
  /\ source' = layout[Following]
  /\ remaining' = Files[Following].length
  /\ output' = Append(output, <<>>)
  /\ UNCHANGED <<torrent, checked, phase, length, layout, offset, part,
                 completed, fetch>>

\* create_new, or the creation of its directory, meets another file.
CannotOpenFile ==
  /\ phase = "copy"
  /\ remaining = 0
  /\ index < Len(Files)
  /\ \E i \in 1 .. index : Clash(Files[i].path, Files[Following].path)
  /\ Fails

\* Mutant of Chunk: a round copies a whole buffer.
WholeBuffer == Buffer

\* Mutant of Chunk: a round copies a whole buffer or nothing.
FullBuffersOnly == IF remaining < Buffer THEN 0 ELSE Buffer

\* How much one round copies.
Chunk == Smaller(remaining, Buffer)

CopyChunk ==
  /\ phase = "copy"
  /\ remaining > 0
  /\ source + Chunk <= Len(part)
  /\ output' = [output EXCEPT ![index] = @ \o SubSeq(part, source + 1, source + Chunk)]
  /\ source' = source + Chunk
  /\ remaining' = remaining - Chunk
  /\ UNCHANGED <<torrent, checked, phase, index, length, layout, offset, part,
                 completed, fetch>>

\* read_exact meets the end of the part file.
CannotCopy ==
  /\ phase = "copy"
  /\ remaining > 0
  /\ source + Chunk > Len(part)
  /\ Fails

Finish == /\ phase = "copy"
          /\ remaining = 0
          /\ index = Len(Files)
          /\ phase' = "done"
          /\ UNCHANGED <<torrent, checked, index, length, layout, offset, part,
                         completed, fetch, copy>>

-----------------------------------------------------------------------------
Fetch == \/ \E p \in Pieces : BeginPiece(p) \/ CannotBegin(p)
         \/ FetchBlock \/ StorePiece \/ CannotStore

Materialize == RenameSingle \/ BeginCopy \/ OpenFile \/ CannotOpenFile
                 \/ CopyChunk \/ CannotCopy \/ Finish

Next == LayoutFile \/ RefuseLayout \/ Open \/ RefuseOpen \/ Fetch \/ Materialize

Spec == Init /\ [][Next]_vars /\ WF_vars(Next)

-----------------------------------------------------------------------------
TypeOK == /\ torrent \in Torrents
          /\ checked \in BOOLEAN
          /\ phase \in {"layout", "fetch", "copy", "done", "failed"}
          /\ index \in Nat
          /\ length \in 0 .. Word - 1
          /\ layout \in Seq(0 .. Word - 1)
          /\ offset \in 0 .. Word - 1
          /\ part \in Seq(Int)
          /\ completed \subseteq Pieces
          /\ piece \in Pieces \union {-1}
          /\ data \in Seq(Int)
          /\ source \in Nat
          /\ remaining \in 0 .. Word - 1
          /\ output \in Seq(Seq(Int))

\* The sequence of n bytes of the content from one on.
Content(from, n) == [i \in 1 .. n |-> from + i - 1]

\* The blocks asked of a peer follow one another without gap or overlap, and
\* stay within the piece.
BlocksTile ==
  piece # -1 => /\ Len(data) <= PieceLength(piece)
                /\ data = Content(piece * torrent.pieceLength, Len(data))

\* Pieces that are complete are in the part file at their place, in whatever
\* order they were written, the last one with its own length.  A place that has
\* wrapped around is not where the content has it, but no other piece is there:
\* it is the only one of its torrent that can be stored.
PiecesTile ==
  \A p \in completed :
    /\ \A i \in 1 .. PieceLength(p) :
         LET at == PieceOffset(p) + i
         IN  at <= Len(part) /\ part[at] = p * torrent.pieceLength + i - 1
    /\ PieceOffset(p) = p * torrent.pieceLength \/ completed = {p}

\* A download that ends well has made every file of the bytes that follow
\* those of the file before it, whatever metadata it was given: lengths that
\* overflow, pieces that are too few or too many, files that are empty or end
\* within a piece.
FilesExact ==
  phase = "done" =>
    /\ Len(output) = Len(Files)
    /\ layout[1] = 0
    /\ \A i \in 1 .. Len(Files) :
         /\ output[i] = Content(layout[i], Files[i].length)
         /\ i > 1 => layout[i] = layout[i - 1] + Files[i - 1].length

TotalLength == LET sum[i \in 0 .. Len(Files)] ==
                      IF i = 0 THEN 0 ELSE sum[i - 1] + Files[i].length
               IN  sum[Len(Files)]

\* The pieces cover the content and no more, and every file can be created.
Reasonable ==
  /\ TotalLength > 0
  /\ 2 * TotalLength < Word
  /\ torrent.pieceLength \in 1 .. Memory
  /\ torrent.pieces > 0
  /\ Before <= TotalLength
  /\ TotalLength - Before <= Memory
  /\ \/ torrent.single
     \/ /\ Safe(<<torrent.name>>)
        /\ \A i \in 1 .. Len(Files) :
             /\ Safe(Files[i].path)
             /\ \A j \in 1 .. i - 1 : ~Clash(Files[j].path, Files[i].path)

\* A download whose peers deliver fails only for its metadata: an unsafe
\* name, an unsafe or clashing path, a length of zero or beyond an i64, more
\* pieces than the length has, or a piece that is too large.
FailsForCause == phase = "failed" => ~Reasonable

\* It always ends: no length, however odd, leaves a loop without an exit.
Concludes == <>(phase \in {"done", "failed"})
=============================================================================
