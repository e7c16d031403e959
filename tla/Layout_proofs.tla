----------------------------- MODULE Layout_proofs -----------------------------
(***************************************************************************)
(* Proofs about the arithmetic of pieces, blocks and files, for every      *)
(* torrent, every width of usize and either kind of build: pieces are put  *)
(* where they belong, and files that are written are exact.                *)
(***************************************************************************)
EXTENDS Layout, SequenceTheorems, FiniteSums

-----------------------------------------------------------------------------
(* The invariant *)

\* Every file begins where the one before it ends, in the arithmetic of usize.
Laid ==
  /\ length = offset
  /\ Len(layout) <= Len(Files)
  /\ phase = "layout" => index = Len(layout) + 1
  /\ phase \in {"fetch", "copy", "done"} => Len(layout) = Len(Files)
  /\ layout = <<>> => offset = 0
  /\ layout # <<>> =>
       /\ layout[1] = 0
       /\ offset = (layout[Len(layout)] + Files[Len(layout)].length) % Word
  /\ \A i \in 2 .. Len(layout) :
       layout[i] = (layout[i - 1] + Files[i - 1].length) % Word

\* The pieces that were begun fit into memory.
Sizes ==
  /\ phase = "layout" => completed = {} /\ piece = -1
  /\ phase \in {"fetch", "copy", "done"} => torrent.pieceLength > 0 /\ torrent.pieces > 0
  /\ \A p \in completed : PieceLength(p) <= Memory
  /\ piece # -1 => /\ phase \in {"fetch", "failed"}
                   /\ piece \notin completed
                   /\ PieceLength(piece) <= Memory

\* The blocks fetched end where the next one begins.
Fetched ==
  /\ BlocksTile
  /\ piece # -1 => Len(data) = Smaller(index * Block, PieceLength(piece))

\* The part file has its full size from the start; only a piece of which it
\* holds the end can have made it larger.
Sized ==
  /\ phase = "layout" => part = <<>>
  /\ phase \in {"fetch", "copy", "done"} => Len(part) >= length
  /\ Len(part) > length =>
       \E p \in completed : Len(part) = PieceOffset(p) + PieceLength(p)

\* What is copied, and what is left, of the files opened so far.
Copied ==
  /\ phase \in {"layout", "fetch"} => output = <<>>
  /\ phase = "copy" =>
       /\ part = Content(0, length)
       /\ index <= Len(Files)
       /\ Len(output) = index
       /\ index = 0 => remaining = 0
       /\ \A i \in 1 .. index :
            /\ output[i] = Content(layout[i], Len(output[i]))
            /\ Len(output[i]) > 0 => layout[i] + Len(output[i]) <= length
            /\ i < index => Len(output[i]) = Files[i].length
       /\ index > 0 => /\ source = layout[index] + Len(output[index])
                       /\ Len(output[index]) + remaining = Files[index].length

Inv == TypeOK /\ Laid /\ Sizes /\ Fetched /\ PiecesTile /\ Sized /\ Copied /\ FilesExact

-----------------------------------------------------------------------------
(* Lemmas about numbers *)

LEMMA Remainder ==
  ASSUME NEW w \in Nat, w > 0, NEW a \in Int
  PROVE  /\ a % w \in 0 .. w - 1
         /\ a \in 0 .. w - 1 => a % w = a
         /\ a < 0 /\ a + w >= 0 => a % w = a + w
OBVIOUS

LEMMA Quotient ==
  ASSUME NEW w \in Nat, w > 0, NEW a \in Nat
  PROVE  \E q \in Nat, r \in 0 .. w - 1 : a = q * w + r
<1>1. a = (a \div w) * w + (a % w)
  OBVIOUS
<1>2. a \div w \in Nat /\ a % w \in 0 .. w - 1
  OBVIOUS
<1>3. QED
  BY <1>1, <1>2

LEMMA Multiple ==
  ASSUME NEW a \in Int, NEW b \in Int, NEW m \in Nat, a < b
  PROVE  a * m + m <= b * m
<1>1. PICK d \in Nat : b = a + 1 + d
  <2>1. b - a - 1 \in Nat /\ b = a + 1 + (b - a - 1)
    OBVIOUS
  <2>2. QED
    BY <2>1
<1>2. b * m = a * m + m + d * m
  BY <1>1
<1>3. d * m >= 0
  OBVIOUS
<1>4. QED
  BY <1>2, <1>3

LEMMA Product ==
  ASSUME NEW a \in Nat, NEW b \in Nat
  PROVE  a * b \in Nat
OBVIOUS

\* What the assumptions say of one torrent.
LEMMA TorrentType ==
  ASSUME torrent \in Torrents
  PROVE  /\ torrent.single \in BOOLEAN
         /\ Files \in Seq([path : Seq(STRING), length : 0 .. Word - 1])
         /\ Len(Files) \in Nat \ {0}
         /\ torrent.single => Len(Files) = 1
         /\ \A i \in 1 .. Len(Files) : Files[i].length \in 0 .. Word - 1
         /\ torrent.pieceLength \in Nat
         /\ torrent.pieceLength < Word
         /\ torrent.pieces \in Nat
         /\ torrent.pieces * Memory < Word
         /\ Word \in Nat
         /\ Word > 2 * Memory
         /\ Memory \in Nat
         /\ Block \in Nat \ {0}
         /\ Buffer \in Nat \ {0}
<1>1. /\ torrent.single \in BOOLEAN
      /\ Files \in Seq([path : Seq(STRING), length : 0 .. Word - 1])
      /\ Files # <<>>
      /\ torrent.single => Len(Files) = 1
      /\ torrent.pieceLength \in 0 .. Word - 1
      /\ torrent.pieces \in Nat
  BY LayoutAssumption DEF Files
<1>2. Len(Files) \in Nat \ {0}
  BY <1>1
<1>3. \A i \in 1 .. Len(Files) : Files[i].length \in 0 .. Word - 1
  <2> DEFINE S == [path : Seq(STRING), length : 0 .. Word - 1]
  <2>1. \A f \in S : f.length \in 0 .. Word - 1
    OBVIOUS
  <2>2. Files \in Seq(S)
    BY <1>1
  <2> HIDE DEF S
  <2>3. \A i \in 1 .. Len(Files) : Files[i] \in S
    BY <2>2
  <2>4. QED
    BY <2>1, <2>3
<1>4. QED
  BY <1>1, <1>2, <1>3, SizesAssumption

\* Of these, what is about numbers alone.
LEMMA TorrentNumbers ==
  ASSUME torrent \in Torrents
  PROVE  /\ torrent.pieceLength \in Nat /\ torrent.pieceLength < Word
         /\ torrent.pieces \in Nat
         /\ Word \in Nat /\ Word > 0
         /\ Memory \in Nat
<1>1. /\ torrent.pieceLength \in Nat /\ torrent.pieceLength < Word
      /\ torrent.pieces \in Nat
      /\ Word \in Nat /\ Memory \in Nat
  BY TorrentType, Zenon
<1>2. Word > 0
  BY <1>1
<1>3. QED
  BY <1>1, <1>2

LEMMA LengthType ==
  ASSUME torrent \in Torrents, length \in 0 .. Word - 1, NEW p \in Pieces
  PROVE  /\ PieceLength(p) \in 0 .. Word - 1
         /\ PieceOffset(p) \in 0 .. Word - 1
         /\ p \in Nat
         /\ p * torrent.pieceLength \in Nat
<1>1. p \in Nat /\ torrent.pieces \in Nat
  BY TorrentType DEF Pieces
<1>2. p * torrent.pieceLength \in Nat
  BY <1>1, TorrentType, Product
<1>3. Before \in Int
  <2> DEFINE a == torrent.pieces - 1
             b == torrent.pieceLength
  <2>1. a \in Int /\ b \in Int
    BY TorrentType, SMTT(30)
  <2> HIDE DEF a, b
  <2>2. a * b \in Int
    BY <2>1
  <2>3. QED
    BY <2>2 DEF Before, a, b
<1>4. PieceLength(p) \in 0 .. Word - 1
  <2>1. (length - Before) % Word \in 0 .. Word - 1
    <3>1. length - Before \in Int
      BY <1>3, TorrentType
    <3>2. QED
      BY <3>1, TorrentType, Remainder, SMTT(30)
  <2>2. torrent.pieceLength \in 0 .. Word - 1
    BY TorrentNumbers
  <2>3. CASE p = torrent.pieces - 1
    BY <2>1, <2>3 DEF PieceLength
  <2>4. CASE p # torrent.pieces - 1
    BY <2>2, <2>4 DEF PieceLength
  <2>5. QED
    BY <2>3, <2>4
<1>5. PieceOffset(p) \in 0 .. Word - 1
  <2> DEFINE a == p * torrent.pieceLength
  <2>1. a \in Int /\ Word \in Nat /\ Word > 0
    BY <1>2, TorrentType
  <2> HIDE DEF a
  <2>2. a % Word \in 0 .. Word - 1
    BY <2>1, Remainder
  <2>3. QED
    BY <2>2 DEF a, PieceOffset
<1>6. QED
  BY <1>1, <1>2, <1>4, <1>5

-----------------------------------------------------------------------------
(* Lemmas about sequences of bytes *)

LEMMA ContentType ==
  ASSUME NEW from \in Int, NEW n \in Nat
  PROVE  /\ Content(from, n) \in Seq(Int)
         /\ Len(Content(from, n)) = n
         /\ \A i \in 1 .. n : Content(from, n)[i] = from + i - 1
BY DEF Content

\* A sequence of consecutive bytes is Content.
LEMMA IsContent ==
  ASSUME NEW s \in Seq(Int), NEW from \in Int,
         \A i \in 1 .. Len(s) : s[i] = from + i - 1
  PROVE  s = Content(from, Len(s))
<1>1. Len(s) \in Nat /\ DOMAIN s = 1 .. Len(s)
  OBVIOUS
<1>2. s = [i \in 1 .. Len(s) |-> s[i]]
  BY <1>1
<1>3. QED
  BY <1>1, <1>2 DEF Content

\* Content is continued by the content that follows it.
LEMMA Continued ==
  ASSUME NEW from \in Int, NEW n \in Nat, NEW m \in Nat
  PROVE  Content(from, n) \o Content(from + n, m) = Content(from, n + m)
<1> DEFINE s == Content(from, n)
           t == Content(from + n, m)
<1>1. /\ s \in Seq(Int) /\ Len(s) = n
      /\ t \in Seq(Int) /\ Len(t) = m
      /\ \A i \in 1 .. n : s[i] = from + i - 1
      /\ \A i \in 1 .. m : t[i] = from + n + i - 1
  BY ContentType
<1> HIDE DEF s, t
<1>2. /\ s \o t \in Seq(Int)
      /\ Len(s \o t) = n + m
      /\ \A i \in 1 .. n + m : (s \o t)[i] = IF i <= n THEN s[i] ELSE t[i - n]
  BY <1>1, ConcatProperties
<1>3. \A i \in 1 .. n + m : (s \o t)[i] = from + i - 1
  <2> TAKE i \in 1 .. n + m
  <2>1. CASE i <= n
    BY <1>1, <1>2, <2>1
  <2>2. CASE ~(i <= n)
    <3>1. i - n \in 1 .. m
      BY <2>2
    <3>2. t[i - n] = from + n + (i - n) - 1
      BY <1>1, <3>1
    <3>3. QED
      BY <1>2, <2>2, <3>1, <3>2
  <2>3. QED
    BY <2>1, <2>2
<1>4. s \o t = Content(from, n + m)
  BY <1>2, <1>3, IsContent
<1>5. QED
  BY <1>4 DEF s, t

\* Bytes cut out of content are content.
LEMMA CutOut ==
  ASSUME NEW n \in Nat, NEW m \in Nat, NEW k \in Nat, m + k <= n
  PROVE  SubSeq(Content(0, n), m + 1, m + k) = Content(m, k)
<1> DEFINE s == Content(0, n)
           t == SubSeq(s, m + 1, m + k)
<1>1. /\ s \in Seq(Int) /\ Len(s) = n
      /\ \A i \in 1 .. n : s[i] = i - 1
  BY ContentType
<1> HIDE DEF s
<1>2. /\ t \in Seq(Int)
      /\ Len(t) = k
      /\ \A i \in 1 .. k : t[i] = s[m + i]
  <2>1. /\ m + 1 \in Int /\ m + k \in Int
        /\ \A i \in m + 1 .. m + k : s[i] \in Int
    BY <1>1
  <2>2. /\ t \in Seq(Int)
        /\ Len(t) = IF m + 1 <= m + k THEN m + k - (m + 1) + 1 ELSE 0
        /\ \A i \in 1 .. m + k - (m + 1) + 1 : t[i] = s[m + 1 + i - 1]
    BY <2>1, SubSeqProperties
  <2>3. QED
    BY <2>2
<1> HIDE DEF t
<1>3. \A i \in 1 .. k : t[i] = m + i - 1
  <2> TAKE i \in 1 .. k
  <2>1. m + i \in 1 .. n
    OBVIOUS
  <2>2. QED
    BY <1>1, <1>2, <2>1
<1>4. t = Content(m, k)
  BY <1>2, <1>3, IsContent
<1>5. QED
  BY <1>4 DEF s, t
-----------------------------------------------------------------------------
(* Every action preserves the invariant. *)

LEMMA InvParts ==
  ASSUME Inv
  PROVE  TypeOK /\ Laid /\ Sizes /\ Fetched /\ PiecesTile /\ Sized /\ Copied /\ FilesExact
BY DEF Inv

\* What depends on the torrent and the length only.
LEMMA SamePieces ==
  ASSUME UNCHANGED <<torrent, length>>
  PROVE  /\ Files' = Files
         /\ Pieces' = Pieces
         /\ \A p : PieceLength(p)' = PieceLength(p) /\ PieceOffset(p)' = PieceOffset(p)
BY DEF Files, Pieces, PieceLength, PieceOffset, Before

LEMMA InitInv == ASSUME Init PROVE Inv
<1> USE DEF Init
<1>1. torrent \in Torrents
  OBVIOUS
<1>2. 0 \in 0 .. Word - 1
  BY <1>1, TorrentType
<1>3. TypeOK
  BY <1>2 DEF TypeOK
<1>4. Laid
  BY <1>1, TorrentType DEF Laid
<1>5. Sizes /\ Fetched /\ PiecesTile /\ Sized /\ Copied /\ FilesExact
  BY DEF Sizes, Fetched, BlocksTile, PiecesTile, Sized, Copied, FilesExact
<1>6. QED
  BY <1>3, <1>4, <1>5 DEF Inv

LEMMA FailsStep == ASSUME Inv, Fails PROVE Inv'
<1>1. /\ UNCHANGED <<torrent, checked, index, length, layout, offset, part,
                     completed, piece, data, source, remaining, output>>
      /\ phase' = "failed"
  BY DEF Fails, fetch, copy
<1>2. TypeOK'
  BY <1>1, InvParts, SamePieces DEF TypeOK
<1>3. Laid'
  BY <1>1, InvParts, SamePieces DEF Laid
<1>4. Sizes'
  BY <1>1, InvParts DEF Sizes, PieceLength, Before
<1>5. Fetched'
  BY <1>1, InvParts DEF Fetched, BlocksTile, PieceLength, Before
<1>6. PiecesTile'
  BY <1>1, InvParts DEF PiecesTile, PieceLength, PieceOffset, Before
<1>7. Sized'
  BY <1>1, InvParts DEF Sized, PieceLength, PieceOffset, Before
<1>8. Copied' /\ FilesExact'
  BY <1>1 DEF Copied, FilesExact
<1>9. QED
  BY <1>2, <1>3, <1>4, <1>5, <1>6, <1>7, <1>8 DEF Inv

LEMMA LayoutFileStep == ASSUME Inv, LayoutFile PROVE Inv'
<1> DEFINE n == Files[index].length
<1>1. /\ phase = "layout" /\ phase' = "layout"
      /\ index \in Nat /\ index <= Len(Files)
      /\ index' = index + 1
      /\ length' = (length + n) % Word
      /\ layout' = Append(layout, offset)
      /\ offset' = (offset + n) % Word
      /\ UNCHANGED <<torrent, checked, part, completed, piece, data, source,
                     remaining, output>>
  BY InvParts DEF LayoutFile, fetch, copy, TypeOK
<1>2. /\ torrent \in Torrents
      /\ layout \in Seq(0 .. Word - 1)
      /\ offset \in 0 .. Word - 1
      /\ length = offset
      /\ index = Len(layout) + 1
  BY <1>1, InvParts DEF TypeOK, Laid
<1>3. n \in Nat /\ Word \in Nat /\ Word > 0
  BY <1>1, <1>2, TorrentType
<1>4. (offset + n) % Word \in 0 .. Word - 1
  <2> DEFINE a == offset + n
  <2>1. a \in Int
    BY <1>2, <1>3
  <2> HIDE DEF a
  <2>2. a % Word \in 0 .. Word - 1
    BY <1>3, <2>1, Remainder
  <2>3. QED
    BY <2>2 DEF a
<1>5. /\ layout' \in Seq(0 .. Word - 1)
      /\ Len(layout') = index
      /\ \A i \in 1 .. Len(layout) : layout'[i] = layout[i]
      /\ layout'[index] = offset
      /\ layout' # <<>>
  BY <1>1, <1>2, AppendProperties
<1>6. Files' = Files
  BY <1>1 DEF Files
<1>7. TypeOK'
  <2>1. completed = {} /\ piece = -1
    BY <1>1, InvParts DEF Sizes
  <2>2. QED
    BY <1>1, <1>2, <1>4, <1>5, <2>1, InvParts DEF TypeOK
<1>8. Laid'
  <2>1. layout'[1] = 0
    <3>1. CASE layout = <<>>
      BY <1>2, <1>5, <3>1, InvParts DEF Laid
    <3>2. CASE layout # <<>>
      <4>1. 1 \in 1 .. Len(layout) /\ layout[1] = 0
        BY <1>2, <3>2, InvParts DEF Laid
      <4>2. QED
        BY <1>5, <4>1
    <3>3. QED
      BY <3>1, <3>2
  <2>2. ASSUME NEW i \in 2 .. index
        PROVE  layout'[i] = (layout'[i - 1] + Files[i - 1].length) % Word
    <3>1. CASE i <= Len(layout)
      <4>1. layout'[i] = layout[i] /\ layout'[i - 1] = layout[i - 1]
        BY <1>2, <1>5, <3>1
      <4>2. layout[i] = (layout[i - 1] + Files[i - 1].length) % Word
        BY <1>2, <3>1, InvParts DEF Laid
      <4>3. QED
        BY <4>1, <4>2
    <3>2. CASE i = index
      <4>1. layout # <<>> /\ Len(layout) \in 1 .. Len(layout) /\ i - 1 = Len(layout)
        BY <1>2, <3>2
      <4>2. offset = (layout[i - 1] + Files[i - 1].length) % Word
        BY <4>1, InvParts DEF Laid
      <4>3. layout'[i - 1] = layout[i - 1]
        BY <1>5, <4>1
      <4>4. QED
        BY <1>5, <3>2, <4>2, <4>3
    <3>3. QED
      BY <1>2, <3>1, <3>2
  <2>3. QED
    BY <1>1, <1>2, <1>5, <1>6, <2>1, <2>2 DEF Laid
<1>9. Sizes' /\ Fetched' /\ PiecesTile' /\ Sized'
  BY <1>1, <1>4, <1>2, InvParts
  DEF Sizes, Fetched, BlocksTile, PiecesTile, Sized
<1>10. Copied' /\ FilesExact'
  BY <1>1, InvParts DEF Copied, FilesExact
<1>11. QED
  BY <1>7, <1>8, <1>9, <1>10 DEF Inv

LEMMA OpenStep == ASSUME Inv, Open PROVE Inv'
<1>1. /\ phase = "layout" /\ phase' = "fetch"
      /\ index > Len(Files)
      /\ SelfDescribes
      /\ part' = [i \in 1 .. length |-> -1]
      /\ UNCHANGED <<torrent, checked, index, length, layout, offset, completed,
                     piece, data, source, remaining, output>>
  BY DEF Open, fetch, copy
<1>2. length \in 0 .. Word - 1 /\ torrent \in Torrents /\ layout \in Seq(0 .. Word - 1)
  BY InvParts DEF TypeOK
<1>3. part' \in Seq(Int) /\ Len(part') = length
  BY <1>1, <1>2
<1>4. TypeOK'
  BY <1>1, <1>3, InvParts, SamePieces DEF TypeOK
<1>5. Laid'
  <2>1. Len(layout) = Len(Files)
    BY <1>1, <1>2, TorrentType, InvParts DEF Laid
  <2>2. QED
    BY <1>1, <2>1, InvParts, SamePieces DEF Laid
<1>6. completed = {} /\ piece = -1
  BY <1>1, InvParts DEF Sizes
<1>7. Sizes'
  <2>1. torrent.pieceLength > 0 /\ torrent.pieces > 0
    <3>1. Signed(torrent.pieceLength) > 0 /\ torrent.pieces > 0
      BY <1>1 DEF SelfDescribes
    <3>2. torrent.pieceLength # 0
      BY <1>2, <3>1, TorrentType, SMTT(30) DEF Signed
    <3>3. QED
      BY <1>2, <3>1, <3>2, TorrentType, SMTT(30)
  <2>2. QED
    BY <1>1, <1>6, <2>1 DEF Sizes
<1>8. Fetched' /\ PiecesTile' /\ Sized'
  BY <1>1, <1>2, <1>3, <1>6 DEF Fetched, BlocksTile, PiecesTile, Sized
<1>9. Copied' /\ FilesExact'
  BY <1>1, InvParts DEF Copied, FilesExact
<1>10. QED
  BY <1>4, <1>5, <1>7, <1>8, <1>9 DEF Inv

\* While pieces are fetched the layout stays.
LEMMA LaidKept ==
  ASSUME Inv, phase = "fetch", phase' \in {"fetch", "copy", "done"},
         UNCHANGED <<torrent, length, layout, offset>>
  PROVE  Laid'
BY InvParts, SamePieces DEF Laid

LEMMA BeginPieceStep == ASSUME Inv, NEW p \in Pieces, BeginPiece(p) PROVE Inv'
<1>1. /\ phase = "fetch" /\ phase' = "fetch"
      /\ p \notin completed
      /\ PieceLength(p) <= Memory
      /\ piece' = p
      /\ data' = <<>>
      /\ index' = 0
      /\ UNCHANGED <<torrent, checked, length, layout, offset, part, completed,
                     source, remaining, output>>
  BY DEF BeginPiece, copy
<1>2. length \in 0 .. Word - 1 /\ torrent \in Torrents
  BY InvParts DEF TypeOK
<1>3. PieceLength(p) \in Nat /\ p \in Nat /\ p * torrent.pieceLength \in Nat
  BY <1>2, LengthType, TorrentType
<1>4. TypeOK'
  BY <1>1, InvParts, SamePieces DEF TypeOK
<1>5. Laid'
  BY <1>1, LaidKept
<1>6. Sizes'
  BY <1>1, InvParts DEF Sizes, PieceLength, Before
<1>7. PieceLength(piece)' = PieceLength(p)
  BY <1>1 DEF PieceLength, Before
<1>8. Fetched'
  <2>1. Smaller(0 * Block, PieceLength(p)) = 0
    BY <1>2, <1>3, TorrentType DEF Smaller
  <2>2. /\ Len(data') = 0
        /\ data' = Content(p * torrent.pieceLength, 0)
    BY <1>1 DEF Content
  <2>3. (BlocksTile)'
    <3>1. data' = Content(piece' * torrent'.pieceLength, Len(data'))
      BY <1>1, <2>2
    <3>2. Len(data') <= PieceLength(piece)'
      BY <1>3, <1>7, <2>2
    <3>3. QED
      BY <3>1, <3>2 DEF BlocksTile, Content
  <2>4. Len(data') = Smaller(index' * Block, PieceLength(piece)')
    BY <1>1, <1>7, <2>1, <2>2
  <2>5. QED
    BY <2>3, <2>4 DEF Fetched, Smaller
<1>9. PiecesTile' /\ Sized'
  BY <1>1, InvParts DEF PiecesTile, Sized, PieceLength, PieceOffset, Before
<1>10. Copied' /\ FilesExact'
  BY <1>1, InvParts DEF Copied, FilesExact
<1>11. QED
  BY <1>4, <1>5, <1>6, <1>8, <1>9, <1>10 DEF Inv

LEMMA FetchBlockStep == ASSUME Inv, FetchBlock PROVE Inv'
<1> DEFINE begin == index * Block
           from == piece * torrent.pieceLength
           m == PieceLength(piece)
           size == Smaller(Block, m - begin)
<1>1. /\ phase = "fetch" /\ phase' = "fetch"
      /\ piece # -1
      /\ begin < m
      /\ data' = data \o Content(from + begin, size)
      /\ index' = index + 1
      /\ UNCHANGED <<torrent, checked, length, layout, offset, part, completed,
                     piece, source, remaining, output>>
  BY DEF FetchBlock, Content, copy
<1>2. /\ length \in 0 .. Word - 1
      /\ torrent \in Torrents
      /\ piece \in Pieces
      /\ index \in Nat
      /\ data \in Seq(Int)
      /\ Block \in Nat \ {0}
  BY <1>1, InvParts, SizesAssumption DEF TypeOK
<1>3. /\ m \in Nat
      /\ from \in Nat
      /\ begin \in Nat
      /\ (index + 1) * Block = begin + Block
  BY <1>2, LengthType, TorrentType, Product
<1>4. /\ data = Content(from, Len(data))
      /\ Len(data) = Smaller(begin, m)
  BY <1>1, InvParts DEF Fetched, BlocksTile
<1>5. PieceLength(piece)' = m
  BY <1>1 DEF PieceLength, Before
<1>6. Len(data) = begin
  BY <1>1, <1>3, <1>4 DEF Smaller
<1> HIDE DEF begin, from, m
<1>7. /\ size \in Nat
      /\ begin + size = Smaller(begin + Block, m)
      /\ begin + size <= m
  BY <1>1, <1>2, <1>3 DEF Smaller
<1> HIDE DEF size
<1>8. data' = Content(from, begin + size)
  <2>1. Content(from, begin) \o Content(from + begin, size) = Content(from, begin + size)
    <3>1. from \in Int /\ begin \in Nat /\ size \in Nat
      BY <1>3, <1>7
    <3>2. QED
      BY <3>1, Continued
  <2>2. data = Content(from, begin)
    BY <1>4, <1>6
  <2>3. QED
    BY <1>1, <2>1, <2>2
<1>9. data' \in Seq(Int) /\ Len(data') = begin + size
  BY <1>3, <1>7, <1>8, ContentType
<1>10. TypeOK'
  BY <1>1, <1>2, <1>9, InvParts, SamePieces DEF TypeOK
<1>11. Laid'
  BY <1>1, LaidKept
<1>12. Sizes' /\ PiecesTile' /\ Sized'
  BY <1>1, InvParts DEF Sizes, PiecesTile, Sized,
      PieceLength, PieceOffset, Before
<1>13. Fetched'
  <2>1. /\ data' = Content(piece' * torrent'.pieceLength, Len(data'))
        /\ Len(data') <= PieceLength(piece)'
    BY <1>1, <1>5, <1>7, <1>8, <1>9 DEF from
  <2>2. BlocksTile'
    BY <2>1 DEF BlocksTile, Content
  <2>3. Len(data') = Smaller(index' * Block, PieceLength(piece)')
    BY <1>1, <1>3, <1>5, <1>7, <1>9
  <2>4. QED
    BY <2>2, <2>3 DEF Fetched, Smaller
<1>14. Copied' /\ FilesExact'
  BY <1>1, InvParts DEF Copied, FilesExact
<1>15. QED
  BY <1>10, <1>11, <1>12, <1>13, <1>14 DEF Inv

LEMMA Factor ==
  ASSUME NEW a \in Nat, NEW b \in Nat, NEW c \in Nat, b <= c
  PROVE  a * b <= a * c
<1>1. PICK d \in Nat : c = b + d
  <2>1. c - b \in Nat /\ c = b + (c - b)
    OBVIOUS
  <2>2. QED
    BY <2>1
<1>2. a * c = a * b + a * d /\ a * d \in Nat
  BY <1>1
<1>3. QED
  BY <1>2

\* The offset of a piece wraps around only where no other piece of its torrent
\* fits into memory.
LEMMA WrapsAlone ==
  ASSUME torrent \in Torrents, NEW p \in Pieces, NEW q \in Pieces, p # q,
         PieceLength(p) <= Memory, PieceLength(q) <= Memory
  PROVE  PieceOffset(p) = p * torrent.pieceLength
<1> DEFINE n == torrent.pieceLength
           k == torrent.pieces
<1>1. /\ n \in Nat /\ k \in Nat /\ Memory \in Nat /\ Word \in Nat
      /\ k * Memory < Word
  BY TorrentType
<1>2. p \in 0 .. k - 1 /\ q \in 0 .. k - 1
  BY DEF Pieces
<1>3. n <= Memory
  <2>1. p # k - 1 \/ q # k - 1
    BY <1>2
  <2>2. QED
    BY <2>1 DEF PieceLength
<1> HIDE DEF n, k
<1>4. p * n \in Nat /\ p * n < Word
  <2>1. p * n <= p * Memory
    BY <1>1, <1>2, <1>3, Factor
  <2>2. p * Memory + Memory <= k * Memory
    BY <1>1, <1>2, Multiple
  <2>3. p * n \in Nat /\ p * Memory \in Nat /\ k * Memory \in Nat
    BY <1>1, <1>2, Product
  <2>4. QED
    BY <1>1, <2>1, <2>2, <2>3
<1>5. (p * n) % Word = p * n
  <2> DEFINE a == p * n
  <2>1. a \in 0 .. Word - 1 /\ Word > 0
    BY <1>1, <1>4
  <2> HIDE DEF a
  <2>2. a % Word = a
    BY <1>1, <2>1, Remainder
  <2>3. QED
    BY <2>2 DEF a
<1>6. QED
  BY <1>5 DEF PieceOffset, n

LEMMA StorePieceStep == ASSUME Inv, StorePiece PROVE Inv'
<1> DEFINE from == piece * torrent.pieceLength
           to == PieceOffset(piece)
           m == PieceLength(piece)
<1>1. /\ phase = "fetch" /\ phase' = "fetch"
      /\ piece # -1
      /\ Len(data) = m
      /\ part' = Written(to)
      /\ completed' = completed \union {piece}
      /\ piece' = -1
      /\ UNCHANGED <<torrent, checked, index, length, layout, offset, data,
                     source, remaining, output>>
  BY DEF StorePiece, AllBlocks, copy
<1>2. /\ length \in 0 .. Word - 1
      /\ torrent \in Torrents
      /\ piece \in Pieces
      /\ data \in Seq(Int)
      /\ part \in Seq(Int)
      /\ completed \subseteq Pieces
  BY <1>1, InvParts DEF TypeOK
<1>3. m \in Nat /\ from \in Nat /\ to \in Nat
  BY <1>2, LengthType, TorrentType
<1>4. data = Content(from, m)
  BY <1>1, InvParts DEF Fetched, BlocksTile, Content
<1>5. \A i \in 1 .. m : data[i] = from + i - 1
  <2> HIDE DEF from, m
  <2>1. \A i \in 1 .. m : Content(from, m)[i] = from + i - 1
    BY <1>3, ContentType
  <2>2. QED
    BY <1>4, <2>1
<1>6. m <= Memory
  BY <1>1, InvParts DEF Sizes
<1>7. \A p : PieceLength(p)' = PieceLength(p)
  BY <1>1, SamePieces
<1> DEFINE size == IF to + m > Len(part) THEN to + m ELSE Len(part)
<1>8. part' = [i \in 1 .. size |-> IF i > to /\ i <= to + m THEN data[i - to]
                                   ELSE IF i <= Len(part) THEN part[i] ELSE -1]
  BY <1>1 DEF Written
<1> HIDE DEF from, to, m
<1>9. size \in Nat /\ to + m <= size /\ Len(part) <= size
  BY <1>2, <1>3
<1>10. size = Len(part) \/ size = to + m
  OBVIOUS
<1> HIDE DEF size
<1>11. \A i \in 1 .. size :
         part'[i] = IF i > to /\ i <= to + m THEN from + (i - to) - 1
                    ELSE IF i <= Len(part) THEN part[i] ELSE -1
  <2> TAKE i \in 1 .. size
  <2>1. CASE i > to /\ i <= to + m
    <3>1. i - to \in 1 .. m
      BY <1>3, <1>9, <2>1
    <3>2. data[i - to] = from + (i - to) - 1
      BY <1>5, <3>1
    <3>3. QED
      BY <1>8, <2>1, <3>2
  <2>2. CASE ~(i > to /\ i <= to + m)
    BY <1>8, <2>2
  <2>3. QED
    BY <2>1, <2>2
<1>12. part' \in Seq(Int) /\ Len(part') = size
  <2>1. ASSUME NEW i \in 1 .. size PROVE part'[i] \in Int
    <3>1. CASE i > to /\ i <= to + m
      <4>1. from + (i - to) - 1 \in Int
        BY <1>3, <1>9
      <4>2. QED
        BY <1>11, <3>1, <4>1
    <3>2. CASE ~(i > to /\ i <= to + m)
      BY <1>2, <1>9, <1>11, <3>2
    <3>3. QED
      BY <3>1, <3>2
  <2>2. part' \in [1 .. size -> Int]
    BY <1>8, <2>1
  <2>3. part' \in Seq(Int)
    BY <1>9, <2>2
  <2>4. QED
    BY <1>8, <1>9, <2>3
<1>13. TypeOK'
  BY <1>1, <1>2, <1>12, InvParts, SamePieces DEF TypeOK
<1>14. Laid'
  BY <1>1, LaidKept
<1>15. Sizes'
  BY <1>1, <1>6, InvParts DEF Sizes, PieceLength, Before, m
<1>16. Fetched'
  BY <1>1 DEF Fetched, BlocksTile
\* Another piece, if there is one, tells that neither offset has wrapped around.
<1>17. ASSUME NEW p \in completed
       PROVE  /\ p # piece
              /\ PieceOffset(p) = p * torrent.pieceLength
              /\ to = from
  <2>1. p # piece /\ PieceLength(p) <= Memory /\ p \in Pieces
    BY <1>1, <1>2, InvParts DEF Sizes
  <2>2. PieceOffset(p) = p * torrent.pieceLength
    BY <1>2, <1>6, <2>1, WrapsAlone DEF m
  <2>3. PieceOffset(piece) = piece * torrent.pieceLength
    BY <1>2, <1>6, <2>1, WrapsAlone DEF m
  <2>4. QED
    BY <2>1, <2>2, <2>3 DEF from, to
<1>18. PiecesTile'
  <2>1. ASSUME NEW i \in 1 .. m
        PROVE  to + i <= Len(part') /\ part'[to + i] = from + i - 1
    <3> DEFINE at == to + i
    <3>1. at > to /\ at <= to + m /\ at \in 1 .. size /\ at - to = i
      BY <1>3, <1>9
    <3> HIDE DEF at
    <3>2. part'[at] = from + (at - to) - 1
      BY <1>11, <3>1
    <3>3. at <= Len(part') /\ part'[at] = from + i - 1
      BY <1>9, <1>12, <3>1, <3>2
    <3>4. QED
      BY <3>3 DEF at
  <2>2. ASSUME NEW p \in completed, NEW i \in 1 .. PieceLength(p)
        PROVE  /\ PieceOffset(p) + i <= Len(part')
               /\ part'[PieceOffset(p) + i] = p * torrent.pieceLength + i - 1
    <3> DEFINE a == p * torrent.pieceLength
               at == PieceOffset(p) + i
    <3>1. PieceOffset(p) = a /\ to = from
      BY <1>17
    <3>2. at <= Len(part) /\ part[at] = a + i - 1
      BY InvParts DEF PiecesTile
    <3>3. a \in Nat /\ PieceLength(p) \in Nat
      BY <1>2, LengthType, TorrentType
    <3>4. at = a + i
      BY <3>1
    <3> HIDE DEF a, at
    <3>5. at \in 1 .. size /\ at - 1 = a + i - 1 /\ at \in Nat
      BY <1>2, <1>9, <3>2, <3>3, <3>4
    <3>6. part'[at] = a + i - 1
      <4>1. CASE at > to /\ at <= to + m
        <5>1. part'[at] = from + (at - to) - 1
          BY <1>11, <3>5, <4>1
        <5>2. from + (at - to) - 1 = at - 1
          BY <1>3, <3>1, <3>5
        <5>3. QED
          BY <3>5, <5>1, <5>2
      <4>2. CASE ~(at > to /\ at <= to + m)
        BY <1>11, <3>2, <3>5, <4>2
      <4>3. QED
        BY <4>1, <4>2
    <3>7. at <= Len(part')
      BY <1>2, <1>9, <1>12, <3>2, <3>5
    <3>8. QED
      BY <3>6, <3>7 DEF a, at
  <2>3. ASSUME NEW p \in completed'
        PROVE  PieceOffset(p) = p * torrent.pieceLength \/ completed' = {p}
    <3>1. CASE completed = {}
      BY <1>1, <3>1
    <3>2. CASE completed # {}
      <4>1. to = from
        BY <1>17, <3>2
      <4>2. CASE p = piece
        BY <4>1, <4>2 DEF from, to
      <4>3. CASE p \in completed
        BY <1>17, <4>3
      <4>4. QED
        BY <1>1, <4>2, <4>3
    <3>3. QED
      BY <3>1, <3>2
  <2>4. ASSUME NEW p \in completed', NEW i \in 1 .. PieceLength(p)
        PROVE  /\ PieceOffset(p) + i <= Len(part')
               /\ part'[PieceOffset(p) + i] = p * torrent.pieceLength + i - 1
    <3>1. CASE p = piece
      BY <2>1, <3>1 DEF from, to, m
    <3>2. CASE p \in completed
      BY <2>2, <3>2
    <3>3. QED
      BY <1>1, <3>1, <3>2
  <2>5. \A p : PieceLength(p)' = PieceLength(p) /\ PieceOffset(p)' = PieceOffset(p)
    BY <1>1, SamePieces
  <2>6. QED
    BY <1>1, <2>3, <2>4, <2>5 DEF PiecesTile
<1>19. Sized'
  <2>1. Len(part') >= length
    BY <1>1, <1>2, <1>9, <1>12, InvParts DEF Sized
  <2>2. ASSUME Len(part') > length
        PROVE  \E p \in completed' : Len(part') = PieceOffset(p) + PieceLength(p)
    <3>1. CASE size = to + m
      BY <1>1, <1>12, <3>1 DEF to, m
    <3>2. CASE size = Len(part)
      BY <1>1, <1>12, <2>2, <3>2, InvParts DEF Sized
    <3>3. QED
      BY <1>10, <3>1, <3>2
  <2>3. QED
    BY <1>1, <2>1, <2>2, SamePieces DEF Sized
<1>20. Copied' /\ FilesExact'
  BY <1>1, InvParts DEF Copied, FilesExact
<1>21. QED
  BY <1>13, <1>14, <1>15, <1>16, <1>18, <1>19, <1>20 DEF Inv

-----------------------------------------------------------------------------
(* The pieces cover the content. *)

LEMMA Covered ==
  ASSUME Inv, phase = "fetch", completed = Pieces
  PROVE  part = Content(0, length)
<1> DEFINE n == torrent.pieceLength
           last == torrent.pieces - 1
<1>1. /\ torrent \in Torrents
      /\ length \in 0 .. Word - 1
      /\ part \in Seq(Int)
      /\ n > 0 /\ torrent.pieces > 0
      /\ \A p \in Pieces : PieceLength(p) <= Memory
  BY InvParts DEF TypeOK, Sizes
<1>2. /\ n \in Nat
      /\ last \in Nat
      /\ last \in Pieces
      /\ last * Memory + Memory < Word
      /\ Memory \in Nat /\ Word \in Nat
  <2>1. /\ n \in Nat /\ torrent.pieces \in Nat
        /\ torrent.pieces * Memory < Word /\ Memory \in Nat /\ Word \in Nat
    BY <1>1, TorrentType
  <2>2. last * Memory + Memory = torrent.pieces * Memory
    BY <2>1
  <2>3. QED
    BY <1>1, <2>1, <2>2 DEF Pieces
<1>3. \A p \in Pieces : /\ p \in Nat
                        /\ p * n \in Nat
                        /\ PieceLength(p) \in Nat
                        /\ p < last => PieceLength(p) = n
                        /\ p < last \/ p = last
  <2> TAKE p \in Pieces
  <2>1. p \in Nat /\ p * n \in Nat /\ PieceLength(p) \in Nat
    BY <1>1, LengthType, TorrentType
  <2>2. p < last \/ p = last
    BY <1>1, <1>2, TorrentType, SMTT(30) DEF Pieces
  <2>3. p < last => PieceLength(p) = n
    BY <2>1, <1>2 DEF PieceLength
  <2>4. QED
    BY <2>1, <2>2, <2>3
<1>4. Before = last * n /\ Before \in Nat
  BY <1>2, Product DEF Before
<1>5. PieceLength(last) = (length - Before) % Word
  BY DEF PieceLength
<1> HIDE DEF n, last
<1>6. Before + Memory < Word
  <2>1. CASE last = 0
    <3>1. last * n = 0 /\ last * Memory = 0
      BY <1>2, <2>1
    <3>2. QED
      BY <1>2, <1>4, <3>1
  <2>2. CASE last > 0
    <3>1. 0 \in Pieces
      BY <1>1, <1>2, TorrentType, SMTT(30) DEF Pieces
    <3>2. n <= Memory
      BY <1>1, <1>3, <2>2, <3>1
    <3>3. last * n <= last * Memory
      BY <1>2, <3>2, Factor
    <3>4. last * Memory \in Nat
      BY <1>2, Product
    <3>5. QED
      BY <1>2, <1>4, <3>3, <3>4
  <2>3. QED
    BY <1>2, <2>1, <2>2
<1>7. /\ Before <= length
      /\ PieceLength(last) = length - Before
  <2>1. CASE Before > length
    <3>1. length - Before \in Int /\ length - Before < 0 /\ length - Before + Word >= 0
      BY <1>1, <1>2, <1>4, <1>6, <2>1
    <3>2. PieceLength(last) = length - Before + Word
      <4> DEFINE d == length - Before
      <4>1. d \in Int /\ d < 0 /\ d + Word >= 0 /\ Word \in Nat /\ Word > 0
        BY <1>1, <1>2, <1>6, <1>4, <3>1
      <4>2. PieceLength(last) = d % Word
        BY <1>5
      <4> HIDE DEF d
      <4>3. PieceLength(last) = d + Word
        BY <4>1, <4>2, Remainder
      <4>4. QED
        BY <4>3 DEF d
    <3>3. PieceLength(last) <= Memory
      BY <1>1, <1>2
    <3>4. QED
      BY <1>1, <1>2, <1>4, <1>6, <3>2, <3>3
  <2>2. CASE Before <= length
    <3> DEFINE d == length - Before
    <3>1. d \in Int /\ d \in 0 .. Word - 1 /\ Word \in Nat /\ Word > 0
      BY <1>1, <1>2, <1>4, <2>2
    <3>2. PieceLength(last) = d % Word
      BY <1>5
    <3> HIDE DEF d
    <3>3. PieceLength(last) = d
      BY <3>1, <3>2, Remainder
    <3>4. QED
      BY <2>2, <3>3 DEF d
  <2>3. QED
    BY <1>1, <1>4, <2>1, <2>2
<1>8. \A p \in Pieces : p * n + PieceLength(p) <= length
  <2> TAKE p \in Pieces
  <2>1. CASE p = last
    <3>1. p * n = Before /\ PieceLength(p) = length - Before
      BY <1>4, <1>7, <2>1
    <3>2. QED
      BY <1>1, <1>4, <3>1
  <2>2. CASE p < last
    <3>1. p * n + n <= last * n
      BY <1>2, <1>3, <2>2, Multiple DEF n
    <3>2. p * n + n <= Before /\ PieceLength(p) = n
      BY <1>3, <1>4, <2>2, <3>1
    <3>3. p * n \in Nat /\ n \in Nat
      BY <1>2, <1>3
    <3>4. QED
      BY <1>1, <1>4, <1>7, <3>2, <3>3
  <2>3. QED
    BY <1>3, <2>1, <2>2
<1>9. \A p \in Pieces : PieceOffset(p) = p * n
  <2> TAKE p \in Pieces
  <2> DEFINE a == p * n
  <2>1. a \in 0 .. Word - 1 /\ Word \in Nat /\ Word > 0
    <3>1. a \in Nat /\ PieceLength(p) \in Nat /\ a + PieceLength(p) <= length
      BY <1>3, <1>8
    <3> HIDE DEF a
    <3>2. QED
      BY <1>1, <1>2, <3>1
  <2>2. PieceOffset(p) = a % Word
    BY DEF PieceOffset, n
  <2> HIDE DEF a
  <2>3. PieceOffset(p) = a
    BY <2>1, <2>2, Remainder
  <2>4. QED
    BY <2>3 DEF a
<1>10. Len(part) = length
  <2>1. Len(part) >= length /\ Len(part) \in Nat
    BY <1>1, InvParts DEF Sized
  <2>2. CASE Len(part) > length
    <3>1. PICK p \in Pieces : Len(part) = p * n + PieceLength(p)
      BY <1>9, <2>2, InvParts DEF Sized
    <3>2. QED
      BY <1>1, <1>3, <1>8, <2>1, <2>2, <3>1
  <2>3. QED
    BY <1>1, <2>1, <2>2
<1>11. ASSUME NEW p \in Pieces, NEW j \in 1 .. PieceLength(p)
       PROVE  part[p * n + j] = p * n + j - 1
  <2>1. part[PieceOffset(p) + j] = p * n + j - 1
    BY InvParts DEF PiecesTile, n
  <2>2. QED
    BY <1>9, <2>1
<1>12. ASSUME NEW i \in 1 .. length PROVE part[i] = i - 1
  <2>1. CASE i > Before
    <3>1. i - Before \in 1 .. PieceLength(last)
      BY <1>1, <1>4, <1>7, <2>1
    <3>2. last * n + (i - Before) = i
      BY <1>1, <1>4
    <3>3. part[last * n + (i - Before)] = last * n + (i - Before) - 1
      BY <1>2, <1>11, <3>1
    <3>4. part[i] = last * n + (i - Before) - 1
      BY <3>2, <3>3
    <3>5. last * n + (i - Before) - 1 = i - 1
      BY <1>4
    <3>6. QED
      BY <3>4, <3>5
  <2>2. CASE i <= Before
    <3>1. n \in Nat /\ n > 0 /\ i - 1 \in Nat
      BY <1>1, <1>2 DEF n
    <3>2. PICK q \in Nat, r \in 0 .. n - 1 : i - 1 = q * n + r
      BY <3>1, Quotient
    <3>3. q < last
      <4>1. CASE q = last
        BY <1>1, <1>4, <2>2, <3>1, <3>2, <4>1
      <4>2. CASE q > last
        <5>1. last * n + n <= q * n
          BY <1>2, <4>2, Multiple
        <5>2. q * n \in Nat
          BY <3>1, Product
        <5>3. QED
          BY <1>1, <1>2, <1>4, <2>2, <3>1, <3>2, <5>1, <5>2
      <4>3. QED
        BY <1>2, <4>1, <4>2
    <3>4. q \in Pieces
      <4>1. torrent.pieces \in Nat /\ last = torrent.pieces - 1
        BY <1>1, TorrentType DEF last
      <4>2. QED
        BY <3>3, <4>1 DEF Pieces
    <3>5. r + 1 \in 1 .. PieceLength(q)
      BY <1>3, <3>1, <3>2, <3>3, <3>4
    <3>6. part[q * n + (r + 1)] = q * n + (r + 1) - 1
      BY <1>11, <3>4, <3>5
    <3>7. q * n + (r + 1) = i
      <4>1. q * n \in Nat
        BY <3>1, Product
      <4>2. QED
        BY <3>1, <3>2, <4>1
    <3>8. part[i] = q * n + (r + 1) - 1
      BY <3>6, <3>7
    <3>9. q * n + (r + 1) - 1 = i - 1
      <4>1. q * n \in Nat /\ r \in Nat /\ i \in Nat
        BY <3>1, Product
      <4>2. QED
        BY <3>7, <4>1
    <3>10. QED
      BY <3>8, <3>9
  <2>3. QED
    BY <1>1, <1>4, <2>1, <2>2
<1>13. \A i \in 1 .. Len(part) : part[i] = 0 + i - 1
  BY <1>10, <1>12
<1>14. part = Content(0, Len(part))
  BY <1>1, <1>13, IsContent
<1>15. QED
  BY <1>10, <1>14

-----------------------------------------------------------------------------
(* The files *)

LEMMA RenameSingleStep == ASSUME Inv, RenameSingle PROVE Inv'
<1>1. /\ phase = "fetch" /\ phase' = "done"
      /\ completed = Pieces
      /\ torrent.single
      /\ output' = <<part>>
      /\ UNCHANGED <<torrent, checked, index, length, layout, offset, part,
                     completed, piece, data, source, remaining>>
  BY DEF RenameSingle, fetch
<1>2. /\ torrent \in Torrents
      /\ part \in Seq(Int)
      /\ layout \in Seq(0 .. Word - 1)
      /\ length \in 0 .. Word - 1
      /\ piece \in Pieces \union {-1}
  BY InvParts DEF TypeOK
<1>3. piece = -1
  BY <1>1, <1>2, InvParts DEF Sizes
<1>4. part = Content(0, length)
  BY <1>1, Covered
<1>5. TypeOK'
  <2>1. output' \in Seq(Seq(Int))
    BY <1>1, <1>2
  <2>2. QED
    BY <1>1, <2>1, InvParts, SamePieces DEF TypeOK
<1>6. Laid'
  BY <1>1, LaidKept
<1>7. Sizes' /\ Fetched' /\ PiecesTile' /\ Sized'
  BY <1>1, <1>3, InvParts
  DEF Sizes, Fetched, BlocksTile, PiecesTile, Sized,
      PieceLength, PieceOffset, Before
<1>8. Copied'
  BY <1>1 DEF Copied
<1>9. FilesExact'
  <2>1. Len(Files) = 1 /\ Len(layout) = 1 /\ layout[1] = 0
    <3>1. Len(Files) = 1 /\ Len(layout) = Len(Files)
      BY <1>1, <1>2, TorrentType, InvParts DEF Laid
    <3>2. layout # <<>>
      BY <3>1
    <3>3. QED
      BY <3>1, <3>2, InvParts DEF Laid
  <2>2. length = Files[1].length
    <3>1. length = (layout[1] + Files[1].length) % Word
      <4>1. layout # <<>>
        BY <2>1
      <4>2. QED
        BY <1>1, <2>1, <4>1, InvParts DEF Laid
    <3>2. Files[1].length \in 0 .. Word - 1 /\ Word \in Nat /\ Word > 0
      BY <1>2, <2>1, TorrentType
    <3>3. layout[1] + Files[1].length = Files[1].length
      BY <2>1, <3>2
    <3>4. Files[1].length % Word = Files[1].length
      BY <3>2, Remainder
    <3>5. QED
      BY <3>1, <3>3, <3>4
  <2>3. /\ Len(output') = 1
        /\ output'[1] = Content(layout[1], Files[1].length)
    BY <1>1, <1>4, <2>1, <2>2
  <2>4. UNCHANGED <<Files, layout>>
    BY <1>1 DEF Files
  <2>5. /\ Len(output') = Len(Files)
        /\ \A i \in 1 .. Len(Files) : /\ i = 1
                                      /\ output'[i] = Content(layout[i], Files[i].length)
    BY <2>1, <2>3
  <2>6. Files' = Files /\ layout' = layout
    BY <2>4
  <2>7. FilesExact'
    <3> SUFFICES /\ Len(output') = Len(Files')
                 /\ layout'[1] = 0
                 /\ \A i \in 1 .. Len(Files') :
                      /\ output'[i] = Content(layout'[i], Files'[i].length)
                      /\ i > 1 => layout'[i] = layout'[i - 1] + Files'[i - 1].length
      BY DEF FilesExact, Content
    <3>1. Len(output') = Len(Files') /\ layout'[1] = 0
      BY <2>1, <2>5, <2>6
    <3>2. ASSUME NEW i \in 1 .. Len(Files')
          PROVE  i = 1 /\ output'[i] = Content(layout'[i], Files'[i].length)
      <4>1. i \in 1 .. Len(Files)
        BY <2>6
      <4>2. i = 1 /\ output'[i] = Content(layout[i], Files[i].length)
        BY <2>5, <4>1
      <4>3. QED
        BY <2>6, <4>2, Zenon
    <3>3. QED
      BY <3>1, <3>2
  <2>8. QED
    BY <2>7
<1>10. QED
  BY <1>5, <1>6, <1>7, <1>8, <1>9 DEF Inv

LEMMA BeginCopyStep == ASSUME Inv, BeginCopy PROVE Inv'
<1>1. /\ phase = "fetch" /\ phase' = "copy"
      /\ completed = Pieces
      /\ index' = 0
      /\ remaining' = 0
      /\ UNCHANGED <<torrent, checked, length, layout, offset, part, completed,
                     piece, data, source, output>>
  BY DEF BeginCopy, fetch
<1>2. torrent \in Torrents /\ piece \in Pieces \union {-1}
  BY InvParts DEF TypeOK
<1>3. piece = -1
  BY <1>1, <1>2, InvParts DEF Sizes
<1>4. part = Content(0, length)
  BY <1>1, Covered
<1>5. TypeOK'
  BY <1>1, <1>2, TorrentType, InvParts, SamePieces, SMTT(30) DEF TypeOK
<1>6. Laid'
  BY <1>1, LaidKept
<1>7. Sizes' /\ Fetched' /\ PiecesTile' /\ Sized'
  BY <1>1, <1>3, InvParts
  DEF Sizes, Fetched, BlocksTile, PiecesTile, Sized,
      PieceLength, PieceOffset, Before
<1>8. Copied'
  <2>1. output' = <<>>
    BY <1>1, InvParts DEF Copied
  <2>2. Len(Files') >= 0
    BY <1>1, <1>2, TorrentType, SamePieces
  <2>3. part' = Content(0, length')
    BY <1>1, <1>4
  <2>4. QED
    BY <1>1, <2>1, <2>2, <2>3 DEF Copied, Content
<1>9. FilesExact'
  BY <1>1 DEF FilesExact
<1>10. QED
  BY <1>5, <1>6, <1>7, <1>8, <1>9 DEF Inv

\* The pieces stay while files are copied.
LEMMA CopyKeeps ==
  ASSUME Inv, phase = "copy", phase' \in {"copy", "done"},
         UNCHANGED <<torrent, length, layout, offset, part, completed, piece, data>>
  PROVE  Laid' /\ Sizes' /\ Fetched' /\ PiecesTile' /\ Sized'
<1>1. piece = -1
  BY InvParts DEF Sizes
<1>2. Laid'
  BY InvParts, SamePieces DEF Laid
<1>3. QED
  BY <1>1, <1>2, InvParts
  DEF Sizes, Fetched, BlocksTile, PiecesTile, Sized,
      PieceLength, PieceOffset, Before

\* The state of a copy.
LEMMA CopyState ==
  ASSUME Inv, phase = "copy"
  PROVE  /\ torrent \in Torrents
         /\ part = Content(0, length)
         /\ length \in Nat /\ length < Word
         /\ Len(part) = length
         /\ index \in Nat /\ index <= Len(Files) /\ Len(Files) \in Nat
         /\ output \in Seq(Seq(Int)) /\ Len(output) = index
         /\ layout \in Seq(0 .. Word - 1) /\ Len(layout) = Len(Files)
         /\ \A i \in 1 .. Len(Files) : /\ layout[i] \in 0 .. Word - 1
                                       /\ Files[i].length \in 0 .. Word - 1
         /\ \A i \in 1 .. index : output[i] \in Seq(Int) /\ Len(output[i]) \in Nat
         /\ remaining \in 0 .. Word - 1
         /\ source \in Nat
         /\ Word \in Nat /\ Word > 0
         /\ Buffer \in Nat \ {0}
<1>1. /\ torrent \in Torrents
      /\ length \in 0 .. Word - 1
      /\ index \in Nat
      /\ output \in Seq(Seq(Int))
      /\ layout \in Seq(0 .. Word - 1)
      /\ remaining \in 0 .. Word - 1
      /\ source \in Nat
  BY InvParts DEF TypeOK
<1>2. /\ Len(Files) \in Nat
      /\ \A i \in 1 .. Len(Files) : Files[i].length \in 0 .. Word - 1
      /\ Word \in Nat /\ Word > 0
      /\ Buffer \in Nat \ {0}
  BY <1>1, TorrentType
<1>3. /\ part = Content(0, length)
      /\ index <= Len(Files)
      /\ Len(output) = index
  BY InvParts DEF Copied
<1>4. Len(layout) = Len(Files)
  BY InvParts DEF Laid
<1>5. Len(part) = length
  BY <1>1, <1>2, <1>3, ContentType
<1>6. \A i \in 1 .. Len(Files) : layout[i] \in 0 .. Word - 1
  <2> DEFINE S == 0 .. Word - 1
  <2>1. layout \in Seq(S)
    BY <1>1
  <2> HIDE DEF S
  <2>2. \A i \in 1 .. Len(layout) : layout[i] \in S
    BY <2>1
  <2>3. QED
    BY <1>4, <2>2 DEF S
<1>7. \A i \in 1 .. index : output[i] \in Seq(Int) /\ Len(output[i]) \in Nat
  <2>1. \A i \in 1 .. index : output[i] \in Seq(Int)
    BY <1>1, <1>3
  <2>2. QED
    BY <2>1
<1>8. QED
  BY <1>1, <1>2, <1>3, <1>4, <1>5, <1>6, <1>7

LEMMA OpenFileStep == ASSUME Inv, OpenFile PROVE Inv'
<1> DEFINE next == index + 1
<1>1. /\ phase = "copy" /\ phase' = "copy"
      /\ remaining = 0
      /\ index < Len(Files)
      /\ index' = next
      /\ source' = layout[next]
      /\ remaining' = Files[next].length
      /\ output' = Append(output, <<>>)
      /\ UNCHANGED <<torrent, checked, length, layout, offset, part, completed,
                     piece, data>>
  BY DEF OpenFile, Following, fetch
<1>2. /\ torrent \in Torrents
      /\ index \in Nat /\ Len(Files) \in Nat
      /\ output \in Seq(Seq(Int)) /\ Len(output) = index
      /\ layout[next] \in 0 .. Word - 1
      /\ Files[next].length \in 0 .. Word - 1
      /\ part = Content(0, length)
  BY <1>1, CopyState, SMTT(30)
<1>3. next \in Nat /\ next <= Len(Files)
  BY <1>1, <1>2
<1>4. <<>> \in Seq(Int)
  OBVIOUS
<1>5. /\ output' \in Seq(Seq(Int))
      /\ Len(output') = next
      /\ \A i \in 1 .. index : output'[i] = output[i]
      /\ output'[next] = <<>>
  BY <1>1, <1>2, <1>4, AppendProperties
<1>6. TypeOK'
  BY <1>1, <1>2, <1>3, <1>5, InvParts, SamePieces DEF TypeOK
<1>7. \A i \in 1 .. index :
        /\ output[i] = Content(layout[i], Len(output[i]))
        /\ Len(output[i]) > 0 => layout[i] + Len(output[i]) <= length
        /\ Len(output[i]) = Files[i].length
  <2> TAKE i \in 1 .. index
  <2>1. /\ output[i] = Content(layout[i], Len(output[i]))
        /\ Len(output[i]) > 0 => layout[i] + Len(output[i]) <= length
        /\ i < index => Len(output[i]) = Files[i].length
    BY <1>1, InvParts DEF Copied
  <2>2. CASE i = index
    <3>1. Len(output[index]) + remaining = Files[index].length
      BY <1>1, <1>2, <2>2, InvParts DEF Copied
    <3>2. Len(output[index]) \in Nat
      BY <1>1, <2>2, CopyState
    <3>3. QED
      BY <1>1, <2>1, <2>2, <3>1, <3>2
  <2>3. QED
    BY <1>2, <2>1, <2>2
<1> HIDE DEF next
<1>8. \A i \in 1 .. next :
        /\ output'[i] = Content(layout[i], Len(output'[i]))
        /\ Len(output'[i]) > 0 => layout[i] + Len(output'[i]) <= length
        /\ i < next => Len(output'[i]) = Files[i].length
  <2> TAKE i \in 1 .. next
  <2>1. CASE i = next
    <3>1. output'[i] = <<>> /\ Len(output'[i]) = 0
      BY <1>5, <2>1
    <3>2. <<>> = Content(layout[i], 0)
      BY DEF Content
    <3>3. QED
      BY <1>3, <2>1, <3>1, <3>2
  <2>2. CASE i # next
    <3>1. i \in 1 .. index
      BY <1>2, <2>2 DEF next
    <3>2. output'[i] = output[i]
      BY <1>5, <3>1
    <3>3. QED
      BY <1>7, <3>1, <3>2
  <2>3. QED
    BY <2>1, <2>2
<1>9. Copied'
  <2>1. Files' = Files
    BY <1>1 DEF Files
  <2>2. /\ part' = Content(0, length')
        /\ index' <= Len(Files')
        /\ Len(output') = index'
        /\ index' # 0
    BY <1>1, <1>2, <1>3, <1>5, <2>1 DEF next
  <2>3. /\ source' = layout'[index'] + Len(output'[index'])
        /\ Len(output'[index']) + remaining' = Files'[index'].length
    <3>1. output'[next] = <<>> /\ Len(output'[next]) = 0
      BY <1>5
    <3>2. layout[next] + 0 = layout[next] /\ 0 + Files[next].length = Files[next].length
      BY <1>2
    <3>3. QED
      BY <1>1, <2>1, <3>1, <3>2
  <2>4. QED
    BY <1>1, <1>8, <2>1, <2>2, <2>3 DEF Copied, Content
<1>10. Laid' /\ Sizes' /\ Fetched' /\ PiecesTile' /\ Sized'
  BY <1>1, CopyKeeps
<1>11. FilesExact'
  BY <1>1 DEF FilesExact
<1>12. QED
  BY <1>6, <1>9, <1>10, <1>11 DEF Inv

LEMMA CopyChunkStep == ASSUME Inv, CopyChunk PROVE Inv'
<1> DEFINE k == Chunk
           old == output[index]
           new == old \o SubSeq(part, source + 1, source + k)
<1>1. /\ phase = "copy" /\ phase' = "copy"
      /\ remaining > 0
      /\ source + k <= Len(part)
      /\ output' = [output EXCEPT ![index] = new]
      /\ source' = source + k
      /\ remaining' = remaining - k
      /\ UNCHANGED <<torrent, checked, index, length, layout, offset, part,
                     completed, piece, data>>
  BY DEF CopyChunk, fetch
<1>2. /\ torrent \in Torrents
      /\ part = Content(0, length) /\ Len(part) = length /\ length \in Nat
      /\ index \in Nat /\ index <= Len(Files) /\ Len(Files) \in Nat
      /\ output \in Seq(Seq(Int)) /\ Len(output) = index
      /\ remaining \in 0 .. Word - 1 /\ source \in Nat
      /\ Word \in Nat
      /\ Buffer \in Nat \ {0}
  BY <1>1, CopyState
<1>3. k \in Nat /\ k > 0 /\ k <= remaining
  BY <1>1, <1>2 DEF Chunk, Smaller
<1>4. index \in 1 .. index /\ index > 0
  <2>1. index # 0
    BY <1>1, <1>2, InvParts DEF Copied
  <2>2. QED
    BY <1>2, <2>1
<1>5. /\ old = Content(layout[index], Len(old))
      /\ source = layout[index] + Len(old)
      /\ Len(old) + remaining = Files[index].length
  BY <1>1, <1>4, InvParts DEF Copied
<1>6. old \in Seq(Int) /\ Len(old) \in Nat /\ layout[index] \in Nat
  <2>1. index \in 1 .. Len(Files)
    BY <1>2, <1>4
  <2>2. QED
    BY <1>1, <1>4, <2>1, CopyState
<1> HIDE DEF k, old
<1>7. SubSeq(part, source + 1, source + k) = Content(source, k)
  <2>1. source + k <= length /\ length \in Nat /\ source \in Nat /\ k \in Nat
    BY <1>1, <1>2, <1>3
  <2>2. SubSeq(Content(0, length), source + 1, source + k) = Content(source, k)
    BY <2>1, CutOut, Zenon
  <2>3. QED
    BY <1>2, <2>2
<1>8. new = Content(layout[index], Len(old) + k)
  <2>1. layout[index] \in Int
    BY <1>6
  <2>2. Content(layout[index], Len(old)) \o Content(layout[index] + Len(old), k)
          = Content(layout[index], Len(old) + k)
    BY <1>3, <1>6, <2>1, Continued
  <2>3. QED
    BY <1>5, <1>7, <2>2
<1> HIDE DEF new
<1>9. new \in Seq(Int) /\ Len(new) = Len(old) + k
  <2>1. layout[index] \in Int /\ Len(old) + k \in Nat
    BY <1>3, <1>6
  <2>2. QED
    BY <1>8, <2>1, ContentType
<1>10. /\ output' \in Seq(Seq(Int))
       /\ Len(output') = index
       /\ \A i \in 1 .. index : output'[i] = IF i = index THEN new ELSE output[i]
  BY <1>1, <1>2, <1>4, <1>9, ExceptSeq
<1>11. TypeOK'
  <2>1. source' \in Nat /\ remaining' \in 0 .. Word - 1
    BY <1>1, <1>2, <1>3
  <2>2. QED
    BY <1>1, <1>10, <2>1, InvParts, SamePieces DEF TypeOK
<1>12. \A i \in 1 .. index :
         /\ output'[i] = Content(layout[i], Len(output'[i]))
         /\ Len(output'[i]) > 0 => layout[i] + Len(output'[i]) <= length
         /\ i < index => Len(output'[i]) = Files[i].length
  <2> TAKE i \in 1 .. index
  <2>1. CASE i = index
    <3>1. output'[i] = new
      BY <1>10, <2>1
    <3>2. new = Content(layout[i], Len(new))
      BY <1>8, <1>9, <2>1
    <3>3. layout[i] + Len(new) <= length
      <4>1. layout[index] + (Len(old) + k) = source + k
        BY <1>2, <1>3, <1>5, <1>6, SMTT(30)
      <4>2. source + k <= length
        BY <1>1, <1>2
      <4>3. QED
        BY <1>9, <2>1, <4>1, <4>2
    <3>4. QED
      BY <1>2, <2>1, <3>1, <3>2, <3>3
  <2>2. CASE i # index
    <3>1. output'[i] = output[i]
      BY <1>10, <2>2
    <3>2. QED
      BY <1>1, <3>1, InvParts DEF Copied
  <2>3. QED
    BY <2>1, <2>2
<1>13. Copied'
  <2>1. Files' = Files
    BY <1>1 DEF Files
  <2>2. /\ part' = Content(0, length')
        /\ index' <= Len(Files')
        /\ Len(output') = index'
        /\ index' # 0
    BY <1>1, <1>2, <1>4, <1>10, <2>1
  <2>3. /\ source' = layout'[index'] + Len(output'[index'])
        /\ Len(output'[index']) + remaining' = Files'[index'].length
    <3>1. output'[index] = new
      BY <1>4, <1>10
    <3>2. /\ source + k = layout[index] + Len(new)
          /\ Len(new) + (remaining - k) = Files[index].length
      BY <1>2, <1>3, <1>5, <1>6, <1>9, SMTT(30)
    <3>3. QED
      BY <1>1, <2>1, <3>1, <3>2
  <2>4. QED
    BY <1>1, <1>12, <2>1, <2>2, <2>3 DEF Copied, Content
<1>14. Laid' /\ Sizes' /\ Fetched' /\ PiecesTile' /\ Sized'
  BY <1>1, CopyKeeps
<1>15. FilesExact'
  BY <1>1 DEF FilesExact
<1>16. QED
  BY <1>11, <1>13, <1>14, <1>15 DEF Inv

LEMMA FinishStep == ASSUME Inv, Finish PROVE Inv'
<1>1. /\ phase = "copy" /\ phase' = "done"
      /\ remaining = 0
      /\ index = Len(Files)
      /\ UNCHANGED <<torrent, checked, index, length, layout, offset, part,
                     completed, piece, data, source, remaining, output>>
  BY DEF Finish, fetch, copy
<1>2. /\ torrent \in Torrents
      /\ Len(Files) \in Nat
      /\ Len(output) = Len(Files)
      /\ Len(layout) = Len(Files)
      /\ length \in Nat /\ length < Word
      /\ Word \in Nat /\ Word > 0
      /\ \A i \in 1 .. Len(Files) : /\ layout[i] \in 0 .. Word - 1
                                    /\ Files[i].length \in 0 .. Word - 1
      /\ \A i \in 1 .. Len(Files) : Len(output[i]) \in Nat
  BY <1>1, CopyState
<1>3. TypeOK'
  BY <1>1, InvParts, SamePieces DEF TypeOK
<1>4. Laid' /\ Sizes' /\ Fetched' /\ PiecesTile' /\ Sized'
  BY <1>1, CopyKeeps
<1>5. Copied'
  BY <1>1 DEF Copied
<1>6. \A i \in 1 .. Len(Files) :
        /\ output[i] = Content(layout[i], Files[i].length)
        /\ Files[i].length > 0 => layout[i] + Files[i].length <= length
  <2> TAKE i \in 1 .. Len(Files)
  <2>1. /\ output[i] = Content(layout[i], Len(output[i]))
        /\ Len(output[i]) > 0 => layout[i] + Len(output[i]) <= length
        /\ i < index => Len(output[i]) = Files[i].length
    BY <1>1, InvParts DEF Copied
  <2>2. Len(output[i]) = Files[i].length
    <3>1. CASE i < index
      BY <2>1, <3>1
    <3>2. CASE i = index
      <4>1. Len(output[index]) + remaining = Files[index].length
        BY <1>1, <1>2, <3>2, InvParts DEF Copied
      <4>2. QED
        BY <1>1, <1>2, <3>2, <4>1
    <3>3. QED
      BY <1>1, <1>2, <3>1, <3>2
  <2>3. QED
    BY <2>1, <2>2
<1>7. layout # <<>> /\ layout[1] = 0
  <2>1. Len(layout) # 0
    BY <1>2, TorrentType
  <2>2. layout # <<>>
    BY <2>1
  <2>3. QED
    BY <2>2, InvParts DEF Laid
<1>8. ASSUME NEW i \in 1 .. Len(Files), i > 1
      PROVE  layout[i] = layout[i - 1] + Files[i - 1].length
  <2> DEFINE before == layout[i - 1]
             size == Files[i - 1].length
  <2>1. i \in 2 .. Len(layout) /\ i - 1 \in 1 .. Len(Files)
    BY <1>2, <1>8
  <2>2. layout[i] = (before + size) % Word
    BY <2>1, InvParts DEF Laid
  <2>3. /\ before \in 0 .. Word - 1
        /\ size \in 0 .. Word - 1
        /\ size > 0 => before + size <= length
    BY <1>2, <1>6, <2>1
  <2> HIDE DEF before, size
  <2>4. before + size \in 0 .. Word - 1
    BY <1>2, <2>3
  <2>5. (before + size) % Word = before + size
    <3> DEFINE sum == before + size
    <3>1. sum \in Int /\ sum \in 0 .. Word - 1
      BY <2>3, <2>4
    <3> HIDE DEF sum
    <3>2. sum % Word = sum
      BY <1>2, <3>1, Remainder
    <3>3. QED
      BY <3>2 DEF sum
  <2>6. QED
    BY <2>2, <2>5 DEF before, size
<1>9. FilesExact'
  <2>1. Files' = Files /\ layout' = layout /\ output' = output
    BY <1>1 DEF Files
  <2>2. \A i \in 1 .. Len(Files) :
          /\ output[i] = Content(layout[i], Files[i].length)
          /\ i > 1 => layout[i] = layout[i - 1] + Files[i - 1].length
    BY <1>6, <1>8
  <2>3. QED
    BY <1>2, <1>7, <2>1, <2>2 DEF FilesExact, Content
<1>10. QED
  BY <1>3, <1>4, <1>5, <1>9 DEF Inv

-----------------------------------------------------------------------------
(* The theorems *)

LEMMA NextInv == ASSUME Inv, [Next]_vars PROVE Inv'
<1>1. CASE LayoutFile
  BY <1>1, LayoutFileStep
<1>2. CASE RefuseLayout \/ RefuseOpen \/ CannotStore \/ CannotOpenFile
            \/ CannotCopy
  <2>1. Fails
    BY <1>2 DEF RefuseLayout, RefuseOpen, CannotStore, CannotOpenFile, CannotCopy
  <2>2. QED
    BY <2>1, FailsStep
<1>3. CASE Open
  BY <1>3, OpenStep
<1>4. CASE FetchBlock
  BY <1>4, FetchBlockStep
<1>5. CASE StorePiece
  BY <1>5, StorePieceStep
<1>6. ASSUME NEW p \in Pieces, BeginPiece(p) PROVE Inv'
  BY <1>6, BeginPieceStep
<1>7. ASSUME NEW p \in Pieces, CannotBegin(p) PROVE Inv'
  <2>1. Fails
    BY <1>7 DEF CannotBegin
  <2>2. QED
    BY <2>1, FailsStep
<1>8. CASE RenameSingle
  BY <1>8, RenameSingleStep
<1>9. CASE BeginCopy
  BY <1>9, BeginCopyStep
<1>10. CASE OpenFile
  BY <1>10, OpenFileStep
<1>11. CASE CopyChunk
  BY <1>11, CopyChunkStep
<1>12. CASE Finish
  BY <1>12, FinishStep
<1>13. CASE UNCHANGED vars
  <2>1. UNCHANGED <<torrent, checked, phase, index, length, layout, offset, part,
                    completed, piece, data, source, remaining, output>>
    BY <1>13 DEF vars, fetch, copy
  <2>2. /\ Files' = Files /\ Pieces' = Pieces
        /\ \A p : PieceLength(p)' = PieceLength(p) /\ PieceOffset(p)' = PieceOffset(p)
    BY <2>1, SamePieces
  <2>3. TypeOK' /\ Laid'
    BY <2>1, <2>2, InvParts DEF TypeOK, Laid
  <2>4. Sizes' /\ Fetched'
    BY <2>1, <2>2, InvParts DEF Sizes, Fetched, BlocksTile, Content, Smaller
  <2>5. PiecesTile' /\ Sized'
    BY <2>1, <2>2, InvParts DEF PiecesTile, Sized
  <2>6. Copied' /\ FilesExact'
    BY <2>1, <2>2, InvParts DEF Copied, FilesExact, Content
  <2>7. QED
    BY <2>3, <2>4, <2>5, <2>6 DEF Inv
<1>14. QED
  BY <1>1, <1>2, <1>3, <1>4, <1>5, <1>6, <1>7, <1>8, <1>9, <1>10, <1>11, <1>12,
     <1>13 DEF Next, Fetch, Materialize

LEMMA InvHolds == Spec => []Inv
<1>1. Init => Inv
  BY InitInv
<1>2. Inv /\ [Next]_vars => Inv'
  BY NextInv
<1>3. QED
  BY <1>1, <1>2, PTL DEF Spec

\* The state has its types: no length, offset or position leaves its range.
THEOREM TypeCorrect == Spec => []TypeOK
<1>1. Inv => TypeOK
  BY DEF Inv
<1>2. QED
  BY <1>1, InvHolds, PTL

\* Blocks follow one another without gap or overlap, within the piece.
THEOREM BlocksFollow == Spec => []BlocksTile
<1>1. Inv => BlocksTile
  BY DEF Inv, Fetched
<1>2. QED
  BY <1>1, InvHolds, PTL

\* Pieces are put where they belong, in any order: at their place in the
\* content, or, where an unchecked build has wrapped that place around, where
\* no other piece of the torrent is.
THEOREM PiecesAreInPlace == Spec => []PiecesTile
<1>1. Inv => PiecesTile
  BY DEF Inv
<1>2. QED
  BY <1>1, InvHolds, PTL

\* Files that are written are exact, whatever the metadata.
THEOREM FilesAreExact == Spec => []FilesExact
<1>1. Inv => FilesExact
  BY DEF Inv
<1>2. QED
  BY <1>1, InvHolds, PTL

-----------------------------------------------------------------------------
(* The sum of the files' lengths *)

\* Where each file ends in the content; 0 for the one before the first.
IsEnds(g, n) ==
  g = [i \in 0 .. n |-> IF i = 0 THEN 0 ELSE g[i - 1] + Files[i].length]

Ends == CHOOSE g : IsEnds(g, Len(Files))

LEMMA EndsExist ==
  ASSUME torrent \in Torrents
  PROVE  IsEnds(Ends, Len(Files))
<1> DEFINE N == Len(Files)
           S == {n \in 0 .. N : \E g : IsEnds(g, n)}
<1>1. N \in Nat
  BY TorrentType
<1>2. 0 \in S
  <2> DEFINE g == [i \in 0 .. 0 |-> 0]
  <2>1. g = [i \in 0 .. 0 |-> IF i = 0 THEN 0 ELSE g[i - 1] + Files[i].length]
    OBVIOUS
  <2> HIDE DEF g
  <2>2. IsEnds(g, 0)
    BY <2>1 DEF IsEnds
  <2>3. QED
    BY <1>1, <2>2
<1>3. ASSUME NEW n \in 0 .. N - 1, n \in S
      PROVE  n + 1 \in S
  <2>1. n \in Nat /\ n + 1 \in 0 .. N
    BY <1>1
  <2>2. PICK f : IsEnds(f, n)
    BY <1>3
  <2> DEFINE g == [i \in 0 .. n + 1 |-> IF i = n + 1 THEN f[n] + Files[n + 1].length
                                        ELSE f[i]]
             h == [i \in 0 .. n + 1 |-> IF i = 0 THEN 0 ELSE g[i - 1] + Files[i].length]
  <2>3. ASSUME NEW i \in 0 .. n + 1 PROVE g[i] = h[i]
    <3>1. CASE i = n + 1
      <4>1. g[i] = f[n] + Files[n + 1].length
        BY <3>1
      <4>2. i # 0 /\ i - 1 = n /\ n \in 0 .. n + 1 /\ n # n + 1
        BY <2>1, <3>1
      <4>3. g[n] = f[n]
        BY <4>2
      <4>4. h[i] = g[i - 1] + Files[i].length
        BY <4>2
      <4>5. QED
        BY <3>1, <4>1, <4>2, <4>3, <4>4
    <3>2. CASE i # n + 1
      <4>1. i \in 0 .. n
        BY <2>1, <3>2
      <4>2. f[i] = IF i = 0 THEN 0 ELSE f[i - 1] + Files[i].length
        BY <2>2, <4>1 DEF IsEnds
      <4>3. g[i] = f[i]
        BY <3>2
      <4>4. CASE i = 0
        BY <4>2, <4>3, <4>4
      <4>5. CASE i # 0
        <5>1. i - 1 \in 0 .. n + 1 /\ i - 1 # n + 1
          BY <2>1, <4>1, <4>5
        <5>2. g[i - 1] = f[i - 1]
          BY <5>1
        <5>3. QED
          BY <4>2, <4>3, <4>5, <5>2
      <4>6. QED
        BY <4>4, <4>5
    <3>3. QED
      BY <3>1, <3>2
  <2>4. g = h
    BY <2>3
  <2> HIDE DEF g
  <2>5. IsEnds(g, n + 1)
    BY <2>4 DEF IsEnds
  <2>6. QED
    BY <2>1, <2>5
<1>4. N \in S
  <2> HIDE DEF S, N
  <2>1. 0 .. N \subseteq S
    BY <1>1, <1>2, <1>3, Induction
  <2>2. QED
    BY <1>1, <2>1
<1>5. \E g : IsEnds(g, N)
  BY <1>4
<1>6. QED
  BY <1>5 DEF Ends

\* The recursion holds, and no file ends behind the last.
LEMMA EndsType ==
  ASSUME torrent \in Torrents
  PROVE  /\ Ends[0] = 0
         /\ \A i \in 1 .. Len(Files) : Ends[i] = Ends[i - 1] + Files[i].length
         /\ \A i \in 0 .. Len(Files) : Ends[i] \in Nat /\ Ends[i] <= TotalLength
         /\ TotalLength = Ends[Len(Files)]
<1> DEFINE N == Len(Files)
<1>1. /\ N \in Nat
      /\ \A i \in 1 .. N : Files[i].length \in Nat
  BY TorrentType
<1>2. /\ Ends[0] = 0
      /\ \A i \in 1 .. N : Ends[i] = Ends[i - 1] + Files[i].length
  <2>1. Ends = [i \in 0 .. N |-> IF i = 0 THEN 0 ELSE Ends[i - 1] + Files[i].length]
    BY EndsExist DEF IsEnds
  <2> HIDE DEF N
  <2>2. \A i \in 0 .. N : Ends[i] = IF i = 0 THEN 0 ELSE Ends[i - 1] + Files[i].length
    BY <2>1
  <2>3. 0 \in 0 .. N /\ \A i \in 1 .. N : i \in 0 .. N /\ i # 0
    BY <1>1
  <2>4. QED
    BY <2>2, <2>3
<1>3. TotalLength = Ends[N]
  BY DEF TotalLength, Ends, IsEnds
<1> HIDE DEF N
<1>4. \A i \in 0 .. N : Ends[i] \in Nat
  <2> DEFINE S == {i \in 0 .. N : Ends[i] \in Nat}
  <2>1. 0 \in S
    BY <1>1, <1>2
  <2>2. \A i \in 0 .. N - 1 : i \in S => i + 1 \in S
    <3> SUFFICES ASSUME NEW i \in 0 .. N - 1, Ends[i] \in Nat
                 PROVE  i + 1 \in 0 .. N /\ Ends[i + 1] \in Nat
      OBVIOUS
    <3>1. i + 1 \in 1 .. N /\ (i + 1) - 1 = i
      BY <1>1
    <3>2. Ends[i + 1] = Ends[i] + Files[i + 1].length
      BY <1>2, <3>1
    <3>3. QED
      BY <1>1, <3>1, <3>2
  <2> HIDE DEF S
  <2>3. 0 .. N \subseteq S
    BY <1>1, <2>1, <2>2, Induction
  <2>4. QED
    BY <2>3 DEF S
<1>5. \A i \in 0 .. N : Ends[N - i] <= Ends[N]
  <2> DEFINE S == {i \in 0 .. N : Ends[N - i] <= Ends[N]}
  <2>1. 0 \in S
    <3>1. N - 0 = N /\ N \in 0 .. N
      BY <1>1
    <3>2. QED
      BY <1>1, <1>4, <3>1
  <2>2. \A i \in 0 .. N - 1 : i \in S => i + 1 \in S
    <3> SUFFICES ASSUME NEW i \in 0 .. N - 1, Ends[N - i] <= Ends[N]
                 PROVE  i + 1 \in 0 .. N /\ Ends[N - (i + 1)] <= Ends[N]
      OBVIOUS
    <3>1. /\ N - i \in 1 .. N /\ (N - i) - 1 = N - (i + 1)
          /\ N - (i + 1) \in 0 .. N /\ N \in 0 .. N /\ N - i \in 0 .. N
      BY <1>1
    <3>2. Ends[N - i] = Ends[N - (i + 1)] + Files[N - i].length
      BY <1>2, <3>1
    <3>3. /\ Ends[N - (i + 1)] \in Nat /\ Files[N - i].length \in Nat
          /\ Ends[N] \in Nat
      BY <1>1, <1>4, <3>1
    <3>4. QED
      BY <1>1, <3>2, <3>3
  <2> HIDE DEF S
  <2>3. 0 .. N \subseteq S
    BY <1>1, <2>1, <2>2, Induction
  <2>4. QED
    BY <2>3 DEF S
<1>6. \A i \in 0 .. N : Ends[i] <= Ends[N]
  <2> TAKE i \in 0 .. N
  <2>1. N - i \in 0 .. N /\ N - (N - i) = i
    BY <1>1
  <2>2. QED
    BY <1>5, <2>1
<1>7. QED
  BY <1>2, <1>3, <1>4, <1>6 DEF N

-----------------------------------------------------------------------------
(* A download fails only for its metadata. *)

\* With reasonable metadata nothing has wrapped around: the length is that of
\* the files so far, and every file begins where the one before it ends.
Added ==
  /\ phase = "copy" => ~torrent.single
  /\ Reasonable => /\ length = Ends[Len(layout)]
                   /\ \A i \in 1 .. Len(layout) : layout[i] = Ends[i - 1]

CauseInv == Inv /\ Added /\ FailsForCause

\* What a torrent has alone, it keeps.
LEMMA SameTorrent ==
  ASSUME UNCHANGED torrent
  PROVE  Files' = Files /\ Ends' = Ends /\ Reasonable' = Reasonable
<1>1. Files' = Files
  BY DEF Files
<1>2. Ends' = Ends
  BY <1>1 DEF Ends, IsEnds
<1>3. TotalLength' = TotalLength
  BY <1>1 DEF TotalLength
<1>4. Reasonable' = Reasonable
  BY <1>1, <1>3 DEF Reasonable, Before, Safe, Clash
<1>5. QED
  BY <1>1, <1>2, <1>4

LEMMA ReasonableSizes ==
  ASSUME Inv, Reasonable
  PROVE  /\ TotalLength \in Nat /\ TotalLength > 0 /\ 2 * TotalLength < Word
         /\ torrent.pieceLength \in 1 .. Memory /\ torrent.pieces > 0
         /\ Before <= TotalLength /\ TotalLength - Before <= Memory
         /\ Before \in Nat
<1>1. torrent \in Torrents
  BY DEF Inv, TypeOK
<1>2. TotalLength \in Nat
  BY <1>1, EndsType, TorrentType, SMTT(30)
<1>3. Before \in Nat
  <2> DEFINE a == torrent.pieces - 1
             b == torrent.pieceLength
  <2>1. torrent.pieces > 0
    BY DEF Reasonable
  <2>2. a \in Nat /\ b \in Nat
    BY <1>1, <2>1, TorrentNumbers
  <2> HIDE DEF a, b
  <2>3. a * b \in Nat
    BY <2>2, Product
  <2>4. QED
    BY <2>3 DEF Before, a, b
<1>4. QED
  BY <1>2, <1>3 DEF Reasonable

\* Once all files are laid out, the length is the sum.
LEMMA FullLength ==
  ASSUME Inv, Added, Reasonable,
         phase = "layout" => index > Len(Files), phase \notin {"done", "failed"}
  PROVE  length = TotalLength /\ Len(layout) = Len(Files)
<1>1. torrent \in Torrents /\ layout \in Seq(0 .. Word - 1) /\ index \in Nat
      /\ phase \in {"layout", "fetch", "copy", "done", "failed"}
  BY DEF Inv, TypeOK
<1>2. Len(layout) \in Nat /\ Len(Files) \in Nat
  BY <1>1, TorrentType
<1>3. Len(layout) = Len(Files)
  BY <1>1, <1>2 DEF Inv, Laid
<1>4. QED
  BY <1>1, <1>3, EndsType DEF Added

LEMMA RefuseLayoutNever ==
  ASSUME Inv, Added, Reasonable, RefuseLayout
  PROVE  FALSE
<1> DEFINE n == Files[index].length
<1>1. /\ phase = "layout"
      /\ index <= Len(Files)
      /\ \/ ~Accepted(Files[index].path)
         \/ SumOverflows(n)
  BY DEF RefuseLayout
<1>2. torrent \in Torrents /\ layout \in Seq(0 .. Word - 1) /\ index \in Nat
      /\ index = Len(layout) + 1 /\ length = offset
  BY <1>1 DEF Inv, TypeOK, Laid
<1>3. index \in 1 .. Len(Files) /\ Len(layout) = index - 1 /\ Len(Files) \in Nat
  BY <1>1, <1>2, TorrentType
<1>4. Accepted(Files[index].path)
  BY <1>3 DEF Reasonable, Accepted
<1>5. SumOverflows(n)
  BY <1>1, <1>4
<1>6. /\ length = Ends[index - 1] /\ Ends[index] = Ends[index - 1] + n
      /\ Ends[index] \in Nat /\ Ends[index] <= TotalLength /\ length \in Nat
      /\ n \in Nat
  <2>1. length = Ends[Len(layout)]
    BY DEF Added
  <2>2. /\ index \in 0 .. Len(Files) /\ index - 1 \in 0 .. Len(Files)
        /\ Len(layout) = index - 1
    BY <1>3
  <2>3. \A i \in 1 .. Len(Files) : Ends[i] = Ends[i - 1] + Files[i].length
    BY <1>2, EndsType
  <2>4. \A i \in 0 .. Len(Files) : Ends[i] \in Nat /\ Ends[i] <= TotalLength
    BY <1>2, EndsType
  <2>5. n \in 0 .. Word - 1 /\ Word \in Nat
    BY <1>2, <1>3, TorrentType
  <2> HIDE DEF n
  <2>6. n \in Nat
    BY <2>5
  <2>7. Ends[index] = Ends[index - 1] + n
    BY <1>3, <2>3 DEF n
  <2>8. QED
    BY <2>1, <2>2, <2>4, <2>6, <2>7
<1> HIDE DEF n
<1>7. TotalLength \in Nat /\ 2 * TotalLength < Word /\ Word \in Nat
  BY <1>2, ReasonableSizes, TorrentType
<1>8. length + n <= TotalLength
  BY <1>6, <1>7
<1>9. Signed(length) = length /\ Signed(n) = n
  BY <1>6, <1>7, <1>8 DEF Signed
<1>10. ~SumOverflows(n)
  <2>1. offset = length
    BY <1>2
  <2>2. QED
    BY <1>6, <1>7, <1>8, <1>9, <2>1 DEF SumOverflows
<1>11. QED
  BY <1>5, <1>10

LEMMA RefuseOpenNever ==
  ASSUME Inv, Added, Reasonable, RefuseOpen
  PROVE  FALSE
<1>1. phase = "layout" /\ index > Len(Files) /\ ~SelfDescribes
  BY DEF RefuseOpen
<1>2. length = TotalLength
  BY <1>1, FullLength
<1>3. torrent \in Torrents
  BY DEF Inv, TypeOK
<1>4. /\ length \in Nat /\ length > 0 /\ 2 * length < Word
      /\ torrent.pieceLength \in 1 .. Memory
      /\ torrent.pieces > 0
      /\ Memory \in Nat /\ 2 * Memory < Word /\ Word \in Nat
  BY <1>2, <1>3, ReasonableSizes, TorrentType
<1>5. Signed(length) = length /\ Signed(torrent.pieceLength) = torrent.pieceLength
  BY <1>4 DEF Signed
<1>6. QED
  BY <1>1, <1>4, <1>5 DEF SelfDescribes

LEMMA CannotBeginNever ==
  ASSUME Inv, Added, Reasonable, NEW p \in Pieces, CannotBegin(p)
  PROVE  FALSE
<1>1. phase = "fetch" /\ (PieceOverflows(p) \/ PieceLength(p) > Memory)
  BY DEF CannotBegin
<1>2. length = TotalLength
  BY <1>1, FullLength
<1>3. torrent \in Torrents
  BY DEF Inv, TypeOK
<1>4. /\ TotalLength \in Nat /\ TotalLength < Word
      /\ torrent.pieceLength \in 1 .. Memory
      /\ Before <= TotalLength /\ TotalLength - Before <= Memory
      /\ Before \in Nat /\ Word \in Nat /\ Memory \in Nat /\ Word > 0
  BY <1>3, ReasonableSizes, TorrentType, SMTT(30)
<1>5. ~PieceOverflows(p)
  BY <1>2, <1>4 DEF PieceOverflows
<1>6. PieceLength(p) <= Memory
  <2>1. CASE p = torrent.pieces - 1
    <3>1. (length - Before) % Word = length - Before
      <4> DEFINE a == length - Before
      <4>1. a \in Int /\ a \in 0 .. Word - 1
        BY <1>2, <1>4
      <4> HIDE DEF a
      <4>2. a % Word = a
        BY <1>4, <4>1, Remainder
      <4>3. QED
        BY <4>2 DEF a
    <3>2. QED
      BY <1>2, <1>4, <2>1, <3>1 DEF PieceLength
  <2>2. CASE p # torrent.pieces - 1
    BY <1>4, <2>2 DEF PieceLength
  <2>3. QED
    BY <2>1, <2>2
<1>7. PieceLength(p) \in Int
  BY <1>3, LengthType DEF Inv, TypeOK
<1>8. QED
  BY <1>1, <1>4, <1>5, <1>6, <1>7

LEMMA CannotStoreNever ==
  ASSUME Inv, Added, Reasonable, CannotStore
  PROVE  FALSE
<1> DEFINE n == torrent.pieceLength
           last == torrent.pieces - 1
           a == piece * n
           m == PieceLength(piece)
<1>1. /\ phase = "fetch" /\ piece # -1
      /\ Len(data) = m
      /\ ~Seekable
  BY DEF CannotStore, AllBlocks
<1>2. torrent \in Torrents /\ piece \in Pieces /\ length \in 0 .. Word - 1
  BY <1>1 DEF Inv, TypeOK
<1>3. length = TotalLength
  BY <1>1, FullLength
<1>4. /\ TotalLength \in Nat /\ 2 * TotalLength < Word
      /\ Before <= TotalLength /\ Before \in Nat /\ Word \in Nat /\ Word > 0
  BY <1>2, ReasonableSizes, TorrentType
<1>5. /\ a \in Nat /\ m \in Nat /\ n \in Nat
      /\ piece \in Nat /\ last \in Nat /\ piece <= last
  <2>1. a \in Nat /\ m \in Nat /\ n \in Nat
    <3>1. a \in Nat /\ m \in 0 .. Word - 1
      BY <1>2, LengthType, Zenon
    <3>2. n \in Nat /\ Word \in Nat
      BY <1>2, TorrentNumbers
    <3> HIDE DEF a, m, n
    <3>3. QED
      BY <3>1, <3>2
  <2>2. torrent.pieces \in Nat /\ piece \in 0 .. torrent.pieces - 1
    BY <1>2, TorrentNumbers DEF Pieces
  <2>3. piece \in Nat /\ last \in Nat /\ piece <= last
    BY <2>2
  <2>4. QED
    BY <2>1, <2>3
<1>6. Before = last * n
  BY DEF Before
<1>7. a + m <= TotalLength
  <2>1. CASE piece = last
    <3> DEFINE d == length - Before
    <3>1. d \in 0 .. Word - 1 /\ d = TotalLength - Before
      BY <1>3, <1>4
    <3>2. m = d % Word
      BY <2>1 DEF PieceLength
    <3>3. a = Before
      BY <1>6, <2>1
    <3> HIDE DEF a, m, d
    <3>4. m = d
      BY <1>4, <3>1, <3>2, Remainder
    <3>5. QED
      BY <1>4, <3>1, <3>3, <3>4
  <2>2. CASE piece # last
    <3>1. m = n
      BY <2>2 DEF PieceLength
    <3> HIDE DEF last, n, m
    <3>2. piece < last
      BY <1>5, <2>2
    <3>3. a + n <= last * n
      BY <1>5, <3>2, Multiple
    <3> HIDE DEF a
    <3>4. QED
      BY <1>4, <1>5, <1>6, <3>1, <3>3
  <2>3. QED
    BY <2>1, <2>2
<1>8. PieceOffset(piece) = a % Word
  BY DEF PieceOffset
<1> HIDE DEF a, m
<1>9. a % Word = a
  <2>1. a \in 0 .. Word - 1
    BY <1>4, <1>5, <1>7
  <2>2. QED
    BY <1>4, <2>1, Remainder
<1>10. ~(2 * (a + m) < Word)
  BY <1>1, <1>8, <1>9 DEF Seekable
<1>11. QED
  BY <1>4, <1>5, <1>7, <1>10

LEMMA CannotOpenFileNever ==
  ASSUME Inv, Added, Reasonable, CannotOpenFile
  PROVE  FALSE
<1>1. /\ phase = "copy" /\ index < Len(Files)
      /\ \E i \in 1 .. index : Clash(Files[i].path, Files[Following].path)
  BY DEF CannotOpenFile
<1>2. torrent \in Torrents /\ index \in Nat /\ ~torrent.single
  BY <1>1 DEF Inv, TypeOK, Added
<1>3. Len(Files) \in Nat
  BY <1>2, TorrentType
<1>4. Following \in 1 .. Len(Files) /\ 1 .. index = 1 .. Following - 1
  BY <1>1, <1>2, <1>3 DEF Following
<1>5. \A j \in 1 .. Following - 1 : ~Clash(Files[j].path, Files[Following].path)
  BY <1>2, <1>4 DEF Reasonable
<1>6. QED
  BY <1>1, <1>4, <1>5

LEMMA CannotCopyNever ==
  ASSUME Inv, Added, Reasonable, CannotCopy
  PROVE  FALSE
<1> DEFINE from == layout[index]
           old == Len(output[index])
           size == Files[index].length
           k == Chunk
<1>1. phase = "copy" /\ remaining > 0 /\ source + k > Len(part)
  BY DEF CannotCopy
<1>2. /\ torrent \in Torrents
      /\ Len(part) = length /\ length \in Nat
      /\ index \in Nat /\ index <= Len(Files) /\ Len(Files) \in Nat
      /\ remaining \in 0 .. Word - 1 /\ source \in Nat
      /\ Word \in Nat
      /\ Buffer \in Nat \ {0}
  BY <1>1, CopyState
<1>3. index \in 1 .. Len(Files) /\ index > 0
  <2>1. index # 0
    BY <1>1, <1>2 DEF Inv, Copied
  <2>2. QED
    BY <1>2, <2>1
<1>4. source = from + old /\ old + remaining = size
  BY <1>1, <1>3 DEF Inv, Copied
<1>5. old \in Nat /\ from \in Nat /\ size \in Nat
  BY <1>1, <1>2, <1>3, CopyState
<1>6. k <= remaining /\ k \in Nat
  BY <1>1, <1>2 DEF Chunk, Smaller
<1>7. length = TotalLength /\ Len(layout) = Len(Files)
  BY <1>1, FullLength
<1>8. from + size <= TotalLength
  <2>1. from = Ends[index - 1]
    BY <1>3, <1>7 DEF Added
  <2>2. /\ Ends[index] = Ends[index - 1] + size
        /\ index \in 0 .. Len(Files)
        /\ Ends[index] <= TotalLength
    BY <1>2, <1>3, EndsType
  <2>3. QED
    BY <2>1, <2>2
<1> HIDE DEF from, old, size, k
<1>9. TotalLength \in Nat
  BY ReasonableSizes
<1>10. QED
  BY <1>1, <1>2, <1>4, <1>5, <1>6, <1>7, <1>8, <1>9

LEMMA AddedSame ==
  ASSUME Added, UNCHANGED <<torrent, length, layout>>,
         phase' = "copy" => ~torrent.single
  PROVE  Added'
<1>1. Files' = Files /\ Ends' = Ends /\ Reasonable' = Reasonable
  BY SameTorrent
<1>2. QED
  BY <1>1 DEF Added

LEMMA LayoutFileAdds == ASSUME Inv, Added, LayoutFile PROVE Added'
<1> DEFINE n == Files[index].length
<1>1. /\ phase = "layout" /\ phase' = "layout" /\ torrent' = torrent
      /\ index <= Len(Files)
      /\ length' = (length + n) % Word
      /\ layout' = Append(layout, offset)
  BY DEF LayoutFile
<1>2. /\ torrent \in Torrents /\ layout \in Seq(0 .. Word - 1)
      /\ index = Len(layout) + 1 /\ length = offset
      /\ length \in 0 .. Word - 1
  BY <1>1 DEF Inv, TypeOK, Laid
<1>3. /\ Len(layout) \in Nat /\ Len(Files) \in Nat
      /\ index \in 1 .. Len(Files)
      /\ index \in 0 .. Len(Files)
      /\ index - 1 = Len(layout)
  <2>1. Len(layout) \in Nat
    BY <1>2
  <2>2. Len(Files) \in Nat
    BY <1>2, TorrentType
  <2>3. QED
    BY <1>1, <1>2, <2>1, <2>2
<1>4. Files' = Files /\ Ends' = Ends /\ Reasonable' = Reasonable
  BY <1>1, SameTorrent
<1>5. SUFFICES ASSUME Reasonable
               PROVE  /\ length' = Ends[Len(layout')]
                      /\ \A i \in 1 .. Len(layout') : layout'[i] = Ends[i - 1]
  BY <1>1, <1>4 DEF Added
<1>6. /\ length = Ends[index - 1]
      /\ \A i \in 1 .. Len(layout) : layout[i] = Ends[i - 1]
  BY <1>3, <1>5 DEF Added
<1>7. /\ Len(layout') = index
      /\ layout'[index] = offset
      /\ \A i \in 1 .. Len(layout) : layout'[i] = layout[i]
  BY <1>1, <1>2, <1>3
<1>8. length' = Ends[index]
  <2>1. n \in Nat /\ Word \in Nat
    <3>1. n \in 0 .. Word - 1 /\ Word \in Nat
      BY <1>2, <1>3, TorrentType
    <3> HIDE DEF n
    <3>2. QED
      BY <3>1
  <2>2. Ends[index] = Ends[index - 1] + n
    BY <1>2, <1>3, EndsType
  <2>3. Ends[index] \in Nat /\ Ends[index] <= TotalLength
    BY <1>2, <1>3, EndsType
  <2>4. TotalLength \in Nat /\ 2 * TotalLength < Word
    BY <1>5, ReasonableSizes
  <2> HIDE DEF n
  <2>5. length + n = Ends[index] /\ Ends[index] \in 0 .. Word - 1 /\ Word > 0
    BY <1>6, <2>1, <2>2, <2>3, <2>4
  <2>6. Ends[index] \in Int
    BY <2>3
  <2>7. Ends[index] % Word = Ends[index]
    BY <2>1, <2>5, <2>6, Remainder
  <2>8. QED
    BY <1>1, <2>5, <2>7 DEF n
<1>9. ASSUME NEW i \in 1 .. Len(layout') PROVE layout'[i] = Ends[i - 1]
  <2>1. CASE i = index
    BY <1>2, <1>6, <1>7, <2>1
  <2>2. CASE i # index
    <3>1. i \in 1 .. Len(layout)
      BY <1>3, <1>7, <2>2
    <3>2. QED
      BY <1>6, <1>7, <3>1
  <2>3. QED
    BY <2>1, <2>2
<1>10. QED
  BY <1>7, <1>8, <1>9

LEMMA NextAdds == ASSUME Inv, Added, [Next]_vars PROVE Added'
<1>1. CASE LayoutFile
  BY <1>1, LayoutFileAdds
<1>2. CASE RefuseLayout
  BY <1>2, AddedSame DEF RefuseLayout, Fails
<1>3. CASE Open
  BY <1>3, AddedSame DEF Open
<1>4. CASE RefuseOpen
  BY <1>4, AddedSame DEF RefuseOpen, Fails
<1>5. CASE FetchBlock
  BY <1>5, AddedSame DEF FetchBlock
<1>6. CASE StorePiece \/ CannotStore
  BY <1>6, AddedSame DEF StorePiece, CannotStore, AllBlocks, Fails
<1>7. ASSUME NEW p \in Pieces, BeginPiece(p) PROVE Added'
  BY <1>7, AddedSame DEF BeginPiece
<1>8. ASSUME NEW p \in Pieces, CannotBegin(p) PROVE Added'
  BY <1>8, AddedSame DEF CannotBegin, Fails
<1>9. CASE RenameSingle
  BY <1>9, AddedSame DEF RenameSingle
<1>10. CASE BeginCopy
  BY <1>10, AddedSame DEF BeginCopy
<1>11. ASSUME phase = "copy", UNCHANGED <<torrent, length, layout>> PROVE Added'
  BY <1>11, AddedSame DEF Added
<1>12. CASE OpenFile
  BY <1>11, <1>12 DEF OpenFile
<1>13. CASE CannotOpenFile
  BY <1>11, <1>13 DEF CannotOpenFile, Fails
<1>14. CASE CopyChunk
  BY <1>11, <1>14 DEF CopyChunk
<1>15. CASE CannotCopy
  BY <1>11, <1>15 DEF CannotCopy, Fails
<1>16. CASE Finish
  BY <1>11, <1>16 DEF Finish
<1>17. CASE UNCHANGED vars
  <2>1. UNCHANGED <<torrent, length, layout>> /\ phase' = phase
    BY <1>17 DEF vars
  <2>2. phase' = "copy" => ~torrent.single
    BY <2>1 DEF Added
  <2>3. QED
    BY <2>1, <2>2, AddedSame
<1>18. QED
  BY <1>1, <1>2, <1>3, <1>4, <1>5, <1>6, <1>7, <1>8, <1>9, <1>10, <1>12, <1>13,
     <1>14, <1>15, <1>16, <1>17 DEF Next, Fetch, Materialize

\* The step that fails is the one of six that the metadata make fail.
LEMMA NextFails ==
  ASSUME Inv, Added, FailsForCause, [Next]_vars
  PROVE  FailsForCause'
<1> SUFFICES ASSUME phase' = "failed", Reasonable' PROVE FALSE
  BY DEF FailsForCause
<1>1. torrent' = torrent
  BY DEF Next, LayoutFile, RefuseLayout, Open, RefuseOpen, Fetch, FetchBlock,
         StorePiece, CannotStore, BeginPiece, CannotBegin, Materialize,
         RenameSingle, BeginCopy, OpenFile, CannotOpenFile, CopyChunk,
         CannotCopy, Finish, Fails, vars
<1>2. Reasonable
  BY <1>1, SameTorrent
<1>3. phase # "failed"
  BY <1>2 DEF FailsForCause
<1>4. \/ RefuseLayout \/ RefuseOpen \/ CannotStore \/ CannotOpenFile
      \/ CannotCopy \/ \E p \in Pieces : CannotBegin(p)
  BY <1>3 DEF Next, LayoutFile, Open, Fetch, FetchBlock, StorePiece, AllBlocks,
              BeginPiece,
              Materialize, RenameSingle, BeginCopy, OpenFile, CopyChunk, Finish, vars
<1>5. QED
  BY <1>2, <1>4, RefuseLayoutNever, RefuseOpenNever, CannotStoreNever,
     CannotOpenFileNever, CannotCopyNever, CannotBeginNever

\* A download whose peers deliver fails only for its metadata.
THEOREM FailuresHaveCause == Spec => []FailsForCause
<1>1. Init => CauseInv
  <2> SUFFICES ASSUME Init PROVE CauseInv
    OBVIOUS
  <2>1. Inv
    BY InitInv
  <2>2. Len(layout) = 0 /\ length = 0 /\ phase = "layout" /\ torrent \in Torrents
    BY DEF Init
  <2>3. Ends[0] = 0
    BY <2>2, EndsType
  <2>4. QED
    BY <2>1, <2>2, <2>3 DEF CauseInv, Added, FailsForCause
<1>2. CauseInv /\ [Next]_vars => CauseInv'
  <2> SUFFICES ASSUME Inv, Added, FailsForCause, [Next]_vars PROVE CauseInv'
    BY DEF CauseInv
  <2>1. Inv' /\ Added' /\ FailsForCause'
    BY NextInv, NextAdds, NextFails
  <2>2. QED
    BY <2>1 DEF CauseInv
<1>3. CauseInv => FailsForCause
  BY DEF CauseInv
<1>4. QED
  BY <1>1, <1>2, <1>3, PTL DEF Spec

-----------------------------------------------------------------------------
(* The loops end, and no piece is refused *)

\* The rounds left of the loop over the files, in build_layout.
LayoutRounds == IF phase = "layout" THEN Len(Files) + 2 - index ELSE 0

\* A piece that is not complete is begun, fetched in at most as many blocks as
\* it has bytes, and stored.
PieceSteps == (Memory + 2) * Cardinality(Pieces \ completed)
Begun == IF piece = -1 THEN 0 ELSE Memory + 1 - (PieceLength(piece) - Len(data))
FetchRounds == IF phase \in {"layout", "fetch"} THEN PieceSteps - Begun + 1 ELSE 0

\* A file is opened, and copied in at most as many chunks as it has bytes.
CopyRounds == CASE phase \in {"layout", "fetch"} -> Word * Len(Files) + 1
                [] phase = "copy" -> Word * (Len(Files) - index) + remaining + 1
                [] OTHER -> 0

StepsLeft == LayoutRounds + FetchRounds + CopyRounds

\* Every step brings the end nearer: no length, however odd, makes a loop that
\* does not advance.
StepsRunOut == [][StepsLeft' < StepsLeft]_vars

LEMMA FinitePieces ==
  ASSUME torrent \in Torrents
  PROVE  /\ IsFiniteSet(Pieces \ completed)
         /\ Cardinality(Pieces \ completed) \in Nat
<1>1. IsFiniteSet(Pieces)
  <2>1. 0 \in Int /\ torrent.pieces - 1 \in Int
    BY TorrentType
  <2>2. QED
    BY <2>1, FS_Interval DEF Pieces
<1>2. IsFiniteSet(Pieces \ completed)
  BY <1>1, FS_Difference
<1>3. QED
  BY <1>2, FS_CardinalityType

LEMMA Distribute ==
  ASSUME NEW m \in Nat, NEW n \in Nat, n > 0
  PROVE  /\ m * n \in Nat
         /\ m * (n - 1) \in Nat
         /\ m * n = m * (n - 1) + m
<1>1. PICK k \in Nat : n = k + 1
  <2>1. n - 1 \in Nat /\ n = (n - 1) + 1
    OBVIOUS
  <2>2. QED
    BY <2>1
<1>2. m * n = m * k + m /\ n - 1 = k
  BY <1>1
<1>3. m * k \in Nat
  OBVIOUS
<1>4. QED
  BY <1>2, <1>3

LEMMA LayoutRoundsType == Inv => LayoutRounds \in Nat
<1> SUFFICES ASSUME Inv PROVE LayoutRounds \in Nat
  OBVIOUS
<1>1. torrent \in Torrents /\ layout \in Seq(0 .. Word - 1) /\ index \in Nat
  BY DEF Inv, TypeOK
<1>2. Len(Files) \in Nat /\ Len(layout) \in Nat
  BY <1>1, TorrentType
<1>3. phase = "layout" => index = Len(layout) + 1 /\ Len(layout) <= Len(Files)
  BY DEF Inv, Laid
<1>4. QED
  BY <1>2, <1>3 DEF LayoutRounds

\* What has been begun of a piece is less than the piece costs.
LEMMA BegunType ==
  ASSUME Inv
  PROVE  /\ Begun \in 0 .. Memory + 1
         /\ piece # -1 => /\ piece \in Pieces \ completed
                          /\ Begun > 0
                          /\ PieceSteps \in Nat /\ PieceSteps >= Memory + 2
         /\ PieceSteps \in Nat
<1>1. /\ torrent \in Torrents /\ length \in 0 .. Word - 1 /\ data \in Seq(Int)
      /\ piece \in Pieces \union {-1}
  BY DEF Inv, TypeOK
<1>2. Memory \in Nat
  BY <1>1, TorrentType
<1>3. PieceSteps \in Nat
  <2> DEFINE n == Cardinality(Pieces \ completed)
             m == Memory + 2
  <2>1. n \in Nat /\ m \in Nat
    BY <1>1, <1>2, FinitePieces
  <2> HIDE DEF n, m
  <2>2. m * n \in Nat
    BY <2>1
  <2>3. QED
    BY <2>2 DEF PieceSteps, n, m
<1>4. CASE piece = -1
  BY <1>2, <1>3, <1>4 DEF Begun
<1>5. CASE piece # -1
  <2>1. piece \in Pieces \ completed /\ PieceLength(piece) <= Memory
    BY <1>1, <1>5 DEF Inv, Sizes
  <2>2. PieceLength(piece) \in Nat /\ Len(data) \in Nat /\ Len(data) <= PieceLength(piece)
    <3>1. PieceLength(piece) \in 0 .. Word - 1
      BY <1>1, <2>1, LengthType
    <3>2. Word \in Nat
      BY <1>1, TorrentType
    <3>3. QED
      BY <1>1, <1>5, <3>1, <3>2 DEF Inv, Fetched, BlocksTile
  <2>3. Begun \in 0 .. Memory + 1 /\ Begun > 0
    BY <1>2, <1>5, <2>1, <2>2 DEF Begun
  <2>4. PieceSteps >= Memory + 2
    <3> DEFINE n == Cardinality(Pieces \ completed)
               m == Memory + 2
    <3>1. n # 0
      BY <1>1, <2>1, FinitePieces, FS_EmptySet
    <3>2. n \in Nat /\ n > 0 /\ m \in Nat
      BY <1>1, <1>2, <3>1, FinitePieces
    <3> HIDE DEF n, m
    <3>3. m * n >= m
      BY <3>2, Distribute
    <3>4. QED
      BY <3>3 DEF PieceSteps, n, m
  <2>5. QED
    BY <1>3, <2>1, <2>3, <2>4
<1>6. QED
  BY <1>4, <1>5

LEMMA FetchRoundsType ==
  Inv => FetchRounds \in Nat /\ (phase \in {"layout", "fetch"} => FetchRounds > 0)
<1> SUFFICES ASSUME Inv
             PROVE  FetchRounds \in Nat /\ (phase \in {"layout", "fetch"} => FetchRounds > 0)
  OBVIOUS
<1>1. Memory \in Nat
  BY TorrentType DEF Inv, TypeOK
<1>2. Begun \in 0 .. Memory + 1 /\ PieceSteps \in Nat
      /\ (Begun = 0 \/ PieceSteps >= Memory + 2)
  BY BegunType DEF Begun
<1>3. PieceSteps - Begun \in Nat
  BY <1>1, <1>2
<1>4. QED
  BY <1>3 DEF FetchRounds

LEMMA CopyRoundsType ==
  Inv => CopyRounds \in Nat /\ (phase \in {"layout", "fetch", "copy"} => CopyRounds > 0)
<1> SUFFICES ASSUME Inv
             PROVE  CopyRounds \in Nat
                    /\ (phase \in {"layout", "fetch", "copy"} => CopyRounds > 0)
  OBVIOUS
<1>1. torrent \in Torrents /\ index \in Nat /\ remaining \in 0 .. Word - 1
  BY DEF Inv, TypeOK
<1>2. Len(Files) \in Nat /\ Word \in Nat
  BY <1>1, TorrentType
<1>3. CASE phase \in {"layout", "fetch"}
  <2>1. Word * Len(Files) \in Nat
    BY <1>2, Product
  <2>2. QED
    BY <1>3, <2>1 DEF CopyRounds
<1>4. CASE phase = "copy"
  <2>1. Len(Files) - index \in Nat
    BY <1>1, <1>2, <1>4 DEF Inv, Copied
  <2>2. Word * (Len(Files) - index) \in Nat
    BY <1>2, <2>1, Product
  <2>3. remaining \in Nat
    BY <1>1, <1>2
  <2>4. QED
    BY <1>4, <2>2, <2>3 DEF CopyRounds
<1>5. CASE phase \notin {"layout", "fetch", "copy"}
  BY <1>5 DEF CopyRounds
<1>6. QED
  BY <1>3, <1>4, <1>5

LEMMA RoundsTypes ==
  Inv => LayoutRounds \in Nat /\ FetchRounds \in Nat /\ CopyRounds \in Nat
BY LayoutRoundsType, FetchRoundsType, CopyRoundsType

LEMMA RoundsTypesStill ==
  Inv' => (LayoutRounds \in Nat /\ FetchRounds \in Nat /\ CopyRounds \in Nat)'
BY RoundsTypes, PTL

LEMMA LowerOne ==
  ASSUME NEW a \in Nat, NEW b \in Nat, NEW c \in Nat,
         NEW a1 \in Nat, NEW b1 \in Nat, NEW c1 \in Nat,
         a1 <= a, b1 <= b, c1 <= c, a1 < a \/ b1 < b \/ c1 < c
  PROVE  a1 + b1 + c1 < a + b + c
OBVIOUS

LEMMA Advance ==
  ASSUME Inv, Inv',
         LayoutRounds' <= LayoutRounds, FetchRounds' <= FetchRounds,
         CopyRounds' <= CopyRounds,
         \/ LayoutRounds' < LayoutRounds
         \/ FetchRounds' < FetchRounds
         \/ CopyRounds' < CopyRounds
  PROVE  StepsLeft' < StepsLeft
<1>1. /\ LayoutRounds \in Nat /\ FetchRounds \in Nat /\ CopyRounds \in Nat
      /\ LayoutRounds' \in Nat /\ FetchRounds' \in Nat /\ CopyRounds' \in Nat
  BY RoundsTypes, RoundsTypesStill, Zenon
<1>2. LayoutRounds' + FetchRounds' + CopyRounds' < LayoutRounds + FetchRounds + CopyRounds
  BY <1>1, LowerOne, Zenon
<1>3. StepsLeft' = LayoutRounds' + FetchRounds' + CopyRounds'
  BY DEF StepsLeft
<1>4. StepsLeft = LayoutRounds + FetchRounds + CopyRounds
  BY DEF StepsLeft
<1>5. QED
  BY <1>2, <1>3, <1>4, Zenon

\* A phase that is over costs nothing more.
LEMMA PhaseAdvances ==
  ASSUME Inv, Inv',
         \/ phase \in {"layout", "fetch", "copy"} /\ phase' \in {"failed", "done"}
         \/ Open
         \/ BeginCopy
  PROVE  StepsLeft' < StepsLeft
<1>1. /\ LayoutRounds \in Nat /\ FetchRounds \in Nat /\ CopyRounds \in Nat
      /\ LayoutRounds' \in Nat /\ FetchRounds' \in Nat /\ CopyRounds' \in Nat
  BY RoundsTypes, RoundsTypesStill, Zenon
<1>2. CASE phase \in {"layout", "fetch", "copy"} /\ phase' \in {"failed", "done"}
  <2>1. LayoutRounds' = 0 /\ FetchRounds' = 0 /\ CopyRounds' = 0
    BY <1>2 DEF LayoutRounds, FetchRounds, CopyRounds
  <2>2. CopyRounds > 0
    BY <1>2, CopyRoundsType
  <2>3. LayoutRounds' <= LayoutRounds /\ FetchRounds' <= FetchRounds
        /\ CopyRounds' < CopyRounds /\ CopyRounds' <= CopyRounds
    BY <1>1, <2>1, <2>2
  <2>4. QED
    BY <2>3, Advance
<1>3. CASE Open
  <2>1. /\ phase = "layout" /\ phase' = "fetch"
        /\ UNCHANGED <<torrent, index, length, completed, piece, data>>
    BY <1>3 DEF Open, fetch
  <2>2. LayoutRounds > 0
    <3>1. index = Len(layout) + 1 /\ Len(layout) <= Len(Files)
      BY <2>1 DEF Inv, Laid
    <3>2. Len(Files) \in Nat /\ Len(layout) \in Nat
      BY TorrentType DEF Inv, TypeOK
    <3>3. QED
      BY <2>1, <3>1, <3>2 DEF LayoutRounds
  <2>3. LayoutRounds' = 0
    BY <2>1 DEF LayoutRounds
  <2>4. Files' = Files /\ Pieces' = Pieces /\ \A p : PieceLength(p)' = PieceLength(p)
    BY <2>1, SamePieces
  <2>5. FetchRounds' = FetchRounds
    <3>1. PieceSteps' = PieceSteps /\ Begun' = Begun
      BY <2>1, <2>4 DEF PieceSteps, Begun, PieceLength, Before
    <3>2. QED
      BY <2>1, <3>1 DEF FetchRounds
  <2>6. CopyRounds' = CopyRounds
    BY <2>1, <2>4 DEF CopyRounds
  <2>7. LayoutRounds' < LayoutRounds /\ LayoutRounds' <= LayoutRounds
        /\ FetchRounds' <= FetchRounds /\ CopyRounds' <= CopyRounds
    BY <1>1, <2>2, <2>3, <2>5, <2>6
  <2>8. QED
    BY <2>7, Advance
<1>4. CASE BeginCopy
  <2>1. /\ phase = "fetch" /\ phase' = "copy" /\ index' = 0 /\ remaining' = 0
        /\ torrent' = torrent
    BY <1>4 DEF BeginCopy
  <2>2. LayoutRounds' = 0 /\ FetchRounds' = 0
    BY <2>1 DEF LayoutRounds, FetchRounds
  <2>3. FetchRounds > 0
    BY <2>1, FetchRoundsType
  <2>4. CopyRounds' = CopyRounds
    <3>1. Files' = Files /\ Len(Files) \in Nat
      BY <2>1, TorrentType DEF Files, Inv, TypeOK
    <3>2. CopyRounds = Word * Len(Files) + 1
      BY <2>1 DEF CopyRounds
    <3>3. CopyRounds' = Word * (Len(Files) - 0) + 0 + 1
      BY <2>1, <3>1 DEF CopyRounds
    <3>4. Word * Len(Files) \in Nat /\ Len(Files) - 0 = Len(Files)
      BY <3>1, SizesAssumption, Product DEF SizesAssumption
    <3>5. QED
      BY <3>2, <3>3, <3>4
  <2>5. LayoutRounds' <= LayoutRounds /\ FetchRounds' < FetchRounds
        /\ FetchRounds' <= FetchRounds /\ CopyRounds' <= CopyRounds
    BY <1>1, <2>2, <2>3, <2>4
  <2>6. QED
    BY <2>5, Advance
<1>5. QED
  BY <1>2, <1>3, <1>4

LEMMA LayoutFileAdvances ==
  ASSUME Inv, Inv', LayoutFile PROVE StepsLeft' < StepsLeft
<1>1. /\ phase = "layout" /\ phase' = "layout" /\ index' = index + 1
      /\ UNCHANGED <<torrent, completed, piece, data>>
  BY DEF LayoutFile, fetch
<1>2. Files' = Files /\ Pieces' = Pieces
  BY <1>1 DEF Files, Pieces
<1>3. piece = -1
  BY <1>1 DEF Inv, Sizes
<1>4. LayoutRounds' < LayoutRounds
  <2>1. index \in Nat /\ Len(Files) \in Nat
    BY TorrentType DEF Inv, TypeOK
  <2>2. QED
    BY <1>1, <1>2, <2>1 DEF LayoutRounds
<1>5. FetchRounds' = FetchRounds /\ CopyRounds' = CopyRounds
  BY <1>1, <1>2, <1>3 DEF FetchRounds, PieceSteps, Begun, CopyRounds
<1>6. LayoutRounds' <= LayoutRounds /\ FetchRounds' <= FetchRounds
      /\ CopyRounds' <= CopyRounds
  <2>1. /\ LayoutRounds \in Nat /\ FetchRounds \in Nat /\ CopyRounds \in Nat
        /\ LayoutRounds' \in Nat
    BY RoundsTypes, RoundsTypesStill, Zenon
  <2>2. QED
    BY <1>4, <1>5, <2>1
<1>7. QED
  BY <1>4, <1>6, Advance

\* A step of a fetch that brings a piece nearer to its end.
LEMMA FetchAdvances ==
  ASSUME Inv, Inv', phase = "fetch", phase' = "fetch", torrent' = torrent,
         FetchRounds' < FetchRounds
  PROVE  StepsLeft' < StepsLeft
<1>1. LayoutRounds = 0 /\ LayoutRounds' = 0
  BY DEF LayoutRounds
<1>2. Files' = Files
  BY DEF Files
<1>3. CopyRounds' = CopyRounds
  BY <1>2 DEF CopyRounds
<1>4. LayoutRounds' <= LayoutRounds /\ FetchRounds' <= FetchRounds
      /\ CopyRounds' <= CopyRounds
  <2>1. /\ FetchRounds \in Nat /\ FetchRounds' \in Nat /\ CopyRounds \in Nat
    BY RoundsTypes, RoundsTypesStill, Zenon
  <2>2. QED
    BY <1>1, <1>3, <2>1
<1>5. QED
  BY <1>4, Advance

LEMMA BegunTypeStill == Inv' => (Begun \in Nat /\ PieceSteps \in Nat)'
<1>1. Inv => Begun \in Nat /\ PieceSteps \in Nat
  <2> SUFFICES ASSUME Inv PROVE Begun \in Nat /\ PieceSteps \in Nat
    OBVIOUS
  <2>1. Memory \in Nat
    BY TorrentType DEF Inv, TypeOK
  <2>2. QED
    BY <2>1, BegunType
<1>2. QED
  BY <1>1, PTL

LEMMA LessLeft ==
  ASSUME NEW s \in Nat, NEW b \in Nat, NEW c \in Nat, b < c
  PROVE  s - c + 1 < s - b + 1
OBVIOUS

LEMMA BeginPieceAdvances ==
  ASSUME Inv, Inv', NEW p \in Pieces, BeginPiece(p) PROVE StepsLeft' < StepsLeft
<1>1. /\ phase = "fetch" /\ phase' = "fetch" /\ piece = -1 /\ piece' = p /\ data' = <<>>
      /\ UNCHANGED <<torrent, length, completed>>
      /\ PieceLength(p) <= Memory
  BY DEF BeginPiece
<1>2. Pieces' = Pieces /\ \A q : PieceLength(q)' = PieceLength(q)
  BY <1>1, SamePieces
<1>3. PieceSteps' = PieceSteps
  BY <1>1, <1>2 DEF PieceSteps
<1>4. Begun = 0
  BY <1>1 DEF Begun
<1>5. Begun' > 0
  <2>1. PieceLength(p) \in Nat /\ Memory \in Nat /\ p # -1
    <3>1. PieceLength(p) \in 0 .. Word - 1 /\ p \in Nat
      BY LengthType DEF Inv, TypeOK
    <3>2. Word \in Nat /\ Memory \in Nat
      BY TorrentType DEF Inv, TypeOK
    <3>3. QED
      BY <3>1, <3>2
  <2>2. Begun' = Memory + 1 - (PieceLength(p) - 0)
    BY <1>1, <1>2, <2>1 DEF Begun, PieceLength, Before
  <2>3. QED
    BY <1>1, <2>1, <2>2
<1>6. FetchRounds' < FetchRounds
  <2>1. PieceSteps \in Nat /\ Begun' \in Nat
    BY BegunType, BegunTypeStill
  <2>2. FetchRounds = PieceSteps - Begun + 1
    BY <1>1 DEF FetchRounds
  <2>3. FetchRounds' = PieceSteps - Begun' + 1
    BY <1>1, <1>3 DEF FetchRounds
  <2>4. Begun \in Nat /\ Begun < Begun'
    BY <1>4, <1>5, <2>1
  <2>5. PieceSteps - Begun' + 1 < PieceSteps - Begun + 1
    BY <2>1, <2>4, LessLeft, Zenon
  <2>6. QED
    BY <2>2, <2>3, <2>5, Zenon
<1>7. QED
  BY <1>1, <1>6, FetchAdvances

LEMMA FetchBlockAdvances ==
  ASSUME Inv, Inv', FetchBlock PROVE StepsLeft' < StepsLeft
<1>1. /\ phase = "fetch" /\ phase' = "fetch" /\ piece # -1 /\ piece' = piece
      /\ index' = index + 1
      /\ index * Block < PieceLength(piece)
      /\ UNCHANGED <<torrent, length, completed>>
  BY DEF FetchBlock
<1>2. Pieces' = Pieces /\ \A q : PieceLength(q)' = PieceLength(q)
  BY <1>1, SamePieces
<1>3. PieceSteps' = PieceSteps
  BY <1>1, <1>2 DEF PieceSteps
<1>4. /\ index \in Nat /\ Block \in Nat \ {0} /\ Memory \in Nat
      /\ PieceLength(piece) \in Nat
      /\ Len(data) = Smaller(index * Block, PieceLength(piece))
      /\ Len(data') = Smaller((index + 1) * Block, PieceLength(piece))
  <2>1. index \in Nat /\ piece \in Pieces /\ length \in 0 .. Word - 1 /\ torrent \in Torrents
    BY <1>1 DEF Inv, TypeOK
  <2>2. Word \in Nat /\ Memory \in Nat /\ Block \in Nat \ {0}
    BY <2>1, TorrentType
  <2>3. PieceLength(piece) \in 0 .. Word - 1
    BY <2>1, LengthType
  <2>4. PieceLength(piece)' = PieceLength(piece)
    BY <1>1 DEF PieceLength, Before
  <2>5. QED
    BY <1>1, <2>1, <2>2, <2>3, <2>4 DEF Inv, Fetched, Smaller
<1>5. Len(data') > Len(data) /\ Len(data) \in Nat /\ Len(data') \in Nat
  <2> DEFINE b == index * Block
             m == PieceLength(piece)
  <2>1. (index + 1) * Block = b + Block /\ b \in Nat
    BY <1>4, Product
  <2>2. m \in Nat /\ b < m
    BY <1>1, <1>4
  <2>3. Len(data) = Smaller(b, m) /\ Len(data') = Smaller(b + Block, m)
    BY <1>4, <2>1
  <2> HIDE DEF b, m
  <2>4. QED
    BY <1>4, <2>1, <2>2, <2>3 DEF Smaller
<1>6. /\ Begun = Memory + 1 - (PieceLength(piece) - Len(data))
      /\ Begun' = Memory + 1 - (PieceLength(piece) - Len(data'))
  <2>1. PieceLength(piece)' = PieceLength(piece)
    BY <1>1 DEF PieceLength, Before
  <2>2. QED
    BY <1>1, <2>1 DEF Begun
<1>7. Begun' > Begun
  <2> DEFINE m == PieceLength(piece)
  <2>1. Begun = Memory + 1 - (m - Len(data)) /\ Begun' = Memory + 1 - (m - Len(data'))
        /\ m \in Nat
    BY <1>4, <1>6
  <2> HIDE DEF m
  <2>2. QED
    BY <1>4, <1>5, <2>1
<1>8. FetchRounds' < FetchRounds
  <2>1. PieceSteps \in Nat /\ Begun' \in Nat /\ Begun \in Nat
    <3>1. Memory \in Nat
      BY <1>4
    <3>2. QED
      BY <3>1, BegunType, BegunTypeStill
  <2>2. FetchRounds = PieceSteps - Begun + 1
    BY <1>1 DEF FetchRounds
  <2>3. FetchRounds' = PieceSteps - Begun' + 1
    BY <1>1, <1>3 DEF FetchRounds
  <2>4. Begun < Begun'
    BY <1>7, <2>1
  <2>5. PieceSteps - Begun' + 1 < PieceSteps - Begun + 1
    BY <2>1, <2>4, LessLeft, Zenon
  <2>6. QED
    BY <2>2, <2>3, <2>5, Zenon
<1>9. QED
  BY <1>1, <1>8, FetchAdvances

LEMMA StorePieceAdvances ==
  ASSUME Inv, Inv', StorePiece PROVE StepsLeft' < StepsLeft
<1>1. /\ phase = "fetch" /\ phase' = "fetch" /\ piece # -1 /\ piece' = -1
      /\ completed' = completed \union {piece}
      /\ UNCHANGED <<torrent, length>>
      /\ Len(data) = PieceLength(piece)
  BY DEF StorePiece, AllBlocks
<1>2. Pieces' = Pieces
  BY <1>1, SamePieces
<1>3. torrent \in Torrents /\ Memory \in Nat
  BY TorrentType DEF Inv, TypeOK
<1>4. piece \in Pieces \ completed
  BY <1>1, BegunType
<1> DEFINE n == Cardinality(Pieces \ completed)
           m == Memory + 2
<1>5. n \in Nat /\ n > 0 /\ Cardinality(Pieces' \ completed') = n - 1
  <2>1. Pieces' \ completed' = (Pieces \ completed) \ {piece}
    BY <1>1, <1>2
  <2>2. n # 0
    BY <1>3, <1>4, FinitePieces, FS_EmptySet
  <2>3. Cardinality((Pieces \ completed) \ {piece}) = n - 1
    BY <1>3, <1>4, FinitePieces, FS_RemoveElement
  <2>4. n \in Nat
    BY <1>3, FinitePieces
  <2> HIDE DEF n
  <2>5. QED
    BY <2>1, <2>2, <2>3, <2>4
<1>6. PieceSteps = m * n /\ PieceSteps' = m * (n - 1)
  BY <1>5 DEF PieceSteps
<1>7. Begun = Memory + 1 /\ Begun' = 0
  <2>1. PieceLength(piece) \in Nat
    <3>1. PieceLength(piece) \in 0 .. Word - 1
      BY <1>4, LengthType DEF Inv, TypeOK
    <3>2. Word \in Nat
      BY <1>3, TorrentType
    <3>3. QED
      BY <3>1, <3>2
  <2>2. PieceLength(piece) - Len(data) = 0
    BY <1>1, <2>1
  <2>3. QED
    BY <1>1, <1>3, <2>2 DEF Begun
<1>8. FetchRounds' < FetchRounds
  <2>1. FetchRounds = m * n - (Memory + 1) + 1 /\ FetchRounds' = m * (n - 1) - 0 + 1
    BY <1>1, <1>6, <1>7 DEF FetchRounds
  <2>2. m \in Nat
    BY <1>3
  <2> HIDE DEF n
  <2>3. /\ m * n \in Nat /\ m * (n - 1) \in Nat
        /\ m * n = m * (n - 1) + m
    BY <1>5, <2>2, Distribute
  <2> DEFINE a == m * n
             b == m * (n - 1)
  <2>4. a \in Nat /\ b \in Nat /\ a = b + m /\ FetchRounds = a - (Memory + 1) + 1
        /\ FetchRounds' = b - 0 + 1
    BY <2>1, <2>3
  <2> HIDE DEF a, b
  <2>5. QED
    BY <1>3, <2>4
<1>9. QED
  BY <1>1, <1>8, FetchAdvances

\* A step of the copy that brings a file nearer to its end.
LEMMA CopyAdvances ==
  ASSUME Inv, Inv', phase = "copy", phase' = "copy", CopyRounds' < CopyRounds
  PROVE  StepsLeft' < StepsLeft
<1>1. LayoutRounds = 0 /\ LayoutRounds' = 0 /\ FetchRounds = 0 /\ FetchRounds' = 0
  BY DEF LayoutRounds, FetchRounds
<1>2. LayoutRounds' <= LayoutRounds /\ FetchRounds' <= FetchRounds
      /\ CopyRounds' <= CopyRounds
  <2>1. CopyRounds \in Nat /\ CopyRounds' \in Nat
    BY RoundsTypes, RoundsTypesStill, Zenon
  <2>2. QED
    BY <1>1, <2>1
<1>3. QED
  BY <1>2, Advance

LEMMA OpenFileAdvances ==
  ASSUME Inv, Inv', OpenFile PROVE StepsLeft' < StepsLeft
<1>1. /\ phase = "copy" /\ phase' = "copy" /\ remaining = 0 /\ index < Len(Files)
      /\ index' = index + 1 /\ remaining' = Files[index + 1].length
      /\ torrent' = torrent
  BY DEF OpenFile, Following
<1>2. torrent \in Torrents /\ index \in Nat
  BY DEF Inv, TypeOK
<1>3. /\ Len(Files) \in Nat /\ Word \in Nat /\ Files[index + 1].length \in 0 .. Word - 1
  <2>1. /\ Len(Files) \in Nat /\ Word \in Nat
        /\ \A i \in 1 .. Len(Files) : Files[i].length \in 0 .. Word - 1
    BY <1>2, TorrentType, Zenon
  <2>2. index + 1 \in 1 .. Len(Files)
    <3>1. index < Len(Files) /\ index \in Nat
      BY <1>1, <1>2
    <3> HIDE DEF Inv
    <3>2. QED
      BY <2>1, <3>1
  <2>3. QED
    BY <2>1, <2>2, Zenon
<1> DEFINE n == Len(Files) - index
<1>4. n \in Nat /\ n > 0
  BY <1>1, <1>2, <1>3
<1>5. CopyRounds = Word * n + 0 + 1
  BY <1>1 DEF CopyRounds
<1>6. CopyRounds' = Word * (n - 1) + Files[index + 1].length + 1
  <2>1. Files' = Files
    BY <1>1 DEF Files
  <2>2. Len(Files) - (index + 1) = n - 1
    BY <1>2, <1>3
  <2>3. CopyRounds' = Word * (Len(Files) - (index + 1)) + Files[index + 1].length + 1
    BY <1>1, <2>1 DEF CopyRounds
  <2>4. QED
    BY <2>2, <2>3
<1>7. CopyRounds' < CopyRounds
  <2> HIDE DEF n
  <2>1. /\ Word * n \in Nat /\ Word * (n - 1) \in Nat
        /\ Word * n = Word * (n - 1) + Word
    BY <1>3, <1>4, Distribute
  <2> DEFINE a == Word * n
             b == Word * (n - 1)
             l == Files[index + 1].length
  <2>2. /\ a \in Nat /\ b \in Nat /\ a = b + Word /\ l \in 0 .. Word - 1
        /\ CopyRounds = a + 0 + 1 /\ CopyRounds' = b + l + 1
    BY <1>3, <1>5, <1>6, <2>1
  <2> HIDE DEF a, b, l
  <2>3. QED
    BY <1>3, <2>2
<1>8. QED
  BY <1>1, <1>7, CopyAdvances

LEMMA CopyChunkAdvances ==
  ASSUME Inv, Inv', CopyChunk PROVE StepsLeft' < StepsLeft
<1>1. /\ phase = "copy" /\ phase' = "copy" /\ remaining > 0
      /\ remaining' = remaining - Chunk
      /\ UNCHANGED <<torrent, index>>
  BY DEF CopyChunk
<1>2. torrent \in Torrents /\ index \in Nat /\ remaining \in 0 .. Word - 1
  BY DEF Inv, TypeOK
<1>3. /\ Len(Files) \in Nat /\ Word \in Nat /\ Buffer \in Nat \ {0} /\ remaining \in Nat
  BY <1>2, TorrentType
<1>4. Chunk \in Nat /\ Chunk > 0 /\ Chunk <= remaining
  BY <1>1, <1>3 DEF Chunk, Smaller
<1>5. Files' = Files
  BY <1>1 DEF Files
<1> DEFINE a == Word * (Len(Files) - index)
<1>6. a \in Nat
  <2>1. Len(Files) - index \in Nat
    BY <1>1, <1>2, <1>3 DEF Inv, Copied
  <2>2. QED
    BY <1>3, <2>1, Product
<1>7. CopyRounds = a + remaining + 1 /\ CopyRounds' = a + remaining' + 1
  BY <1>1, <1>5 DEF CopyRounds
<1> HIDE DEF a
<1>8. CopyRounds' < CopyRounds
  BY <1>1, <1>3, <1>4, <1>6, <1>7
<1>9. QED
  BY <1>1, <1>8, CopyAdvances

LEMMA NextAdvances ==
  ASSUME Inv, Inv', Next PROVE StepsLeft' < StepsLeft
<1>1. CASE LayoutFile
  BY <1>1, LayoutFileAdvances
<1>2. CASE RefuseLayout \/ RefuseOpen \/ CannotStore \/ CannotOpenFile
            \/ CannotCopy \/ \E p \in Pieces : CannotBegin(p)
  <2>1. phase \in {"layout", "fetch", "copy"} /\ phase' = "failed"
    BY <1>2 DEF RefuseLayout, RefuseOpen, CannotStore, AllBlocks, CannotOpenFile,
                CannotCopy, CannotBegin, Fails
  <2>2. QED
    BY <2>1, PhaseAdvances
<1>3. CASE Open \/ BeginCopy
  BY <1>3, PhaseAdvances
<1>4. CASE RenameSingle \/ Finish
  <2>1. phase \in {"layout", "fetch", "copy"} /\ phase' = "done"
    BY <1>4 DEF RenameSingle, Finish
  <2>2. QED
    BY <2>1, PhaseAdvances
<1>5. CASE FetchBlock
  BY <1>5, FetchBlockAdvances
<1>6. CASE StorePiece
  BY <1>6, StorePieceAdvances
<1>7. ASSUME NEW p \in Pieces, BeginPiece(p) PROVE StepsLeft' < StepsLeft
  BY <1>7, BeginPieceAdvances
<1>8. CASE OpenFile
  BY <1>8, OpenFileAdvances
<1>9. CASE CopyChunk
  BY <1>9, CopyChunkAdvances
<1>10. QED
  BY <1>1, <1>2, <1>3, <1>4, <1>5, <1>6, <1>7, <1>8, <1>9 DEF Next, Fetch, Materialize

\* Every step, of any loop, lowers a natural number: whatever the lengths, the
\* download comes to its end after finitely many.
THEOREM EveryLoopAdvances == Spec => StepsRunOut /\ [](StepsLeft \in Nat)
<1>1. Inv /\ Inv' /\ [Next]_vars => [StepsLeft' < StepsLeft]_vars
  BY NextAdvances
<1>2. Inv => StepsLeft \in Nat
  <2> SUFFICES ASSUME Inv PROVE StepsLeft \in Nat
    OBVIOUS
  <2>1. LayoutRounds \in Nat /\ FetchRounds \in Nat /\ CopyRounds \in Nat
    BY RoundsTypes
  <2>2. QED
    BY <2>1 DEF StepsLeft
<1>3. QED
  BY <1>1, <1>2, InvHolds, PTL DEF Spec, StepsRunOut

\* A piece for which there is no further block to ask has the length that the
\* storage expects of it.
PieceFits ==
  phase = "fetch" /\ piece # -1 /\ ~(index * Block < PieceLength(piece))
    => Len(data) = PieceLength(piece)

\* However odd the lengths of the torrent are, the blocks that fetch_piece asks
\* for add up to the length that write_verified_piece demands: no piece is
\* refused for its length, and the download never stops at one.
THEOREM NoPieceIsRefused == Spec => []PieceFits
<1>1. Inv => PieceFits
  <2> SUFFICES ASSUME Inv, phase = "fetch", piece # -1,
                      ~(index * Block < PieceLength(piece))
               PROVE  Len(data) = PieceLength(piece)
    BY DEF PieceFits
  <2>1. Len(data) = Smaller(index * Block, PieceLength(piece))
    BY DEF Inv, Fetched
  <2>2. QED
    BY <2>1 DEF Smaller
<1>2. QED
  BY <1>1, InvHolds, PTL
===============================================================================
