--------------------------- MODULE PeerHealth_proofs ---------------------------
(***************************************************************************)
(* Proofs about PeerHealth, for every list of peers, number of pieces and  *)
(* workers, and every limit: the counts, the evidence and the candidates.  *)
(***************************************************************************)
EXTENDS PeerHealth, FiniteSetTheorems, TLAPS

-----------------------------------------------------------------------------
(* The list of peers and the orders of candidates *)

LEMMA EntriesFinite == IsFiniteSet(Entries) /\ Cardinality(Entries) \in Nat
<1>1. IsFiniteSet(Doubled)
  BY PeersAssumption, FS_Subset DEF PeersAssumption
<1>2. IsFiniteSet({1}) /\ IsFiniteSet({2})
  BY FS_Singleton
<1>3. IsFiniteSet(Peers \X {1}) /\ IsFiniteSet(Doubled \X {2})
  BY <1>1, <1>2, PeersAssumption, FS_Product DEF PeersAssumption
<1>4. IsFiniteSet(Entries)
  BY <1>3, FS_Union DEF Entries
<1>5. QED
  BY <1>4, FS_CardinalityType

LEMMA CountIsNat == CandidateCount \in Nat
  BY EntriesFinite, NumbersAssumption DEF NumbersAssumption, CandidateCount

LEMMA PeerOfEntry == ASSUME NEW e \in Entries PROVE PeerOf(e) \in Peers
  BY PeersAssumption DEF PeersAssumption, Entries, PeerOf

\* A ranking lists CandidateCount entries, each of them once.
LEMMA OrderTypes ==
  ASSUME NEW p, NEW s \in CandidateOrders(p)
  PROVE  /\ s \in Seq(Entries)
         /\ Len(s) = CandidateCount
         /\ \A i, j \in 1 .. Len(s) : i # j => s[i] # s[j]
<1>1. s \in [1 .. CandidateCount -> Entries]
  BY DEF CandidateOrders
<1>2. s \in Seq(Entries) /\ Len(s) = CandidateCount
  BY <1>1, CountIsNat
<1>3. \A i, j \in 1 .. CandidateCount : i < j => s[i] # s[j]
  BY <1>1 DEF CandidateOrders
<1>4. QED
  BY <1>2, <1>3, CountIsNat
-----------------------------------------------------------------------------
(* Types *)

\* A peer without a vector has no marks; before the probe is over nothing has
\* been fetched.
StartInv ==
  /\ \A r \in Peers : length[r] = 0 => good[r] = {}
  /\ unprobed # {} => /\ \A w \in Workers : fetch[w] = None
                      /\ \A r \in Peers : unavailable[r] = {}

TypeInv == TypeOK /\ StartInv

LEMMA InitTypeInv == Init => TypeInv
  BY NumbersAssumption
     DEF Init, TypeInv, TypeOK, StartInv, NumbersAssumption, MaxDelay

LEMMA FetchTypes ==
  ASSUME NEW f \in Fetches
  PROVE  /\ f.piece \in Pieces
         /\ f.order \in Seq(Entries)
         /\ Len(f.order) <= CandidateCount
         /\ f.age \in 0 .. MaxDelay
         /\ f.since \in -1 .. RequestTimeout
         /\ f # None
  BY FetchAssumption DEF Fetches, FetchAssumption

\* A worker that is trying has a candidate, which is a peer.
LEMMA TryTypes ==
  ASSUME TypeInv, NEW w \in Workers, Trying(w)
  PROVE  /\ fetch[w] \in Fetches
         /\ fetch[w].piece \in Pieces
         /\ fetch[w].age \in 0 .. MaxDelay
         /\ fetch[w].order # <<>>
         /\ Head(fetch[w].order) \in Entries
         /\ Candidate(w) \in Peers
<1>1. fetch[w] \in Fetches /\ fetch[w].order # <<>>
  BY DEF TypeInv, TypeOK, Trying
<1>2. fetch[w].order \in Seq(Entries)
  BY <1>1, FetchTypes
<1>3. Head(fetch[w].order) \in Entries
  BY <1>1, <1>2
<1>4. QED
  BY <1>1, <1>3, FetchTypes, PeerOfEntry DEF Candidate

\* What remains of a cooldown, and its longest.
LEMMA MonusRange ==
  ASSUME NEW a \in Nat, NEW b \in Nat
  PROVE  Monus(a, b) \in 0 .. a
  BY DEF Monus

LEMMA DelayRange ==
  ASSUME NEW kind PROVE Delay(kind) \in 0 .. MaxDelay
  BY NumbersAssumption DEF NumbersAssumption, Delay, MaxDelay

LEMMA RecountNat ==
  ASSUME NEW n \in Nat, NEW a, NEW b
  PROVE  Recount(n, a, b) \in Nat
  BY DEF Recount

\* The fetches the actions make.
LEMMA NewFetch ==
  ASSUME NEW p \in Pieces, NEW s \in CandidateOrders(p)
  PROVE  [piece |-> p, order |-> s, age |-> 0, since |-> 0] \in Fetches
<1>1. s \in Seq(Entries) /\ Len(s) <= CandidateCount
  BY OrderTypes, CountIsNat
<1>2. 0 \in 0 .. MaxDelay /\ 0 \in -1 .. RequestTimeout
  BY NumbersAssumption DEF NumbersAssumption, MaxDelay
<1>3. QED
  BY <1>1, <1>2 DEF Fetches

LEMMA NextCandidate ==
  ASSUME NEW f \in Fetches, f.order # <<>>
  PROVE  [f EXCEPT !.order = Tail(@), !.since = -1] \in Fetches
<1>1. Tail(f.order) \in Seq(Entries) /\ Len(Tail(f.order)) = Len(f.order) - 1
  BY FetchTypes
<1>2. Len(Tail(f.order)) <= CandidateCount
  BY <1>1, FetchTypes, CountIsNat
<1>3. -1 \in -1 .. RequestTimeout
  BY NumbersAssumption DEF NumbersAssumption
<1>4. QED
  BY <1>1, <1>2, <1>3 DEF Fetches

LEMMA OlderFetch ==
  ASSUME NEW f \in Fetches
  PROVE  [f EXCEPT !.age = Upto(MaxDelay, @ + 1),
                   !.since = Upto(RequestTimeout, @ + 1)] \in Fetches
<1>1. /\ Upto(MaxDelay, f.age + 1) \in 0 .. MaxDelay
      /\ Upto(RequestTimeout, f.since + 1) \in -1 .. RequestTimeout
  BY FetchTypes, NumbersAssumption DEF NumbersAssumption, Upto, MaxDelay
<1>2. QED
  BY <1>1 DEF Fetches

\* The tables keep their types under each of the updates.
LEMMA BitfieldTypes ==
  ASSUME TypeInv, NEW r \in Peers, NEW bits \in SUBSET Pieces,
         NoteBitfield(r, bits)
  PROVE  /\ length' \in [Peers -> 0 .. NumPieces]
         /\ good' \in [Peers -> SUBSET Pieces]
         /\ unavailable' \in [Peers -> SUBSET Pieces]
         /\ availability' \in [Pieces -> Nat]
         /\ \A q \in Peers : length'[q] = 0 => good'[q] = {}
  BY RecountNat, NumbersAssumption
     DEF NumbersAssumption, TypeInv, TypeOK, StartInv, NoteBitfield

LEMMA SuccessTypes ==
  ASSUME TypeInv, NEW r \in Peers, NEW p \in Pieces, NotePieceSuccess(r, p)
  PROVE  /\ length' \in [Peers -> 0 .. NumPieces]
         /\ good' \in [Peers -> SUBSET Pieces]
         /\ unavailable' \in [Peers -> SUBSET Pieces]
         /\ availability' \in [Pieces -> Nat]
         /\ \A q \in Peers : length'[q] = 0 => good'[q] = {}
  BY RecountNat, NumbersAssumption
     DEF NumbersAssumption, TypeInv, TypeOK, StartInv, NotePieceSuccess

LEMMA MissingTypes ==
  ASSUME TypeInv, NEW r \in Peers, NEW p \in Pieces, RecordMissingPiece(r, p)
  PROVE  /\ length' \in [Peers -> 0 .. NumPieces]
         /\ good' \in [Peers -> SUBSET Pieces]
         /\ unavailable' \in [Peers -> SUBSET Pieces]
         /\ availability' \in [Pieces -> Nat]
         /\ \A q \in Peers : length'[q] = 0 => good'[q] = {}
<1>1. p + 1 \in 1 .. NumPieces
  BY NumbersAssumption DEF NumbersAssumption, Pieces
<1>2. \A n \in 0 .. NumPieces : (IF n = 0 THEN p + 1 ELSE n) \in 1 .. NumPieces
  BY <1>1, NumbersAssumption DEF NumbersAssumption
<1>3. /\ length' \in [Peers -> 0 .. NumPieces]
      /\ length'[r] # 0
      /\ \A q \in Peers : q # r => length'[q] = length[q]
  <2>1. length' = [length EXCEPT ![r] = IF length[r] = 0 THEN p + 1 ELSE length[r]]
    BY DEF RecordMissingPiece
  <2>2. length \in [Peers -> 0 .. NumPieces]
    BY DEF TypeInv, TypeOK
  <2>3. (IF length[r] = 0 THEN p + 1 ELSE length[r]) \in 1 .. NumPieces
    BY <1>2, <2>2
  <2>4. QED
    BY <2>1, <2>2, <2>3, NumbersAssumption DEF NumbersAssumption
<1>4. availability' \in [Pieces -> Nat]
  BY RecountNat DEF RecordMissingPiece, TypeInv, TypeOK
<1>5. /\ good' \in [Peers -> SUBSET Pieces]
      /\ unavailable' \in [Peers -> SUBSET Pieces]
      /\ \A q \in Peers : q # r => good'[q] = good[q]
  BY DEF RecordMissingPiece, TypeInv, TypeOK
<1>6. QED
  BY <1>3, <1>4, <1>5 DEF TypeInv, StartInv

LEMMA NextTypeInv == TypeInv /\ [Next]_vars => TypeInv'
<1> SUFFICES ASSUME TypeInv, [Next]_vars PROVE TypeInv'
  OBVIOUS
<1>1. CASE Probe
  <2> PICK e \in Entries : ProbeErr(e) \/ \E bits \in SUBSET Pieces : ProbeOk(e, bits)
    BY <1>1 DEF Probe
  <2>1. CASE ProbeErr(e)
    BY <2>1 DEF ProbeErr, TypeInv, TypeOK, StartInv, health, history
  <2>2. ASSUME NEW bits \in SUBSET Pieces, ProbeOk(e, bits) PROVE TypeInv'
    <3>1. PeerOf(e) \in Peers
      BY PeerOfEntry
    <3>2. NoteBitfield(PeerOf(e), bits)
      BY <2>2 DEF ProbeOk
    <3>3. evidence' \in [Peers -> [Pieces -> {"none", "has", "lacks"}]]
      BY <2>2, <3>1 DEF ProbeOk, TypeInv, TypeOK
    <3>4. TypeOK'
      BY <2>2, <3>1, <3>2, <3>3, BitfieldTypes DEF ProbeOk, TypeInv, TypeOK
    <3>5. StartInv'
      BY <2>2, <3>1, <3>2, BitfieldTypes
         DEF ProbeOk, TypeInv, StartInv, NoteBitfield
    <3>6. QED
      BY <3>4, <3>5 DEF TypeInv
  <2>3. QED
    BY <2>1, <2>2
<1>2. ASSUME NEW w \in Workers, NEW p \in Pieces, Begin(w, p) PROVE TypeInv'
  <2>1. PICK s \in CandidateOrders(p) :
          fetch' = [fetch EXCEPT ![w] = [piece |-> p, order |-> s,
                                         age |-> 0, since |-> 0]]
    BY <1>2 DEF Begin
  <2>2. fetch' \in [Workers -> Fetches \union {None}]
    BY <2>1, NewFetch DEF TypeInv, TypeOK
  <2>3. left' \in [Pieces -> 0 .. Attempts]
    BY <1>2, NumbersAssumption DEF Begin, TypeInv, TypeOK, NumbersAssumption
  <2>4. asked' \in [Pieces -> SUBSET Entries]
    BY <1>2 DEF Begin, TypeInv, TypeOK
  <2>5. QED
    BY <1>2, <2>2, <2>3, <2>4 DEF Begin, TypeInv, TypeOK, StartInv, health
<1>3. ASSUME NEW w \in Workers, Succeed(w) PROVE TypeInv'
  <2> DEFINE r == Candidate(w)
             p == fetch[w].piece
  <2>1. Trying(w) /\ NotePieceSuccess(r, p)
    BY <1>3 DEF Succeed
  <2>2. r \in Peers /\ p \in Pieces
    BY <2>1, TryTypes
  <2> HIDE DEF r, p
  <2>3. cooling' \in [Peers -> 0 .. MaxDelay]
    <3>1. 0 \in 0 .. MaxDelay
      BY NumbersAssumption DEF NumbersAssumption, MaxDelay
    <3>2. QED
      BY <1>3, <3>1 DEF Succeed, RecordSuccess, TypeInv, TypeOK
  <2>4. left' \in [Pieces -> 0 .. Attempts]
    <3>1. 0 \in 0 .. Attempts
      BY NumbersAssumption DEF NumbersAssumption
    <3>2. QED
      BY <1>3, <3>1 DEF Succeed, TypeInv, TypeOK
  <2>5. evidence' \in [Peers -> [Pieces -> {"none", "has", "lacks"}]]
    BY <1>3, <2>2 DEF Succeed, Shows, TypeInv, TypeOK, r, p
  <2>6. fetch' \in [Workers -> Fetches \union {None}]
    BY <1>3 DEF Succeed, TypeInv, TypeOK
  <2>7. unprobed = {}
    BY <2>1 DEF Trying, TypeInv, StartInv
  <2>8. QED
    BY <1>3, <2>1, <2>2, <2>3, <2>4, <2>5, <2>6, <2>7, SuccessTypes
       DEF Succeed, TypeInv, TypeOK, StartInv
<1>4. ASSUME NEW w \in Workers, NEW kind \in Kinds, Fail(w, kind) PROVE TypeInv'
  <2> DEFINE r == Candidate(w)
             p == fetch[w].piece
  <2>1. Trying(w) /\ RecordFailure(r, p, kind, fetch[w].age)
    BY <1>4 DEF Fail
  <2>2. r \in Peers /\ p \in Pieces
    BY <2>1, TryTypes
  <2> HIDE DEF r, p
  <2>3. cooling' \in [Peers -> 0 .. MaxDelay]
    <3>1. Delay(kind) \in 0 .. MaxDelay /\ MaxDelay \in Nat
      BY DelayRange, NumbersAssumption DEF NumbersAssumption, MaxDelay
    <3>2. Monus(Delay(kind), fetch[w].age) \in 0 .. MaxDelay
      BY <2>1, <3>1, TryTypes, MonusRange
    <3>3. QED
      BY <2>1, <3>2 DEF RecordFailure, TypeInv, TypeOK
  <2>4. /\ length' \in [Peers -> 0 .. NumPieces]
        /\ good' \in [Peers -> SUBSET Pieces]
        /\ unavailable' \in [Peers -> SUBSET Pieces]
        /\ availability' \in [Pieces -> Nat]
        /\ \A q \in Peers : length'[q] = 0 => good'[q] = {}
    BY <2>1, <2>2, MissingTypes DEF RecordFailure, TypeInv, TypeOK, StartInv
  <2>5. evidence' \in [Peers -> [Pieces -> {"none", "has", "lacks"}]]
    <3>1. Shows(r, p, "lacks") \/ UNCHANGED evidence
      BY <1>4 DEF Fail, r, p
    <3>2. CASE Shows(r, p, "lacks")
      BY <2>2, <3>2 DEF Shows, TypeInv, TypeOK
    <3>3. QED
      BY <3>1, <3>2 DEF TypeInv, TypeOK
  <2>6. fetch' \in [Workers -> Fetches \union {None}]
    BY <1>4, <2>1, TryTypes, NextCandidate DEF Fail, TypeInv, TypeOK
  <2>7. asked' \in [Pieces -> SUBSET Entries]
    BY <1>4, <2>1, TryTypes DEF Fail, TypeInv, TypeOK
  <2>8. unprobed = {}
    BY <2>1 DEF Trying, TypeInv, StartInv
  <2>9. QED
    BY <1>4, <2>3, <2>4, <2>5, <2>6, <2>7, <2>8
       DEF Fail, TypeInv, TypeOK, StartInv
<1>5. ASSUME NEW w \in Workers, GiveUp(w) PROVE TypeInv'
  BY <1>5 DEF GiveUp, TypeInv, TypeOK, StartInv, health, history
<1>6. CASE Tick
  <2>1. fetch' \in [Workers -> Fetches \union {None}]
    BY <1>6, OlderFetch DEF Tick, TypeInv, TypeOK
  <2>2. cooling' \in [Peers -> 0 .. MaxDelay]
    <3>1. MaxDelay \in Nat
      BY NumbersAssumption DEF NumbersAssumption, MaxDelay
    <3>2. \A n \in 0 .. MaxDelay : Monus(n, 1) \in 0 .. MaxDelay
      BY <3>1 DEF Monus
    <3>3. QED
      BY <1>6, <3>2 DEF Tick, TypeInv, TypeOK
  <2>3. QED
    BY <1>6, <2>1, <2>2 DEF Tick, TypeInv, TypeOK, StartInv, history
<1>7. CASE UNCHANGED vars
  BY <1>7 DEF vars, health, history, TypeInv, TypeOK, StartInv
<1>8. QED
  BY <1>1, <1>2, <1>3, <1>4, <1>5, <1>6, <1>7 DEF Next, Worker

\* Type correctness of the peers' records, for every list of peers.
THEOREM TypeCorrect == Spec => []TypeOK
<1>1. TypeInv => TypeOK
  BY DEF TypeInv
<1>2. QED
  BY <1>1, InitTypeInv, NextTypeInv, PTL DEF Spec

-----------------------------------------------------------------------------
(* The counts *)

\* A piece that may still be fetched: it is queued or a worker has it.
Wanted(p) == \/ left[p] > 0
             \/ \E w \in Workers : fetch[w] # None /\ fetch[w].piece = p

\* No piece is fetched by two workers.
OneFetch == \A v, w \in Workers :
              fetch[v] # None /\ fetch[w] # None /\ fetch[v].piece = fetch[w].piece
                => v = w

CountInv ==
  \A p \in Pieces :
    /\ availability[p] \in Cardinality(Holders(p)) .. Cardinality(Holders(p)) + 1
    /\ Wanted(p) => availability[p] = Cardinality(Holders(p))

LEMMA PeerSetFinite ==
  ASSUME NEW S \in SUBSET Peers
  PROVE  IsFiniteSet(S) /\ Cardinality(S) \in Nat
  BY PeersAssumption, FS_Subset, FS_CardinalityType DEF PeersAssumption

LEMMA HoldersFinite ==
  ASSUME NEW p
  PROVE  IsFiniteSet(Holders(p)) /\ Cardinality(Holders(p)) \in Nat
  BY PeerSetFinite DEF Holders

\* A count follows the set of holders when one peer's mark is set or cleared.
LEMMA RecountFollows ==
  ASSUME NEW r \in Peers, NEW p, NEW next \in {"yes", "no"}, NEW n \in Nat,
         n >= Cardinality(Holders(p)),
         NEW T, T = IF next = "yes" THEN Holders(p) \union {r}
                    ELSE Holders(p) \ {r}
  PROVE  Recount(n, Known(r, p), next) - Cardinality(T)
           = n - Cardinality(Holders(p))
<1> DEFINE S == Holders(p)
<1>1. IsFiniteSet(S) /\ Cardinality(S) \in Nat
  BY HoldersFinite
<1>2. r \in S <=> Known(r, p) = "yes"
  BY DEF Holders
<1>3. Cardinality(S \union {r}) = IF r \in S THEN Cardinality(S) ELSE Cardinality(S) + 1
  BY <1>1, FS_AddElement
<1>4. Cardinality(S \ {r}) = IF r \in S THEN Cardinality(S) - 1 ELSE Cardinality(S)
  BY <1>1, FS_RemoveElement
<1>5. r \in S => Cardinality(S) > 0
  BY <1>1, FS_EmptySet
<1> HIDE DEF S
<1>6. CASE next = "yes"
  BY <1>1, <1>2, <1>3, <1>6 DEF Recount, S
<1>7. CASE next = "no"
  <2>1. CASE r \in S
    BY <1>1, <1>2, <1>4, <1>5, <1>7, <2>1 DEF Recount, S
  <2>2. CASE r \notin S
    BY <1>1, <1>2, <1>4, <1>7, <2>2 DEF Recount, S
  <2>3. QED
    BY <2>1, <2>2
<1>8. QED
  BY <1>6, <1>7

\* What each update does to the holders of a piece.
LEMMA BitfieldHolders ==
  ASSUME TypeInv, NEW r \in Peers, NEW bits \in SUBSET Pieces,
         NoteBitfield(r, bits), NEW p \in Pieces
  PROVE  Holders(p)' = IF p \in bits THEN Holders(p) \union {r}
                                     ELSE Holders(p) \ {r}
<1>1. p < NumPieces
  BY NumbersAssumption DEF NumbersAssumption, Pieces
<1>2. /\ length'[r] = NumPieces /\ good'[r] = bits
      /\ \A q \in Peers : q # r => length'[q] = length[q] /\ good'[q] = good[q]
  BY DEF NoteBitfield, TypeInv, TypeOK
<1>3. Known(r, p)' = IF p \in bits THEN "yes" ELSE "no"
  BY <1>1, <1>2 DEF Known
<1>4. \A q \in Peers : q # r => Known(q, p)' = Known(q, p)
  BY <1>2 DEF Known
<1>5. QED
  BY <1>3, <1>4 DEF Holders

LEMMA SuccessHolders ==
  ASSUME TypeInv, NEW r \in Peers, NEW p \in Pieces, NotePieceSuccess(r, p),
         NEW q \in Pieces
  PROVE  Holders(q)' = IF q = p /\ p < length'[r] THEN Holders(q) \union {r}
                       ELSE Holders(q)
<1>1. length[r] \in 0 .. NumPieces /\ (length[r] = 0 => good[r] = {})
  BY DEF TypeInv, TypeOK, StartInv
<1>2. /\ length'[r] = IF length[r] = 0 THEN NumPieces ELSE length[r]
      /\ good'[r] = IF p < length'[r] THEN good[r] \union {p} ELSE good[r]
      /\ \A s \in Peers : s # r => length'[s] = length[s] /\ good'[s] = good[s]
  BY DEF NotePieceSuccess, TypeInv, TypeOK
<1>3. \A s \in Peers : s # r => Known(s, q)' = Known(s, q)
  BY <1>2 DEF Known
<1>4. Known(r, q)' = "yes" <=> (q = p /\ p < length'[r]) \/ Known(r, q) = "yes"
  BY <1>1, <1>2, NumbersAssumption DEF Known, Pieces, NumbersAssumption
<1>5. QED
  BY <1>3, <1>4 DEF Holders

LEMMA MissingHolders ==
  ASSUME TypeInv, NEW r \in Peers, NEW p \in Pieces, RecordMissingPiece(r, p),
         NEW q \in Pieces
  PROVE  Holders(q)' = IF q = p THEN Holders(q) \ {r} ELSE Holders(q)
<1>1. length[r] \in 0 .. NumPieces /\ (length[r] = 0 => good[r] = {})
  BY DEF TypeInv, TypeOK, StartInv
<1>2. /\ length'[r] = IF length[r] = 0 THEN p + 1 ELSE length[r]
      /\ good'[r] = good[r] \ {p}
      /\ \A s \in Peers : s # r => length'[s] = length[s] /\ good'[s] = good[s]
  BY DEF RecordMissingPiece, TypeInv, TypeOK
<1>3. \A s \in Peers : s # r => Known(s, q)' = Known(s, q)
  BY <1>2 DEF Known
<1>4. Known(r, q)' = "yes" <=> q # p /\ Known(r, q) = "yes"
  BY <1>1, <1>2, NumbersAssumption DEF Known, Pieces, NumbersAssumption
<1>5. QED
  BY <1>3, <1>4 DEF Holders

\* A fetch keeps its piece; a new one comes from Begin.
LEMMA FetchStep ==
  ASSUME TypeInv, [Next]_vars, NEW w \in Workers, fetch'[w] # None
  PROVE  \/ fetch[w] # None /\ fetch'[w].piece = fetch[w].piece
         \/ \E p \in Pieces : Begin(w, p) /\ fetch'[w].piece = p
<1> USE DEF TypeInv, TypeOK
<1>1. CASE Probe
  BY <1>1 DEF Probe, ProbeErr, ProbeOk
<1>2. ASSUME NEW v \in Workers, NEW p \in Pieces, Begin(v, p)
      PROVE  \/ fetch[w] # None /\ fetch'[w].piece = fetch[w].piece
             \/ \E q \in Pieces : Begin(w, q) /\ fetch'[w].piece = q
  <2>1. PICK s \in CandidateOrders(p) :
          fetch' = [fetch EXCEPT ![v] = [piece |-> p, order |-> s,
                                         age |-> 0, since |-> 0]]
    BY <1>2 DEF Begin
  <2>2. CASE v = w
    <3>1. fetch'[w].piece = p
      BY <2>1, <2>2
    <3>2. QED
      BY <1>2, <2>2, <3>1
  <2>3. CASE v # w
    BY <2>1, <2>3
  <2>4. QED
    BY <2>2, <2>3
<1>3. ASSUME NEW v \in Workers, Succeed(v) \/ GiveUp(v)
      PROVE  fetch[w] # None /\ fetch'[w].piece = fetch[w].piece
  BY <1>3 DEF Succeed, GiveUp
<1>4. ASSUME NEW v \in Workers, NEW kind \in Kinds, Fail(v, kind)
      PROVE  fetch[w] # None /\ fetch'[w].piece = fetch[w].piece
  <2>1. Trying(v) /\ fetch' = [fetch EXCEPT ![v].order = Tail(@), ![v].since = -1]
    BY <1>4 DEF Fail
  <2>2. fetch[v] \in Fetches
    BY <2>1 DEF Trying
  <2>3. CASE v = w
    BY <2>1, <2>2, <2>3, FetchTypes DEF Fetches
  <2>4. CASE v # w
    BY <2>1, <2>4
  <2>5. QED
    BY <2>3, <2>4
<1>5. CASE Tick
  <2>1. fetch[w] \in Fetches
    BY <1>5 DEF Tick
  <2>2. fetch'[w] = [fetch[w] EXCEPT !.age = Upto(MaxDelay, @ + 1),
                                     !.since = Upto(RequestTimeout, @ + 1)]
    BY <1>5, <2>1, FetchTypes DEF Tick
  <2>3. QED
    BY <2>1, <2>2, FetchTypes DEF Fetches
<1>6. CASE UNCHANGED vars
  BY <1>6 DEF vars
<1>7. QED
  BY <1>1, <1>2, <1>3, <1>4, <1>5, <1>6 DEF Next, Worker

LEMMA NextOneFetch == TypeInv /\ OneFetch /\ [Next]_vars => OneFetch'
<1> SUFFICES ASSUME TypeInv, OneFetch, [Next]_vars,
                    NEW v \in Workers, NEW w \in Workers,
                    fetch'[v] # None, fetch'[w] # None,
                    fetch'[v].piece = fetch'[w].piece, v # w
             PROVE  FALSE
  BY DEF OneFetch
<1>1. ASSUME NEW x \in Workers, NEW y \in Workers, x # y,
             NEW p \in Pieces, Begin(x, p), fetch'[y] # None
      PROVE  fetch[y] # None /\ fetch'[y].piece # p
  BY <1>1 DEF Begin, TypeInv, TypeOK
<1>2. CASE \E p \in Pieces : Begin(v, p) /\ fetch'[v].piece = p
  BY <1>1, <1>2
<1>3. CASE \E p \in Pieces : Begin(w, p) /\ fetch'[w].piece = p
  BY <1>1, <1>3
<1>4. QED
  BY <1>2, <1>3, FetchStep DEF OneFetch

\* A piece that is wanted no more is never wanted again.
LEMMA WantedStep ==
  ASSUME TypeInv, [Next]_vars, NEW p \in Pieces, Wanted(p)'
  PROVE  Wanted(p)
<1>1. CASE \E w \in Workers : fetch'[w] # None /\ fetch'[w].piece = p
  <2> PICK w \in Workers : fetch'[w] # None /\ fetch'[w].piece = p
    BY <1>1
  <2>1. CASE \E q \in Pieces : Begin(w, q) /\ fetch'[w].piece = q
    BY <2>1 DEF Begin, Wanted
  <2>2. QED
    BY <2>1, FetchStep DEF Wanted
<1>2. CASE left'[p] > 0
  <2>1. left[p] \in Nat /\ left'[p] \in Nat
    BY NextTypeInv DEF TypeInv, TypeOK
  <2>2. ASSUME NEW w \in Workers, NEW q \in Pieces, Begin(w, q)
        PROVE  left[p] > 0
    BY <1>2, <2>1, <2>2 DEF Begin, TypeInv, TypeOK
  <2>3. ASSUME NEW w \in Workers, Succeed(w)
        PROVE  left[p] > 0
    <3>1. left' = [left EXCEPT ![fetch[w].piece] = 0]
      BY <2>3 DEF Succeed
    <3>2. left \in [Pieces -> 0 .. Attempts]
      BY DEF TypeInv, TypeOK
    <3>3. QED
      BY <1>2, <2>1, <3>1, <3>2
  <2>4. CASE UNCHANGED left
    BY <1>2, <2>4 DEF Wanted
  <2>5. QED
    BY <2>2, <2>3, <2>4
       DEF Next, Probe, ProbeErr, ProbeOk, Worker, Fail, GiveUp, Tick, vars,
           Wanted
<1>3. QED
  BY <1>1, <1>2 DEF Wanted

\* A piece whose fetch succeeded is not wanted any more.
LEMMA SuccessEndsWant ==
  ASSUME TypeInv, OneFetch, NEW w \in Workers, Succeed(w),
         NEW p, p = fetch[w].piece
  PROVE  Wanted(p) /\ ~ Wanted(p)'
<1>1. fetch[w] # None /\ p \in Pieces
  BY TryTypes DEF Succeed, Trying
<1>2. left'[p] = 0
  BY <1>1 DEF Succeed, TypeInv, TypeOK
<1>3. \A v \in Workers : fetch'[v] # None => v # w /\ fetch'[v] = fetch[v]
  BY DEF Succeed, TypeInv, TypeOK
<1>4. QED
  BY <1>1, <1>2, <1>3 DEF Wanted, OneFetch

-----------------------------------------------------------------------------
LEMMA InitCountInv == Init => OneFetch /\ CountInv
<1> SUFFICES ASSUME Init PROVE OneFetch /\ CountInv
  OBVIOUS
<1>1. OneFetch
  BY DEF Init, OneFetch
<1>2. ASSUME NEW p \in Pieces
      PROVE  availability[p] = 0 /\ Cardinality(Holders(p)) = 0
  <2>1. Holders(p) = {}
    BY <1>2, NumbersAssumption
       DEF Init, Holders, Known, Pieces, NumbersAssumption
  <2>2. QED
    BY <1>2, <2>1, FS_EmptySet DEF Init
<1>3. CountInv
  BY <1>2 DEF CountInv
<1>4. QED
  BY <1>1, <1>3

\* A step that leaves the tables alone keeps the counts.
LEMMA FrameCountInv ==
  ASSUME TypeInv, CountInv, [Next]_vars, UNCHANGED <<length, good, availability>>
  PROVE  CountInv'
<1>1. \A p \in Pieces : Holders(p)' = Holders(p)
  BY DEF Holders, Known
<1>2. QED
  BY <1>1, WantedStep DEF CountInv

LEMMA ProbeCountInv ==
  ASSUME TypeInv, CountInv, [Next]_vars,
         NEW e \in Entries, NEW bits \in SUBSET Pieces, ProbeOk(e, bits)
  PROVE  CountInv'
<1> DEFINE r == PeerOf(e)
<1>1. r \in Peers /\ NoteBitfield(r, bits)
  BY PeerOfEntry DEF ProbeOk
<1> HIDE DEF r
<1> SUFFICES ASSUME NEW p \in Pieces
             PROVE  availability'[p] - Cardinality(Holders(p)')
                      = availability[p] - Cardinality(Holders(p))
  <2>1. \A p \in Pieces :
          /\ availability[p] \in Nat /\ Cardinality(Holders(p)) \in Nat
          /\ availability'[p] \in Nat /\ Cardinality(Holders(p)') \in Nat
    <3>1. \A p \in Pieces : Holders(p) \in SUBSET Peers /\ Holders(p)' \in SUBSET Peers
      BY DEF Holders
    <3>2. QED
      BY <3>1, PeerSetFinite, NextTypeInv DEF TypeInv, TypeOK
  <2>2. QED
    BY <2>1, WantedStep DEF CountInv
<1>2. availability[p] \in Nat /\ availability[p] >= Cardinality(Holders(p))
  BY HoldersFinite DEF TypeInv, TypeOK, CountInv
<1>3. availability'[p] = Recount(availability[p], Known(r, p),
                                 IF p \in bits THEN "yes" ELSE "no")
  BY <1>1 DEF NoteBitfield
<1>4. Holders(p)' = IF p \in bits THEN Holders(p) \union {r}
                                   ELSE Holders(p) \ {r}
  BY <1>1, BitfieldHolders
<1>5. CASE p \in bits
  BY <1>1, <1>2, <1>3, <1>4, <1>5, RecountFollows
<1>6. CASE p \notin bits
  BY <1>1, <1>2, <1>3, <1>4, <1>6, RecountFollows
<1>7. QED
  BY <1>5, <1>6

LEMMA SuccessCountInv ==
  ASSUME TypeInv, OneFetch, CountInv, [Next]_vars, NEW w \in Workers, Succeed(w),
         NEW r, r = Candidate(w), NEW p, p = fetch[w].piece
  PROVE  CountInv'
<1>1. r \in Peers /\ p \in Pieces /\ NotePieceSuccess(r, p)
  BY TryTypes DEF Succeed
<1>2. Wanted(p) /\ ~ Wanted(p)'
  BY SuccessEndsWant
<1>3. ASSUME NEW q \in Pieces, q # p
      PROVE  Holders(q)' = Holders(q) /\ availability'[q] = availability[q]
  <2>1. Holders(q)' = Holders(q)
    BY <1>1, <1>3, SuccessHolders
  <2>2. availability'[q] = availability[q]
    BY <1>1, <1>3 DEF NotePieceSuccess, TypeInv, TypeOK
  <2>3. QED
    BY <2>1, <2>2
<1>4. availability[p] = Cardinality(Holders(p)) /\ availability[p] \in Nat
  BY <1>1, <1>2 DEF CountInv, TypeInv, TypeOK
<1>5. availability'[p] = Recount(availability[p], Known(r, p), "yes")
  BY <1>1 DEF NotePieceSuccess, TypeInv, TypeOK
<1>6. Cardinality(Holders(p)') \in Nat /\ availability'[p] \in Nat
  <2>1. Holders(p)' \in SUBSET Peers
    BY DEF Holders
  <2>2. QED
    BY <1>1, <2>1, PeerSetFinite, NextTypeInv DEF TypeInv, TypeOK
<1>7. availability'[p] \in Cardinality(Holders(p)') .. Cardinality(Holders(p)') + 1
  <2>1. CASE p < length'[r]
    <3>1. Holders(p)' = Holders(p) \union {r}
      BY <1>1, <2>1, SuccessHolders
    <3>2. availability'[p] - Cardinality(Holders(p)')
            = availability[p] - Cardinality(Holders(p))
      BY <1>1, <1>4, <1>5, <3>1, RecountFollows
    <3>3. QED
      BY <1>4, <1>6, <3>2
  <2>2. CASE ~ (p < length'[r])
    <3>1. Holders(p)' = Holders(p)
      BY <1>1, <2>2, SuccessHolders
    <3>2. Known(r, p) = "unknown"
      BY <1>1, <2>2, NumbersAssumption
         DEF NotePieceSuccess, Known, TypeInv, TypeOK, Pieces, NumbersAssumption
    <3>3. QED
      BY <1>4, <1>5, <3>1, <3>2 DEF Recount
  <2>3. QED
    BY <2>1, <2>2
<1>8. QED
  BY <1>2, <1>3, <1>7, WantedStep DEF CountInv

LEMMA MissingCountInv ==
  ASSUME TypeInv, OneFetch, CountInv, [Next]_vars,
         NEW r \in Peers, NEW p \in Pieces, RecordMissingPiece(r, p)
  PROVE  CountInv'
<1> SUFFICES ASSUME NEW q \in Pieces
             PROVE  availability'[q] - Cardinality(Holders(q)')
                      = availability[q] - Cardinality(Holders(q))
  <2>1. \A q \in Pieces :
          /\ availability[q] \in Nat /\ Cardinality(Holders(q)) \in Nat
          /\ availability'[q] \in Nat /\ Cardinality(Holders(q)') \in Nat
    <3>1. \A q \in Pieces : Holders(q) \in SUBSET Peers /\ Holders(q)' \in SUBSET Peers
      BY DEF Holders
    <3>2. QED
      BY <3>1, PeerSetFinite, NextTypeInv DEF TypeInv, TypeOK
  <2>2. QED
    BY <2>1, WantedStep DEF CountInv
<1>1. availability[q] \in Nat /\ availability[q] >= Cardinality(Holders(q))
  BY HoldersFinite DEF TypeInv, TypeOK, CountInv
<1>2. CASE q = p
  <2>1. availability'[q] = Recount(availability[q], Known(r, q), "no")
    BY <1>2 DEF RecordMissingPiece, TypeInv, TypeOK
  <2>2. Holders(q)' = Holders(q) \ {r}
    BY <1>2, MissingHolders
  <2>3. QED
    BY <1>1, <2>1, <2>2, RecountFollows
<1>3. CASE q # p
  BY <1>3, MissingHolders DEF RecordMissingPiece, TypeInv, TypeOK
<1>4. QED
  BY <1>2, <1>3

CountFull == TypeInv /\ OneFetch /\ CountInv

LEMMA NextCountInv == CountFull /\ [Next]_vars => CountFull'
<1> SUFFICES ASSUME CountFull, [Next]_vars PROVE CountFull'
  OBVIOUS
<1> USE DEF CountFull
<1>1. TypeInv' /\ OneFetch'
  BY NextTypeInv, NextOneFetch
<1>2. ASSUME NEW e \in Entries, NEW bits \in SUBSET Pieces, ProbeOk(e, bits)
      PROVE  CountInv'
  BY <1>2, ProbeCountInv
<1>3. ASSUME NEW w \in Workers, Succeed(w) PROVE CountInv'
  BY <1>3, SuccessCountInv
<1>4. ASSUME NEW w \in Workers, NEW kind \in Kinds, Fail(w, kind)
      PROVE  CountInv'
  <2>1. /\ Candidate(w) \in Peers /\ fetch[w].piece \in Pieces
        /\ \/ RecordMissingPiece(Candidate(w), fetch[w].piece)
           \/ UNCHANGED <<length, good, availability>>
    BY <1>4, TryTypes DEF Fail, RecordFailure
  <2>2. QED
    BY <2>1, MissingCountInv, FrameCountInv
<1>5. CASE UNCHANGED <<length, good, availability>>
  BY <1>1, <1>5, FrameCountInv
<1>6. QED
  BY <1>1, <1>2, <1>3, <1>4, <1>5
     DEF Next, Probe, ProbeErr, Worker, Begin, GiveUp, Tick, vars, health

\* The availability counts are the numbers of peers known to have each piece,
\* for every list of peers, workers and pieces.
THEOREM CountsAreKnowledge == Spec => []CountsMatchKnowledge
<1>1. Init => CountFull
  BY InitTypeInv, InitCountInv DEF CountFull
<1>2. CountFull => CountsMatchKnowledge
  BY DEF CountFull, CountInv, CountsMatchKnowledge, Wanted
<1>3. QED
  BY <1>1, <1>2, NextCountInv, PTL DEF Spec

-----------------------------------------------------------------------------
(* The evidence *)

EvidenceInv ==
  \A r \in Peers, p \in Pieces :
    /\ evidence[r][p] = "lacks" => Rank(r, p) = 2
    /\ evidence[r][p] = "has" /\ Wanted(p) => Rank(r, p) = 0

\* Rank depends on the peer's own records only.
LEMMA RankFrame ==
  ASSUME NEW r, NEW p, length'[r] = length[r], good'[r] = good[r],
         p \in unavailable'[r] <=> p \in unavailable[r]
  PROVE  Rank(r, p)' = Rank(r, p)
  BY DEF Rank, Known

LEMMA InitEvidenceInv == Init => EvidenceInv
  BY DEF Init, EvidenceInv

LEMMA ProbeEvidenceInv ==
  ASSUME TypeInv, EvidenceInv, [Next]_vars,
         NEW e \in Entries, NEW bits \in SUBSET Pieces, ProbeOk(e, bits)
  PROVE  EvidenceInv'
<1> SUFFICES ASSUME NEW s \in Peers, NEW p \in Pieces
             PROVE  /\ evidence'[s][p] = "lacks" => Rank(s, p)' = 2
                    /\ evidence'[s][p] = "has" /\ Wanted(p)' => Rank(s, p)' = 0
  BY DEF EvidenceInv
<1>1. /\ PeerOf(e) \in Peers
      /\ NoteBitfield(PeerOf(e), bits)
      /\ evidence' = [evidence EXCEPT ![PeerOf(e)] =
                        [q \in Pieces |-> IF q \in bits THEN "has" ELSE "lacks"]]
      /\ e \in unprobed
  BY PeerOfEntry DEF ProbeOk
<1>2. CASE s = PeerOf(e)
  <2>1. unavailable'[s] = {}
    BY <1>1 DEF NoteBitfield, TypeInv, StartInv
  <2>2. length'[s] = NumPieces /\ good'[s] = bits /\ p < NumPieces /\ NumPieces # 0
    BY <1>1, <1>2, NumbersAssumption
       DEF NoteBitfield, TypeInv, TypeOK, Pieces, NumbersAssumption
  <2>3. evidence'[s][p] = IF p \in bits THEN "has" ELSE "lacks"
    BY <1>1, <1>2 DEF TypeInv, TypeOK
  <2>4. QED
    BY <2>1, <2>2, <2>3 DEF Rank, Known
<1>3. CASE s # PeerOf(e)
  <2>1. /\ length'[s] = length[s] /\ good'[s] = good[s]
        /\ unavailable'[s] = unavailable[s]
        /\ evidence'[s] = evidence[s]
    BY <1>1, <1>3 DEF NoteBitfield, TypeInv, TypeOK
  <2>2. QED
    BY <2>1, RankFrame, WantedStep DEF EvidenceInv
<1>4. QED
  BY <1>2, <1>3

LEMMA SuccessEvidenceInv ==
  ASSUME TypeInv, OneFetch, EvidenceInv, [Next]_vars,
         NEW w \in Workers, Succeed(w),
         NEW r, r = Candidate(w), NEW p, p = fetch[w].piece
  PROVE  EvidenceInv'
<1> SUFFICES ASSUME NEW s \in Peers, NEW q \in Pieces
             PROVE  /\ evidence'[s][q] = "lacks" => Rank(s, q)' = 2
                    /\ evidence'[s][q] = "has" /\ Wanted(q)' => Rank(s, q)' = 0
  BY DEF EvidenceInv
<1>1. /\ r \in Peers /\ p \in Pieces
      /\ NotePieceSuccess(r, p) /\ Shows(r, p, "has")
  BY TryTypes DEF Succeed
<1>2. ~ Wanted(p)'
  BY SuccessEndsWant
<1>3. CASE s = r /\ q = p
  <2>1. evidence'[s][q] = "has"
    BY <1>1, <1>3 DEF Shows, TypeInv, TypeOK
  <2>2. QED
    BY <1>2, <1>3, <2>1
<1>4. CASE s = r /\ q # p
  <2>1. evidence'[s][q] = evidence[s][q]
    BY <1>1, <1>4 DEF Shows, TypeInv, TypeOK
  <2>2. /\ length'[s] = IF length[s] = 0 THEN NumPieces ELSE length[s]
        /\ q \in good'[s] <=> q \in good[s]
        /\ q \in unavailable'[s] <=> q \in unavailable[s]
    BY <1>1, <1>4 DEF NotePieceSuccess, TypeInv, TypeOK
  <2>3. length[s] = 0 => q \notin good[s]
    BY DEF TypeInv, StartInv
  <2>4. length'[s] # 0 /\ (Known(s, q)' = "yes" <=> Known(s, q) = "yes")
    BY <2>2, <2>3, NumbersAssumption
       DEF Known, NumbersAssumption, TypeInv, TypeOK, Pieces
  <2>5. /\ Rank(s, q) = 0 => Rank(s, q)' = 0
        /\ Rank(s, q) = 2 => Rank(s, q)' = 2
    BY <2>2, <2>4 DEF Rank
  <2>6. QED
    BY <2>1, <2>5, WantedStep DEF EvidenceInv
<1>5. CASE s # r
  <2>1. /\ length'[s] = length[s] /\ good'[s] = good[s]
        /\ unavailable'[s] = unavailable[s]
        /\ evidence'[s] = evidence[s]
    BY <1>1, <1>5 DEF NotePieceSuccess, Shows, TypeInv, TypeOK
  <2>2. QED
    BY <2>1, RankFrame, WantedStep DEF EvidenceInv
<1>6. QED
  BY <1>3, <1>4, <1>5

LEMMA MissingEvidenceInv ==
  ASSUME TypeInv, EvidenceInv, [Next]_vars,
         NEW r \in Peers, NEW p \in Pieces,
         RecordMissingPiece(r, p), Shows(r, p, "lacks")
  PROVE  EvidenceInv'
<1> SUFFICES ASSUME NEW s \in Peers, NEW q \in Pieces
             PROVE  /\ evidence'[s][q] = "lacks" => Rank(s, q)' = 2
                    /\ evidence'[s][q] = "has" /\ Wanted(q)' => Rank(s, q)' = 0
  BY DEF EvidenceInv
<1>1. CASE s = r /\ q = p
  <2>1. evidence'[s][q] = "lacks" /\ q \in unavailable'[s]
    BY <1>1 DEF Shows, RecordMissingPiece, TypeInv, TypeOK
  <2>2. QED
    BY <2>1 DEF Rank
<1>2. CASE s = r /\ q # p
  <2>1. evidence'[s][q] = evidence[s][q]
    BY <1>2 DEF Shows, TypeInv, TypeOK
  <2>2. /\ length'[s] = IF length[s] = 0 THEN p + 1 ELSE length[s]
        /\ q \in good'[s] <=> q \in good[s]
        /\ q \in unavailable'[s] <=> q \in unavailable[s]
    BY <1>2 DEF RecordMissingPiece, TypeInv, TypeOK
  <2>3. length[s] = 0 => q \notin good[s]
    BY DEF TypeInv, StartInv
  <2>4. length'[s] # 0 /\ (Known(s, q)' = "yes" <=> Known(s, q) = "yes")
    BY <2>2, <2>3, NumbersAssumption
       DEF Known, NumbersAssumption, TypeInv, TypeOK, Pieces
  <2>5. /\ Rank(s, q) = 0 => Rank(s, q)' = 0
        /\ Rank(s, q) = 2 => Rank(s, q)' = 2
    BY <2>2, <2>4 DEF Rank
  <2>6. QED
    BY <2>1, <2>5, WantedStep DEF EvidenceInv
<1>3. CASE s # r
  <2>1. /\ length'[s] = length[s] /\ good'[s] = good[s]
        /\ unavailable'[s] = unavailable[s]
        /\ evidence'[s] = evidence[s]
    BY <1>3 DEF RecordMissingPiece, Shows, TypeInv, TypeOK
  <2>2. QED
    BY <2>1, RankFrame, WantedStep DEF EvidenceInv
<1>4. QED
  BY <1>1, <1>2, <1>3

EvidenceFull == TypeInv /\ OneFetch /\ EvidenceInv

LEMMA NextEvidenceInv == EvidenceFull /\ [Next]_vars => EvidenceFull'
<1> SUFFICES ASSUME EvidenceFull, [Next]_vars PROVE EvidenceFull'
  OBVIOUS
<1> USE DEF EvidenceFull
<1>1. TypeInv' /\ OneFetch'
  BY NextTypeInv, NextOneFetch
<1>2. ASSUME NEW e \in Entries, NEW bits \in SUBSET Pieces, ProbeOk(e, bits)
      PROVE  EvidenceInv'
  BY <1>2, ProbeEvidenceInv
<1>3. ASSUME NEW w \in Workers, Succeed(w) PROVE EvidenceInv'
  BY <1>3, SuccessEvidenceInv
<1>4. ASSUME UNCHANGED <<length, good, unavailable, evidence>>
      PROVE  EvidenceInv'
  BY <1>4, RankFrame, WantedStep DEF EvidenceInv
<1>5. ASSUME NEW w \in Workers, NEW kind \in Kinds, Fail(w, kind)
      PROVE  EvidenceInv'
  <2>1. Candidate(w) \in Peers /\ fetch[w].piece \in Pieces
    BY <1>5, TryTypes DEF Fail
  <2>2. CASE kind = "MissingPiece"
    <3>1. /\ RecordMissingPiece(Candidate(w), fetch[w].piece)
          /\ Shows(Candidate(w), fetch[w].piece, "lacks")
      BY <1>5, <2>2 DEF Fail, RecordFailure
    <3>2. QED
      BY <2>1, <3>1, MissingEvidenceInv
  <2>3. CASE kind # "MissingPiece"
    <3>1. UNCHANGED <<length, good, unavailable, evidence>>
      BY <1>5, <2>3 DEF Fail, RecordFailure
    <3>2. QED
      BY <1>4, <3>1
  <2>4. QED
    BY <2>2, <2>3
<1>6. QED
  BY <1>1, <1>2, <1>3, <1>4, <1>5
     DEF Next, Probe, ProbeErr, Worker, Begin, GiveUp, Tick, vars, health,
         history

\* What a peer showed last decides its rank for every piece still wanted, in
\* every interleaving of probes, successes and failures.
THEOREM EvidenceDecides == Spec => []EvidenceWins
<1>1. Init => EvidenceFull
  BY InitTypeInv, InitCountInv, InitEvidenceInv DEF EvidenceFull
<1>2. EvidenceFull => EvidenceWins
  BY DEF EvidenceFull, EvidenceInv, EvidenceWins, Wanted
<1>3. QED
  BY <1>1, <1>2, NextEvidenceInv, PTL DEF Spec

-----------------------------------------------------------------------------
(* The candidates *)

\* The entries of one fetch are those it has tried and those it has left, each
\* once.
Asks(order, tried) ==
  /\ \A i, j \in 1 .. Len(order) : i # j => order[i] # order[j]
  /\ \A i \in 1 .. Len(order) : order[i] \notin tried
  /\ Cardinality(tried) + Len(order) = CandidateCount

AskInv == \A w \in Workers :
            fetch[w] # None => Asks(fetch[w].order, asked[fetch[w].piece])

LEMMA AsksNext ==
  ASSUME NEW order \in Seq(Entries), order # <<>>,
         NEW tried \in SUBSET Entries, Asks(order, tried)
  PROVE  Asks(Tail(order), tried \union {Head(order)})
<1>1. /\ Len(order) \in Nat /\ Len(order) > 0
      /\ Len(Tail(order)) = Len(order) - 1
      /\ \A i \in 1 .. Len(Tail(order)) : Tail(order)[i] = order[i + 1]
      /\ Head(order) = order[1]
  OBVIOUS
<1>2. IsFiniteSet(tried) /\ Cardinality(tried) \in Nat
  BY EntriesFinite, FS_Subset, FS_CardinalityType
<1>3. Head(order) \notin tried
  BY <1>1 DEF Asks
<1>4. Cardinality(tried \union {Head(order)}) = Cardinality(tried) + 1
  BY <1>2, <1>3, FS_AddElement
<1>5. Cardinality(tried \union {Head(order)}) + Len(Tail(order)) = CandidateCount
  BY <1>1, <1>2, <1>4 DEF Asks
<1>6. \A i, j \in 1 .. Len(Tail(order)) : i # j => Tail(order)[i] # Tail(order)[j]
  BY <1>1 DEF Asks
<1>7. \A i \in 1 .. Len(Tail(order)) : Tail(order)[i] \notin tried \union {Head(order)}
  BY <1>1 DEF Asks
<1>8. QED
  BY <1>5, <1>6, <1>7 DEF Asks

AskFull == TypeInv /\ OneFetch /\ AskInv

\* A fetch that keeps its piece and its order, while nobody tries that piece.
LEMMA AskFrame ==
  ASSUME AskInv, NEW w \in Workers, fetch[w] # None,
         fetch'[w].piece = fetch[w].piece, fetch'[w].order = fetch[w].order,
         asked'[fetch[w].piece] = asked[fetch[w].piece]
  PROVE  Asks(fetch'[w].order, asked'[fetch'[w].piece])
  BY DEF AskInv

LEMMA NextAskInv == AskFull /\ [Next]_vars => AskFull'
<1> SUFFICES ASSUME AskFull, [Next]_vars PROVE AskFull'
  OBVIOUS
<1> USE DEF AskFull
<1>1. TypeInv' /\ OneFetch'
  BY NextTypeInv, NextOneFetch
<1> SUFFICES ASSUME NEW w \in Workers, fetch'[w] # None
             PROVE  Asks(fetch'[w].order, asked'[fetch'[w].piece])
  BY <1>1 DEF AskInv
<1> DEFINE Goal == Asks(fetch'[w].order, asked'[fetch'[w].piece])
<1>2. ASSUME fetch'[w] = fetch[w], UNCHANGED asked PROVE Goal
  BY <1>2, AskFrame
<1>3. CASE Probe
  BY <1>2, <1>3 DEF Probe, ProbeErr, ProbeOk, history
<1>4. ASSUME NEW v \in Workers, NEW p \in Pieces, Begin(v, p) PROVE Goal
  <2>1. PICK s \in CandidateOrders(p) :
          fetch' = [fetch EXCEPT ![v] = [piece |-> p, order |-> s,
                                         age |-> 0, since |-> 0]]
    BY <1>4 DEF Begin
  <2>2. asked' = [asked EXCEPT ![p] = {}]
    BY <1>4 DEF Begin
  <2>3. CASE v = w
    <3>1. fetch'[w].order = s /\ fetch'[w].piece = p
      BY <2>1, <2>3 DEF TypeInv, TypeOK
    <3>2. asked'[p] = {}
      BY <2>2 DEF TypeInv, TypeOK
    <3>3. Asks(s, {})
      BY OrderTypes, CountIsNat, FS_EmptySet DEF Asks
    <3>4. QED
      BY <3>1, <3>2, <3>3
  <2>4. CASE v # w
    <3>1. fetch'[w] = fetch[w] /\ fetch[w] # None
      BY <2>1, <2>4 DEF TypeInv, TypeOK
    <3>2. fetch[w].piece # p
      BY <1>4, <3>1 DEF Begin
    <3>3. asked'[fetch[w].piece] = asked[fetch[w].piece]
      BY <2>2, <3>1, <3>2, FetchTypes DEF TypeInv, TypeOK
    <3>4. QED
      BY <3>1, <3>3, AskFrame
  <2>5. QED
    BY <2>3, <2>4
<1>5. ASSUME NEW v \in Workers, Succeed(v) \/ GiveUp(v) PROVE Goal
  <2>1. fetch'[w] = fetch[w] /\ UNCHANGED asked
    BY <1>5 DEF Succeed, GiveUp, TypeInv, TypeOK, history
  <2>2. QED
    BY <1>2, <2>1
<1>6. ASSUME NEW v \in Workers, NEW kind \in Kinds, Fail(v, kind) PROVE Goal
  <2>1. /\ Trying(v)
        /\ fetch' = [fetch EXCEPT ![v].order = Tail(@), ![v].since = -1]
        /\ asked' = [asked EXCEPT ![fetch[v].piece] =
                       @ \union {Head(fetch[v].order)}]
    BY <1>6 DEF Fail
  <2>2. fetch[v] \in Fetches /\ fetch[v].order # <<>> /\ fetch[v] # None
    BY <2>1, TryTypes DEF Trying
  <2>3. CASE v = w
    <3>1. fetch'[w].order = Tail(fetch[w].order)
          /\ fetch'[w].piece = fetch[w].piece
      BY <2>1, <2>2, <2>3 DEF TypeInv, TypeOK, Fetches
    <3>2. /\ asked[fetch[w].piece] \in SUBSET Entries
          /\ asked'[fetch[w].piece] =
                asked[fetch[w].piece] \union {Head(fetch[w].order)}
      BY <2>1, <2>2, <2>3, FetchTypes DEF TypeInv, TypeOK
    <3>3. Asks(fetch[w].order, asked[fetch[w].piece])
      BY <2>2, <2>3 DEF AskInv
    <3>4. QED
      BY <2>2, <2>3, <3>1, <3>2, <3>3, AsksNext, FetchTypes
  <2>4. CASE v # w
    <3>1. fetch'[w] = fetch[w] /\ fetch[w] # None
      BY <2>1, <2>4 DEF TypeInv, TypeOK
    <3>2. fetch[w].piece # fetch[v].piece
      BY <2>2, <2>4, <3>1 DEF OneFetch
    <3>3. asked'[fetch[w].piece] = asked[fetch[w].piece]
      BY <2>1, <3>1, <3>2, FetchTypes DEF TypeInv, TypeOK
    <3>4. QED
      BY <3>1, <3>3, AskFrame
  <2>5. QED
    BY <2>3, <2>4
<1>7. CASE Tick
  <2>1. fetch[w] \in Fetches /\ fetch[w] # None
    BY <1>7 DEF Tick, TypeInv, TypeOK
  <2>2. fetch'[w] = [fetch[w] EXCEPT !.age = Upto(MaxDelay, @ + 1),
                                     !.since = Upto(RequestTimeout, @ + 1)]
    BY <1>7, <2>1 DEF Tick
  <2>3. fetch'[w].order = fetch[w].order /\ fetch'[w].piece = fetch[w].piece
    BY <2>1, <2>2 DEF Fetches
  <2>4. UNCHANGED asked
    BY <1>7 DEF Tick, history
  <2>5. QED
    BY <2>1, <2>3, <2>4, AskFrame
<1>8. CASE UNCHANGED vars
  BY <1>2, <1>8 DEF vars, history
<1>9. QED
  BY <1>3, <1>4, <1>5, <1>6, <1>7, <1>8 DEF Next, Worker

\* A fetch fails only after every candidate was tried: a cooldown or a missing
\* piece puts a peer last and never out.
THEOREM EveryCandidateIsAsked == Spec => []FailsAfterAsking
<1>1. Init => AskFull
  BY InitTypeInv, InitCountInv DEF AskFull, AskInv, Init
<1>2. ASSUME AskFull PROVE FailsAfterAsking
  <2> SUFFICES ASSUME NEW w \in Workers, fetch[w] # None, fetch[w].order = <<>>
               PROVE  Cardinality(asked[fetch[w].piece]) = CandidateCount
    BY DEF FailsAfterAsking
  <2>1. fetch[w].piece \in Pieces
    BY <1>2, FetchTypes DEF AskFull, TypeInv, TypeOK
  <2>2. Cardinality(asked[fetch[w].piece]) \in Nat
    <3>1. asked[fetch[w].piece] \in SUBSET Entries
      BY <1>2, <2>1 DEF AskFull, TypeInv, TypeOK
    <3>2. QED
      BY <3>1, EntriesFinite, FS_Subset, FS_CardinalityType
  <2>3. Cardinality(asked[fetch[w].piece]) + Len(fetch[w].order) = CandidateCount
    BY <1>2 DEF AskFull, AskInv, Asks
  <2>4. QED
    BY <2>2, <2>3
<1>3. QED
  BY <1>1, <1>2, NextAskInv, PTL DEF Spec
=============================================================================
