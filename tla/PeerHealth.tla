------------------------------ MODULE PeerHealth ------------------------------
(***************************************************************************)
(* What the download of src/download.rs remembers of its peers: the pieces *)
(* each one is known to have, the pieces it was found to lack, and until   *)
(* when it is kept back; and the number of peers known to have each piece. *)
(* The startup probe writes it, every worker reads it once, when it ranks  *)
(* the candidates for a piece, and updates it after every try.             *)
(*                                                                         *)
(* An update holds the locks of both tables, so it is one action.  Time    *)
(* passes in units of RETRY_DELAY; an Instant in the future is kept as the *)
(* time that is left.  A try may end in any way a peer can make it end: a  *)
(* magnet download, whose peers count as having every piece, is the case   *)
(* where they never lack one.  The last criteria of the ranking (failures, *)
(* successes, addresses) are data that no property here tells apart: peers *)
(* equal in the first two come in any order.                               *)
(***************************************************************************)
EXTENDS Integers, Sequences, FiniteSets

CONSTANTS
  Peers,             \* the peers the tracker named
  Doubled,           \* those it named twice: the list is not deduplicated
  NumPieces,         \* info.pieces.len()
  Workers,           \* the spawned tasks
  Attempts,          \* fetches of a piece: PIECE_REQUEUE_LIMIT + 1
  MaxRetries,        \* MAX_RETRIES, the candidates of one fetch
  CooldownAttempts,  \* COOLDOWN_ATTEMPTS
  RequestTimeout,    \* the shortest timeout of a transfer, in RETRY_DELAYs
  None               \* no fetch

ASSUME PeersAssumption == /\ IsFiniteSet(Peers)
                          /\ Doubled \subseteq Peers

ASSUME NumbersAssumption ==
  /\ NumPieces \in Nat \ {0}
  /\ Attempts \in Nat \ {0}
  /\ MaxRetries \in Nat \ {0}
  /\ CooldownAttempts \in Nat
  /\ RequestTimeout \in Nat \ {0}

Pieces == 0 .. NumPieces - 1

\* The list of peers, whose members are probed and ranked one by one.
Entries == (Peers \X {1}) \union (Doubled \X {2})

PeerOf(e) == e[1]

Kinds == {"Generic", "Timeout", "MissingPiece", "Verification"}

\* cooldown_until lies this far behind the start of the fetch.
Delay(kind) == CASE kind = "Timeout" -> CooldownAttempts
                 [] kind = "Verification" -> CooldownAttempts + 1
                 [] OTHER -> 1

MaxDelay == CooldownAttempts + 1

VARIABLES
  unprobed,      \* the entries the startup probe has not asked yet
  length,        \* known_pieces: its length for each peer, 0 for None
  good,          \*               and the pieces it marks
  unavailable,   \* unavailable_pieces
  cooling,       \* the time left until cooldown_until
  availability,  \* piece_availability
  left,          \* the fetches each piece has left in the queue
  fetch,         \* each worker's fetch: piece, order, age and since
  evidence,      \* history: what a peer last showed of a piece
  asked          \* history: the entries a piece's last fetch has tried

health == <<length, good, unavailable, cooling>>
history == <<evidence, asked>>
vars == <<unprobed, health, availability, left, fetch, history>>

Init == /\ unprobed = Entries
        /\ length = [r \in Peers |-> 0]
        /\ good = [r \in Peers |-> {}]
        /\ unavailable = [r \in Peers |-> {}]
        /\ cooling = [r \in Peers |-> 0]
        /\ availability = [p \in Pieces |-> 0]
        /\ left = [p \in Pieces |-> Attempts]
        /\ fetch = [w \in Workers |-> None]
        /\ evidence = [r \in Peers |-> [p \in Pieces |-> "none"]]
        /\ asked = [p \in Pieces |-> {}]

-----------------------------------------------------------------------------
(* Known pieces and their counts *)

\* known_pieces.get(piece_index)
Known(r, p) == IF p < length[r] THEN (IF p \in good[r] THEN "yes" ELSE "no")
               ELSE "unknown"

\* update_piece_availability_count
Recount(n, previous, next) ==
  CASE previous # next /\ previous = "yes" /\ n > 0 -> n - 1
    [] previous # next /\ next = "yes" -> n + 1
    [] OTHER -> n

\* Mutant of NoteBitfield: the pieces of a peer listed twice count twice.
NoteBitfieldAfresh(r, bits) ==
  /\ length' = [length EXCEPT ![r] = NumPieces]
  /\ good' = [good EXCEPT ![r] = bits]
  /\ availability' = [p \in Pieces |-> IF p \in bits THEN availability[p] + 1
                                       ELSE availability[p]]
  /\ UNCHANGED unavailable

\* note_peer_bitfield: the counts change by the difference to what the same
\* peer showed before.
NoteBitfield(r, bits) ==
  /\ length' = [length EXCEPT ![r] = NumPieces]
  /\ good' = [good EXCEPT ![r] = bits]
  /\ availability' =
       [p \in Pieces |-> Recount(availability[p], Known(r, p),
                                 IF p \in bits THEN "yes" ELSE "no")]
  /\ UNCHANGED unavailable

\* Mutant of NotePieceSuccess: a fresh vector replaces what was known.
NotePieceSuccessAfresh(r, p) ==
  /\ length' = [length EXCEPT ![r] = NumPieces]
  /\ good' = [good EXCEPT ![r] = {p}]
  /\ availability' = [availability EXCEPT
                        ![p] = Recount(@, Known(r, p), "yes")]
  /\ unavailable' = [unavailable EXCEPT ![r] = @ \ {p}]

\* note_peer_piece_success.  A vector that is too short stays so, but the
\* piece is counted.
NotePieceSuccess(r, p) ==
  /\ length' = [length EXCEPT ![r] = IF @ = 0 THEN NumPieces ELSE @]
  /\ good' = [good EXCEPT ![r] = IF p < length'[r] THEN @ \union {p} ELSE @]
  /\ availability' = [availability EXCEPT
                        ![p] = Recount(@, Known(r, p), "yes")]
  /\ unavailable' = [unavailable EXCEPT ![r] = @ \ {p}]

\* record_peer_missing_piece, as record_peer_failure calls it: a peer of
\* which nothing is known gets a vector that ends at the missing piece.
RecordMissingPiece(r, p) ==
  /\ length' = [length EXCEPT ![r] = IF @ = 0 THEN p + 1 ELSE @]
  /\ good' = [good EXCEPT ![r] = @ \ {p}]
  /\ availability' = [availability EXCEPT
                        ![p] = Recount(@, Known(r, p), "no")]
  /\ unavailable' = [unavailable EXCEPT ![r] = @ \union {p}]

\* What is left of a time a when b of it has passed.
Monus(a, b) == IF a > b THEN a - b ELSE 0

\* record_peer_failure, for a fetch begun age ago: the new cooldown replaces
\* the old one.
RecordFailure(r, p, kind, age) ==
  /\ cooling' = [cooling EXCEPT ![r] = Monus(Delay(kind), age)]
  /\ \/ kind = "MissingPiece" /\ RecordMissingPiece(r, p)
     \/ /\ kind # "MissingPiece"
        /\ UNCHANGED <<length, good, unavailable, availability>>

\* record_peer_success.
RecordSuccess(r) == cooling' = [cooling EXCEPT ![r] = 0]

Shows(r, p, what) == evidence' = [evidence EXCEPT ![r][p] = what]

-----------------------------------------------------------------------------
(* collect_piece_availability *)

\* A peer answers with its bitfield, parsed to one mark per piece.
ProbeOk(e, bits) ==
  /\ e \in unprobed
  /\ unprobed' = unprobed \ {e}
  /\ NoteBitfield(PeerOf(e), bits)
  /\ evidence' = [evidence EXCEPT ![PeerOf(e)] =
                    [p \in Pieces |-> IF p \in bits THEN "has" ELSE "lacks"]]
  /\ UNCHANGED <<cooling, left, fetch, asked>>

\* A peer that cannot be reached or sends something else leaves no trace.
ProbeErr(e) == /\ e \in unprobed
               /\ unprobed' = unprobed \ {e}
               /\ UNCHANGED <<health, availability, left, fetch, history>>

-----------------------------------------------------------------------------
(* build_ranked_peer_list *)

\* piece_known_rank
Rank(r, p) == CASE p \in unavailable[r] -> 2
                [] p \notin unavailable[r] /\ Known(r, p) = "yes" -> 0
                [] p \notin unavailable[r] /\ length[r] = 0 -> 1
                [] OTHER -> 2

\* The sort key's first two components, in one number.
Key(r, p) == Rank(r, p) + (IF cooling[r] > 0 THEN 3 ELSE 0)

CandidateCount == IF Cardinality(Entries) < MaxRetries
                  THEN Cardinality(Entries) ELSE MaxRetries

\* Mutant of CandidateOrders: peers in cooldown are left out, not put last.
CandidateOrdersWithoutCooling(p) ==
  LET All == {e \in Entries : cooling[PeerOf(e)] = 0}
  IN  {s \in UNION {[1 .. n -> All] : n \in 0 .. CandidateCount} :
        /\ \A i, j \in DOMAIN s : s[i] = s[j] => i = j
        /\ Len(s) = CandidateCount \/ \A e \in All : \E i \in DOMAIN s : s[i] = e
        /\ \A i, j \in DOMAIN s : i < j => Key(PeerOf(s[i]), p) <= Key(PeerOf(s[j]), p)}

\* The orders that sorting by Key and taking the first MAX_RETRIES may give.
\* The two entries of a peer have one key: they stay together and in order.
CandidateOrders(p) ==
  {s \in [1 .. CandidateCount -> Entries] :
     /\ \A i, j \in DOMAIN s :
          i < j => /\ s[i] # s[j]
                   /\ Key(PeerOf(s[i]), p) <= Key(PeerOf(s[j]), p)
     /\ \A i \in DOMAIN s :
          s[i][2] = 2 => i > 1 /\ s[i - 1] = <<PeerOf(s[i]), 1>>
     /\ \A e \in Entries, i \in DOMAIN s :
          Key(PeerOf(e), p) < Key(PeerOf(s[i]), p)
            => \E j \in DOMAIN s : s[j] = e}

-----------------------------------------------------------------------------
(* download_piece_with_retry_from_peers *)

Fetches == {f \in [piece : Pieces, order : Seq(Entries), age : 0 .. MaxDelay,
                   since : -1 .. RequestTimeout] :
              Len(f.order) <= CandidateCount}

ASSUME FetchAssumption == None \notin Fetches

\* A worker has taken the piece from the queue and ranks its candidates; its
\* clock starts.
Begin(w, p) ==
  /\ unprobed = {}
  /\ fetch[w] = None
  /\ left[p] > 0
  /\ \A v \in Workers : fetch[v] # None => fetch[v].piece # p
  /\ \E s \in CandidateOrders(p) :
       fetch' = [fetch EXCEPT ![w] = [piece |-> p, order |-> s,
                                      age |-> 0, since |-> 0]]
  /\ left' = [left EXCEPT ![p] = @ - 1]
  /\ asked' = [asked EXCEPT ![p] = {}]
  /\ UNCHANGED <<unprobed, health, availability, evidence>>

\* The worker is past its sleep and tries the first of its candidates.
Trying(w) == /\ fetch[w] # None
             /\ fetch[w].order # <<>>
             /\ fetch[w].since >= 0

Candidate(w) == PeerOf(Head(fetch[w].order))

\* The piece verifies, and is not fetched again.
Succeed(w) ==
  LET r == Candidate(w)
      p == fetch[w].piece IN
  /\ Trying(w)
  /\ RecordSuccess(r)
  /\ NotePieceSuccess(r, p)
  /\ left' = [left EXCEPT ![p] = 0]
  /\ fetch' = [fetch EXCEPT ![w] = None]
  /\ Shows(r, p, "has")
  /\ UNCHANGED <<unprobed, asked>>

\* The failure of a peer is recorded and the worker sleeps before the next
\* candidate.  Only an unanswered request times out.
Fail(w, kind) ==
  LET r == Candidate(w)
      p == fetch[w].piece IN
  /\ Trying(w)
  /\ kind = "Timeout" => fetch[w].since >= RequestTimeout
  /\ RecordFailure(r, p, kind, fetch[w].age)
  /\ IF kind = "MissingPiece" THEN Shows(r, p, "lacks") ELSE UNCHANGED evidence
  /\ fetch' = [fetch EXCEPT ![w].order = Tail(@), ![w].since = -1]
  /\ asked' = [asked EXCEPT ![p] = @ \union {Head(fetch[w].order)}]
  /\ UNCHANGED <<unprobed, left>>

\* Every candidate has failed: the piece goes back to the queue if it has a
\* fetch left.
GiveUp(w) == /\ fetch[w] # None
             /\ fetch[w].order = <<>>
             /\ fetch[w].since >= 0
             /\ fetch' = [fetch EXCEPT ![w] = None]
             /\ UNCHANGED <<unprobed, health, availability, left, history>>

Upto(bound, n) == IF n < bound THEN n ELSE bound

\* One RETRY_DELAY passes.  Ages beyond the longest delay make no difference.
Tick == /\ unprobed = {}
        /\ fetch' = [w \in Workers |->
                       IF fetch[w] = None THEN None
                       ELSE [fetch[w] EXCEPT !.age = Upto(MaxDelay, @ + 1),
                                             !.since = Upto(RequestTimeout, @ + 1)]]
        /\ cooling' = [r \in Peers |-> Monus(cooling[r], 1)]
        /\ UNCHANGED <<unprobed, length, good, unavailable, availability,
                       left, history>>

-----------------------------------------------------------------------------
Probe == \E e \in Entries : ProbeErr(e) \/ \E bits \in SUBSET Pieces : ProbeOk(e, bits)

Worker(w) == \/ \E p \in Pieces : Begin(w, p)
             \/ Succeed(w)
             \/ \E kind \in Kinds : Fail(w, kind)
             \/ GiveUp(w)

Next == Probe \/ (\E w \in Workers : Worker(w)) \/ Tick

Spec == Init /\ [][Next]_vars

-----------------------------------------------------------------------------
TypeOK == /\ unprobed \subseteq Entries
          /\ length \in [Peers -> 0 .. NumPieces]
          /\ good \in [Peers -> SUBSET Pieces]
          /\ unavailable \in [Peers -> SUBSET Pieces]
          /\ cooling \in [Peers -> 0 .. MaxDelay]
          /\ availability \in [Pieces -> Nat]
          /\ left \in [Pieces -> 0 .. Attempts]
          /\ fetch \in [Workers -> Fetches \union {None}]
          /\ evidence \in [Peers -> [Pieces -> {"none", "has", "lacks"}]]
          /\ asked \in [Pieces -> SUBSET Entries]

Holders(p) == {r \in Peers : Known(r, p) = "yes"}

\* The count that orders the queue is the number of peers known to have the
\* piece, whatever the order of bitfields, successes and failures of all
\* workers and peers.  Only a piece that is no longer fetched may be counted
\* once too often: its success met a vector that was too short to hold it.
CountsMatchKnowledge ==
  \A p \in Pieces :
    LET n == Cardinality(Holders(p))
    IN  /\ availability[p] \in n .. n + 1
        /\ left[p] > 0 => availability[p] = n

\* What a peer showed last decides its rank for a piece that is still wanted:
\* neither an older bitfield nor another piece's outcome overrules it.
EvidenceWins ==
  \A r \in Peers, p \in Pieces :
    /\ evidence[r][p] = "lacks" => Rank(r, p) = 2
    /\ evidence[r][p] = "has" /\ left[p] > 0 => Rank(r, p) = 0

\* A peer in cooldown or without the piece comes last but is not dropped: a
\* fetch fails only after every listed peer, or MAX_RETRIES of them, was tried.
FailsAfterAsking ==
  \A w \in Workers :
    fetch[w] # None /\ fetch[w].order = <<>>
      => Cardinality(asked[fetch[w].piece]) = CandidateCount

\* "Smarter peer-health scheduling with cooldowns": a peer that has just timed
\* out is in its cooldown.
TimeoutCools ==
  [][\A w \in Workers : Fail(w, "Timeout") => cooling'[Candidate(w)] > 0]_vars
=============================================================================
