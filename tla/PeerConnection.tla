---------------------------- MODULE PeerConnection ----------------------------
(***************************************************************************)
(* One connection of src/peer.rs to a peer, from the handshake to its use: *)
(* the startup probe for a bitfield, the blocks of one piece (src/         *)
(* download.rs), or the metadata of a magnet link (src/source.rs).         *)
(*                                                                         *)
(* The other end is a peer that keeps to the protocol: it answers each     *)
(* request once and in order, but as late as it likes, badly, or not at    *)
(* all; it may choke and unchoke, talk of other things, and hang up.       *)
(* `wire' holds the messages that are on their way to the client, `asked'  *)
(* the requests the peer has still to answer.  A request arrives at once:  *)
(* delay is in the answer.  A message is a pair of its kind and a number.  *)
(***************************************************************************)
EXTENDS Integers, Sequences, FiniteSets

CONSTANTS
  NumBlocks,          \* num_blocks of the piece, or piece_count of the metadata
  BlockRetries,       \* MAX_BLOCK_RETRIES
  HandshakeAttempts,  \* MAX_HANDSHAKE_ATTEMPTS
  Greetings,          \* what a peer may send right after the connection is made
  Chatter             \* bound: messages the peer sends unasked after that,
                      \* Endless if it never stops

\* "aux" is what handle_auxiliary_message skips when it needs no reply:
\* keep-alive and have, and choke, whose identifier is a keep-alive's.
\* "bad" answers a request with a wrong length, a wrong size or a reject.
Kinds == {"hello", "ext0", "bits", "aux", "unchoke", "other",
          "block", "data", "bad"}

Messages == Kinds \X Int

Requests == {"block", "data"} \X (1 .. NumBlocks)

Goals == {"probe", "piece", "metadata"}

Endless == -1

\* What an extension handshake may hold instead of an identifier for
\* ut_metadata with the size of the metadata: not both, or no dictionary.
NoId == -1
Unparsable == -2

\* The messages of a greeting: the handshake with the extension bit (1),
\* without it (0) or an invalid one (-1); the extension handshake with the
\* identifier chosen for ut_metadata; the bitfield, at most once, with (1) or
\* without (0) the piece.
ASSUME ConnectionAssumption ==
  /\ NumBlocks \in Nat \ {0}
  /\ BlockRetries \in Nat \ {0}
  /\ HandshakeAttempts \in Nat \ {0}
  /\ Chatter \in Nat \union {Endless}
  /\ Greetings \subseteq Seq({"hello", "ext0", "bits"} \X (Unparsable .. 255))
  /\ \A g \in Greetings : \A i, j \in DOMAIN g :
       g[i][1] = "bits" /\ g[j][1] = "bits" => i = j

\* The identifier under which this client takes ut_metadata messages.
OwnId == 1

VARIABLES
  goal,      \* what the connection is for
  magnet,    \* is_magnet
  phase,     \* which call of Peer the task is in
  attempts,  \* handshake attempts, then the retries of the current block
  pending,   \* pending_messages
  theirId,   \* extension_handshake: metadata_extension_id
  data,      \* piece_data or metadata: which blocks it consists of
  torn,      \* a read was dropped in the middle of a message
  wire,      \* the messages on their way from the peer
  asked,     \* the requests the peer has not answered
  peer,      \* "silent" before its greeting, then "open", then "closed"
  choking,   \* the peer chokes the client
  chatter,   \* the messages the peer may still send unasked
  lacks,     \* the peer does not have the piece
  refused,   \* history: the peer did what must end the connection
  faults     \* history: block attempts that the peer made fail

client == <<goal, magnet, phase, attempts, pending, theirId, data, torn>>
remote == <<peer, choking, chatter, lacks>>
history == <<refused, faults>>
vars == <<client, wire, asked, remote, history>>

Ended == {"done", "failed"}

Init == /\ goal \in Goals
        /\ magnet \in BOOLEAN
        /\ goal = "metadata" => magnet
        /\ phase = "greet"
        /\ attempts = 0
        /\ pending = <<>>
        /\ theirId = NoId
        /\ data = <<>>
        /\ torn = FALSE
        /\ wire = <<>>
        /\ asked = <<>>
        /\ peer = "silent"
        /\ choking = TRUE
        /\ chatter = Chatter
        /\ lacks = FALSE
        /\ refused = FALSE
        /\ faults = 0

\* The block that the client waits for.
Current == Len(data) + 1

\* The peer has something to send, or keeps the client choked.
Owes == \/ wire # <<>>
        \/ asked # <<>>
        \/ choking /\ phase \in {"unchoke", "blocks"}

\* A request reaches a peer that reads and, for blocks, does not choke.
Request(r) ==
  asked' = IF peer = "open" /\ ~torn /\ (r[1] = "data" \/ ~choking)
           THEN Append(asked, r) ELSE asked

\* receive_message: what was deferred comes before what is on the wire.
Take(m) ==
  \/ /\ pending # <<>>
     /\ m = Head(pending)
     /\ pending' = Tail(pending)
     /\ UNCHANGED wire
  \/ /\ pending = <<>>
     /\ wire # <<>>
     /\ m = Head(wire)
     /\ wire' = Tail(wire)
     /\ UNCHANGED pending

Incoming == IF pending # <<>> THEN {Head(pending)}
            ELSE IF wire # <<>> THEN {Head(wire)} ELSE {}

-----------------------------------------------------------------------------
(* Handshake and extension handshake *)

\* What follows handshake(): a probe of a magnet's peer ends here.
Proceed(id) ==
  CASE goal = "metadata" /\ id # NoId -> /\ phase' = "metadata"
                                         /\ Request(<<"data", 1>>)
    [] goal = "metadata" /\ id = NoId -> phase' = "failed" /\ UNCHANGED asked
    [] goal = "probe" /\ magnet -> phase' = "done" /\ UNCHANGED asked
    [] goal = "piece" /\ magnet -> phase' = "unchoke" /\ UNCHANGED asked
    [] OTHER -> phase' = "bitfield" /\ UNCHANGED asked

\* try_handshake succeeds.
Handshake ==
  /\ phase = "greet"
  /\ wire # <<>>
  /\ Head(wire) \in {<<"hello", 0>>, <<"hello", 1>>}
  /\ wire' = Tail(wire)
  /\ attempts' = 0
  /\ IF Head(wire) = <<"hello", 1>>
     THEN phase' = "extension" /\ UNCHANGED asked
     ELSE Proceed(NoId)
  /\ UNCHANGED <<goal, magnet, pending, theirId, data, torn, remote, history>>

\* try_handshake fails: no handshake, another torrent's, or a closed stream.
HandshakeFails ==
  /\ phase = "greet"
  /\ \/ /\ wire # <<>>
        /\ Head(wire) \notin {<<"hello", 0>>, <<"hello", 1>>}
        /\ wire' = Tail(wire)
     \/ peer = "closed" /\ UNCHANGED wire
  /\ attempts' = attempts + 1
  /\ phase' = IF attempts' = HandshakeAttempts THEN "failed" ELSE phase
  /\ refused' = TRUE
  /\ UNCHANGED <<goal, magnet, pending, theirId, data, torn, asked, remote,
                 faults>>

\* receive_extension_handshake finds the extension handshake.
ReceiveExtension ==
  /\ phase = "extension"
  /\ \E m \in Incoming :
       /\ m[1] = "ext0"
       /\ Take(m)
       /\ IF m[2] = Unparsable
          THEN phase' = "failed" /\ UNCHANGED <<theirId, asked>>
          ELSE theirId' = m[2] /\ Proceed(m[2])
  /\ UNCHANGED <<goal, magnet, attempts, data, torn, remote, history>>

\* receive_extension_handshake keeps any other message for later, at the end
\* of the queue that receive_message empties first.
Defer ==
  /\ phase = "extension"
  /\ \E m \in Incoming :
       /\ m[1] # "ext0"
       /\ IF pending # <<>>
          THEN pending' = Append(Tail(pending), m) /\ UNCHANGED wire
          ELSE pending' = <<m>> /\ wire' = Tail(wire)
  /\ UNCHANGED <<goal, magnet, phase, attempts, theirId, data, torn, asked,
                 remote, history>>

-----------------------------------------------------------------------------
(* Bitfield and unchoke *)

\* Mutant of ReceiveBitfield: has_piece is not asked.
ReceiveBitfieldOnly ==
  /\ phase = "bitfield"
  /\ \E m \in Incoming :
       /\ Take(m)
       /\ phase' = CASE m[1] # "bits" -> "failed"
                     [] goal = "probe" -> "done"
                     [] OTHER -> "unchoke"
  /\ UNCHANGED <<goal, magnet, attempts, theirId, data, torn, asked, remote,
                 history>>

\* receive_bitfield, and the check of has_piece that follows it in a download.
ReceiveBitfield ==
  /\ phase = "bitfield"
  /\ \E m \in Incoming :
       /\ Take(m)
       /\ phase' = CASE m[1] # "bits" -> "failed"
                     [] m[1] = "bits" /\ goal = "probe" -> "done"
                     [] m = <<"bits", 0>> /\ goal # "probe" -> "failed"
                     [] OTHER -> "unchoke"
  /\ UNCHANGED <<goal, magnet, attempts, theirId, data, torn, asked, remote,
                 history>>

\* receive_unchoke.  The bitfield of a magnet's peer is read here.
ReceiveUnchoke ==
  /\ phase = "unchoke"
  /\ \E m \in Incoming :
       /\ Take(m)
       /\ \/ /\ m[1] \in {"aux", "bits"}
             /\ UNCHANGED <<phase, asked, refused>>
          \/ /\ m[1] = "unchoke"
             /\ phase' = "blocks"
             /\ Request(<<"block", 1>>)
             /\ UNCHANGED refused
          \/ /\ m[1] \notin {"aux", "bits", "unchoke"}
             /\ phase' = "failed"
             /\ refused' = TRUE
             /\ UNCHANGED asked
  /\ UNCHANGED <<goal, magnet, attempts, theirId, data, torn, remote, faults>>

-----------------------------------------------------------------------------
(* Blocks *)

\* Mutant of LoseAttempt: the attempts are not counted.
LoseAttemptUncounted ==
  /\ Request(<<"block", Current>>)
  /\ UNCHANGED <<phase, attempts>>

\* An attempt ends without its block: the next one sends the request again,
\* the last one ends the piece.
LoseAttempt ==
  IF attempts = BlockRetries - 1
  THEN phase' = "failed" /\ UNCHANGED <<attempts, asked>>
  ELSE /\ attempts' = attempts + 1
       /\ Request(<<"block", Current>>)
       /\ UNCHANGED phase

\* Mutant of NextBlock: the attempts of all blocks are counted together.
NextBlockKeepingCount(b) ==
  /\ data' = Append(data, b)
  /\ IF Current = NumBlocks
     THEN phase' = "done" /\ UNCHANGED asked
     ELSE Request(<<"block", Current + 1>>) /\ UNCHANGED phase
  /\ UNCHANGED attempts

\* A block is appended to piece_data and the next one is requested.
NextBlock(b) ==
  /\ data' = Append(data, b)
  /\ attempts' = 0
  /\ IF Current = NumBlocks
     THEN phase' = "done" /\ UNCHANGED asked
     ELSE Request(<<"block", Current + 1>>) /\ UNCHANGED phase

\* Mutant of ReceiveBlock: index and begin are not compared.
ReceiveAnyBlock ==
  /\ phase = "blocks"
  /\ ~torn
  /\ \E m \in Incoming :
       /\ Take(m)
       /\ \/ /\ m[1] = "block"
             /\ NextBlock(m[2])
             /\ UNCHANGED history
          \/ /\ m[1] # "block"
             /\ LoseAttempt
             /\ faults' = faults + 1
             /\ UNCHANGED <<data, refused>>
  /\ UNCHANGED <<goal, magnet, theirId, torn, remote>>

\* receive_block, within its timeout: auxiliary messages are skipped, a block
\* of the wrong length ends the piece, and everything else costs an attempt:
\* an answer to an earlier request as well as a message of another kind.
ReceiveBlock ==
  /\ phase = "blocks"
  /\ ~torn
  /\ \E m \in Incoming :
       /\ Take(m)
       /\ \/ /\ m[1] \in {"aux", "bits"}
             /\ UNCHANGED <<phase, attempts, data, asked, history>>
          \/ /\ m = <<"block", Current>>
             /\ NextBlock(m[2])
             /\ UNCHANGED history
          \/ /\ m = <<"bad", Current>>
             /\ phase' = "failed"
             /\ UNCHANGED <<attempts, data, asked, history>>
          \/ /\ m[1] \in {"block", "bad"}
             /\ m[2] # Current
             /\ LoseAttempt
             /\ UNCHANGED <<data, history>>
          \/ /\ m[1] \notin {"aux", "bits", "block", "bad"}
             /\ LoseAttempt
             /\ faults' = faults + 1
             /\ UNCHANGED <<data, refused>>
  /\ UNCHANGED <<goal, magnet, theirId, torn, remote>>

\* REQUEST_TIMEOUT.  A message that has begun to arrive may be cut: what was
\* read of it is dropped with the future, and what is on the wire are no
\* longer messages.
BlockTimeout ==
  /\ phase = "blocks"
  /\ ~torn
  /\ pending = <<>>
  /\ peer = "open" \/ wire # <<>>
  /\ LoseAttempt
  /\ faults' = IF Owes THEN faults + 1 ELSE faults
  /\ \/ UNCHANGED <<torn, wire>>
     \/ wire # <<>> /\ torn' = TRUE /\ wire' = <<>>
  /\ UNCHANGED <<goal, magnet, pending, theirId, data, remote, refused>>

\* After a cut, payload is read for lengths and identifiers, with any result;
\* 0 is a block of other bytes.
ReadTorn ==
  /\ phase = "blocks"
  /\ torn
  /\ \/ LoseAttempt /\ UNCHANGED data
     \/ NextBlock(0)
     \/ phase' = "failed" /\ UNCHANGED <<attempts, data, asked>>
  /\ UNCHANGED <<goal, magnet, pending, theirId, torn, wire, remote, history>>

-----------------------------------------------------------------------------
(* Metadata *)

\* receive_metadata: messages are awaited under the identifier that the peer
\* announced, but the peer sends them under this client's.  Under 0 it sends
\* extension handshakes, which are no answers.
ReceiveMetadata ==
  /\ phase = "metadata"
  /\ \E m \in Incoming :
       /\ Take(m)
       /\ \/ /\ m = <<"data", Current>>
             /\ theirId = OwnId
             /\ data' = Append(data, Current)
             /\ IF Current = NumBlocks
                THEN phase' = "done" /\ UNCHANGED asked
                ELSE Request(<<"data", Current + 1>>) /\ UNCHANGED phase
          \/ /\ \/ m = <<"bad", Current>> /\ theirId = OwnId
                \/ m[1] = "ext0" /\ theirId = 0
             /\ phase' = "failed"
             /\ UNCHANGED <<data, asked>>
          \/ /\ m \notin {<<"data", Current>>, <<"bad", Current>>} \/ theirId # OwnId
             /\ m[1] # "ext0" \/ theirId # 0
             /\ UNCHANGED <<phase, data, asked>>
  /\ UNCHANGED <<goal, magnet, attempts, theirId, torn, remote, history>>

-----------------------------------------------------------------------------
(* A peer that is silent or gone *)

\* Mutant of ReadTimeout: only metadata is read with a timeout.
ReadTimeoutOfMetadata ==
  /\ phase = "metadata"
  /\ pending = <<>>
  /\ peer = "open" \/ wire # <<>>
  /\ phase' = "failed"
  /\ refused' = (refused \/ Owes)
  /\ UNCHANGED <<goal, magnet, attempts, pending, theirId, data, torn, wire,
                 asked, remote, faults>>

\* TIMEOUT_DURATION of a read, where no shorter timeout applies.
ReadTimeout ==
  /\ phase \in {"extension", "bitfield", "unchoke", "metadata"}
  /\ pending = <<>>
  /\ peer = "open" \/ wire # <<>>
  /\ phase' = "failed"
  /\ refused' = (refused \/ Owes)
  /\ UNCHANGED <<goal, magnet, attempts, pending, theirId, data, torn, wire,
                 asked, remote, faults>>

\* A read finds the end of the stream, or a write fails: in receive_block the
\* read's error costs an attempt, everything else ends the connection.
ConnectionLost ==
  /\ phase \notin Ended \union {"greet"}
  /\ peer = "closed"
  /\ pending = <<>>
  /\ \/ phase = "blocks" /\ wire = <<>> /\ LoseAttempt
     \/ phase' = "failed" /\ UNCHANGED <<attempts, asked>>
  /\ refused' = TRUE
  /\ UNCHANGED <<goal, magnet, pending, theirId, data, torn, wire, remote,
                 faults>>

-----------------------------------------------------------------------------
(* The peer *)

\* The greetings that the protocol allows and that serve the goal: after the
\* handshake the bitfield comes first or the extension handshake, if any.
Suits(g) ==
  \E id \in NoId .. 255, bits \in {<<>>, <<<<"bits", 0>>>>, <<<<"bits", 1>>>>} :
    /\ \/ g = <<<<"hello", 0>>>> \o bits /\ goal # "metadata"
       \/ /\ g \in {<<<<"hello", 1>>, <<"ext0", id>>>> \o bits,
                   <<<<"hello", 1>>>> \o bits \o <<<<"ext0", id>>>>}
          /\ goal = "metadata" => id > 0
    /\ ~magnet => bits # <<>>
    /\ goal = "piece" /\ ~magnet => bits # <<<<"bits", 0>>>>

Greet ==
  /\ peer = "silent"
  /\ \E g \in Greetings :
       /\ wire' = g
       /\ lacks' = \E i \in DOMAIN g : g[i] = <<"bits", 0>>
       /\ refused' = (refused \/ ~Suits(g))
  /\ peer' = "open"
  /\ UNCHANGED <<client, asked, choking, chatter, faults>>

\* The peer keeps going until nobody understands or wants it any more.
Talks == peer = "open" /\ ~torn /\ phase \notin Ended

\* It answers the oldest request.
Answer ==
  /\ Talks
  /\ asked # <<>>
  /\ asked' = Tail(asked)
  /\ \/ wire' = Append(wire, Head(asked)) /\ UNCHANGED refused
     \/ wire' = Append(wire, <<"bad", Head(asked)[2]>>) /\ refused' = TRUE
  /\ UNCHANGED <<client, remote, faults>>

\* The peer has not yet said all that nobody asked for.
SpendChatter == /\ chatter # 0
                /\ chatter' = IF chatter = Endless THEN Endless ELSE chatter - 1

\* It sends what nobody asked for: a have, a keep-alive, a message of a kind
\* this client does not know.
Chat ==
  /\ Talks
  /\ SpendChatter
  /\ \E kind \in {"aux", "other"} : wire' = Append(wire, <<kind, 0>>)
  /\ UNCHANGED <<client, asked, peer, choking, lacks, history>>

\* It forgets the requests of a client that it chokes.
Choke ==
  /\ Talks
  /\ ~choking
  /\ SpendChatter
  /\ choking' = TRUE
  /\ asked' = <<>>
  /\ wire' = Append(wire, <<"aux", 0>>)
  /\ UNCHANGED <<client, peer, lacks, history>>

\* It has read that the client is interested.
Unchoke ==
  /\ Talks
  /\ phase \in {"unchoke", "blocks"}
  /\ choking
  /\ choking' = FALSE
  /\ wire' = Append(wire, <<"unchoke", 0>>)
  /\ UNCHANGED <<client, asked, peer, chatter, lacks, history>>

HangUp ==
  /\ peer # "closed"
  /\ phase \notin Ended
  /\ peer' = "closed"
  /\ asked' = <<>>
  /\ UNCHANGED <<client, wire, choking, chatter, lacks, history>>

-----------------------------------------------------------------------------
Client == \/ Handshake \/ HandshakeFails
          \/ ReceiveExtension \/ Defer
          \/ ReceiveBitfield \/ ReceiveUnchoke
          \/ ReceiveBlock \/ BlockTimeout \/ ReadTorn
          \/ ReceiveMetadata
          \/ ReadTimeout \/ ConnectionLost

Remote == Greet \/ Answer \/ Chat \/ Choke \/ Unchoke \/ HangUp

Next == Client \/ Remote

\* The client's task is scheduled and its timers expire.  The handshake, which
\* is read without a timeout, is answered or the peer hangs up.
Fairness == /\ WF_vars(Client)
            /\ WF_vars(phase = "greet" /\ (Greet \/ HangUp))

Spec == Init /\ [][Next]_vars /\ Fairness

-----------------------------------------------------------------------------
(* Properties *)

\* The types of the scalars, the counters, the queues and the data.  A block
\* never uses more than its attempts, only the wait for an extension handshake
\* defers messages, and no exchange goes on beyond its last block.
ScalarTypes == /\ goal \in Goals
               /\ magnet \in BOOLEAN
               /\ phase \in {"greet", "extension", "bitfield", "unchoke",
                            "blocks", "metadata"} \union Ended
               /\ torn \in BOOLEAN
               /\ peer \in {"silent", "open", "closed"}
               /\ choking \in BOOLEAN
               /\ lacks \in BOOLEAN
               /\ refused \in BOOLEAN

CounterTypes == /\ attempts \in Nat
                /\ phase = "greet" => attempts < HandshakeAttempts
                /\ phase = "blocks" => attempts < BlockRetries
                /\ theirId \in Int
                /\ chatter \in Nat \union {Endless}
                /\ chatter <= Chatter
                /\ faults \in Nat

QueueTypes == /\ pending \in Seq(Messages)
              /\ phase # "extension" => pending = <<>>
              /\ wire \in Seq(Messages)
              /\ asked \in Seq(Requests)

DataTypes == /\ data \in Seq(0 .. NumBlocks)
             /\ phase \notin Ended => Len(data) < NumBlocks

TypeOK == ScalarTypes /\ CounterTypes /\ QueueTypes /\ DataTypes

\* What has been assembled is the blocks of this piece in their order, however
\* late, often and out of turn requests were answered, and all of them when
\* the transfer is done; only a read that was cut can bring in other bytes,
\* for the caller's hash to find.
BlocksInOrder ==
  /\ ~torn => \A i \in DOMAIN data : data[i] = i
  /\ phase = "done" /\ goal # "probe" => Len(data) = NumBlocks

\* A connection fails only because the peer refused, left or fell silent, or
\* because it let BlockRetries attempts fail over all blocks together: one
\* late answer makes every later block of the piece read one answer that is
\* not its own, but that alone never ends the piece.
FailsForCause == phase = "failed" => refused \/ torn \/ faults >= BlockRetries

\* A peer whose bitfield lacks the piece is never asked for a block of it.
AsksOnlyHolders == lacks /\ ~magnet => phase # "blocks" /\ asked = <<>>

\* The requests that may still be made.
RequestsLeft ==
  CASE phase = "blocks" -> BlockRetries * (NumBlocks - Len(data)) - attempts - 1
    [] phase = "metadata" -> NumBlocks - Len(data) - 1
    [] OTHER -> BlockRetries * NumBlocks

\* A request may be answered, and its answer, as every message, be read; a
\* choke may be followed by an unchoke.
StepsLeft ==
  LET handshakes == IF phase = "greet" THEN HandshakeAttempts - attempts ELSE 0
      messages == 3 * RequestsLeft + 2 * Len(asked) + Len(wire)
      turns == (IF choking THEN 2 ELSE 0) + (IF peer = "open" THEN 1 ELSE 0)
  IN  IF phase \in Ended THEN 0 ELSE 1 + handshakes + messages + turns

\* receive_extension_handshake takes up again what it has put off.
DefersAgain == pending # <<>> /\ Defer

\* The peer sends what it was not asked for.
SendsUnasked == Chat \/ Choke

\* From the greeting on every step of either side brings the end nearer, but
\* for two: a message that has been put off is put off again, and a message
\* comes unasked, which is worth three steps at most.  An endless connection
\* has one of them again and again.  No bound of the code's own excludes the
\* second: each read of receive_unchoke and of receive_metadata_message has
\* its 30 seconds anew.
StepsRunOut == [][\/ peer = "silent"
                  \/ DefersAgain
                  \/ SendsUnasked /\ StepsLeft' <= StepsLeft + 3
                  \/ StepsLeft' < StepsLeft]_vars

\* A connection ends: every exchange with the peer has a timeout or a bounded
\* number of attempts.
ConnectionEnds == <>(phase \in Ended)

\* It does when no message comes before the extension handshake, and only so
\* many unasked as Chatter says, where that is not Endless.
EndsUnlessDeferred == [](pending = <<>>) => ConnectionEnds
=============================================================================
