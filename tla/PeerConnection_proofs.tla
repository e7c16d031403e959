------------------------ MODULE PeerConnection_proofs ------------------------
(***************************************************************************)
(* Proofs about PeerConnection, for every number of blocks, every number   *)
(* of attempts and every greeting: types, the order of the blocks, what is *)
(* asked of whom, for what a connection fails, and by what it goes on.     *)
(***************************************************************************)
EXTENDS PeerConnection, FiniteSetTheorems, TLAPS

-----------------------------------------------------------------------------
(* The invariant *)

\* Which variables are still in their first state in which phase, and which
\* phases a goal passes through.
PhaseInv ==
  /\ phase \in {"extension", "bitfield", "unchoke", "metadata"} => attempts = 0
  /\ phase \in {"greet", "extension", "bitfield", "unchoke"} =>
       data = <<>> /\ asked = <<>>
  /\ torn => phase \in {"blocks"} \union Ended
  /\ peer = "silent" => phase = "greet" /\ wire = <<>>
  /\ goal = "metadata" => magnet
  /\ phase \in {"bitfield", "unchoke", "blocks"} => goal # "metadata"
  /\ phase \in {"unchoke", "blocks"} => goal = "piece"
  /\ phase = "bitfield" => ~magnet
  /\ phase = "metadata" => goal = "metadata"
  /\ \A i \in DOMAIN pending : pending[i][1] # "ext0"

\* What the bitfield of a peer that lacks the piece says, and what follows.
LackInv ==
  lacks /\ ~magnet =>
    /\ phase \notin {"unchoke", "blocks"}
    /\ asked = <<>>
    /\ \A i \in DOMAIN wire : wire[i][1] = "bits" => wire[i][2] = 0
    /\ \A i \in DOMAIN pending : pending[i][1] = "bits" => pending[i][2] = 0

-----------------------------------------------------------------------------
(* Messages and the sequences they are in *)

LEMMA Numbers == /\ NumBlocks \in Nat \ {0}
                 /\ BlockRetries \in Nat \ {0}
                 /\ HandshakeAttempts \in Nat \ {0}
                 /\ Chatter \in Int
  BY ConnectionAssumption DEF ConnectionAssumption, Endless

LEMMA MessageTypes ==
  /\ \A m \in Messages : /\ m = <<m[1], m[2]>>
                         /\ m[1] \in Kinds
                         /\ m[2] \in Int
  /\ \A kind \in Kinds, n \in Int : <<kind, n>> \in Messages
  /\ \A r \in Requests : r \in Messages /\ r[2] \in 1 .. NumBlocks
  BY Numbers DEF Messages, Kinds, Requests

\* A greeting is a sequence of messages.
LEMMA GreetingsAreMessages == ASSUME NEW g \in Greetings PROVE g \in Seq(Messages)
<1> DEFINE S == {"hello", "ext0", "bits"} \X (Unparsable .. 255)
<1>1. g \in Seq(S)
  BY ConnectionAssumption DEF ConnectionAssumption
<1>2. S \subseteq Messages
  BY DEF Messages, Kinds, Unparsable
<1> HIDE DEF S
<1> QED  BY <1>1, <1>2

LEMMA HeadTail ==
  ASSUME NEW S, NEW s \in Seq(S), s # <<>>
  PROVE  /\ Head(s) \in S
         /\ Head(s) = s[1]
         /\ Tail(s) \in Seq(S)
         /\ Len(s) >= 1
         /\ Len(Tail(s)) = Len(s) - 1
         /\ \A i \in 1 .. Len(s) - 1 : Tail(s)[i] = s[i + 1]
  OBVIOUS

LEMMA Appended ==
  ASSUME NEW S, NEW s \in Seq(S), NEW e \in S
  PROVE  /\ Append(s, e) \in Seq(S)
         /\ Len(Append(s, e)) = Len(s) + 1
         /\ \A i \in 1 .. Len(s) : Append(s, e)[i] = s[i]
         /\ Append(s, e)[Len(s) + 1] = e
  OBVIOUS

\* Reading a message takes it from the head of one of the two queues.
LEMMA TakeTypes ==
  ASSUME wire \in Seq(Messages), pending \in Seq(Messages),
         NEW m \in Incoming, Take(m)
  PROVE  /\ m \in Messages
         /\ wire' \in Seq(Messages)
         /\ pending' \in Seq(Messages)
         /\ pending = <<>> => /\ pending' = <<>>
                             /\ wire # <<>>
                             /\ m = Head(wire)
                             /\ wire' = Tail(wire)
         /\ pending # <<>> => /\ wire' = wire
                             /\ m = Head(pending)
                             /\ pending' = Tail(pending)
<1>1. CASE pending # <<>>
  <2>1. m = Head(pending) /\ pending' = Tail(pending) /\ wire' = wire
    BY <1>1 DEF Take
  <2> QED BY <1>1, <2>1, HeadTail
<1>2. CASE pending = <<>>
  <2>1. m = Head(wire) /\ pending' = pending /\ wire' = Tail(wire) /\ wire # <<>>
    BY <1>2 DEF Take
  <2> QED BY <1>2, <2>1, HeadTail
<1> QED BY <1>1, <1>2

LEMMA RequestTypes ==
  ASSUME asked \in Seq(Requests), NEW r \in Requests, Request(r)
  PROVE  asked' \in Seq(Requests)
  BY DEF Request

\* Outside a deferral messages are read from the wire.
LEMMA WireReads ==
  ASSUME QueueTypes, phase # "extension", NEW m \in Incoming, Take(m)
  PROVE  /\ wire # <<>>
         /\ m = Head(wire)
         /\ m \in Messages
         /\ wire' = Tail(wire)
         /\ pending = <<>>
         /\ pending' = <<>>
  BY TakeTypes DEF QueueTypes

LEMMA ExtensionReads ==
  ASSUME QueueTypes, PhaseInv, ReceiveExtension
  PROVE  /\ pending = <<>>
         /\ pending' = <<>>
         /\ wire # <<>>
         /\ wire' = Tail(wire)
         /\ Head(wire) \in Messages
         /\ Head(wire)[1] = "ext0"
         /\ IF Head(wire)[2] = Unparsable
            THEN phase' = "failed" /\ UNCHANGED <<theirId, asked>>
            ELSE theirId' = Head(wire)[2] /\ Proceed(Head(wire)[2])
<1>1. PICK m \in Incoming :
        /\ Take(m)
        /\ m[1] = "ext0"
        /\ IF m[2] = Unparsable
           THEN phase' = "failed" /\ UNCHANGED <<theirId, asked>>
           ELSE theirId' = m[2] /\ Proceed(m[2])
  BY DEF ReceiveExtension
<1>2. pending # <<>> => Head(pending) = pending[1] /\ 1 \in DOMAIN pending
  BY HeadTail DEF QueueTypes
<1>3. pending = <<>>
  BY <1>1, <1>2 DEF PhaseInv, Take
<1> QED  BY <1>1, <1>3, TakeTypes DEF QueueTypes

-----------------------------------------------------------------------------
(* Types *)

LEMMA TypeInitial == Init => TypeOK /\ PhaseInv
<1> SUFFICES ASSUME Init PROVE TypeOK /\ PhaseInv
  OBVIOUS
<1> USE Numbers DEF Init
<1>1. ScalarTypes
  BY DEF ScalarTypes, Goals, Ended
<1>2. CounterTypes
  BY ConnectionAssumption DEF CounterTypes, ConnectionAssumption, NoId, Endless
<1>3. QueueTypes
  BY DEF QueueTypes
<1>4. DataTypes
  BY DEF DataTypes
<1>5. PhaseInv
  BY DEF PhaseInv, Goals, Ended
<1> QED  BY <1>1, <1>2, <1>3, <1>4, <1>5 DEF TypeOK

LEMMA ScalarStep == ScalarTypes /\ [Next]_vars => ScalarTypes'
<1> SUFFICES ASSUME ScalarTypes, [Next]_vars PROVE ScalarTypes'
  OBVIOUS
<1> USE DEF ScalarTypes, Ended
<1>1. CASE Handshake \/ HandshakeFails \/ ReceiveExtension \/ Defer
  BY <1>1 DEF Handshake, HandshakeFails, ReceiveExtension, Defer, Proceed,
              remote, history
<1>2. CASE ReceiveBitfield \/ ReceiveUnchoke \/ ReceiveMetadata
  BY <1>2 DEF ReceiveBitfield, ReceiveUnchoke, ReceiveMetadata, remote, history
<1>3. CASE ReceiveBlock \/ BlockTimeout \/ ReadTorn
  BY <1>3 DEF ReceiveBlock, BlockTimeout, ReadTorn, NextBlock, LoseAttempt,
              remote, history
<1>4. CASE ReadTimeout \/ ConnectionLost
  BY <1>4 DEF ReadTimeout, ConnectionLost, LoseAttempt, remote
<1>5. CASE Remote
  <2>1. CASE Greet
    BY <2>1 DEF Greet, client, history
  <2>2. CASE Answer
    BY <2>2 DEF Answer, client, remote
  <2>3. CASE Chat
    BY <2>3 DEF Chat, client, history
  <2>4. CASE Choke \/ Unchoke \/ HangUp
    BY <2>4 DEF Choke, Unchoke, HangUp, client, history
  <2> QED  BY <1>5, <2>1, <2>2, <2>3, <2>4 DEF Remote
<1>6. CASE UNCHANGED vars
  BY <1>6 DEF vars, client, remote, history
<1> QED  BY <1>1, <1>2, <1>3, <1>4, <1>5, <1>6 DEF Next, Client

LEMMA CounterStep ==
  TypeOK /\ PhaseInv /\ [Next]_vars => CounterTypes'
<1> SUFFICES ASSUME TypeOK, PhaseInv, [Next]_vars PROVE CounterTypes'
  OBVIOUS
<1>0. CounterTypes /\ QueueTypes /\ PhaseInv /\ (phase = "unchoke" => attempts = 0)
  BY DEF TypeOK, PhaseInv
<1> USE <1>0, Numbers DEF CounterTypes
<1>1. CASE Handshake \/ HandshakeFails
  BY <1>1 DEF Handshake, HandshakeFails, Proceed, remote, history
<1>2. CASE ReceiveExtension
  BY <1>0, <1>2, ExtensionReads, MessageTypes
     DEF ReceiveExtension, Proceed, remote, history
<1>3. CASE Defer
  BY <1>3 DEF Defer, remote, history
<1>4. CASE ReceiveBitfield \/ ReceiveUnchoke \/ ReceiveMetadata
  BY <1>4 DEF ReceiveBitfield, ReceiveUnchoke, ReceiveMetadata, remote, history
<1>5. CASE ReceiveBlock \/ BlockTimeout \/ ReadTorn
  BY <1>5 DEF ReceiveBlock, BlockTimeout, ReadTorn, NextBlock, LoseAttempt,
              remote, history
<1>6. CASE ReadTimeout \/ ConnectionLost
  BY <1>6 DEF ReadTimeout, ConnectionLost, LoseAttempt, Ended, remote
<1>7. CASE Greet \/ Answer \/ HangUp
  BY <1>7 DEF Greet, Answer, HangUp, client, remote, history
<1>8. CASE Chat \/ Choke \/ Unchoke
  BY <1>8 DEF Chat, Choke, Unchoke, SpendChatter, Endless, client, history
<1>9. CASE UNCHANGED vars
  BY <1>9 DEF vars, client, remote, history
<1> QED  BY <1>1, <1>2, <1>3, <1>4, <1>5, <1>6, <1>7, <1>8, <1>9
         DEF Next, Client, Remote

\* The two queues of messages: what every reading step has in common.
LEMMA QueueStep ==
  TypeOK /\ PhaseInv /\ [Next]_vars => QueueTypes'
<1> SUFFICES ASSUME TypeOK, PhaseInv, [Next]_vars PROVE QueueTypes'
  OBVIOUS
<1> USE DEF QueueTypes
<1>0. /\ QueueTypes
      /\ asked \in Seq(Requests)
      /\ data \in Seq(0 .. NumBlocks)
      /\ phase \notin Ended => Len(data) < NumBlocks
  BY DEF TypeOK, QueueTypes, DataTypes
<1>r. /\ <<"block", 1>> \in Requests
      /\ <<"data", 1>> \in Requests
      /\ phase \notin Ended => <<"block", Current>> \in Requests
      /\ phase \notin Ended /\ Current # NumBlocks =>
           <<"block", Current + 1>> \in Requests /\ <<"data", Current + 1>> \in Requests
  <2>1. phase \notin Ended =>
          Current \in 1 .. NumBlocks /\ (Current # NumBlocks => Current + 1 \in 1 .. NumBlocks)
    BY <1>0, Numbers DEF Current
  <2> QED  BY <2>1, Numbers DEF Requests
<1>e. <<>> \in Seq(Requests)
  OBVIOUS
<1>w. /\ wire # <<>> => Head(wire) \in Messages /\ Tail(wire) \in Seq(Messages)
      /\ \A m \in Messages : Append(wire, m) \in Seq(Messages)
  BY <1>0, HeadTail, Appended
<1>p. pending # <<>> =>
        \A m \in Messages : Append(Tail(pending), m) \in Seq(Messages)
  BY <1>0, HeadTail, Appended
<1>1. CASE Handshake \/ HandshakeFails
  <2>1. wire' \in Seq(Messages) /\ pending' = pending
    BY <1>0, <1>1, <1>w DEF Handshake, HandshakeFails
  <2>2. asked' \in Seq(Requests)
    BY <1>0, <1>1, <1>r, RequestTypes DEF Handshake, HandshakeFails, Proceed
  <2> QED  BY <1>0, <1>1, <2>1, <2>2 DEF Handshake, HandshakeFails
<1>2. CASE ReceiveExtension
  <2>1. wire' \in Seq(Messages) /\ pending' = <<>>
    BY <1>0, <1>2, <1>w, ExtensionReads
  <2>2. asked' \in Seq(Requests)
    BY <1>0, <1>2, <1>r, ExtensionReads, RequestTypes DEF Proceed
  <2> QED  BY <2>1, <2>2
<1>3. CASE Defer
  <2>1. PICK m \in Incoming :
          IF pending # <<>>
          THEN pending' = Append(Tail(pending), m) /\ UNCHANGED wire
          ELSE pending' = <<m>> /\ wire' = Tail(wire)
    BY <1>3 DEF Defer
  <2>2. m \in Messages /\ (pending = <<>> => wire # <<>>)
    BY <1>0, <1>w, HeadTail DEF Incoming
  <2>3. <<m>> \in Seq(Messages)
    BY <2>2
  <2>4. pending' \in Seq(Messages) /\ wire' \in Seq(Messages)
    BY <1>0, <2>1, <2>2, <2>3, <1>w, <1>p
  <2> QED  BY <1>0, <1>3, <2>4 DEF Defer
<1>4. CASE ReceiveBitfield \/ ReceiveUnchoke \/ ReceiveMetadata \/ ReceiveBlock
  <2>1. PICK m \in Incoming : Take(m)
    BY <1>4 DEF ReceiveBitfield, ReceiveUnchoke, ReceiveMetadata, ReceiveBlock
  <2>2. pending = <<>>
    BY <1>0, <1>4 DEF ReceiveBitfield, ReceiveUnchoke, ReceiveMetadata,
                      ReceiveBlock
  <2>3. wire' \in Seq(Messages) /\ pending' = <<>>
    BY <1>0, <2>1, <2>2, TakeTypes
  <2>4. asked' \in Seq(Requests)
    BY <1>0, <1>4, <1>r, RequestTypes
       DEF ReceiveBitfield, ReceiveUnchoke, ReceiveMetadata, ReceiveBlock,
           NextBlock, LoseAttempt, Ended
  <2> QED  BY <2>3, <2>4
<1>5. CASE BlockTimeout \/ ReadTorn \/ ReadTimeout \/ ConnectionLost
  <2>1. wire' \in Seq(Messages) /\ pending' = pending /\ pending = <<>>
    BY <1>0, <1>5 DEF BlockTimeout, ReadTorn, ReadTimeout, ConnectionLost, Ended
  <2>2. asked' \in Seq(Requests)
    BY <1>0, <1>5, <1>r, RequestTypes
       DEF BlockTimeout, ReadTorn, ReadTimeout, ConnectionLost, NextBlock,
           LoseAttempt, Ended
  <2> QED  BY <2>1, <2>2
<1>6. CASE Remote
  <2>1. pending' = pending /\ phase' = phase
    BY <1>6 DEF Remote, Greet, Answer, Chat, Choke, Unchoke, HangUp, client
  <2>2. CASE Greet \/ HangUp
    <3>1. wire' \in Seq(Messages)
      BY <1>0, <2>2, GreetingsAreMessages DEF Greet, HangUp
    <3>2. asked' \in Seq(Requests)
      BY <1>0, <1>e, <2>2 DEF Greet, HangUp
    <3> QED  BY <1>0, <2>1, <3>1, <3>2
  <2>3. CASE Answer
    <3>1. /\ Head(asked) \in Messages
          /\ <<"bad", Head(asked)[2]>> \in Messages
          /\ asked' \in Seq(Requests)
      BY <1>0, <2>3, HeadTail, MessageTypes DEF Answer, Kinds
    <3>2. wire' \in Seq(Messages)
      BY <2>3, <3>1, <1>w DEF Answer
    <3> QED  BY <1>0, <2>1, <3>1, <3>2
  <2>4. CASE Chat \/ Choke \/ Unchoke
    <3>1. \A kind \in {"aux", "other", "unchoke"} : <<kind, 0>> \in Messages
      BY MessageTypes DEF Kinds
    <3>2. wire' \in Seq(Messages)
      BY <2>4, <3>1, <1>w DEF Chat, Choke, Unchoke
    <3>3. asked' \in Seq(Requests)
      BY <1>0, <1>e, <2>4 DEF Chat, Choke, Unchoke
    <3> QED  BY <1>0, <2>1, <3>2, <3>3
  <2> QED  BY <1>6, <2>2, <2>3, <2>4 DEF Remote
<1>7. CASE UNCHANGED vars
  BY <1>0, <1>7 DEF vars, client
<1> QED  BY <1>1, <1>2, <1>3, <1>4, <1>5, <1>6, <1>7 DEF Next, Client

\* The data grows by one block at a time, and the exchange ends with the last.
LEMMA DataStep == TypeOK /\ PhaseInv /\ [Next]_vars => DataTypes'
<1> SUFFICES ASSUME TypeOK, PhaseInv, [Next]_vars PROVE DataTypes'
  OBVIOUS
<1> USE Numbers DEF DataTypes
<1>0. data \in Seq(0 .. NumBlocks) /\ (phase \notin Ended => Len(data) < NumBlocks)
  BY DEF TypeOK
<1>a. ASSUME NEW b \in 0 .. NumBlocks, phase \notin Ended
      PROVE  /\ Append(data, b) \in Seq(0 .. NumBlocks)
             /\ Len(Append(data, b)) = Current
  BY <1>0, <1>a DEF Current
<1>c. phase \notin Ended =>
        /\ Current \in 0 .. NumBlocks
        /\ Current # NumBlocks => Current < NumBlocks
  BY <1>0 DEF Current
<1>1. CASE Handshake \/ HandshakeFails \/ ReceiveExtension \/ Defer
  BY <1>0, <1>1 DEF Handshake, HandshakeFails, ReceiveExtension, Defer, Ended
<1>2. CASE ReceiveBitfield \/ ReceiveUnchoke
  BY <1>0, <1>2 DEF ReceiveBitfield, ReceiveUnchoke, Ended
<1>3. CASE ReceiveBlock
  <2>1. phase \notin Ended
    BY <1>3 DEF ReceiveBlock, Ended
  <2>2. \/ data' = data
        \/ NextBlock(Current)
    BY <1>3 DEF ReceiveBlock
  <2>3. CASE data' = data
    BY <1>0, <2>1, <2>3
  <2>4. CASE NextBlock(Current)
    BY <1>0, <1>a, <1>c, <2>1, <2>4 DEF NextBlock, Ended
  <2> QED  BY <2>2, <2>3, <2>4
<1>4. CASE ReceiveMetadata
  <2>1. phase \notin Ended
    BY <1>4 DEF ReceiveMetadata, Ended
  <2>2. \/ data' = data
        \/ data' = Append(data, Current) /\ (Current = NumBlocks => phase' = "done")
    BY <1>4 DEF ReceiveMetadata
  <2> QED  BY <1>0, <1>a, <1>c, <2>1, <2>2 DEF Ended
<1>5. CASE ReadTorn
  <2>1. phase \notin Ended
    BY <1>5 DEF ReadTorn, Ended
  <2>2. data' = data \/ NextBlock(0)
    BY <1>5 DEF ReadTorn
  <2>3. CASE data' = data
    BY <1>0, <2>1, <2>3
  <2>4. CASE NextBlock(0)
    <3>1. /\ data' = Append(data, 0)
          /\ data' \in Seq(0 .. NumBlocks)
          /\ Len(data') = Current
      BY <1>a, <2>1, <2>4 DEF NextBlock
    <3>2. Current = NumBlocks => phase' = "done"
      BY <2>4 DEF NextBlock
    <3> QED  BY <1>c, <2>1, <3>1, <3>2 DEF Ended
  <2> QED  BY <2>2, <2>3, <2>4
<1>6. CASE BlockTimeout \/ ReadTimeout \/ ConnectionLost
  BY <1>0, <1>6 DEF BlockTimeout, ReadTimeout, ConnectionLost, Ended
<1>7. CASE Remote
  BY <1>0, <1>7 DEF Remote, Greet, Answer, Chat, Choke, Unchoke, HangUp, client
<1>8. CASE UNCHANGED vars
  BY <1>0, <1>8 DEF vars, client
<1> QED  BY <1>1, <1>2, <1>3, <1>4, <1>5, <1>6, <1>7, <1>8 DEF Next, Client

LEMMA PhaseStep == TypeOK /\ PhaseInv /\ [Next]_vars => PhaseInv'
<1> SUFFICES ASSUME TypeOK, PhaseInv, [Next]_vars PROVE PhaseInv'
  OBVIOUS
<1>0. goal \in Goals /\ (phase # "extension" => pending = <<>>)
  BY DEF TypeOK, ScalarTypes, QueueTypes
<1>3. CASE ReceiveExtension
  <2>1. /\ pending' = <<>>
        /\ \/ phase' = "failed" /\ UNCHANGED asked
           \/ Proceed(Head(wire)[2])
    BY <1>3, ExtensionReads DEF TypeOK
  <2>2. /\ phase = "extension"
        /\ UNCHANGED <<goal, magnet, attempts, data, torn, peer>>
    BY <1>3 DEF ReceiveExtension, remote
  <2>3. CASE phase' = "failed" /\ UNCHANGED asked
    BY <2>1, <2>2, <2>3 DEF PhaseInv, Ended
  <2>4. CASE Proceed(Head(wire)[2])
    BY <1>0, <2>1, <2>2, <2>4 DEF Proceed, PhaseInv, Goals, Ended
  <2> QED  BY <2>1, <2>3, <2>4
<1> USE DEF PhaseInv, Ended
<1>1. CASE Handshake
  BY <1>0, <1>1 DEF Handshake, Proceed, Goals, remote, history
<1>2. CASE HandshakeFails
  BY <1>0, <1>2 DEF HandshakeFails, remote
<1>4. CASE Defer
  BY <1>0, <1>4 DEF Defer, Incoming, remote, history
<1>5. CASE ReceiveBitfield
  BY <1>0, <1>5 DEF ReceiveBitfield, Take, Goals, remote, history
<1>6. CASE ReceiveUnchoke
  BY <1>0, <1>6 DEF ReceiveUnchoke, Take, remote
<1>7. CASE ReceiveMetadata
  BY <1>0, <1>7 DEF ReceiveMetadata, Take, remote, history
<1>8. CASE ReceiveBlock
  BY <1>0, <1>8 DEF ReceiveBlock, Take, NextBlock, LoseAttempt, remote, history
<1>9. CASE BlockTimeout \/ ReadTorn
  BY <1>0, <1>9 DEF BlockTimeout, ReadTorn, NextBlock, LoseAttempt, remote, history
<1>10. CASE ReadTimeout \/ ConnectionLost
  BY <1>0, <1>10 DEF ReadTimeout, ConnectionLost, LoseAttempt, remote
<1>11. CASE Greet \/ HangUp
  <2>1. CASE Greet
    BY <1>0, <2>1 DEF Greet, client
  <2>2. CASE HangUp
    BY <1>0, <2>2 DEF HangUp, client
  <2> QED  BY <1>11, <2>1, <2>2
<1>12. CASE Answer \/ Chat \/ Choke \/ Unchoke
  BY <1>0, <1>12 DEF Answer, Chat, Choke, Unchoke, Talks, client, remote, history
<1>13. CASE UNCHANGED vars
  BY <1>0, <1>13 DEF vars, client, remote
<1> QED
  BY <1>1, <1>2, <1>3, <1>4, <1>5, <1>6, <1>7, <1>8, <1>9, <1>10, <1>11, <1>12,
     <1>13 DEF Next, Client, Remote

TypeInv == TypeOK /\ PhaseInv

LEMMA TypeStep == TypeInv /\ [Next]_vars => TypeInv'
  BY ScalarStep, CounterStep, QueueStep, DataStep, PhaseStep DEF TypeInv, TypeOK

LEMMA TypeInvariant == Spec => []TypeInv
<1>1. Init => TypeInv
  BY TypeInitial DEF TypeInv
<1> QED  BY <1>1, TypeStep, PTL DEF Spec

\* Types, the attempts of a block, where messages are deferred, and the number
\* of blocks.
THEOREM TypeCorrect == Spec => []TypeOK
<1>1. TypeInv => TypeOK
  BY DEF TypeInv
<1> QED  BY <1>1, TypeInvariant, PTL

-----------------------------------------------------------------------------
(* The order of the blocks *)

LEMMA OrderInitial == Init => BlocksInOrder
  BY Numbers DEF Init, BlocksInOrder

\* A block is appended only as the answer to the request for it, or after a
\* read was cut.
LEMMA OrderStep == TypeInv /\ BlocksInOrder /\ [Next]_vars => BlocksInOrder'
<1> SUFFICES ASSUME TypeInv, BlocksInOrder, [Next]_vars PROVE BlocksInOrder'
  OBVIOUS
<1>0. /\ data \in Seq(0 .. NumBlocks)
      /\ PhaseInv
      /\ goal \in Goals
  BY DEF TypeInv, TypeOK, DataTypes, ScalarTypes
<1>a. ASSUME ~torn
      PROVE  \A i \in DOMAIN Append(data, Current) : Append(data, Current)[i] = i
  BY <1>0, <1>a DEF BlocksInOrder, Current
<1>b. \A b : Len(Append(data, b)) = Current
  BY <1>0 DEF Current
<1>1. CASE data' = data /\ torn' = torn /\ goal' = goal /\ (phase' = "done" => phase = "done" \/ goal = "probe")
  BY <1>1 DEF BlocksInOrder
<1>2. CASE ReceiveBlock \/ ReceiveMetadata
  <2>1. \/ data' = data /\ (phase' = "done" => phase = "done")
        \/ /\ data' = Append(data, Current)
           /\ phase' = "done" => Current = NumBlocks \/ phase = "done"
    BY <1>2 DEF ReceiveBlock, ReceiveMetadata, NextBlock, LoseAttempt
  <2>2. /\ torn' = torn /\ goal' = goal
        /\ phase # "done"
        /\ ~torn
    BY <1>0, <1>2 DEF ReceiveBlock, ReceiveMetadata, PhaseInv, Ended
  <2> QED  BY <1>1, <1>a, <1>b, <2>1, <2>2 DEF BlocksInOrder
<1>3. CASE ReadTorn
  <2>1. \/ data' = data /\ phase' # "done"
        \/ /\ data' = Append(data, 0)
           /\ phase' = "done" => Current = NumBlocks
    BY <1>3 DEF ReadTorn, NextBlock, LoseAttempt
  <2>2. torn /\ torn' = torn
    BY <1>3 DEF ReadTorn
  <2> QED  BY <1>b, <2>1, <2>2 DEF BlocksInOrder
<1>4. CASE BlockTimeout
  <2>1. data' = data /\ phase' # "done" /\ (torn' \/ torn' = torn)
    BY <1>4 DEF BlockTimeout, LoseAttempt
  <2> QED  BY <2>1 DEF BlocksInOrder
<1>5. CASE Handshake \/ HandshakeFails \/ ReceiveExtension \/ Defer
  BY <1>1, <1>5 DEF Handshake, HandshakeFails, ReceiveExtension, Defer, Proceed
<1>6. CASE ReceiveBitfield \/ ReceiveUnchoke \/ ReadTimeout \/ ConnectionLost
  BY <1>1, <1>6 DEF ReceiveBitfield, ReceiveUnchoke, ReadTimeout,
                    ConnectionLost, LoseAttempt
<1>7. CASE Remote
  BY <1>1, <1>7 DEF Remote, Greet, Answer, Chat, Choke, Unchoke, HangUp, client
<1>8. CASE UNCHANGED vars
  BY <1>1, <1>8 DEF vars, client
<1> QED  BY <1>2, <1>3, <1>4, <1>5, <1>6, <1>7, <1>8 DEF Next, Client

\* What is assembled is the blocks of the piece in their order, and all of
\* them when the transfer is done, unless a read was cut.
THEOREM BlocksAreInOrder == Spec => []BlocksInOrder
<1>1. TypeInv /\ BlocksInOrder /\ [Next]_vars => BlocksInOrder'
  BY OrderStep
<1> QED  BY <1>1, OrderInitial, TypeInvariant, PTL DEF Spec

-----------------------------------------------------------------------------
(* What is asked of whom *)

LEMMA GreetingsHaveOneBitfield ==
  ASSUME NEW g \in Greetings, NEW i \in DOMAIN g, NEW j \in DOMAIN g,
         g[i][1] = "bits", g[j][1] = "bits"
  PROVE  i = j
  BY ConnectionAssumption DEF ConnectionAssumption

LEMMA LackStep == TypeInv /\ LackInv /\ [Next]_vars => LackInv'
<1> SUFFICES ASSUME TypeInv, LackInv, [Next]_vars, lacks', ~magnet'
             PROVE  LackInv'
  BY DEF LackInv
<1> USE DEF LackInv
<1>0. /\ QueueTypes /\ PhaseInv
      /\ wire \in Seq(Messages) /\ pending \in Seq(Messages)
      /\ goal \in Goals
      /\ peer = "silent" => phase = "greet"
      /\ phase \in {"greet", "extension", "bitfield", "unchoke"} => asked = <<>>
      /\ phase # "extension" => pending = <<>>
      /\ goal = "metadata" => magnet
      /\ phase = "metadata" => magnet
  BY DEF TypeInv, TypeOK, ScalarTypes, QueueTypes, PhaseInv
<1>1. CASE Greet
  <2>1. PICK g \in Greetings : /\ wire' = g
                               /\ lacks' = \E i \in DOMAIN g : g[i] = <<"bits", 0>>
    BY <1>1 DEF Greet
  <2>2. PICK i \in DOMAIN g : g[i] = <<"bits", 0>>
    BY <2>1
  <2>3. \A j \in DOMAIN g : g[j][1] = "bits" => g[j][2] = 0
    BY <2>2, GreetingsHaveOneBitfield
  <2>4. pending' = <<>> /\ asked' = <<>> /\ phase' = "greet"
    BY <1>0, <1>1 DEF Greet, client
  <2> QED  BY <2>1, <2>3, <2>4
<1>2. CASE ~Greet
  <2>a. (\/ Handshake \/ HandshakeFails \/ ReceiveExtension \/ Defer
         \/ ReceiveBitfield \/ ReceiveUnchoke) => UNCHANGED <<lacks, magnet>>
    BY DEF Handshake, HandshakeFails, ReceiveExtension, Defer,
           ReceiveBitfield, ReceiveUnchoke, remote
  <2>b. (\/ ReceiveBlock \/ BlockTimeout \/ ReadTorn \/ ReceiveMetadata
         \/ ReadTimeout \/ ConnectionLost) => UNCHANGED <<lacks, magnet>>
    BY DEF ReceiveBlock, BlockTimeout, ReadTorn, ReceiveMetadata,
           ReadTimeout, ConnectionLost, remote
  <2>c. Answer \/ Chat \/ Choke \/ Unchoke \/ HangUp \/ UNCHANGED vars =>
          UNCHANGED <<lacks, magnet>>
    BY DEF Answer, Chat, Choke, Unchoke, HangUp, vars, client, remote
  <2>d. UNCHANGED <<lacks, magnet>>
    BY <1>2, <2>a, <2>b, <2>c DEF Next, Client, Remote
  <2>1. lacks /\ ~magnet
    BY <2>d
  <2>2. /\ phase \notin {"unchoke", "blocks", "metadata"}
        /\ asked = <<>>
        /\ wire # <<>> /\ Head(wire)[1] = "bits" => Head(wire)[2] = 0
        /\ \A i \in DOMAIN Tail(wire) : wire # <<>> /\ Tail(wire)[i][1] = "bits" =>
                                          Tail(wire)[i][2] = 0
        /\ goal # "metadata"
    <3>1. wire # <<>> => /\ Head(wire) = wire[1] /\ 1 \in DOMAIN wire
                         /\ \A i \in DOMAIN Tail(wire) : /\ i + 1 \in DOMAIN wire
                                                         /\ Tail(wire)[i] = wire[i + 1]
      BY <1>0, HeadTail
    <3> QED  BY <1>0, <2>1, <3>1
  <2>3. CASE Handshake \/ HandshakeFails
    BY <1>0, <2>1, <2>2, <2>3 DEF Handshake, HandshakeFails, Proceed
  <2>4. CASE ReceiveExtension
    BY <1>0, <2>1, <2>2, <2>4, ExtensionReads DEF ReceiveExtension, Proceed
  <2>5. CASE Defer
    <3>1. UNCHANGED <<phase, asked>>
      BY <2>5 DEF Defer
    <3>2. CASE pending = <<>>
      <4>1. /\ wire # <<>>
            /\ wire' = Tail(wire)
            /\ pending' = <<Head(wire)>>
        BY <2>5, <3>2 DEF Defer, Incoming
      <4> QED  BY <1>0, <2>1, <2>2, <3>1, <4>1
    <3>3. CASE pending # <<>>
      <4>1. wire' = wire /\ pending' = Append(Tail(pending), Head(pending))
        BY <2>5, <3>3 DEF Defer, Incoming
      <4>2. \A i \in DOMAIN pending' : \E j \in DOMAIN pending : pending'[i] = pending[j]
        BY <1>0, <3>3, <4>1
      <4> QED  BY <1>0, <2>1, <2>2, <3>1, <4>1, <4>2
    <3> QED  BY <3>2, <3>3
  <2>6. CASE ReceiveBitfield
    <3>1. PICK m \in Incoming :
            /\ Take(m)
            /\ m = <<"bits", 0>> /\ goal # "probe" => phase' = "failed"
            /\ m[1] # "bits" => phase' = "failed"
            /\ m[1] = "bits" /\ goal = "probe" => phase' = "done"
      BY <2>6 DEF ReceiveBitfield
    <3>2. m = Head(wire) /\ wire' = Tail(wire) /\ m \in Messages /\ pending' = <<>>
          /\ wire # <<>>
      BY <1>0, <2>6, <3>1, WireReads DEF ReceiveBitfield
    <3>3. m[1] = "bits" => m = <<"bits", 0>>
      BY <2>2, <3>2, MessageTypes
    <3>4. phase' \in Ended
      BY <3>1, <3>3 DEF Ended
    <3> QED  BY <2>2, <2>6, <3>2, <3>4 DEF ReceiveBitfield, Ended
  <2>7. CASE ReadTimeout \/ ConnectionLost
    BY <1>0, <2>1, <2>2, <2>7 DEF ReadTimeout, ConnectionLost, LoseAttempt
  <2>8. CASE Answer \/ Choke \/ Unchoke \/ Chat \/ HangUp
    <3>1. ~Answer
      BY <2>2 DEF Answer
    <3>2. CASE Chat
      BY <1>0, <2>1, <2>2, <3>2 DEF Chat, client
    <3>3. CASE Choke
      BY <1>0, <2>1, <2>2, <3>3 DEF Choke, client
    <3>4. CASE Unchoke
      BY <1>0, <2>1, <2>2, <3>4 DEF Unchoke, client
    <3>5. CASE HangUp
      BY <1>0, <2>1, <2>2, <3>5 DEF HangUp, client
    <3> QED  BY <2>8, <3>1, <3>2, <3>3, <3>4, <3>5
  <2>9. CASE UNCHANGED vars
    BY <2>1, <2>9 DEF vars, client
  <2> QED
    BY <1>2, <2>2, <2>3, <2>4, <2>5, <2>6, <2>7, <2>8, <2>9
       DEF Next, Client, Remote, ReceiveUnchoke, ReceiveBlock, BlockTimeout,
           ReadTorn, ReceiveMetadata
<1> QED  BY <1>1, <1>2

\* No block is requested from a peer whose bitfield lacks the piece.
THEOREM OnlyHoldersAreAsked == Spec => []AsksOnlyHolders
<1>1. Init => LackInv
  BY DEF Init, LackInv
<1>2. TypeInv /\ LackInv /\ [Next]_vars => LackInv'
  BY LackStep
<1>3. LackInv => AsksOnlyHolders
  BY DEF LackInv, AsksOnlyHolders
<1> QED  BY <1>1, <1>2, <1>3, TypeInvariant, PTL DEF Spec

-----------------------------------------------------------------------------
(* A connection fails only for a cause: which answers are late, and what the
   client waits for *)

\* Every peer chooses for ut_metadata the identifier that this client uses.
ChooseOwnId == \A g \in Greetings : \A i \in DOMAIN g :
                 g[i][1] = "ext0" => g[i][2] <= OwnId

\* The number of members of S in a sequence.
Count(s, S) == Cardinality({i \in DOMAIN s : s[i] \in S})

AnswerKinds == {"block", "bad"}
Answers == AnswerKinds \X Int
OwnOf(n) == AnswerKinds \X {n}
Own == OwnOf(Current)
Unchokes == {<<"unchoke", 0>>}

\* The answers that are still to be read, and those for the current block.
Due == Count(wire, Answers) + Count(asked, Answers)
OwnDue == Count(wire, Own) + Count(asked, Own)

\* An answer that is not the current block's was paid for by a fault, and so
\* was every attempt that failed for one.  The client never waits for a peer
\* that owes it nothing.
LagInv ==
  phase = "blocks" /\ ~torn /\ ~refused =>
    /\ \A i \in DOMAIN wire : wire[i][1] \in AnswerKinds => wire[i][2] <= Current
    /\ \A i \in DOMAIN asked : asked[i][1] = "block" /\ asked[i][2] <= Current
    /\ (Due - OwnDue) + attempts <= faults
    /\ OwnDue <= attempts + 1
    /\ peer = "open" => choking \/ Count(wire, Unchokes) + OwnDue >= 1

\* Nothing is answered before it is asked, and nothing badly without refusal.
EarlyInv == phase \in {"greet", "extension", "bitfield", "unchoke"} =>
              \A i \in DOMAIN wire : wire[i][1] \notin AnswerKinds

BadInv == ~refused => \A i \in DOMAIN wire : wire[i][1] # "bad"

\* The client never waits for an unchoke or metadata that will not come.
ChokeInv == /\ ~choking => phase \in {"unchoke", "blocks"} \union Ended
            /\ phase = "unchoke" /\ ~choking => Count(wire, Unchokes) >= 1

DataInv == phase = "metadata" =>
             \/ peer = "closed" \/ refused
             \/ \E i \in DOMAIN wire : wire[i] = <<"data", Current>>
             \/ \E i \in DOMAIN asked : asked[i] = <<"data", Current>>

WaitInv == EarlyInv /\ BadInv /\ ChokeInv /\ DataInv

\* Which messages come first as long as the peer has done nothing wrong.
BitsAt(i) == ~magnet => /\ Len(wire) >= i
                        /\ wire[i] \in {<<"bits", 0>>, <<"bits", 1>>}
                        /\ goal = "piece" => wire[i] = <<"bits", 1>>

ExtensionAt(i) ==
  /\ Len(wire) >= i
  /\ \/ wire[i][1] = "bits"
     \/ /\ wire[i][1] = "ext0"
        /\ wire[i][2] >= NoId
        /\ goal = "metadata" => wire[i][2] > 0
        /\ BitsAt(i + 1)

GreetInv ==
  /\ phase = "greet" /\ peer # "silent" /\ ~refused /\ wire # <<>> =>
       /\ wire[1] = <<"hello", 0>> => goal # "metadata" /\ BitsAt(2)
       /\ wire[1] = <<"hello", 1>> => ExtensionAt(2)
  /\ phase = "extension" /\ pending = <<>> /\ ~refused => ExtensionAt(1)
  /\ phase = "bitfield" /\ ~refused => BitsAt(1)

\* Every peer that serves metadata chooses this client's own identifier.
IdInv == /\ \A i \in DOMAIN wire : wire[i][1] = "ext0" => wire[i][2] <= OwnId
         /\ phase = "metadata" /\ ~refused => theirId = OwnId

CauseInv == LagInv /\ WaitInv /\ GreetInv /\ IdInv /\ FailsForCause

-----------------------------------------------------------------------------
(* Counting in sequences *)

Places(s, S) == {i \in DOMAIN s : s[i] \in S}

LEMMA CountIsNat ==
  ASSUME NEW T, NEW s \in Seq(T), NEW S
  PROVE  IsFiniteSet(Places(s, S)) /\ Count(s, S) = Cardinality(Places(s, S))
         /\ Count(s, S) \in Nat
<1>1. IsFiniteSet(1 .. Len(s))
  BY FS_Interval
<1>2. Places(s, S) \subseteq 1 .. Len(s)
  BY DEF Places
<1>3. IsFiniteSet(Places(s, S))
  BY <1>1, <1>2, FS_Subset
<1> QED  BY <1>3, FS_CardinalityType DEF Count, Places

LEMMA CountNone ==
  ASSUME NEW T, NEW s \in Seq(T), NEW S, \A i \in DOMAIN s : s[i] \notin S
  PROVE  Count(s, S) = 0
<1>1. Places(s, S) = {}
  BY DEF Places
<1> QED  BY <1>1, CountIsNat, FS_EmptySet

LEMMA CountSome ==
  ASSUME NEW T, NEW s \in Seq(T), NEW S
  PROVE  Count(s, S) >= 1 <=> \E i \in DOMAIN s : s[i] \in S
<1>1. Count(s, S) = 0 <=> Places(s, S) = {}
  BY CountIsNat, FS_EmptySet
<1>2. Count(s, S) \in Nat
  BY CountIsNat
<1>3. Places(s, S) = {} <=> ~\E i \in DOMAIN s : s[i] \in S
  BY DEF Places
<1> QED  BY <1>1, <1>2, <1>3

LEMMA CountLess ==
  ASSUME NEW T, NEW s \in Seq(T), NEW S, NEW R, R \subseteq S
  PROVE  Count(s, R) <= Count(s, S)
<1>1. Places(s, R) \subseteq Places(s, S)
  BY DEF Places
<1> QED  BY <1>1, CountIsNat, FS_Subset

LEMMA CountAppend ==
  ASSUME NEW T, NEW s \in Seq(T), NEW e \in T, NEW S
  PROVE  Count(Append(s, e), S) = IF e \in S THEN Count(s, S) + 1 ELSE Count(s, S)
<1> DEFINE n == Len(s) + 1
<1>1. /\ Append(s, e) \in Seq(T)
      /\ DOMAIN Append(s, e) = DOMAIN s \union {n}
      /\ Append(s, e)[n] = e
      /\ \A i \in DOMAIN s : Append(s, e)[i] = s[i]
      /\ n \notin DOMAIN s
  OBVIOUS
<1>2. CASE e \in S
  <2>1. Places(Append(s, e), S) = Places(s, S) \union {n} /\ n \notin Places(s, S)
    BY <1>1, <1>2 DEF Places
  <2>2. IsFiniteSet(Places(s, S)) /\ Count(s, S) = Cardinality(Places(s, S))
    BY CountIsNat
  <2>3. Count(Append(s, e), S) = Cardinality(Places(Append(s, e), S))
    BY <1>1, CountIsNat
  <2>4. Cardinality(Places(s, S) \union {n}) = Cardinality(Places(s, S)) + 1
    BY <2>1, <2>2, FS_AddElement
  <2> QED  BY <1>2, <2>1, <2>2, <2>3, <2>4
<1>3. CASE e \notin S
  <2>1. Places(Append(s, e), S) = Places(s, S)
    BY <1>1, <1>3 DEF Places
  <2> QED  BY <1>1, <1>3, <2>1, CountIsNat
<1> QED  BY <1>2, <1>3

LEMMA CountTail ==
  ASSUME NEW T, NEW s \in Seq(T), NEW S, s # <<>>
  PROVE  Count(s, S) = IF Head(s) \in S THEN Count(Tail(s), S) + 1
                       ELSE Count(Tail(s), S)
<1> DEFINE A == Places(Tail(s), S)
           B == Places(s, S) \ {1}
           f == [i \in A |-> i + 1]
<1>1. /\ Tail(s) \in Seq(T)
      /\ DOMAIN Tail(s) = 1 .. Len(s) - 1
      /\ DOMAIN s = 1 .. Len(s)
      /\ Len(s) \in Nat \ {0}
      /\ Head(s) = s[1]
      /\ \A i \in 1 .. Len(s) - 1 : Tail(s)[i] = s[i + 1]
  BY HeadTail
<1>2. A \subseteq Nat /\ B \subseteq Nat
  BY <1>1 DEF Places
<1>3. \A i \in A : i + 1 \in B
  BY <1>1 DEF Places
<1>4. \A j \in B : j - 1 \in A
  BY <1>1 DEF Places
<1>5. f \in Bijection(A, B)
  <2>1. f \in [A -> B]
    BY <1>3
  <2>2. \A i, j \in A : f[i] = f[j] => i = j
    BY <1>2
  <2>3. \A j \in B : \E i \in A : f[i] = j
    BY <1>2, <1>4
  <2> QED  BY <2>1, <2>2, <2>3 DEF Bijection, Injection, Surjection, IsInjective
<1>6. IsFiniteSet(A) /\ Cardinality(A) = Count(Tail(s), S) /\ Cardinality(A) \in Nat
  BY <1>1, CountIsNat
<1>7. Cardinality(B) = Cardinality(A)
  BY <1>5, <1>6, FS_Bijection DEF ExistsBijection
<1>8. IsFiniteSet(Places(s, S)) /\ Count(s, S) = Cardinality(Places(s, S))
      /\ Count(s, S) \in Nat
  BY CountIsNat
<1>9. 1 \in Places(s, S) <=> Head(s) \in S
  BY <1>1 DEF Places
<1>10. CASE Head(s) \in S
  <2>1. Cardinality(B) = Cardinality(Places(s, S)) - 1
    BY <1>8, <1>9, <1>10, FS_RemoveElement
  <2> QED  BY <1>6, <1>7, <1>8, <1>10, <2>1
<1>11. CASE Head(s) \notin S
  <2>1. B = Places(s, S)
    BY <1>9, <1>11
  <2> QED  BY <1>6, <1>7, <1>8, <1>11, <2>1
<1> QED  BY <1>10, <1>11

-----------------------------------------------------------------------------
(* Late answers *)

LEMMA AnswerSets ==
  /\ \A m \in Messages : m \in Answers <=> m[1] \in AnswerKinds
  /\ \A m \in Messages : \A n : m \in OwnOf(n) <=> m[1] \in AnswerKinds /\ m[2] = n
  /\ \A m \in Messages : m \in Unchokes => m[1] = "unchoke"
  /\ \A m \in Messages : m[1] \in AnswerKinds => m \notin Unchokes
  /\ \A n \in 1 .. NumBlocks : OwnOf(n) \subseteq Answers
  /\ \A n \in 1 .. NumBlocks : <<"block", n>> \in OwnOf(n)
  BY MessageTypes DEF Answers, OwnOf, AnswerKinds, Unchokes, Messages, Kinds

\* A read takes one message out of the counts.
LEMMA ReadCounts ==
  ASSUME wire \in Seq(Messages), wire # <<>>, wire' = Tail(wire), NEW S
  PROVE  /\ wire' \in Seq(Messages)
         /\ Count(wire, S) \in Nat /\ Count(wire', S) \in Nat
         /\ Head(wire) \in S => Count(wire, S) = Count(wire', S) + 1
         /\ Head(wire) \notin S => Count(wire, S) = Count(wire', S)
         /\ \A i \in DOMAIN wire' : \E j \in DOMAIN wire : wire'[i] = wire[j]
<1>1. wire' \in Seq(Messages)
  BY HeadTail
<1>2. Count(wire, S) \in Nat /\ Count(wire', S) \in Nat
  BY <1>1, CountIsNat
<1>3. Count(wire, S) = IF Head(wire) \in S THEN Count(Tail(wire), S) + 1
                       ELSE Count(Tail(wire), S)
  BY CountTail
<1>4. \A i \in DOMAIN wire' : \E j \in DOMAIN wire : wire'[i] = wire[j]
  BY HeadTail
<1> QED  BY <1>1, <1>2, <1>3, <1>4

LEMMA RequestCounts ==
  ASSUME asked \in Seq(Requests), NEW n \in 1 .. NumBlocks,
         Request(<<"block", n>>)
  PROVE  /\ asked' \in Seq(Requests)
         /\ \/ asked' = asked /\ ~(peer = "open" /\ ~torn /\ ~choking)
            \/ /\ asked' = Append(asked, <<"block", n>>)
               /\ Count(asked', Answers) = Count(asked, Answers) + 1
               /\ Count(asked', OwnOf(n)) = Count(asked, OwnOf(n)) + 1
<1>1. <<"block", n>> \in Requests
  BY DEF Requests
<1>2. asked' \in Seq(Requests)
  BY <1>1, RequestTypes
<1>3. CASE asked' = Append(asked, <<"block", n>>)
  <2>1. <<"block", n>> \in OwnOf(n) /\ <<"block", n>> \in Answers
    BY AnswerSets
  <2>2. Count(asked', Answers) = Count(asked, Answers) + 1
    BY <1>1, <1>3, <2>1, CountAppend
  <2>3. Count(asked', OwnOf(n)) = Count(asked, OwnOf(n)) + 1
    BY <1>1, <1>3, <2>1, CountAppend
  <2> QED  BY <1>2, <1>3, <2>2, <2>3
<1>4. CASE asked' = asked /\ ~(peer = "open" /\ ~torn /\ ~choking)
  BY <1>2, <1>4
<1> QED  BY <1>3, <1>4 DEF Request

\* The counts are numbers, and the own answers are among the answers.
LEMMA DueTypes ==
  ASSUME QueueTypes, Current \in 1 .. NumBlocks
  PROVE  /\ Count(wire, Answers) \in Nat /\ Count(asked, Answers) \in Nat
         /\ Count(wire, Own) \in Nat /\ Count(asked, Own) \in Nat
         /\ Count(wire, Unchokes) \in Nat
         /\ Count(wire, Own) <= Count(wire, Answers)
         /\ Count(asked, Own) <= Count(asked, Answers)
<1>1. wire \in Seq(Messages) /\ asked \in Seq(Requests)
  BY DEF QueueTypes
<1>2. Own \subseteq Answers
  BY AnswerSets DEF Own
<1>3. /\ Count(wire, Answers) \in Nat /\ Count(asked, Answers) \in Nat
      /\ Count(wire, Own) \in Nat /\ Count(asked, Own) \in Nat
      /\ Count(wire, Unchokes) \in Nat
  BY <1>1, CountIsNat
<1>4. Count(wire, Own) <= Count(wire, Answers)
  BY <1>1, <1>2, CountLess
<1>5. Count(asked, Own) <= Count(asked, Answers)
  BY <1>1, <1>2, CountLess
<1> QED  BY <1>3, <1>4, <1>5

\* What the types say while blocks are read.
LEMMA BlockTypes ==
  ASSUME TypeInv, phase = "blocks"
  PROVE  /\ QueueTypes
         /\ wire \in Seq(Messages)
         /\ asked \in Seq(Requests)
         /\ data \in Seq(0 .. NumBlocks)
         /\ Current \in 1 .. NumBlocks
         /\ attempts \in Nat
         /\ faults \in Nat
         /\ pending = <<>>
<1>1. QueueTypes /\ CounterTypes /\ DataTypes
  BY DEF TypeInv, TypeOK
<1>2. data \in Seq(0 .. NumBlocks) /\ Len(data) < NumBlocks
  BY <1>1 DEF DataTypes, Ended
<1>3. Current \in 1 .. NumBlocks
  BY <1>2, Numbers DEF Current
<1> QED  BY <1>1, <1>2, <1>3 DEF QueueTypes, CounterTypes

\* An attempt that fails is paid for by a stale answer that was read or by a
\* fault.
LEMMA LoseLag ==
  ASSUME TypeInv, LagInv, phase = "blocks", ~torn, ~refused,
         LoseAttempt, phase' = "blocks", data' = data,
         wire' \in Seq(Messages), faults' \in Nat,
         UNCHANGED <<peer, choking>>,
         \A i \in DOMAIN wire' : \E j \in DOMAIN wire : wire'[i] = wire[j],
         Count(wire', Own) = Count(wire, Own),
         (Count(wire', Answers) - Count(wire', Own))
           + (Count(asked, Answers) - Count(asked, Own)) + attempts + 1 <= faults'
  PROVE  LagInv'
<1>1. /\ QueueTypes
      /\ wire \in Seq(Messages)
      /\ asked \in Seq(Requests)
      /\ Current \in 1 .. NumBlocks
      /\ attempts \in Nat
  BY BlockTypes
<1>2. attempts' = attempts + 1 /\ Request(<<"block", Current>>)
  BY DEF LoseAttempt
<1>3. /\ asked' \in Seq(Requests)
      /\ \/ asked' = asked /\ ~(peer = "open" /\ ~torn /\ ~choking)
         \/ /\ asked' = Append(asked, <<"block", Current>>)
            /\ Count(asked', Answers) = Count(asked, Answers) + 1
            /\ Count(asked', Own) = Count(asked, Own) + 1
  BY <1>1, <1>2, RequestCounts DEF Own
<1>4. Current' = Current /\ Own' = Own
  BY DEF Current, Own
<1>5. /\ Count(wire, Answers) \in Nat /\ Count(asked, Answers) \in Nat
      /\ Count(wire, Own) \in Nat /\ Count(asked, Own) \in Nat
      /\ Count(wire', Answers) \in Nat
      /\ Count(wire', Unchokes) \in Nat
  BY <1>1, DueTypes, CountIsNat
<1>6. /\ \A i \in DOMAIN wire : wire[i][1] \in AnswerKinds => wire[i][2] <= Current
      /\ \A i \in DOMAIN asked : asked[i][1] = "block" /\ asked[i][2] <= Current
      /\ OwnDue <= attempts + 1
  BY DEF LagInv
<1>7. \A i \in DOMAIN wire' : wire'[i][1] \in AnswerKinds => wire'[i][2] <= Current'
  BY <1>4, <1>6
<1>8. \A i \in DOMAIN asked' : asked'[i][1] = "block" /\ asked'[i][2] <= Current'
  <2>1. CASE asked' = asked
    BY <1>4, <1>6, <2>1
  <2>2. CASE asked' = Append(asked, <<"block", Current>>)
    <3>1. <<"block", Current>> \in Requests
      BY <1>1 DEF Requests
    <3>2. \A i \in DOMAIN asked' : \/ i \in DOMAIN asked /\ asked'[i] = asked[i]
                                   \/ asked'[i] = <<"block", Current>>
      BY <1>1, <2>2, <3>1, Appended
    <3> QED  BY <1>1, <1>4, <1>6, <3>2
  <2> QED  BY <1>3, <2>1, <2>2
<1>c. /\ Due' = Count(wire', Answers) + Count(asked', Answers)
      /\ OwnDue' = Count(wire, Own) + Count(asked', Own)
  BY <1>4 DEF Due, OwnDue
<1>d. /\ Count(asked', Answers) \in Nat /\ Count(asked', Own) \in Nat
      /\ \/ /\ Count(asked', Answers) = Count(asked, Answers)
            /\ Count(asked', Own) = Count(asked, Own)
         \/ /\ Count(asked', Answers) = Count(asked, Answers) + 1
            /\ Count(asked', Own) = Count(asked, Own) + 1
  BY <1>3, <1>5, SMTT(30)
<1>e. attempts \in Nat /\ attempts' = attempts + 1
  BY <1>1, <1>2
<1>f. Count(wire, Own) + Count(asked, Own) <= attempts + 1
  BY <1>6 DEF OwnDue
<1>9. (Due' - OwnDue') + attempts' <= faults'
  <2> DEFINE w == Count(wire', Answers)
             o == Count(wire, Own)
             a == Count(asked, Answers)
             b == Count(asked, Own)
             c == Count(asked', Answers)
             d == Count(asked', Own)
  <2>1. w \in Nat /\ o \in Nat /\ a \in Nat /\ b \in Nat /\ c \in Nat /\ d \in Nat
    BY <1>5, <1>d
  <2>2. (w - o) + (a - b) + attempts + 1 <= faults'
    OBVIOUS
  <2>3. (c = a /\ d = b) \/ (c = a + 1 /\ d = b + 1)
    BY <1>d
  <2>4. Due' = w + c /\ OwnDue' = o + d
    BY <1>c
  <2> HIDE DEF w, o, a, b, c, d
  <2> QED  BY <1>e, <2>1, <2>2, <2>3, <2>4
<1>10. OwnDue' <= attempts' + 1
  <2> DEFINE o == Count(wire, Own)
             b == Count(asked, Own)
             d == Count(asked', Own)
  <2>1. o \in Nat /\ b \in Nat /\ (d = b \/ d = b + 1)
    BY <1>5, <1>d
  <2>2. o + b <= attempts + 1 /\ OwnDue' = o + d
    BY <1>c, <1>f
  <2> HIDE DEF o, b, d
  <2> QED  BY <1>e, <2>1, <2>2
<1>11. peer' = "open" => choking' \/ Count(wire', Unchokes) + OwnDue' >= 1
  BY <1>3, <1>4, <1>5, SMTT(30) DEF OwnDue
<1> QED  BY <1>7, <1>8, <1>9, <1>10, <1>11 DEF LagInv

\* The counts are kept or lowered by the steps of the peer.
LEMMA LagKept ==
  ASSUME TypeInv, LagInv, phase = "blocks", ~torn, ~refused,
         UNCHANGED <<attempts, data, faults>>,
         NEW d \in Nat, NEW o \in Nat, Due' = d, OwnDue' = o,
         d - o <= Due - OwnDue, o <= OwnDue,
         \A i \in DOMAIN wire' : wire'[i][1] \in AnswerKinds => wire'[i][2] <= Current,
         \A i \in DOMAIN asked' : asked'[i][1] = "block" /\ asked'[i][2] <= Current,
         peer' = "open" => choking' \/ Count(wire', Unchokes) + o >= 1
  PROVE  LagInv'
<1>1. Current' = Current /\ attempts' = attempts /\ faults' = faults
  BY DEF Current
<1>2. attempts \in Nat /\ faults \in Nat
  BY BlockTypes
<1>3. Due \in Nat /\ OwnDue \in Nat
  <2>1. /\ QueueTypes
        /\ Current \in 1 .. NumBlocks
    BY BlockTypes
  <2> QED  BY <2>1, DueTypes DEF Due, OwnDue
<1>4. (Due - OwnDue) + attempts <= faults /\ OwnDue <= attempts + 1
  BY DEF LagInv
<1>5. (Due' - OwnDue') + attempts' <= faults'
  BY <1>1, <1>2, <1>3, <1>4
<1>6. OwnDue' <= attempts' + 1
  BY <1>1, <1>2, <1>3, <1>4
<1> QED  BY <1>1, <1>5, <1>6 DEF LagInv

LEMMA LagTalk ==
  ASSUME TypeInv, LagInv, phase = "blocks", ~torn, ~refused,
         Chat \/ Choke \/ Unchoke \/ HangUp
  PROVE  LagInv'
<1> DEFINE W(S) == Count(wire, S)
           A(S) == Count(asked, S)
<1>1. /\ QueueTypes
      /\ wire \in Seq(Messages)
      /\ asked \in Seq(Requests)
      /\ Current \in 1 .. NumBlocks
  BY BlockTypes
<1>2. /\ \A i \in DOMAIN wire : wire[i][1] \in AnswerKinds => wire[i][2] <= Current
      /\ \A i \in DOMAIN asked : asked[i][1] = "block" /\ asked[i][2] <= Current
      /\ peer = "open" => choking \/ Count(wire, Unchokes) + OwnDue >= 1
  BY DEF LagInv
<1>3. UNCHANGED <<attempts, data, faults>> /\ Current' = Current /\ Own' = Own
  BY DEF Chat, Choke, Unchoke, HangUp, client, history, Current, Own
<1>4. /\ W(Answers) \in Nat /\ A(Answers) \in Nat /\ W(Own) \in Nat /\ A(Own) \in Nat
      /\ W(Unchokes) \in Nat
      /\ W(Own) <= W(Answers) /\ A(Own) <= A(Answers)
  BY <1>1, DueTypes
<1>5. Due = W(Answers) + A(Answers) /\ OwnDue = W(Own) + A(Own)
  BY DEF Due, OwnDue
<1>6. Due' = Count(wire', Answers) + Count(asked', Answers)
      /\ OwnDue' = Count(wire', Own) + Count(asked', Own)
  BY <1>3 DEF Due, OwnDue
<1>7. ASSUME NEW m \in Messages, m[1] \notin AnswerKinds, wire' = Append(wire, m)
      PROVE  /\ Count(wire', Answers) = W(Answers)
             /\ Count(wire', Own) = W(Own)
             /\ Count(wire', Unchokes) \in Nat
             /\ m \notin Unchokes => Count(wire', Unchokes) = W(Unchokes)
             /\ m \in Unchokes => Count(wire', Unchokes) = W(Unchokes) + 1
             /\ \A i \in DOMAIN wire' :
                  wire'[i][1] \in AnswerKinds => wire'[i][2] <= Current
  <2>1. m \notin Answers /\ m \notin Own
    BY <1>7, AnswerSets DEF Own
  <2>2. /\ Count(wire', Answers) = W(Answers)
        /\ Count(wire', Own) = W(Own)
        /\ Count(wire', Unchokes) = IF m \in Unchokes THEN W(Unchokes) + 1 ELSE W(Unchokes)
    BY <1>1, <1>7, <2>1, CountAppend
  <2>3. \A i \in DOMAIN wire' : (i \in DOMAIN wire /\ wire'[i] = wire[i]) \/ wire'[i] = m
    BY <1>1, <1>7, Appended
  <2>4. \A i \in DOMAIN wire' : wire'[i][1] \in AnswerKinds => wire'[i][2] <= Current
    BY <1>2, <1>7, <2>3
  <2>5. Count(wire', Unchokes) \in Nat
    BY <1>4, <2>2
  <2> QED  BY <2>2, <2>4, <2>5
<1>8. \A kind \in {"aux", "other", "unchoke"} :
        /\ <<kind, 0>> \in Messages
        /\ <<kind, 0>>[1] \notin AnswerKinds
        /\ <<kind, 0>> \in Unchokes <=> kind = "unchoke"
  BY MessageTypes DEF Kinds, AnswerKinds, Unchokes
<1>9. asked' = <<>> => /\ Count(asked', Answers) = 0
                      /\ Count(asked', Own) = 0
                      /\ \A i \in DOMAIN asked' : FALSE
  <2>1. <<>> \in Seq(Requests) /\ DOMAIN <<>> = {}
    OBVIOUS
  <2> QED  BY <2>1, CountNone
<1> DEFINE d == Due'
           o == OwnDue'
<1>10. CASE Chat \/ Unchoke
  <2>1. asked' = asked /\ peer' = peer
    BY <1>10 DEF Chat, Unchoke
  <2>2. PICK kind \in {"aux", "other", "unchoke"} :
          /\ wire' = Append(wire, <<kind, 0>>)
          /\ kind # "unchoke" => choking' = choking
          /\ peer = "open"
    BY <1>10 DEF Chat, Unchoke, Talks
  <2>3. /\ Count(wire', Answers) = W(Answers) /\ Count(wire', Own) = W(Own)
        /\ Count(wire', Unchokes) \in Nat
        /\ kind = "unchoke" => Count(wire', Unchokes) = W(Unchokes) + 1
        /\ kind # "unchoke" => Count(wire', Unchokes) = W(Unchokes)
        /\ \A i \in DOMAIN wire' :
             wire'[i][1] \in AnswerKinds => wire'[i][2] <= Current
    BY <1>7, <1>8, <2>2
  <2>4. d = Due /\ o = OwnDue
    BY <1>5, <1>6, <2>1, <2>3
  <2>5. Due \in Nat /\ OwnDue \in Nat
    BY <1>4, <1>5
  <2>6. choking' \/ Count(wire', Unchokes) + o >= 1
    <3> DEFINE u == Count(wire', Unchokes)
               v == Count(wire, Unchokes)
    <3>1. choking \/ v + OwnDue >= 1
      BY <1>2, <2>2
    <3>2. u \in Nat /\ v \in Nat /\ (kind = "unchoke" => u = v + 1)
          /\ (kind # "unchoke" => u = v)
      BY <1>4, <2>3
    <3> HIDE DEF u, v, o
    <3>3. CASE kind = "unchoke"
      <4>1. u + o >= 1
        BY <2>4, <2>5, <3>2, <3>3
      <4> QED  BY <4>1 DEF u
    <3>4. CASE kind # "unchoke"
      <4>1. v + OwnDue >= 1 => u + o >= 1
        BY <2>4, <2>5, <3>2, <3>4
      <4>2. choking' = choking
        BY <2>2, <3>4
      <4> QED  BY <3>1, <4>1, <4>2 DEF u
    <3> QED  BY <3>3, <3>4
  <2> HIDE DEF d, o
  <2> QED  BY <1>2, <1>3, <2>1, <2>3, <2>4, <2>5, <2>6, LagKept DEF d, o
<1>11. CASE Choke \/ HangUp
  <2>1. asked' = <<>> /\ (choking' \/ peer' # "open")
    BY <1>11 DEF Choke, HangUp
  <2>2. wire' = wire \/ wire' = Append(wire, <<"aux", 0>>)
    BY <1>11 DEF Choke, HangUp
  <2>3. /\ Count(wire', Answers) = W(Answers) /\ Count(wire', Own) = W(Own)
        /\ \A i \in DOMAIN wire' :
             wire'[i][1] \in AnswerKinds => wire'[i][2] <= Current
    BY <1>2, <1>7, <1>8, <2>2
  <2>4. d = W(Answers) /\ o = W(Own)
    <3>1. d = W(Answers) + 0 /\ o = W(Own) + 0
      BY <1>6, <1>9, <2>1, <2>3
    <3>2. W(Answers) + 0 = W(Answers) /\ W(Own) + 0 = W(Own)
      BY <1>4
    <3> QED  BY <3>1, <3>2
  <2>5. d - o <= Due - OwnDue /\ o <= OwnDue /\ d \in Nat /\ o \in Nat
    <3> DEFINE w == W(Answers)
               x == W(Own)
               a == A(Answers)
               b == A(Own)
    <3>1. /\ w \in Nat /\ x \in Nat /\ a \in Nat /\ b \in Nat
          /\ b <= a /\ d = w /\ o = x /\ Due = w + a /\ OwnDue = x + b
      BY <1>4, <1>5, <2>4
    <3> HIDE DEF w, x, a, b, d, o
    <3> QED  BY <3>1
  <2> HIDE DEF d, o
  <2> QED  BY <1>3, <1>9, <2>1, <2>3, <2>5, LagKept DEF d, o
<1> QED  BY <1>10, <1>11

\* An answer moves from one count to the other.
LEMMA MoveCounts ==
  ASSUME wire \in Seq(Messages), asked \in Seq(Requests), asked # <<>>,
         wire' = Append(wire, Head(asked)), asked' = Tail(asked), NEW S
  PROVE  /\ Count(wire', S) \in Nat /\ Count(asked', S) \in Nat
         /\ Count(wire', S) + Count(asked', S) = Count(wire, S) + Count(asked, S)
         /\ Head(asked) \notin S => Count(wire', S) = Count(wire, S)
<1> DEFINE w == Count(wire, S)
           v == Count(wire', S)
           a == Count(asked, S)
           b == Count(asked', S)
<1>1. /\ Head(asked) \in Messages
      /\ asked' \in Seq(Requests)
      /\ wire' \in Seq(Messages)
  <2>1. Head(asked) \in Requests /\ Tail(asked) \in Seq(Requests)
    BY HeadTail
  <2> QED  BY <2>1, MessageTypes, Appended
<1>2. w \in Nat /\ v \in Nat /\ a \in Nat /\ b \in Nat
  BY <1>1, CountIsNat
<1>3. v = IF Head(asked) \in S THEN w + 1 ELSE w
  BY <1>1, CountAppend
<1>4. a = IF Head(asked) \in S THEN b + 1 ELSE b
  BY CountTail
<1>5. v + b = w + a /\ (Head(asked) \notin S => v = w)
  <2> HIDE DEF w, v, a, b
  <2> QED  BY <1>2, <1>3, <1>4
<1> QED  BY <1>2, <1>5

LEMMA LagAnswer ==
  ASSUME TypeInv, LagInv, phase = "blocks", ~torn, ~refused,
         Answer, ~refused'
  PROVE  LagInv'
<1>1. /\ QueueTypes
      /\ wire \in Seq(Messages)
      /\ asked \in Seq(Requests)
      /\ Current \in 1 .. NumBlocks
  BY BlockTypes
<1>2. /\ \A i \in DOMAIN wire : wire[i][1] \in AnswerKinds => wire[i][2] <= Current
      /\ \A i \in DOMAIN asked : asked[i][1] = "block" /\ asked[i][2] <= Current
      /\ peer = "open" => choking \/ Count(wire, Unchokes) + OwnDue >= 1
  BY DEF LagInv
<1>3. /\ UNCHANGED <<attempts, data, faults, peer, choking>>
      /\ Current' = Current /\ Own' = Own
      /\ asked # <<>>
      /\ asked' = Tail(asked)
      /\ wire' = Append(wire, Head(asked))
  BY DEF Answer, client, remote, Current, Own
<1>4. /\ Head(asked) \in Requests
      /\ Head(asked) \in Messages
      /\ Head(asked)[1] = "block"
      /\ Head(asked)[2] <= Current
      /\ Head(asked) \notin Unchokes
  <2>1. Head(asked) = asked[1] /\ 1 \in DOMAIN asked /\ Head(asked) \in Requests
    BY <1>1, <1>3, HeadTail
  <2> QED  BY <1>2, <2>1, MessageTypes, AnswerSets DEF AnswerKinds
<1>5. \A i \in DOMAIN asked' : asked'[i][1] = "block" /\ asked'[i][2] <= Current
  <2>1. \A i \in DOMAIN asked' : i + 1 \in DOMAIN asked /\ asked'[i] = asked[i + 1]
    BY <1>1, <1>3, HeadTail
  <2> QED  BY <1>2, <2>1
<1>6. \A i \in DOMAIN wire' : wire'[i][1] \in AnswerKinds => wire'[i][2] <= Current
  <2>1. \A i \in DOMAIN wire' :
          (i \in DOMAIN wire /\ wire'[i] = wire[i]) \/ wire'[i] = Head(asked)
    BY <1>1, <1>3, <1>4, Appended
  <2> QED  BY <1>2, <1>4, <2>1
<1> DEFINE d == Due'
           o == OwnDue'
<1>7. d = Due /\ o = OwnDue
  BY <1>1, <1>3, MoveCounts DEF Due, OwnDue
<1>8. Due \in Nat /\ OwnDue \in Nat
  <2>1. /\ Count(wire, Answers) \in Nat /\ Count(asked, Answers) \in Nat
        /\ Count(wire, Own) \in Nat /\ Count(asked, Own) \in Nat
    BY <1>1, DueTypes
  <2> QED  BY <2>1 DEF Due, OwnDue
<1>9. Count(wire', Unchokes) = Count(wire, Unchokes)
  BY <1>1, <1>3, <1>4, MoveCounts
<1>10. peer' = "open" => choking' \/ Count(wire', Unchokes) + o >= 1
  BY <1>2, <1>3, <1>7, <1>9
<1> HIDE DEF d, o
<1>11. d \in Nat /\ o \in Nat /\ d - o <= Due - OwnDue /\ o <= OwnDue
  BY <1>7, <1>8
<1> QED  BY <1>3, <1>5, <1>6, <1>10, <1>11, LagKept DEF d, o

\* The first request.
LEMMA LagEnter ==
  ASSUME TypeInv, WaitInv, ReceiveUnchoke, phase' = "blocks", ~torn
  PROVE  LagInv'
<1>1. /\ wire \in Seq(Messages)
      /\ QueueTypes
      /\ phase = "unchoke"
      /\ attempts = 0
      /\ data = <<>>
      /\ asked = <<>>
      /\ faults \in Nat
      /\ 1 \in 1 .. NumBlocks
  BY Numbers
     DEF ReceiveUnchoke, TypeInv, TypeOK, PhaseInv, QueueTypes, CounterTypes
<1>2. PICK m \in Incoming : /\ Take(m)
                            /\ Request(<<"block", 1>>)
  BY <1>1 DEF ReceiveUnchoke
<1>3. wire # <<>> /\ wire' = Tail(wire)
  BY <1>1, <1>2, WireReads
<1>4. /\ UNCHANGED <<attempts, data, faults, peer, choking, torn>>
      /\ Current' = 1
      /\ Own' = OwnOf(1)
  BY <1>1 DEF ReceiveUnchoke, remote, Current, Own
<1>5. wire' \in Seq(Messages) /\ \A i \in DOMAIN wire' : wire'[i][1] \notin AnswerKinds
  <2>1. \A i \in DOMAIN wire : wire[i][1] \notin AnswerKinds
    BY <1>1 DEF WaitInv, EarlyInv
  <2>2. /\ wire' \in Seq(Messages)
        /\ \A i \in DOMAIN wire' : i + 1 \in DOMAIN wire /\ wire'[i] = wire[i + 1]
    BY <1>1, <1>3, HeadTail
  <2> QED  BY <2>1, <2>2
<1>6. /\ Count(wire', Answers) = 0
      /\ Count(wire', OwnOf(1)) = 0
      /\ Count(wire', Unchokes) \in Nat
  <2>1. \A i \in DOMAIN wire' : wire'[i] \in Messages
    BY <1>5
  <2>2. \A i \in DOMAIN wire' : wire'[i] \notin Answers /\ wire'[i] \notin OwnOf(1)
    BY <1>5, <2>1, AnswerSets
  <2> QED  BY <1>5, <2>2, CountNone, CountIsNat
<1>7. /\ Count(asked, Answers) = 0
      /\ Count(asked, OwnOf(1)) = 0
  <2>1. <<>> \in Seq(Requests) /\ DOMAIN <<>> = {}
    OBVIOUS
  <2> QED  BY <1>1, <2>1, CountNone
<1>8. /\ \A i \in DOMAIN asked' : asked'[i][1] = "block" /\ asked'[i][2] <= 1
      /\ Count(asked', Answers) = Count(asked', OwnOf(1))
      /\ Count(asked', OwnOf(1)) \in {0, 1}
      /\ peer = "open" => choking \/ Count(asked', OwnOf(1)) = 1
  <2>1. \/ asked' = asked /\ ~(peer = "open" /\ ~torn /\ ~choking)
        \/ /\ asked' = Append(asked, <<"block", 1>>)
           /\ Count(asked', Answers) = Count(asked, Answers) + 1
           /\ Count(asked', OwnOf(1)) = Count(asked, OwnOf(1)) + 1
    BY <1>1, <1>2, RequestCounts DEF QueueTypes
  <2>2. CASE asked' = asked /\ ~(peer = "open" /\ ~torn /\ ~choking)
    <3>1. DOMAIN asked' = {}
      BY <1>1, <2>2
    <3> QED  BY <1>7, <2>2, <3>1
  <2>3. CASE /\ asked' = Append(asked, <<"block", 1>>)
             /\ Count(asked', Answers) = Count(asked, Answers) + 1
             /\ Count(asked', OwnOf(1)) = Count(asked, OwnOf(1)) + 1
    <3>1. asked' = <<<<"block", 1>>>>
      BY <1>1, <2>3
    <3>2. Count(asked', Answers) = 1 /\ Count(asked', OwnOf(1)) = 1
      BY <1>7, <2>3
    <3>3. \A i \in DOMAIN asked' : asked'[i] = <<"block", 1>>
      BY <3>1
    <3> QED  BY <3>2, <3>3
  <2> QED  BY <2>1, <2>2, <2>3
<1>9. Due' = OwnDue' /\ OwnDue' = Count(asked', OwnOf(1))
  <2> DEFINE x == Count(asked', OwnOf(1))
  <2>1. Due' = 0 + x /\ OwnDue' = 0 + x /\ x \in {0, 1}
    BY <1>4, <1>6, <1>8 DEF Due, OwnDue
  <2> HIDE DEF x
  <2>2. Due' = x /\ OwnDue' = x
    BY <2>1
  <2> QED  BY <2>2 DEF x
<1>10. /\ OwnDue' \in {0, 1} /\ Due' = OwnDue'
       /\ attempts' = 0 /\ faults' \in Nat
  BY <1>1, <1>4, <1>8, <1>9
<1>11. (Due' - OwnDue') + attempts' <= faults' /\ OwnDue' <= attempts' + 1
  <2> DEFINE d == Due'
             o == OwnDue'
  <2>1. o \in {0, 1} /\ d = o
    BY <1>10
  <2> HIDE DEF d, o
  <2>2. (d - o) + attempts' <= faults' /\ o <= attempts' + 1
    BY <1>10, <2>1
  <2> QED  BY <2>2 DEF d, o
<1>12. peer' = "open" => choking' \/ Count(wire', Unchokes) + OwnDue' >= 1
  <2> DEFINE u == Count(wire', Unchokes)
  <2>1. u \in Nat
    BY <1>6
  <2> HIDE DEF u
  <2>2. OwnDue' = 1 => u + OwnDue' >= 1
    BY <2>1
  <2> QED  BY <1>4, <1>8, <1>9, <2>2 DEF u
<1> QED  BY <1>4, <1>5, <1>8, <1>11, <1>12 DEF LagInv

\* A block that is received was the only answer that the next block does not
\* inherit as a late one.
LEMMA LagNext ==
  ASSUME TypeInv, LagInv, phase = "blocks", ~torn, ~refused, phase' = "blocks",
         wire # <<>>, wire' = Tail(wire), Head(wire) = <<"block", Current>>,
         NextBlock(Current), UNCHANGED <<peer, choking, faults>>
  PROVE  LagInv'
<1> DEFINE n == Current + 1
<1>1. /\ QueueTypes
      /\ wire \in Seq(Messages)
      /\ asked \in Seq(Requests)
      /\ data \in Seq(0 .. NumBlocks)
      /\ Current \in 1 .. NumBlocks
      /\ attempts \in Nat
      /\ faults \in Nat
  BY BlockTypes
<1>2. /\ \A i \in DOMAIN wire : wire[i][1] \in AnswerKinds => wire[i][2] <= Current
      /\ \A i \in DOMAIN asked : asked[i][1] = "block" /\ asked[i][2] <= Current
      /\ (Due - OwnDue) + attempts <= faults
      /\ OwnDue <= attempts + 1
  BY DEF LagInv
<1>3. /\ data' = Append(data, Current)
      /\ attempts' = 0
      /\ Current # NumBlocks
      /\ Request(<<"block", n>>)
  BY DEF NextBlock
<1>4. n \in 1 .. NumBlocks /\ n \in Nat /\ Current \in Nat
  BY <1>1, <1>3, Numbers
<1>5. Current' = n /\ Own' = OwnOf(n)
  <2>1. Len(data') = Len(data) + 1
    BY <1>1, <1>3, <1>4, Numbers, Appended
  <2> QED  BY <2>1 DEF Current, Own
<1>6. /\ wire' \in Seq(Messages)
      /\ \A i \in DOMAIN wire' : wire'[i][1] \in AnswerKinds => wire'[i][2] <= Current
  <2>1. \A i \in DOMAIN wire' : i + 1 \in DOMAIN wire /\ wire'[i] = wire[i + 1]
    BY <1>1, HeadTail
  <2>2. wire' \in Seq(Messages)
    BY <1>1, HeadTail
  <2> QED  BY <1>2, <2>1, <2>2
<1>7. /\ asked' \in Seq(Requests)
      /\ \/ asked' = asked /\ ~(peer = "open" /\ ~torn /\ ~choking)
         \/ /\ asked' = Append(asked, <<"block", n>>)
            /\ Count(asked', Answers) = Count(asked, Answers) + 1
            /\ Count(asked', OwnOf(n)) = Count(asked, OwnOf(n)) + 1
  BY <1>1, <1>3, <1>4, RequestCounts
<1> HIDE DEF n
<1>n. n = Current + 1
  BY DEF n
<1>8. Count(wire', OwnOf(n)) = 0
  <2>1. \A i \in DOMAIN wire' : wire'[i] \in Messages
    BY <1>6
  <2>2. \A i \in DOMAIN wire' : wire'[i] \notin OwnOf(n)
    <3> SUFFICES ASSUME NEW i \in DOMAIN wire', wire'[i] \in OwnOf(n) PROVE FALSE
      OBVIOUS
    <3>1. wire'[i][1] \in AnswerKinds /\ wire'[i][2] = n
      BY <2>1, AnswerSets
    <3> QED  BY <1>4, <1>6, <1>n, <3>1
  <2> QED  BY <1>6, <2>2, CountNone
<1>9. Count(asked, OwnOf(n)) = 0
  <2>1. \A i \in DOMAIN asked : asked[i] \in Messages
    BY <1>1, MessageTypes
  <2>2. \A i \in DOMAIN asked : asked[i] \notin OwnOf(n)
    <3> SUFFICES ASSUME NEW i \in DOMAIN asked, asked[i] \in OwnOf(n) PROVE FALSE
      OBVIOUS
    <3>1. asked[i][2] = n
      BY <2>1, AnswerSets
    <3> QED  BY <1>2, <1>4, <1>n, <3>1
  <2> QED  BY <1>1, <2>2, CountNone
<1> DEFINE w == Count(wire, Answers)
           v == Count(wire', Answers)
           a == Count(asked, Answers)
           b == Count(asked', Answers)
           o == Count(asked', OwnOf(n))
           d == Due'
           e == OwnDue'
<1>10. w \in Nat /\ v \in Nat /\ a \in Nat /\ w = v + 1
  <2>1. Head(wire) \in Answers
    BY <1>1, AnswerSets DEF Own, OwnOf, Answers, AnswerKinds
  <2>2. Count(asked, Answers) \in Nat
    BY <1>1, DueTypes
  <2> QED  BY <1>1, <2>1, <2>2, ReadCounts
<1>11. Due = w + a /\ Due \in Nat /\ OwnDue \in Nat
  <2>1. Count(wire, Own) \in Nat /\ Count(asked, Own) \in Nat
    BY <1>1, DueTypes
  <2> QED  BY <1>10, <2>1 DEF Due, OwnDue
<1>12. \/ b = a /\ o = 0 /\ ~(peer = "open" /\ ~choking)
       \/ b = a + 1 /\ o = 1
  BY <1>7, <1>9
<1>13. d = v + b /\ e = 0 + o
  BY <1>5, <1>8 DEF Due, OwnDue
<1>14. \A i \in DOMAIN asked' : asked'[i][1] = "block" /\ asked'[i][2] <= n
  <2>1. CASE asked' = asked
    BY <1>1, <1>2, <1>4, <1>n, <2>1, MessageTypes, SMTT(30)
  <2>2. CASE asked' = Append(asked, <<"block", n>>)
    <3>1. <<"block", n>> \in Requests
      BY <1>4 DEF Requests
    <3>2. \A i \in DOMAIN asked' : \/ i \in DOMAIN asked /\ asked'[i] = asked[i]
                                   \/ asked'[i] = <<"block", n>>
      BY <1>1, <2>2, <3>1, Appended
    <3>3. \A i \in DOMAIN asked : asked[i][2] \in Int
      BY <1>1, MessageTypes
    <3> QED  BY <1>2, <1>4, <1>n, <3>2, <3>3
  <2> QED  BY <1>7, <2>1, <2>2
<1>15. \A i \in DOMAIN wire' : wire'[i][1] \in AnswerKinds => wire'[i][2] <= n
  <2>1. \A i \in DOMAIN wire' : wire'[i][2] \in Int
    BY <1>6, MessageTypes
  <2> QED  BY <1>4, <1>6, <1>n, <2>1
<1>16. (peer = "open" => choking \/ o = 1) /\ Count(wire', Unchokes) \in Nat
  BY <1>6, <1>12, CountIsNat
<1>u. peer = "open" => choking \/ Count(wire', Unchokes) + e >= 1
  <2> DEFINE u == Count(wire', Unchokes)
  <2>1. u \in Nat
    BY <1>16
  <2> HIDE DEF u, o, e
  <2>2. o = 1 => u + e >= 1
    BY <1>13, <2>1
  <2> QED  BY <1>16, <2>2 DEF u
<1> HIDE DEF w, v, a, b, o, d, e
<1>17. d - e <= faults /\ e <= 1
  BY <1>1, <1>2, <1>10, <1>11, <1>12, <1>13, SMTT(30)
<1>18. d \in Nat /\ e \in Nat
  BY <1>10, <1>12, <1>13
<1>19. (d - e) + attempts' <= faults /\ e <= attempts' + 1
  BY <1>1, <1>3, <1>17, <1>18
<1> QED  BY <1>5, <1>14, <1>15, <1>u, <1>19 DEF LagInv, d, e

\* The last attempt that fails has BlockRetries faults behind it.
LEMMA LoseCause ==
  ASSUME TypeInv, LagInv, phase = "blocks", ~torn, ~refused,
         LoseAttempt, data' = data,
         wire' \in Seq(Messages), faults' \in Nat,
         UNCHANGED <<peer, choking>>,
         \A i \in DOMAIN wire' : \E j \in DOMAIN wire : wire'[i] = wire[j],
         Count(wire', Own) = Count(wire, Own),
         (Count(wire', Answers) - Count(wire', Own))
           + (Count(asked, Answers) - Count(asked, Own)) + attempts + 1 <= faults'
  PROVE  LagInv' /\ (phase' = "failed" => faults' >= BlockRetries)
<1>1. CASE attempts = BlockRetries - 1
  <2>1. phase' = "failed"
    BY <1>1 DEF LoseAttempt
  <2>2. QueueTypes /\ Current \in 1 .. NumBlocks /\ asked \in Seq(Requests)
    BY BlockTypes DEF QueueTypes
  <2> DEFINE w == Count(wire', Answers)
             o == Count(wire', Own)
             a == Count(asked, Answers)
             b == Count(asked, Own)
  <2>3. w \in Nat /\ o \in Nat /\ o <= w
    <3>1. Own \subseteq Answers
      BY <2>2, AnswerSets DEF Own
    <3> QED  BY <3>1, CountIsNat, CountLess
  <2>4. a \in Nat /\ b \in Nat /\ b <= a
    BY <2>2, DueTypes
  <2>5. (w - o) + (a - b) + attempts + 1 <= faults'
    OBVIOUS
  <2> HIDE DEF w, o, a, b
  <2>6. faults' >= BlockRetries
    BY <1>1, <2>3, <2>4, <2>5, Numbers
  <2> QED  BY <2>1, <2>6 DEF LagInv
<1>2. CASE attempts # BlockRetries - 1
  <2>1. phase' = "blocks"
    BY <1>2 DEF LoseAttempt
  <2> QED  BY <2>1, LoseLag
<1> QED  BY <1>1, <1>2

LEMMA LagRead ==
  ASSUME TypeInv, LagInv, WaitInv, phase = "blocks", ~torn, ~refused, ReceiveBlock
  PROVE  LagInv' /\ (phase' = "failed" => faults' >= BlockRetries)
<1>1. /\ QueueTypes
      /\ wire \in Seq(Messages)
      /\ asked \in Seq(Requests)
      /\ Current \in 1 .. NumBlocks
      /\ Current \in Int
      /\ attempts \in Nat
      /\ faults \in Nat
  BY BlockTypes
<1>2. UNCHANGED <<goal, torn, peer, choking>>
  BY DEF ReceiveBlock, remote
<1>3. PICK m \in Incoming :
        /\ Take(m)
        /\ \/ /\ m[1] \in {"aux", "bits"}
              /\ UNCHANGED <<phase, attempts, data, asked, history>>
           \/ /\ m = <<"block", Current>>
              /\ NextBlock(m[2])
              /\ UNCHANGED history
           \/ /\ m = <<"bad", Current>>
              /\ phase' = "failed"
              /\ UNCHANGED <<attempts, data, asked, history>>
           \/ /\ m[1] \in {"block", "bad"}
              /\ m[2] # Current
              /\ LoseAttempt
              /\ UNCHANGED <<data, history>>
           \/ /\ m[1] \notin {"aux", "bits", "block", "bad"}
              /\ LoseAttempt
              /\ faults' = faults + 1
              /\ UNCHANGED <<data, refused>>
  BY DEF ReceiveBlock
<1>4. /\ wire # <<>> /\ m = Head(wire) /\ m \in Messages /\ wire' = Tail(wire)
  BY <1>1, <1>3, WireReads
<1>5. /\ wire' \in Seq(Messages)
      /\ \A i \in DOMAIN wire' : \E j \in DOMAIN wire : wire'[i] = wire[j]
  BY <1>1, <1>4, ReadCounts
<1> DEFINE w == Count(wire, Answers)
           v == Count(wire', Answers)
           x == Count(wire, Own)
           y == Count(wire', Own)
           a == Count(asked, Answers)
           b == Count(asked, Own)
<1>6. /\ w \in Nat /\ v \in Nat /\ x \in Nat /\ y \in Nat /\ a \in Nat /\ b \in Nat
      /\ m \in Answers => w = v + 1
      /\ m \notin Answers => w = v
      /\ m \notin Own => x = y
  <2>1. a \in Nat /\ b \in Nat
    BY <1>1, DueTypes
  <2> QED  BY <1>1, <1>4, <2>1, ReadCounts
<1>7. /\ \A i \in DOMAIN wire : wire[i][1] \in AnswerKinds => wire[i][2] <= Current
      /\ \A i \in DOMAIN asked : asked[i][1] = "block" /\ asked[i][2] <= Current
      /\ ((w + a) - (x + b)) + attempts <= faults
      /\ x + b <= attempts + 1
      /\ peer = "open" => choking \/ Count(wire, Unchokes) + OwnDue >= 1
  BY DEF LagInv, Due, OwnDue
<1>8. /\ m \in Answers <=> m[1] \in {"block", "bad"}
      /\ m \in Own <=> m[1] \in {"block", "bad"} /\ m[2] = Current
      /\ m[1] \in {"aux", "bits"} => m \notin Unchokes
  <2>1. m \in Unchokes => m[1] = "unchoke"
    BY <1>4, AnswerSets
  <2>2. m \in Answers <=> m[1] \in {"block", "bad"}
    BY <1>4, AnswerSets DEF AnswerKinds
  <2>3. m \in Own <=> m[1] \in {"block", "bad"} /\ m[2] = Current
    BY <1>4, AnswerSets DEF AnswerKinds, Own
  <2> QED  BY <2>1, <2>2, <2>3
<1>9. CASE m[1] \in {"aux", "bits"} /\ UNCHANGED <<phase, attempts, data, asked, history>>
  <2>1. /\ Current' = Current /\ Own' = Own
        /\ UNCHANGED <<attempts, data, faults, asked>>
    BY <1>9 DEF Current, Own, history
  <2>2. m \notin Answers /\ m \notin Own
    BY <1>8, <1>9
  <2>3. v = w /\ y = x
    BY <1>6, <2>2
  <2>4. Due' = Due /\ OwnDue' = OwnDue /\ Due = w + a /\ OwnDue = x + b
    BY <2>1, <2>3 DEF Due, OwnDue
  <2>5. Count(wire', Unchokes) = Count(wire, Unchokes)
    BY <1>1, <1>4, <1>8, <1>9, ReadCounts
  <2>6. \A i \in DOMAIN wire' : wire'[i][1] \in AnswerKinds => wire'[i][2] <= Current
    BY <1>5, <1>7
  <2>7. peer' = "open" => choking' \/ Count(wire', Unchokes) + OwnDue >= 1
    BY <1>2, <1>7, <2>5
  <2> HIDE DEF w, v, x, y, a, b
  <2> DEFINE d == Due
             o == OwnDue
  <2>8. d \in Nat /\ o \in Nat
    BY <1>6, <2>4
  <2>9. Due' = d /\ OwnDue' = o /\ Due = d /\ OwnDue = o
    BY <2>4
  <2> HIDE DEF d, o
  <2>10. d - o <= Due - OwnDue /\ o <= OwnDue
    BY <2>8, <2>9
  <2>11. peer' = "open" => choking' \/ Count(wire', Unchokes) + o >= 1
    BY <2>7 DEF o
  <2>12. \A i \in DOMAIN asked' : asked'[i][1] = "block" /\ asked'[i][2] <= Current
    BY <1>7, <2>1
  <2>13. LagInv'
    BY <2>1, <2>6, <2>8, <2>9, <2>10, <2>11, <2>12, LagKept
  <2> QED  BY <1>9, <2>13
<1>10. CASE m = <<"block", Current>> /\ NextBlock(m[2]) /\ UNCHANGED history
  <2>1. m[2] = Current /\ UNCHANGED <<peer, choking, faults>>
    BY <1>2, <1>10 DEF history
  <2>2. phase' \in {"blocks", "done"}
    BY <1>10 DEF NextBlock
  <2>3. phase' = "blocks" => LagInv'
    BY <1>4, <1>10, <2>1, LagNext
  <2> QED  BY <2>2, <2>3 DEF LagInv
<1>11. CASE m = <<"bad", Current>>
  <2>1. m = wire[1] /\ 1 \in DOMAIN wire
    BY <1>1, <1>4, HeadTail
  <2> QED  BY <1>11, <2>1 DEF WaitInv, BadInv
<1>12. CASE /\ m[1] \in {"block", "bad"}
            /\ m[2] # Current
            /\ LoseAttempt
            /\ UNCHANGED <<data, history>>
  <2>1. m \in Answers /\ m \notin Own
    BY <1>8, <1>12
  <2>2. faults' = faults /\ data' = data
    BY <1>12 DEF history
  <2>3. w = v + 1 /\ x = y
    BY <1>6, <2>1
  <2>4. Count(wire', Own) = Count(wire, Own)
    BY <2>3
  <2> HIDE DEF w, v, x, y, a, b
  <2>5. (v - y) + (a - b) + attempts + 1 <= faults'
    BY <1>1, <1>6, <1>7, <2>2, <2>3
  <2>6. (Count(wire', Answers) - Count(wire', Own))
          + (Count(asked, Answers) - Count(asked, Own)) + attempts + 1 <= faults'
    BY <2>5 DEF v, y, a, b
  <2> QED  BY <1>1, <1>2, <1>5, <1>12, <2>2, <2>4, <2>6, LoseCause
<1>13. CASE /\ m[1] \notin {"aux", "bits", "block", "bad"}
            /\ LoseAttempt
            /\ faults' = faults + 1
            /\ UNCHANGED <<data, refused>>
  <2>1. m \notin Answers /\ m \notin Own
    BY <1>8, <1>13
  <2>2. faults' = faults + 1 /\ data' = data /\ faults' \in Nat
    BY <1>1, <1>13
  <2>3. w = v /\ x = y
    BY <1>6, <2>1
  <2>4. Count(wire', Own) = Count(wire, Own)
    BY <2>3
  <2> HIDE DEF w, v, x, y, a, b
  <2>5. (v - y) + (a - b) + attempts + 1 <= faults'
    BY <1>1, <1>6, <1>7, <2>2, <2>3
  <2>6. (Count(wire', Answers) - Count(wire', Own))
          + (Count(asked, Answers) - Count(asked, Own)) + attempts + 1 <= faults'
    BY <2>5 DEF v, y, a, b
  <2> QED  BY <1>2, <1>5, <1>13, <2>2, <2>4, <2>6, LoseCause
<1> QED  BY <1>3, <1>9, <1>10, <1>11, <1>12, <1>13

LEMMA LagTimeout ==
  ASSUME TypeInv, LagInv, phase = "blocks", ~torn, ~refused, BlockTimeout, ~torn'
  PROVE  LagInv' /\ (phase' = "failed" => faults' >= BlockRetries)
<1>1. /\ QueueTypes
      /\ wire \in Seq(Messages)
      /\ asked \in Seq(Requests)
      /\ Current \in 1 .. NumBlocks
      /\ attempts \in Nat
      /\ faults \in Nat
  BY BlockTypes
<1>2. /\ wire' = wire
      /\ LoseAttempt
      /\ UNCHANGED <<data, peer, choking>>
  BY DEF BlockTimeout, remote
<1> DEFINE w == Count(wire, Answers)
           x == Count(wire, Own)
           u == Count(wire, Unchokes)
           a == Count(asked, Answers)
           b == Count(asked, Own)
<1>3. w \in Nat /\ x \in Nat /\ u \in Nat /\ a \in Nat /\ b \in Nat
  BY <1>1, DueTypes
<1>4. /\ ((w + a) - (x + b)) + attempts <= faults
      /\ peer = "open" => choking \/ u + (x + b) >= 1
  BY DEF LagInv, Due, OwnDue
<1>5. wire = <<>> => x = 0 /\ u = 0
  <2>1. wire = <<>> => \A i \in DOMAIN wire : FALSE
    OBVIOUS
  <2> QED  BY <1>1, <2>1, CountNone
<1>6. asked = <<>> => b = 0
  <2>1. asked = <<>> => \A i \in DOMAIN asked : FALSE
    OBVIOUS
  <2> QED  BY <1>1, <2>1, CountNone
<1>7. Owes
  <2>1. CASE peer = "open" /\ ~choking
    <3>1. u + (x + b) >= 1
      BY <1>4, <2>1
    <3> HIDE DEF u, x, b
    <3>2. wire # <<>> \/ asked # <<>>
      BY <1>5, <1>6, <3>1
    <3> QED  BY <3>2 DEF Owes
  <2>2. CASE ~(peer = "open" /\ ~choking)
    BY <2>2 DEF Owes, BlockTimeout
  <2> QED  BY <2>1, <2>2
<1>8. faults' = faults + 1 /\ faults' \in Nat
  BY <1>1, <1>7 DEF BlockTimeout
<1>9. \A i \in DOMAIN wire' : \E j \in DOMAIN wire : wire'[i] = wire[j]
  BY <1>2
<1>10. Count(wire', Own) = x /\ Count(wire', Answers) = w
  BY <1>2
<1> HIDE DEF w, x, u, a, b
<1>11. (w - x) + (a - b) + attempts + 1 <= faults'
  BY <1>1, <1>3, <1>4, <1>8
<1>12. (Count(wire', Answers) - Count(wire', Own))
         + (Count(asked, Answers) - Count(asked, Own)) + attempts + 1 <= faults'
  BY <1>10, <1>11 DEF a, b
<1>13. Count(wire', Own) = Count(wire, Own)
  BY <1>10 DEF x
<1> QED  BY <1>1, <1>2, <1>8, <1>9, <1>12, <1>13, LoseCause

\* Refusals and cuts are never forgotten.
LEMMA Lasting ==
  [Next]_vars => (refused => refused') /\ (torn => torn')
<1> SUFFICES ASSUME [Next]_vars PROVE (refused => refused') /\ (torn => torn')
  OBVIOUS
<1>1. CASE Handshake \/ HandshakeFails \/ ReceiveExtension \/ Defer
  BY <1>1 DEF Handshake, HandshakeFails, ReceiveExtension, Defer, history
<1>2. CASE ReceiveBitfield \/ ReceiveUnchoke \/ ReceiveMetadata
  BY <1>2 DEF ReceiveBitfield, ReceiveUnchoke, ReceiveMetadata, history
<1>3. CASE ReceiveBlock \/ BlockTimeout \/ ReadTorn
  BY <1>3 DEF ReceiveBlock, BlockTimeout, ReadTorn, history
<1>4. CASE ReadTimeout \/ ConnectionLost
  <2>1. refused' = TRUE \/ refused' = (refused \/ Owes)
    BY <1>4 DEF ReadTimeout, ConnectionLost
  <2>2. torn' = torn
    BY <1>4 DEF ReadTimeout, ConnectionLost
  <2> QED  BY <2>1, <2>2
<1>5. CASE Greet
  <2>1. \E g : refused' = (refused \/ ~Suits(g))
    BY <1>5 DEF Greet
  <2>2. torn' = torn
    BY <1>5 DEF Greet, client
  <2> QED  BY <2>1, <2>2
<1>a. CASE Answer
  BY <1>a DEF Answer, client
<1>6. CASE Chat \/ Choke \/ Unchoke \/ HangUp
  BY <1>6 DEF Chat, Choke, Unchoke, HangUp, client, history
<1>7. CASE UNCHANGED vars
  BY <1>7 DEF vars, client, history
<1> QED
  BY <1>1, <1>2, <1>3, <1>4, <1>5, <1>a, <1>6, <1>7 DEF Next, Client, Remote

LEMMA LagStep == TypeInv /\ LagInv /\ WaitInv /\ [Next]_vars => LagInv'
<1> SUFFICES ASSUME TypeInv, LagInv, WaitInv, [Next]_vars,
                    phase' = "blocks", ~torn', ~refused'
             PROVE  LagInv'
  BY DEF LagInv
<1>1. ~torn /\ ~refused
  BY Lasting
<1>2. CASE ReceiveUnchoke
  BY <1>1, <1>2, LagEnter
<1>3. CASE ReceiveBlock
  <2>1. phase = "blocks"
    BY <1>3 DEF ReceiveBlock
  <2> QED  BY <1>1, <1>3, <2>1, LagRead
<1>4. CASE BlockTimeout
  <2>1. phase = "blocks"
    BY <1>4 DEF BlockTimeout
  <2> QED  BY <1>1, <1>4, <2>1, LagTimeout
<1>5. CASE Remote
  <2>1. phase = "blocks"
    BY <1>5 DEF Remote, Greet, Answer, Chat, Choke, Unchoke, HangUp, client
  <2>2. ~Greet
    BY <2>1 DEF TypeInv, PhaseInv, Greet
  <2> QED  BY <1>1, <1>5, <2>1, <2>2, LagAnswer, LagTalk DEF Remote
<1>6. CASE UNCHANGED vars
  <2>1. /\ UNCHANGED <<phase, attempts, data, torn, refused, faults, wire, asked>>
        /\ UNCHANGED <<peer, choking>>
    BY <1>6 DEF vars, client, remote, history
  <2>2. Current' = Current /\ Own' = Own /\ Due' = Due /\ OwnDue' = OwnDue
    BY <2>1 DEF Current, Own, Due, OwnDue
  <2> QED  BY <2>1, <2>2 DEF LagInv
<1>7. CASE ReadTorn \/ ConnectionLost
  BY <1>1, <1>7 DEF ReadTorn, ConnectionLost
<1>8. CASE \/ Handshake \/ HandshakeFails \/ ReceiveExtension \/ Defer
           \/ ReceiveBitfield \/ ReceiveMetadata \/ ReadTimeout
  BY <1>8 DEF Handshake, HandshakeFails, ReceiveExtension, Defer,
              ReceiveBitfield, ReceiveMetadata, ReadTimeout, Proceed
<1> QED
  BY <1>2, <1>3, <1>4, <1>5, <1>6, <1>7, <1>8 DEF Next, Client

-----------------------------------------------------------------------------
(* What is on the wire, and what the client waits for *)

\* Where the messages on the wire come from.
LEMMA OldMessages ==
  ASSUME TypeInv, [Next]_vars, ~Greet, ~Answer, NEW i \in DOMAIN wire'
  PROVE  \/ \E j \in DOMAIN wire : wire'[i] = wire[j]
         \/ wire'[i] \in {<<"aux", 0>>, <<"other", 0>>, <<"unchoke", 0>>}
<1>1. wire \in Seq(Messages) /\ pending \in Seq(Messages) /\ QueueTypes
  BY DEF TypeInv, TypeOK, QueueTypes
<1>2. wire' = Tail(wire) /\ wire # <<>> => \E j \in DOMAIN wire : wire'[i] = wire[j]
  BY <1>1, HeadTail
<1>3. \A m \in {<<"aux", 0>>, <<"other", 0>>, <<"unchoke", 0>>} :
        wire' = Append(wire, m) =>
          (\E j \in DOMAIN wire : wire'[i] = wire[j]) \/ wire'[i] = m
  <2>1. \A m \in {<<"aux", 0>>, <<"other", 0>>, <<"unchoke", 0>>} : m \in Messages
    BY MessageTypes DEF Kinds
  <2> QED  BY <1>1, <2>1, Appended
<1>4. wire' = wire => \E j \in DOMAIN wire : wire'[i] = wire[j]
  OBVIOUS
<1>5. wire' # <<>>
  OBVIOUS
<1>6. CASE Handshake \/ HandshakeFails
  BY <1>2, <1>4, <1>6 DEF Handshake, HandshakeFails
<1>7. CASE \/ ReceiveExtension \/ ReceiveBitfield \/ ReceiveUnchoke
           \/ ReceiveBlock \/ ReceiveMetadata
  <2>1. PICK m \in Incoming : Take(m)
    BY <1>7 DEF ReceiveExtension, ReceiveBitfield, ReceiveUnchoke,
                ReceiveBlock, ReceiveMetadata
  <2>2. wire' = wire \/ (wire # <<>> /\ wire' = Tail(wire))
    BY <1>1, <2>1, TakeTypes
  <2> QED  BY <1>2, <1>4, <2>2
<1>8. CASE Defer
  <2>1. wire' = wire \/ (wire # <<>> /\ wire' = Tail(wire))
    BY <1>8 DEF Defer, Incoming
  <2> QED  BY <1>2, <1>4, <2>1
<1>9. CASE BlockTimeout \/ ReadTorn \/ ReadTimeout \/ ConnectionLost
  BY <1>4, <1>5, <1>9 DEF BlockTimeout, ReadTorn, ReadTimeout, ConnectionLost
<1>10. CASE Chat \/ Choke \/ Unchoke
  BY <1>3, <1>10 DEF Chat, Choke, Unchoke
<1>11. CASE HangUp \/ UNCHANGED vars
  BY <1>4, <1>11 DEF HangUp, vars
<1> QED
  BY <1>6, <1>7, <1>8, <1>9, <1>10, <1>11 DEF Next, Client, Remote

LEMMA GreetingKinds ==
  ASSUME NEW g \in Greetings, NEW i \in DOMAIN g
  PROVE  g[i][1] \in {"hello", "ext0", "bits"}
  BY ConnectionAssumption DEF ConnectionAssumption

\* An answer is that of the oldest request or a refusal.
LEMMA Answered ==
  ASSUME TypeInv, Answer, NEW i \in DOMAIN wire'
  PROVE  \/ \E j \in DOMAIN wire : wire'[i] = wire[j]
         \/ wire'[i] = Head(asked) /\ wire'[i][1] \in {"block", "data"}
         \/ wire'[i][1] = "bad" /\ refused'
<1>1. wire \in Seq(Messages) /\ asked \in Seq(Requests) /\ asked # <<>>
  BY DEF TypeInv, TypeOK, QueueTypes, Answer
<1>2. /\ Head(asked) \in Messages
      /\ Head(asked)[1] \in {"block", "data"}
      /\ <<"bad", Head(asked)[2]>> \in Messages
  <2>1. Head(asked) \in Requests
    BY <1>1, HeadTail
  <2>2. Head(asked)[1] \in {"block", "data"}
    BY <2>1 DEF Requests
  <2> QED  BY <2>1, <2>2, MessageTypes DEF Kinds
<1>3. PICK m \in {Head(asked), <<"bad", Head(asked)[2]>>} :
        wire' = Append(wire, m) /\ (m = Head(asked) \/ refused')
  BY DEF Answer
<1>4. (i \in DOMAIN wire /\ wire'[i] = wire[i]) \/ wire'[i] = m
  BY <1>1, <1>2, <1>3, Appended
<1> QED  BY <1>2, <1>3, <1>4

LEMMA EarlyStep == TypeInv /\ EarlyInv /\ [Next]_vars => EarlyInv'
<1> DEFINE Early == {"greet", "extension", "bitfield", "unchoke"}
<1> SUFFICES ASSUME TypeInv, EarlyInv, [Next]_vars, phase' \in Early,
                    NEW i \in DOMAIN wire'
             PROVE  wire'[i][1] \notin AnswerKinds
  BY DEF EarlyInv
<1>1. CASE Greet
  <2>1. wire' \in Greetings
    BY <1>1 DEF Greet
  <2> QED  BY <2>1, GreetingKinds DEF AnswerKinds
<1>2. CASE Answer
  BY <1>2 DEF Answer, client, TypeInv, PhaseInv
<1>3. CASE ~Greet /\ ~Answer
  <2>1. phase \in Early
    <3>1. CASE Handshake \/ HandshakeFails \/ ReceiveExtension \/ Defer
               \/ ReceiveBitfield \/ ReceiveUnchoke \/ ReadTimeout
      BY <3>1 DEF Handshake, HandshakeFails, ReceiveExtension, Defer,
                  ReceiveBitfield, ReceiveUnchoke, ReadTimeout
    <3>2. CASE ReceiveBlock \/ BlockTimeout \/ ReadTorn \/ ReceiveMetadata
      BY <3>2 DEF ReceiveBlock, BlockTimeout, ReadTorn, ReceiveMetadata,
                  NextBlock, LoseAttempt
    <3>3. CASE ConnectionLost
      BY <3>3 DEF ConnectionLost, LoseAttempt
    <3>4. CASE Remote \/ UNCHANGED vars
      BY <3>4 DEF Remote, Greet, Answer, Chat, Choke, Unchoke, HangUp, vars, client
    <3> QED  BY <3>1, <3>2, <3>3, <3>4 DEF Next, Client
  <2>2. \A j \in DOMAIN wire : wire[j][1] \notin AnswerKinds
    BY <2>1 DEF EarlyInv
  <2> QED  BY <1>3, <2>2, OldMessages DEF AnswerKinds
<1> QED  BY <1>1, <1>2, <1>3

LEMMA BadStep == TypeInv /\ BadInv /\ [Next]_vars => BadInv'
<1> SUFFICES ASSUME TypeInv, BadInv, [Next]_vars, ~refused', NEW i \in DOMAIN wire'
             PROVE  wire'[i][1] # "bad"
  BY DEF BadInv
<1>0. \A j \in DOMAIN wire : wire[j][1] # "bad"
  BY Lasting DEF BadInv
<1>1. CASE Greet
  <2>1. wire' \in Greetings
    BY <1>1 DEF Greet
  <2> QED  BY <2>1, GreetingKinds
<1>2. CASE Answer
  BY <1>0, <1>2, Answered
<1>3. CASE ~Greet /\ ~Answer
  BY <1>0, <1>3, OldMessages
<1> QED  BY <1>1, <1>2, <1>3

LEMMA ChokeStep == TypeInv /\ ChokeInv /\ [Next]_vars => ChokeInv'
<1> SUFFICES ASSUME TypeInv, ChokeInv, [Next]_vars, ~choking'
             PROVE  /\ phase' \in {"unchoke", "blocks"} \union Ended
                    /\ phase' = "unchoke" => Count(wire', Unchokes) >= 1
  BY DEF ChokeInv
<1> DEFINE Open == {"unchoke", "blocks"} \union Ended
<1>0. /\ QueueTypes /\ wire \in Seq(Messages)
      /\ peer = "silent" => phase = "greet"
      /\ ~choking => phase \in Open
      /\ phase = "unchoke" /\ ~choking => Count(wire, Unchokes) >= 1
      /\ phase = "unchoke" => asked = <<>>
      /\ Count(wire, Unchokes) \in Nat
  <2>1. wire \in Seq(Messages)
    BY DEF TypeInv, TypeOK, QueueTypes
  <2> QED  BY <2>1, CountIsNat DEF TypeInv, TypeOK, QueueTypes, PhaseInv, ChokeInv
<1>1. CASE Unchoke
  <2>1. phase' \in {"unchoke", "blocks"} /\ wire' = Append(wire, <<"unchoke", 0>>)
    BY <1>1 DEF Unchoke, client
  <2>2. <<"unchoke", 0>> \in Messages /\ <<"unchoke", 0>> \in Unchokes
    BY MessageTypes DEF Kinds, Unchokes
  <2>3. Count(wire', Unchokes) = Count(wire, Unchokes) + 1
    BY <1>0, <2>1, <2>2, CountAppend
  <2> DEFINE u == Count(wire, Unchokes)
  <2>4. u \in Nat
    BY <1>0
  <2> HIDE DEF u
  <2>5. u + 1 >= 1
    BY <2>4
  <2> QED  BY <2>1, <2>3, <2>5 DEF u
<1>2. CASE Chat
  <2>1. /\ UNCHANGED <<choking, phase>>
        /\ \E kind \in {"aux", "other"} : wire' = Append(wire, <<kind, 0>>)
    BY <1>2 DEF Chat, client
  <2>2. \A kind \in {"aux", "other"} :
          <<kind, 0>> \in Messages /\ <<kind, 0>> \notin Unchokes
    BY MessageTypes DEF Kinds, Unchokes
  <2>3. Count(wire', Unchokes) = Count(wire, Unchokes)
    BY <1>0, <2>1, <2>2, CountAppend
  <2> QED  BY <1>0, <2>1, <2>3
<1>3. CASE Choke
  BY <1>3 DEF Choke
<1>4. CASE HangUp \/ UNCHANGED vars
  <2>1. UNCHANGED <<choking, phase, wire>>
    BY <1>4 DEF HangUp, vars, client, remote
  <2> QED  BY <1>0, <2>1
<1>5. CASE Answer \/ Greet
  <2>1. UNCHANGED <<choking, phase>>
    BY <1>5 DEF Answer, Greet, client, remote
  <2>2. phase # "unchoke"
    BY <1>0, <1>5 DEF Answer, Greet
  <2> QED  BY <1>0, <2>1, <2>2
<1>6. CASE ReceiveUnchoke
  <2>1. phase = "unchoke" /\ choking' = choking
    BY <1>6 DEF ReceiveUnchoke, remote
  <2>2. PICK m \in Incoming :
          /\ Take(m)
          /\ \/ m[1] \in {"aux", "bits"} /\ phase' = phase
             \/ phase' = "blocks"
             \/ phase' = "failed"
    BY <1>6 DEF ReceiveUnchoke
  <2>3. CASE m[1] \in {"aux", "bits"} /\ phase' = phase
    <3>1. m \in Messages /\ wire # <<>> /\ m = Head(wire) /\ wire' = Tail(wire)
      BY <1>0, <2>1, <2>2, WireReads
    <3>2. m \notin Unchokes
      BY <2>3, <3>1, AnswerSets
    <3>3. Count(wire', Unchokes) = Count(wire, Unchokes)
      BY <1>0, <3>1, <3>2, ReadCounts
    <3> QED  BY <1>0, <2>1, <2>3, <3>3
  <2> QED  BY <2>2, <2>3 DEF Ended
<1>7. CASE ReceiveBlock \/ BlockTimeout \/ ReadTorn
  BY <1>7 DEF ReceiveBlock, BlockTimeout, ReadTorn, NextBlock, LoseAttempt, Ended
<1>8. CASE ReadTimeout
  BY <1>8 DEF ReadTimeout, Ended
<1>9. CASE ConnectionLost
  BY <1>0, <1>9 DEF ConnectionLost, LoseAttempt, Ended
<1>10. CASE \/ Handshake \/ HandshakeFails \/ ReceiveExtension \/ Defer
            \/ ReceiveBitfield \/ ReceiveMetadata
  <2>1. choking' = choking /\ phase \notin Open
    BY <1>10 DEF Handshake, HandshakeFails, ReceiveExtension, Defer,
                 ReceiveBitfield, ReceiveMetadata, remote, Ended
  <2> QED  BY <1>0, <2>1
<1> QED  BY <1>1, <1>2, <1>3, <1>4, <1>5, <1>6, <1>7, <1>8, <1>9, <1>10
         DEF Next, Client, Remote

LEMMA MetadataStep ==
  TypeInv /\ DataInv /\ ChokeInv /\ IdInv /\ [Next]_vars => DataInv'
<1> SUFFICES ASSUME TypeInv, DataInv, ChokeInv, IdInv, [Next]_vars PROVE DataInv'
  OBVIOUS
<1> SUFFICES ASSUME phase' = "metadata", ~(peer' = "closed"), ~refused'
             PROVE  \/ \E i \in DOMAIN wire' : wire'[i] = <<"data", Current'>>
                    \/ \E i \in DOMAIN asked' : asked'[i] = <<"data", Current'>>
  BY DEF DataInv
<1>0. /\ QueueTypes /\ wire \in Seq(Messages) /\ asked \in Seq(Requests)
      /\ data \in Seq(0 .. NumBlocks)
      /\ peer \in {"silent", "open", "closed"}
      /\ peer = "silent" => phase = "greet"
      /\ torn => phase \in {"blocks"} \union Ended
      /\ phase \in {"greet", "extension"} => data = <<>> /\ asked = <<>>
      /\ phase = "metadata" => choking /\ (~refused => theirId = OwnId)
      /\ <<"data", 1>> \in Requests
  BY Numbers, SMTT(30) DEF TypeInv, TypeOK, ScalarTypes, QueueTypes, DataTypes, PhaseInv,
                 ChokeInv, IdInv, Ended, Requests
<1>1. ~refused
  BY Lasting
<1>2. CASE ReceiveExtension
  <2>1. Proceed(Head(wire)[2]) /\ phase = "extension"
    BY <1>0, <1>2, ExtensionReads DEF ReceiveExtension, TypeInv
  <2>2. Request(<<"data", 1>>)
    BY <2>1 DEF Proceed
  <2>3. peer = "open" /\ ~torn /\ data' = data
    BY <1>0, <1>2, <2>1 DEF ReceiveExtension, remote, Ended
  <2>4. asked' = <<<<"data", 1>>>> /\ Current' = 1
    BY <1>0, <2>1, <2>2, <2>3 DEF Request, Current
  <2> QED  BY <2>4
<1>3. CASE phase = "metadata" /\ ReceiveMetadata
  <2>1. PICK m \in Incoming :
          /\ Take(m)
          /\ \/ /\ m = <<"data", Current>>
                /\ data' = Append(data, Current)
                /\ Request(<<"data", Current + 1>>)
             \/ /\ m # <<"data", Current>>
                /\ UNCHANGED <<data, asked>>
    BY <1>0, <1>1, <1>3 DEF ReceiveMetadata
  <2>2. wire # <<>> /\ m = Head(wire) /\ wire' = Tail(wire)
    BY <1>0, <1>3, <2>1, WireReads
  <2>3. peer = "open" /\ ~torn /\ peer' = peer
    BY <1>0, <1>3 DEF ReceiveMetadata, remote, Ended
  <2>4. CASE /\ data' = Append(data, Current)
             /\ Request(<<"data", Current + 1>>)
    <3>1. asked' = Append(asked, <<"data", Current + 1>>)
      BY <2>3, <2>4 DEF Request
    <3>2. asked'[Len(asked) + 1] = <<"data", Current + 1>>
          /\ Len(asked) + 1 \in DOMAIN asked'
      BY <1>0, <3>1
    <3>3. phase \notin Ended
      BY <1>3 DEF Ended
    <3>4. Len(data) + 1 \in 0 .. NumBlocks
      BY <1>0, <3>3, Numbers DEF TypeInv, TypeOK, DataTypes
    <3>5. Current' = Current + 1
      BY <1>0, <2>4, <3>4 DEF Current
    <3> QED  BY <3>2, <3>5
  <2>5. CASE m # <<"data", Current>> /\ UNCHANGED <<data, asked>>
    <3>1. /\ Current' = Current
          /\ \/ \E i \in DOMAIN wire : wire[i] = <<"data", Current>>
             \/ \E i \in DOMAIN asked : asked[i] = <<"data", Current>>
      BY <1>1, <1>3, <2>3, <2>5 DEF DataInv, Current
    <3>2. ASSUME NEW i \in DOMAIN wire, wire[i] = <<"data", Current>>
          PROVE  i - 1 \in DOMAIN wire' /\ wire'[i - 1] = <<"data", Current>>
      BY <1>0, <2>2, <2>5, <3>2, HeadTail
    <3> QED  BY <2>5, <3>1, <3>2
  <2> QED  BY <2>1, <2>4, <2>5
<1>4. CASE phase = "metadata" /\ (Answer \/ Chat)
  <2>1. peer = "open" /\ Current' = Current
    BY <1>4 DEF Answer, Chat, Talks, client, Current
  <2>2. PICK m : /\ wire' = Append(wire, m)
                 /\ \/ asked # <<>> /\ m = Head(asked) /\ asked' = Tail(asked)
                    \/ asked' = asked
    BY <1>1, <1>4 DEF Answer, Chat
  <2>3. \/ \E i \in DOMAIN wire : wire[i] = <<"data", Current>>
        \/ \E i \in DOMAIN asked : asked[i] = <<"data", Current>>
    BY <1>1, <1>4, <2>1 DEF DataInv
  <2>4. /\ \A i \in DOMAIN wire : i \in DOMAIN wire' /\ wire'[i] = wire[i]
        /\ Len(wire) + 1 \in DOMAIN wire'
        /\ wire'[Len(wire) + 1] = m
    BY <1>0, <2>2
  <2>5. asked # <<>> => \A i \in DOMAIN asked :
          asked[i] = Head(asked) \/ (i - 1 \in DOMAIN Tail(asked)
                                     /\ Tail(asked)[i - 1] = asked[i])
    BY <1>0, HeadTail
  <2> QED  BY <2>1, <2>2, <2>3, <2>4, <2>5
<1>5. CASE phase = "metadata" /\ UNCHANGED vars
  <2>1. UNCHANGED <<wire, asked, data, peer>>
    BY <1>5 DEF vars, client, remote
  <2> QED  BY <1>1, <1>5, <2>1 DEF DataInv, Current
<1>6. CASE phase = "metadata" /\ (Greet \/ Choke \/ Unchoke \/ HangUp)
  BY <1>0, <1>6 DEF Greet, Choke, Unchoke, HangUp
<1>7. CASE /\ ~ReceiveExtension
           /\ ~(phase = "metadata" /\ (ReceiveMetadata \/ Remote \/ UNCHANGED vars))
  <2>1. CASE Handshake \/ HandshakeFails \/ Defer \/ ReceiveBitfield \/ ReceiveUnchoke
    BY <2>1 DEF Handshake, HandshakeFails, Defer, ReceiveBitfield,
                ReceiveUnchoke, Proceed
  <2>2. CASE ReceiveBlock \/ BlockTimeout \/ ReadTorn
    BY <2>2 DEF ReceiveBlock, BlockTimeout, ReadTorn, NextBlock, LoseAttempt
  <2>3. CASE ReadTimeout \/ ConnectionLost
    BY <2>3 DEF ReadTimeout, ConnectionLost, LoseAttempt
  <2>4. CASE ReceiveMetadata \/ Remote \/ UNCHANGED vars
    BY <1>7, <2>4 DEF ReceiveMetadata, Remote, Greet, Answer, Chat, Choke,
                      Unchoke, HangUp, vars, client
  <2> QED  BY <1>7, <2>1, <2>2, <2>3, <2>4 DEF Next, Client
<1> QED  BY <1>2, <1>3, <1>4, <1>5, <1>6, <1>7 DEF Remote

LEMMA IdStep ==
  ChooseOwnId /\ TypeInv /\ GreetInv /\ IdInv /\ [Next]_vars => IdInv'
<1> SUFFICES ASSUME ChooseOwnId, TypeInv, GreetInv, IdInv, [Next]_vars PROVE IdInv'
  OBVIOUS
<1>0. /\ wire \in Seq(Messages)
      /\ \A j \in DOMAIN wire : wire[j][1] = "ext0" => wire[j][2] <= OwnId
      /\ phase = "metadata" /\ ~refused => theirId = OwnId
      /\ ~refused' => ~refused
  BY Lasting DEF TypeInv, TypeOK, QueueTypes, IdInv
<1>1. ASSUME NEW i \in DOMAIN wire', wire'[i][1] = "ext0"
      PROVE  wire'[i][2] <= OwnId
  <2>1. CASE Greet
    <3>1. wire' \in Greetings
      BY <2>1 DEF Greet
    <3> QED  BY <1>1, <3>1 DEF ChooseOwnId
  <2>2. CASE Answer
    BY <1>0, <1>1, <2>2, Answered
  <2>3. CASE ~Greet /\ ~Answer
    BY <1>0, <1>1, <2>3, OldMessages
  <2> QED  BY <2>1, <2>2, <2>3
<1>2. ASSUME phase' = "metadata", ~refused' PROVE theirId' = OwnId
  <2>1. CASE ReceiveExtension
    <3>1. /\ Head(wire) \in Messages /\ wire # <<>>
          /\ phase = "extension" /\ pending = <<>>
          /\ Head(wire)[1] = "ext0"
          /\ IF Head(wire)[2] = Unparsable
             THEN phase' = "failed"
             ELSE theirId' = Head(wire)[2] /\ Proceed(Head(wire)[2])
      BY <2>1, ExtensionReads DEF TypeInv, TypeOK, ReceiveExtension
    <3>2. theirId' = Head(wire)[2] /\ goal = "metadata"
      BY <1>2, <3>1 DEF Proceed
    <3>4. Head(wire)[2] > 0
      <4>1. ExtensionAt(1)
        BY <1>0, <1>2, <3>1 DEF GreetInv
      <4>2. Head(wire) = wire[1]
        BY <1>0, <3>1, HeadTail
      <4> QED  BY <3>1, <3>2, <4>1, <4>2 DEF ExtensionAt
    <3>3. Head(wire)[2] <= OwnId /\ Head(wire)[2] \in Int
      <4>1. Head(wire) = wire[1] /\ 1 \in DOMAIN wire
        BY <1>0, <3>1, HeadTail
      <4> QED  BY <1>0, <3>1, <4>1, MessageTypes
    <3> QED  BY <3>2, <3>3, <3>4 DEF OwnId
  <2>2. CASE Handshake \/ HandshakeFails \/ Defer \/ ReceiveBitfield \/ ReceiveUnchoke
    BY <1>2, <2>2 DEF Handshake, HandshakeFails, Defer, ReceiveBitfield,
                      ReceiveUnchoke, Proceed
  <2>3. CASE ReceiveBlock \/ BlockTimeout \/ ReadTorn
    BY <1>2, <2>3 DEF ReceiveBlock, BlockTimeout, ReadTorn, NextBlock, LoseAttempt
  <2>4. CASE ReadTimeout \/ ConnectionLost
    BY <1>2, <2>4 DEF ReadTimeout, ConnectionLost, LoseAttempt
  <2>5. CASE ReceiveMetadata
    BY <1>0, <1>2, <2>5 DEF ReceiveMetadata
  <2>6. CASE Remote \/ UNCHANGED vars
    BY <1>0, <1>2, <2>6 DEF Remote, Greet, Answer, Chat, Choke, Unchoke, HangUp,
                            vars, client
  <2> QED  BY <2>1, <2>2, <2>3, <2>4, <2>5, <2>6 DEF Next, Client
<1> QED  BY <1>1, <1>2 DEF IdInv

-----------------------------------------------------------------------------
(* Greetings that serve the goal *)

LEMMA GreetingRead ==
  ASSUME wire \in Seq(Messages), wire # <<>>, wire' = Tail(wire),
         UNCHANGED <<goal, magnet>>
  PROVE  /\ BitsAt(2) => BitsAt(1)'
         /\ ExtensionAt(2) => ExtensionAt(1)'
<1>1. /\ Len(wire) \in Nat
      /\ Len(wire') = Len(wire) - 1
      /\ \A i \in 1 .. Len(wire) - 1 : wire'[i] = wire[i + 1]
  BY HeadTail
<1>2. \A i \in {1, 2} : Len(wire) >= i + 1 => /\ Len(wire') >= i
                                             /\ wire'[i] = wire[i + 1]
  BY <1>1
<1>3. BitsAt(2) => BitsAt(1)'
  BY <1>2 DEF BitsAt
<1>4. BitsAt(3) => BitsAt(2)'
  BY <1>2 DEF BitsAt
<1>5. ExtensionAt(2) => ExtensionAt(1)'
  <2> HIDE DEF BitsAt
  <2> SUFFICES ASSUME ExtensionAt(2) PROVE ExtensionAt(1)'
    OBVIOUS
  <2>1. Len(wire') >= 1 /\ wire'[1] = wire[2]
    BY <1>2 DEF ExtensionAt
  <2>2. wire[2][1] = "bits" \/ /\ wire[2][1] = "ext0"
                               /\ wire[2][2] >= NoId
                               /\ goal = "metadata" => wire[2][2] > 0
                               /\ BitsAt(2)'
    BY <1>4 DEF ExtensionAt
  <2> QED  BY <2>1, <2>2 DEF ExtensionAt
<1> QED  BY <1>3, <1>5

LEMMA GreetingKept ==
  ASSUME wire \in Seq(Messages), NEW m,
         wire' = wire \/ wire' = Append(wire, m),
         UNCHANGED <<goal, magnet>>, NEW i \in {1, 2}
  PROVE  /\ BitsAt(i) => BitsAt(i)'
         /\ ExtensionAt(i) => ExtensionAt(i)'
<1>1. \A j \in {1, 2, 3} : Len(wire) >= j => /\ Len(wire') >= j
                                            /\ wire'[j] = wire[j]
  OBVIOUS
<1>2. \A j \in {1, 2, 3} : BitsAt(j) => BitsAt(j)'
  BY <1>1 DEF BitsAt
<1>3. i + 1 \in {1, 2, 3} /\ i \in {1, 2, 3}
  OBVIOUS
<1>4. ExtensionAt(i) => ExtensionAt(i)'
  <2> SUFFICES ASSUME ExtensionAt(i) PROVE ExtensionAt(i)'
    OBVIOUS
  <2>1. Len(wire') >= i /\ wire'[i] = wire[i]
    BY <1>1, <1>3 DEF ExtensionAt
  <2>2. BitsAt(i + 1) => BitsAt(i + 1)'
    BY <1>2, <1>3
  <2>3. wire[i][1] = "bits" \/ /\ wire[i][1] = "ext0"
                               /\ wire[i][2] >= NoId
                               /\ goal = "metadata" => wire[i][2] > 0
                               /\ BitsAt(i + 1)'
    BY <2>2 DEF ExtensionAt
  <2> QED  BY <2>1, <2>3 DEF ExtensionAt
<1> QED  BY <1>2, <1>3, <1>4

\* Tuples that are joined, element by element.
LEMMA Joined ==
  ASSUME NEW S, NEW s \in Seq(S), NEW t \in Seq(S)
  PROVE  /\ s \o t \in Seq(S)
         /\ Len(s \o t) = Len(s) + Len(t)
         /\ \A i \in 1 .. Len(s) : (s \o t)[i] = s[i]
         /\ \A i \in 1 .. Len(t) : (s \o t)[Len(s) + i] = t[i]
  OBVIOUS

LEMMA TwoJoined ==
  ASSUME NEW a, NEW b, NEW c
  PROVE  LET s == <<a>> \o <<b>>
         IN  s \in Seq({a, b, c}) /\ Len(s) = 2 /\ s[1] = a /\ s[2] = b
<1>1. PICK S, s, t : S = {a, b, c} /\ s = <<a>> /\ t = <<b>>
  OBVIOUS
<1>2. /\ s \in Seq(S) /\ t \in Seq(S)
      /\ Len(s) = 1 /\ Len(t) = 1
      /\ s[1] = a /\ t[1] = b
  BY <1>1
<1>0. s \in Seq(S) /\ t \in Seq(S)
  BY <1>2
<1>3. /\ s \o t \in Seq(S)
      /\ Len(s \o t) = Len(s) + Len(t)
      /\ \A i \in 1 .. Len(s) : (s \o t)[i] = s[i]
      /\ \A i \in 1 .. Len(t) : (s \o t)[Len(s) + i] = t[i]
  BY <1>0, Joined
<1>4. (s \o t)[1] = a
  BY <1>2, <1>3
<1>5. (s \o t)[2] = b
  BY <1>2, <1>3
<1>6. Len(s \o t) = 2
  BY <1>2, <1>3
<1> QED  BY <1>1, <1>3, <1>4, <1>5, <1>6

LEMMA PairJoined ==
  ASSUME NEW a, NEW b, NEW c
  PROVE  LET s == <<a, b>> \o <<c>>
         IN  Len(s) = 3 /\ s[1] = a /\ s[2] = b /\ s[3] = c
<1>1. PICK S, s, t : S = {a, b, c} /\ s = <<a, b>> /\ t = <<c>>
  OBVIOUS
<1>2. /\ s \in Seq(S) /\ t \in Seq(S)
      /\ Len(s) = 2 /\ Len(t) = 1
      /\ s[1] = a /\ s[2] = b /\ t[1] = c
  BY <1>1
<1>3. /\ Len(s \o t) = Len(s) + Len(t)
      /\ \A i \in 1 .. Len(s) : (s \o t)[i] = s[i]
      /\ \A i \in 1 .. Len(t) : (s \o t)[Len(s) + i] = t[i]
  <2>1. s \in Seq(S) /\ t \in Seq(S)
    BY <1>2
  <2>2. QED
    BY <2>1, Joined
<1>4. (s \o t)[1] = a /\ (s \o t)[2] = b
  BY <1>2, <1>3
<1>5. (s \o t)[3] = c
  BY <1>2, <1>3
<1>6. Len(s \o t) = 3
  BY <1>2, <1>3
<1> QED  BY <1>1, <1>4, <1>5, <1>6

LEMMA ThreeJoined ==
  ASSUME NEW a, NEW b, NEW c
  PROVE  LET s == <<a>> \o <<b>> \o <<c>>
         IN  Len(s) = 3 /\ s[1] = a /\ s[2] = b
<1>1. PICK S, s, t : S = {a, b, c} /\ s = <<a>> \o <<b>> /\ t = <<c>>
  OBVIOUS
<1>2. s \in Seq(S) /\ Len(s) = 2 /\ s[1] = a /\ s[2] = b
  BY <1>1, TwoJoined
<1>3. t \in Seq(S) /\ Len(t) = 1
  BY <1>1
<1>4. /\ Len(s \o t) = Len(s) + Len(t)
      /\ \A i \in 1 .. Len(s) : (s \o t)[i] = s[i]
  <2>1. s \in Seq(S) /\ t \in Seq(S)
    BY <1>2, <1>3
  <2>2. QED
    BY <2>1, Joined
<1>5. (s \o t)[1] = a /\ (s \o t)[2] = b
  BY <1>2, <1>4
<1>6. Len(s \o t) = 3
  BY <1>2, <1>3, <1>4
<1> QED  BY <1>1, <1>5, <1>6

\* The shape of a greeting that suits.
LEMMA SuitsShape ==
  ASSUME peer = "silent", NEW g \in Greetings, Suits(g), wire' = g,
         UNCHANGED <<goal, magnet>>, goal \in Goals, magnet \in BOOLEAN,
         goal = "metadata" => magnet
  PROVE  /\ wire'[1] = <<"hello", 0>> => goal # "metadata" /\ BitsAt(2)'
         /\ wire'[1] = <<"hello", 1>> => ExtensionAt(2)'
<1>1. PICK id \in NoId .. 255, bits \in {<<>>, <<<<"bits", 0>>>>, <<<<"bits", 1>>>>} :
        /\ \/ g = <<<<"hello", 0>>>> \o bits /\ goal # "metadata"
           \/ /\ \/ g = <<<<"hello", 1>>, <<"ext0", id>>>> \o bits
                 \/ g = <<<<"hello", 1>>>> \o bits \o <<<<"ext0", id>>>>
              /\ goal = "metadata" => id > 0
        /\ ~magnet => bits # <<>>
        /\ goal = "piece" /\ ~magnet => bits # <<<<"bits", 0>>>>
  BY DEF Suits
<1>2. \/ bits = <<>>
      \/ \E n \in {0, 1} : bits = <<<<"bits", n>>>>
  BY <1>1
<1>3. CASE g = <<<<"hello", 0>>>> \o bits /\ goal # "metadata"
  <2>1. CASE bits = <<>>
    <3>1. g[1] = <<"hello", 0>>
      BY <1>3, <2>1
    <3> QED  BY <1>1, <1>3, <2>1, <3>1 DEF BitsAt
  <2>2. CASE \E n \in {0, 1} : bits = <<<<"bits", n>>>>
    <3>1. PICK n \in {0, 1} : bits = <<<<"bits", n>>>>
      BY <2>2
    <3>2. g = <<<<"hello", 0>>>> \o <<<<"bits", n>>>>
      BY <1>3, <3>1
    <3>3. goal = "piece" /\ ~magnet => n = 1
      BY <1>1, <3>1
    <3>4. g[1] = <<"hello", 0>> /\ g[2] = <<"bits", n>> /\ Len(g) = 2
      BY <3>2, TwoJoined
    <3> QED  BY <1>3, <3>1, <3>3, <3>4 DEF BitsAt
  <2> QED  BY <1>2, <2>1, <2>2
<1>4. CASE /\ g = <<<<"hello", 1>>, <<"ext0", id>>>> \o bits
           /\ goal = "metadata" => id > 0
  <2>1. g[1] = <<"hello", 1>> /\ g[2] = <<"ext0", id>> /\ Len(g) >= 2
    <3>1. CASE bits = <<>>
      <4>1. g = <<<<"hello", 1>>, <<"ext0", id>>>>
        BY <1>4, <3>1
      <4> QED  BY <4>1
    <3>2. CASE \E n \in {0, 1} : bits = <<<<"bits", n>>>>
      <4>1. \E n \in {0, 1} :
              g = <<<<"hello", 1>>, <<"ext0", id>>>> \o <<<<"bits", n>>>>
        BY <1>4, <3>2
      <4> QED  BY <4>1, PairJoined
    <3> QED  BY <1>2, <3>1, <3>2
  <2>2. ~magnet => /\ Len(g) >= 3
                   /\ g[3] \in {<<"bits", 0>>, <<"bits", 1>>}
                   /\ goal = "piece" => g[3] = <<"bits", 1>>
    <3> SUFFICES ASSUME ~magnet
                 PROVE  /\ Len(g) >= 3
                        /\ g[3] \in {<<"bits", 0>>, <<"bits", 1>>}
                        /\ goal = "piece" => g[3] = <<"bits", 1>>
      OBVIOUS
    <3>1. PICK n \in {0, 1} : bits = <<<<"bits", n>>>>
      BY <1>1, <1>2
    <3>2. g = <<<<"hello", 1>>, <<"ext0", id>>>> \o <<<<"bits", n>>>>
      BY <1>4, <3>1
    <3>3. goal = "piece" => n = 1
      BY <1>1, <3>1
    <3>4. Len(g) = 3 /\ g[3] = <<"bits", n>>
      BY <3>2, PairJoined
    <3> QED  BY <3>3, <3>4
  <2>3. BitsAt(3)'
    BY <2>2 DEF BitsAt
  <2>4. id >= NoId
    BY <1>1 DEF NoId
  <2> QED  BY <1>4, <2>1, <2>3, <2>4 DEF ExtensionAt
<1>5. CASE /\ g = <<<<"hello", 1>>>> \o bits \o <<<<"ext0", id>>>>
           /\ goal = "metadata" => id > 0
  <2>1. CASE bits = <<>>
    <3>1. g = <<<<"hello", 1>>>> \o <<>> \o <<<<"ext0", id>>>>
      BY <1>5, <2>1
    <3>2. g = <<<<"hello", 1>>>> \o <<<<"ext0", id>>>>
      BY <3>1
    <3>5. g[1] = <<"hello", 1>> /\ g[2] = <<"ext0", id>> /\ Len(g) = 2
      BY <3>2, TwoJoined
    <3>3. magnet /\ id >= NoId
      BY <1>1, <2>1 DEF NoId
    <3>4. BitsAt(3)'
      BY <3>3 DEF BitsAt
    <3> QED  BY <1>5, <3>3, <3>4, <3>5 DEF ExtensionAt
  <2>2. CASE \E n \in {0, 1} : bits = <<<<"bits", n>>>>
    <3>1. PICK n \in {0, 1} : bits = <<<<"bits", n>>>>
      BY <2>2
    <3>2. g = <<<<"hello", 1>>>> \o <<<<"bits", n>>>> \o <<<<"ext0", id>>>>
      BY <1>5, <3>1
    <3>3. g[1] = <<"hello", 1>> /\ g[2] = <<"bits", n>> /\ Len(g) = 3
      BY <3>2, ThreeJoined
    <3> QED  BY <3>3 DEF ExtensionAt
  <2> QED  BY <1>2, <2>1, <2>2
<1> QED  BY <1>1, <1>3, <1>4, <1>5
\* The three parts of GreetInv, as each phase needs them.
LEMMA GreetStep == TypeInv /\ GreetInv /\ [Next]_vars => GreetInv'
<1> SUFFICES ASSUME TypeInv, GreetInv, [Next]_vars, ~refused' PROVE GreetInv'
  BY DEF GreetInv
<1>0. /\ wire \in Seq(Messages)
      /\ goal \in Goals
      /\ magnet \in BOOLEAN
      /\ goal = "metadata" => magnet
      /\ peer = "silent" => phase = "greet" /\ wire = <<>>
      /\ phase \in {"greet", "extension", "bitfield"} => asked = <<>>
      /\ QueueTypes /\ PhaseInv
      /\ ~refused
  BY Lasting DEF TypeInv, TypeOK, QueueTypes, ScalarTypes, PhaseInv
<1>1. CASE Greet
  <2>1. PICK g \in Greetings : wire' = g /\ refused' = (refused \/ ~Suits(g))
    BY <1>1 DEF Greet
  <2>2. Suits(g)
    BY <2>1
  <2>3. /\ peer = "silent" /\ phase = "greet"
        /\ UNCHANGED <<goal, magnet, phase>>
    BY <1>0, <1>1 DEF Greet, client
  <2>4. /\ wire'[1] = <<"hello", 0>> => goal # "metadata" /\ BitsAt(2)'
        /\ wire'[1] = <<"hello", 1>> => ExtensionAt(2)'
    BY <1>0, <2>1, <2>2, <2>3, SuitsShape
  <2> HIDE DEF BitsAt, ExtensionAt
  <2> QED  BY <2>3, <2>4 DEF GreetInv
<1>2. CASE Handshake
  <2>1. /\ phase = "greet" /\ wire # <<>> /\ wire' = Tail(wire)
        /\ Head(wire) = wire[1]
        /\ peer # "silent"
        /\ UNCHANGED <<goal, magnet>>
    BY <1>0, <1>2, HeadTail DEF Handshake
  <2>2. /\ BitsAt(2) => BitsAt(1)'
        /\ ExtensionAt(2) => ExtensionAt(1)'
    BY <1>0, <2>1, GreetingRead
  <2>3. CASE wire[1] = <<"hello", 1>>
    <3>1. phase' = "extension" /\ ExtensionAt(2)
      BY <1>0, <1>2, <2>1, <2>3 DEF Handshake, GreetInv
    <3> QED  BY <2>2, <3>1 DEF GreetInv
  <2>4. CASE wire[1] # <<"hello", 1>>
    <3>1. wire[1] = <<"hello", 0>> /\ Proceed(NoId)
      BY <1>2, <2>1, <2>4 DEF Handshake
    <3>2. BitsAt(2)
      BY <1>0, <2>1, <3>1 DEF GreetInv
    <3>3. phase' \notin {"greet", "extension"}
      BY <3>1 DEF Proceed
    <3> QED  BY <2>2, <3>2, <3>3 DEF GreetInv
  <2> QED  BY <2>3, <2>4
<1>3. CASE HandshakeFails
  BY <1>3 DEF HandshakeFails
<1>4. CASE ReceiveExtension
  <2>1. /\ phase = "extension" /\ pending = <<>>
        /\ wire # <<>> /\ wire' = Tail(wire)
        /\ Head(wire) = wire[1] /\ wire[1][1] = "ext0"
        /\ phase' = "failed" \/ Proceed(wire[1][2])
        /\ UNCHANGED <<goal, magnet>>
    BY <1>0, <1>4, ExtensionReads, HeadTail DEF ReceiveExtension
  <2>2. ExtensionAt(1)
    BY <1>0, <2>1 DEF GreetInv
  <2>3. BitsAt(2)
    BY <2>1, <2>2 DEF ExtensionAt
  <2>4. BitsAt(1)'
    BY <1>0, <2>1, <2>3, GreetingRead
  <2>5. phase' \notin {"greet", "extension"}
    BY <2>1 DEF Proceed
  <2> QED  BY <2>4, <2>5 DEF GreetInv
<1>5. CASE Defer
  <2>1. phase' = "extension" /\ pending' # <<>>
    <3>1. PICK m \in Incoming :
            IF pending # <<>>
            THEN pending' = Append(Tail(pending), m)
            ELSE pending' = <<m>>
      BY <1>5 DEF Defer
    <3>2. pending # <<>> => Len(Append(Tail(pending), m)) >= 1
      <4>1. pending # <<>> => m \in Messages /\ Tail(pending) \in Seq(Messages)
        BY <1>0, <3>1, HeadTail DEF Incoming, QueueTypes
      <4> QED  BY <4>1
    <3>3. pending' # <<>>
      BY <3>1, <3>2
    <3> QED  BY <1>5, <3>3 DEF Defer
  <2> QED  BY <2>1 DEF GreetInv
<1>6. CASE Answer \/ Chat \/ Choke \/ Unchoke \/ HangUp \/ UNCHANGED vars
  <2> SUFFICES ASSUME phase' \in {"greet", "extension", "bitfield"} PROVE GreetInv'
    BY DEF GreetInv
  <2>1. UNCHANGED <<goal, magnet, phase, pending>>
    BY <1>6 DEF Answer, Chat, Choke, Unchoke, HangUp, vars, client
  <2>2. ~Answer
    BY <1>0, <2>1 DEF Answer
  <2>3. PICK m \in {<<"aux", 0>>, <<"other", 0>>, <<"unchoke", 0>>} :
          wire' = wire \/ wire' = Append(wire, m)
    BY <1>6, <2>2 DEF Chat, Choke, Unchoke, HangUp, vars
  <2>4. peer = "silent" /\ peer' # "silent" => wire' = <<>>
    BY <1>0, <1>6 DEF Answer, Chat, Choke, Unchoke, HangUp, Talks, vars, remote
  <2>5. \A i \in {1, 2} : /\ BitsAt(i) => BitsAt(i)'
                          /\ ExtensionAt(i) => ExtensionAt(i)'
    BY <1>0, <2>1, <2>3, GreetingKept
  <2>6. wire = <<>> /\ wire' # <<>> => wire'[1] = m
    BY <2>3
  <2>7. wire # <<>> => wire'[1] = wire[1]
    <3>1. m \in Messages
      BY <2>3, MessageTypes DEF Kinds
    <3> QED  BY <1>0, <2>3, <3>1
  <2>8. m # <<"hello", 0>> /\ m # <<"hello", 1>>
    OBVIOUS
  <2>9. ASSUME phase' = "greet", peer' # "silent", wire' # <<>>
        PROVE  /\ wire'[1] = <<"hello", 0>> => goal' # "metadata" /\ BitsAt(2)'
               /\ wire'[1] = <<"hello", 1>> => ExtensionAt(2)'
    <3> HIDE DEF BitsAt, ExtensionAt
    <3>1. CASE wire = <<>>
      BY <2>6, <2>8, <2>9, <3>1
    <3>2. CASE wire # <<>>
      <4>1. phase = "greet" /\ peer # "silent" /\ goal' = goal /\ wire'[1] = wire[1]
        BY <2>1, <2>4, <2>7, <2>9, <3>2
      <4>2. /\ wire[1] = <<"hello", 0>> => goal # "metadata" /\ BitsAt(2)
            /\ wire[1] = <<"hello", 1>> => ExtensionAt(2)
        BY <1>0, <3>2, <4>1 DEF GreetInv
      <4> QED  BY <2>5, <4>1, <4>2
    <3> QED  BY <3>1, <3>2
  <2>10. phase' = "extension" /\ pending' = <<>> => ExtensionAt(1)'
    BY <1>0, <2>1, <2>5 DEF GreetInv
  <2>11. phase' = "bitfield" => BitsAt(1)'
    BY <1>0, <2>1, <2>5 DEF GreetInv
  <2> QED  BY <2>9, <2>10, <2>11 DEF GreetInv
<1>7. CASE ReceiveBitfield \/ ReceiveUnchoke \/ ReceiveMetadata \/ ReadTimeout
  <2>1. phase' \notin {"greet", "extension", "bitfield"}
    BY <1>7 DEF ReceiveBitfield, ReceiveUnchoke, ReceiveMetadata, ReadTimeout
  <2> QED  BY <2>1 DEF GreetInv
<1>8. CASE ReceiveBlock \/ BlockTimeout \/ ReadTorn \/ ConnectionLost
  <2>1. phase' \notin {"greet", "extension", "bitfield"} \/ refused'
    BY <1>8 DEF ReceiveBlock, BlockTimeout, ReadTorn, ConnectionLost,
                NextBlock, LoseAttempt
  <2> QED  BY <2>1 DEF GreetInv
<1> QED
  BY <1>1, <1>2, <1>3, <1>4, <1>5, <1>6, <1>7, <1>8 DEF Next, Client, Remote

-----------------------------------------------------------------------------
(* The causes of a failure *)

LEMMA CauseInitial == Init => CauseInv
<1> SUFFICES ASSUME Init PROVE CauseInv
  OBVIOUS
<1>1. LagInv
  BY DEF Init, LagInv
<1>2. EarlyInv /\ BadInv /\ DataInv
  BY DEF Init, EarlyInv, BadInv, DataInv
<1>3. ChokeInv
  BY DEF Init, ChokeInv
<1>4. GreetInv /\ IdInv
  BY DEF Init, GreetInv, IdInv
<1>5. FailsForCause
  BY DEF Init, FailsForCause
<1> QED  BY <1>1, <1>2, <1>3, <1>4, <1>5 DEF CauseInv, WaitInv

\* A client that waits without cause is not left alone.
LEMMA TimeoutCause ==
  ASSUME TypeInv, CauseInv, ReadTimeout, ~refused
  PROVE  Owes
<1> SUFFICES ASSUME ~Owes PROVE FALSE
  OBVIOUS
<1>1. /\ wire = <<>> /\ asked = <<>> /\ pending = <<>>
      /\ phase = "unchoke" => ~choking
      /\ peer = "open"
      /\ phase \in {"extension", "bitfield", "unchoke", "metadata"}
  BY DEF ReadTimeout, Owes
<1>2. Len(wire) = 0 /\ DOMAIN wire = {} /\ DOMAIN asked = {}
  BY <1>1
<1>3. CASE phase = "extension"
  BY <1>1, <1>2, <1>3 DEF CauseInv, GreetInv, ExtensionAt
<1>4. CASE phase = "bitfield"
  BY <1>1, <1>2, <1>4 DEF CauseInv, GreetInv, BitsAt, TypeInv, PhaseInv
<1>5. CASE phase = "unchoke"
  <2>1. Count(wire, Unchokes) = 0
    <3>1. wire \in Seq(Messages) /\ \A i \in DOMAIN wire : wire[i] \notin Unchokes
      BY <1>2 DEF TypeInv, TypeOK, QueueTypes
    <3> QED  BY <3>1, CountNone
  <2>2. Count(wire, Unchokes) >= 1
    BY <1>1, <1>5 DEF CauseInv, WaitInv, ChokeInv
  <2> QED  BY <2>1, <2>2
<1>6. CASE phase = "metadata"
  BY <1>1, <1>2, <1>6 DEF CauseInv, WaitInv, DataInv
<1> QED  BY <1>1, <1>3, <1>4, <1>5, <1>6

\* A connection fails in the steps that make FailsForCause true and in no
\* others.
LEMMA FailStep == TypeInv /\ CauseInv /\ [Next]_vars => FailsForCause'
<1> SUFFICES ASSUME TypeInv, CauseInv, [Next]_vars,
                    phase' = "failed", ~refused', ~torn'
             PROVE  faults' >= BlockRetries
  BY DEF FailsForCause
<1>0. /\ ~refused /\ ~torn
      /\ wire \in Seq(Messages) /\ goal \in Goals
      /\ QueueTypes /\ PhaseInv
  BY Lasting DEF TypeInv, TypeOK, QueueTypes, ScalarTypes
<1>1. CASE Handshake
  <2>1. /\ phase = "greet" /\ peer # "silent" /\ wire # <<>>
        /\ wire[1] = <<"hello", 0>> /\ Proceed(NoId)
    BY <1>0, <1>1, HeadTail DEF Handshake, PhaseInv
  <2>2. goal # "metadata"
    BY <1>0, <2>1 DEF CauseInv, GreetInv
  <2> QED  BY <2>1, <2>2 DEF Proceed
<1>2. CASE ReceiveExtension
  <2>1. /\ phase = "extension" /\ pending = <<>>
        /\ wire # <<>> /\ Head(wire) = wire[1]
        /\ wire[1] \in Messages /\ wire[1][1] = "ext0"
        /\ wire[1][2] = Unparsable \/ Proceed(wire[1][2])
    BY <1>0, <1>2, ExtensionReads, HeadTail DEF ReceiveExtension
  <2>2. ExtensionAt(1)
    BY <1>0, <2>1 DEF CauseInv, GreetInv
  <2>3. wire[1][2] \in Int
    BY <2>1, MessageTypes
  <2>4. wire[1][2] >= NoId /\ (goal = "metadata" => wire[1][2] > 0)
    BY <2>1, <2>2 DEF ExtensionAt
  <2> QED  BY <2>1, <2>3, <2>4 DEF Proceed, NoId, Unparsable
<1>3. CASE ReceiveBitfield
  <2>1. PICK m \in Incoming :
          /\ Take(m)
          /\ phase' = CASE m[1] # "bits" -> "failed"
                        [] m[1] = "bits" /\ goal = "probe" -> "done"
                        [] m = <<"bits", 0>> /\ goal # "probe" -> "failed"
                        [] OTHER -> "unchoke"
    BY <1>3 DEF ReceiveBitfield
  <2>2. phase = "bitfield"
    BY <1>3 DEF ReceiveBitfield
  <2>3. m = wire[1]
    BY <1>0, <2>1, <2>2, WireReads, HeadTail
  <2>4. BitsAt(1) /\ ~magnet /\ goal # "metadata"
    BY <1>0, <2>2 DEF CauseInv, GreetInv, PhaseInv
  <2>5. m \in {<<"bits", 0>>, <<"bits", 1>>} /\ (goal = "piece" => m = <<"bits", 1>>)
    BY <2>3, <2>4 DEF BitsAt
  <2>6. goal = "probe" \/ m = <<"bits", 1>>
    BY <1>0, <2>4, <2>5 DEF Goals
  <2> QED  BY <2>1, <2>5, <2>6
<1>4. CASE ReceiveBlock
  <2>1. phase = "blocks"
    BY <1>4 DEF ReceiveBlock
  <2> QED  BY <1>0, <1>4, <2>1, LagRead DEF CauseInv
<1>5. CASE BlockTimeout
  <2>1. phase = "blocks"
    BY <1>5 DEF BlockTimeout
  <2> QED  BY <1>0, <1>5, <2>1, LagTimeout DEF CauseInv
<1>6. CASE ReceiveMetadata
  <2>1. PICK m \in Incoming :
          /\ Take(m)
          /\ \/ phase' = "done" \/ phase' = phase
             \/ m = <<"bad", Current>>
             \/ theirId = 0
    BY <1>6 DEF ReceiveMetadata
  <2>2. phase = "metadata" /\ theirId # 0
    BY <1>0, <1>6 DEF ReceiveMetadata, CauseInv, IdInv, OwnId
  <2>3. m = wire[1] /\ 1 \in DOMAIN wire
    BY <1>0, <2>1, <2>2, WireReads, HeadTail
  <2>4. wire[1][1] # "bad"
    BY <1>0, <2>3 DEF CauseInv, WaitInv, BadInv
  <2> QED  BY <2>1, <2>2, <2>3, <2>4
<1>7. CASE ReadTimeout
  <2>1. refused' = (refused \/ Owes)
    BY <1>7 DEF ReadTimeout
  <2>2. Owes
    BY <1>0, <1>7, TimeoutCause
  <2> QED  BY <2>1, <2>2
<1>8. CASE HandshakeFails \/ ConnectionLost \/ Defer
  BY <1>8 DEF HandshakeFails, ConnectionLost, Defer
<1>9. CASE ReceiveUnchoke
  BY <1>9 DEF ReceiveUnchoke
<1>10. CASE ReadTorn
  BY <1>0, <1>10 DEF ReadTorn
<1>11. CASE Remote \/ UNCHANGED vars
  <2>1. UNCHANGED <<phase, faults>>
    BY <1>11 DEF Remote, Greet, Answer, Chat, Choke, Unchoke, HangUp,
                 vars, client, history
  <2> QED  BY <1>0, <2>1 DEF CauseInv, FailsForCause
<1> QED
  BY <1>1, <1>2, <1>3, <1>4, <1>5, <1>6, <1>7, <1>8, <1>9, <1>10, <1>11
     DEF Next, Client

\* A connection fails only when the peer has refused, left or fallen silent,
\* when a read was cut, or after BlockRetries attempts that the peer made
\* fail: the retries of download.rs lag behind by what late answers have cost,
\* but never by more.
THEOREM FailureHasCause == ASSUME ChooseOwnId PROVE Spec => []FailsForCause
<1>1. Init => CauseInv
  BY CauseInitial
<1>2. TypeInv /\ CauseInv /\ [Next]_vars => CauseInv'
  <2> SUFFICES ASSUME TypeInv, CauseInv, [Next]_vars PROVE CauseInv'
    OBVIOUS
  <2>1. LagInv'
    BY LagStep DEF CauseInv
  <2>2. EarlyInv' /\ BadInv' /\ ChokeInv'
    BY EarlyStep, BadStep, ChokeStep DEF CauseInv, WaitInv
  <2>3. DataInv'
    BY MetadataStep DEF CauseInv, WaitInv
  <2>4. GreetInv' /\ IdInv'
    BY GreetStep, IdStep DEF CauseInv
  <2>5. FailsForCause'
    BY FailStep
  <2> QED  BY <2>1, <2>2, <2>3, <2>4, <2>5 DEF CauseInv, WaitInv
<1>3. CauseInv => FailsForCause
  BY DEF CauseInv
<1> QED  BY <1>1, <1>2, <1>3, TypeInvariant, PTL DEF Spec

-----------------------------------------------------------------------------
(* By what a connection goes on *)

Handshakes == IF phase = "greet" THEN HandshakeAttempts - attempts ELSE 0

Turns == (IF choking THEN 2 ELSE 0) + (IF peer = "open" THEN 1 ELSE 0)

LEMMA BlockRounds ==
  ASSUME NEW b \in Nat \ {0}, NEW n \in Nat \ {0}
  PROVE  /\ b * n \in Nat
         /\ b * (n - 1) \in Nat
         /\ b * n = b * (n - 1) + b
<1>1. PICK k \in Nat : n = k + 1
  <2>1. n - 1 \in Nat /\ n = (n - 1) + 1
    OBVIOUS
  <2>2. QED
    BY <2>1
<1>2. b * n = b * k + b /\ n - 1 = k
  BY <1>1
<1>3. b * k \in Nat
  OBVIOUS
<1>4. QED
  BY <1>2, <1>3

\* What is left of the blocks, with the whole of the current one.
LEMMA BlocksLeft ==
  ASSUME TypeInv, phase \notin Ended
  PROVE  /\ Len(data) \in Nat
         /\ NumBlocks - Len(data) \in Nat \ {0}
         /\ BlockRetries * (NumBlocks - Len(data)) \in Nat
         /\ BlockRetries * (NumBlocks - Len(data) - 1) \in Nat
         /\ BlockRetries * (NumBlocks - Len(data))
              = BlockRetries * (NumBlocks - Len(data) - 1) + BlockRetries
         /\ attempts \in Nat
         /\ phase = "blocks" => attempts < BlockRetries
<1>1. Len(data) \in Nat /\ Len(data) < NumBlocks /\ attempts \in Nat
      /\ (phase = "blocks" => attempts < BlockRetries)
  BY DEF TypeInv, TypeOK, DataTypes, CounterTypes
<1>2. NumBlocks - Len(data) \in Nat \ {0}
  BY <1>1, Numbers
<1> DEFINE n == NumBlocks - Len(data)
<1> HIDE DEF n
<1>3. /\ BlockRetries * n \in Nat /\ BlockRetries * (n - 1) \in Nat
      /\ BlockRetries * n = BlockRetries * (n - 1) + BlockRetries
  BY <1>2, Numbers, BlockRounds DEF n
<1>4. QED
  BY <1>1, <1>2, <1>3 DEF n

LEMMA PartTypes ==
  ASSUME TypeInv, phase \notin Ended
  PROVE  /\ Handshakes \in Nat
         /\ RequestsLeft \in Nat
         /\ Len(asked) \in Nat
         /\ Len(wire) \in Nat
         /\ Turns \in Nat
<1>1. /\ Len(asked) \in Nat /\ Len(wire) \in Nat /\ attempts \in Nat
      /\ (phase = "greet" => attempts < HandshakeAttempts)
  BY Numbers DEF TypeInv, TypeOK, QueueTypes, CounterTypes
<1>2. Handshakes \in Nat
  BY <1>1, Numbers DEF Handshakes
<1>3. RequestsLeft \in Nat
  <2>1. CASE phase = "blocks"
    <3>1. RequestsLeft = BlockRetries * (NumBlocks - Len(data)) - attempts - 1
      BY <2>1 DEF RequestsLeft
    <3> DEFINE k == BlockRetries * (NumBlocks - Len(data))
               j == BlockRetries * (NumBlocks - Len(data) - 1)
    <3>2. k \in Nat /\ j \in Nat /\ k = j + BlockRetries /\ attempts < BlockRetries
      BY <2>1, BlocksLeft
    <3>3. RequestsLeft = k - attempts - 1
      BY <3>1
    <3> HIDE DEF k, j
    <3>4. QED
      BY <1>1, <3>2, <3>3, Numbers
  <2>2. CASE phase = "metadata"
    <3>1. RequestsLeft = NumBlocks - Len(data) - 1
      BY <2>2 DEF RequestsLeft
    <3>2. NumBlocks - Len(data) \in Nat \ {0}
      BY BlocksLeft
    <3> DEFINE n == NumBlocks - Len(data)
    <3> HIDE DEF n
    <3>3. n \in Nat \ {0} /\ RequestsLeft = n - 1
      BY <3>1, <3>2 DEF n
    <3>4. QED
      BY <3>3
  <2>3. CASE phase \notin {"blocks", "metadata"}
    <3>1. RequestsLeft = BlockRetries * NumBlocks
      BY <2>3 DEF RequestsLeft
    <3>2. QED
      BY <3>1, Numbers, BlockRounds
  <2>4. QED
    BY <2>1, <2>2, <2>3
<1>4. Turns \in Nat
  BY DEF Turns
<1>5. QED
  BY <1>1, <1>2, <1>3, <1>4

LEMMA PartTypesStill ==
  (TypeInv /\ phase \notin Ended)'
    => (/\ Handshakes \in Nat
        /\ RequestsLeft \in Nat
        /\ Len(asked) \in Nat
        /\ Len(wire) \in Nat
        /\ Turns \in Nat)'
<1>1. TypeInv /\ phase \notin Ended
        => /\ Handshakes \in Nat
           /\ RequestsLeft \in Nat
           /\ Len(asked) \in Nat
           /\ Len(wire) \in Nat
           /\ Turns \in Nat
  BY PartTypes
<1>2. QED
  BY <1>1, PTL

Sum == 1 + Handshakes + 3 * RequestsLeft + 2 * Len(asked) + Len(wire) + Turns

LEMMA StepsLeftParts ==
  ASSUME TypeInv
  PROVE  /\ StepsLeft \in Nat
         /\ phase \in Ended => StepsLeft = 0
         /\ phase \notin Ended => StepsLeft = Sum /\ StepsLeft > 0
<1>1. CASE phase \in Ended
  BY <1>1 DEF StepsLeft
<1>2. CASE phase \notin Ended
  <2> DEFINE h == Handshakes
             r == RequestsLeft
             a == Len(asked)
             w == Len(wire)
             t == Turns
  <2>1. /\ h \in Nat /\ r \in Nat /\ a \in Nat /\ w \in Nat /\ t \in Nat
    BY <1>2, PartTypes
  <2>2. StepsLeft = 1 + h + (3 * r + 2 * a + w) + t
    BY <1>2 DEF StepsLeft, Handshakes, Turns
  <2>3. Sum = 1 + h + 3 * r + 2 * a + w + t
    BY DEF Sum
  <2> HIDE DEF h, r, a, w, t
  <2>4. QED
    BY <1>2, <2>1, <2>2, <2>3
<1>3. QED
  BY <1>1, <1>2

LEMMA StepsLeftPartsStill ==
  TypeInv' => (/\ StepsLeft \in Nat
               /\ phase \in Ended => StepsLeft = 0
               /\ phase \notin Ended => StepsLeft = Sum /\ StepsLeft > 0)'
BY StepsLeftParts, PTL

\* The end lowers what is left to nothing.
LEMMA EndLowers ==
  ASSUME TypeInv, TypeInv', phase \notin Ended, phase' \in Ended
  PROVE  StepsLeft' < StepsLeft
<1>1. StepsLeft \in Nat /\ StepsLeft > 0
  BY StepsLeftParts
<1>2. StepsLeft' = 0
  BY StepsLeftPartsStill
<1>3. QED
  BY <1>1, <1>2

\* The ways in which a step lowers the sum: a request is made, a message is
\* read, a handshake fails; of the peer's, one is answered, and so on.
LEMMA SumLowers ==
  ASSUME NEW h \in Nat, NEW r \in Nat, NEW a \in Nat, NEW w \in Nat,
         NEW t \in Nat,
         NEW h1 \in Nat, NEW r1 \in Nat, NEW a1 \in Nat, NEW w1 \in Nat,
         NEW t1 \in Nat,
         \/ h1 <= h /\ r1 < r /\ a1 <= a + 1 /\ w1 <= w /\ t1 = t
         \/ h1 <= h /\ r1 = r /\ a1 = a /\ w1 < w /\ t1 = t
         \/ h1 < h /\ r1 = r /\ a1 = a /\ w1 <= w /\ t1 = t
         \/ h1 = h /\ r1 = r /\ a1 < a /\ w1 = w + 1 /\ t1 = t
         \/ h1 = h /\ r1 = r /\ a1 = a /\ w1 = w + 1 /\ t1 = t - 2
         \/ h1 = h /\ r1 = r /\ a1 <= a /\ w1 = w /\ t1 < t
  PROVE  1 + h1 + 3 * r1 + 2 * a1 + w1 + t1
           < 1 + h + 3 * r + 2 * a + w + t
OBVIOUS

LEMMA Lowers ==
  ASSUME TypeInv, TypeInv', phase \notin Ended, phase' \notin Ended,
         \/ /\ Handshakes' <= Handshakes /\ RequestsLeft' < RequestsLeft
            /\ Len(asked') <= Len(asked) + 1 /\ Len(wire') <= Len(wire)
            /\ Turns' = Turns
         \/ /\ Handshakes' <= Handshakes /\ RequestsLeft' = RequestsLeft
            /\ Len(asked') = Len(asked) /\ Len(wire') < Len(wire)
            /\ Turns' = Turns
         \/ /\ Handshakes' < Handshakes /\ RequestsLeft' = RequestsLeft
            /\ Len(asked') = Len(asked) /\ Len(wire') <= Len(wire)
            /\ Turns' = Turns
         \/ /\ Handshakes' = Handshakes /\ RequestsLeft' = RequestsLeft
            /\ Len(asked') < Len(asked) /\ Len(wire') = Len(wire) + 1
            /\ Turns' = Turns
         \/ /\ Handshakes' = Handshakes /\ RequestsLeft' = RequestsLeft
            /\ Len(asked') = Len(asked) /\ Len(wire') = Len(wire) + 1
            /\ Turns' = Turns - 2
         \/ /\ Handshakes' = Handshakes /\ RequestsLeft' = RequestsLeft
            /\ Len(asked') <= Len(asked) /\ Len(wire') = Len(wire)
            /\ Turns' < Turns
  PROVE  StepsLeft' < StepsLeft
<1>1. StepsLeft = Sum
  BY StepsLeftParts
<1>2. StepsLeft' = Sum'
  BY StepsLeftPartsStill
<1> DEFINE h == Handshakes
           r == RequestsLeft
           a == Len(asked)
           w == Len(wire)
           t == Turns
           h1 == Handshakes'
           r1 == RequestsLeft'
           a1 == Len(asked')
           w1 == Len(wire')
           t1 == Turns'
<1>3. /\ h \in Nat /\ r \in Nat /\ a \in Nat /\ w \in Nat /\ t \in Nat
  BY PartTypes
<1>4. /\ h1 \in Nat /\ r1 \in Nat /\ a1 \in Nat /\ w1 \in Nat /\ t1 \in Nat
  BY PartTypesStill
<1>5. \/ h1 <= h /\ r1 < r /\ a1 <= a + 1 /\ w1 <= w /\ t1 = t
      \/ h1 <= h /\ r1 = r /\ a1 = a /\ w1 < w /\ t1 = t
      \/ h1 < h /\ r1 = r /\ a1 = a /\ w1 <= w /\ t1 = t
      \/ h1 = h /\ r1 = r /\ a1 < a /\ w1 = w + 1 /\ t1 = t
      \/ h1 = h /\ r1 = r /\ a1 = a /\ w1 = w + 1 /\ t1 = t - 2
      \/ h1 = h /\ r1 = r /\ a1 <= a /\ w1 = w /\ t1 < t
  OBVIOUS
<1>6. StepsLeft = 1 + h + 3 * r + 2 * a + w + t
  BY <1>1 DEF Sum
<1>7. StepsLeft' = 1 + h1 + 3 * r1 + 2 * a1 + w1 + t1
  BY <1>2 DEF Sum
<1> HIDE DEF h, r, a, w, t, h1, r1, a1, w1, t1
<1>8. QED
  BY <1>3, <1>4, <1>5, <1>6, <1>7, SumLowers

LEMMA AskedMore ==
  ASSUME asked \in Seq(Requests), NEW r \in Requests,
         Request(r) \/ UNCHANGED asked
  PROVE  Len(asked') \in Nat /\ Len(asked) \in Nat /\ Len(asked') <= Len(asked) + 1
<1>1. CASE asked' = Append(asked, r)
  BY <1>1, Appended
<1>2. CASE asked' = asked
  BY <1>2
<1>3. QED
  BY <1>1, <1>2 DEF Request

LEMMA CurrentRequests ==
  ASSUME TypeInv, phase \notin Ended
  PROVE  /\ \A kind \in {"block", "data"} : <<kind, Current>> \in Requests
         /\ \A kind \in {"block", "data"} :
              Current # NumBlocks => <<kind, Current + 1>> \in Requests
<1>1. Len(data) \in Nat /\ Len(data) < NumBlocks
  BY DEF TypeInv, TypeOK, DataTypes
<1>2. QED
  BY <1>1, Numbers DEF Current, Requests

LEMMA LoseLowers ==
  ASSUME TypeInv, TypeInv', phase = "blocks", LoseAttempt,
         UNCHANGED <<data, remote>>, Len(wire') <= Len(wire)
  PROVE  StepsLeft' < StepsLeft
<1>1. phase \notin Ended /\ Turns' = Turns
  BY DEF Ended, Turns, remote
<1>2. CASE phase' = "failed"
  BY <1>1, <1>2, EndLowers DEF Ended
<1>3. CASE phase' # "failed"
  <2>1. phase' = "blocks" /\ attempts' = attempts + 1 /\ Request(<<"block", Current>>)
    BY <1>3 DEF LoseAttempt
  <2>2. Len(asked') <= Len(asked) + 1
    <3>1. asked \in Seq(Requests)
      BY DEF TypeInv, TypeOK, QueueTypes
    <3>2. <<"block", Current>> \in Requests
      BY <1>1, CurrentRequests
    <3>3. QED
      BY <2>1, <3>1, <3>2, AskedMore
  <2>3. Handshakes' = 0 /\ Handshakes = 0
    BY <2>1 DEF Handshakes
  <2>4. RequestsLeft' < RequestsLeft
    <3> DEFINE k == BlockRetries * (NumBlocks - Len(data))
    <3>1. k \in Nat /\ attempts \in Nat
      BY <1>1, BlocksLeft
    <3>2. RequestsLeft = k - attempts - 1
      BY DEF RequestsLeft
    <3>3. RequestsLeft' = k - (attempts + 1) - 1
      BY <2>1 DEF RequestsLeft
    <3> HIDE DEF k
    <3>4. QED
      BY <3>1, <3>2, <3>3
  <2>5. phase' \notin Ended
    BY <2>1 DEF Ended
  <2>6. Handshakes' <= Handshakes
    BY <2>3
  <2>7. QED
    BY <1>1, <2>2, <2>4, <2>5, <2>6, Lowers
<1>4. QED
  BY <1>2, <1>3

LEMMA NextLowers ==
  ASSUME TypeInv, TypeInv', phase = "blocks", NEW b \in 0 .. NumBlocks, NextBlock(b),
         UNCHANGED remote, Len(wire') <= Len(wire)
  PROVE  StepsLeft' < StepsLeft
<1>1. phase \notin Ended /\ Turns' = Turns
  BY DEF Ended, Turns, remote
<1>2. CASE Current = NumBlocks
  BY <1>1, <1>2, EndLowers DEF NextBlock, Ended
<1>3. CASE Current # NumBlocks
  <2>1. /\ phase' = "blocks" /\ attempts' = 0 /\ data' = Append(data, b)
        /\ Request(<<"block", Current + 1>>)
    BY <1>3 DEF NextBlock
  <2>2. Len(asked') <= Len(asked) + 1
    <3>1. asked \in Seq(Requests)
      BY DEF TypeInv, TypeOK, QueueTypes
    <3>2. <<"block", Current + 1>> \in Requests
      BY <1>1, <1>3, CurrentRequests
    <3>3. QED
      BY <2>1, <3>1, <3>2, AskedMore
  <2>3. Handshakes' = 0 /\ Handshakes = 0
    BY <2>1 DEF Handshakes
  <2>4. RequestsLeft' < RequestsLeft
    <3> DEFINE k == BlockRetries * (NumBlocks - Len(data))
               j == BlockRetries * (NumBlocks - Len(data) - 1)
    <3>1. /\ k \in Nat /\ j \in Nat /\ k = j + BlockRetries
          /\ attempts \in Nat /\ attempts < BlockRetries
      BY <1>1, BlocksLeft
    <3>2. RequestsLeft = k - attempts - 1
      BY DEF RequestsLeft
    <3>3. RequestsLeft' = j - 0 - 1
      <4>1. Len(data') = Len(data) + 1 /\ Len(data) \in Nat
        BY <2>1, Appended DEF TypeInv, TypeOK, DataTypes
      <4>2. NumBlocks - Len(data') = NumBlocks - Len(data) - 1
        BY <4>1, Numbers
      <4>3. RequestsLeft' = BlockRetries * (NumBlocks - Len(data')) - 0 - 1
        BY <2>1 DEF RequestsLeft
      <4>4. QED
        BY <4>2, <4>3
    <3> HIDE DEF k, j
    <3>4. QED
      BY <3>1, <3>2, <3>3, Numbers
  <2>5. phase' \notin Ended
    BY <2>1 DEF Ended
  <2>6. Handshakes' <= Handshakes
    BY <2>3
  <2>7. QED
    BY <1>1, <2>2, <2>4, <2>5, <2>6, Lowers
<1>4. QED
  BY <1>2, <1>3

\* A message is read that changes nothing else.
LEMMA ReadLowers ==
  ASSUME TypeInv, TypeInv', phase \notin Ended, wire # <<>>, wire' = Tail(wire),
         UNCHANGED <<phase, attempts, data, asked, remote>>
  PROVE  StepsLeft' < StepsLeft
<1>1. /\ Handshakes' = Handshakes /\ RequestsLeft' = RequestsLeft
      /\ Len(asked') = Len(asked) /\ Turns' = Turns
  BY DEF Handshakes, RequestsLeft, Turns, remote
<1>2. Len(wire') < Len(wire)
  <2>1. wire \in Seq(Messages)
    BY DEF TypeInv, TypeOK, QueueTypes
  <2>2. Len(wire') = Len(wire) - 1 /\ Len(wire) \in Nat
    BY <2>1, HeadTail
  <2>3. QED
    BY <2>2
<1>3. Handshakes' <= Handshakes
  BY <1>1, PartTypes
<1>4. QED
  BY <1>1, <1>2, <1>3, Lowers

LEMMA RoundsAtLeast ==
  ASSUME NEW b \in Nat \ {0}, NEW n \in Nat \ {0}
  PROVE  b * n >= n
<1>1. PICK k \in Nat : b = k + 1
  <2>1. b - 1 \in Nat /\ b = (b - 1) + 1
    OBVIOUS
  <2>2. QED
    BY <2>1
<1>2. b * n = k * n + n /\ k * n \in Nat
  BY <1>1
<1>3. QED
  BY <1>2

\* What follows the handshake.
LEMMA ProceedLowers ==
  ASSUME TypeInv, TypeInv', phase \in {"greet", "extension"}, NEW id, Proceed(id),
         wire # <<>>, wire' = Tail(wire), UNCHANGED <<data, remote>>, attempts' = 0
  PROVE  StepsLeft' < StepsLeft
<1>1. phase \notin Ended /\ Turns' = Turns
  BY DEF Ended, Turns, remote
<1>2. Len(wire') < Len(wire) /\ Len(wire') <= Len(wire)
  <2>1. wire \in Seq(Messages)
    BY DEF TypeInv, TypeOK, QueueTypes
  <2>2. Len(wire') = Len(wire) - 1 /\ Len(wire) \in Nat
    BY <2>1, HeadTail
  <2>3. QED
    BY <2>2
<1>3. Handshakes' <= Handshakes
  <2>1. phase' # "greet"
    BY DEF Proceed
  <2>2. Handshakes' = 0 /\ Handshakes \in Nat
    BY <1>1, <2>1, PartTypes DEF Handshakes
  <2>3. QED
    BY <2>2
<1>4. CASE phase' \in Ended
  BY <1>1, <1>4, EndLowers
<1>5. CASE phase' = "metadata"
  <2>1. Request(<<"data", 1>>)
    BY <1>5 DEF Proceed
  <2>2. Len(asked') <= Len(asked) + 1
    <3>1. asked \in Seq(Requests)
      BY DEF TypeInv, TypeOK, QueueTypes
    <3>2. <<"data", 1>> \in Requests
      BY Numbers DEF Requests
    <3>3. QED
      BY <2>1, <3>1, <3>2, AskedMore
  <2>3. data = <<>>
    BY DEF TypeInv, PhaseInv
  <2>4. RequestsLeft = BlockRetries * NumBlocks
    BY DEF RequestsLeft
  <2>5. RequestsLeft' = NumBlocks - 0 - 1
    <3>1. Len(data') = 0
      BY <2>3
    <3>2. RequestsLeft' = NumBlocks - Len(data') - 1
      BY <1>5 DEF RequestsLeft
    <3>3. QED
      BY <3>1, <3>2
  <2>6. BlockRetries * NumBlocks >= NumBlocks
    BY Numbers, RoundsAtLeast
  <2>7. RequestsLeft' < RequestsLeft
    <3> DEFINE k == BlockRetries * NumBlocks
    <3>1. k \in Nat
      BY Numbers, BlockRounds
    <3>2. k >= NumBlocks /\ RequestsLeft = k
      BY <2>4, <2>6
    <3> HIDE DEF k
    <3>3. QED
      BY <2>5, <3>1, <3>2, Numbers
  <2>8. phase' \notin Ended
    BY <1>5 DEF Ended
  <2>9. QED
    BY <1>1, <1>2, <1>3, <2>2, <2>7, <2>8, Lowers
<1>6. CASE phase' \in {"bitfield", "unchoke"}
  <2>1. asked' = asked /\ RequestsLeft' = RequestsLeft
    BY <1>6 DEF Proceed, RequestsLeft
  <2>2. phase' \notin Ended
    BY <1>6 DEF Ended
  <2>3. Len(asked') = Len(asked)
    BY <2>1
  <2>4. QED
    BY <1>1, <1>2, <1>3, <2>1, <2>2, <2>3, Lowers
<1>7. QED
  BY <1>4, <1>5, <1>6 DEF Proceed, Ended

LEMMA TailShorter ==
  ASSUME QueueTypes, wire # <<>>, wire' = Tail(wire)
  PROVE  Len(wire') < Len(wire) /\ Len(wire') <= Len(wire)
<1>1. Len(wire') = Len(wire) - 1 /\ Len(wire) \in Nat
  BY HeadTail DEF QueueTypes
<1>2. QED
  BY <1>1

LEMMA HandshakeLowers ==
  ASSUME TypeInv, TypeInv', Handshake \/ HandshakeFails
  PROVE  StepsLeft' < StepsLeft
<1>1. phase = "greet" /\ phase \notin Ended /\ Turns' = Turns
      /\ data' = data
  BY DEF Handshake, HandshakeFails, remote, Turns, Ended
<1>2. QueueTypes /\ attempts \in Nat /\ attempts < HandshakeAttempts
  BY <1>1 DEF TypeInv, TypeOK, CounterTypes
<1>3. CASE Handshake
  <2>1. wire # <<>> /\ wire' = Tail(wire) /\ attempts' = 0
    BY <1>3 DEF Handshake
  <2>2. CASE Head(wire) = <<"hello", 1>>
    <3>1. phase' = "extension" /\ asked' = asked
      BY <1>3, <2>2 DEF Handshake
    <3>2. RequestsLeft' = RequestsLeft /\ Len(asked') = Len(asked)
      BY <1>1, <3>1 DEF RequestsLeft
    <3>3. Handshakes' <= Handshakes
      <4>1. Handshakes' = 0 /\ Handshakes \in Nat
        BY <1>1, <3>1, PartTypes DEF Handshakes
      <4>2. QED
        BY <4>1
    <3>4. phase' \notin Ended
      BY <3>1 DEF Ended
    <3>5. QED
      BY <1>1, <1>2, <2>1, <3>2, <3>3, <3>4, TailShorter, Lowers
  <2>3. CASE Head(wire) # <<"hello", 1>>
    <3>1. Proceed(NoId) /\ UNCHANGED remote
      BY <1>3, <2>3 DEF Handshake
    <3>2. QED
      BY <1>1, <2>1, <3>1, ProceedLowers
  <2>4. QED
    BY <2>2, <2>3
<1>4. CASE HandshakeFails
  <2>1. asked' = asked /\ attempts' = attempts + 1 /\ Len(asked') = Len(asked)
    BY <1>4 DEF HandshakeFails
  <2>2. Len(wire') <= Len(wire)
    <3>1. \/ wire' = wire
          \/ wire # <<>> /\ wire' = Tail(wire)
      BY <1>4 DEF HandshakeFails
    <3>2. Len(wire) \in Nat
      BY <1>1, PartTypes
    <3>3. QED
      BY <1>2, <3>1, <3>2, TailShorter
  <2>3. CASE phase' = "failed"
    BY <1>1, <2>3, EndLowers DEF Ended
  <2>4. CASE phase' = "greet"
    <3>1. RequestsLeft' = RequestsLeft
      BY <1>1, <2>4 DEF RequestsLeft
    <3>2. Handshakes' < Handshakes
      <4>1. Handshakes = HandshakeAttempts - attempts
        BY <1>1 DEF Handshakes
      <4>2. Handshakes' = HandshakeAttempts - (attempts + 1)
        BY <2>1, <2>4 DEF Handshakes
      <4>3. QED
        BY <1>2, <4>1, <4>2, Numbers
    <3>3. phase' \notin Ended
      BY <2>4 DEF Ended
    <3>4. QED
      BY <1>1, <2>1, <2>2, <3>1, <3>2, <3>3, Lowers
  <2>5. QED
    BY <1>1, <1>4, <2>3, <2>4 DEF HandshakeFails
<1>5. QED
  BY <1>3, <1>4

LEMMA ExtensionLowers ==
  ASSUME TypeInv, TypeInv', ReceiveExtension \/ Defer, ~DefersAgain
  PROVE  StepsLeft' < StepsLeft
<1>1. phase = "extension" /\ phase \notin Ended
  BY DEF ReceiveExtension, Defer, Ended
<1>2. QueueTypes /\ PhaseInv
  BY DEF TypeInv, TypeOK
<1>3. CASE ReceiveExtension
  <2>1. /\ wire # <<>> /\ wire' = Tail(wire)
        /\ phase' = "failed" \/ Proceed(Head(wire)[2])
    BY <1>2, <1>3, ExtensionReads
  <2>2. UNCHANGED <<data, remote>> /\ attempts' = 0
    BY <1>1, <1>2, <1>3 DEF ReceiveExtension, PhaseInv
  <2>3. CASE phase' = "failed"
    BY <1>1, <2>3, EndLowers DEF Ended
  <2>4. CASE Proceed(Head(wire)[2])
    BY <1>1, <2>1, <2>2, <2>4, ProceedLowers
  <2>5. QED
    BY <2>1, <2>3, <2>4
<1>4. CASE Defer
  <2>1. pending = <<>>
    BY <1>4 DEF DefersAgain
  <2>2. wire # <<>> /\ wire' = Tail(wire)
    BY <1>4, <2>1 DEF Defer, Incoming
  <2>3. UNCHANGED <<phase, attempts, data, asked, remote>>
    BY <1>4 DEF Defer
  <2>4. QED
    BY <1>1, <2>2, <2>3, ReadLowers
<1>5. QED
  BY <1>3, <1>4

LEMMA ReceiveLowers ==
  ASSUME TypeInv, TypeInv', ReceiveBitfield \/ ReceiveUnchoke
  PROVE  StepsLeft' < StepsLeft
<1>1. /\ phase \in {"bitfield", "unchoke"} /\ phase \notin Ended
      /\ UNCHANGED <<attempts, data, remote>>
  BY DEF ReceiveBitfield, ReceiveUnchoke, Ended
<1>2. QueueTypes /\ PhaseInv
  BY DEF TypeInv, TypeOK
<1>3. PICK m \in Incoming :
        /\ Take(m)
        /\ \/ UNCHANGED <<phase, asked>>
           \/ phase' = "unchoke" /\ UNCHANGED asked
           \/ phase' = "blocks" /\ phase = "unchoke" /\ Request(<<"block", 1>>)
           \/ phase' \in Ended
  BY <1>1 DEF ReceiveBitfield, ReceiveUnchoke, Ended
<1>4. wire # <<>> /\ wire' = Tail(wire)
  BY <1>1, <1>2, <1>3, WireReads
<1>5. CASE UNCHANGED <<phase, asked>>
  BY <1>1, <1>4, <1>5, ReadLowers
<1>6. Turns' = Turns /\ Handshakes = 0
  BY <1>1 DEF Turns, Handshakes, remote
<1>7. CASE phase' = "unchoke" /\ UNCHANGED asked
  <2>1. RequestsLeft' = RequestsLeft /\ Len(asked') = Len(asked) /\ Handshakes' <= Handshakes
    BY <1>1, <1>6, <1>7 DEF RequestsLeft, Handshakes
  <2>2. phase' \notin Ended
    BY <1>7 DEF Ended
  <2>3. QED
    BY <1>1, <1>2, <1>4, <1>6, <2>1, <2>2, TailShorter, Lowers
<1>8. CASE phase' = "blocks" /\ phase = "unchoke" /\ Request(<<"block", 1>>)
  <2>1. asked \in Seq(Requests) /\ data = <<>> /\ attempts = 0
    BY <1>1, <1>2 DEF QueueTypes, PhaseInv
  <2>2. Len(asked') <= Len(asked) + 1
    <3>1. <<"block", 1>> \in Requests
      BY Numbers DEF Requests
    <3>2. QED
      BY <1>8, <2>1, <3>1, AskedMore
  <2>3. RequestsLeft' < RequestsLeft
    <3> DEFINE k == BlockRetries * NumBlocks
    <3>1. k \in Nat
      BY Numbers, BlockRounds
    <3>2. RequestsLeft = k
      BY <1>8 DEF RequestsLeft
    <3>3. RequestsLeft' = k - 1
      <4>1. Len(data') = 0 /\ attempts' = 0
        BY <1>1, <2>1
      <4>2. RequestsLeft' = BlockRetries * (NumBlocks - Len(data')) - attempts' - 1
        BY <1>8 DEF RequestsLeft
      <4>3. RequestsLeft' = BlockRetries * (NumBlocks - 0) - 0 - 1
        BY <4>1, <4>2
      <4>4. NumBlocks - 0 = NumBlocks
        BY Numbers
      <4>5. RequestsLeft' = k - 0 - 1
        BY <4>3, <4>4
      <4> HIDE DEF k
      <4>6. QED
        BY <3>1, <4>5
    <3> HIDE DEF k
    <3>4. QED
      BY <3>1, <3>2, <3>3
  <2>4. Handshakes' <= Handshakes
    BY <1>6, <1>8 DEF Handshakes
  <2>5. phase' \notin Ended
    BY <1>8 DEF Ended
  <2>6. QED
    BY <1>1, <1>2, <1>4, <1>6, <2>2, <2>3, <2>4, <2>5, TailShorter, Lowers
<1>9. CASE phase' \in Ended
  BY <1>1, <1>9, EndLowers
<1>10. QED
  BY <1>3, <1>5, <1>7, <1>8, <1>9

LEMMA BlockLowers ==
  ASSUME TypeInv, TypeInv', ReceiveBlock \/ BlockTimeout \/ ReadTorn
  PROVE  StepsLeft' < StepsLeft
<1>1. phase = "blocks" /\ phase \notin Ended /\ UNCHANGED remote
  BY DEF ReceiveBlock, BlockTimeout, ReadTorn, Ended
<1>2. QueueTypes /\ Len(data) \in Nat /\ Len(data) < NumBlocks
  BY <1>1 DEF TypeInv, TypeOK, DataTypes
<1>3. Current \in 0 .. NumBlocks /\ 0 \in 0 .. NumBlocks
  BY <1>2, Numbers DEF Current
<1>4. Len(wire) \in Nat
  BY <1>1, PartTypes
<1>5. CASE ReceiveBlock
  <2>1. PICK m \in Incoming :
          /\ Take(m)
          /\ \/ UNCHANGED <<phase, attempts, data, asked>>
             \/ NextBlock(Current)
             \/ phase' = "failed"
             \/ LoseAttempt /\ UNCHANGED data
    BY <1>5 DEF ReceiveBlock
  <2>2. wire # <<>> /\ wire' = Tail(wire)
    BY <1>1, <1>2, <2>1, WireReads
  <2>3. Len(wire') <= Len(wire)
    BY <1>2, <2>2, TailShorter
  <2>4. CASE UNCHANGED <<phase, attempts, data, asked>>
    BY <1>1, <2>2, <2>4, ReadLowers
  <2>5. CASE NextBlock(Current)
    BY <1>1, <1>3, <2>3, <2>5, NextLowers
  <2>6. CASE phase' = "failed"
    BY <1>1, <2>6, EndLowers DEF Ended
  <2>7. CASE LoseAttempt /\ UNCHANGED data
    BY <1>1, <2>3, <2>7, LoseLowers
  <2>8. QED
    BY <2>1, <2>4, <2>5, <2>6, <2>7
<1>6. CASE BlockTimeout
  <2>1. LoseAttempt /\ UNCHANGED data /\ (wire' = wire \/ wire' = <<>>)
    BY <1>6 DEF BlockTimeout
  <2>2. Len(wire') <= Len(wire)
    BY <1>4, <2>1
  <2>3. QED
    BY <1>1, <2>1, <2>2, LoseLowers
<1>7. CASE ReadTorn
  <2>1. /\ wire' = wire
        /\ \/ LoseAttempt /\ UNCHANGED data
           \/ NextBlock(0)
           \/ phase' = "failed"
    BY <1>7 DEF ReadTorn
  <2>2. Len(wire') <= Len(wire)
    BY <1>4, <2>1
  <2>3. CASE LoseAttempt /\ UNCHANGED data
    BY <1>1, <2>2, <2>3, LoseLowers
  <2>4. CASE NextBlock(0)
    BY <1>1, <1>3, <2>2, <2>4, NextLowers
  <2>5. CASE phase' = "failed"
    BY <1>1, <2>5, EndLowers DEF Ended
  <2>6. QED
    BY <2>1, <2>3, <2>4, <2>5
<1>8. QED
  BY <1>5, <1>6, <1>7

LEMMA MetadataLowers ==
  ASSUME TypeInv, TypeInv', ReceiveMetadata
  PROVE  StepsLeft' < StepsLeft
<1>1. phase = "metadata" /\ phase \notin Ended /\ UNCHANGED <<attempts, remote>>
  BY DEF ReceiveMetadata, Ended
<1>2. QueueTypes /\ Len(data) \in Nat /\ Len(data) < NumBlocks
  BY <1>1 DEF TypeInv, TypeOK, DataTypes
<1>3. PICK m \in Incoming :
        /\ Take(m)
        /\ \/ /\ data' = Append(data, Current)
              /\ Current # NumBlocks
              /\ Request(<<"data", Current + 1>>)
              /\ UNCHANGED phase
           \/ phase' \in Ended
           \/ UNCHANGED <<phase, data, asked>>
  BY DEF ReceiveMetadata, Ended
<1>4. wire # <<>> /\ wire' = Tail(wire)
  BY <1>1, <1>2, <1>3, WireReads
<1>5. CASE /\ data' = Append(data, Current)
           /\ Current # NumBlocks
           /\ Request(<<"data", Current + 1>>)
           /\ UNCHANGED phase
  <2>1. Len(asked') <= Len(asked) + 1
    <3>1. asked \in Seq(Requests) /\ <<"data", Current + 1>> \in Requests
      BY <1>1, <1>2, <1>5, CurrentRequests DEF QueueTypes
    <3>2. QED
      BY <1>5, <3>1, AskedMore
  <2>2. RequestsLeft' < RequestsLeft
    <3>1. Len(data') = Len(data) + 1
      <4>1. data \in Seq(0 .. NumBlocks) /\ Current \in 0 .. NumBlocks
        BY <1>2, Numbers DEF TypeInv, TypeOK, DataTypes, Current
      <4>2. QED
        BY <1>5, <4>1, Appended
    <3>2. /\ RequestsLeft = NumBlocks - Len(data) - 1
          /\ RequestsLeft' = NumBlocks - Len(data') - 1
      BY <1>1, <1>5 DEF RequestsLeft
    <3>3. RequestsLeft' = NumBlocks - (Len(data) + 1) - 1
      BY <3>1, <3>2
    <3>4. QED
      BY <1>2, <3>2, <3>3, Numbers
  <2>3. /\ Handshakes' <= Handshakes /\ Turns' = Turns
        /\ phase' \notin Ended
    BY <1>1, <1>5 DEF Handshakes, Turns, remote
  <2>4. QED
    BY <1>1, <1>2, <1>4, <2>1, <2>2, <2>3, TailShorter, Lowers
<1>6. CASE phase' \in Ended
  BY <1>1, <1>6, EndLowers
<1>7. CASE UNCHANGED <<phase, data, asked>>
  BY <1>1, <1>4, <1>7, ReadLowers
<1>8. QED
  BY <1>3, <1>5, <1>6, <1>7

LEMMA LossLowers ==
  ASSUME TypeInv, TypeInv', ReadTimeout \/ ConnectionLost
  PROVE  StepsLeft' < StepsLeft
<1>1. phase \notin Ended /\ UNCHANGED <<data, wire, remote>>
  BY DEF ReadTimeout, ConnectionLost, Ended
<1>2. \/ phase' = "failed"
      \/ phase = "blocks" /\ LoseAttempt
  BY DEF ReadTimeout, ConnectionLost
<1>3. CASE phase' = "failed"
  BY <1>1, <1>3, EndLowers DEF Ended
<1>4. CASE phase = "blocks" /\ LoseAttempt
  <2>1. Len(wire') <= Len(wire)
    BY <1>1, PartTypes
  <2>2. QED
    BY <1>1, <1>4, <2>1, LoseLowers
<1>5. QED
  BY <1>2, <1>3, <1>4

LEMMA RemoteLowers ==
  ASSUME TypeInv, TypeInv', peer # "silent",
         Greet \/ Answer \/ Unchoke \/ HangUp
  PROVE  StepsLeft' < StepsLeft
<1>1. phase \notin Ended /\ UNCHANGED <<phase, attempts, data>>
  BY DEF Greet, Answer, Unchoke, HangUp, Talks, client
<1>2. Handshakes' = Handshakes /\ RequestsLeft' = RequestsLeft /\ phase' \notin Ended
  BY <1>1 DEF Handshakes, RequestsLeft
<1>3. /\ wire \in Seq(Messages) /\ asked \in Seq(Requests)
      /\ Len(asked) \in Nat /\ Len(wire) \in Nat
  BY <1>1, PartTypes DEF TypeInv, TypeOK, QueueTypes
<1>4. \A m : Len(Append(wire, m)) = Len(wire) + 1
  BY <1>3
<1>5. CASE Answer
  <2>1. Len(asked') < Len(asked)
    <3>1. asked # <<>> /\ asked' = Tail(asked)
      BY <1>5 DEF Answer
    <3>2. Len(asked') = Len(asked) - 1
      BY <1>3, <3>1, HeadTail
    <3>3. QED
      BY <1>3, <3>2
  <2>2. Len(wire') = Len(wire) + 1
    BY <1>4, <1>5 DEF Answer
  <2>3. Turns' = Turns
    BY <1>5 DEF Answer, Turns, remote
  <2>4. QED
    BY <1>1, <1>2, <2>1, <2>2, <2>3, Lowers
<1>7. CASE Unchoke
  <2>1. Len(wire') = Len(wire) + 1
    BY <1>4, <1>7 DEF Unchoke
  <2>2. Len(asked') = Len(asked)
    BY <1>7 DEF Unchoke
  <2>3. Turns' = Turns - 2
    BY <1>7 DEF Unchoke, Turns
  <2>4. QED
    BY <1>1, <1>2, <2>1, <2>2, <2>3, Lowers
<1>8. CASE HangUp
  <2>1. Len(wire') = Len(wire)
    BY <1>8 DEF HangUp
  <2>2. Len(asked') <= Len(asked)
    <3>1. asked' = <<>>
      BY <1>8 DEF HangUp
    <3>2. QED
      BY <1>3, <3>1
  <2>3. Turns' < Turns
    <3>1. peer = "open" /\ peer' = "closed" /\ choking' = choking
      BY <1>8 DEF HangUp, TypeInv, TypeOK, ScalarTypes
    <3>2. QED
      BY <3>1 DEF Turns
  <2>4. QED
    BY <1>1, <1>2, <2>1, <2>2, <2>3, Lowers
<1>9. QED
  BY <1>5, <1>7, <1>8 DEF Greet

\* A message that comes unasked is to be read, and a choke to be followed by an
\* unchoke.
LEMMA UnaskedRaises ==
  ASSUME TypeInv, TypeInv', SendsUnasked
  PROVE  StepsLeft' <= StepsLeft + 3
<1>1. phase \notin Ended /\ UNCHANGED <<phase, attempts, data, peer>>
  BY DEF SendsUnasked, Chat, Choke, Talks, client
<1>2. Handshakes' = Handshakes /\ RequestsLeft' = RequestsLeft /\ phase' \notin Ended
  BY <1>1 DEF Handshakes, RequestsLeft
<1>3. Len(wire') = Len(wire) + 1
  <2>1. wire \in Seq(Messages)
    BY DEF TypeInv, TypeOK, QueueTypes
  <2>2. \A m : Len(Append(wire, m)) = Len(wire) + 1
    BY <2>1
  <2>3. QED
    BY <2>2 DEF SendsUnasked, Chat, Choke
<1>4. Len(asked') <= Len(asked)
  <2>1. asked' = asked \/ asked' = <<>>
    BY DEF SendsUnasked, Chat, Choke
  <2>2. Len(asked) \in Nat
    BY <1>1, PartTypes
  <2>3. QED
    BY <2>1, <2>2
<1>5. Turns' <= Turns + 2
  BY <1>1 DEF Turns
<1> DEFINE h == Handshakes
           r == RequestsLeft
           a == Len(asked)
           w == Len(wire)
           t == Turns
           a1 == Len(asked')
           t1 == Turns'
<1>6. h \in Nat /\ r \in Nat /\ a \in Nat /\ w \in Nat /\ t \in Nat
  BY <1>1, PartTypes
<1>7. a1 \in Nat /\ t1 \in Nat /\ a1 <= a /\ t1 <= t + 2
  BY <1>2, <1>4, <1>5, PartTypesStill
<1>8. StepsLeft = 1 + h + 3 * r + 2 * a + w + t
  BY <1>1, StepsLeftParts DEF Sum
<1>9. StepsLeft' = 1 + h + 3 * r + 2 * a1 + (w + 1) + t1
  <2>1. StepsLeft' = Sum'
    BY <1>2, StepsLeftPartsStill
  <2>2. QED
    BY <1>2, <1>3, <2>1 DEF Sum
<1> HIDE DEF h, r, a, w, t, a1, t1
<1>10. QED
  BY <1>6, <1>7, <1>8, <1>9

\* After the greeting every step of either side takes at least one from a
\* number that is never negative, except two kinds: a message that was put off
\* is put off again, which takes nothing, and a message comes unasked, which
\* adds at most three.  Before the greeting there is one step, which ends the
\* silence.  So a connection goes on for ever only with infinitely many steps of
\* these two kinds, and no bound on what a peer sends unasked is assumed.
THEOREM EveryStepIsPaidFor ==
  Spec => /\ StepsRunOut
          /\ [](StepsLeft \in Nat)
          /\ [][peer' # "silent"]_vars
<1>1. TypeInv /\ TypeInv' /\ [Next]_vars
        => [\/ peer = "silent"
            \/ DefersAgain
            \/ SendsUnasked /\ StepsLeft' <= StepsLeft + 3
            \/ StepsLeft' < StepsLeft]_vars
  <2> SUFFICES ASSUME TypeInv, TypeInv', Next, peer # "silent", ~DefersAgain
               PROVE  \/ SendsUnasked /\ StepsLeft' <= StepsLeft + 3
                      \/ StepsLeft' < StepsLeft
    OBVIOUS
  <2>1. CASE Handshake \/ HandshakeFails
    BY <2>1, HandshakeLowers
  <2>2. CASE ReceiveExtension \/ Defer
    BY <2>2, ExtensionLowers
  <2>3. CASE ReceiveBitfield \/ ReceiveUnchoke
    BY <2>3, ReceiveLowers
  <2>4. CASE ReceiveBlock \/ BlockTimeout \/ ReadTorn
    BY <2>4, BlockLowers
  <2>5. CASE ReceiveMetadata
    BY <2>5, MetadataLowers
  <2>6. CASE ReadTimeout \/ ConnectionLost
    BY <2>6, LossLowers
  <2>7. CASE Remote
    BY <2>7, RemoteLowers, UnaskedRaises DEF Remote, SendsUnasked
  <2>8. QED
    BY <2>1, <2>2, <2>3, <2>4, <2>5, <2>6, <2>7 DEF Next, Client
<1>2. TypeInv => StepsLeft \in Nat
  BY StepsLeftParts
<1>3. TypeInv /\ [Next]_vars => [peer' # "silent"]_vars
  <2> SUFFICES ASSUME TypeInv, Next PROVE peer' # "silent"
    OBVIOUS
  <2>1. CASE Greet \/ HangUp
    BY <2>1 DEF Greet, HangUp
  <2>2. CASE ~Greet /\ ~HangUp
    <3>1. peer' = peer
      BY <2>2 DEF Next, Client, Remote, Handshake, HandshakeFails, ReceiveExtension,
                  Defer, ReceiveBitfield, ReceiveUnchoke, ReceiveBlock, BlockTimeout,
                  ReadTorn, ReceiveMetadata, ReadTimeout, ConnectionLost, Answer,
                  Chat, Choke, Unchoke, remote
    <3>2. SUFFICES ASSUME peer = "silent" PROVE FALSE
      BY <3>1
    <3>3. phase = "greet" /\ wire = <<>>
      BY <3>2 DEF TypeInv, PhaseInv
    <3>4. ~Remote
      BY <2>2, <3>2 DEF Remote, Answer, Chat, Choke, Unchoke, Talks
    <3>5. ~Client
      BY <3>2, <3>3 DEF Client, Handshake, HandshakeFails, ReceiveExtension, Defer,
           ReceiveBitfield, ReceiveUnchoke, ReceiveBlock, BlockTimeout, ReadTorn,
           ReceiveMetadata, ReadTimeout, ConnectionLost
    <3>6. QED
      BY <3>4, <3>5 DEF Next
  <2>3. QED
    BY <2>1, <2>2
<1>4. QED
  BY <1>1, <1>2, <1>3, TypeInvariant, PTL DEF Spec, StepsRunOut
=============================================================================
