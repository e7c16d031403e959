------------------------- MODULE DownloadSource_proofs -------------------------
(***************************************************************************)
(* Proofs about the search for peers, for any listing of trackers and any  *)
(* number of peers: which tracker wins, and what the user is told.         *)
(***************************************************************************)
EXTENDS DownloadSource, TLAPS

-----------------------------------------------------------------------------
(* The invariant *)

Answers == 1 .. Len(answers)

\* Until the trackers are listed nothing else has happened.
Unasked == phase = "list" => /\ answers = <<>>
                             /\ errors = <<>>
                             /\ lastEmpty = 0

\* Before it ends, a command has told nobody anything, and has chosen a
\* tracker only if it asks peers.
Undecided == /\ phase \in {"list", "ask"} => /\ selected = 0
                                             /\ told = <<>>
             /\ phase # "ended" <=> result = "pending"
             /\ outcome # "pending" => phase = "ask" /\ Current <= Len(trackers)

\* errors has the positions of the trackers that failed.
ErrorsListed ==
  /\ \A i \in Answers : answers[i] = "error" => \E j \in DOMAIN errors : errors[j] = i
  /\ \A j \in DOMAIN errors : errors[j] \in Answers /\ answers[errors[j]] = "error"

\* lastEmpty has the last position of an answer without peers.
EmptyListed == /\ lastEmpty # 0 => answers[lastEmpty] = "none"
               /\ \A i \in Answers : answers[i] = "none" => i <= lastEmpty

\* Only the last answer has peers, and it has ended the search.
PeersLast == \A i \in Answers : answers[i] = "peers" => i = Len(answers) /\ selected = i

\* Peers are asked for metadata by a magnet link's command only, and peers
\* are listed for .torrent files only.
Metadata ==
  /\ use = "peers" => ~magnet
  /\ phase = "metadata" => /\ selected # 0
                           /\ answers[selected] = "peers"
                           /\ magnet
                           /\ use = "first" => told = errors /\ untried = 1

\* What is told at the end.
ToldErrors == phase = "ended" => told = errors \/ Deserted

Inv == /\ TypeOK
       /\ AskedOnce
       /\ Unasked
       /\ Undecided
       /\ ErrorsListed
       /\ EmptyListed
       /\ PeersLast
       /\ Metadata
       /\ ToldErrors
       /\ FirstWithPeers
       /\ ErrorsAreTrue

-----------------------------------------------------------------------------
(* Lemmas about the pieces that actions share *)

\* What Append does.
LEMMA AppendLast ==
  ASSUME NEW S, NEW s \in Seq(S), NEW e \in S
  PROVE  /\ Len(Append(s, e)) = Len(s) + 1
         /\ \A i \in 1 .. Len(s) : Append(s, e)[i] = s[i]
         /\ Append(s, e)[Len(s) + 1] = e
OBVIOUS

\* An answer is appended to those before it.
LEMMA Answered ==
  ASSUME TypeOK, NextQuery, outcome # "pending"
  PROVE  /\ Len(answers') = Len(answers) + 1
         /\ \A i \in Answers : answers'[i] = answers[i]
         /\ answers'[Current] = outcome
         /\ answers' \in Seq({"error"} \union Query!Results)
BY DEF TypeOK, NextQuery, Answers, Current, Query!Results

\* The three ways on from a response.
LEMMA UsePeersCases ==
  ASSUME NEW n \in Nat, NEW position, UsePeers(n, position)
  PROVE  /\ selected' = position
         /\ \/ /\ n = 0
               /\ phase' = "ended"
               /\ result' = IF errors = <<>> THEN "no_peers" ELSE "no_peers_after_errors"
               /\ told' = errors
               /\ UNCHANGED untried
            \/ /\ n > 0
               /\ ~magnet
               /\ phase' = "ended"
               /\ result' = "ok"
               /\ told' = errors
               /\ UNCHANGED untried
            \/ /\ n > 0
               /\ magnet
               /\ phase' = "metadata"
               /\ untried' = IF use = "first" THEN 1 ELSE n
               /\ told' = IF use = "first" THEN errors ELSE told
               /\ UNCHANGED result
<1>1. CASE n = 0 /\ errors = <<>>
  BY <1>1 DEF UsePeers, End
<1>2. CASE n = 0 /\ errors # <<>>
  BY <1>2 DEF UsePeers, End
<1>3. CASE n > 0
  <2>1. n # 0
    BY <1>3
  <2>2. CASE ~magnet
    BY <1>3, <2>1, <2>2 DEF UsePeers, End
  <2>3. CASE magnet
    BY <1>3, <2>1, <2>3 DEF UsePeers, End
  <2>4. QED
    BY <2>2, <2>3
<1>4. QED
  BY <1>1, <1>2, <1>3

-----------------------------------------------------------------------------
(* Every action preserves the invariant. *)

LEMMA ListTrackerStep == ASSUME Inv, ListTracker PROVE Inv'
<1> USE DEF ListTracker, query, Positions, Uses, Query!Results, TypeOK
<1>0. /\ TypeOK /\ AskedOnce /\ Unasked /\ Undecided /\ ErrorsListed
      /\ EmptyListed /\ PeersLast /\ Metadata /\ ToldErrors
      /\ FirstWithPeers /\ ErrorsAreTrue
  BY DEF Inv
<1>1. TypeOK'
  BY <1>0 DEF Unasked, Undecided, Push
<1>2. AskedOnce'
  <2>1. CASE magnet \/ trackers' = trackers
    BY <1>0, <2>1 DEF AskedOnce
  <2>2. CASE ~magnet /\ trackers' # trackers
    <3> DEFINE u == Head(listed)
    <3>1. /\ trackers' = Append(trackers, u)
          /\ u # Empty
          /\ \A i \in 1 .. Len(trackers) : trackers[i] # u
      BY <2>2 DEF Push, Listed
    <3>2. u \in Urls
      BY <1>0
    <3>3. trackers \in Seq(Urls) /\ Len(trackers) \in Nat
      BY <1>0
    <3> HIDE DEF u
    <3>4. /\ \A i, j \in 1 .. Len(trackers) : trackers[i] = trackers[j] => i = j
          /\ \A i \in 1 .. Len(trackers) : trackers[i] # Empty
      BY <1>0, <2>2 DEF AskedOnce
    <3>5. /\ Len(trackers') = Len(trackers) + 1
          /\ \A i \in 1 .. Len(trackers) : trackers'[i] = trackers[i]
          /\ trackers'[Len(trackers) + 1] = u
      BY <3>1, <3>2, <3>3, AppendLast
    <3>6. /\ \A i, j \in 1 .. Len(trackers') : trackers'[i] = trackers'[j] => i = j
          /\ \A i \in 1 .. Len(trackers') : trackers'[i] # Empty
      <4>1. \A i \in 1 .. Len(trackers') : i = Len(trackers) + 1 \/ i \in 1 .. Len(trackers)
        BY <3>5, <3>3
      <4>2. QED
        BY <3>1, <3>4, <3>5, <4>1, <3>3
    <3>7. QED
      BY <3>6 DEF AskedOnce
  <2>3. QED
    BY <2>1, <2>2
<1>3. Unasked'
  BY <1>0 DEF Unasked
<1>4. Undecided'
  BY <1>0 DEF Undecided, Current, Unasked
<1>5. ErrorsListed'
  BY <1>0 DEF ErrorsListed, Answers
<1>6. EmptyListed'
  BY <1>0 DEF EmptyListed, Answers, Unasked
<1>7. PeersLast'
  BY <1>0 DEF PeersLast, Answers, Undecided
<1>8. Metadata'
  BY <1>0 DEF Metadata, Undecided
<1>9. ToldErrors'
  BY <1>0 DEF ToldErrors, Deserted, Unasked, Metadata
<1>10. FirstWithPeers'
  BY <1>0 DEF FirstWithPeers, Answers, Undecided
<1>11. ErrorsAreTrue'
  BY <1>0 DEF ErrorsAreTrue, Deserted, Undecided, Metadata
<1>12. QED
  BY <1>1, <1>2, <1>3, <1>4, <1>5, <1>6, <1>7, <1>8, <1>9, <1>10, <1>11 DEF Inv

LEMMA StartQueriesStep == ASSUME Inv, StartQueries PROVE Inv'
<1> USE DEF StartQueries, End, query, Positions, Uses, Query!Results, TypeOK
<1>0. /\ TypeOK /\ AskedOnce /\ Unasked /\ Undecided /\ ErrorsListed
      /\ EmptyListed /\ PeersLast /\ Metadata /\ ToldErrors
      /\ FirstWithPeers /\ ErrorsAreTrue
  BY DEF Inv
<1>1. TypeOK'
  BY <1>0 DEF Undecided
<1>2. AskedOnce'
  BY <1>0 DEF AskedOnce, Positions
<1>3. Unasked'
  BY <1>0 DEF Unasked
<1>4. Undecided'
  BY <1>0 DEF Undecided, Current, Unasked
<1>5. ErrorsListed'
  BY <1>0 DEF ErrorsListed, Answers
<1>6. EmptyListed'
  BY <1>0 DEF EmptyListed, Answers, Unasked
<1>7. PeersLast'
  BY <1>0 DEF PeersLast, Answers, Undecided
<1>8. Metadata'
  BY <1>0 DEF Metadata, Undecided
<1>9. ToldErrors'
  BY <1>0 DEF ToldErrors, Deserted, Unasked, Metadata
<1>10. FirstWithPeers'
  BY <1>0 DEF FirstWithPeers, Answers, Undecided
<1>11. ErrorsAreTrue'
  BY <1>0 DEF ErrorsAreTrue, Deserted, Undecided, Metadata
<1>12. QED
  BY <1>1, <1>2, <1>3, <1>4, <1>5, <1>6, <1>7, <1>8, <1>9, <1>10, <1>11 DEF Inv

LEMMA TrackerAnswersStep == ASSUME Inv, TrackerAnswers PROVE Inv'
<1> USE DEF TrackerAnswers, Asking, Query!Give, Positions, Uses, Query!Results, TypeOK
<1>0. /\ TypeOK /\ AskedOnce /\ Unasked /\ Undecided /\ ErrorsListed
      /\ EmptyListed /\ PeersLast /\ Metadata /\ ToldErrors
      /\ FirstWithPeers /\ ErrorsAreTrue
  BY DEF Inv
<1>1. TypeOK'
  BY <1>0 DEF Undecided
<1>2. AskedOnce'
  BY <1>0 DEF AskedOnce, Positions
<1>3. Unasked'
  BY <1>0 DEF Unasked
<1>4. Undecided'
  BY <1>0 DEF Undecided, Current, Unasked
<1>5. ErrorsListed'
  BY <1>0 DEF ErrorsListed, Answers
<1>6. EmptyListed'
  BY <1>0 DEF EmptyListed, Answers, Unasked
<1>7. PeersLast'
  BY <1>0 DEF PeersLast, Answers, Undecided
<1>8. Metadata'
  BY <1>0 DEF Metadata, Undecided
<1>9. ToldErrors'
  BY <1>0 DEF ToldErrors, Deserted, Unasked, Metadata
<1>10. FirstWithPeers'
  BY <1>0 DEF FirstWithPeers, Answers, Undecided
<1>11. ErrorsAreTrue'
  BY <1>0 DEF ErrorsAreTrue, Deserted, Undecided, Metadata
<1>12. QED
  BY <1>1, <1>2, <1>3, <1>4, <1>5, <1>6, <1>7, <1>8, <1>9, <1>10, <1>11 DEF Inv

LEMMA QueryReturnsStep == ASSUME Inv, QueryReturns PROVE Inv'
<1> USE DEF QueryReturns, Asking, Query!Return, Positions, Uses, Query!Results, TypeOK
<1>0. /\ TypeOK /\ AskedOnce /\ Unasked /\ Undecided /\ ErrorsListed
      /\ EmptyListed /\ PeersLast /\ Metadata /\ ToldErrors
      /\ FirstWithPeers /\ ErrorsAreTrue
  BY DEF Inv
<1>1. TypeOK'
  BY <1>0 DEF Undecided
<1>2. AskedOnce'
  BY <1>0 DEF AskedOnce, Positions
<1>3. Unasked'
  BY <1>0 DEF Unasked
<1>4. Undecided'
  BY <1>0 DEF Undecided, Current, Unasked
<1>5. ErrorsListed'
  BY <1>0 DEF ErrorsListed, Answers
<1>6. EmptyListed'
  BY <1>0 DEF EmptyListed, Answers, Unasked
<1>7. PeersLast'
  BY <1>0 DEF PeersLast, Answers, Undecided
<1>8. Metadata'
  BY <1>0 DEF Metadata, Undecided
<1>9. ToldErrors'
  BY <1>0 DEF ToldErrors, Deserted, Unasked, Metadata
<1>10. FirstWithPeers'
  BY <1>0 DEF FirstWithPeers, Answers, Undecided
<1>11. ErrorsAreTrue'
  BY <1>0 DEF ErrorsAreTrue, Deserted, Undecided, Metadata
<1>12. QED
  BY <1>1, <1>2, <1>3, <1>4, <1>5, <1>6, <1>7, <1>8, <1>9, <1>10, <1>11 DEF Inv

LEMMA FoundPeersStep == ASSUME Inv, FoundPeers PROVE Inv'
<1>0. /\ TypeOK /\ AskedOnce /\ Unasked /\ Undecided /\ ErrorsListed
      /\ EmptyListed /\ PeersLast /\ Metadata /\ ToldErrors
      /\ FirstWithPeers /\ ErrorsAreTrue
  BY DEF Inv
<1>A. /\ Len(answers') = Len(answers) + 1
      /\ \A i \in Answers : answers'[i] = answers[i]
      /\ answers'[Current] = "peers"
      /\ answers' \in Seq({"error"} \union Query!Results)
  BY <1>0, Answered DEF FoundPeers
<1>B. /\ selected = 0
      /\ Current <= Len(trackers)
      /\ Len(answers) \in Nat
      /\ Current = Len(answers) + 1
  BY <1>0 DEF Undecided, TypeOK, FoundPeers, Current
<1>C. \A i \in Answers : answers[i] # "peers"
  BY <1>0, <1>B DEF PeersLast, Answers
<1>E. /\ \A i \in Answers' : i = Current \/ i \in Answers
      /\ Current \in Answers' /\ Answers \subseteq Answers'
      /\ \A i \in Answers : i < Current
      /\ lastEmpty # 0 => lastEmpty \in Answers
  BY <1>0, <1>A, <1>B DEF Answers, TypeOK
<1>D. /\ selected' = Current
      /\ \/ /\ phase' = "ended"
            /\ result' = "ok"
            /\ told' = errors
            /\ UNCHANGED untried
         \/ /\ magnet
            /\ phase' = "metadata"
            /\ untried' \in 1 .. MaxPeers
            /\ use = "first" => told' = errors /\ untried' = 1
            /\ use # "first" => told' = told
            /\ UNCHANGED result
  <2>1. PICK n \in 1 .. MaxPeers : UsePeers(n, Current)
    BY DEF FoundPeers
  <2>2. n \in Nat /\ n > 0 /\ 1 \in 1 .. MaxPeers
    BY ListingAssumption
  <2>3. QED
    BY <2>1, <2>2, UsePeersCases
<1>1. TypeOK'
  <2>1. /\ UNCHANGED <<magnet, use, listed, trackers, lastEmpty, errors>>
        /\ given' = {}
        /\ outcome' = "pending"
    BY DEF FoundPeers, NextQuery
  <2>2. /\ selected' \in 0 .. Len(answers')
        /\ untried' \in 0 .. MaxPeers
        /\ told' \in Seq(Positions)
    BY <1>0, <1>A, <1>B, <1>D DEF TypeOK
  <2>3. lastEmpty' \in 0 .. Len(answers') /\ Len(answers') <= Len(trackers')
    BY <1>0, <1>A, <1>B, <2>1 DEF TypeOK
  <2>4. /\ phase' \in {"ask", "metadata", "ended"}
        /\ result' \in {result, "ok"}
    BY <1>D
  <2>5. QED
    BY <1>0, <1>A, <2>1, <2>2, <2>3, <2>4 DEF TypeOK, Positions
<1>2. AskedOnce'
  BY <1>0 DEF FoundPeers, AskedOnce, Positions
<1>3. Unasked'
  BY <1>D DEF Unasked
<1>4. Undecided'
  BY <1>0, <1>D DEF FoundPeers, NextQuery, Undecided
<1>5. ErrorsListed'
  <2>1. UNCHANGED errors
    BY DEF FoundPeers
  <2>2. QED
    BY <1>0, <1>A, <1>E, <2>1 DEF ErrorsListed
<1>6. EmptyListed'
  <2>1. UNCHANGED lastEmpty
    BY DEF FoundPeers
  <2>2. QED
    BY <1>0, <1>A, <1>E, <2>1 DEF EmptyListed
<1>7. PeersLast'
  BY <1>A, <1>B, <1>C, <1>D DEF PeersLast, Answers
<1>8. Metadata'
  BY <1>0, <1>A, <1>B, <1>D DEF Metadata, FoundPeers
<1>9. ToldErrors'
  BY <1>D DEF FoundPeers, ToldErrors
<1>10. FirstWithPeers'
  BY <1>A, <1>B, <1>C, <1>D DEF FirstWithPeers, Answers
<1>11. ErrorsAreTrue'
  BY <1>0, <1>D DEF ErrorsAreTrue, FoundPeers, Undecided
<1>12. QED
  BY <1>1, <1>2, <1>3, <1>4, <1>5, <1>6, <1>7, <1>8, <1>9, <1>10, <1>11 DEF Inv

LEMMA FoundNoneStep == ASSUME Inv, FoundNone PROVE Inv'
<1>0. /\ TypeOK /\ AskedOnce /\ Unasked /\ Undecided /\ ErrorsListed
      /\ EmptyListed /\ PeersLast /\ Metadata /\ ToldErrors
      /\ FirstWithPeers /\ ErrorsAreTrue
  BY DEF Inv
<1>A. /\ Len(answers') = Len(answers) + 1
      /\ \A i \in Answers : answers'[i] = answers[i]
      /\ answers'[Current] = "none"
      /\ answers' \in Seq({"error"} \union Query!Results)
  BY <1>0, Answered DEF FoundNone
<1>B. /\ selected = 0
      /\ Current <= Len(trackers)
      /\ Len(answers) \in Nat
      /\ Current = Len(answers) + 1
  BY <1>0 DEF Undecided, TypeOK, FoundNone, Current
<1>C. \A i \in Answers : answers[i] # "peers"
  BY <1>0, <1>B DEF PeersLast, Answers
<1>E. /\ \A i \in Answers' : i = Current \/ i \in Answers
      /\ Current \in Answers' /\ Answers \subseteq Answers'
      /\ \A i \in Answers : i < Current
      /\ lastEmpty # 0 => lastEmpty \in Answers
  BY <1>0, <1>A, <1>B DEF Answers, TypeOK
<1>1. TypeOK'
  BY <1>0, <1>A, <1>B DEF FoundNone, NextQuery, TypeOK, Query!Results, Positions
<1>2. AskedOnce'
  BY <1>0 DEF FoundNone, AskedOnce, Positions
<1>3. Unasked'
  BY DEF FoundNone, Unasked
<1>4. Undecided'
  BY <1>0 DEF FoundNone, NextQuery, Undecided
<1>5. ErrorsListed'
  <2>1. UNCHANGED errors
    BY DEF FoundNone
  <2>2. QED
    BY <1>0, <1>A, <1>E, <2>1 DEF ErrorsListed
<1>6. EmptyListed'
  <2>1. lastEmpty' = Current
    BY DEF FoundNone
  <2>2. QED
    BY <1>0, <1>A, <1>B, <1>E, <2>1 DEF EmptyListed
<1>7. PeersLast'
  BY <1>A, <1>B, <1>C DEF PeersLast, Answers
<1>8. Metadata'
  BY <1>0 DEF FoundNone, Metadata
<1>9. ToldErrors'
  BY DEF FoundNone, ToldErrors
<1>10. FirstWithPeers'
  BY <1>B DEF FoundNone, FirstWithPeers
<1>11. ErrorsAreTrue'
  BY <1>0 DEF FoundNone, ErrorsAreTrue, Undecided
<1>12. QED
  BY <1>1, <1>2, <1>3, <1>4, <1>5, <1>6, <1>7, <1>8, <1>9, <1>10, <1>11 DEF Inv

LEMMA FailedStep == ASSUME Inv, Failed PROVE Inv'
<1>0. /\ TypeOK /\ AskedOnce /\ Unasked /\ Undecided /\ ErrorsListed
      /\ EmptyListed /\ PeersLast /\ Metadata /\ ToldErrors
      /\ FirstWithPeers /\ ErrorsAreTrue
  BY DEF Inv
<1>A. /\ Len(answers') = Len(answers) + 1
      /\ \A i \in Answers : answers'[i] = answers[i]
      /\ answers'[Current] = "error"
      /\ answers' \in Seq({"error"} \union Query!Results)
  BY <1>0, Answered DEF Failed
<1>B. /\ selected = 0
      /\ Current <= Len(trackers)
      /\ Len(answers) \in Nat
      /\ Current = Len(answers) + 1
  BY <1>0 DEF Undecided, TypeOK, Failed, Current
<1>C. \A i \in Answers : answers[i] # "peers"
  BY <1>0, <1>B DEF PeersLast, Answers
<1>E. /\ \A i \in Answers' : i = Current \/ i \in Answers
      /\ Current \in Answers' /\ Answers \subseteq Answers'
      /\ \A i \in Answers : i < Current
      /\ lastEmpty # 0 => lastEmpty \in Answers
  BY <1>0, <1>A, <1>B DEF Answers, TypeOK
<1>1. TypeOK'
  BY <1>0, <1>A, <1>B DEF Failed, NextQuery, TypeOK, Query!Results, Positions
<1>2. AskedOnce'
  BY <1>0 DEF Failed, AskedOnce, Positions
<1>3. Unasked'
  BY DEF Failed, Unasked
<1>4. Undecided'
  BY <1>0 DEF Failed, NextQuery, Undecided
<1>5. ErrorsListed'
  <2>1. /\ DOMAIN errors' = 1 .. Len(errors) + 1
        /\ \A j \in DOMAIN errors : errors'[j] = errors[j]
        /\ errors'[Len(errors) + 1] = Current
        /\ DOMAIN errors = 1 .. Len(errors)
        /\ Len(errors) \in Nat
    BY <1>0, <1>B DEF Failed, TypeOK, Positions
  <2>2. \A i \in Answers' : i = Current \/ i \in Answers
    BY <1>A, <1>B DEF Answers
  <2>3. Current \in Answers' /\ Answers \subseteq Answers'
    BY <1>A, <1>B DEF Answers
  <2>4. \A i \in Answers' : answers'[i] = "error" => \E j \in DOMAIN errors' : errors'[j] = i
    BY <1>0, <1>A, <2>1, <2>2 DEF ErrorsListed
  <2>5. \A j \in DOMAIN errors' : errors'[j] \in Answers' /\ answers'[errors'[j]] = "error"
    BY <1>0, <1>A, <2>1, <2>3 DEF ErrorsListed
  <2>6. QED
    BY <2>4, <2>5 DEF ErrorsListed
<1>6. EmptyListed'
  <2>1. UNCHANGED lastEmpty
    BY DEF Failed
  <2>2. QED
    BY <1>0, <1>A, <1>B, <1>E, <2>1 DEF EmptyListed
<1>7. PeersLast'
  BY <1>A, <1>B, <1>C DEF PeersLast, Answers
<1>8. Metadata'
  BY <1>0 DEF Failed, Metadata
<1>9. ToldErrors'
  BY DEF Failed, ToldErrors
<1>10. FirstWithPeers'
  BY <1>B DEF Failed, FirstWithPeers
<1>11. ErrorsAreTrue'
  BY <1>0 DEF Failed, ErrorsAreTrue, Undecided
<1>12. QED
  BY <1>1, <1>2, <1>3, <1>4, <1>5, <1>6, <1>7, <1>8, <1>9, <1>10, <1>11 DEF Inv

LEMMA ExhaustedStep == ASSUME Inv, Exhausted PROVE Inv'
<1>0. /\ TypeOK /\ AskedOnce /\ Unasked /\ Undecided /\ ErrorsListed
      /\ EmptyListed /\ PeersLast /\ Metadata /\ ToldErrors
      /\ FirstWithPeers /\ ErrorsAreTrue
  BY DEF Inv
<1>A. /\ selected = 0
      /\ told = <<>>
      /\ Len(answers) = Len(trackers)
      /\ \A i \in Answers : answers[i] # "peers"
  BY <1>0 DEF Undecided, TypeOK, Exhausted, Current, PeersLast, Answers
<1>B. \/ /\ lastEmpty # 0
         /\ selected' = lastEmpty
         /\ result' = IF errors = <<>> THEN "no_peers" ELSE "no_peers_after_errors"
      \/ /\ lastEmpty = 0
         /\ selected' = 0
         /\ result' = "all_failed"
  <2>1. CASE lastEmpty # 0
    BY <2>1, UsePeersCases DEF Exhausted
  <2>2. CASE lastEmpty = 0
    BY <1>A, <2>2 DEF Exhausted, End
  <2>3. QED
    BY <2>1, <2>2
<1>C. /\ phase' = "ended"
      /\ told' = errors
      /\ UNCHANGED <<magnet, use, listed, trackers, given, outcome, lastEmpty, errors,
                     answers, untried>>
  <2>1. CASE lastEmpty # 0
    BY <2>1, UsePeersCases DEF Exhausted, query
  <2>2. CASE lastEmpty = 0
    BY <2>2 DEF Exhausted, End, query
  <2>3. QED
    BY <2>1, <2>2
<1>1. TypeOK'
  BY <1>0, <1>B, <1>C DEF TypeOK, Positions
<1>2. AskedOnce'
  BY <1>0, <1>C DEF AskedOnce, Positions
<1>3. Unasked'
  BY <1>C DEF Unasked
<1>4. Undecided'
  BY <1>0, <1>B, <1>C DEF Undecided, Exhausted, TypeOK, Current
<1>5. ErrorsListed'
  BY <1>0, <1>C DEF ErrorsListed, Answers
<1>6. EmptyListed'
  BY <1>0, <1>C DEF EmptyListed, Answers
<1>7. PeersLast'
  BY <1>A, <1>C DEF PeersLast, Answers
<1>8. Metadata'
  BY <1>0, <1>C DEF Metadata
<1>9. ToldErrors'
  BY <1>C DEF ToldErrors
<1>10. FirstWithPeers'
  <2>1. ASSUME selected' # 0
        PROVE  /\ answers[lastEmpty] = "none"
               /\ \A i \in lastEmpty + 1 .. Len(answers) : answers[i] = "error"
    <3>1. lastEmpty \in 1 .. Len(answers)
      BY <1>0, <1>B, <2>1 DEF TypeOK
    <3>2. \A i \in Answers : i > lastEmpty => answers[i] # "none"
      BY <1>0, <3>1 DEF EmptyListed, Answers
    <3>3. QED
      BY <1>0, <1>A, <3>1, <3>2 DEF TypeOK, EmptyListed, Answers, Query!Results
  <2>2. QED
    BY <1>A, <1>B, <1>C, <2>1 DEF FirstWithPeers, Answers
<1>11. ErrorsAreTrue'
  <2>1. \A i \in Answers : answers[i] \in {"error", "none"}
    BY <1>0, <1>A DEF TypeOK, Answers, Query!Results
  <2>2. lastEmpty = 0 => \A i \in Answers : answers[i] # "none"
    BY <1>0 DEF EmptyListed, Answers, TypeOK
  <2>3. errors = <<>> => \A i \in Answers : answers[i] # "error"
    BY <1>0 DEF ErrorsListed
  <2>4. QED
    BY <1>A, <1>B, <1>C, <2>1, <2>2, <2>3 DEF ErrorsAreTrue, Answers
<1>12. QED
  BY <1>1, <1>2, <1>3, <1>4, <1>5, <1>6, <1>7, <1>8, <1>9, <1>10, <1>11 DEF Inv

LEMMA PeerServesStep == ASSUME Inv, PeerServes PROVE Inv'
<1> USE DEF PeerServes, End, query, Positions, Uses, Query!Results, TypeOK
<1>0. /\ TypeOK /\ AskedOnce /\ Unasked /\ Undecided /\ ErrorsListed
      /\ EmptyListed /\ PeersLast /\ Metadata /\ ToldErrors
      /\ FirstWithPeers /\ ErrorsAreTrue
  BY DEF Inv
<1>1. TypeOK'
  BY <1>0 DEF Undecided
<1>2. AskedOnce'
  BY <1>0 DEF AskedOnce, Positions
<1>3. Unasked'
  BY <1>0 DEF Unasked
<1>4. Undecided'
  BY <1>0 DEF Undecided, Current, Unasked
<1>5. ErrorsListed'
  BY <1>0 DEF ErrorsListed, Answers
<1>6. EmptyListed'
  BY <1>0 DEF EmptyListed, Answers, Unasked
<1>7. PeersLast'
  BY <1>0 DEF PeersLast, Answers, Undecided
<1>8. Metadata'
  BY <1>0 DEF Metadata, Undecided
<1>9. ToldErrors'
  BY <1>0 DEF ToldErrors, Deserted, Unasked, Metadata
<1>10. FirstWithPeers'
  BY <1>0 DEF FirstWithPeers, Answers, Undecided
<1>11. ErrorsAreTrue'
  BY <1>0 DEF ErrorsAreTrue, Deserted, Undecided, Metadata
<1>12. QED
  BY <1>1, <1>2, <1>3, <1>4, <1>5, <1>6, <1>7, <1>8, <1>9, <1>10, <1>11 DEF Inv

LEMMA PeerFailsStep == ASSUME Inv, PeerFails PROVE Inv'
<1> USE DEF PeerFails, End, query, Positions, Uses, Query!Results, TypeOK
<1>0. /\ TypeOK /\ AskedOnce /\ Unasked /\ Undecided /\ ErrorsListed
      /\ EmptyListed /\ PeersLast /\ Metadata /\ ToldErrors
      /\ FirstWithPeers /\ ErrorsAreTrue
  BY DEF Inv
<1>1. TypeOK'
  <2>1. /\ untried' \in 0 .. MaxPeers
        /\ UNCHANGED <<magnet, use, listed, trackers, query, lastEmpty, errors, selected,
                       answers>>
    <3>1. UNCHANGED <<magnet, use, listed, trackers, query, lastEmpty, errors, selected,
                      answers>>
      OBVIOUS
    <3>2. untried \in 0 .. MaxPeers /\ untried > 0 /\ untried' = untried - 1
      BY <1>0
    <3>3. QED
      BY <3>1, <3>2, ListingAssumption
  <2>2. CASE use = "first"
    BY <1>0, <2>1, <2>2
  <2>3. CASE use # "first"
    BY <1>0, <2>1, <2>3
  <2>4. QED
    BY <2>2, <2>3
<1>2. AskedOnce'
  BY <1>0 DEF AskedOnce, Positions
<1>3. Unasked'
  BY <1>0 DEF Unasked
<1>4. Undecided'
  BY <1>0 DEF Undecided, Current, Unasked
<1>5. ErrorsListed'
  BY <1>0 DEF ErrorsListed, Answers
<1>6. EmptyListed'
  BY <1>0 DEF EmptyListed, Answers, Unasked
<1>7. PeersLast'
  BY <1>0 DEF PeersLast, Answers, Undecided
<1>8. Metadata'
  BY <1>0 DEF Metadata, Undecided
<1>9. ToldErrors'
  BY <1>0 DEF ToldErrors, Deserted, Unasked, Metadata
<1>10. FirstWithPeers'
  BY <1>0 DEF FirstWithPeers, Answers, Undecided
<1>11. ErrorsAreTrue'
  BY <1>0 DEF ErrorsAreTrue, Deserted, Undecided, Metadata
<1>12. QED
  BY <1>1, <1>2, <1>3, <1>4, <1>5, <1>6, <1>7, <1>8, <1>9, <1>10, <1>11 DEF Inv

LEMMA NoPeerServesStep == ASSUME Inv, NoPeerServes PROVE Inv'
<1> USE DEF NoPeerServes, End, query, Positions, Uses, Query!Results, TypeOK
<1>0. /\ TypeOK /\ AskedOnce /\ Unasked /\ Undecided /\ ErrorsListed
      /\ EmptyListed /\ PeersLast /\ Metadata /\ ToldErrors
      /\ FirstWithPeers /\ ErrorsAreTrue
  BY DEF Inv
<1>1. TypeOK'
  BY <1>0 DEF Undecided
<1>2. AskedOnce'
  BY <1>0 DEF AskedOnce, Positions
<1>3. Unasked'
  BY <1>0 DEF Unasked
<1>4. Undecided'
  BY <1>0 DEF Undecided, Current, Unasked
<1>5. ErrorsListed'
  BY <1>0 DEF ErrorsListed, Answers
<1>6. EmptyListed'
  BY <1>0 DEF EmptyListed, Answers, Unasked
<1>7. PeersLast'
  BY <1>0 DEF PeersLast, Answers, Undecided
<1>8. Metadata'
  BY <1>0 DEF Metadata, Undecided
<1>9. ToldErrors'
  BY <1>0 DEF ToldErrors, Deserted, Unasked, Metadata
<1>10. FirstWithPeers'
  BY <1>0 DEF FirstWithPeers, Answers, Undecided
<1>11. ErrorsAreTrue'
  BY <1>0 DEF ErrorsAreTrue, Deserted, Undecided, Metadata
<1>12. QED
  BY <1>1, <1>2, <1>3, <1>4, <1>5, <1>6, <1>7, <1>8, <1>9, <1>10, <1>11 DEF Inv
LEMMA InitInv == Init => Inv
BY ListingAssumption
   DEF Init, Inv, TypeOK, AskedOnce, Unasked, Undecided, ErrorsListed, EmptyListed, PeersLast,
       Metadata, ToldErrors, FirstWithPeers, ErrorsAreTrue, Query!Init, Query!Results,
       Answers, Positions, Uses

LEMMA Invariance == Spec => []Inv
<1>1. Inv /\ UNCHANGED vars => Inv'
  BY DEF vars, query, Inv, TypeOK, AskedOnce, Unasked, Undecided, ErrorsListed, EmptyListed,
         PeersLast, Metadata, ToldErrors, FirstWithPeers, ErrorsAreTrue, Answers, Positions,
         Current, Deserted
<1>2. Inv /\ [Next]_vars => Inv'
  BY <1>1, ListTrackerStep, StartQueriesStep, TrackerAnswersStep, QueryReturnsStep,
     FoundPeersStep, FoundNoneStep, FailedStep, ExhaustedStep, PeerServesStep,
     PeerFailsStep, NoPeerServesStep DEF Next, Local
<1>3. QED
  BY InitInv, <1>2, PTL DEF Spec

-----------------------------------------------------------------------------
(* Theorems *)

\* Every variable keeps its type; no more trackers are asked than are listed.
THEOREM TypeCorrect == Spec => []TypeOK
<1>1. Inv => TypeOK
  BY DEF Inv
<1>2. QED
  BY Invariance, <1>1, PTL

\* A .torrent file's trackers are asked once each, whatever tiers repeat them.
THEOREM TrackersAskedOnce == Spec => []AskedOnce
<1>1. Inv => AskedOnce
  BY DEF Inv
<1>2. QED
  BY Invariance, <1>1, PTL

\* The first tracker that knows a peer is the one that is used, and an answer
\* without peers counts only when every tracker has been asked.
THEOREM FirstTrackerWithPeersWins == Spec => []FirstWithPeers
<1>1. Inv => FirstWithPeers
  BY DEF Inv
<1>2. QED
  BY Invariance, <1>1, PTL

\* Every tracker that failed is told of when the command ends, unless the peers
\* of a magnet link were all in vain.
THEOREM WarningsTold == Spec => []WarningsToldUnlessDeserted
<1>1. Inv => WarningsToldUnlessDeserted
  <2> SUFFICES ASSUME Inv, ~Deserted, result # "pending",
                      NEW i \in 1 .. Len(answers), answers[i] = "error"
               PROVE  Told(i)
    BY DEF WarningsToldUnlessDeserted, WarningsSurvive
  <2>1. told = errors
    BY DEF Inv, Undecided, ToldErrors
  <2>2. PICK j \in DOMAIN errors : errors[j] = i
    BY DEF Inv, ErrorsListed, Answers
  <2>3. DOMAIN errors = 1 .. Len(errors)
    BY DEF Inv, TypeOK
  <2>4. QED
    BY <2>1, <2>2, <2>3 DEF Told
<1>2. QED
  BY Invariance, <1>1, PTL

\* The error a command ends with says what happened.
THEOREM ErrorsTrue == Spec => []ErrorsAreTrue
<1>1. Inv => ErrorsAreTrue
  BY DEF Inv
<1>2. QED
  BY Invariance, <1>1, PTL

-----------------------------------------------------------------------------
(* The search does not go on for ever *)

\* An answer belongs to the query under way.
Answering == given # {} => phase = "ask" /\ Current <= Len(trackers)

Count(P) == IF P THEN 1 ELSE 0

\* A tracker may give both answers before the query returns one or an error.
Spent == Count("peers" \in given) + Count("none" \in given) + Count(outcome # "pending")

\* Every tracker is listed and asked, then the peers of the last.
StepsLeft ==
  CASE phase = "list" -> 5 * Len(listed) + 4 * Len(trackers) + MaxPeers + 3
    [] phase = "ask" -> 4 * (Len(trackers) - Len(answers)) - Spent + MaxPeers + 2
    [] phase = "metadata" -> untried + 1
    [] OTHER -> 0

\* Every step brings the end nearer.
StepsRunOut == [][StepsLeft' < StepsLeft]_vars

LEMMA AnsweringHolds == Spec => []Answering
<1>1. Init => Answering
  BY DEF Init, Query!Init, Answering
<1>2. Answering /\ [Next]_vars => Answering'
  <2> SUFFICES ASSUME Answering, [Next]_vars PROVE Answering'
    OBVIOUS
  <2> USE DEF Answering, Current
  <2>1. CASE ListTracker \/ StartQueries
    BY <2>1 DEF ListTracker, StartQueries, End, query
  <2>2. CASE TrackerAnswers \/ QueryReturns
    BY <2>2 DEF TrackerAnswers, QueryReturns, Asking, Query!Give, Query!Return
  <2>3. CASE FoundPeers \/ FoundNone \/ Failed
    BY <2>3 DEF FoundPeers, FoundNone, Failed, NextQuery
  <2>4. CASE Exhausted
    BY <2>4 DEF Exhausted, query
  <2>5. CASE PeerServes \/ PeerFails \/ NoPeerServes
    BY <2>5 DEF PeerServes, PeerFails, NoPeerServes, query
  <2>6. CASE UNCHANGED vars
    BY <2>6 DEF vars, query
  <2>7. QED
    BY <2>1, <2>2, <2>3, <2>4, <2>5, <2>6 DEF Next, Local
<1>3. QED
  BY <1>1, <1>2, PTL DEF Spec

FullInv == Inv /\ Answering

LEMMA Numbers ==
  ASSUME FullInv
  PROVE  /\ Len(listed) \in Nat /\ Len(trackers) \in Nat /\ Len(answers) \in Nat
         /\ Len(answers) <= Len(trackers)
         /\ MaxPeers \in Nat \ {0} /\ untried \in Nat
         /\ Spent \in 0 .. 3
         /\ Len(answers) = Len(trackers) => Spent = 0
<1>1. /\ Len(listed) \in Nat /\ Len(trackers) \in Nat /\ Len(answers) \in Nat
      /\ Len(answers) <= Len(trackers)
      /\ MaxPeers \in Nat \ {0} /\ untried \in Nat
  BY ListingAssumption DEF FullInv, Inv, TypeOK
<1>2. Spent \in 0 .. 3
  BY DEF Spent, Count
<1>3. ASSUME Len(answers) = Len(trackers) PROVE Spent = 0
  <2>1. ~(Current <= Len(trackers))
    BY <1>1, <1>3 DEF Current
  <2>2. given = {} /\ outcome = "pending"
    BY <2>1 DEF FullInv, Inv, Undecided, Answering
  <2>3. QED
    BY <2>2 DEF Spent, Count
<1>4. QED
  BY <1>1, <1>2, <1>3

LEMMA StepsLeftType ==
  FullInv => StepsLeft \in Nat /\ (phase \in {"list", "ask", "metadata"} => StepsLeft > 0)
<1> SUFFICES ASSUME FullInv
             PROVE  StepsLeft \in Nat
                    /\ (phase \in {"list", "ask", "metadata"} => StepsLeft > 0)
  OBVIOUS
<1> DEFINE k == Len(trackers)
           a == Len(answers)
           l == Len(listed)
<1>1. /\ k \in Nat /\ a \in Nat /\ l \in Nat /\ a <= k /\ MaxPeers \in Nat \ {0}
      /\ untried \in Nat /\ Spent \in 0 .. 3 /\ (a = k => Spent = 0)
  BY Numbers
<1>2. StepsLeft = CASE phase = "list" -> 5 * l + 4 * k + MaxPeers + 3
                    [] phase = "ask" -> 4 * (k - a) - Spent + MaxPeers + 2
                    [] phase = "metadata" -> untried + 1
                    [] OTHER -> 0
  BY DEF StepsLeft
<1> HIDE DEF k, a, l
<1>3. CASE phase = "list"
  BY <1>1, <1>2, <1>3
<1>4. CASE phase = "ask"
  BY <1>1, <1>2, <1>4
<1>5. CASE phase = "metadata"
  BY <1>1, <1>2, <1>5
<1>6. CASE phase \notin {"list", "ask", "metadata"}
  BY <1>2, <1>6
<1>7. QED
  BY <1>3, <1>4, <1>5, <1>6

LEMMA StepsLeftTypeStill == FullInv' => (StepsLeft \in Nat)'
BY StepsLeftType, PTL

LEMMA SpentStill == FullInv' => (Spent \in 0 .. 3)'
<1>1. FullInv => Spent \in 0 .. 3
  BY Numbers
<1>2. QED
  BY <1>1, PTL

\* What is to be asked costs more than what was asked, and what follows.
LEMMA AskedLess ==
  ASSUME NEW k \in Nat, NEW a \in Nat, NEW s \in 0 .. 3, NEW t \in 0 .. 3,
         NEW m \in Nat, a < k
  PROVE  /\ 4 * (k - (a + 1)) - 0 + m + 2 < 4 * (k - a) - s + m + 2
         /\ s < t => 4 * (k - a) - t + m + 2 < 4 * (k - a) - s + m + 2
         /\ m + 1 < 4 * (k - a) - s + m + 2
OBVIOUS

LEMMA EndingAdvances ==
  ASSUME FullInv, phase \in {"list", "ask", "metadata"}, phase' = "ended"
  PROVE  StepsLeft' < StepsLeft
<1>1. StepsLeft > 0
  BY StepsLeftType
<1>2. StepsLeft' = 0
  BY DEF StepsLeft
<1>3. QED
  BY <1>1, <1>2

LEMMA ListingAdvances ==
  ASSUME FullInv, ListTracker \/ StartQueries
  PROVE  StepsLeft' < StepsLeft
<1>1. /\ Len(listed) \in Nat /\ Len(trackers) \in Nat /\ MaxPeers \in Nat
      /\ listed \in Seq(Urls) /\ trackers \in Seq(Urls)
  BY Numbers DEF FullInv, Inv, TypeOK
<1>2. CASE ListTracker
  <2>1. /\ phase = "list" /\ phase' = "list" /\ listed # <<>> /\ listed' = Tail(listed)
        /\ \/ trackers' = trackers
           \/ trackers' = Append(trackers, Head(listed))
    BY <1>2 DEF ListTracker, Push
  <2>2. Len(listed') = Len(listed) - 1 /\ Len(trackers') <= Len(trackers) + 1
        /\ Len(trackers') \in Nat /\ Len(listed) > 0
    BY <1>1, <2>1
  <2> DEFINE l == Len(listed)
             k == Len(trackers)
             l1 == Len(listed')
             k1 == Len(trackers')
  <2>3. /\ StepsLeft = 5 * l + 4 * k + MaxPeers + 3
        /\ StepsLeft' = 5 * l1 + 4 * k1 + MaxPeers + 3
    BY <2>1 DEF StepsLeft
  <2>4. l \in Nat /\ l > 0 /\ l1 = l - 1 /\ k \in Nat /\ k1 \in Nat /\ k1 <= k + 1
    BY <1>1, <2>2
  <2> HIDE DEF l, k, l1, k1
  <2>5. 5 * l1 + 4 * k1 + MaxPeers + 3 < 5 * l + 4 * k + MaxPeers + 3
    BY <1>1, <2>4
  <2>6. QED
    BY <2>3, <2>5
<1>3. CASE StartQueries
  <2>1. /\ phase = "list" /\ listed = <<>>
        /\ phase' \in {"ended", "ask"}
        /\ UNCHANGED <<trackers, given, outcome, answers>>
    BY <1>3 DEF StartQueries, End, query
  <2>2. CASE phase' = "ask"
    <3>1. answers = <<>> /\ given = {} /\ outcome = "pending"
      BY <2>1 DEF FullInv, Inv, Unasked, Undecided, Answering
    <3>2. Spent' = 0 /\ Len(answers') = 0
      BY <2>1, <3>1 DEF Spent, Count
    <3> DEFINE k == Len(trackers)
               l == Len(listed)
    <3>3. /\ StepsLeft = 5 * l + 4 * k + MaxPeers + 3
          /\ StepsLeft' = 4 * (k - 0) - 0 + MaxPeers + 2
      BY <2>1, <2>2, <3>2 DEF StepsLeft
    <3>4. k \in Nat /\ l \in Nat
      BY <1>1
    <3> HIDE DEF k, l
    <3>5. QED
      BY <1>1, <3>3, <3>4
  <2>3. QED
    BY <2>1, <2>2, EndingAdvances
<1>4. QED
  BY <1>2, <1>3

LEMMA AskingAdvances ==
  ASSUME FullInv, FullInv', TrackerAnswers \/ QueryReturns, ~UNCHANGED vars
  PROVE  StepsLeft' < StepsLeft
<1>1. /\ phase = "ask" /\ phase' = "ask" /\ Current <= Len(trackers)
      /\ outcome = "pending"
      /\ UNCHANGED <<trackers, answers>>
  BY DEF TrackerAnswers, QueryReturns, Asking
<1>2. Len(answers) < Len(trackers)
  BY <1>1, Numbers DEF Current
<1>3. Spent < Spent'
  <2>1. CASE TrackerAnswers
    <3>1. given \subseteq given' /\ given' \subseteq {"peers", "none"} /\ outcome' = outcome
      BY <2>1 DEF TrackerAnswers, Query!Give, Query!Results
    <3>2. given' # given
      BY <2>1, <3>1 DEF TrackerAnswers, vars, query
    <3>3. \E x \in {"peers", "none"} : x \in given' /\ x \notin given
      BY <3>1, <3>2
    <3>4. QED
      BY <1>1, <3>1, <3>3 DEF Spent, Count
  <2>2. CASE QueryReturns
    <3>1. outcome' \in given \union {"error"} /\ given' = given
      BY <2>2 DEF QueryReturns, Query!Return
    <3>2. given \subseteq {"peers", "none"}
      BY DEF FullInv, Inv, TypeOK, Query!Results
    <3>3. outcome' # "pending"
      BY <3>1, <3>2
    <3>4. QED
      BY <1>1, <3>1, <3>3 DEF Spent, Count
  <2>3. QED
    BY <2>1, <2>2
<1> DEFINE k == Len(trackers)
           a == Len(answers)
           s == Spent
           t == Spent'
<1>4. /\ StepsLeft = 4 * (k - a) - s + MaxPeers + 2
      /\ StepsLeft' = 4 * (k - a) - t + MaxPeers + 2
  BY <1>1 DEF StepsLeft
<1>5. k \in Nat /\ a \in Nat /\ s \in 0 .. 3 /\ t \in 0 .. 3 /\ MaxPeers \in Nat /\ a < k /\ s < t
  BY <1>2, <1>3, Numbers, SpentStill
<1> HIDE DEF k, a, s, t
<1>6. QED
  BY <1>4, <1>5, AskedLess

\* The round of lookups that is begun has fewer steps left than the questions.
LEMMA LookupIsLess ==
  ASSUME NEW u \in Nat, NEW m \in Nat, NEW before \in Nat, NEW after,
         u <= m, after = u + 1, m + 1 < before
  PROVE  after < before
  OBVIOUS

LEMMA AnsweredAdvances ==
  ASSUME FullInv, FullInv', FoundPeers \/ FoundNone \/ Failed
  PROVE  StepsLeft' < StepsLeft
<1>1. /\ phase = "ask" /\ outcome # "pending"
      /\ given' = {} /\ outcome' = "pending" /\ answers' = Append(answers, outcome)
      /\ trackers' = trackers
  BY DEF FoundPeers, FoundNone, Failed, NextQuery
<1>2. Len(answers) < Len(trackers)
  <2>1. Current <= Len(trackers)
    BY <1>1 DEF FullInv, Inv, Undecided
  <2>2. QED
    BY <2>1, Numbers DEF Current
<1>3. Spent' = 0
  BY <1>1 DEF Spent, Count
<1>4. Len(answers') = Len(answers) + 1
  BY <1>1 DEF FullInv, Inv, TypeOK
<1> DEFINE k == Len(trackers)
           a == Len(answers)
           s == Spent
<1>5. k \in Nat /\ a \in Nat /\ s \in 0 .. 3 /\ MaxPeers \in Nat \ {0} /\ a < k
  BY <1>2, Numbers
<1>6. StepsLeft = 4 * (k - a) - s + MaxPeers + 2
  BY <1>1 DEF StepsLeft
<1>7. CASE phase' = "ask"
  <2>1. StepsLeft' = 4 * (k - (a + 1)) - 0 + MaxPeers + 2
    BY <1>1, <1>3, <1>4, <1>7 DEF StepsLeft
  <2> HIDE DEF k, a, s
  <2>2. QED
    BY <1>5, <1>6, <2>1, AskedLess
<1>8. CASE phase' = "metadata"
  <2>1. untried' <= MaxPeers /\ untried' \in Nat
    <3>1. untried' \in 0 .. MaxPeers
      BY DEF FullInv, Inv, TypeOK
    <3>2. QED
      BY <1>5, <3>1
  <2>2. StepsLeft' = untried' + 1
    BY <1>8 DEF StepsLeft
  <2> HIDE DEF k, a, s
  <2>3. MaxPeers + 1 < StepsLeft
    BY <1>5, <1>6, AskedLess
  <2>4. StepsLeft \in Nat
    BY StepsLeftType
  <2>5. MaxPeers \in Nat
    BY <1>5
  <2>6. QED
    BY <2>1, <2>2, <2>3, <2>4, <2>5, LookupIsLess, Zenon
<1>9. CASE phase' = "ended"
  BY <1>1, <1>9, EndingAdvances
<1>10. phase' \in {"ask", "metadata", "ended"}
  <2>1. CASE FoundPeers
    <3>1. PICK n \in 1 .. MaxPeers : UsePeers(n, Current)
      BY <2>1 DEF FoundPeers
    <3>2. n \in Nat
      BY <1>5, <3>1
    <3>3. QED
      BY <3>1, <3>2, UsePeersCases
  <2>2. CASE FoundNone \/ Failed
    BY <1>1, <2>2 DEF FoundNone, Failed
  <2>3. QED
    BY <2>1, <2>2
<1>11. QED
  BY <1>7, <1>8, <1>9, <1>10

LEMMA LastAdvances ==
  ASSUME FullInv, Exhausted \/ PeerServes \/ PeerFails \/ NoPeerServes
  PROVE  StepsLeft' < StepsLeft
<1>1. CASE Exhausted
  <2>1. phase = "ask" /\ phase' = "ended"
    <3>1. lastEmpty = 0 => phase' = "ended"
      BY <1>1 DEF Exhausted, End
    <3>2. lastEmpty # 0 => phase' = "ended"
      BY <1>1, UsePeersCases DEF Exhausted
    <3>3. QED
      BY <1>1, <3>1, <3>2 DEF Exhausted
  <2>2. QED
    BY <2>1, EndingAdvances
<1>2. CASE PeerServes \/ NoPeerServes
  <2>1. phase = "metadata" /\ phase' = "ended"
    BY <1>2 DEF PeerServes, NoPeerServes, End
  <2>2. QED
    BY <2>1, EndingAdvances
<1>3. CASE PeerFails
  <2>1. phase = "metadata" /\ untried' = untried - 1 /\ phase' \in {"metadata", "ended"}
    BY <1>3 DEF PeerFails, End
  <2>2. CASE phase' = "metadata"
    BY <2>1, <2>2, Numbers DEF StepsLeft
  <2>3. QED
    BY <2>1, <2>2, EndingAdvances
<1>4. QED
  BY <1>1, <1>2, <1>3

\* Every step lowers a natural number: a search ends after finitely many,
\* whatever the trackers and the peers answer, unless one of them is silent
\* for ever.
THEOREM SearchStepsRunOut == Spec => StepsRunOut /\ [](StepsLeft \in Nat)
<1>1. FullInv /\ FullInv' /\ [Next]_vars => [StepsLeft' < StepsLeft]_vars
  BY ListingAdvances, AskingAdvances, AnsweredAdvances, LastAdvances DEF Next, Local
<1>2. Spec => []FullInv
  BY Invariance, AnsweringHolds, PTL DEF FullInv
<1>3. QED
  BY <1>1, <1>2, StepsLeftType, PTL DEF Spec, StepsRunOut
=============================================================================
