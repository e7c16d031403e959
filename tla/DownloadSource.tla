---------------------------- MODULE DownloadSource ----------------------------
(***************************************************************************)
(* How a .torrent file or a magnet link becomes a list of peers and, for a *)
(* magnet link, the torrent's metadata (src/source.rs, main.rs): trackers  *)
(* are asked in turn until one knows a peer (query_with_outcome of         *)
(* src/tracker.rs), and peers are asked in turn for the metadata.          *)
(*                                                                         *)
(* One query is the abstract TrackerQuery.  It always ends if the tracker  *)
(* is asked by UDP; an HTTP request has no timeout, nor has the handshake  *)
(* with a peer, so that a silent one holds the command.                    *)
(***************************************************************************)
EXTENDS Integers, Sequences

CONSTANTS
  Urls,      \* what a source may name as a tracker
  Listings,  \* the trackers a source names, in order
  Empty,     \* the empty URL
  Udp,       \* URLs asked by UDP
  Http,      \* URLs asked by HTTP; all others are refused unasked
  MaxPeers   \* bound: peers in a tracker's answer

ASSUME ListingAssumption == /\ Listings \subseteq Seq(Urls)
                            /\ Udp \union Http \subseteq Urls
                            /\ Empty \notin Udp \union Http
                            /\ Udp \intersect Http = {}
                            /\ MaxPeers \in Nat \ {0}

\* resolve_download_source; the command that lists peers; the commands that
\* use the first peer of a magnet link.
Uses == {"resolve", "peers", "first"}

VARIABLES
  magnet,    \* is_magnet_link
  use,       \* what the command does with the peers
  listed,    \* the trackers of the source not looked at yet
  trackers,  \* TorrentInfo.trackers
  phase,     \* where the command is
  given,     \* the current query: see TrackerQuery
  outcome,   \*
  lastEmpty, \* last_empty_response: its tracker's position, 0 for None
  errors,    \* errors: the positions of the trackers that failed
  selected,  \* TrackerQueryOutcome.tracker
  untried,   \* the peers not asked for metadata yet
  result,    \* what the command ends with, or "pending"
  told,      \* the warnings that reach the user or the caller
  answers    \* the outcome of every query, in order

query == <<given, outcome>>
vars == <<magnet, use, listed, trackers, phase, query, lastEmpty, errors,
          selected, untried, result, told, answers>>

Query == INSTANCE TrackerQuery

Positions == 1 .. Len(trackers)

Init == /\ magnet \in BOOLEAN
        /\ use \in Uses
        /\ use = "peers" => ~magnet
        /\ use = "first" => magnet
        /\ listed \in Listings
        /\ trackers = <<>>
        /\ phase = "list"
        /\ Query!Init
        /\ lastEmpty = 0
        /\ errors = <<>>
        /\ selected = 0
        /\ untried = 0
        /\ result = "pending"
        /\ told = <<>>
        /\ answers = <<>>

End(r, warnings) == /\ phase' = "ended"
                    /\ result' = r
                    /\ told' = warnings

-----------------------------------------------------------------------------
(* The list of trackers *)

Listed(u) == \E i \in Positions : trackers[i] = u

\* push_tracker
Push(u) == IF u = Empty \/ Listed(u) THEN trackers ELSE Append(trackers, u)

\* Torrent::trackers keeps a URL once; Magnet::parse keeps every one.
ListTracker ==
  /\ phase = "list"
  /\ listed # <<>>
  /\ listed' = Tail(listed)
  /\ trackers' = IF magnet THEN Append(trackers, Head(listed)) ELSE Push(Head(listed))
  /\ UNCHANGED <<magnet, use, phase, query, lastEmpty, errors, selected, untried,
                 result, told, answers>>

StartQueries ==
  /\ phase = "list"
  /\ listed = <<>>
  /\ \/ /\ trackers = <<>>
        /\ End("no_trackers", <<>>)
     \/ /\ trackers # <<>>
        /\ phase' = "ask"
        /\ UNCHANGED <<result, told>>
  /\ UNCHANGED <<magnet, use, listed, trackers, query, lastEmpty, errors,
                 selected, untried, answers>>

-----------------------------------------------------------------------------
(* query_with_outcome: the position of the current tracker is one more than *)
(* the number of answers.                                                   *)

Current == Len(answers) + 1

Url == trackers[Current]

Asking == phase = "ask" /\ outcome = "pending" /\ Current <= Len(trackers)

\* The tracker sends its answer.
TrackerAnswers ==
  /\ Asking
  /\ Url \in Udp \union Http
  /\ Query!Give
  /\ UNCHANGED <<magnet, use, listed, trackers, phase, lastEmpty, errors, selected,
                 untried, result, told, answers>>

\* query_tracker returns.
QueryReturns ==
  /\ Asking
  /\ Query!Return
  /\ UNCHANGED <<magnet, use, listed, trackers, phase, lastEmpty, errors, selected,
                 untried, result, told, answers>>

\* What the command does with the response it got.
UsePeers(n, position) ==
  /\ selected' = position
  /\ CASE n = 0 /\ errors = <<>> ->
            End("no_peers", <<>>) /\ UNCHANGED untried
       [] n = 0 /\ errors # <<>> ->
            End("no_peers_after_errors", errors) /\ UNCHANGED untried
       [] n > 0 /\ ~magnet ->
            End("ok", errors) /\ UNCHANGED untried
       [] OTHER ->
            /\ phase' = "metadata"
            /\ untried' = IF use = "first" THEN 1 ELSE n
            /\ told' = IF use = "first" THEN errors ELSE told
            /\ UNCHANGED result

NextQuery == /\ given' = {}
             /\ outcome' = "pending"
             /\ answers' = Append(answers, outcome)

FoundPeers ==
  /\ phase = "ask"
  /\ outcome = "peers"
  /\ \E n \in 1 .. MaxPeers : UsePeers(n, Current)
  /\ NextQuery
  /\ UNCHANGED <<magnet, use, listed, trackers, lastEmpty, errors>>

\* Mutant of FoundNone: an answer without peers ends the search.
FoundNoneAndStop ==
  /\ phase = "ask"
  /\ outcome = "none"
  /\ lastEmpty' = Current
  /\ UsePeers(0, Current)
  /\ NextQuery
  /\ UNCHANGED <<magnet, use, listed, trackers, errors>>

\* Mutant of FoundNone: the loop stays at the tracker.
FoundNoneAndRepeat ==
  /\ phase = "ask"
  /\ outcome = "none"
  /\ lastEmpty' = Current
  /\ given' = {}
  /\ outcome' = "pending"
  /\ UNCHANGED <<magnet, use, listed, trackers, phase, errors, selected, untried,
                 result, told, answers>>

FoundNone ==
  /\ phase = "ask"
  /\ outcome = "none"
  /\ lastEmpty' = Current
  /\ NextQuery
  /\ UNCHANGED <<magnet, use, listed, trackers, phase, errors, selected, untried,
                 result, told>>

\* Mutant of Failed: only the last error is kept.
FailedKeepingLast ==
  /\ phase = "ask"
  /\ outcome = "error"
  /\ errors' = <<Current>>
  /\ NextQuery
  /\ UNCHANGED <<magnet, use, listed, trackers, phase, lastEmpty, selected, untried,
                 result, told>>

Failed ==
  /\ phase = "ask"
  /\ outcome = "error"
  /\ errors' = Append(errors, Current)
  /\ NextQuery
  /\ UNCHANGED <<magnet, use, listed, trackers, phase, lastEmpty, selected, untried,
                 result, told>>

\* Mutant of Exhausted: an empty response is returned without the warnings.
ExhaustedSilently ==
  /\ phase = "ask"
  /\ Current > Len(trackers)
  /\ \/ /\ lastEmpty # 0
        /\ selected' = lastEmpty
        /\ End("no_peers", <<>>)
        /\ UNCHANGED untried
     \/ /\ lastEmpty = 0
        /\ End("all_failed", errors)
        /\ UNCHANGED <<selected, untried>>
  /\ UNCHANGED <<magnet, use, listed, trackers, query, lastEmpty, errors, answers>>

\* All trackers have been asked, and none knew a peer.
Exhausted ==
  /\ phase = "ask"
  /\ Current > Len(trackers)
  /\ \/ /\ lastEmpty # 0
        /\ UsePeers(0, lastEmpty)
     \/ /\ lastEmpty = 0
        /\ End("all_failed", errors)
        /\ UNCHANGED <<selected, untried>>
  /\ UNCHANGED <<magnet, use, listed, trackers, query, lastEmpty, errors, answers>>

-----------------------------------------------------------------------------
(* get_metadata_from_peer, or the use of the first peer *)

PeerServes ==
  /\ phase = "metadata"
  /\ untried > 0
  /\ End("ok", errors)
  /\ UNCHANGED <<magnet, use, listed, trackers, query, lastEmpty, errors, selected,
                 untried, answers>>

PeerFails ==
  /\ phase = "metadata"
  /\ untried > 0
  /\ untried' = untried - 1
  /\ \/ /\ use = "first"
        /\ End("peer_failed", told)
     \/ /\ use # "first"
        /\ UNCHANGED <<phase, result, told>>
  /\ UNCHANGED <<magnet, use, listed, trackers, query, lastEmpty, errors, selected,
                 answers>>

NoPeerServes ==
  /\ phase = "metadata"
  /\ untried = 0
  /\ End("no_peers", told)
  /\ UNCHANGED <<magnet, use, listed, trackers, query, lastEmpty, errors, selected,
                 untried, answers>>

-----------------------------------------------------------------------------
\* What the command does without waiting for anybody.
Local == \/ ListTracker \/ StartQueries
         \/ FoundPeers \/ FoundNone \/ Failed \/ Exhausted \/ NoPeerServes

Next == Local \/ TrackerAnswers \/ QueryReturns \/ PeerServes \/ PeerFails

\* A query returns if it is no HTTP request: a UDP exchange has its timeouts.
Fairness == /\ WF_vars(Local)
            /\ WF_vars(QueryReturns /\ Url \notin Http)

Spec == Init /\ [][Next]_vars /\ Fairness

-----------------------------------------------------------------------------
TypeOK == /\ magnet \in BOOLEAN
          /\ use \in Uses
          /\ listed \in Seq(Urls)
          /\ trackers \in Seq(Urls)
          /\ phase \in {"list", "ask", "metadata", "ended"}
          /\ given \subseteq Query!Results
          /\ outcome \in {"pending", "error"} \union Query!Results
          /\ lastEmpty \in 0 .. Len(answers)
          /\ errors \in Seq(Positions)
          /\ selected \in 0 .. Len(answers)
          /\ untried \in 0 .. MaxPeers
          /\ result \in {"pending", "ok", "no_trackers", "all_failed", "no_peers",
                          "no_peers_after_errors", "peer_failed"}
          /\ told \in Seq(Positions)
          /\ answers \in Seq({"error"} \union Query!Results)
          /\ Len(answers) <= Len(trackers)

\* A .torrent file may name a tracker in announce and in several tiers: it is
\* asked once, and an empty URL not at all.
AskedOnce == ~magnet => /\ \A i, j \in Positions : trackers[i] = trackers[j] => i = j
                        /\ Empty \notin {trackers[i] : i \in Positions}

\* The fallback stops at the first tracker that knows a peer.  An answer
\* without peers is used only after every tracker was asked and none knew
\* one, and then it is the last of its kind.
FirstWithPeers ==
  selected # 0 =>
    \/ /\ answers[selected] = "peers"
       /\ selected = Len(answers)
       /\ \A i \in 1 .. selected - 1 : answers[i] # "peers"
    \/ /\ answers[selected] = "none"
       /\ Len(answers) = Len(trackers)
       /\ \A i \in 1 .. Len(answers) : answers[i] # "peers"
       /\ \A i \in selected + 1 .. Len(answers) : answers[i] = "error"

Told(i) == \E j \in 1 .. Len(told) : told[j] = i

\* "Tracker fallback warnings now survive successful and empty-peer fallback
\* paths across CLI commands": however a command ends, it has told of every
\* tracker that failed.
WarningsSurvive ==
  result # "pending" => \A i \in 1 .. Len(answers) : answers[i] = "error" => Told(i)

\* They do unless a magnet link's peers are found and none gives metadata.
Deserted == use = "resolve" /\ magnet /\ selected # 0 /\ answers[selected] = "peers"
              /\ untried = 0

WarningsToldUnlessDeserted == Deserted \/ WarningsSurvive

\* "No peers" without detail is said only if every tracker has answered and
\* none failed, or if every peer of a magnet link has; "all trackers failed"
\* only if all did.
ErrorsAreTrue ==
  /\ result = "no_peers" /\ ~Deserted =>
       /\ Len(answers) = Len(trackers)
       /\ \A i \in 1 .. Len(answers) : answers[i] = "none"
  /\ result = "all_failed" =>
       /\ Len(answers) = Len(trackers)
       /\ \A i \in 1 .. Len(answers) : answers[i] = "error"

\* A source without HTTP trackers never hangs at a tracker.
UdpNeverHangs ==
  (phase = "ask" /\ \A i \in Positions : trackers[i] \notin Http)
    ~> phase \in {"metadata", "ended"}
=============================================================================
