------------------------------ MODULE UdpTracker ------------------------------
(***************************************************************************)
(* One announce to a UDP tracker (query_udp_tracker of src/tracker.rs): a  *)
(* connect that obtains a connection id, announces made with it, retries   *)
(* with doubled timeouts, and the renewal of an id that is too old.        *)
(*                                                                         *)
(* Datagrams are lost, delayed, reordered and duplicated: a request on the *)
(* way or an answer on the way is a member of a set, from which it may be  *)
(* taken late, never, or, an answer, while a copy of it stays.  (A request *)
(* that arrives twice is an answer that does.)  The tracker repeats the    *)
(* transaction id of the request it answers, with what was asked for or    *)
(* with an error, which stands for a malformed answer too.  A connection   *)
(* id is the time at which it was asked for, the earliest at which it can  *)
(* have been issued.  Transaction ids are drawn at random from 2^32        *)
(* numbers: here no two are the same.  A unit of time divides all timeouts.*)
(***************************************************************************)
EXTENDS Integers

CONSTANTS
  InitialTimeout,  \* UDP_INITIAL_TIMEOUT
  Ttl,             \* UDP_CONNECTION_ID_TTL
  Duplicates,      \* bound: datagrams the network delivers twice
  Lists,           \* the lists that trackers give: with peers, without, or both
  Refusals         \* bound: the requests that trackers may answer with an error

Results == {"peers", "none"}
Errors == {"mismatch", "refused", "timeout", "io"}

ASSUME TimesAssumption == /\ InitialTimeout \in Nat \ {0}
                          /\ Ttl \in Nat \ {0}
                          /\ Duplicates \in Nat
                          /\ Lists \subseteq Results
                          /\ Refusals \subseteq {"connect", "announce"}

\* UDP_MAX_ATTEMPTS, the sends of a connect and the announces.
MaxAttempts == 3

\* All three timeouts of a call, and the first two.
AllWaits == 7 * InitialTimeout
RetryWaits == 3 * InitialTimeout

VARIABLES
  phase,    \* where the exchange is: about to send, or waiting
  tid,      \* the transaction id drawn last
  tries,    \* attempt of send_udp_with_retry
  attempt,  \* attempt of udp_announce
  wait,     \* timeout_duration of the current loop
  left,     \* the time until the current wait times out
  id,       \* connection_id.value
  elapsed,  \* connection_id.elapsed_since_connect
  outcome,  \* what query_udp_tracker returned
  now,      \* the time since the exchange began
  requests, \* datagrams on their way to the tracker
  net,      \* datagrams on their way from the tracker
  copies,   \* how often the network may still duplicate
  given     \* history: peer lists given, with the request they answer

call == <<tries, attempt, wait, id, elapsed>>
network == <<requests, net, copies, given>>
vars == <<phase, tid, call, left, outcome, now, network>>

Init == /\ phase = "connect"
        /\ tid = 0
        /\ tries = 0
        /\ attempt = 0
        /\ wait = InitialTimeout
        /\ left = 0
        /\ id = 0
        /\ elapsed = 0
        /\ outcome = "pending"
        /\ now = 0
        /\ requests = {}
        /\ net = {}
        /\ copies = Duplicates
        /\ given = {}

Running == outcome = "pending"

\* The socket is dropped: what is still on its way finds nobody.
Return(result) == /\ outcome' = result
                  /\ requests' = {}
                  /\ net' = {}
                  /\ UNCHANGED <<phase, tid, call, left, now, copies, given>>

\* A request of this kind is sent and its answer awaited.
Send(kind, t, with) ==
  /\ requests' = requests \union
                   {[tid |-> t, kind |-> kind, id |-> with, at |-> now]}
  /\ tid' = t
  /\ left' = wait
  /\ UNCHANGED <<call, outcome, now, net, copies, given>>

-----------------------------------------------------------------------------
(* udp_connect, send_udp_with_retry *)

\* Mutant of ConnectSend: every attempt draws a transaction id.
ConnectSendRedrawn ==
  /\ Running
  /\ phase = "connect"
  /\ phase' = "connecting"
  /\ Send("connect", tid + 1, 0)

\* The attempts of one connect send the same packet.
ConnectSend ==
  /\ Running
  /\ phase = "connect"
  /\ phase' = "connecting"
  /\ Send("connect", IF tries = 0 THEN tid + 1 ELSE tid, 0)

\* Mutant of ConnectTimeout: the timeout grows faster.
ConnectTimeoutSteep ==
  /\ Running
  /\ phase = "connecting"
  /\ left = 0
  /\ \/ /\ tries + 1 = MaxAttempts
        /\ Return("timeout")
     \/ /\ tries + 1 < MaxAttempts
        /\ tries' = tries + 1
        /\ wait' = 4 * wait
        /\ phase' = "connect"
        /\ UNCHANGED <<tid, attempt, left, id, elapsed, outcome, now, network>>

\* Mutant of ConnectTimeout: the last timeout is not reported.
ConnectTimeoutStuck ==
  /\ Running
  /\ phase = "connecting"
  /\ left = 0
  /\ tries + 1 < MaxAttempts
  /\ tries' = tries + 1
  /\ wait' = 2 * wait
  /\ phase' = "connect"
  /\ UNCHANGED <<tid, attempt, left, id, elapsed, outcome, now, network>>

ConnectTimeout ==
  /\ Running
  /\ phase = "connecting"
  /\ left = 0
  /\ \/ /\ tries + 1 = MaxAttempts
        /\ Return("timeout")
     \/ /\ tries + 1 < MaxAttempts
        /\ tries' = tries + 1
        /\ wait' = 2 * wait
        /\ phase' = "connect"
        /\ UNCHANGED <<tid, attempt, left, id, elapsed, outcome, now, network>>

\* Mutant of Verdict: the transaction id is not compared.
VerdictOfAny(d, expected) ==
  IF d.kind \in expected THEN "accepted" ELSE "refused"

\* The parsers of the two responses: the transaction id comes before the
\* action and the rest.
Verdict(d, expected) ==
  CASE d.tid # tid -> "mismatch"
    [] d.tid = tid /\ d.kind \in expected -> "accepted"
    [] OTHER -> "refused"

\* recv takes a datagram; the network may bring it once more.
Receive(d) == \/ /\ net' = net \ {d}
                 /\ UNCHANGED copies
              \/ /\ copies > 0
                 /\ copies' = copies - 1
                 /\ UNCHANGED net

\* Whatever datagram comes first is the answer, however late it is.
ConnectAnswer(d) ==
  LET verdict == Verdict(d, {"connect"}) IN
  /\ Running
  /\ phase = "connecting"
  /\ \/ /\ verdict = "accepted"
        /\ Receive(d)
        /\ id' = d.at
        /\ elapsed' = 0
        /\ wait' = InitialTimeout
        /\ phase' = "announce"
        /\ UNCHANGED <<tid, tries, attempt, left, outcome, now, requests, given>>
     \/ /\ verdict # "accepted"
        /\ Return(verdict)

-----------------------------------------------------------------------------
(* udp_announce *)

Fresh == elapsed < Ttl

\* Mutant of AnnounceSend: an announce is made with whatever id there is.
AnnounceSendStale ==
  /\ Running
  /\ phase = "announce"
  /\ phase' = "announcing"
  /\ Send("announce", tid + 1, id)

\* Every announce draws a transaction id of its own.
AnnounceSend ==
  /\ Running
  /\ phase = "announce"
  /\ Fresh
  /\ phase' = "announcing"
  /\ Send("announce", tid + 1, id)

\* The id is renewed by another connect.
Renew ==
  /\ Running
  /\ phase = "announce"
  /\ ~Fresh
  /\ phase' = "connect"
  /\ tries' = 0
  /\ wait' = InitialTimeout
  /\ UNCHANGED <<tid, attempt, left, id, elapsed, outcome, now, network>>

\* Mutant of AnnounceTimeout: silence counts as an empty list.
AnnounceTimeoutEmpty ==
  /\ Running
  /\ phase = "announcing"
  /\ left = 0
  /\ \/ /\ attempt + 1 = MaxAttempts
        /\ Return("none")
     \/ /\ attempt + 1 < MaxAttempts
        /\ attempt' = attempt + 1
        /\ elapsed' = elapsed + wait
        /\ wait' = 2 * wait
        /\ phase' = "announce"
        /\ UNCHANGED <<tid, tries, left, id, outcome, now, network>>

AnnounceTimeout ==
  /\ Running
  /\ phase = "announcing"
  /\ left = 0
  /\ \/ /\ attempt + 1 = MaxAttempts
        /\ Return("timeout")
     \/ /\ attempt + 1 < MaxAttempts
        /\ attempt' = attempt + 1
        /\ elapsed' = elapsed + wait
        /\ wait' = 2 * wait
        /\ phase' = "announce"
        /\ UNCHANGED <<tid, tries, left, id, outcome, now, network>>

AnnounceAnswer(d) ==
  LET verdict == Verdict(d, Results) IN
  /\ Running
  /\ phase = "announcing"
  /\ Return(IF verdict = "accepted" THEN d.kind ELSE verdict)

\* A send or a receive fails, as when the tracker's port is closed.
SocketError ==
  /\ Running
  /\ Return("io")

-----------------------------------------------------------------------------
(* The network, the tracker and the clock *)

\* The tracker answers a request.
Answer(r, kind) ==
  /\ Running
  /\ r \in requests
  /\ \/ kind = "error" /\ r.kind \in Refusals
     \/ kind = "connect" /\ r.kind = "connect"
     \/ kind \in Lists /\ r.kind = "announce"
  /\ requests' = requests \ {r}
  /\ net' = net \union {[tid |-> r.tid, kind |-> kind, at |-> r.at]}
  /\ given' = given \union ({r.tid} \X ({kind} \intersect Results))
  /\ UNCHANGED <<phase, tid, call, left, outcome, now, copies>>

\* Time passes only while the client waits.
Tick == /\ Running
        /\ phase \in {"connecting", "announcing"}
        /\ left > 0
        /\ left' = left - 1
        /\ now' = now + 1
        /\ UNCHANGED <<phase, tid, call, outcome, network>>

-----------------------------------------------------------------------------
Proceed == \/ ConnectSend \/ ConnectTimeout
           \/ AnnounceSend \/ Renew \/ AnnounceTimeout

Next == \/ Proceed
        \/ \E d \in net : ConnectAnswer(d) \/ AnnounceAnswer(d)
        \/ SocketError
        \/ \E r \in requests, kind \in {"connect", "error"} \union Lists :
             Answer(r, kind)
        \/ Tick

\* The runtime polls the task and its timers; nothing is asked of the network.
Fairness == WF_vars(Proceed) /\ WF_vars(Tick)

Spec == Init /\ [][Next]_vars /\ Fairness

-----------------------------------------------------------------------------
Requests == [tid : Nat, kind : {"connect", "announce"}, id : Nat, at : Nat]
Datagrams == [tid : Nat, kind : {"connect", "error"} \union Results, at : Nat]

TypeOK == /\ phase \in {"connect", "connecting", "announce", "announcing"}
          /\ tid \in Nat
          /\ tries \in 0 .. MaxAttempts - 1
          /\ attempt \in 0 .. MaxAttempts - 1
          /\ wait \in Nat
          /\ left \in Nat
          /\ id \in 0 .. now
          /\ elapsed \in Nat
          /\ outcome \in {"pending"} \union Results \union Errors
          /\ now \in Nat
          /\ requests \subseteq Requests
          /\ net \subseteq Datagrams
          /\ copies \in 0 .. Duplicates
          /\ given \subseteq Nat \X Results

\* The code counts the age of a connection id from its arrival and adds only
\* the timeouts of its announces.  What it leaves out, the time the answer was
\* on its way, the timeouts of the connect bound, so that no announce is made
\* with an id much older than it believes.
AgeBounded ==
  \A r \in requests : r.kind = "announce" => r.at - r.id < Ttl + AllWaits

\* With the code's timeouts that keeps every id that is used within
\* UDP_CONNECTION_ID_TTL of its issue, late answers included.
IdsFresh == \A r \in requests : r.kind = "announce" => r.at - r.id < Ttl

\* The peers that are returned are those the tracker gave in answer to the
\* last announce, not to an earlier one that was given up.
OwnAnswer == outcome \in Results => <<tid, outcome>> \in given

\* A late answer ends the exchange with an error, because the transaction id
\* is no longer the one expected.  That takes a retry or a duplicate, and it
\* cannot happen in the first connect, whose attempts share an id: a tracker
\* that answers every request in time, and once, is never lost that way.
MismatchForCause ==
  outcome = "mismatch" =>
    \/ attempt > 0
    \/ /\ phase = "announcing"
       /\ tries > 0 \/ copies < Duplicates

\* The caller waits at most this long for one tracker.  A renewal costs a
\* connect and gives the announces their first timeout again; the number of
\* announces is not changed by it.  With the code's constants no id grows old
\* enough to be renewed, and this is 70 seconds.
MaxTime == IF Ttl <= InitialTimeout THEN 3 * AllWaits + 3 * InitialTimeout
           ELSE IF Ttl <= RetryWaits THEN 2 * AllWaits + 4 * InitialTimeout
           ELSE 2 * AllWaits

EndsInTime == now <= MaxTime

\* Whatever is lost, the exchange ends.
Ends == <>(outcome # "pending")

\* It keeps the promise of a query.
Query == INSTANCE TrackerQuery WITH
  given <- {g[2] : g \in given},
  outcome <- IF outcome \in Errors THEN "error" ELSE outcome

ImplementsQuery == Query!Spec
=============================================================================
