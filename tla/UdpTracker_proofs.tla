--------------------------- MODULE UdpTracker_proofs ---------------------------
(***************************************************************************)
(* Proofs about the exchange with a UDP tracker, for all timeouts, every   *)
(* lifetime of a connection id and any number of duplicated datagrams.     *)
(***************************************************************************)
EXTENDS UdpTracker, FiniteSetTheorems, TLAPS

-----------------------------------------------------------------------------
(* What a step can be: the actions that may end the exchange are split.    *)

ConnectRetry ==
  /\ Running
  /\ phase = "connecting"
  /\ left = 0
  /\ tries + 1 < MaxAttempts
  /\ tries' = tries + 1
  /\ wait' = 2 * wait
  /\ phase' = "connect"
  /\ UNCHANGED <<tid, attempt, left, id, elapsed, outcome, now, network>>

ConnectAccept(d) ==
  /\ Running
  /\ phase = "connecting"
  /\ d.tid = tid
  /\ Receive(d)
  /\ id' = d.at
  /\ elapsed' = 0
  /\ wait' = InitialTimeout
  /\ phase' = "announce"
  /\ UNCHANGED <<tid, tries, attempt, left, outcome, now, requests, given>>

AnnounceRetry ==
  /\ Running
  /\ phase = "announcing"
  /\ left = 0
  /\ attempt + 1 < MaxAttempts
  /\ attempt' = attempt + 1
  /\ elapsed' = elapsed + wait
  /\ wait' = 2 * wait
  /\ phase' = "announce"
  /\ UNCHANGED <<tid, tries, left, id, outcome, now, network>>

\* What the exchange may end with.
Justified(result) ==
  /\ result \in Results \union Errors
  /\ result \in Results => \E d \in net : d.tid = tid /\ d.kind = result
  /\ result = "mismatch" => /\ phase \in {"connecting", "announcing"}
                            /\ \E d \in net : d.tid # tid

Ended(result) == Running /\ Justified(result) /\ Return(result)

LEMMA StepCases ==
  ASSUME [Next]_vars
  PROVE  \/ UNCHANGED vars
         \/ \E result : Ended(result)
         \/ ConnectSend
         \/ ConnectRetry
         \/ \E d \in net : ConnectAccept(d)
         \/ AnnounceSend
         \/ Renew
         \/ AnnounceRetry
         \/ \E r \in requests, kind \in {"connect", "error"} \union Lists :
              Answer(r, kind)
         \/ Tick
<1>1. Justified("timeout") /\ Justified("io") /\ Justified("refused")
  BY DEF Justified, Results, Errors
<1>2. CASE ConnectTimeout
  BY <1>1, <1>2 DEF ConnectTimeout, ConnectRetry, Ended
<1>3. CASE AnnounceTimeout
  BY <1>1, <1>3 DEF AnnounceTimeout, AnnounceRetry, Ended
<1>4. ASSUME NEW d \in net, NEW expected, phase \in {"connecting", "announcing"},
             Verdict(d, expected) # "accepted"
      PROVE  Justified(Verdict(d, expected))
  <2>1. CASE d.tid # tid
    <3>1. Verdict(d, expected) = "mismatch"
      BY <2>1 DEF Verdict
    <3>2. QED
      BY <1>4, <2>1, <3>1 DEF Justified, Results, Errors
  <2>2. CASE d.tid = tid
    <3>1. Verdict(d, expected) = "refused"
      BY <1>4, <2>2 DEF Verdict
    <3>2. QED
      BY <1>1, <3>1
  <2>3. QED
    BY <2>1, <2>2
<1>5. ASSUME NEW d \in net, NEW expected, Verdict(d, expected) = "accepted"
      PROVE  d.tid = tid /\ d.kind \in expected
  BY <1>5 DEF Verdict
<1>6. ASSUME NEW d \in net, ConnectAnswer(d)
      PROVE  ConnectAccept(d) \/ \E result : Ended(result)
  <2>1. CASE Verdict(d, {"connect"}) = "accepted"
    BY <1>5, <1>6, <2>1 DEF ConnectAnswer, ConnectAccept
  <2>2. CASE Verdict(d, {"connect"}) # "accepted"
    BY <1>4, <1>6, <2>2 DEF ConnectAnswer, Ended
  <2>3. QED
    BY <2>1, <2>2
<1>7. ASSUME NEW d \in net, AnnounceAnswer(d)
      PROVE  \E result : Ended(result)
  <2>1. CASE Verdict(d, Results) = "accepted"
    <3>1. Justified(d.kind)
      BY <1>5, <2>1 DEF Justified, Results
    <3>2. QED
      BY <1>7, <2>1, <3>1 DEF AnnounceAnswer, Ended
  <2>2. CASE Verdict(d, Results) # "accepted"
    BY <1>4, <1>7, <2>2 DEF AnnounceAnswer, Ended
  <2>3. QED
    BY <2>1, <2>2
<1>8. CASE SocketError
  BY <1>1, <1>8 DEF SocketError, Ended
<1>9. QED
  BY <1>2, <1>3, <1>6, <1>7, <1>8 DEF Next, Proceed

-----------------------------------------------------------------------------
(* The invariant *)

Connecting == phase \in {"connect", "connecting"}
Announcing == phase \in {"announce", "announcing"}

\* How much of the current wait has passed.
Passed == IF phase \in {"connecting", "announcing"} THEN wait - left ELSE 0

\* What is on its way was sent, with an id that was drawn.
Sent == /\ \A r \in requests : r.at <= now /\ r.tid <= tid
        /\ \A d \in net : d.at <= now /\ d.tid <= tid

\* The timeout tells what has been waited before.
Waits ==
  /\ phase \in {"connecting", "announcing"} => left <= wait
  /\ Connecting => /\ tries = 0 => wait = InitialTimeout
                   /\ tries = 1 => wait = 2 * InitialTimeout
                   /\ tries = 2 => wait = 4 * InitialTimeout
  /\ Announcing => /\ elapsed = wait - InitialTimeout
                   /\ wait \in {InitialTimeout, 2 * InitialTimeout, 4 * InitialTimeout}
  /\ phase = "announcing" => Fresh

\* The announces that were made and the renewals tell the timeout.
Renewals ==
  /\ Connecting => \/ attempt = 0
                   \/ Ttl <= InitialTimeout
                   \/ attempt = 2 /\ Ttl <= RetryWaits
  /\ Announcing =>
       \/ attempt = 0 /\ wait = InitialTimeout
       \/ attempt = 1 /\ wait = InitialTimeout /\ Ttl <= InitialTimeout
       \/ attempt = 1 /\ wait = 2 * InitialTimeout
       \/ attempt = 2 /\ wait = InitialTimeout /\ Ttl <= RetryWaits
       \/ attempt = 2 /\ wait = 2 * InitialTimeout /\ Ttl <= InitialTimeout
       \/ attempt = 2 /\ wait = 4 * InitialTimeout /\ Ttl > InitialTimeout

\* The age of what may be accepted as the answer to the current connect, and
\* the age of the id that it gave.
Ages ==
  /\ Connecting /\ (phase = "connecting" \/ tries > 0) =>
       /\ \A r \in requests : r.tid = tid => now - r.at <= wait - InitialTimeout + Passed
       /\ \A d \in net : d.tid = tid => now - d.at <= wait - InitialTimeout + Passed
  /\ Announcing => now - id <= AllWaits + elapsed + Passed

\* Lists on their way were given.
Given == \A d \in net : d.kind \in Results => <<d.tid, d.kind>> \in given

\* In the first connect nothing has another transaction id; if it needs no
\* retry and nothing is duplicated, no datagram of it is left behind.
First ==
  attempt = 0 =>
    /\ phase = "connect" /\ tries = 0 => requests = {} /\ net = {}
    /\ Connecting => /\ \A r \in requests : r.tid = tid
                     /\ \A d \in net : d.tid = tid
    /\ tries = 0 /\ copies = Duplicates =>
         /\ phase = "connecting" => /\ \A r \in requests : requests = {r}
                                    /\ \A d \in net : net = {d} /\ requests = {}
         /\ phase = "announce" => requests = {} /\ net = {}
         /\ phase = "announcing" => /\ \A r \in requests : r.tid = tid
                                    /\ \A d \in net : d.tid = tid

\* When the current connect began at the latest, and when the connect began
\* that gave the current id.
ConnectStart == IF attempt = 0 THEN 0
                ELSE IF Ttl > InitialTimeout THEN 10 * InitialTimeout
                ELSE IF attempt = 1 THEN 8 * InitialTimeout
                ELSE 16 * InitialTimeout

IdStart == IF wait = InitialTimeout THEN ConnectStart
           ELSE IF attempt = 2 /\ wait = 2 * InitialTimeout THEN 8 * InitialTimeout
           ELSE 0

Times ==
  /\ Connecting => now <= ConnectStart + wait - InitialTimeout + Passed
  /\ Announcing => now <= IdStart + AllWaits + elapsed + Passed

Inv == /\ TypeOK
       /\ Sent
       /\ Waits
       /\ Renewals
       /\ Ages
       /\ AgeBounded
       /\ Given
       /\ First
       /\ OwnAnswer
       /\ MismatchForCause
       /\ Times

-----------------------------------------------------------------------------
(* Every part of the invariant is preserved. *)

LEMMA InitInv == Init => Inv
BY TimesAssumption
   DEF Init, Inv, TypeOK, Sent, Waits, Renewals, Ages, AgeBounded, Given, First, OwnAnswer,
       MismatchForCause, Times, Connecting, Announcing, Passed, ConnectStart, IdStart,
       Fresh, MaxAttempts, Results, Errors, Requests, Datagrams, AllWaits, RetryWaits

LEMMA TypeStep == Inv /\ [Next]_vars => TypeOK'
<1> SUFFICES ASSUME TypeOK, Sent, [Next]_vars PROVE TypeOK'
  BY DEF Inv
<1> USE TimesAssumption DEF TypeOK
<1>1. CASE UNCHANGED vars
  BY <1>1 DEF vars, call, network
<1>2. ASSUME NEW result, Ended(result) PROVE TypeOK'
  BY <1>2 DEF Ended, Justified, Return, call
<1>3. CASE ConnectSend
  <2>1. [tid |-> tid', kind |-> "connect", id |-> 0, at |-> now] \in Requests
    BY <1>3 DEF ConnectSend, Send, Requests
  <2>2. QED
    BY <1>3, <2>1 DEF ConnectSend, Send, call
<1>4. CASE ConnectRetry
  BY <1>4 DEF ConnectRetry, network, MaxAttempts
<1>5. ASSUME NEW d \in net, ConnectAccept(d) PROVE TypeOK'
  <2>1. d.at \in 0 .. now
    BY <1>5 DEF Datagrams, Sent
  <2>2. QED
    BY <1>5, <2>1 DEF ConnectAccept, Receive
<1>6. CASE AnnounceSend
  <2>1. [tid |-> tid', kind |-> "announce", id |-> id, at |-> now] \in Requests
    BY <1>6 DEF AnnounceSend, Send, Requests
  <2>2. QED
    BY <1>6, <2>1 DEF AnnounceSend, Send, call
<1>7. CASE Renew
  BY <1>7 DEF Renew, network, MaxAttempts
<1>8. CASE AnnounceRetry
  BY <1>8 DEF AnnounceRetry, network, MaxAttempts
<1>9. ASSUME NEW r \in requests, NEW kind \in {"connect", "error"} \union Lists,
             Answer(r, kind)
      PROVE  TypeOK'
  <2>1. /\ [tid |-> r.tid, kind |-> kind, at |-> r.at] \in Datagrams
        /\ {r.tid} \X ({kind} \intersect Results) \subseteq Nat \X Results
    BY <1>9 DEF Requests, Datagrams, Results
  <2>2. QED
    BY <1>9, <2>1 DEF Answer, call
<1>10. CASE Tick
  BY <1>10 DEF Tick, call, network
<1>11. QED
  BY <1>1, <1>2, <1>3, <1>4, <1>5, <1>6, <1>7, <1>8, <1>9, <1>10, StepCases

LEMMA SentStep == Inv /\ [Next]_vars => Sent'
<1> SUFFICES ASSUME TypeOK, Sent, [Next]_vars PROVE Sent'
  BY DEF Inv
<1> USE TimesAssumption DEF TypeOK, Sent, Requests, Datagrams
<1>1. CASE UNCHANGED vars
  BY <1>1 DEF vars, call, network
<1>2. ASSUME NEW result, Ended(result) PROVE Sent'
  BY <1>2 DEF Ended, Return, call
<1>3. CASE ConnectSend
  BY <1>3 DEF ConnectSend, Send, call
<1>4. CASE ConnectRetry
  BY <1>4 DEF ConnectRetry, network, MaxAttempts
<1>5. ASSUME NEW d \in net, ConnectAccept(d) PROVE Sent'
  BY <1>5 DEF ConnectAccept, Receive
<1>6. CASE AnnounceSend
  BY <1>6 DEF AnnounceSend, Send, call
<1>7. CASE Renew
  BY <1>7 DEF Renew, network
<1>8. CASE AnnounceRetry
  BY <1>8 DEF AnnounceRetry, network, MaxAttempts
<1>9. ASSUME NEW r \in requests, NEW kind \in {"connect", "error"} \union Lists,
             Answer(r, kind)
      PROVE  Sent'
  BY <1>9 DEF Answer, call
<1>10. CASE Tick
  BY <1>10 DEF Tick, call, network
<1>11. QED
  BY <1>1, <1>2, <1>3, <1>4, <1>5, <1>6, <1>7, <1>8, <1>9, <1>10, StepCases

LEMMA WaitsStep == Inv /\ [Next]_vars => Waits'
<1> SUFFICES ASSUME TypeOK, Waits, Renewals, [Next]_vars PROVE Waits'
  BY DEF Inv
<1> USE TimesAssumption DEF TypeOK, Waits, Renewals, Connecting, Announcing, Fresh, MaxAttempts
<1>1. CASE UNCHANGED vars
  BY <1>1 DEF vars, call, network
<1>2. ASSUME NEW result, Ended(result) PROVE Waits'
  BY <1>2 DEF Ended, Return, call
<1>3. CASE ConnectSend
  BY <1>3 DEF ConnectSend, Send, call
<1>4. CASE ConnectRetry
  BY <1>4 DEF ConnectRetry, network, MaxAttempts
<1>5. ASSUME NEW d \in net, ConnectAccept(d) PROVE Waits'
  BY <1>5 DEF ConnectAccept, Receive
<1>6. CASE AnnounceSend
  BY <1>6 DEF AnnounceSend, Send, call
<1>7. CASE Renew
  BY <1>7 DEF Renew, network
<1>8. CASE AnnounceRetry
  BY <1>8 DEF AnnounceRetry, network, MaxAttempts
<1>9. ASSUME NEW r \in requests, NEW kind \in {"connect", "error"} \union Lists,
             Answer(r, kind)
      PROVE  Waits'
  BY <1>9 DEF Answer, call
<1>10. CASE Tick
  BY <1>10 DEF Tick, call, network
<1>11. QED
  BY <1>1, <1>2, <1>3, <1>4, <1>5, <1>6, <1>7, <1>8, <1>9, <1>10, StepCases

LEMMA RenewalsStep == Inv /\ [Next]_vars => Renewals'
<1> SUFFICES ASSUME TypeOK, Waits, Renewals, [Next]_vars PROVE Renewals'
  BY DEF Inv
<1> USE TimesAssumption DEF TypeOK, Waits, Renewals, Connecting, Announcing, Fresh, MaxAttempts, RetryWaits
<1>1. CASE UNCHANGED vars
  BY <1>1 DEF vars, call, network
<1>2. ASSUME NEW result, Ended(result) PROVE Renewals'
  BY <1>2 DEF Ended, Return, call
<1>3. CASE ConnectSend
  BY <1>3 DEF ConnectSend, Send, call
<1>4. CASE ConnectRetry
  BY <1>4 DEF ConnectRetry, network, MaxAttempts
<1>5. ASSUME NEW d \in net, ConnectAccept(d) PROVE Renewals'
  BY <1>5 DEF ConnectAccept, Receive
<1>6. CASE AnnounceSend
  BY <1>6 DEF AnnounceSend, Send, call
<1>7. CASE Renew
  BY <1>7 DEF Renew, network
<1>8. CASE AnnounceRetry
  BY <1>8 DEF AnnounceRetry, network, MaxAttempts
<1>9. ASSUME NEW r \in requests, NEW kind \in {"connect", "error"} \union Lists,
             Answer(r, kind)
      PROVE  Renewals'
  BY <1>9 DEF Answer, call
<1>10. CASE Tick
  BY <1>10 DEF Tick, call, network
<1>11. QED
  BY <1>1, <1>2, <1>3, <1>4, <1>5, <1>6, <1>7, <1>8, <1>9, <1>10, StepCases

LEMMA TimesStep == Inv /\ [Next]_vars => Times'
<1> SUFFICES ASSUME TypeOK, Waits, Renewals, Times, [Next]_vars PROVE Times'
  BY DEF Inv
<1> USE TimesAssumption DEF TypeOK, Waits, Renewals, Times, Connecting, Announcing, Passed, ConnectStart, IdStart, Fresh, MaxAttempts, AllWaits, RetryWaits
<1>1. CASE UNCHANGED vars
  BY <1>1 DEF vars, call, network
<1>2. ASSUME NEW result, Ended(result) PROVE Times'
  BY <1>2 DEF Ended, Return, call
<1>3. CASE ConnectSend
  BY <1>3 DEF ConnectSend, Send, call
<1>4. CASE ConnectRetry
  BY <1>4 DEF ConnectRetry, network, MaxAttempts
<1>5. ASSUME NEW d \in net, ConnectAccept(d) PROVE Times'
  BY <1>5 DEF ConnectAccept, Receive
<1>6. CASE AnnounceSend
  BY <1>6 DEF AnnounceSend, Send, call
<1>7. CASE Renew
  BY <1>7 DEF Renew, network
<1>8. CASE AnnounceRetry
  BY <1>8 DEF AnnounceRetry, network, MaxAttempts
<1>9. ASSUME NEW r \in requests, NEW kind \in {"connect", "error"} \union Lists,
             Answer(r, kind)
      PROVE  Times'
  BY <1>9 DEF Answer, call
<1>10. CASE Tick
  BY <1>10 DEF Tick, call, network
<1>11. QED
  BY <1>1, <1>2, <1>3, <1>4, <1>5, <1>6, <1>7, <1>8, <1>9, <1>10, StepCases

LEMMA AgesStep == Inv /\ [Next]_vars => Ages'
<1> SUFFICES ASSUME TypeOK, Sent, Waits, Ages, [Next]_vars PROVE Ages'
  BY DEF Inv
<1> USE TimesAssumption DEF TypeOK, Sent, Waits, Ages, Requests, Datagrams, Connecting, Announcing, Passed, Fresh, MaxAttempts, AllWaits
<1>1. CASE UNCHANGED vars
  BY <1>1 DEF vars, call, network
<1>2. ASSUME NEW result, Ended(result) PROVE Ages'
  BY <1>2 DEF Ended, Return, call
<1>3. CASE ConnectSend
  BY <1>3 DEF ConnectSend, Send, call
<1>4. CASE ConnectRetry
  BY <1>4 DEF ConnectRetry, network, MaxAttempts
<1>5. ASSUME NEW d \in net, ConnectAccept(d) PROVE Ages'
  BY <1>5 DEF ConnectAccept, Receive
<1>6. CASE AnnounceSend
  BY <1>6 DEF AnnounceSend, Send, call
<1>7. CASE Renew
  BY <1>7 DEF Renew, network
<1>8. CASE AnnounceRetry
  BY <1>8 DEF AnnounceRetry, network, MaxAttempts
<1>9. ASSUME NEW r \in requests, NEW kind \in {"connect", "error"} \union Lists,
             Answer(r, kind)
      PROVE  Ages'
  BY <1>9 DEF Answer, call
<1>10. CASE Tick
  BY <1>10 DEF Tick, call, network
<1>11. QED
  BY <1>1, <1>2, <1>3, <1>4, <1>5, <1>6, <1>7, <1>8, <1>9, <1>10, StepCases

LEMMA AgeBoundedStep == Inv /\ [Next]_vars => AgeBounded'
<1> SUFFICES ASSUME TypeOK, Waits, Ages, AgeBounded, [Next]_vars PROVE AgeBounded'
  BY DEF Inv
<1> USE TimesAssumption DEF TypeOK, Waits, Ages, AgeBounded, Requests, Connecting, Announcing, Passed, Fresh, AllWaits
<1>1. CASE UNCHANGED vars
  BY <1>1 DEF vars, call, network
<1>2. ASSUME NEW result, Ended(result) PROVE AgeBounded'
  BY <1>2 DEF Ended, Return, call
<1>3. CASE ConnectSend
  BY <1>3 DEF ConnectSend, Send, call
<1>4. CASE ConnectRetry
  BY <1>4 DEF ConnectRetry, network, MaxAttempts
<1>5. ASSUME NEW d \in net, ConnectAccept(d) PROVE AgeBounded'
  BY <1>5 DEF ConnectAccept, Receive
<1>6. CASE AnnounceSend
  BY <1>6 DEF AnnounceSend, Send, call
<1>7. CASE Renew
  BY <1>7 DEF Renew, network
<1>8. CASE AnnounceRetry
  BY <1>8 DEF AnnounceRetry, network, MaxAttempts
<1>9. ASSUME NEW r \in requests, NEW kind \in {"connect", "error"} \union Lists,
             Answer(r, kind)
      PROVE  AgeBounded'
  BY <1>9 DEF Answer, call
<1>10. CASE Tick
  BY <1>10 DEF Tick, call, network
<1>11. QED
  BY <1>1, <1>2, <1>3, <1>4, <1>5, <1>6, <1>7, <1>8, <1>9, <1>10, StepCases

LEMMA GivenStep == Inv /\ [Next]_vars => Given'
<1> SUFFICES ASSUME TypeOK, Given, [Next]_vars PROVE Given'
  BY DEF Inv
<1> USE TimesAssumption DEF Given
<1>1. CASE UNCHANGED vars
  BY <1>1 DEF vars, call, network
<1>2. ASSUME NEW result, Ended(result) PROVE Given'
  BY <1>2 DEF Ended, Return, call
<1>3. CASE ConnectSend
  BY <1>3 DEF ConnectSend, Send, call
<1>4. CASE ConnectRetry
  BY <1>4 DEF ConnectRetry, network, MaxAttempts
<1>5. ASSUME NEW d \in net, ConnectAccept(d) PROVE Given'
  BY <1>5 DEF ConnectAccept, Receive
<1>6. CASE AnnounceSend
  BY <1>6 DEF AnnounceSend, Send, call
<1>7. CASE Renew
  BY <1>7 DEF Renew, network
<1>8. CASE AnnounceRetry
  BY <1>8 DEF AnnounceRetry, network, MaxAttempts
<1>9. ASSUME NEW r \in requests, NEW kind \in {"connect", "error"} \union Lists,
             Answer(r, kind)
      PROVE  Given'
  BY <1>9 DEF Answer, call
<1>10. CASE Tick
  BY <1>10 DEF Tick, call, network
<1>11. QED
  BY <1>1, <1>2, <1>3, <1>4, <1>5, <1>6, <1>7, <1>8, <1>9, <1>10, StepCases

LEMMA FirstStep == Inv /\ [Next]_vars => First'
<1> SUFFICES ASSUME TypeOK, Sent, Waits, Renewals, First, [Next]_vars PROVE First'
  BY DEF Inv
<1> USE TimesAssumption DEF TypeOK, Sent, Waits, Renewals, First, Requests, Datagrams, Connecting, Announcing, Fresh, MaxAttempts
<1>1. CASE UNCHANGED vars
  BY <1>1 DEF vars, call, network
<1>2. ASSUME NEW result, Ended(result) PROVE First'
  BY <1>2 DEF Ended, Return, call
<1>3. CASE ConnectSend
  BY <1>3 DEF ConnectSend, Send, call
<1>4. CASE ConnectRetry
  BY <1>4 DEF ConnectRetry, network, MaxAttempts
<1>5. ASSUME NEW d \in net, ConnectAccept(d) PROVE First'
  BY <1>5 DEF ConnectAccept, Receive
<1>6. CASE AnnounceSend
  BY <1>6 DEF AnnounceSend, Send, call
<1>7. CASE Renew
  BY <1>7 DEF Renew, network
<1>8. CASE AnnounceRetry
  BY <1>8 DEF AnnounceRetry, network, MaxAttempts
<1>9. ASSUME NEW r \in requests, NEW kind \in {"connect", "error"} \union Lists,
             Answer(r, kind)
      PROVE  First'
  BY <1>9 DEF Answer, call
<1>10. CASE Tick
  BY <1>10 DEF Tick, call, network
<1>11. QED
  BY <1>1, <1>2, <1>3, <1>4, <1>5, <1>6, <1>7, <1>8, <1>9, <1>10, StepCases

LEMMA OwnAnswerStep == Inv /\ [Next]_vars => OwnAnswer'
<1> SUFFICES ASSUME TypeOK, Given, OwnAnswer, [Next]_vars PROVE OwnAnswer'
  BY DEF Inv
<1> USE TimesAssumption DEF OwnAnswer, Running, Results
<1>1. CASE UNCHANGED vars
  BY <1>1 DEF vars, call, network
<1>2. ASSUME NEW result, Ended(result) PROVE OwnAnswer'
  <2>1. outcome' = result /\ UNCHANGED <<tid, given>>
    BY <1>2 DEF Ended, Return
  <2>2. result \in Results => <<tid, result>> \in given
    BY <1>2 DEF Ended, Justified, Given
  <2>3. QED
    BY <2>1, <2>2
<1>3. CASE ConnectSend
  BY <1>3 DEF ConnectSend, Send, call
<1>4. CASE ConnectRetry
  BY <1>4 DEF ConnectRetry, network, MaxAttempts
<1>5. ASSUME NEW d \in net, ConnectAccept(d) PROVE OwnAnswer'
  BY <1>5 DEF ConnectAccept, Receive
<1>6. CASE AnnounceSend
  BY <1>6 DEF AnnounceSend, Send, call
<1>7. CASE Renew
  BY <1>7 DEF Renew, network
<1>8. CASE AnnounceRetry
  BY <1>8 DEF AnnounceRetry, network, MaxAttempts
<1>9. ASSUME NEW r \in requests, NEW kind \in {"connect", "error"} \union Lists,
             Answer(r, kind)
      PROVE  OwnAnswer'
  BY <1>9 DEF Answer, call
<1>10. CASE Tick
  BY <1>10 DEF Tick, call, network
<1>11. QED
  BY <1>1, <1>2, <1>3, <1>4, <1>5, <1>6, <1>7, <1>8, <1>9, <1>10, StepCases

LEMMA MismatchStep == Inv /\ [Next]_vars => MismatchForCause'
<1> SUFFICES ASSUME TypeOK, First, MismatchForCause, [Next]_vars PROVE MismatchForCause'
  BY DEF Inv
<1> USE TimesAssumption DEF MismatchForCause, Running
<1>1. CASE UNCHANGED vars
  BY <1>1 DEF vars, call, network
<1>2. ASSUME NEW result, Ended(result) PROVE MismatchForCause'
  <2>1. /\ outcome' = result
        /\ UNCHANGED <<phase, tries, attempt, copies>>
    BY <1>2 DEF Ended, Return, call
  <2>2. CASE result # "mismatch"
    BY <2>1, <2>2
  <2>3. CASE result = "mismatch" /\ attempt = 0
    <3>1. /\ phase \in {"connecting", "announcing"}
          /\ \E d \in net : d.tid # tid
      BY <1>2, <2>3 DEF Ended, Justified
    <3>2. phase = "announcing" /\ ~(tries = 0 /\ copies = Duplicates)
      BY <2>3, <3>1 DEF First, Connecting
    <3>3. QED
      BY <2>1, <3>2 DEF TypeOK, MaxAttempts
  <2>4. CASE result = "mismatch" /\ attempt # 0
    BY <2>1, <2>4 DEF TypeOK, MaxAttempts
  <2>5. QED
    BY <2>2, <2>3, <2>4
<1>3. CASE ConnectSend
  BY <1>3 DEF ConnectSend, Send, call
<1>4. CASE ConnectRetry
  BY <1>4 DEF ConnectRetry, network, MaxAttempts
<1>5. ASSUME NEW d \in net, ConnectAccept(d) PROVE MismatchForCause'
  BY <1>5 DEF ConnectAccept, Receive
<1>6. CASE AnnounceSend
  BY <1>6 DEF AnnounceSend, Send, call
<1>7. CASE Renew
  BY <1>7 DEF Renew, network
<1>8. CASE AnnounceRetry
  BY <1>8 DEF AnnounceRetry, network, MaxAttempts
<1>9. ASSUME NEW r \in requests, NEW kind \in {"connect", "error"} \union Lists,
             Answer(r, kind)
      PROVE  MismatchForCause'
  BY <1>9 DEF Answer, call
<1>10. CASE Tick
  BY <1>10 DEF Tick, call, network
<1>11. QED
  BY <1>1, <1>2, <1>3, <1>4, <1>5, <1>6, <1>7, <1>8, <1>9, <1>10, StepCases

LEMMA Invariance == Spec => []Inv
<1>1. Inv /\ [Next]_vars => Inv'
  BY TypeStep, SentStep, WaitsStep, RenewalsStep, AgesStep, AgeBoundedStep, GivenStep,
     FirstStep, OwnAnswerStep, MismatchStep, TimesStep DEF Inv
<1>2. QED
  BY InitInv, <1>1, PTL DEF Spec

-----------------------------------------------------------------------------
(* Theorems *)

\* Every variable keeps its type; the id in use was asked for in the past.
THEOREM TypeCorrect == Spec => []TypeOK
<1>1. Inv => TypeOK
  BY DEF Inv
<1>2. QED
  BY Invariance, <1>1, PTL

\* No announce is made with an id older than its lifetime and the timeouts of
\* one connect, however late the answer to the connect was.
THEOREM IdsAgeBounded == Spec => []AgeBounded
<1>1. Inv => AgeBounded
  BY DEF Inv
<1>2. QED
  BY Invariance, <1>1, PTL

\* The id of an announce about to be made is at most ten initial timeouts old:
\* seven for its connect, three for the announces before.
LEMMA TenTimeouts ==
  ASSUME Inv, phase = "announce"
  PROVE  now - id <= 10 * InitialTimeout
<1>1. /\ wait <= 4 * InitialTimeout
      /\ elapsed = wait - InitialTimeout
  BY TimesAssumption DEF Inv, Waits, Announcing
<1>2. now - id <= 7 * InitialTimeout + elapsed
  <2>1. now - id <= AllWaits + elapsed + Passed
    BY DEF Inv, Ages, Announcing
  <2>2. Passed = 0
    BY DEF Passed
  <2>3. QED
    BY <2>1, <2>2, TimesAssumption DEF Inv, TypeOK, AllWaits
<1>3. QED
  BY <1>1, <1>2, TimesAssumption DEF Inv, TypeOK

\* If an id lives longer than ten initial timeouts, as with the code's five
\* and sixty seconds, no announce is made with one that has expired.
THEOREM IdsNeverStale ==
  ASSUME 10 * InitialTimeout < Ttl
  PROVE  Spec => []IdsFresh
<1>1. Init => IdsFresh
  BY DEF Init, IdsFresh
<1>2. Inv /\ IdsFresh /\ [Next]_vars => IdsFresh'
  <2> SUFFICES ASSUME Inv, IdsFresh, [Next]_vars PROVE IdsFresh'
    OBVIOUS
  <2>1. CASE requests' \subseteq requests
    BY <2>1 DEF IdsFresh
  <2>2. CASE ConnectSend
    BY <2>2 DEF ConnectSend, Send, IdsFresh
  <2>3. CASE AnnounceSend
    <3>1. now - id < Ttl
      BY <2>3, TenTimeouts, TimesAssumption DEF AnnounceSend, Inv, TypeOK
    <3>2. QED
      BY <2>3, <3>1 DEF AnnounceSend, Send, IdsFresh
  <2>4. \/ requests' \subseteq requests
        \/ ConnectSend
        \/ AnnounceSend
    <3>1. CASE UNCHANGED vars
      BY <3>1 DEF vars, network
    <3>2. CASE \E result : Ended(result)
      BY <3>2 DEF Ended, Return
    <3>3. CASE ConnectRetry \/ Renew \/ AnnounceRetry
      BY <3>3 DEF ConnectRetry, Renew, AnnounceRetry, network
    <3>4. CASE \E d \in net : ConnectAccept(d)
      BY <3>4 DEF ConnectAccept
    <3>5. ASSUME NEW r \in requests, NEW kind, Answer(r, kind)
          PROVE  requests' \subseteq requests
      BY <3>5 DEF Answer
    <3>6. CASE Tick
      BY <3>6 DEF Tick, network
    <3>7. QED
      BY <3>1, <3>2, <3>3, <3>4, <3>5, <3>6, StepCases
  <2>5. QED
    BY <2>1, <2>2, <2>3, <2>4
<1>3. QED
  BY Invariance, <1>1, <1>2, PTL DEF Spec

\* The peers returned answer the last announce, not one that was given up.
THEOREM OwnAnswerOnly == Spec => []OwnAnswer
<1>1. Inv => OwnAnswer
  BY DEF Inv
<1>2. QED
  BY Invariance, <1>1, PTL

\* A late or repeated datagram ends the exchange only after a retry or if the
\* network duplicates, and never during the first connect.
THEOREM MismatchOnlyForCause == Spec => []MismatchForCause
<1>1. Inv => MismatchForCause
  BY DEF Inv
<1>2. QED
  BY Invariance, <1>1, PTL

LEMMA InTime == Inv => EndsInTime
<1> SUFFICES ASSUME Inv PROVE EndsInTime
  OBVIOUS
<1> USE TimesAssumption DEF Inv, TypeOK, Waits, Renewals, Times, Passed, ConnectStart,
        IdStart, Fresh, MaxAttempts, AllWaits, RetryWaits, EndsInTime, MaxTime
<1>1. CASE Connecting
  BY <1>1 DEF Connecting
<1>2. CASE Announcing
  BY <1>2 DEF Announcing
<1>3. QED
  BY <1>1, <1>2 DEF Connecting, Announcing

\* The exchange lasts no longer than its timeouts allow: 14, 18 or 24 initial
\* timeouts, as an id can be renewed never, once or twice.
THEOREM EndsWithinTimeouts == Spec => []EndsInTime
BY Invariance, InTime, PTL

\* The lists given, as TrackerQuery sees them.
GivenLists == {g[2] : g \in given}
\* The outcome, as TrackerQuery sees it.
Reported == IF outcome \in Errors THEN "error" ELSE outcome

\* The exchange is a query: it returns once, with a list that the tracker gave
\* in answer to it or with an error.
THEOREM IsQuery == Spec => ImplementsQuery
<1>1. Init => Query!Init
  BY DEF Init, Query!Init, Errors
<1>2. Inv /\ [Next]_vars => [Query!Next]_<<GivenLists, Reported>>
  <2> SUFFICES ASSUME Inv, [Next]_vars
               PROVE  Query!Next \/ UNCHANGED <<GivenLists, Reported>>
    OBVIOUS
  <2>1. CASE UNCHANGED <<given, outcome>>
    BY <2>1 DEF GivenLists, Reported
  <2>2. ASSUME NEW result, Ended(result)
        PROVE  Query!Return
    <3>1. /\ Reported = "pending"
          /\ UNCHANGED GivenLists
      BY <2>2 DEF Ended, Running, Return, Reported, GivenLists, Errors
    <3>2. Reported' \in GivenLists \union {"error"}
      <4>1. CASE result \in Errors
        BY <2>2, <4>1 DEF Ended, Return, Reported
      <4>2. CASE result \in Results
        <5>1. <<tid, result>> \in given
          BY <2>2, <4>2 DEF Ended, Justified, Inv, Given
        <5>2. result \in GivenLists
          BY <5>1 DEF GivenLists
        <5>3. Reported' = result
          BY <2>2, <4>2 DEF Ended, Return, Reported, Results, Errors
        <5>4. QED
          BY <5>2, <5>3
      <4>3. QED
        BY <2>2, <4>1, <4>2 DEF Ended, Justified
    <3>3. QED
      BY <3>1, <3>2 DEF Query!Return, Reported, GivenLists
  <2>3. ASSUME NEW r \in requests, NEW kind, Answer(r, kind)
        PROVE  Query!Give
    <3>1. given \subseteq given' /\ UNCHANGED outcome
      BY <2>3 DEF Answer
    <3>2. given' \subseteq Nat \X Results
      BY TypeStep DEF TypeOK
    <3>3. /\ GivenLists' \subseteq Results
          /\ GivenLists \subseteq GivenLists'
          /\ UNCHANGED Reported
      BY <3>1, <3>2 DEF GivenLists, Reported
    <3>4. QED
      BY <3>3 DEF Query!Give, Query!Results, Results, GivenLists, Reported
  <2>4. \/ UNCHANGED <<given, outcome>>
        \/ \E result : Ended(result)
        \/ \E r \in requests, kind \in {"connect", "error"} \union Lists :
             Answer(r, kind)
    <3>1. CASE UNCHANGED vars
      BY <3>1 DEF vars, network
    <3>2. CASE ConnectSend \/ AnnounceSend
      BY <3>2 DEF ConnectSend, AnnounceSend, Send
    <3>3. CASE ConnectRetry \/ Renew \/ AnnounceRetry
      BY <3>3 DEF ConnectRetry, Renew, AnnounceRetry, network
    <3>4. CASE \E d \in net : ConnectAccept(d)
      BY <3>4 DEF ConnectAccept
    <3>5. CASE Tick
      BY <3>5 DEF Tick, network
    <3>6. QED
      BY <3>1, <3>2, <3>3, <3>4, <3>5, StepCases
  <2>5. QED
    BY <2>1, <2>2, <2>3, <2>4 DEF Query!Next
<1>3. QED
  BY Invariance, <1>1, <1>2, PTL
     DEF Spec, ImplementsQuery, Query!Spec, GivenLists, Reported

-----------------------------------------------------------------------------
(* The exchange does not go on for ever *)

\* The sends and timeouts of a connect whose attempts so far were lost, and
\* then of an announce; of an announce whose id has expired.
Turns == CASE phase = "connect" -> 2 * (MaxAttempts - tries) + 2
           [] phase = "connecting" -> 2 * (MaxAttempts - tries) + 1
           [] phase = "announce" /\ Fresh -> 2
           [] phase = "announce" /\ ~Fresh -> 9
           [] OTHER -> 1

ClientSteps == IF Running THEN 9 * (MaxAttempts - 1 - attempt) + Turns ELSE 0

\* A request that is sent may be answered, and time passes until the last
\* timeout.
StepsLeft == 2 * ClientSteps + Cardinality(requests) + (MaxTime - now)

\* Every step of the exchange brings its end nearer.
StepsRunOut == [][StepsLeft' < StepsLeft]_vars

LEMMA FewRequests ==
  Spec => []IsFiniteSet(requests)
<1>1. Init => IsFiniteSet(requests)
  BY FS_EmptySet DEF Init
<1>2. IsFiniteSet(requests) /\ [Next]_vars => IsFiniteSet(requests)'
  <2> SUFFICES ASSUME IsFiniteSet(requests), [Next]_vars PROVE IsFiniteSet(requests')
    OBVIOUS
  <2>1. requests' \in SUBSET requests => IsFiniteSet(requests')
    BY FS_Subset
  <2>2. \A x : IsFiniteSet(requests \union {x})
    BY FS_AddElement
  <2>3. CASE ConnectSend
    BY <2>2, <2>3 DEF ConnectSend, Send
  <2>4. CASE AnnounceSend
    BY <2>2, <2>4 DEF AnnounceSend, Send
  <2>5. CASE ~ConnectSend /\ ~AnnounceSend
    <3>1. requests' \in SUBSET requests
      BY <2>5, StepCases
         DEF Ended, Return, ConnectRetry, ConnectAccept, Renew, AnnounceRetry, Answer,
             Tick, vars, network
    <3>2. QED
      BY <2>1, <3>1
  <2>6. QED
    BY <2>3, <2>4, <2>5
<1>3. QED
  BY <1>1, <1>2, PTL DEF Spec

LEMMA RequestNumber ==
  ASSUME IsFiniteSet(requests)
  PROVE  Cardinality(requests) \in Nat
BY FS_CardinalityType

LEMMA ClientStepsType ==
  Inv => /\ ClientSteps \in Nat
         /\ Running => ClientSteps > 0
<1> SUFFICES ASSUME Inv PROVE ClientSteps \in Nat /\ (Running => ClientSteps > 0)
  OBVIOUS
<1>1. tries \in 0 .. 2 /\ attempt \in 0 .. 2
  BY DEF Inv, TypeOK, MaxAttempts
<1>2. Turns \in 1 .. 9
  BY <1>1 DEF Turns, MaxAttempts
<1>3. QED
  BY <1>1, <1>2 DEF ClientSteps, MaxAttempts

\* Every step of the client, of the tracker or of the clock.
LEMMA ClientAdvances ==
  ASSUME Inv, Inv', Running,
         ConnectSend \/ ConnectRetry \/ (\E d \in net : ConnectAccept(d))
           \/ AnnounceSend \/ Renew \/ AnnounceRetry
  PROVE  ClientSteps' < ClientSteps
<1>1. /\ tries \in 0 .. 2 /\ attempt \in 0 .. 2
      /\ tries' \in 0 .. 2 /\ attempt' \in 0 .. 2
      /\ elapsed \in Nat /\ elapsed' \in Nat
  BY DEF Inv, TypeOK, MaxAttempts
<1>2. Running' = Running
  BY DEF Running, ConnectSend, ConnectRetry, ConnectAccept, AnnounceSend, Renew,
         AnnounceRetry, Send
<1> USE DEF ClientSteps, Turns, MaxAttempts
<1>3. CASE ConnectSend
  BY <1>1, <1>2, <1>3 DEF ConnectSend, Send, call
<1>4. CASE ConnectRetry
  BY <1>1, <1>2, <1>4 DEF ConnectRetry
<1>5. CASE \E d \in net : ConnectAccept(d)
  <2>1. Fresh'
    BY <1>5, TimesAssumption DEF ConnectAccept, Fresh, TimesAssumption
  <2>2. QED
    BY <1>1, <1>2, <1>5, <2>1 DEF ConnectAccept
<1>6. CASE AnnounceSend
  BY <1>1, <1>2, <1>6 DEF AnnounceSend, Send, call
<1>7. CASE Renew
  BY <1>1, <1>2, <1>7 DEF Renew
<1>8. CASE AnnounceRetry
  BY <1>1, <1>2, <1>8 DEF AnnounceRetry
<1>9. QED
  BY <1>3, <1>4, <1>5, <1>6, <1>7, <1>8

LEMMA MaxTimeType == MaxTime \in Nat
  BY TimesAssumption DEF MaxTime, AllWaits, RetryWaits, TimesAssumption

LEMMA TimeLeft == Inv => MaxTime - now \in Nat
<1> SUFFICES ASSUME Inv PROVE MaxTime - now \in Nat
  OBVIOUS
<1>1. now <= MaxTime
  BY InTime DEF EndsInTime
<1>2. QED
  BY <1>1, MaxTimeType DEF Inv, TypeOK

LEMMA ClientStepsStill == Inv' => (ClientSteps \in Nat)'
BY ClientStepsType, PTL

LEMMA TimeStill == Inv' => (MaxTime - now \in Nat)'
BY TimeLeft, PTL

LEMMA StepsLeftType == Inv /\ IsFiniteSet(requests) => StepsLeft \in Nat
<1> SUFFICES ASSUME Inv, IsFiniteSet(requests) PROVE StepsLeft \in Nat
  OBVIOUS
<1>1. ClientSteps \in Nat /\ Cardinality(requests) \in Nat /\ MaxTime - now \in Nat
  BY ClientStepsType, RequestNumber, TimeLeft
<1> DEFINE c == ClientSteps  n == Cardinality(requests)  t == MaxTime - now
<1>2. StepsLeft = 2 * c + n + t
  BY DEF StepsLeft
<1> HIDE DEF c, n, t
<1>3. c \in Nat /\ n \in Nat /\ t \in Nat
  BY <1>1 DEF c, n, t
<1>4. QED
  BY <1>2, <1>3

LEMMA StepsLeftTypeStill ==
  Inv' /\ IsFiniteSet(requests)' => (StepsLeft \in Nat)'
BY StepsLeftType, PTL

LEMMA Lower ==
  ASSUME NEW c \in Nat, NEW n \in Nat, NEW t \in Nat,
         NEW c1 \in Nat, NEW n1 \in Nat, NEW t1 \in Nat,
         \/ c1 < c /\ n1 <= n + 1 /\ t1 = t
         \/ c1 = c /\ n1 < n /\ t1 = t
         \/ c1 = c /\ n1 = n /\ t1 < t
  PROVE  2 * c1 + n1 + t1 < 2 * c + n + t
OBVIOUS

\* Every step brings the end of the exchange nearer: one with a tracker that
\* never answers, or answers whatever it likes, takes at most 52 + MaxTime.
THEOREM ExchangeStepsAreBounded ==
  Spec => StepsRunOut /\ [](StepsLeft \in 0 .. 52 + MaxTime)
<1> DEFINE TypeInv == Inv /\ IsFiniteSet(requests)
<1>1. TypeInv /\ TypeInv' /\ [Next]_vars => [StepsLeft' < StepsLeft]_vars
  <2> SUFFICES ASSUME Inv, IsFiniteSet(requests), Inv', IsFiniteSet(requests'),
                      [Next]_vars, ~UNCHANGED vars
               PROVE  StepsLeft' < StepsLeft
    BY DEF TypeInv
  <2> DEFINE c == ClientSteps
             n == Cardinality(requests)
             t == MaxTime - now
             c1 == ClientSteps'
             n1 == Cardinality(requests')
             t1 == MaxTime - now'
  <2>1. StepsLeft = 2 * c + n + t /\ StepsLeft' = 2 * c1 + n1 + t1
    BY DEF StepsLeft, MaxTime, AllWaits, RetryWaits
  <2>2. c \in Nat /\ n \in Nat /\ t \in Nat /\ (Running => c > 0)
    BY ClientStepsType, RequestNumber, TimeLeft
  <2>3. c1 \in Nat /\ t1 \in Nat
    BY ClientStepsStill, TimeStill
  <2>4. n1 \in Nat
    BY FS_CardinalityType
  <2>5. CASE \E result : Ended(result)
    <3>1. Running /\ ~Running' /\ requests' = {} /\ now' = now
      BY <2>5 DEF Ended, Return, Running, Justified, Results, Errors
    <3>2. c1 = 0 /\ n1 = 0 /\ t1 = t
      BY <3>1, FS_EmptySet DEF ClientSteps
    <3> HIDE DEF c, n, t, c1, n1, t1
    <3>3. QED
      BY <2>1, <2>2, <2>3, <2>4, <3>1, <3>2, Lower
  <2>6. CASE ConnectSend \/ AnnounceSend
    <3>1. Running /\ now' = now /\ \E x : requests' = requests \union {x}
      BY <2>6 DEF ConnectSend, AnnounceSend, Send
    <3>2. c1 < c
      BY <2>6, <3>1, ClientAdvances
    <3>3. n1 <= n + 1
      BY <2>2, <3>1, FS_AddElement
    <3>4. t1 = t
      BY <3>1
    <3> HIDE DEF c, n, t, c1, n1, t1
    <3>5. QED
      BY <2>1, <2>2, <2>3, <2>4, <3>2, <3>3, <3>4, Lower
  <2>7. CASE ConnectRetry \/ (\E d \in net : ConnectAccept(d)) \/ Renew \/ AnnounceRetry
    <3>1. Running /\ now' = now /\ requests' = requests
      BY <2>7 DEF ConnectRetry, ConnectAccept, Renew, AnnounceRetry, network
    <3>2. c1 < c
      BY <2>7, <3>1, ClientAdvances
    <3>3. n1 = n /\ t1 = t
      BY <3>1
    <3> HIDE DEF c, n, t, c1, n1, t1
    <3>4. QED
      BY <2>1, <2>2, <2>3, <2>4, <3>2, <3>3, Lower
  <2>8. ASSUME NEW r \in requests, NEW kind, Answer(r, kind)
        PROVE  StepsLeft' < StepsLeft
    <3>1. requests' = requests \ {r} /\ UNCHANGED <<phase, tid, call, left, outcome, now>>
      BY <2>8 DEF Answer
    <3>2. c1 = c /\ t1 = t
      BY <3>1 DEF ClientSteps, Turns, Running, Fresh, call
    <3>3. n1 = n - 1
      BY <3>1, FS_RemoveElement
    <3> HIDE DEF c, n, t, c1, n1, t1
    <3>4. QED
      BY <2>1, <2>2, <2>3, <2>4, <3>2, <3>3, Lower
  <2>9. CASE Tick
    <3>1. now' = now + 1 /\ UNCHANGED <<phase, tid, call, outcome, requests>>
      BY <2>9 DEF Tick, network
    <3>2. c1 = c /\ n1 = n
      BY <3>1 DEF ClientSteps, Turns, Running, Fresh, call
    <3>3. t1 < t
      BY <3>1, MaxTimeType DEF Inv, TypeOK
    <3> HIDE DEF c, n, t, c1, n1, t1
    <3>4. QED
      BY <2>1, <2>2, <2>3, <2>4, <3>2, <3>3, Lower
  <2>10. QED
    BY <2>5, <2>6, <2>7, <2>8, <2>9, StepCases
<1>2. Init => StepsLeft = 52 + MaxTime
  <2> SUFFICES ASSUME Init PROVE StepsLeft = 52 + MaxTime
    OBVIOUS
  <2>1. ClientSteps = 26
    BY DEF Init, ClientSteps, Turns, Running, MaxAttempts
  <2>2. Cardinality(requests) = 0 /\ now = 0
    BY FS_EmptySet DEF Init
  <2>3. QED
    BY <2>1, <2>2, MaxTimeType DEF StepsLeft
<1>3. Init => StepsLeft \in 0 .. 52 + MaxTime
  BY <1>2, MaxTimeType
<1>4. TypeInv /\ TypeInv' /\ [Next]_vars /\ StepsLeft \in 0 .. 52 + MaxTime
        => (StepsLeft \in 0 .. 52 + MaxTime)'
  <2> SUFFICES ASSUME TypeInv, TypeInv', [Next]_vars, StepsLeft \in 0 .. 52 + MaxTime
               PROVE  StepsLeft' \in 0 .. 52 + MaxTime'
    OBVIOUS
  <2>1. StepsLeft' \in Nat /\ StepsLeft \in Nat /\ MaxTime \in Nat /\ MaxTime' = MaxTime
    BY StepsLeftType, StepsLeftTypeStill, MaxTimeType DEF MaxTime, AllWaits, RetryWaits
  <2>2. StepsLeft' <= StepsLeft
    <3>1. CASE ~UNCHANGED vars
      BY <1>1, <2>1, <3>1
    <3>2. CASE UNCHANGED vars
      BY <2>1, <3>2 DEF vars, call, network, StepsLeft, ClientSteps, Turns, Running, Fresh
    <3>3. QED
      BY <3>1, <3>2
  <2>3. QED
    BY <2>1, <2>2
<1>5. Spec => []TypeInv
  BY Invariance, FewRequests, PTL
<1> HIDE DEF TypeInv
<1>6. QED
  BY <1>1, <1>3, <1>4, <1>5, PTL DEF Spec, StepsRunOut
=============================================================================
