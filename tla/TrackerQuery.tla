----------------------------- MODULE TrackerQuery -----------------------------
(***************************************************************************)
(* What query_tracker of src/tracker.rs promises to its caller, whichever  *)
(* way the tracker is reached: it returns once, either with a list of      *)
(* peers that the tracker gave in answer to this query, or with an error.  *)
(***************************************************************************)
VARIABLES
  given,   \* the answers the tracker has given to this query
  outcome  \* what the caller has got

\* A list with peers, and a list without.
Results == {"peers", "none"}

Init == /\ given = {}
        /\ outcome = "pending"

Give == /\ given' \in SUBSET Results
        /\ given \subseteq given'
        /\ UNCHANGED outcome

Return == /\ outcome = "pending"
          /\ outcome' \in given \union {"error"}
          /\ UNCHANGED given

Next == Give \/ Return

Spec == Init /\ [][Next]_<<given, outcome>>
=============================================================================
