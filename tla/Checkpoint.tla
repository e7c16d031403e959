----------------------------- MODULE Checkpoint -----------------------------
(***************************************************************************)
(* What the resume storage of rs-torrent promises to a user who starts,    *)
(* kills and restarts a download: verified pieces are only ever added to   *)
(* what a restart will find, the output appears once and only complete,    *)
(* and nothing the program itself does takes either of them back.  Only    *)
(* the outside world, and only while no download runs, can damage them.    *)
(***************************************************************************)
CONSTANT Pieces              \* the pieces of the torrent

VARIABLES
  running,                   \* a download process is alive
  kept,                      \* the pieces a restart would not fetch again
  delivered                  \* the finished output is in place

vars == <<running, kept, delivered>>

Init == /\ running = FALSE
        /\ kept = {}
        /\ delivered = FALSE

\* A download process starts; it finds what the last one kept.
Start == /\ ~running
         /\ running' = TRUE
         /\ UNCHANGED <<kept, delivered>>

\* The process ends, by itself or killed.
Stop == /\ running
        /\ running' = FALSE
        /\ UNCHANGED <<kept, delivered>>

\* More verified pieces are recorded.
Save(S) == /\ running
           /\ kept' = kept \union S
           /\ UNCHANGED <<running, delivered>>

\* The whole torrent is put at its destination.
Deliver == /\ running
           /\ kept = Pieces
           /\ delivered' = TRUE
           /\ UNCHANGED <<running, kept>>

\* Somebody else damages the partial download of a stopped process.
Damage(S) == /\ ~running
             /\ ~delivered
             /\ kept' = kept \ S
             /\ UNCHANGED <<running, delivered>>

Next == \/ Start
        \/ Stop
        \/ \E S \in SUBSET Pieces : Save(S)
        \/ Deliver
        \/ \E S \in SUBSET Pieces : Damage(S)

Spec == Init /\ [][Next]_vars
=============================================================================
