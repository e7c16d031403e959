------------------------------- MODULE MCLayout -------------------------------
(***************************************************************************)
(* Torrents for the model checker, with a usize of six bits.               *)
(***************************************************************************)
EXTENDS Layout

File(path, n) == [path |-> path, length |-> n]

Lengths == 0 .. 7

SmallLists ==
  {<<File(<<"a">>, m), File(<<"b", "c">>, n)>> : m \in Lengths, n \in Lengths}
  \union {<<File(<<"a">>, m), File(<<"b">>, 0), File(<<"c">>, n)>> :
            m \in {1, 4}, n \in {0, 3}}

\* Paths that are unsafe, equal, or one below the other.
OddLists ==
  {<<File(<<"a">>, 2), File(p, 3)>> : p \in {<<>>, <<"..">>, <<"a">>, <<"a", "b">>}}

\* Lengths whose sums or halves overflow.
WideLists ==
  {<<File(<<"a">>, 32), File(<<"b">>, 32), File(<<"c">>, 5)>>,
   <<File(<<"a">>, 33)>>, <<File(<<"a">>, 60), File(<<"b">>, 6)>>,
   <<File(<<"a">>, 20), File(<<"b">>, 20)>>}

Torrent(single, files, n, pieces) ==
  [single |-> single, name |-> "root", files |-> files, pieceLength |-> n,
   pieces |-> pieces]

\* An unsafe name, of a directory and of a file.
OddNames == {[Torrent(single, <<File(<<"a">>, 3)>>, 2, 2) EXCEPT !.name = ".."] :
               single \in BOOLEAN}

\* Piece lengths whose products overflow: only the last piece, whose length
\* wraps around too, fits into memory.  Its offset wraps around to 0 or to 2,
\* or is negative as an i64.
WideProducts == {Torrent(single, <<File(<<"a">>, m)>>, n, k) :
                   single \in BOOLEAN,
                   <<m, n, k>> \in {<<4, 16, 5>>, <<5, 22, 4>>, <<5, 31, 3>>}}

SomeTorrents ==
  {Torrent(FALSE, f, n, k) : f \in SmallLists, n \in {2, 5}, k \in 1 .. 4}
  \union {Torrent(FALSE, f, 3, k) : f \in OddLists \union WideLists, k \in 0 .. 2}
  \union OddNames \union WideProducts
  \union {Torrent(TRUE, <<File(<<>>, m)>>, n, k) :
            m \in Lengths \union {33}, n \in {0, 3, 4, 40}, k \in 0 .. 3}
=============================================================================
