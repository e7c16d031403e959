--------------------------- MODULE MCPeerConnection ---------------------------
(***************************************************************************)
(* Greetings of peers for the model checker.                               *)
(***************************************************************************)
EXTENDS PeerConnection

Hello == <<"hello", 1>>
PlainHello == <<"hello", 0>>
Bits(n) == <<"bits", n>>
Extension(id) == <<"ext0", id>>

\* Peers that choose this client's identifier for ut_metadata, know no
\* extensions, lack the piece, send no bitfield, cannot serve metadata, choose
\* 0 as the identifier, break the handshake or the extension handshake, or
\* send the bitfield first.
SomeGreetings ==
  {<<Hello, Extension(1), Bits(1)>>,
   <<PlainHello, Bits(1)>>,
   <<Hello, Extension(1), Bits(0)>>,
   <<Hello, Extension(NoId)>>,
   <<Hello, Extension(0), Extension(0)>>,
   <<Hello, Extension(Unparsable), Bits(1)>>,
   <<<<"hello", -1>>>>,
   <<Hello, Bits(1), Extension(1)>>}

\* A peer that sends the bitfield before the extension handshake.
BitfieldFirst == {<<Hello, Bits(1), Extension(1)>>}

\* A peer that chooses another identifier for ut_metadata.
OtherId == {<<Hello, Extension(2), Bits(1)>>}
=============================================================================
