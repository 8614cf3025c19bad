--------------------------- MODULE MCChunkParser ---------------------------
(* The responses ChunkParser is tried on: every list of up to three frames. *)
EXTENDS ChunkParser

\* An empty message, one that looks like the start of a trailers header, and
\* one of two bytes; empty, good and undecodable trailers.
MCFrames ==
  [type : {"message"}, data : {<<>>, <<128>>, <<0, 200>>}]
    \cup [type : {"trailers"}, data : {<<>>, <<65>>, <<200>>}]

MCFrameLists == UNION { [1..n -> MCFrames] : n \in 1..3 }
=============================================================================
