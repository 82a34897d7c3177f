------------------------------ MODULE MCParts ------------------------------
\* The ten parts, each on a small instance, checked in one run.
EXTENDS Parts, TLC

CONSTANTS k1, k2

MCUpload == {<<k1>>, <<k2, k1>>}
MCBlobId == 1 .. 2
MCVersion == {<<0, 1>>, <<0, 2, 0, Text>>, <<0, 2, Text>>, <<1, 0, 1>>}

\* Of the large parts.
MCSymmetry == Permutations(Peer) \union Permutations(Password)
=============================================================================
