------------------------------ MODULE MCBlkMem ------------------------------
(* Small instance of BlkMem: descriptors of 8 bytes cut into blocks of 2,  *)
(* 4 or 8 bytes, every address of the space freed with every size.         *)
EXTENDS BlkMem

MCBlkSize == <<2, 4, 8>>
MCBitl    == <<4, 2, 1>>
MCSizes   == {2, 3, 4, 8}
MCAddrs   == 0 .. (SpaceStart + NDesc * MapOne)

\* An image within the first block, and one too long for it.
MCKernels == {[start |-> SpaceStart, end |-> SpaceStart + 2],
              [start |-> SpaceStart, end |-> SpaceStart + 4]}

\* As on the board (lmosem.lds:5 against global.c:10): the image lies in a later
\* descriptor than the first.
MCBoardKernels == {[start |-> SpaceStart + 2 * MapOne, end |-> SpaceStart + 2 * MapOne + 2]}
=============================================================================
