--------------------------------- MODULE MCWFS --------------------------------
(* A small instance of WFS for TLC                                          *)
EXTENDS WFS, TLC

CONSTANTS na, nb

\* Calls work in the root and in the directory na.
RootAndA == {<<>>, <<na>>}

\* From the direct block into the first indirect one, for which the image has not
\* enough blocks; the last block of the largest file, behind a hole; a write that
\* starts in the middle of that block and ends past the largest file
FewWrites == {<<1, 2>>, <<4, 2>>, <<5, 2>>}

==============================================================================
