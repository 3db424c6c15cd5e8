---------------------------- MODULE MCGrfReader ----------------------------
(***************************************************************************)
(* TLC instance of GrfReader: the layout as it is, words of 16 bits and    *)
(* longs of 25, small limits.                                              *)
(***************************************************************************)
EXTENDS GrfReader, TLC

\* 84 and 148 are key blocks with one record and with two; 65535 is all a
\* word holds.
MCWords == {0, 1, 8, 9, 40, 84, 148, 65535}

\* Blocks too short for the name that is said to be in them, and one whose
\* low byte alone gives the length of the name.
MCBlocks == {0, 2, 10, 264, 65535}

\* 795 is 40 bytes packed, and as many in the clear, with the bias of 0x1xx;
\* 37619 is 40 with the other.
MCLengths == {0, 40, 150, 795, 37619}
MCOffsets == {0, 60, Long - 47, Long - 1}
=============================================================================
