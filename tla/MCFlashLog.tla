------------------------------ MODULE MCFlashLog ------------------------------
(* The smallest sector of FlashLog with the real one's remainder by seven,   *)
(* where a save can straddle an erase at every word: 65536 % 7 = 16 % 7 = 2. *)
EXTENDS FlashLog

\* What a cut-short erase may leave: nothing, the first word, a hole in the
\* middle, the last words.
SomeLeftovers == {{}, {0}, {2, 9}, {SectorWords - 2, SectorWords - 1}}
=============================================================================
