------------------------ MODULE MC_StreamTranslation ------------------------
(* A small instance of StreamTranslation.tla for TLC.                       *)
EXTENDS StreamTranslation

ThreeTools == {0, 1, 2}
=============================================================================
