----------------------------- MODULE MCUnicode -----------------------------
(***************************************************************************)
(* The bytes next to each bound a decoder can get wrong, and every code    *)
(* point there is, in blocks that are counted through side by side.        *)
(***************************************************************************)
EXTENDS Unicode

MCBytes == {0, 127, 128, 143, 144, 159, 160, 191, 192, 193, 194, 223, 224,
            225, 236, 237, 238, 239, 240, 241, 243, 244, 245, 255}

MCBlocks == {4096 * n : n \in 0..271}
=============================================================================
