---------------------------- MODULE MCTokenCursor ----------------------------
(* A text with a split at its end, two adjacent ">>" and a plain token.     *)
EXTENDS TokenCursor

MCText == <<"plain", "shr", "shr", "plain", "shr">>
MCTextLen == 5
=============================================================================
