---------------------------- MODULE MCCardReader ----------------------------
(* Two cards that can be swapped, replies of up to three bytes, one block    *)
(* and the end of the image, and three states of the control file.           *)
EXTENDS CardReader

CONSTANTS cardA, cardB

MCCards == {cardA, cardB}
=============================================================================
