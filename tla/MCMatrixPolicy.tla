--------------------------- MODULE MCMatrixPolicy ---------------------------
(* MatrixPolicy on a small instance: a text, and its two edits in one        *)
(* transaction.                                                              *)
EXTENDS MatrixPolicy, TLC

CONSTANTS text, edit1, edit2, h1, h2

MCTxns == << <<text>>, <<edit1, edit2>> >>
MCTarget == edit1 :> text @@ edit2 :> text
=============================================================================
