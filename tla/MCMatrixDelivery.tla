-------------------------- MODULE MCMatrixDelivery --------------------------
(* MatrixDelivery on small instances. *)
EXTENDS MatrixDelivery, TLC

CONSTANTS photo, text, redaction, edit, split, h1, h2

(* A photo (with its file name as text) and a text; the redaction of the    *)
(* photo and an edit of the text.                                           *)
MCTxns == << <<photo, text>>, <<redaction, edit>> >>
MCTarget == redaction :> photo @@ edit :> text

(* The photo and its redaction. *)
MCPhotoTxns == << <<photo>>, <<redaction>> >>
MCPhotoTarget == redaction :> photo

(* The text the preview cannot cut. *)
MCSplitTxns == << <<split>> >>
MCNoTarget == <<>>

MCSymmetry == Permutations({h1, h2})
=============================================================================
