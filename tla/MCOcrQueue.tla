----------------------------- MODULE MCOcrQueue -----------------------------
(***************************************************************************)
(* Two documents and two passes that may overlap.  The documents declare   *)
(* the same bytes or different ones, which is every choice for two up to a *)
(* renaming; those that differ got one file at first, until another upload *)
(* puts that right.                                                        *)
(***************************************************************************)
EXTENDS OcrQueue

CONSTANTS d1, d2, h1, h2

MCDocs == {d1, d2}

Same == [d \in MCDocs |-> h1]
Different == [d \in MCDocs |-> IF d = d1 THEN h1 ELSE h2]
Upload(declared, put) == [sha |-> declared, bytes |-> put]

MCUploads == {Upload(Same, Same), Upload(Different, Same)}

=============================================================================
