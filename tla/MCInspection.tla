----------------------------- MODULE MCInspection -----------------------------
(* Bounds for model checking Inspection.                                    *)
EXTENDS Inspection

(* The family that does not recognise a blocked source.                     *)
Gelbooru == {"gelbooru"}

==============================================================================
