------------------------------ MODULE MCPlans ------------------------------
(* Small instances of Plans for TLC; the constants are model values.       *)
EXTENDS Plans

(* The first step is gated, or none is.                                    *)
FirstOrNone == {{1}, {}}
=============================================================================
