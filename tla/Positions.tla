----------------------------- MODULE Positions -----------------------------
(* The scans of src/llmtivo stop at the first position that fits. *)
EXTENDS Naturals

First(positions) == CHOOSE i \in positions : \A j \in positions : i <= j

=============================================================================
