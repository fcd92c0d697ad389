------------------------------ MODULE MC_Reloc ------------------------------
(***************************************************************************)
(* Reloc for TLC: two image files, sectors 0..SectMax, chunk headers of   *)
(* up to MaxBatch relocations.                                             *)
(***************************************************************************)
EXTENDS Reloc, TLC

MCFiles == {"a", "b"}

(* a has V3 (32-bit) headers, b V5 (64-bit) ones. *)
MCVersionMixed == ("a" :> 3) @@ ("b" :> 5)

(* Both files have V5 headers. *)
MCVersionV5 == [f \in MCFiles |-> 5]

=============================================================================
