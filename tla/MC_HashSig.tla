----------------------------- MODULE MC_HashSig -----------------------------
(***************************************************************************)
(* HashSig for TLC: the inputs of MC_Hashmap, without pending fixups (the *)
(* walk's handling of them is checked by MC_Hashmap), and the widths of    *)
(* the uint32_t fields.                                                    *)
(***************************************************************************)
EXTENDS MC_Hashmap, HashSig

MCNoFixups == {{}}

=============================================================================
