----------------------------- MODULE MCWorldFile -----------------------------
(***************************************************************************)
(* Two seeds, two chunks, and game params files that add, reorder and drop *)
(* names, up to the number of names that is refused on loading.            *)
(***************************************************************************)
EXTENDS WorldFile

MCBuiltin == <<"air">>
MCParamFiles == {<<"tree", "sand">>, <<"sand">>, <<"coal", "sand", "tree">>,
                 <<"coal", "sand", "iron", "tree">>}
=============================================================================
