------------------------------ MODULE MCTools ------------------------------
(* Small inputs for every script.                                          *)
EXTENDS Tools

(* Up to six weights, in groups of four.                                   *)
MatricesUsed == [1 .. 2 -> -4 .. 4] \cup [1 .. 4 -> {-3, -1, 1, 4}] \cup [1 .. 6 -> {-4, 1}]
\* 50 and 30 iterations in the scripts: with three the loop may end before
\* it has converged
ExportersUsed == [fjm |-> [iters |-> 3, final |-> TRUE],
                gemma7 |-> [iters |-> 2, final |-> FALSE]]

(* The kernel of this tree, one of another schema, one with an operation   *)
(* the script does not know; one operation stands for those of all layers. *)
BuildsUsed == {[version |-> 1, ops |-> <<"embed_lookup", "q_proj", "argmax">>],
             [version |-> 2, ops |-> <<"embed_lookup", "argmax">>],
             [version |-> 1, ops |-> <<"embed_lookup", "rope">>]}
MCOpNames == {"embed_lookup", "q_proj", "argmax"}

(* Bytes 0 and 1 and tokens of them; in hf the bytes are not the first.    *)
VocabsUsed ==
    [test |-> <<<<0>>, <<1>>, <<0, 1>>, <<1, 1>>, <<0, 1, 1>>, <<1, 1, 0, 0>>, <<0, 0>>>>,
     hf |-> <<<<1, 0>>, <<0>>, <<1>>, <<1, 0, 0>>, <<0, 0>>, <<0, 1>>, <<0, 1, 0>>, <<1, 1>>>>]
TextsUsed == UNION {[1 .. n -> 0 .. 1] : n \in 1 .. 4}

(* Two or three files: in the root, in a directory, in one within it, with *)
(* names that case or an underscore keeps apart.                           *)
MCUpper(word) == IF word = "a" THEN "A" ELSE word
MCPaths == {<<<<"A">>>>, <<<<"a">>>>, <<<<"D">>>>, <<<<"D", "A">>>>, <<<<"D">>, <<"A">>>>,
            <<<<"D">>, <<"B">>>>, <<<<"D">>, <<"E">>, <<"A">>>>, <<<<"a">>, <<"B">>>>}
ManifestsUsed == {[i \in DOMAIN paths |-> [path |-> paths[i], bytes |-> i]] :
                   paths \in UNION {[1 .. n -> MCPaths] : n \in 2 .. 3}}

RegionListsUsed == UNION {[1 .. n -> [start : 0 .. 3, size : 1 .. 3]] : n \in 1 .. 3}

(* The shape of the script, and larger ones up to 24 layers.               *)
ShapesUsed == {[layers |-> l, d |-> d, vocab |-> 16] : l \in {1, 2, 3, 13, 14, 24},
                                                     d \in {4, 8, 12}}

\* TLC computes these once, and would compute what a cfg assigns each time.
MCMatrices == MatricesUsed
MCExporters == ExportersUsed
MCBuilds == BuildsUsed
MCVocabs == VocabsUsed
MCTexts == TextsUsed
MCManifests == ManifestsUsed
MCRegionLists == RegionListsUsed
MCShapes == ShapesUsed
=============================================================================
