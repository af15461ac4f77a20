----------------------------- MODULE MCGpuWatch -----------------------------
(* GpuWatch with two Subscribe calls on one GPU.                           *)
EXTENDS GpuWatch, TLC

CONSTANTS g1, w1, w2, c1, c2, zero

OneWatch == {<<w1>>}
OneOfTwo == {<<w1>>, <<w2>>}
TwoWatches == {<<w1, w2>>}
ListsOfDistinct == {<<w1>>, <<w1, w2>>, <<w2, w1>>}

ClientSymmetry == Permutations({c1, c2})
=============================================================================
