--------------------------- MODULE MCAesFraming -----------------------------
(* Small instances of AesFraming for TLC.                                     *)
EXTENDS AesFraming, TLC

CONSTANTS m0, m1, m2

\* Nothing, less than a block, and a block.
Sizes == m0 :> 0 @@ m1 :> 1 @@ m2 :> 2

CodeSizes == "GCM" :> 2 @@ "CBC" :> 3
=============================================================================
