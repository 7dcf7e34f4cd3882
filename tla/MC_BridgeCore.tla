--------------------------- MODULE MC_BridgeCore ----------------------------
(* Instances of BridgeCore for TLC: two deposits and two networks.         *)
EXTENDS BridgeCore, TLC

CONSTANTS d1, d2, n1, n2

\* Two deposits on n1 bound for n2, in consecutive blocks, with the same
\* (from, to, amount, token): finalize_transfer cannot tell them apart.
MC_Deposit == {d1, d2}
MC_Net     == {n1, n2}
MC_Src     == [d \in MC_Deposit |-> n1]
MC_Dst     == [d \in MC_Deposit |-> n2]
MC_Block   == (d1 :> 1) @@ (d2 :> 2)
MC_Key     == [d \in MC_Deposit |-> "k"]

\* Opposite directions: d1 from n1 to n2, d2 from n2 to n1, both in block 1.
MC_SrcCross == (d1 :> n1) @@ (d2 :> n2)
MC_DstCross == (d1 :> n2) @@ (d2 :> n1)
MC_BlockOne == [d \in MC_Deposit |-> 1]
MC_KeyDistinct == (d1 :> "k1") @@ (d2 :> "k2")

\* One deposit only.
MC_Single == {d1}
MC_SrcSingle == (d1 :> n1)
MC_DstSingle == (d1 :> n2)
MC_BlockSingle == (d1 :> 1)
MC_KeySingle == (d1 :> "k1")

\* Deposits whose amount does not convert: none, or the first one.
MC_NoDeposit == {}
MC_FirstDeposit == {d1}

\* Deposits of a token that setup-tokens adds while the bridge runs.
MC_LateSecond == {d2}

\* State constraints that take one cause of a lost deposit out of
\* deposit_dropped, to reach the others alone: the destination connector
\* registers before any FundsIn is handled, and the rows of a deposit's
\* token exist before it is handled.
MC_DestinationFirst == \A d \in Deposit : inW[d] = "none" \/ Dst[d] \in registered
MC_TokenRowsFirst == \A d \in Deposit : inW[d] = "none" \/ Tok(d) \in dbTokens

=============================================================================
