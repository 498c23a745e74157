-------------------------------- MODULE MCSync --------------------------------
(* Listings and indexes for the runs of StockSync. A is listed on both     *)
(* exchanges, B on BSE only.                                               *)
EXTENDS StockSync, TLC

CONSTANTS nA, bA, bB, u1, u2, beat

MCIsin == (nA :> "A") @@ (bA :> "A") @@ (bB :> "B")
MCMembers == [x \in {"nifty500", "fno"} |-> {nA}]
MCUserPhases == {{"equity", "index_flags", "fundamentals"}, {"equity"}}

(* A can be missing from the list of NSE when it is already traded on BSE; *)
(* the hundreds of stocks that are always listed play no part.             *)
MCLists == {{nA}, {}}
=============================================================================
