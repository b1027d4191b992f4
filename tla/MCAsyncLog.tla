----------------------------- MODULE MCAsyncLog -----------------------------
(* Two clients, one of which makes two calls; a queue of two cells.         *)
EXTENDS AsyncLog, TLC

CONSTANTS c1, c2

MCClient == {c1, c2}
MCMaxCalls == (c1 :> 2) @@ (c2 :> 1)
MCItem == {<<c1, 1>>, <<c1, 2>>, <<c2, 1>>, Flush, Terminate}
=============================================================================
