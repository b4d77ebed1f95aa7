---------------------------- MODULE MCPageTable ----------------------------
(* PageTable for TLC: nine pages, enough to double the table three times    *)
(* from one bucket.  Keys 2 and 3 have the same hash, 1 and 5 share a bucket *)
(* until the fourth bit of the hash counts, pages 1 and 2 have the same key, *)
(* and most pages begin under another key than they end.                    *)
EXTENDS PageTable

MCFirstKey == <<1, 1, 2, 2, 3, 5, 6, 6, 8>>
MCLastKey  == <<1, 1, 2, 3, 4, 5, 6, 7, 8>>
MCMix      == [key \in Keys |-> <<7, 3, 3, 4, 15, 9, 2, 8, 0>>[key]]
=============================================================================
