----------------------------- MODULE MCTCPStore -----------------------------
(***************************************************************************)
(* Small instances of TCPStore for TLC.                                    *)
(***************************************************************************)
EXTENDS TCPStore, TLC

CONSTANTS k1, k2, w1, w2, w3

(* Lists of keys: one key, two, and one key twice.                         *)
OneList == {<<k1>>}
Twice == {<<k1, k1>>}
TwoLists == {<<k1, k2>>, <<k2, k2>>}

(* The value clients write.                                                *)
OneValue == {<<Text>>}

(* Workers other than the server are interchangeable.                      *)
Symmetric == Permutations(Client \ {Server})
=============================================================================
