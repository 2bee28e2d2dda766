---------------------------- MODULE MCGoWrapper ----------------------------
(***************************************************************************)
(* TLC instance of GoWrapper: slices of no, two and three bytes with a     *)
(* zero byte right behind them, one with a zero byte at its beginning or   *)
(* behind its first byte, and one whose next zero byte may be up to two    *)
(* bytes further away.                                                     *)
(***************************************************************************)
EXTENDS GoWrapper, TLC

CONSTANTS g1, g2, k1, k2, empty, two, three, cut, open

MCSlices == {empty, two, three, cut, open}
MCSliceLen == empty :> 0 @@ two :> 2 @@ three :> 3 @@ cut :> 4 @@ open :> 2
MCByteLens == empty :> {} @@ two :> {2} @@ three :> {3} @@ cut :> {0, 1} @@ open :> {2, 3, 4}

(* No step reads what the last calls have returned.                        *)
WithoutResult == <<alive, maxBufSize, calls, object, force_set, entries, racing, fault>>

GoSymmetry == Permutations(Goroutines) \cup Permutations(Keys)
=============================================================================
