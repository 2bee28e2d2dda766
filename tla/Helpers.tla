------------------------------ MODULE Helpers ------------------------------
(***************************************************************************)
(* Integers of the machine and the functions of helpers.cpp that compute   *)
(* with them.  A definition named Bug... is its neighbour with a plausible *)
(* mistake in it, as in ShardStore.                                        *)
(***************************************************************************)
EXTENDS Integers

CONSTANTS
    Word32,     \* 2^32, scaled down
    Word64      \* 2^64, scaled down

ASSUME HelpersAssumption ==
    /\ Word32 \in Nat \ {0}
    /\ Word64 \in Nat \ {0}
    /\ 2 * Word32 <= Word64
    /\ Word64 % 2 = 0

Half == Word64 \div 2
Int64 == (-Half) .. (Half - 1)

(* Conversions of C++ between integer types.                               *)
U32(x) == x % Word32
U64(x) == x % Word64
I64(x) == IF U64(x) >= Half THEN U64(x) - Word64 ELSE U64(x)

(* strtol: a number that does not fit is replaced by the limit.            *)
BugAtoi64(n) == n
Atoi64(n) == IF n \in Int64 THEN n ELSE IF n < 0 THEN -Half ELSE Half - 1

(* The operator & of two unsigned numbers, from the last bit on.           *)
And[a \in Nat] ==
    [b \in Nat |->
       IF a = 0 \/ b = 0 THEN 0 ELSE 2 * And[a \div 2][b \div 2] + (a % 2) * (b % 2)]
BitAnd(a, b) == And[a][b]

(* A word has two to some power many values, like 2^64.                    *)
ASSUME WordIsPow2 == BitAnd(Word64, Word64 - 1) = 0

BugIsPow2(n) == BitAnd(n, 1) = 0
IsPow2(n) == BitAnd(n, U32(n - 1)) = 0
=============================================================================
