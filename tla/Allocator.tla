------------------------------ MODULE Allocator ------------------------------
(***************************************************************************)
(* What a memory allocator promises its callers: a region granted for a    *)
(* request is at least as long as the request and overlaps no region that  *)
(* is still granted; a region is taken back only by its release.           *)
(***************************************************************************)
EXTENDS Naturals

CONSTANTS Requests,  \* sizes asked for
          Arena      \* regions lie in 0..Arena-1

VARIABLE regions     \* address -> length, of the regions now granted

Disjoint(a, la, b, lb) == a + la <= b \/ b + lb <= a

With(f, x, y) == [z \in DOMAIN f \cup {x} |-> IF z = x THEN y ELSE f[z]]

Init == regions = << >>

Alloc(n) ==
    /\ n # 0
    /\ \E a \in 0..(Arena - 1) : \E len \in n..(Arena - a) :
         /\ \A b \in DOMAIN regions : Disjoint(a, len, b, regions[b])
         /\ regions' = With(regions, a, len)

Release(a) == regions' = [b \in DOMAIN regions \ {a} |-> regions[b]]

Next == \/ \E n \in Requests : Alloc(n)
        \/ \E a \in DOMAIN regions : Release(a)

Spec == Init /\ [][Next]_regions
=============================================================================
