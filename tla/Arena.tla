-------------------------------- MODULE Arena ------------------------------
(***************************************************************************)
(* What a heap promises its clients: a request is either refused or gets a *)
(* piece of the arena, of at least the bytes asked for, that shares no     *)
(* byte with any piece still held.  Heap.tla implements it.                *)
(***************************************************************************)
EXTENDS Integers, Functions

CONSTANT Requests      \* the sizes clients ask for

VARIABLES held,        \* the pieces held: address -> bytes asked for
          size         \* bytes of the arena, the same for ever

ArenaInit == held = [a \in {} |-> 0] /\ size \in Nat

Apart(a, n, b, m) == a + n <= b \/ b + m <= a

Grant(a, n) == /\ a \notin DOMAIN held
               /\ a + n <= size
               /\ \A b \in DOMAIN held : Apart(a, n, b, held[b])
               /\ held' = [b \in DOMAIN held \cup {a} |-> IF b = a THEN n ELSE held[b]]

Release(a) == held' = Restrict(held, DOMAIN held \ {a})

ArenaNext == /\ \/ \E a \in 0..size, n \in Requests : Grant(a, n)
                \/ \E a \in DOMAIN held : Release(a)
             /\ UNCHANGED size

ArenaSpec == ArenaInit /\ [][ArenaNext]_<<held, size>>
=============================================================================
