------------------------- MODULE GenerationCatalogue -------------------------
(***************************************************************************)
(* What a per-source store of generations promises its readers, whatever   *)
(* tables and files it keeps: a generation is offered for one source, is   *)
(* seen whole or not at all, replaces the one seen before it, and once it  *)
(* is replaced, removed or dropped it is never seen again.  The RAPTOR and *)
(* visual page stores are shown to implement it (GenerationStores).        *)
(***************************************************************************)
CONSTANTS Sources, Gens, None

VARIABLES fate,   \* how far each generation has come
          of      \* the source an offered or visible generation is for

vars == <<fate, of>>

Init ==
    /\ fate = [g \in Gens |-> "unborn"]
    /\ of = [g \in Gens |-> None]

Offer(g, s) ==
    /\ fate[g] = "unborn"
    /\ fate' = [fate EXCEPT ![g] = "offered"]
    /\ of' = [of EXCEPT ![g] = s]

(* The generations of G are never to be seen again. *)
Forget(G) ==
    /\ fate' = [g \in Gens |-> IF g \in G THEN "gone" ELSE fate[g]]
    /\ of' = [g \in Gens |-> IF g \in G THEN None ELSE of[g]]

SeenFor(s) == {g \in Gens : of[g] = s /\ fate[g] = "visible"}

Publish(g) ==
    /\ fate[g] = "offered"
    /\ LET old == SeenFor(of[g]) IN
         /\ fate' = [h \in Gens |-> IF h = g THEN "visible"
                                    ELSE IF h \in old THEN "gone" ELSE fate[h]]
         /\ of' = [h \in Gens |-> IF h \in old THEN None ELSE of[h]]

Remove(s) == Forget({g \in Gens : of[g] = s})

Drop == \E G \in SUBSET {g \in Gens : fate[g] = "offered"} : Forget(G)

Next ==
    \/ \E g \in Gens : Publish(g) \/ \E s \in Sources : Offer(g, s)
    \/ \E s \in Sources : Remove(s)
    \/ Drop

Spec == Init /\ [][Next]_vars
=============================================================================
