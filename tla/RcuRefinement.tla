---------------------------- MODULE RcuRefinement ----------------------------
(***************************************************************************)
(* RcuList implements AtomicLevels, when the writers replace levels of the *)
(* service and no wait of a search is interrupted.  A store happens when   *)
(* the new element is linked, and is complete when the epoch flips.  A     *)
(* lookup takes its element when the traversal arrives at it.              *)
(***************************************************************************)
EXTENDS RcuList

\* kmalloc'd by a replace that has not linked it yet.
Unlinked(a) == \E w \in Writers : wpc[w] \in {"lock", "scan", "search"}
                                    /\ wnew[w] = a
BeingRemoved(a) == \E w \in Writers : removed[w] = a

Current(l) ==
  IF l >= built THEN NULL
  ELSE CHOOSE a \in alloc : lvl[a] = l /\ ~Unlinked(a) /\ ~BeingRemoved(a)

ArrivedAt(r) == rpc[r] = "visit" /\ lvl[rp[r]] = rkey[r]

PhaseOf(r) ==
  IF r \in strayed THEN "lost"
  ELSE CASE rpc[r] = "idle"                 -> "idle"
         [] rpc[r] = "wait"                 -> "called"
         [] rpc[r] = "exit" \/ ArrivedAt(r) -> "taken"
         [] rpc[r] = "use"                  -> "done"
         [] OTHER                           -> "looking"

Overtaken(r) ==
  r \in late \/ (rpc[r] = "wait" /\ myEpoch[r] # epoch)

FoundBy(r) == IF PhaseOf(r) \in {"taken", "done"} THEN rp[r] ELSE NULL

Contents       == [l \in Level |-> Current(l)]
LiveElements   == {a \in alloc : ~Unlinked(a)}
StorePending   == \E w \in Writers : wpc[w] \in {"fix", "flip"}
SearchPhases   == [r \in Readers |-> PhaseOf(r)]
SearchResults  == [r \in Readers |-> FoundBy(r)]
OvertakenOnes  == {r \in Readers : Overtaken(r)}

Abstract == INSTANCE AtomicLevels WITH
  Levels    <- Level,
  Elements  <- Addr,
  Nothing   <- NULL,
  content   <- Contents,
  live      <- LiveElements,
  storing   <- StorePending,
  phase     <- SearchPhases,
  level     <- rkey,
  found     <- SearchResults,
  overtaken <- OvertakenOnes

(* The traversal without a lock, the two-step link of a replace (188-189), *)
(* the epochs and the grace period look to the callers like atomic stores  *)
(* and lookups: a lookup that no epoch overtook during its wait takes an   *)
(* element that its level held at one instant, and that element is not     *)
(* freed before the lookup ends.                                           *)
ImplementsAtomicLevels == Abstract!Spec

=============================================================================
