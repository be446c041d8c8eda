----------------------------- MODULE AtomicLevels -----------------------------
(***************************************************************************)
(* What the list of a TAG service (list.h, 43-52) promises to tag_send and *)
(* tag_receive, with no list in it: each level holds one element; storing  *)
(* one is atomic; a lookup takes, at one instant, the element its level    *)
(* holds.  An element that was replaced is destroyed only when no lookup   *)
(* is on it.                                                               *)
(*                                                                         *)
(* The promise has two exceptions, and only these.  While a store is being *)
(* completed a lookup may miss its level.  And a lookup that a store       *)
(* overtook between its call and its start (the wait in between may last)  *)
(* may take any element, or have it destroyed under it.                    *)
(***************************************************************************)
CONSTANTS Readers, Levels, Elements,
  Nothing   \* is no element

VARIABLES
  content,    \* the element of each level, Nothing until it is filled
  live,       \* the elements that are not destroyed
  storing,    \* a store has changed a level and is not complete
  phase,      \* of each lookup
  level,      \* the level it is for
  found,      \* the element it took
  overtaken   \* the lookups a store completed on before they started

vars == <<content, live, storing, phase, level, found, overtaken>>

Phases == {"idle", "called", "looking", "taken", "done", "lost"}
Filled == \A l \in Levels : content[l] # Nothing

Init ==
  /\ content = [l \in Levels |-> Nothing]
  /\ live = {}
  /\ storing = FALSE
  /\ phase = [r \in Readers |-> "idle"]
  /\ level \in [Readers -> Levels]
  /\ found = [r \in Readers |-> Nothing]
  /\ overtaken = {}

-----------------------------------------------------------------------------
(* Updates *)

Put(l, e) ==
  /\ e \notin live
  /\ live' = live \cup {e}
  /\ content' = [content EXCEPT ![l] = e]

Fill(l, e) ==
  /\ content[l] = Nothing
  /\ Put(l, e)
  /\ UNCHANGED <<storing, phase, level, found, overtaken>>

Store(l, e) ==
  /\ Filled /\ ~storing
  /\ Put(l, e)
  /\ storing' = TRUE
  /\ UNCHANGED <<phase, level, found, overtaken>>

\* Lookups that have started are not overtaken: they are waited for.
Complete ==
  /\ storing
  /\ storing' = FALSE
  /\ \E late \in SUBSET {r \in Readers : phase[r] = "called"} :
       overtaken' = {r \in overtaken : phase[r] # "called"} \cup late
  /\ UNCHANGED <<content, live, phase, level, found>>

Replaced(e) == e \in live /\ \A l \in Levels : content[l] # e

\* An element is destroyed under nobody but those that are done with the
\* lookup that found it, and those a store overtook.
Destroy(e) ==
  /\ Replaced(e)
  /\ \A r \in Readers :
       found[r] = e /\ phase[r] = "taken" => r \in overtaken
  /\ live' = live \ {e}
  /\ \E lost \in SUBSET {r \in Readers : \/ phase[r] = "done" /\ found[r] = e
                                         \/ r \in overtaken} :
       /\ phase' = [r \in Readers |-> IF r \in lost THEN "lost" ELSE phase[r]]
       /\ found' = [r \in Readers |-> IF r \in lost THEN Nothing ELSE found[r]]
  /\ UNCHANGED <<content, storing, level, overtaken>>

-----------------------------------------------------------------------------
(* Lookups *)

Call(r, l) ==
  /\ Filled
  /\ phase[r] = "idle"
  /\ phase' = [phase EXCEPT ![r] = "called"]
  /\ level' = [level EXCEPT ![r] = l]
  /\ UNCHANGED <<content, live, storing, found, overtaken>>

Start(r) ==
  /\ phase[r] = "called"
  /\ phase' = [phase EXCEPT ![r] = "looking"]
  /\ UNCHANGED <<content, live, storing, level, found, overtaken>>

Allowed(r) ==
  {content[level[r]]}
    \cup (IF storing \/ r \in overtaken THEN {Nothing} ELSE {})
    \cup (IF r \in overtaken THEN live ELSE {})

Take(r) ==
  /\ phase[r] = "looking"
  /\ phase' = [phase EXCEPT ![r] = "taken"]
  /\ \E e \in Allowed(r) : found' = [found EXCEPT ![r] = e]
  /\ UNCHANGED <<content, live, storing, level, overtaken>>

\* The lookup ends; the caller goes on with what it found.
Finish(r) ==
  /\ phase[r] = "taken" /\ found[r] # Nothing
  /\ phase' = [phase EXCEPT ![r] = "done"]
  /\ UNCHANGED <<content, live, storing, level, found, overtaken>>

Return(r) ==
  /\ \/ phase[r] \in {"called", "done", "lost"}
     \/ phase[r] = "taken" /\ found[r] = Nothing
  /\ phase' = [phase EXCEPT ![r] = "idle"]
  /\ found' = [found EXCEPT ![r] = Nothing]
  /\ level' \in {[level EXCEPT ![r] = l] : l \in Levels}
  /\ overtaken' = overtaken \ {r}
  /\ UNCHANGED <<content, live, storing>>

-----------------------------------------------------------------------------
Next ==
  \/ \E l \in Levels, e \in Elements : Fill(l, e) \/ Store(l, e)
  \/ Complete
  \/ \E e \in Elements : Destroy(e)
  \/ \E r \in Readers : \/ \E l \in Levels : Call(r, l)
                        \/ Start(r) \/ Take(r) \/ Finish(r) \/ Return(r)

Spec == Init /\ [][Next]_vars

=============================================================================
