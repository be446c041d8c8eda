---------------------------- MODULE RcuHeapProofs ----------------------------
(***************************************************************************)
(* The heap under the list of RcuList, for any number of readers, writers, *)
(* addresses and levels: what the elements point to, whom the grace period *)
(* protects, and what a write_lock that is not given back stops.           *)
(***************************************************************************)
EXTENDS RcuListProofs, RcuRefinement

\* The elements that are in the list, those a full return of replace (176,
\* 196) lost included: not those that a replace has still to link, nor those
\* that a writer has unlinked.
Linked == {a \in alloc : ~Unlinked(a) /\ ~BeingRemoved(a)}
LinkedOrNull == Linked \cup {NULL}

Unlinking == {"lock", "scan", "search"}
BeforeUnlink == {"idle", "lock", "scan", "search", "rlock", "rscan", "rsearch"}
UnderLockAfter == {"fix", "drain", "flip", "grace", "hung"}

\* Writers begin when the service is published, and write_lock before it is
\* free.
BeginsPublished ==
  ~Published => wlock = NULL /\ \A w \in Writers : wpc[w] = "idle"

\* What the locals of the writers point to.
WriterPointers ==
  \A w \in Writers :
    /\ wpc[w] \in Unlinking => wnew[w] \in alloc /\ nxt[wnew[w]] = NULL
    /\ wpc[w] \in {"search", "rsearch"} => welem[w] \in Linked
    /\ wpc[w] \in BeforeUnlink => removed[w] = NULL
    /\ wpc[w] = "fix" => wnew[w] \in Linked /\ removed[w] # NULL
    /\ wpc[w] = "free" => removed[w] # NULL
    /\ removed[w] # NULL => removed[w] \in alloc
    /\ wpc[w] \in UnderLockAfter /\ removed[w] # NULL =>
         nxt[removed[w]] \in LinkedOrNull

\* Two writers do not work on one element.
WritersApart ==
  \A w, u \in Writers :
    /\ wpc[w] \in Unlinking => wnew[w] # removed[u]
    /\ w # u /\ {wpc[w], wpc[u]} \subseteq Unlinking => wnew[w] # wnew[u]
    /\ w # u /\ removed[w] # NULL => removed[w] # removed[u]

\* The list is closed, and no two of its pointers lead to one element.
HeapClosed ==
  /\ head \in LinkedOrNull
  /\ \A a \in Linked :
       /\ nxt[a] \in LinkedOrNull
       /\ nxt[a] # NULL => nxt[a] # head /\ \A b \in Linked \ {a} : nxt[b] # nxt[a]

\* Between 188 and 189 the rest of the list hangs on the removed element.
FixPending ==
  \A w \in Writers :
    wpc[w] = "fix" /\ nxt[removed[w]] # NULL =>
      nxt[removed[w]] # head /\ \A a \in Linked : nxt[a] # nxt[removed[w]]

\* The levels descend along the list, also from an element just unlinked:
\* a replace puts in an element of the level it takes out.
LevelsDescend ==
  /\ \A a \in Linked : nxt[a] # NULL => lvl[nxt[a]] < lvl[a]
  /\ ~Published => \A a \in alloc : lvl[a] < built
  /\ \A w \in Writers :
       /\ wpc[w] \in Unlinking => lvl[wnew[w]] = wkey[w]
       /\ wpc[w] = "fix" => lvl[wnew[w]] = lvl[removed[w]]
       /\ wpc[w] \in UnderLockAfter /\ removed[w] # NULL
             /\ nxt[removed[w]] # NULL
            => lvl[nxt[removed[w]]] < lvl[removed[w]]

HeapInv == /\ BeginsPublished /\ WriterPointers /\ WritersApart
           /\ HeapClosed /\ FixPending /\ LevelsDescend

\* A search that registered while its epoch was current, and whose epoch no
\* signal has touched.
OnTime(r) == /\ rpc[r] \in {"head", "visit", "exit"}
             /\ r \notin late
             /\ interrupted[myEpoch[r]] = 0

\* The writers under the lock whose unlinked element a search of epoch e may
\* be on, and these elements.
Withdrawing(e) ==
  {w \in Writers : \/ wpc[w] \in {"fix", "drain", "flip"} /\ e = epoch
                   \/ wpc[w] = "grace" /\ graceEpoch[w] = e
                   \/ wpc[w] = "hung"}
Withdrawn(e) == {removed[w] : w \in Withdrawing(e)}

\* The epoch e is current, or a writer is waiting for it.
EpochOpen(e) ==
  \/ e = epoch
  \/ \E w \in Writers : \/ wpc[w] = "grace" /\ graceEpoch[w] = e
                        \/ wpc[w] = "hung"

EpochAwaited == \A r \in Readers : OnTime(r) => EpochOpen(myEpoch[r])

OnTimeOnList ==
  \A r \in Readers : OnTime(r) /\ rpc[r] \in {"visit", "exit"} =>
    rp[r] \in LinkedOrNull \cup Withdrawn(myEpoch[r])

ReadersInv == /\ EpochAwaited /\ OnTimeOnList /\ OnTimeReadersProtected
              /\ \A r \in strayed : rpc[r] \in {"visit", "exit", "use"}
              /\ ~Published => \A r \in Readers : rpc[r] = "idle"

-----------------------------------------------------------------------------
(* LeakedLockStopsUpdates *)

(* A writer that does not have the lock does not touch what it protects.   *)
LEMMA BeginsPublishedNext ==
  TypeInv /\ BeginsPublished /\ [Next]_vars => BeginsPublished'
<1> SUFFICES ASSUME TypeInv, BeginsPublished, [Next]_vars
             PROVE  BeginsPublished'
  OBVIOUS
<1>0. WriterTypes /\ SharedTypes
  BY TypeParts
<1>1. ASSUME NEW w \in Writers, WriterStep(w) PROVE Published'
  <2>1. Published
    <3>1. CASE wpc[w] = "idle"
      BY <1>1, <3>1
      DEF WriterStep, ReplaceBegin, RemoveBegin, Acquire, UnderLock,
          ReplaceLock, RemoveLock, WriteLock, ReplaceScan, ReplaceSearch,
          ReplaceFix, RemoveScan, RemoveSearch, RemoveDrain, FlipEpoch,
          GraceEnd, SpinForever, FreeRemoved
    <3> QED
      BY <3>1 DEF BeginsPublished
  <2>2. UNCHANGED built
    BY <1>1
    DEF WriterStep, ReplaceBegin, RemoveBegin, Acquire, UnderLock,
        ReplaceLock, RemoveLock, WriteLock, ReplaceScan, ReplaceSearch,
        ReplaceFix, RemoveScan, RemoveSearch, RemoveDrain, FlipEpoch,
        GraceEnd, SpinForever, FreeRemoved
  <2> QED
    BY <2>1, <2>2 DEF Published
<1>2. CASE UNCHANGED <<built, wlock, wpc>>
  BY <1>2 DEF BeginsPublished, Published
<1>3. ASSUME NEW r \in Readers, ReaderStep(r) PROVE UNCHANGED <<built, wlock, wpc>>
  BY <1>3
  DEF ReaderStep, InSearch, SearchBegin, WaitInterrupted, Register, ReadHead,
      Visit, Deregister, UseElement, writerVars
<1>4. CASE Insert \/ InsertFails
  BY <1>4 DEF Insert, InsertFails, BeginsPublished, writerVars
<1>5. CASE UNCHANGED vars
  BY <1>2, <1>5 DEF vars, writerVars
<1> QED
  BY <1>1, <1>2, <1>3, <1>4, <1>5 DEF Next, BeginsPublished

(* No writer of a service under construction. *)
LEMMA BeginsPublishedAlways == Spec => []BeginsPublished
<1>1. Init => BeginsPublished
  BY DEF Init, BeginsPublished
<1> QED
  BY <1>1, BeginsPublishedNext, TypeInvariant, PTL DEF Spec

(* The lock left taken by the full returns of replace (176, 196) blocks    *)
(* every later change of the list and of the epoch.                        *)
THEOREM LeakedLockStops == Spec => LeakedLockStopsUpdates
<1>1. TypeInv /\ SectionHoldsLock /\ BeginsPublished /\ [Next]_vars =>
        (Leaked => Leaked' /\ UNCHANGED <<head, epoch, wlock>>)
  <2> SUFFICES ASSUME TypeInv, SectionHoldsLock, BeginsPublished, [Next]_vars,
                      Leaked
               PROVE  Leaked' /\ UNCHANGED <<head, epoch, wlock>>
    OBVIOUS
  <2>0. WriterTypes /\ SharedTypes /\ NULL \notin Writers
    BY TypeParts, ListAssumption
  <2>1. Published /\ wlock # NULL /\ \A w \in Writers : ~InSection(w)
    BY <2>0 DEF BeginsPublished, Leaked, SectionHoldsLock, InSection
  <2>2. ASSUME NEW w \in Writers, WriterStep(w)
        PROVE  Leaked' /\ UNCHANGED <<head, epoch, wlock>>
    <3>1. \/ \E k \in ReplaceKeys : ReplaceBegin(w, k)
          \/ \E k \in RemoveKeys : RemoveBegin(w, k)
          \/ FreeRemoved(w)
      BY <2>1, <2>2
      DEF WriterStep, Acquire, UnderLock, ReplaceLock, RemoveLock, WriteLock,
          LockAvailable, ReplaceScan, ReplaceSearch, ReplaceFix, RemoveScan,
          RemoveSearch, RemoveDrain, FlipEpoch, GraceEnd, SpinForever, InSection
    <3>2. UNCHANGED <<head, epoch, wlock>>
      BY <3>1 DEF ReplaceBegin, RemoveBegin, FreeRemoved, heap
    <3>3. wpc'[wlock] \in {"idle", "lock", "rlock"}
      BY <2>0, <3>1
      DEF ReplaceBegin, RemoveBegin, FreeRemoved, EndCall, Leaked, WriterTypes
    <3> QED
      BY <3>2, <3>3 DEF Leaked
  <2>3. ASSUME NEW r \in Readers, ReaderStep(r)
        PROVE  Leaked' /\ UNCHANGED <<head, epoch, wlock>>
    BY <2>3
    DEF ReaderStep, InSearch, SearchBegin, WaitInterrupted, Register, ReadHead,
        Visit, Deregister, UseElement, writerVars, heap, Leaked
  <2>4. ~Insert /\ ~InsertFails
    BY <2>1 DEF Insert, InsertFails
  <2> QED
    BY <2>2, <2>3, <2>4 DEF Next, vars, heap, writerVars, Leaked
<1> QED
  BY <1>1, TypeInvariant, WriterExclusion, BeginsPublishedAlways, PTL
  DEF Spec, LeakedLockStopsUpdates

-----------------------------------------------------------------------------
(* HeapInv: who works on what *)

\* What the proofs of this part start from.
HeapContext == TypeInv /\ SectionHoldsLock /\ HeapInv

(* Under the lock the other writers are outside of their sections.         *)
LEMMA Alone ==
  ASSUME TypeInv, SectionHoldsLock, NEW w \in Writers, InSection(w)
  PROVE  \A u \in Writers \ {w} : wpc[u] \in {"idle", "lock", "rlock", "free"}
<1> TAKE u \in Writers \ {w}
<1>1. ~InSection(u)
  BY DEF SectionHoldsLock
<1>2. wpc[u] \in WriterPCs
  BY TypeParts DEF WriterTypes
<1> QED
  BY <1>1, <1>2 DEF InSection, WriterPCs

(* The service is published when a writer is in a call. *)
LEMMA InCallPublished ==
  ASSUME BeginsPublished, NEW w \in Writers, wpc[w] # "idle"
  PROVE  Published
BY DEF BeginsPublished

(* What a writer holds that is not in the list. *)
LEMMA LinkedFacts ==
  ASSUME HeapContext
  PROVE  /\ Linked \subseteq alloc /\ Linked \subseteq Addr
         /\ NULL \notin Linked /\ NULL \notin alloc
         /\ \A w \in Writers :
              /\ removed[w] \notin Linked
              /\ wpc[w] \in Unlinking => wnew[w] \notin Linked
BY TypeParts, ListAssumption
DEF HeapContext, Linked, Unlinked, BeingRemoved, Unlinking, SharedTypes

(* Nothing in the list changes: neither the elements nor the pointers.     *)
LEMMA HeapSame ==
  ASSUME HeapContext, Linked' = Linked, head' = head,
         \A a \in Linked : nxt'[a] = nxt[a]
  PROVE  HeapClosed'
BY LinkedFacts DEF HeapContext, HeapInv, HeapClosed, LinkedOrNull

(* rcu_list_insert *)
LEMMA HeapInsert ==
  ASSUME HeapContext, Insert
  PROVE  HeapInv' /\ Linked = alloc /\ Linked' = Linked \cup {head'}
<1>0. WriterTypes /\ SharedTypes /\ NULL \notin Addr
  BY TypeParts, ListAssumption DEF HeapContext
<1>1. \A w \in Writers : wpc[w] = "idle" /\ removed[w] = NULL
  BY DEF HeapContext, HeapInv, BeginsPublished, WriterPointers, Insert,
         BeforeUnlink
<1>2. UNCHANGED <<wlock, writerVars>>
  BY DEF Insert
<1>3. PICK a \in Addr \ alloc :
        /\ alloc' = alloc \cup {a} /\ head' = a
        /\ nxt' = [nxt EXCEPT ![a] = head]
        /\ lvl' = [lvl EXCEPT ![a] = built]
  BY DEF Insert
<1>4. Linked = alloc /\ Linked' = alloc \cup {a}
  BY <1>0, <1>1, <1>2, <1>3
  DEF Linked, Unlinked, BeingRemoved, writerVars, SharedTypes
<1>5. BeginsPublished' /\ WriterPointers' /\ WritersApart' /\ FixPending'
  BY <1>1, <1>2
  DEF BeginsPublished, WriterPointers, WritersApart, FixPending, writerVars,
      Unlinking, BeforeUnlink, UnderLockAfter, HeapContext, HeapInv, Insert
<1>6. HeapClosed'
  BY <1>0, <1>3, <1>4
  DEF HeapContext, HeapInv, HeapClosed, LinkedOrNull, SharedTypes
<1>7. LevelsDescend'
  <2>1. ~Published /\ built' = built + 1 /\ built \in Nat
    BY <1>0 DEF Insert, SharedTypes
  <2>2. \A b \in alloc' : lvl'[b] < built'
    BY <1>0, <1>3, <2>1 DEF SharedTypes, HeapContext, HeapInv, LevelsDescend
  <2>3. head # NULL => head \in alloc
    BY <1>4 DEF HeapContext, HeapInv, HeapClosed, LinkedOrNull
  <2>4. \A b \in Linked' : nxt'[b] # NULL => lvl'[nxt'[b]] < lvl'[b]
    <3>1. \A b \in alloc : nxt[b] # NULL =>
             nxt[b] \in alloc /\ lvl[nxt[b]] < lvl[b]
      BY <1>4
      DEF HeapContext, HeapInv, HeapClosed, LinkedOrNull, LevelsDescend
    <3>2. head # NULL => lvl[head] < built
      BY <2>1, <2>3 DEF HeapContext, HeapInv, LevelsDescend
    <3> QED
      BY <1>0, <1>3, <1>4, <2>1, <2>3, <3>1, <3>2 DEF SharedTypes
  <2> QED
    BY <1>1, <1>2, <2>2, <2>4
    DEF LevelsDescend, writerVars, Unlinking, UnderLockAfter
<1> QED
  BY <1>3, <1>4, <1>5, <1>6, <1>7 DEF HeapInv

(* Steps that leave the heap and the locals of the writers alone. *)
LEMMA HeapOthers ==
  ASSUME HeapContext, UNCHANGED <<heap, wlock, writerVars>>,
         built' = built \/ (~Published /\ built' = built + 1)
  PROVE  HeapInv' /\ Linked' = Linked
<1> USE DEF heap, writerVars
<1>1. Linked' = Linked
  BY DEF Linked, Unlinked, BeingRemoved
<1>2. BeginsPublished'
  BY DEF HeapContext, HeapInv, BeginsPublished, Published
<1>3. WriterPointers' /\ WritersApart' /\ FixPending'
  BY <1>1
  DEF HeapContext, HeapInv, WriterPointers, WritersApart, FixPending,
      LinkedOrNull
<1>4. HeapClosed'
  BY <1>1, HeapSame
<1>5. LevelsDescend'
  <2>1. ~Published' => \A a \in alloc : lvl[a] < built'
    BY TypeParts
    DEF HeapContext, HeapInv, LevelsDescend, Published, SharedTypes
  <2> QED
    BY <1>1, <2>1 DEF HeapContext, HeapInv, LevelsDescend
<1> QED
  BY <1>1, <1>2, <1>3, <1>4, <1>5 DEF HeapInv

(* rcu_list_replace: the new element *)
LEMMA HeapReplaceBegin ==
  ASSUME HeapContext, NEW w \in Writers, NEW k \in ReplaceKeys,
         ReplaceBegin(w, k)
  PROVE  HeapInv' /\ Linked' = Linked
<1>0. WriterTypes /\ SharedTypes /\ NULL \notin Addr
  BY TypeParts, ListAssumption DEF HeapContext
<1>1. PICK a \in Addr \ alloc :
        /\ alloc' = alloc \cup {a}
        /\ nxt' = [nxt EXCEPT ![a] = NULL]
        /\ lvl' = [lvl EXCEPT ![a] = k]
        /\ wnew' = [wnew EXCEPT ![w] = a]
  BY DEF ReplaceBegin
<1>2. /\ Published /\ wpc[w] = "idle" /\ removed[w] = NULL
      /\ wpc' = [wpc EXCEPT ![w] = "lock"]
      /\ wkey' = [wkey EXCEPT ![w] = k]
      /\ UNCHANGED <<head, built, wlock, welem, removed>>
  BY DEF ReplaceBegin, HeapContext, HeapInv, WriterPointers, BeforeUnlink
<1>3. Linked' = Linked
  BY <1>0, <1>1, <1>2
  DEF Linked, Unlinked, BeingRemoved, WriterTypes, SharedTypes
<1>4. BeginsPublished'
  BY <1>2 DEF BeginsPublished, Published
<1>5. \A u \in Writers : removed[u] # a
  BY <1>0, <1>1 DEF HeapContext, HeapInv, WriterPointers
<1>6. WriterPointers'
  BY <1>0, <1>1, <1>2, <1>3, <1>5
  DEF HeapContext, HeapInv, WriterPointers, WriterTypes, SharedTypes,
      Unlinking, BeforeUnlink, UnderLockAfter, LinkedOrNull
<1>7. WritersApart'
  <2>1. \A u \in Writers : wpc[u] \in Unlinking => wnew[u] # a
    BY <1>1 DEF HeapContext, HeapInv, WriterPointers
  <2> QED
    BY <1>0, <1>1, <1>2, <1>5, <2>1
    DEF HeapContext, HeapInv, WritersApart, WriterTypes, Unlinking
<1>8. a \notin Linked
  BY <1>1, LinkedFacts
<1>9. HeapClosed'
  BY <1>0, <1>1, <1>2, <1>3, <1>8, HeapSame DEF SharedTypes, Linked
<1>10. FixPending'
  BY <1>0, <1>1, <1>2, <1>3, <1>5, <1>8
  DEF HeapContext, HeapInv, FixPending, WriterPointers, WriterTypes,
      SharedTypes, Linked
<1>11. LevelsDescend'
  <2>1. \A b \in Linked : b # a /\ nxt[b] # a
    BY <1>8, LinkedFacts, <1>0, <1>1
    DEF HeapContext, HeapInv, HeapClosed, LinkedOrNull
  <2>2. \A b \in Linked' : nxt'[b] # NULL => lvl'[nxt'[b]] < lvl'[b]
    BY <1>0, <1>1, <1>3, <2>1
    DEF SharedTypes, HeapContext, HeapInv, LevelsDescend
  <2>3. \A u \in Writers : /\ wpc[u] \in Unlinking => wnew[u] # a
                           /\ wpc[u] = "fix" => wnew[u] # a
    BY <1>1, LinkedFacts DEF HeapContext, HeapInv, WriterPointers
  <2>4. \A u \in Writers : wpc[u] \in UnderLockAfter /\ removed[u] # NULL =>
           nxt[removed[u]] # a
    BY <1>0, <1>1, <1>8 DEF HeapContext, HeapInv, WriterPointers, LinkedOrNull
  <2> QED
    BY <1>0, <1>1, <1>2, <1>5, <2>2, <2>3, <2>4
    DEF HeapContext, HeapInv, LevelsDescend, WriterTypes, SharedTypes,
        Unlinking, UnderLockAfter, Published
<1> QED
  BY <1>3, <1>4, <1>6, <1>7, <1>9, <1>10, <1>11 DEF HeapInv

(* A writer moves on, with the heap and the elements as they are. *)
LEMMA HeapMove ==
  ASSUME HeapContext, NEW w \in Writers, wpc[w] # "idle" \/ Published,
         NEW to \in WriterPCs, NEW p \in Ptr,
         wpc' = [wpc EXCEPT ![w] = to],
         welem' = [welem EXCEPT ![w] = p],
         NEW k, wkey' = [wkey EXCEPT ![w] = k],
         to \in Unlinking => k = wkey[w],
         UNCHANGED <<heap, built, wnew, removed>>,
         to \in Unlinking <=> wpc[w] \in Unlinking,
         to \in BeforeUnlink => wpc[w] \in BeforeUnlink,
         to \in {"search", "rsearch"} => p \in Linked,
         to # "fix",
         to = "free" => removed[w] # NULL,
         to \in UnderLockAfter =>
           wpc[w] \in UnderLockAfter \/ removed[w] = NULL
  PROVE  HeapInv' /\ Linked' = Linked
<1> USE DEF heap
<1>0. WriterTypes /\ SharedTypes
  BY TypeParts DEF HeapContext
<1>1. Linked' = Linked
  BY <1>0 DEF Linked, Unlinked, BeingRemoved, WriterTypes, Unlinking
<1>2. BeginsPublished'
  BY InCallPublished DEF HeapContext, HeapInv, BeginsPublished, Published
<1>3. WriterPointers'
  BY <1>0, <1>1
  DEF HeapContext, HeapInv, WriterPointers, WriterTypes, LinkedOrNull
<1>4. WritersApart'
  BY <1>0 DEF HeapContext, HeapInv, WritersApart, WriterTypes
<1>5. HeapClosed'
  BY <1>1, HeapSame
<1>6. FixPending'
  BY <1>0, <1>1 DEF HeapContext, HeapInv, FixPending, WriterTypes
<1>7. LevelsDescend'
  BY <1>0, <1>1
  DEF HeapContext, HeapInv, LevelsDescend, WriterTypes, Published
<1> QED
  BY <1>1, <1>2, <1>3, <1>4, <1>5, <1>6, <1>7 DEF HeapInv

(* The steps that HeapMove is about. *)
LEMMA HeapMoves ==
  ASSUME HeapContext, NEW w \in Writers,
         \/ \E k \in RemoveKeys : RemoveBegin(w, k)
         \/ Acquire(w) \/ RemoveDrain(w) \/ FlipEpoch(w) \/ SpinForever(w)
         \/ GraceEnd(w) /\ removed[w] # NULL
         \/ ReplaceScan(w) /\ head # NULL /\ lvl[head] # wkey[w]
         \/ RemoveScan(w) /\ ~(head # NULL /\ lvl[head] = wkey[w])
  PROVE  HeapInv' /\ Linked' = Linked
<1> USE DEF heap
<1>0. WriterTypes /\ SharedTypes
  BY TypeParts DEF HeapContext
<1>1. wpc[w] \in BeforeUnlink => removed[w] = NULL
  BY DEF HeapContext, HeapInv, WriterPointers
<1>2. /\ welem = [welem EXCEPT ![w] = welem[w]] /\ welem[w] \in Ptr
      /\ wkey = [wkey EXCEPT ![w] = wkey[w]]
  BY <1>0 DEF WriterTypes
\* A step that changes only where the writer is.
<1>3. ASSUME NEW to \in WriterPCs, wpc' = [wpc EXCEPT ![w] = to],
              UNCHANGED <<heap, built, wkey, wnew, welem, removed>>,
              wpc[w] # "idle", to \notin {"search", "rsearch", "fix"},
              to \in Unlinking <=> wpc[w] \in Unlinking,
              to \in BeforeUnlink => wpc[w] \in BeforeUnlink,
              to = "free" => removed[w] # NULL,
              to \in UnderLockAfter =>
                wpc[w] \in UnderLockAfter \/ removed[w] = NULL
       PROVE  HeapInv' /\ Linked' = Linked
  <2>1. PICK p \in Ptr : p = welem[w]
    BY <1>2
  <2>2. PICK k : k = wkey[w]
    OBVIOUS
  <2>3. welem' = [welem EXCEPT ![w] = p] /\ wkey' = [wkey EXCEPT ![w] = k]
    BY <1>2, <1>3, <2>1, <2>2
  <2>4. to \in Unlinking => k = wkey[w]
    BY <2>2
  <2> QED
    BY <1>3, <2>3, <2>4, HeapMove
<1> USE <1>0, <1>1, <1>2
    DEF WriterPCs, Unlinking, BeforeUnlink, UnderLockAfter
<1>4. CASE \E k \in RemoveKeys : RemoveBegin(w, k)
  <2>1. PICK k \in RemoveKeys : RemoveBegin(w, k)
    BY <1>4
  <2> QED
    BY <2>1, HeapMove DEF RemoveBegin
<1>5. CASE Acquire(w)
  <2>1. CASE ReplaceLock(w)
    BY <2>1, HeapMove DEF ReplaceLock, WriteLock
  <2>2. CASE RemoveLock(w)
    BY <2>2, HeapMove DEF RemoveLock, WriteLock
  <2> QED
    BY <1>5, <2>1, <2>2 DEF Acquire
<1>6. CASE RemoveDrain(w)
  <2>1. /\ wpc[w] = "drain" /\ wpc' = [wpc EXCEPT ![w] = "flip"]
        /\ UNCHANGED <<heap, built, wkey, wnew, welem, removed>>
    BY <1>6 DEF RemoveDrain
  <2> QED
    BY <1>3, <2>1
<1>7. CASE FlipEpoch(w)
  BY <1>7, <1>3 DEF FlipEpoch
<1>8. CASE SpinForever(w)
  BY <1>8, <1>3 DEF SpinForever
<1>9. CASE GraceEnd(w) /\ removed[w] # NULL
  <2>1. /\ wpc[w] = "grace" /\ wpc' = [wpc EXCEPT ![w] = "free"]
        /\ UNCHANGED <<heap, built, wkey, wnew, welem, removed>>
    BY <1>9 DEF GraceEnd
  <2> QED
    BY <1>9, <1>3, <2>1
<1>10. head # NULL => head \in Linked /\ head \in Ptr
  BY DEF HeapContext, HeapInv, HeapClosed, LinkedOrNull, SharedTypes
<1>11. CASE ReplaceScan(w) /\ head # NULL /\ lvl[head] # wkey[w]
  BY <1>10, <1>11, HeapMove DEF ReplaceScan, ReturnLocked, ReplaceHead
<1>12. CASE RemoveScan(w) /\ ~(head # NULL /\ lvl[head] = wkey[w])
  BY <1>10, <1>12, HeapMove DEF RemoveScan
<1> QED
  BY <1>4, <1>5, <1>6, <1>7, <1>8, <1>9, <1>11, <1>12

(* The traversals of replace and of remove that go on to the next element, *)
(* or find that there is none.                                             *)
LEMMA HeapSearchMoves ==
  ASSUME HeapContext, NEW w \in Writers,
         \/ /\ ReplaceSearch(w)
            /\ nxt[welem[w]] # NULL /\ lvl[nxt[welem[w]]] # wkey[w]
         \/ /\ RemoveSearch(w)
            /\ ~(nxt[welem[w]] # NULL /\ lvl[nxt[welem[w]]] = wkey[w])
  PROVE  HeapInv' /\ Linked' = Linked
<1> USE DEF heap
<1>0. WriterTypes /\ SharedTypes
  BY TypeParts DEF HeapContext
<1>1. removed[w] = NULL /\ wpc[w] \in {"search", "rsearch"}
  BY DEF HeapContext, HeapInv, WriterPointers, BeforeUnlink, ReplaceSearch,
         RemoveSearch
<1>2. welem[w] \in Linked
  BY <1>1 DEF HeapContext, HeapInv, WriterPointers
<1>3. nxt[welem[w]] # NULL => nxt[welem[w]] \in Linked /\ nxt[welem[w]] \in Ptr
  BY <1>0, <1>2, LinkedFacts
  DEF HeapContext, HeapInv, HeapClosed, LinkedOrNull, Ptr
<1>4. /\ welem = [welem EXCEPT ![w] = welem[w]] /\ welem[w] \in Ptr
      /\ wkey = [wkey EXCEPT ![w] = wkey[w]]
  BY <1>0 DEF WriterTypes
<1>5. wpc = [wpc EXCEPT ![w] = wpc[w]]
  BY <1>0 DEF WriterTypes
<1> USE <1>0, <1>1, <1>3, <1>4, <1>5
    DEF WriterPCs, Unlinking, BeforeUnlink, UnderLockAfter
<1>6. CASE /\ ReplaceSearch(w)
           /\ nxt[welem[w]] # NULL /\ lvl[nxt[welem[w]]] # wkey[w]
  BY <1>6, HeapMove DEF ReplaceSearch, ReturnLocked, LinkAfter
<1>7. CASE RemoveSearch(w) /\ nxt[welem[w]] = NULL
  BY <1>7, HeapMove DEF RemoveSearch
<1>8. CASE RemoveSearch(w) /\ nxt[welem[w]] # NULL /\ lvl[nxt[welem[w]]] # wkey[w]
  BY <1>8, HeapMove DEF RemoveSearch
<1> QED
  BY <1>6, <1>7, <1>8

(* A call that ends with nothing in its hands. *)
LEMMA HeapEndCall ==
  ASSUME HeapContext, NEW w \in Writers, wpc[w] # "idle",
         wpc[w] \notin Unlinking, removed[w] = NULL,
         EndCall(w), UNCHANGED <<heap, built>>
  PROVE  HeapInv' /\ Linked' = Linked
<1> USE DEF heap, EndCall
<1>0. WriterTypes
  BY TypeParts DEF HeapContext
<1>1. removed' = removed
  BY <1>0 DEF WriterTypes
<1>2. Linked' = Linked
  BY <1>0, <1>1 DEF Linked, Unlinked, BeingRemoved, WriterTypes, Unlinking
<1>3. BeginsPublished'
  BY InCallPublished DEF HeapContext, HeapInv, BeginsPublished, Published
<1>4. WriterPointers'
  BY <1>0, <1>1, <1>2
  DEF HeapContext, HeapInv, WriterPointers, WriterTypes, LinkedOrNull,
      Unlinking, UnderLockAfter
<1>5. WritersApart'
  BY <1>0, <1>1 DEF HeapContext, HeapInv, WritersApart, WriterTypes, Unlinking
<1>6. HeapClosed'
  BY <1>2, HeapSame
<1>7. FixPending'
  BY <1>0, <1>1, <1>2 DEF HeapContext, HeapInv, FixPending, WriterTypes
<1>8. LevelsDescend'
  BY <1>0, <1>1, <1>2
  DEF HeapContext, HeapInv, LevelsDescend, WriterTypes, Published, Unlinking,
      UnderLockAfter
<1> QED
  BY <1>2, <1>3, <1>4, <1>5, <1>6, <1>7, <1>8 DEF HeapInv

(* The returns of 176 and 196: the new element is lost, and leads nowhere. *)
LEMMA HeapReturnLocked ==
  ASSUME HeapContext, NEW w \in Writers, wpc[w] \in {"scan", "search"},
         ReturnLocked(w), UNCHANGED built
  PROVE  HeapInv'
<1> USE DEF heap, ReturnLocked, EndCall
<1>0. WriterTypes /\ SharedTypes
  BY TypeParts DEF HeapContext
<1>1. /\ removed[w] = NULL /\ removed' = removed
      /\ wnew[w] \in alloc /\ nxt[wnew[w]] = NULL /\ wnew[w] \notin Linked
  BY <1>0, LinkedFacts
  DEF HeapContext, HeapInv, WriterPointers, BeforeUnlink, WriterTypes, Unlinking
<1>2. Linked' = Linked \cup {wnew[w]}
  <2>1. \A u \in Writers \ {w} : wpc[u] \in Unlinking => wnew[u] # wnew[w]
    BY DEF HeapContext, HeapInv, WritersApart, Unlinking
  <2>2. \A u \in Writers : removed[u] # wnew[w]
    BY DEF HeapContext, HeapInv, WritersApart, Unlinking
  <2> QED
    BY <1>0, <1>1, <2>1, <2>2
    DEF Linked, Unlinked, BeingRemoved, WriterTypes, Unlinking
<1>3. BeginsPublished'
  BY InCallPublished DEF HeapContext, HeapInv, BeginsPublished, Published
<1>4. WriterPointers'
  BY <1>0, <1>1, <1>2
  DEF HeapContext, HeapInv, WriterPointers, WriterTypes, LinkedOrNull,
      Unlinking, UnderLockAfter, BeforeUnlink
<1>5. WritersApart'
  BY <1>0, <1>1 DEF HeapContext, HeapInv, WritersApart, WriterTypes, Unlinking
<1>6. HeapClosed'
  BY <1>0, <1>1, <1>2, LinkedFacts
  DEF HeapContext, HeapInv, HeapClosed, LinkedOrNull
<1>7. FixPending'
  <2>1. \A u \in Writers : wpc'[u] # "fix"
    BY <1>0, Alone DEF HeapContext, InSection, WriterTypes
  <2> QED
    BY <2>1 DEF FixPending
<1>8. LevelsDescend'
  BY <1>0, <1>1, <1>2
  DEF HeapContext, HeapInv, LevelsDescend, WriterTypes, Published, Unlinking,
      UnderLockAfter
<1> QED
  BY <1>3, <1>4, <1>5, <1>6, <1>7, <1>8 DEF HeapInv

(* Taking old out of the list and putting the new element in its place.    *)
LEMMA LinkedSwap ==
  ASSUME WriterTypes, NULL \notin alloc, NEW w \in Writers, NEW old,
         NEW to, to \notin Unlinking,
         wpc[w] \in Unlinking, removed[w] = NULL, wnew[w] \in alloc,
         wpc' = [wpc EXCEPT ![w] = to],
         removed' = [removed EXCEPT ![w] = old],
         UNCHANGED <<alloc, wnew>>,
         old # wnew[w],
         \A u \in Writers : removed[u] # wnew[w],
         \A u \in Writers \ {w} : wpc[u] \in Unlinking => wnew[u] # wnew[w]
  PROVE  Linked' = (Linked \ {old}) \cup {wnew[w]}
<1>1. ASSUME NEW a \in alloc
      PROVE  BeingRemoved(a)' <=> BeingRemoved(a) \/ a = old
  <2>1. \A u \in Writers : removed'[u] = IF u = w THEN old ELSE removed[u]
    BY DEF WriterTypes
  <2> QED
    BY <2>1 DEF BeingRemoved
<1>2. ASSUME NEW a \in alloc
      PROVE  Unlinked(a)' <=> Unlinked(a) /\ a # wnew[w]
  <2>1. \A u \in Writers : wpc'[u] = IF u = w THEN to ELSE wpc[u]
    BY DEF WriterTypes
  <2> QED
    BY <2>1 DEF Unlinked, Unlinking
<1>3. ~BeingRemoved(wnew[w])
  BY DEF BeingRemoved
<1> QED
  BY <1>1, <1>2, <1>3 DEF Linked

(* A writer under the lock takes one element, old, out of the list, and    *)
(* puts its new element, if it has one, in its place.                      *)
LEMMA HeapReplaceHead ==
  ASSUME HeapContext, NEW w \in Writers, wpc[w] = "scan", ReplaceHead(w),
         UNCHANGED built
  PROVE  HeapInv' /\ Linked' = (Linked \ {head}) \cup {wnew[w]}
<1>0. WriterTypes /\ SharedTypes
  BY TypeParts DEF HeapContext
<1> DEFINE old == head
           new == wnew[w]
<1>1. /\ removed[w] = NULL /\ new \in alloc /\ nxt[new] = NULL
      /\ new \notin Linked /\ old \in Linked /\ nxt[old] \in LinkedOrNull
      /\ nxt[old] # old
  BY <1>0, LinkedFacts
  DEF ReplaceHead, HeapContext, HeapInv, WriterPointers, BeforeUnlink,
      Unlinking, HeapClosed, LinkedOrNull
<1>2. /\ removed' = [removed EXCEPT ![w] = old]
      /\ nxt' = [nxt EXCEPT ![new] = nxt[old]]
      /\ head' = new /\ wpc' = [wpc EXCEPT ![w] = "flip"]
      /\ lvl[old] = wkey[w] /\ UNCHANGED <<alloc, lvl, wkey, wnew, welem>>
  BY DEF ReplaceHead
<1>3. \A u \in Writers \ {w} : wpc[u] \in {"idle", "lock", "rlock", "free"}
  BY Alone DEF HeapContext, InSection
<1>4. \A u \in Writers : removed[u] # new /\ removed[u] # old
  BY <1>1, LinkedFacts DEF HeapContext, HeapInv, WritersApart, Unlinking
<1>5. \A u \in Writers \ {w} : wpc[u] \in Unlinking =>
         wnew[u] # new /\ wnew[u] # old
  BY <1>1, LinkedFacts DEF HeapContext, HeapInv, WritersApart, Unlinking
<1>6. Linked' = (Linked \ {old}) \cup {new}
  <2>1. NULL \notin alloc /\ old # new /\ "flip" \notin Unlinking
    BY <1>1, LinkedFacts DEF Unlinking
  <2>2. wpc[w] \in Unlinking
    BY DEF Unlinking
  <2> QED
    BY <1>0, <1>1, <1>2, <1>4, <1>5, <2>1, <2>2, LinkedSwap
<1>7. BeginsPublished'
  BY InCallPublished DEF HeapContext, HeapInv, BeginsPublished, Published
<1>8. WriterPointers'
  BY <1>0, <1>1, <1>2, <1>3, <1>4, <1>5, <1>6, LinkedFacts
  DEF HeapContext, HeapInv, WriterPointers, WriterTypes, SharedTypes,
      LinkedOrNull, Unlinking, UnderLockAfter, BeforeUnlink
<1>9. WritersApart'
  BY <1>0, <1>1, <1>2, <1>4, <1>5
  DEF HeapContext, HeapInv, WritersApart, WriterTypes, Unlinking
<1>10. HeapClosed'
  BY <1>0, <1>1, <1>2, <1>6, LinkedFacts
  DEF HeapContext, HeapInv, HeapClosed, LinkedOrNull, SharedTypes
<1>11. FixPending'
  BY <1>0, <1>2, <1>3 DEF FixPending, WriterTypes
<1>12. LevelsDescend'
  <2>1. \A a \in Linked' : nxt'[a] # NULL => lvl'[nxt'[a]] < lvl'[a]
    BY <1>0, <1>1, <1>2, <1>6, LinkedFacts
    DEF HeapContext, HeapInv, LevelsDescend, SharedTypes, Unlinking
  <2>2. nxt'[old] = nxt[old]
    BY <1>0, <1>1, <1>2, LinkedFacts DEF SharedTypes
  <2>3. nxt[old] # NULL => lvl[nxt[old]] < lvl[old]
    BY <1>1 DEF HeapContext, HeapInv, LevelsDescend
  <2> QED
    BY <1>0, <1>2, <1>3, <2>1, <2>2, <2>3
    DEF HeapContext, HeapInv, LevelsDescend, WriterTypes, Published, Unlinking,
        UnderLockAfter
<1> QED
  BY <1>6, <1>7, <1>8, <1>9, <1>10, <1>11, <1>12 DEF HeapInv

(* The same behind the head: the rest of the list still hangs on old.      *)
LEMMA HeapLinkAfter ==
  ASSUME HeapContext, NEW w \in Writers, wpc[w] = "search",
         LinkAfter(w, welem[w]), UNCHANGED built
  PROVE  /\ HeapInv' /\ nxt[welem[w]] # welem[w]
         /\ Linked' = (Linked \ {nxt[welem[w]]}) \cup {wnew[w]}
<1>0. WriterTypes /\ SharedTypes
  BY TypeParts DEF HeapContext
<1> DEFINE elem == welem[w]
           old == nxt[elem]
           new == wnew[w]
<1>1. /\ removed[w] = NULL /\ new \in alloc /\ nxt[new] = NULL
      /\ new \notin Linked /\ elem \in Linked
  BY <1>0, LinkedFacts
  DEF HeapContext, HeapInv, WriterPointers, BeforeUnlink, Unlinking
<1>2. /\ old \in Linked /\ old # head
      /\ \A b \in Linked \ {elem} : nxt[b] # old
  BY <1>1 DEF LinkAfter, HeapContext, HeapInv, HeapClosed, LinkedOrNull
<1>3. /\ removed' = [removed EXCEPT ![w] = old]
      /\ nxt' = [nxt EXCEPT ![elem] = new]
      /\ wpc' = [wpc EXCEPT ![w] = "fix"]
      /\ lvl[old] = wkey[w]
      /\ UNCHANGED <<head, alloc, lvl, wkey, wnew, welem>>
  BY DEF LinkAfter
<1>4. \A u \in Writers \ {w} : wpc[u] \in {"idle", "lock", "rlock", "free"}
  BY Alone DEF HeapContext, InSection
<1>5. \A u \in Writers : removed[u] # new /\ removed[u] # old /\ removed[u] # elem
  BY <1>1, <1>2, LinkedFacts DEF HeapContext, HeapInv, WritersApart, Unlinking
<1>6. \A u \in Writers \ {w} : wpc[u] \in Unlinking =>
         wnew[u] # new /\ wnew[u] # old /\ wnew[u] # elem
  BY <1>1, <1>2, LinkedFacts DEF HeapContext, HeapInv, WritersApart, Unlinking
<1>7. Linked' = (Linked \ {old}) \cup {new}
  <2>1. NULL \notin alloc /\ old # new /\ "fix" \notin Unlinking
    BY <1>1, <1>2, LinkedFacts DEF Unlinking
  <2>2. wpc[w] \in Unlinking
    BY DEF Unlinking
  <2> QED
    BY <1>0, <1>1, <1>3, <1>5, <1>6, <2>1, <2>2, LinkedSwap
<1>8. BeginsPublished'
  BY InCallPublished DEF HeapContext, HeapInv, BeginsPublished, Published
<1>9. /\ old = elem => nxt'[old] = new
      /\ old # elem => nxt'[old] = nxt[old] /\ nxt[old] # old
      /\ nxt'[old] \in LinkedOrNull'
  <2>1. old \in Addr /\ elem \in Addr
    BY <1>1, <1>2, LinkedFacts
  <2>2. nxt[old] \in LinkedOrNull /\ (old # elem => nxt[old] # old)
    BY <1>2 DEF HeapContext, HeapInv, HeapClosed
  <2>3. /\ old = elem => nxt'[old] = new
        /\ old # elem => nxt'[old] = nxt[old]
    BY <1>0, <1>3, <2>1 DEF SharedTypes
  <2> QED
    BY <1>7, <2>2, <2>3 DEF LinkedOrNull
<1>10. WriterPointers'
  BY <1>0, <1>1, <1>2, <1>3, <1>4, <1>5, <1>6, <1>7, <1>9, LinkedFacts
  DEF HeapContext, HeapInv, WriterPointers, WriterTypes, SharedTypes,
      LinkedOrNull, Unlinking, UnderLockAfter, BeforeUnlink
<1>11. WritersApart'
  BY <1>0, <1>1, <1>2, <1>3, <1>5, <1>6
  DEF HeapContext, HeapInv, WritersApart, WriterTypes, Unlinking
<1>12. HeapClosed'
  BY <1>0, <1>1, <1>2, <1>3, <1>7, LinkedFacts
  DEF HeapContext, HeapInv, HeapClosed, LinkedOrNull, SharedTypes
<1>13. FixPending'
  <2>1. \A u \in Writers : wpc'[u] = "fix" => u = w
    BY <1>0, <1>3, <1>4 DEF WriterTypes
  <2>2. removed'[w] = old
    BY <1>0, <1>3 DEF WriterTypes
  <2>3. head' # new /\ nxt'[new] = NULL /\ nxt'[elem] = new
    BY <1>0, <1>1, <1>3, LinkedFacts
    DEF HeapContext, HeapInv, HeapClosed, LinkedOrNull, SharedTypes
  <2>4. ASSUME nxt'[old] # NULL
        PROVE  nxt'[old] # head' /\ \A a \in Linked' : nxt'[a] # nxt'[old]
    <3>1. \A a \in Linked \ {elem} : nxt'[a] = nxt[a] /\ nxt[a] # new
      BY <1>0, <1>1, <1>3, LinkedFacts
      DEF HeapContext, HeapInv, HeapClosed, LinkedOrNull, SharedTypes
    <3>2. CASE old = elem
      BY <1>7, <1>9, <2>3, <2>4, <3>1, <3>2
    <3>3. CASE old # elem
      <4>1. nxt[old] # head /\ \A b \in Linked \ {old} : nxt[b] # nxt[old]
        BY <1>2, <1>9, <2>4, <3>3 DEF HeapContext, HeapInv, HeapClosed
      <4>2. nxt[old] # new
        BY <1>2, <3>1, <3>3
      <4> QED
        BY <1>3, <1>7, <1>9, <2>3, <2>4, <3>1, <3>3, <4>1, <4>2
    <3> QED
      BY <3>2, <3>3
  <2> QED
    BY <2>1, <2>2, <2>4 DEF FixPending
<1>14. old # elem
  <2>1. lvl[old] < lvl[elem]
    BY <1>1, <1>3 DEF HeapContext, HeapInv, LevelsDescend, LinkAfter
  <2> QED
    BY <1>0, <1>1, <2>1, LinkedFacts DEF SharedTypes
<1>15. LevelsDescend'
  <2>1. lvl[old] < lvl[elem] /\ lvl[new] = lvl[old]
    BY <1>1, <1>2, <1>3, LinkedFacts
    DEF HeapContext, HeapInv, LevelsDescend, Unlinking
  <2>2. \A a \in Linked' : nxt'[a] # NULL => lvl'[nxt'[a]] < lvl'[a]
    BY <1>0, <1>1, <1>2, <1>3, <1>7, <2>1, LinkedFacts
    DEF HeapContext, HeapInv, LevelsDescend, SharedTypes
  <2>3. nxt[old] # NULL => lvl[nxt[old]] < lvl[old]
    BY <1>2 DEF HeapContext, HeapInv, LevelsDescend
  <2> QED
    BY <1>0, <1>3, <1>4, <1>9, <1>14, <2>1, <2>2, <2>3
    DEF HeapContext, HeapInv, LevelsDescend, WriterTypes, Published, Unlinking,
        UnderLockAfter
<1> QED
  BY <1>7, <1>8, <1>14, <1>10, <1>11, <1>12, <1>13, <1>15 DEF HeapInv

(* Line 189: the rest of the list goes from the old element to the new.    *)
LEMMA HeapReplaceFix ==
  ASSUME HeapContext, NEW w \in Writers, ReplaceFix(w)
  PROVE  HeapInv' /\ Linked' = Linked
<1>0. WriterTypes /\ SharedTypes
  BY TypeParts DEF HeapContext
<1> DEFINE old == removed[w]
           new == wnew[w]
<1>1. /\ wpc[w] = "fix" /\ wpc' = [wpc EXCEPT ![w] = "flip"]
      /\ nxt' = [nxt EXCEPT ![new] = nxt[old]]
      /\ UNCHANGED <<head, alloc, lvl, built, wkey, wnew, welem, removed>>
  BY DEF ReplaceFix, RelinkedNext
<1>2. /\ new \in Linked /\ new \in Addr /\ old # NULL /\ old \in alloc
      /\ old # new /\ nxt[old] \in LinkedOrNull
  BY <1>1, LinkedFacts DEF HeapContext, HeapInv, WriterPointers, UnderLockAfter
<1>3. \A u \in Writers \ {w} : wpc[u] \in {"idle", "lock", "rlock", "free"}
  BY <1>1, Alone DEF HeapContext, InSection
<1>4. Linked' = Linked
  BY <1>0, <1>1 DEF Linked, Unlinked, BeingRemoved, WriterTypes
<1>5. \A u \in Writers : wpc[u] \in Unlinking => wnew[u] # new
  BY <1>2, LinkedFacts
<1>6. BeginsPublished'
  BY <1>1, InCallPublished DEF HeapContext, HeapInv, BeginsPublished, Published
<1>7. WriterPointers'
  BY <1>0, <1>1, <1>2, <1>3, <1>4, <1>5
  DEF HeapContext, HeapInv, WriterPointers, WriterTypes, SharedTypes,
      LinkedOrNull, Unlinking, UnderLockAfter, BeforeUnlink
<1>8. WritersApart'
  BY <1>0, <1>1 DEF HeapContext, HeapInv, WritersApart, WriterTypes, Unlinking
<1>9. HeapClosed'
  <2>1. nxt[old] # NULL =>
          nxt[old] # head /\ \A a \in Linked : nxt[a] # nxt[old]
    BY <1>1 DEF HeapContext, HeapInv, FixPending
  <2> QED
    BY <1>0, <1>1, <1>2, <1>4, <2>1, LinkedFacts
    DEF HeapContext, HeapInv, HeapClosed, LinkedOrNull, SharedTypes
<1>10. FixPending'
  BY <1>0, <1>1, <1>3 DEF FixPending, WriterTypes
<1>11. LevelsDescend'
  <2>1. /\ lvl[new] = lvl[old]
        /\ nxt[old] # NULL => lvl[nxt[old]] < lvl[old]
    BY <1>1, <1>2 DEF HeapContext, HeapInv, LevelsDescend, UnderLockAfter
  <2>2. \A a \in Linked' : nxt'[a] # NULL => lvl'[nxt'[a]] < lvl'[a]
    BY <1>0, <1>1, <1>2, <1>4, <2>1
    DEF HeapContext, HeapInv, LevelsDescend, SharedTypes
  <2>3. nxt'[old] = nxt[old]
    BY <1>0, <1>1, <1>2 DEF SharedTypes
  <2> QED
    BY <1>0, <1>1, <1>3, <2>1, <2>2, <2>3
    DEF HeapContext, HeapInv, LevelsDescend, WriterTypes, Published, Unlinking,
        UnderLockAfter
<1> QED
  BY <1>4, <1>6, <1>7, <1>8, <1>9, <1>10, <1>11 DEF HeapInv

(* Taking old out of the list, with nothing in its place. *)
LEMMA LinkedDrop ==
  ASSUME WriterTypes, NULL \notin alloc, NEW w \in Writers, NEW old,
         NEW to, to \notin Unlinking,
         wpc[w] \notin Unlinking, removed[w] = NULL,
         wpc' = [wpc EXCEPT ![w] = to],
         removed' = [removed EXCEPT ![w] = old],
         UNCHANGED <<alloc, wnew>>
  PROVE  Linked' = Linked \ {old}
<1>1. ASSUME NEW a \in alloc
      PROVE  BeingRemoved(a)' <=> BeingRemoved(a) \/ a = old
  <2>1. \A u \in Writers : removed'[u] = IF u = w THEN old ELSE removed[u]
    BY DEF WriterTypes
  <2> QED
    BY <2>1 DEF BeingRemoved
<1>2. ASSUME NEW a \in alloc
      PROVE  Unlinked(a)' <=> Unlinked(a)
  <2>1. \A u \in Writers : wpc'[u] = IF u = w THEN to ELSE wpc[u]
    BY DEF WriterTypes
  <2> QED
    BY <2>1 DEF Unlinked, Unlinking
<1> QED
  BY <1>1, <1>2 DEF Linked

(* rcu_list_remove: the head goes. *)
LEMMA HeapRemoveHead ==
  ASSUME HeapContext, NEW w \in Writers, RemoveScan(w),
         head # NULL, lvl[head] = wkey[w]
  PROVE  HeapInv'
<1>0. WriterTypes /\ SharedTypes
  BY TypeParts DEF HeapContext
<1> DEFINE old == head
<1>1. /\ wpc[w] = "rscan" /\ wpc' = [wpc EXCEPT ![w] = "drain"]
      /\ removed' = [removed EXCEPT ![w] = old]
      /\ head' = nxt[old]
      /\ UNCHANGED <<nxt, alloc, lvl, built, wkey, wnew, welem>>
  BY DEF RemoveScan
<1>2. /\ removed[w] = NULL /\ old \in Linked /\ nxt[old] \in LinkedOrNull
      /\ nxt[old] # old
  BY <1>1, LinkedFacts
  DEF HeapContext, HeapInv, WriterPointers, BeforeUnlink, HeapClosed,
      LinkedOrNull
<1>3. \A u \in Writers \ {w} : wpc[u] \in {"idle", "lock", "rlock", "free"}
  BY <1>1, Alone DEF HeapContext, InSection
<1>4. \A u \in Writers : removed[u] # old
  BY <1>2, LinkedFacts
<1>5. \A u \in Writers : wpc[u] \in Unlinking => wnew[u] # old
  BY <1>2, LinkedFacts
<1>6. Linked' = Linked \ {old}
  <2>1. NULL \notin alloc /\ wpc[w] \notin Unlinking /\ "drain" \notin Unlinking
    BY <1>1, LinkedFacts DEF Unlinking
  <2> QED
    BY <1>0, <1>1, <1>2, <2>1, LinkedDrop
<1>7. BeginsPublished'
  BY <1>1, InCallPublished DEF HeapContext, HeapInv, BeginsPublished, Published
<1>8. WriterPointers'
  BY <1>0, <1>1, <1>2, <1>3, <1>4, <1>5, <1>6, LinkedFacts
  DEF HeapContext, HeapInv, WriterPointers, WriterTypes, SharedTypes,
      LinkedOrNull, Unlinking, UnderLockAfter, BeforeUnlink
<1>9. WritersApart'
  BY <1>0, <1>1, <1>2, <1>4, <1>5
  DEF HeapContext, HeapInv, WritersApart, WriterTypes, Unlinking
<1>10. HeapClosed'
  BY <1>0, <1>1, <1>2, <1>6, LinkedFacts
  DEF HeapContext, HeapInv, HeapClosed, LinkedOrNull, SharedTypes
<1>11. FixPending'
  BY <1>0, <1>1, <1>3 DEF FixPending, WriterTypes
<1>12. LevelsDescend'
  <2>1. nxt[old] # NULL => lvl[nxt[old]] < lvl[old]
    BY <1>2 DEF HeapContext, HeapInv, LevelsDescend
  <2> QED
    BY <1>0, <1>1, <1>3, <1>6, <2>1
    DEF HeapContext, HeapInv, LevelsDescend, WriterTypes, Published, Unlinking,
        UnderLockAfter
<1> QED
  BY <1>7, <1>8, <1>9, <1>10, <1>11, <1>12 DEF HeapInv

(* rcu_list_remove: the element behind elem goes. *)
LEMMA HeapRemoveBehind ==
  ASSUME HeapContext, NEW w \in Writers, RemoveSearch(w),
         nxt[welem[w]] # NULL, lvl[nxt[welem[w]]] = wkey[w]
  PROVE  HeapInv'
<1>0. WriterTypes /\ SharedTypes
  BY TypeParts DEF HeapContext
<1> DEFINE elem == welem[w]
           old == nxt[elem]
<1>1. /\ wpc[w] = "rsearch" /\ wpc' = [wpc EXCEPT ![w] = "drain"]
      /\ removed' = [removed EXCEPT ![w] = old]
      /\ nxt' = [nxt EXCEPT ![elem] = nxt[old]]
      /\ UNCHANGED <<head, alloc, lvl, built, wkey, wnew, welem>>
  BY DEF RemoveSearch
<1>2. removed[w] = NULL /\ elem \in Linked
  BY <1>1 DEF HeapContext, HeapInv, WriterPointers, BeforeUnlink
<1>3. /\ old \in Linked /\ old # head /\ nxt[old] \in LinkedOrNull
      /\ \A b \in Linked \ {elem} : nxt[b] # old
  BY <1>2 DEF HeapContext, HeapInv, HeapClosed, LinkedOrNull
<1>4. \A u \in Writers \ {w} : wpc[u] \in {"idle", "lock", "rlock", "free"}
  BY <1>1, Alone DEF HeapContext, InSection
<1>5. \A u \in Writers : removed[u] # old /\ removed[u] # elem
  BY <1>2, <1>3, LinkedFacts
<1>6. \A u \in Writers : wpc[u] \in Unlinking => wnew[u] # old /\ wnew[u] # elem
  BY <1>2, <1>3, LinkedFacts
<1>7. Linked' = Linked \ {old}
  <2>1. NULL \notin alloc /\ wpc[w] \notin Unlinking /\ "drain" \notin Unlinking
    BY <1>1, LinkedFacts DEF Unlinking
  <2> QED
    BY <1>0, <1>1, <1>2, <2>1, LinkedDrop
<1>8. BeginsPublished'
  BY <1>1, InCallPublished DEF HeapContext, HeapInv, BeginsPublished, Published
<1>9. /\ old # elem /\ nxt'[old] = nxt[old] /\ nxt[old] # old
      /\ lvl[old] < lvl[elem]
      /\ nxt[old] # NULL => lvl[nxt[old]] < lvl[old]
  <2>1. old \in Addr /\ elem \in Addr
    BY <1>2, <1>3, LinkedFacts
  <2>2. lvl[old] < lvl[elem] /\ (nxt[old] # NULL => lvl[nxt[old]] < lvl[old])
    BY <1>2, <1>3 DEF HeapContext, HeapInv, LevelsDescend
  <2>3. old # elem /\ nxt[old] # old
    BY <1>0, <2>1, <2>2, ListAssumption DEF SharedTypes
  <2> QED
    BY <1>0, <1>1, <2>1, <2>2, <2>3 DEF SharedTypes
<1>10. WriterPointers'
  BY <1>0, <1>1, <1>2, <1>3, <1>4, <1>5, <1>6, <1>7, <1>9, LinkedFacts
  DEF HeapContext, HeapInv, WriterPointers, WriterTypes, SharedTypes,
      LinkedOrNull, Unlinking, UnderLockAfter, BeforeUnlink
<1>11. WritersApart'
  BY <1>0, <1>1, <1>2, <1>5, <1>6
  DEF HeapContext, HeapInv, WritersApart, WriterTypes, Unlinking
<1>12. HeapClosed'
  BY <1>0, <1>1, <1>2, <1>3, <1>7, <1>9, LinkedFacts
  DEF HeapContext, HeapInv, HeapClosed, LinkedOrNull, SharedTypes
<1>13. FixPending'
  BY <1>0, <1>1, <1>4 DEF FixPending, WriterTypes
<1>14. LevelsDescend'
  <2>1. nxt[old] # NULL => lvl[nxt[old]] < lvl[elem]
    <3>1. nxt[old] # NULL => nxt[old] \in Addr
      BY <1>3, LinkedFacts DEF LinkedOrNull
    <3> QED
      BY <1>0, <1>2, <1>3, <1>9, <3>1, LinkedFacts DEF SharedTypes
  <2>2. \A a \in Linked' : nxt'[a] # NULL => lvl'[nxt'[a]] < lvl'[a]
    BY <1>0, <1>1, <1>2, <1>7, <2>1, LinkedFacts
    DEF HeapContext, HeapInv, LevelsDescend, SharedTypes
  <2>3. ASSUME NEW u \in Writers
        PROVE  /\ wpc'[u] # "fix"
               /\ wpc'[u] \in Unlinking => lvl'[wnew'[u]] = wkey'[u]
    <3>1. CASE u = w
      BY <1>0, <1>1, <3>1 DEF WriterTypes, Unlinking
    <3>2. CASE u # w
      BY <1>0, <1>1, <1>4, <3>2
      DEF HeapContext, HeapInv, LevelsDescend, WriterTypes
    <3> QED
      BY <3>1, <3>2
  <2>4. ASSUME NEW u \in Writers, wpc'[u] \in UnderLockAfter,
               removed'[u] # NULL, nxt'[removed'[u]] # NULL
        PROVE  lvl'[nxt'[removed'[u]]] < lvl'[removed'[u]]
    <3>1. u = w
      BY <1>0, <1>1, <1>4, <2>4 DEF WriterTypes, UnderLockAfter
    <3> QED
      BY <1>0, <1>1, <1>9, <2>4, <3>1 DEF WriterTypes
  <2>5. ~Published' => \A a \in alloc' : lvl'[a] < built'
    BY <1>1 DEF HeapContext, HeapInv, LevelsDescend, Published
  <2> QED
    BY <2>2, <2>3, <2>4, <2>5 DEF LevelsDescend
<1> QED
  BY <1>8, <1>10, <1>11, <1>12, <1>13, <1>14 DEF HeapInv

(* Line 213: only the element the writer unlinked is freed. *)
LEMMA HeapFree ==
  ASSUME HeapContext, NEW w \in Writers, FreeRemoved(w)
  PROVE  HeapInv' /\ Linked' = Linked
<1>0. WriterTypes /\ SharedTypes /\ NULL \notin Addr
  BY TypeParts, ListAssumption DEF HeapContext
<1> DEFINE old == removed[w]
<1>1. /\ wpc[w] = "free" /\ wpc' = [wpc EXCEPT ![w] = "idle"]
      /\ removed' = [removed EXCEPT ![w] = NULL]
      /\ alloc' = alloc \ {old}
      /\ nxt' = [nxt EXCEPT ![old] = NULL]
      /\ lvl' = [lvl EXCEPT ![old] = 0]
      /\ wnew' = [wnew EXCEPT ![w] = NULL]
      /\ welem' = [welem EXCEPT ![w] = NULL]
      /\ wkey' = [wkey EXCEPT ![w] = 0]
      /\ UNCHANGED <<head, built>>
  BY DEF FreeRemoved, EndCall
<1>2. old # NULL /\ old \in alloc /\ old \notin Linked
  BY <1>1, LinkedFacts DEF HeapContext, HeapInv, WriterPointers
<1>3. \A u \in Writers \ {w} : removed[u] # old
  BY <1>2 DEF HeapContext, HeapInv, WritersApart
<1>4. \A u \in Writers : /\ wpc[u] \in Unlinking => wnew[u] # old
                         /\ wpc[u] = "fix" => wnew[u] # old
  BY <1>2 DEF HeapContext, HeapInv, WritersApart, WriterPointers
<1>5. Linked' = Linked
  <2>1. ASSUME NEW a \in alloc \ {old}
        PROVE  BeingRemoved(a)' <=> BeingRemoved(a)
    BY <1>0, <1>1 DEF BeingRemoved, WriterTypes, SharedTypes
  <2>2. ASSUME NEW a \in alloc \ {old}
        PROVE  Unlinked(a)' <=> Unlinked(a)
    BY <1>0, <1>1 DEF Unlinked, WriterTypes
  <2> QED
    BY <1>1, <1>2, <2>1, <2>2 DEF Linked
<1>6. \A a \in LinkedOrNull : a # old
  BY <1>2 DEF LinkedOrNull
<1>7. \A u \in Writers \ {w} :
        /\ wpc'[u] = wpc[u] /\ removed'[u] = removed[u] /\ wnew'[u] = wnew[u]
        /\ welem'[u] = welem[u] /\ wkey'[u] = wkey[u]
        /\ removed[u] # NULL => nxt'[removed[u]] = nxt[removed[u]]
                               /\ lvl'[removed[u]] = lvl[removed[u]]
  BY <1>0, <1>1, <1>3 DEF WriterTypes, SharedTypes, Ptr
<1>8. \A a \in Addr \ {old} : nxt'[a] = nxt[a] /\ lvl'[a] = lvl[a]
  BY <1>0, <1>1 DEF SharedTypes
<1>9. wpc'[w] = "idle" /\ removed'[w] = NULL
  BY <1>0, <1>1 DEF WriterTypes
<1>10. BeginsPublished'
  BY <1>1, InCallPublished DEF HeapContext, HeapInv, BeginsPublished, Published
<1>11. WriterPointers'
  <2>1. ASSUME NEW u \in Writers \ {w}
        PROVE  /\ wpc[u] \in Unlinking =>
                    /\ wnew[u] \in alloc' /\ nxt'[wnew[u]] = NULL
               /\ removed[u] # NULL => removed[u] \in alloc'
    BY <1>0, <1>1, <1>3, <1>4, <1>8
    DEF HeapContext, HeapInv, WriterPointers, SharedTypes
  <2>2. ASSUME NEW u \in Writers \ {w}
        PROVE  /\ wpc[u] \in {"search", "rsearch"} => welem[u] \in Linked'
               /\ wpc[u] = "fix" => wnew[u] \in Linked' /\ removed[u] # NULL
               /\ wpc[u] \in UnderLockAfter /\ removed[u] # NULL =>
                    nxt'[removed[u]] \in LinkedOrNull'
    BY <1>5, <1>7 DEF HeapContext, HeapInv, WriterPointers, LinkedOrNull
  <2> QED
    BY <1>7, <1>9, <2>1, <2>2
    DEF HeapContext, HeapInv, WriterPointers, Unlinking, UnderLockAfter
<1>12. WritersApart'
  <2>1. \A u \in Writers : wpc[u] \in Unlinking => wnew[u] # NULL
    BY <1>0 DEF HeapContext, HeapInv, WriterPointers, SharedTypes
  <2> QED
    BY <1>7, <1>9, <2>1 DEF HeapContext, HeapInv, WritersApart, Unlinking
<1>13. HeapClosed'
  BY <1>1, <1>2, <1>5, <1>8, LinkedFacts, HeapSame
<1>14. FixPending'
  BY <1>1, <1>2, <1>5, <1>7, <1>8, <1>9, LinkedFacts
  DEF HeapContext, HeapInv, FixPending, WriterPointers
<1>15. LevelsDescend'
  <2>1. \A a \in Linked' : nxt'[a] # NULL => lvl'[nxt'[a]] < lvl'[a]
    BY <1>2, <1>5, <1>6, <1>8, LinkedFacts
    DEF HeapContext, HeapInv, LevelsDescend, HeapClosed, LinkedOrNull
  <2>2. Published'
    BY <1>1, InCallPublished DEF HeapContext, HeapInv, Published
  <2>3. ASSUME NEW u \in Writers \ {w}
        PROVE  /\ wpc[u] \in Unlinking => lvl'[wnew[u]] = wkey[u]
               /\ wpc[u] = "fix" => lvl'[wnew[u]] = lvl[removed[u]]
    <3>1. wpc[u] \in Unlinking \/ wpc[u] = "fix" => wnew[u] \in Addr \ {old}
      BY <1>0, <1>4, LinkedFacts
      DEF HeapContext, HeapInv, WriterPointers, SharedTypes
    <3> QED
      BY <1>8, <3>1 DEF HeapContext, HeapInv, LevelsDescend
  <2>4. ASSUME NEW u \in Writers \ {w}, wpc[u] \in UnderLockAfter,
               removed[u] # NULL, nxt[removed[u]] # NULL
        PROVE  lvl'[nxt[removed[u]]] < lvl[removed[u]]
    <3>1. nxt[removed[u]] \in Addr \ {old}
      BY <1>2, <2>4, LinkedFacts
      DEF HeapContext, HeapInv, WriterPointers, LinkedOrNull
    <3> QED
      BY <1>8, <2>4, <3>1 DEF HeapContext, HeapInv, LevelsDescend
  <2>5. \A u \in Writers \ {w} : wpc[u] = "fix" => removed[u] # NULL
    BY DEF HeapContext, HeapInv, WriterPointers
  <2> QED
    BY <1>7, <1>9, <2>1, <2>2, <2>3, <2>4, <2>5
    DEF LevelsDescend, Unlinking, UnderLockAfter
<1> QED
  BY <1>5, <1>10, <1>11, <1>12, <1>13, <1>14, <1>15 DEF HeapInv

(* A step of a writer. *)
LEMMA HeapWriter ==
  ASSUME HeapContext, NEW w \in Writers, WriterStep(w)
  PROVE  HeapInv'
<1>1. CASE \E k \in ReplaceKeys : ReplaceBegin(w, k)
  BY <1>1, HeapReplaceBegin
<1>2. CASE \/ \E k \in RemoveKeys : RemoveBegin(w, k)
           \/ Acquire(w) \/ RemoveDrain(w) \/ FlipEpoch(w) \/ SpinForever(w)
  BY <1>2, HeapMoves
<1>3. CASE ReplaceScan(w)
  <2>1. CASE head = NULL
    BY <1>3, <2>1, HeapReturnLocked DEF ReplaceScan, ReplaceHead
  <2>2. CASE head # NULL /\ lvl[head] = wkey[w]
    BY <1>3, <2>2, HeapReplaceHead DEF ReplaceScan
  <2>3. CASE head # NULL /\ lvl[head] # wkey[w]
    BY <1>3, <2>3, HeapMoves
  <2> QED
    BY <2>1, <2>2, <2>3
<1>4. CASE ReplaceSearch(w)
  <2>1. CASE nxt[welem[w]] = NULL
    BY <1>4, <2>1, HeapReturnLocked DEF ReplaceSearch, LinkAfter
  <2>2. CASE nxt[welem[w]] # NULL /\ lvl[nxt[welem[w]]] = wkey[w]
    BY <1>4, <2>2, HeapLinkAfter DEF ReplaceSearch
  <2>3. CASE nxt[welem[w]] # NULL /\ lvl[nxt[welem[w]]] # wkey[w]
    BY <1>4, <2>3, HeapSearchMoves
  <2> QED
    BY <2>1, <2>2, <2>3
<1>5. CASE ReplaceFix(w)
  BY <1>5, HeapReplaceFix
<1>6. CASE RemoveScan(w)
  BY <1>6, HeapRemoveHead, HeapMoves
<1>7. CASE RemoveSearch(w)
  BY <1>7, HeapRemoveBehind, HeapSearchMoves
<1>8. CASE GraceEnd(w)
  <2>1. CASE removed[w] = NULL
    BY <1>8, <2>1, HeapEndCall DEF GraceEnd, Unlinking
  <2> QED
    BY <1>8, <2>1, HeapMoves
<1>9. CASE FreeRemoved(w)
  BY <1>9, HeapFree
<1> QED
  BY <1>1, <1>2, <1>3, <1>4, <1>5, <1>6, <1>7, <1>8, <1>9
  DEF WriterStep, UnderLock

(* Every step. *)
LEMMA HeapNext == HeapContext /\ [Next]_vars => HeapInv'
<1> SUFFICES ASSUME HeapContext, [Next]_vars PROVE HeapInv'
  OBVIOUS
<1>1. CASE Insert
  BY <1>1, HeapInsert
<1>2. CASE InsertFails
  BY <1>2, HeapOthers DEF InsertFails
<1>3. ASSUME NEW r \in Readers, ReaderStep(r) PROVE HeapInv'
  <2>1. UNCHANGED <<heap, wlock, built, writerVars>>
    BY <1>3
    DEF ReaderStep, InSearch, SearchBegin, WaitInterrupted, Register, ReadHead,
        Visit, Deregister, UseElement
  <2> QED
    BY <2>1, HeapOthers
<1>4. CASE UNCHANGED vars
  BY <1>4, HeapOthers DEF vars
<1> QED
  BY <1>1, <1>2, <1>3, <1>4, HeapWriter DEF Next

(* The list is closed, its levels descend and no two of its pointers lead  *)
(* to one element, whatever a replace or a remove is doing; what a writer  *)
(* unlinked is in no other writer's hands.                                 *)
THEOREM HeapInvariant == Spec => []HeapInv
<1>1. Init => HeapInv
  BY DEF Init, HeapInv, BeginsPublished, WriterPointers, WritersApart,
         HeapClosed, FixPending, LevelsDescend, Linked, LinkedOrNull,
         Unlinking, BeforeUnlink, UnderLockAfter
<1>2. TypeInv /\ SectionHoldsLock /\ HeapInv /\ [Next]_vars => HeapInv'
  BY HeapNext DEF HeapContext
<1> QED
  BY <1>1, <1>2, TypeInvariant, WriterExclusion, PTL DEF Spec

-----------------------------------------------------------------------------
(* OnTimeReadersProtected *)

ReadersContext == HeapContext /\ StandingAccounting /\ ReadersInv

(* While a writer has the lock and nobody waits in a grace period, no      *)
(* epoch but the current one is open.                                      *)
LEMMA OpenIsCurrent ==
  ASSUME HeapContext, NEW w \in Writers, InSection(w),
         wpc[w] \notin {"grace", "hung"}, NEW e, EpochOpen(e)
  PROVE  e = epoch
BY Alone DEF HeapContext, EpochOpen

(* The end of the wait of 209: no search is in its epoch, unless a signal  *)
(* took off the count.                                                     *)
LEMMA GraceIsOver ==
  ASSUME HeapContext, StandingAccounting, NEW w \in Writers, GraceEnd(w),
         NEW r \in Readers, rpc[r] \in {"head", "visit", "exit"},
         interrupted[myEpoch[r]] = 0
  PROVE  myEpoch[r] # graceEpoch[w]
<1> SUFFICES ASSUME myEpoch[r] = graceEpoch[w] PROVE FALSE
  OBVIOUS
<1>0. ReaderTypes /\ WriterTypes /\ SharedTypes
  BY TypeParts DEF HeapContext
<1> DEFINE e == graceEpoch[w]
<1>1. e \in Epochs /\ r \in Registered(e) /\ interrupted[e] = 0
  BY <1>0 DEF Registered, WriterTypes
<1>2. Cardinality(Registered(e)) # 0 /\ Cardinality(Registered(e)) \in Nat
  <2>1. IsFiniteSet(Registered(e))
    BY ListAssumption, FS_Subset DEF Registered
  <2> QED
    BY <1>1, <2>1, FS_EmptySet, FS_CardinalityType
<1>3. standing[e] > 0
  BY <1>1, <1>2 DEF StandingAccounting
<1> QED
  BY <1>3 DEF GraceEnd, NoStanding

(* What one step of a writer does to the elements a search may be on. *)
LEMMA WriterLeaves ==
  ASSUME HeapContext, NEW w \in Writers, WriterStep(w)
  PROVE  /\ \A a \in Linked : a \in Linked' \/ a = removed'[w]
         /\ \A u \in Writers \ {w} :
              /\ wpc'[u] = wpc[u] /\ removed'[u] = removed[u]
              /\ graceEpoch'[u] = graceEpoch[u]
<1>0. WriterTypes /\ SharedTypes
  BY TypeParts DEF HeapContext
<1>1. \A u \in Writers \ {w} :
        /\ wpc'[u] = wpc[u] /\ removed'[u] = removed[u]
        /\ wnew'[u] = wnew[u] /\ graceEpoch'[u] = graceEpoch[u]
  BY <1>0
  DEF WriterTypes, WriterStep, UnderLock, Acquire, ReplaceBegin, RemoveBegin,
      ReplaceLock, RemoveLock, WriteLock, ReplaceScan, ReplaceHead,
      ReturnLocked, ReplaceSearch, LinkAfter, ReplaceFix, RemoveScan,
      RemoveSearch, RemoveDrain, FlipEpoch, GraceEnd, SpinForever, FreeRemoved,
      EndCall
<1>2. alloc \ {removed[w]} \subseteq alloc'
  BY DEF WriterStep, UnderLock, Acquire, ReplaceBegin, RemoveBegin,
      ReplaceLock, RemoveLock, WriteLock, ReplaceScan, ReplaceHead,
      ReturnLocked, ReplaceSearch, LinkAfter, ReplaceFix, RemoveScan,
      RemoveSearch, RemoveDrain, FlipEpoch, GraceEnd, SpinForever, FreeRemoved,
      heap
<1>3. wpc'[w] \in Unlinking =>
        wnew'[w] \notin alloc \/ (wpc[w] \in Unlinking /\ wnew'[w] = wnew[w])
  <2>1. CASE \E k \in ReplaceKeys : ReplaceBegin(w, k)
    BY <1>0, <2>1 DEF ReplaceBegin, WriterTypes
  <2>2. CASE ~ \E k \in ReplaceKeys : ReplaceBegin(w, k)
    BY <1>0, <2>2
    DEF WriterTypes, WriterStep, UnderLock, Acquire, RemoveBegin,
        ReplaceLock, RemoveLock, WriteLock, ReplaceScan, ReplaceHead,
        ReturnLocked, ReplaceSearch, LinkAfter, ReplaceFix, RemoveScan,
        RemoveSearch, RemoveDrain, FlipEpoch, GraceEnd, SpinForever,
        FreeRemoved, EndCall, Unlinking
  <2> QED
    BY <2>1, <2>2
<1>4. ASSUME NEW a \in Linked, a # removed'[w]
      PROVE  a \in Linked'
  <2>1. a \in alloc /\ ~Unlinked(a) /\ ~BeingRemoved(a)
    BY <1>4 DEF Linked
  <2>2. a \in alloc'
    BY <1>2, <2>1 DEF BeingRemoved
  <2>3. ~BeingRemoved(a)'
    BY <1>1, <1>4, <2>1 DEF BeingRemoved
  <2>4. ~Unlinked(a)'
    BY <1>1, <1>3, <2>1 DEF Unlinked, Unlinking
  <2> QED
    BY <2>2, <2>3, <2>4 DEF Linked
<1> QED
  BY <1>1, <1>4

(* A step of a writer leaves an open epoch open, unless it is the end of   *)
(* the wait for it; and it leaves the elements a search of it may be on in *)
(* the list, or makes them ones whose writer will wait for it.             *)
LEMMA WriterCovers ==
  ASSUME HeapContext, NEW w \in Writers, WriterStep(w), NEW e, EpochOpen(e),
         GraceEnd(w) => graceEpoch[w] # e
  PROVE  /\ LinkedOrNull \cup Withdrawn(e) \subseteq LinkedOrNull' \cup Withdrawn(e)'
         /\ EpochOpen(e)'
<1>0. WriterTypes /\ SharedTypes
  BY TypeParts DEF HeapContext
<1>1. /\ \A a \in Linked : a \in Linked' \/ a = removed'[w]
      /\ \A u \in Writers \ {w} :
            /\ wpc'[u] = wpc[u] /\ removed'[u] = removed[u]
            /\ graceEpoch'[u] = graceEpoch[u]
  BY <1>0, WriterLeaves
<1>2. \/ e = epoch
      \/ \E u \in Writers : \/ wpc[u] = "grace" /\ graceEpoch[u] = e
                            \/ wpc[u] = "hung"
  BY DEF EpochOpen
\* The steps that take nothing out of the list.
<1>3. ASSUME removed'[w] \notin Linked, UNCHANGED epoch,
             w \in Withdrawing(e) => w \in Withdrawing(e)' /\ removed'[w] = removed[w],
             wpc[w] \in {"grace", "hung"} => wpc'[w] = "hung"
      PROVE  /\ LinkedOrNull \cup Withdrawn(e)
                    \subseteq LinkedOrNull' \cup Withdrawn(e)'
             /\ EpochOpen(e)'
  <2>1. Linked \subseteq Linked'
    BY <1>1, <1>3
  <2>2. Withdrawn(e) \subseteq Withdrawn(e)'
    BY <1>1, <1>3 DEF Withdrawn, Withdrawing
  <2>3. EpochOpen(e)'
    BY <1>1, <1>2, <1>3 DEF EpochOpen
  <2> QED
    BY <2>1, <2>2, <2>3 DEF LinkedOrNull
<1>4. CASE \/ \E k \in ReplaceKeys : ReplaceBegin(w, k)
           \/ \E k \in RemoveKeys : RemoveBegin(w, k)
           \/ Acquire(w)
  <2>1. wpc[w] \in {"idle", "lock", "rlock"} /\ UNCHANGED <<epoch, removed>>
    BY <1>4
    DEF ReplaceBegin, RemoveBegin, Acquire, ReplaceLock, RemoveLock, WriteLock
  <2> QED
    BY <1>0, <1>3, <2>1, LinkedFacts DEF Withdrawing
<1>5. CASE FreeRemoved(w)
  <2>1. wpc[w] = "free" /\ removed'[w] = NULL /\ UNCHANGED epoch
    BY <1>0, <1>5 DEF FreeRemoved, EndCall, WriterTypes
  <2> QED
    BY <1>0, <1>3, <2>1, LinkedFacts DEF Withdrawing
<1>6. CASE ReplaceFix(w) \/ RemoveDrain(w) \/ SpinForever(w)
  <2>1. /\ wpc[w] \in {"fix", "drain", "grace"}
        /\ wpc'[w] \in {"flip", "hung"}
        /\ wpc[w] = "grace" => wpc'[w] = "hung"
        /\ UNCHANGED <<epoch, removed, graceEpoch>>
    BY <1>0, <1>6 DEF ReplaceFix, RemoveDrain, SpinForever, WriterTypes
  <2> QED
    BY <1>0, <1>3, <2>1, LinkedFacts DEF Withdrawing
\* The steps that may unlink an element.
<1>7. CASE \/ ReplaceScan(w) \/ ReplaceSearch(w)
           \/ RemoveScan(w) \/ RemoveSearch(w)
  <2>1. /\ wpc[w] \in {"scan", "search", "rscan", "rsearch"}
        /\ UNCHANGED epoch
    BY <1>7 DEF ReplaceScan, ReplaceSearch, RemoveScan, RemoveSearch
  <2>2. e = epoch
    BY <2>1, OpenIsCurrent DEF InSection
  <2>3. removed'[w] \in Linked => wpc'[w] \in {"fix", "flip", "drain"}
    <3>1. removed[w] \notin Linked /\ NULL \notin Linked
      BY <1>0, LinkedFacts
    <3> QED
      BY <1>0, <1>7, <3>1
      DEF ReplaceScan, ReplaceHead, ReturnLocked, ReplaceSearch, LinkAfter,
          EndCall, RemoveScan, RemoveSearch, WriterTypes
  <2>4. \A u \in Withdrawing(e) : u # w
    BY <2>1 DEF Withdrawing
  <2>5. Withdrawn(e) \subseteq Withdrawn(e)'
    BY <1>1, <2>1, <2>4 DEF Withdrawn, Withdrawing
  <2>6. Linked \subseteq LinkedOrNull' \cup Withdrawn(e)'
    BY <1>1, <2>1, <2>2, <2>3 DEF Withdrawn, Withdrawing, LinkedOrNull
  <2> QED
    BY <2>1, <2>2, <2>5, <2>6 DEF LinkedOrNull, EpochOpen
<1>8. CASE FlipEpoch(w)
  <2>1. /\ wpc[w] = "flip" /\ wpc'[w] = "grace" /\ graceEpoch'[w] = epoch
        /\ UNCHANGED removed
    BY <1>0, <1>8 DEF FlipEpoch, WriterTypes
  <2>2. e = epoch
    BY <2>1, OpenIsCurrent DEF InSection
  <2>3. \A u \in Withdrawing(e) : u = w
    <3>1. \A u \in Writers \ {w} : wpc[u] \in {"idle", "lock", "rlock", "free"}
      BY <1>0, <2>1, Alone DEF InSection, HeapContext
    <3> QED
      BY <3>1 DEF Withdrawing
  <2>4. Withdrawn(e) \subseteq Withdrawn(e)'
    BY <2>1, <2>2, <2>3 DEF Withdrawn, Withdrawing
  <2>5. Linked \subseteq Linked'
    BY <1>0, <1>1, <2>1, LinkedFacts
  <2> QED
    BY <2>1, <2>2, <2>4, <2>5 DEF LinkedOrNull, EpochOpen
<1>9. CASE GraceEnd(w)
  <2>1. /\ wpc[w] = "grace" /\ e # graceEpoch[w] /\ UNCHANGED epoch
        /\ removed'[w] \in {removed[w], NULL}
    BY <1>0, <1>9 DEF GraceEnd, EndCall, WriterTypes
  <2>2. Linked \subseteq Linked'
    BY <1>0, <1>1, <2>1, LinkedFacts
  <2>3. \A u \in Withdrawing(e) : u # w
    BY <2>1 DEF Withdrawing
  <2>4. Withdrawn(e) \subseteq Withdrawn(e)'
    BY <1>1, <2>1, <2>3 DEF Withdrawn, Withdrawing
  <2>5. EpochOpen(e)'
    BY <1>1, <1>2, <2>1 DEF EpochOpen
  <2> QED
    BY <2>2, <2>4, <2>5 DEF LinkedOrNull
<1> QED
  BY <1>4, <1>5, <1>6, <1>7, <1>8, <1>9 DEF WriterStep, UnderLock

(* The steps of the writers. *)
LEMMA ReadersWriter ==
  ASSUME ReadersContext, NEW w \in Writers, WriterStep(w)
  PROVE  ReadersInv'
<1>0. /\ ReaderTypes /\ WriterTypes /\ SharedTypes /\ HeapContext
      /\ NULL \notin Addr
  BY TypeParts, ListAssumption DEF ReadersContext, HeapContext
<1>1. /\ UNCHANGED <<rpc, rkey, myEpoch, rp, late, interrupted, built>>
      /\ strayed' = strayed \/ FreeRemoved(w)
  BY DEF WriterStep, UnderLock, Acquire, ReplaceBegin, RemoveBegin,
      ReplaceLock, RemoveLock, WriteLock, ReplaceScan, ReplaceSearch,
      ReplaceFix, RemoveScan, RemoveSearch, RemoveDrain, FlipEpoch, GraceEnd,
      SpinForever, FreeRemoved, readerVars, history
<1>2. \A r \in Readers : OnTime(r)' <=> OnTime(r)
  BY <1>1 DEF OnTime
<1>c. ASSUME NEW r \in Readers, OnTime(r)
      PROVE  /\ LinkedOrNull \cup Withdrawn(myEpoch[r])
                    \subseteq LinkedOrNull' \cup Withdrawn(myEpoch[r])'
             /\ EpochOpen(myEpoch[r])'
  <2>1. EpochOpen(myEpoch[r])
    BY <1>c DEF ReadersContext, ReadersInv, EpochAwaited
  <2>2. GraceEnd(w) => graceEpoch[w] # myEpoch[r]
    BY <1>0, <1>c, GraceIsOver DEF ReadersContext, OnTime
  <2>3. PICK e : e = myEpoch[r]
    OBVIOUS
  <2>4. /\ LinkedOrNull \cup Withdrawn(e) \subseteq LinkedOrNull' \cup Withdrawn(e)'
        /\ EpochOpen(e)'
    BY <1>0, <2>1, <2>2, <2>3, WriterCovers
  <2>5. myEpoch' = myEpoch
    BY <1>1
  <2>6. Withdrawn(myEpoch[r])' = Withdrawn(e)' /\ EpochOpen(myEpoch[r])' = EpochOpen(e)'
    BY <2>3, <2>5 DEF Withdrawn, Withdrawing, EpochOpen
  <2> QED
    BY <2>3, <2>4, <2>6
<1>3. EpochAwaited'
  BY <1>1, <1>2, <1>c DEF EpochAwaited
<1>4. OnTimeOnList'
  <2>1. ASSUME NEW r \in Readers, OnTime(r), rpc[r] \in {"visit", "exit"}
        PROVE  rp[r] \in LinkedOrNull' \cup Withdrawn(myEpoch[r])'
    <3>1. rp[r] \in LinkedOrNull \cup Withdrawn(myEpoch[r])
      BY <2>1 DEF ReadersContext, ReadersInv, OnTimeOnList
    <3> QED
      BY <1>c, <2>1, <3>1
  <2> QED
    BY <1>1, <1>2, <2>1 DEF OnTimeOnList
<1>5. OnTimeReadersProtected' /\ \A r \in strayed' : rpc'[r] \in {"visit", "exit", "use"}
  <2>1. CASE strayed' = strayed
    BY <1>1, <2>1 DEF ReadersContext, ReadersInv, OnTimeReadersProtected
  <2>2. CASE FreeRemoved(w)
    <3>1. wpc[w] = "free" /\ strayed' = strayed \cup Holders(removed[w])
      BY <2>2 DEF FreeRemoved
    <3>2. removed[w] # NULL /\ removed[w] \notin LinkedOrNull
      BY <1>0, <3>1, LinkedFacts
      DEF HeapContext, HeapInv, WriterPointers, LinkedOrNull
    <3>3. \A e \in Epochs : removed[w] \notin Withdrawn(e)
      BY <3>1, <3>2 DEF Withdrawn, Withdrawing, HeapContext, HeapInv,
        WritersApart, ReadersContext
    <3>4. ASSUME NEW r \in Holders(removed[w]), rpc[r] \in {"visit", "exit"}
          PROVE  r \in late \/ interrupted[myEpoch[r]] > 0
      <4>1. r \in Readers /\ rp[r] = removed[w] /\ myEpoch[r] \in Epochs
        BY <1>0, <3>4 DEF Holders, ReaderTypes
      <4>2. ~OnTime(r)
        BY <3>2, <3>3, <3>4, <4>1
        DEF ReadersContext, ReadersInv, OnTimeOnList
      <4>3. interrupted[myEpoch[r]] \in Nat
        BY <1>0, <4>1 DEF SharedTypes
      <4> QED
        BY <3>4, <4>1, <4>2, <4>3 DEF OnTime
    <3> QED
      BY <1>1, <3>1, <3>4
      DEF ReadersContext, ReadersInv, OnTimeReadersProtected, Holders
  <2> QED
    BY <1>1, <2>1, <2>2
<1>6. ~Published' => \A r \in Readers : rpc'[r] = "idle"
  BY <1>1 DEF ReadersContext, ReadersInv, Published
<1> QED
  BY <1>3, <1>4, <1>5, <1>6 DEF ReadersInv

(* Where the traversal goes: a search that is on time stays on the list or *)
(* on a withdrawn element, whose next is on the list.                      *)
LEMMA OnTimeVisit ==
  ASSUME ReadersContext, NEW r \in Readers, Visit(r), OnTime(r)
  PROVE  /\ r \notin strayed /\ strayed' = strayed
         /\ rp'[r] \in LinkedOrNull \cup Withdrawn(myEpoch[r])
<1>0. /\ ReaderTypes /\ WriterTypes /\ SharedTypes /\ HeapContext
      /\ NULL \notin Addr
  BY TypeParts, ListAssumption DEF ReadersContext, HeapContext
<1>1. rpc[r] = "visit" /\ rp[r] # NULL
  BY <1>0 DEF Visit, ReaderTypes
<1>2. r \notin strayed
  BY <1>0, <1>1
  DEF ReadersContext, ReadersInv, OnTimeReadersProtected, OnTime, SharedTypes
<1>3. rp[r] \in Linked \cup Withdrawn(myEpoch[r])
  BY <1>1 DEF ReadersContext, ReadersInv, OnTimeOnList, LinkedOrNull
<1>4. nxt[rp[r]] \in LinkedOrNull
  <2>1. CASE rp[r] \in Linked
    BY <1>0, <2>1 DEF HeapContext, HeapInv, HeapClosed
  <2>2. CASE rp[r] \in Withdrawn(myEpoch[r])
    BY <1>0, <1>1, <2>2
    DEF HeapContext, HeapInv, WriterPointers, Withdrawn, Withdrawing,
        UnderLockAfter
  <2> QED
    BY <1>3, <2>1, <2>2
<1>5. CASE StopAtElement(r)
  BY <1>2, <1>3, <1>5 DEF StopAtElement, LinkedOrNull
<1>6. CASE MoveTo(r, nxt[rp[r]])
  <2>1. rp'[r] = nxt[rp[r]]
    BY <1>0, <1>6 DEF MoveTo, ReaderTypes
  <2>2. strayed' = strayed
    BY <1>0, <1>4, <1>6, LinkedFacts DEF MoveTo, LinkedOrNull
  <2> QED
    BY <1>2, <1>4, <2>1, <2>2
<1> QED
  BY <1>2, <1>5, <1>6 DEF Visit, VisitElement, VisitFreed

(* The steps of the readers. *)
LEMMA ReadersReader ==
  ASSUME ReadersContext, NEW r \in Readers, ReaderStep(r)
  PROVE  ReadersInv'
<1>0. /\ ReaderTypes /\ WriterTypes /\ SharedTypes /\ HeapContext
      /\ NULL \notin Addr
  BY TypeParts, ListAssumption DEF ReadersContext, HeapContext
<1>1. UNCHANGED <<heap, epoch, built, writerVars>>
  BY DEF ReaderStep, InSearch, SearchBegin, WaitInterrupted, Register,
         ReadHead, Visit, Deregister, UseElement
<1>2. /\ LinkedOrNull' = LinkedOrNull
      /\ \A e \in Epochs : Withdrawn(e)' = Withdrawn(e)
  BY <1>1
  DEF LinkedOrNull, Linked, Unlinked, BeingRemoved, Withdrawn, Withdrawing,
      heap, writerVars
\* The other readers: a signal can only take one off those that are on time.
<1>3. \A q \in Readers \ {r} :
         /\ rpc'[q] = rpc[q] /\ rp'[q] = rp[q] /\ myEpoch'[q] = myEpoch[q]
         /\ q \in late' <=> q \in late
         /\ q \in strayed' <=> q \in strayed
  BY <1>0
  DEF ReaderStep, InSearch, SearchBegin, WaitInterrupted, Register, ReadHead,
      Visit, VisitElement, VisitFreed, MoveTo, StopAtElement, Deregister,
      UseElement, EndSearch, ReaderTypes, history
<1>4. \A e \in Epochs : /\ interrupted[e] > 0 => interrupted'[e] > 0
                        /\ interrupted[e] \in Nat /\ interrupted'[e] \in Nat
  <2>1. CASE WaitInterrupted(r)
    BY <1>0, <2>1 DEF WaitInterrupted, SharedTypes, ReaderTypes
  <2>2. CASE ~WaitInterrupted(r)
    <3>1. interrupted' = interrupted
      BY <2>2
      DEF ReaderStep, InSearch, SearchBegin, Register, ReadHead, Visit,
          Deregister, UseElement, history
    <3> QED
      BY <1>0, <3>1 DEF SharedTypes
  <2> QED
    BY <2>1, <2>2
<1>5. \A q \in Readers \ {r} : OnTime(q)' => OnTime(q)
  BY <1>0, <1>3, <1>4 DEF OnTime, ReaderTypes
\* The reader itself.
<1>6. OnTime(r)' =>
         /\ myEpoch'[r] = epoch \/ (OnTime(r) /\ myEpoch'[r] = myEpoch[r])
         /\ rpc'[r] \in {"visit", "exit"} =>
              rp'[r] \in LinkedOrNull \cup Withdrawn(myEpoch'[r])
  <2>1. CASE (\E k \in SearchKeys : SearchBegin(r, k)) \/ WaitInterrupted(r)
             \/ UseElement(r)
    BY <1>0, <2>1
    DEF SearchBegin, WaitInterrupted, UseElement, EndSearch, OnTime, ReaderTypes
  <2>2. CASE Register(r)
    BY <1>0, <2>2 DEF Register, OnTime, ReaderTypes
  <2>3. CASE ReadHead(r)
    <3>1. rpc[r] = "head" /\ UNCHANGED <<myEpoch, late, interrupted>>
      BY <2>3 DEF ReadHead, history
    <3>2. rp'[r] = head /\ head \in LinkedOrNull
      BY <1>0, <2>3
      DEF ReadHead, ReaderTypes, HeapContext, HeapInv, HeapClosed
    <3> QED
      BY <3>1, <3>2 DEF OnTime
  <2>4. CASE Visit(r)
    <3>1. rpc[r] = "visit" /\ UNCHANGED <<myEpoch, late, interrupted>>
      BY <2>4 DEF Visit
    <3> QED
      BY <2>4, <3>1, OnTimeVisit DEF OnTime
  <2>5. CASE Deregister(r)
    BY <1>0, <2>5 DEF Deregister, EndSearch, OnTime, ReaderTypes
  <2> QED
    BY <2>1, <2>2, <2>3, <2>4, <2>5 DEF ReaderStep, InSearch
<1>7. EpochAwaited'
  <2>1. ASSUME NEW q \in Readers, OnTime(q)'
        PROVE  myEpoch'[q] = epoch \/ (OnTime(q) /\ myEpoch'[q] = myEpoch[q])
    BY <1>3, <1>5, <1>6, <2>1
  <2> QED
    BY <1>1, <2>1
    DEF EpochAwaited, EpochOpen, ReadersContext, ReadersInv, writerVars
<1>8. OnTimeOnList'
  <2>1. ASSUME NEW q \in Readers, OnTime(q)', rpc'[q] \in {"visit", "exit"}
        PROVE  rp'[q] \in LinkedOrNull' \cup Withdrawn(myEpoch[q])'
    <3>1. rp'[q] \in LinkedOrNull \cup Withdrawn(myEpoch'[q])
      BY <1>3, <1>5, <1>6, <2>1 DEF ReadersContext, ReadersInv, OnTimeOnList
    <3>2. myEpoch'[q] \in Epochs
      BY <1>0, <1>3, <2>1, TypeReader, TypeParts
      DEF HeapContext, TypeInv, TypeOK
    <3>3. Withdrawn(myEpoch[q])' = Withdrawn(myEpoch'[q])
      BY <1>1 DEF Withdrawn, Withdrawing, writerVars
    <3> QED
      BY <1>2, <3>1, <3>3
  <2> QED
    BY <2>1 DEF OnTimeOnList
<1>9. r \in strayed' =>
        /\ rpc'[r] \in {"visit", "exit", "use"}
        /\ rpc'[r] \in {"visit", "exit"} =>
             r \in late' \/ interrupted'[myEpoch'[r]] > 0
  <2>1. CASE (\E k \in SearchKeys : SearchBegin(r, k)) \/ Register(r)
             \/ ReadHead(r)
    <3>1. rpc[r] \in {"idle", "wait", "head"} /\ strayed' = strayed
      BY <2>1 DEF SearchBegin, Register, ReadHead, history
    <3> QED
      BY <3>1 DEF ReadersContext, ReadersInv
  <2>2. CASE WaitInterrupted(r) \/ UseElement(r)
    BY <2>2 DEF WaitInterrupted, UseElement, EndSearch
  <2>3. CASE Visit(r)
    <3>1. /\ rpc[r] = "visit" /\ UNCHANGED <<myEpoch, late, interrupted>>
          /\ rpc'[r] \in {"visit", "exit"}
      BY <1>0, <2>3
      DEF Visit, VisitElement, VisitFreed, MoveTo, StopAtElement, ReaderTypes
    <3>2. CASE OnTime(r)
      BY <2>3, <3>2, OnTimeVisit
    <3>3. CASE ~OnTime(r)
      <4>1. myEpoch[r] \in Epochs
        BY <1>0 DEF ReaderTypes
      <4> QED
        BY <1>4, <3>1, <3>3, <4>1 DEF OnTime
    <3> QED
      BY <3>2, <3>3
  <2>4. CASE Deregister(r)
    BY <1>0, <2>4 DEF Deregister, EndSearch, ReaderTypes
  <2> QED
    BY <2>1, <2>2, <2>3, <2>4 DEF ReaderStep, InSearch
<1>10. OnTimeReadersProtected' /\ \A q \in strayed' : rpc'[q] \in {"visit", "exit", "use"}
  <2>1. strayed' \subseteq Readers
    BY <1>0, TypeReader DEF HeapContext, TypeInv, TypeOK
  <2>2. ASSUME NEW q \in strayed', q # r
        PROVE  /\ rpc'[q] \in {"visit", "exit", "use"}
               /\ rpc'[q] \in {"visit", "exit"} =>
                    q \in late' \/ interrupted'[myEpoch'[q]] > 0
    <3>1. q \in Readers \ {r} /\ q \in strayed /\ myEpoch[q] \in Epochs
      BY <1>0, <1>3, <2>1, <2>2 DEF ReaderTypes
    <3> QED
      BY <1>3, <1>4, <3>1
      DEF ReadersContext, ReadersInv, OnTimeReadersProtected
  <2> QED
    BY <1>9, <2>2 DEF OnTimeReadersProtected
<1>11. ~Published' => \A q \in Readers : rpc'[q] = "idle"
  <2>1. Published
    BY DEF ReadersContext, ReadersInv, ReaderStep, InSearch, SearchBegin,
           WaitInterrupted, Register, ReadHead, Visit, Deregister, UseElement
  <2> QED
    BY <1>1, <2>1 DEF Published
<1> QED
  BY <1>7, <1>8, <1>10, <1>11 DEF ReadersInv

(* Every step. *)
LEMMA ReadersNext == ReadersContext /\ [Next]_vars => ReadersInv'
<1> SUFFICES ASSUME ReadersContext, [Next]_vars PROVE ReadersInv'
  OBVIOUS
<1>1. CASE Insert \/ InsertFails
  <2>1. (\A r \in Readers : rpc[r] = "idle") /\ UNCHANGED <<readerVars, strayed>>
    BY <1>1 DEF Insert, InsertFails, history, ReadersContext, ReadersInv
  <2>2. strayed' = {}
    BY <2>1, TypeParts
    DEF ReadersContext, ReadersInv, HeapContext, ReaderTypes
  <2> QED
    BY <2>1, <2>2
    DEF ReadersInv, EpochAwaited, OnTimeOnList, OnTimeReadersProtected, OnTime,
        readerVars
<1>2. CASE UNCHANGED vars
  <2> USE <1>2 DEF vars, heap, readerVars, writerVars, history
  <2>1. LinkedOrNull' = LinkedOrNull
    BY DEF LinkedOrNull, Linked, Unlinked, BeingRemoved
  <2>2. \A r \in Readers : /\ OnTime(r)' = OnTime(r)
                           /\ Withdrawn(myEpoch[r])' = Withdrawn(myEpoch[r])
    BY DEF OnTime, Withdrawn, Withdrawing
  <2> QED
    BY <2>1, <2>2
    DEF ReadersContext, ReadersInv, EpochAwaited, EpochOpen, OnTimeOnList,
        OnTimeReadersProtected, Published
<1> QED
  BY <1>1, <1>2, ReadersReader, ReadersWriter DEF Next

(* Where the searches are, always. *)
LEMMA ReadersAlways == Spec => []ReadersInv
<1>1. Init => ReadersInv
  BY DEF Init, ReadersInv, EpochAwaited, OnTimeOnList, OnTimeReadersProtected,
         OnTime
<1>2. TypeInv /\ SectionHoldsLock /\ HeapInv /\ StandingAccounting
        /\ ReadersInv /\ [Next]_vars => ReadersInv'
  BY ReadersNext DEF ReadersContext, HeapContext
<1> QED
  BY <1>1, <1>2, TypeInvariant, WriterExclusion, HeapInvariant,
     StandingCounts, PTL DEF Spec

(* The grace period protects a search that registered while its epoch was  *)
(* current: unless a signal has made the count of that epoch too small,    *)
(* its element is freed only after the traversal (198-213, 42-56).         *)
THEOREM GracePeriodProtects == Spec => []OnTimeReadersProtected
<1>1. ReadersInv => OnTimeReadersProtected
  BY DEF ReadersInv
<1> QED
  BY <1>1, ReadersAlways, PTL

=============================================================================
