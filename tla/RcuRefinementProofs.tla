------------------------- MODULE RcuRefinementProofs -------------------------
(***************************************************************************)
(* The list of RcuList when its writers only replace levels of the service *)
(* and every insert got its memory: it keeps one element per level, no     *)
(* replace returns with the lock taken, and, when no signal ends a wait,   *)
(* it implements AtomicLevels.                                             *)
(***************************************************************************)
EXTENDS RcuHeapProofs

\* When the writers only replace levels of the service, and every insert got
\* its memory.
AllLevels == NoMemoryLevels = {} /\ RemoveKeys = {} /\ ReplaceKeys \subseteq Level

\* What the element of a level has for next.
NextOf(l, p) == \/ l = 0 /\ p = NULL
                \/ l > 0 /\ p \in Linked /\ lvl[p] = l - 1

\* Each level inserted so far has its element, the last one is the head, and
\* each element but one that a replace has still to complete has its next.
ListComplete ==
  /\ \A k \in 0 .. built - 1 : \E a \in Linked : lvl[a] = k
  /\ \A a \in Linked : lvl[a] \in 0 .. built - 1
  /\ \A a, b \in Linked : lvl[a] = lvl[b] => a = b
  /\ IF built = 0 THEN head = NULL ELSE head \in Linked /\ lvl[head] = built - 1
  /\ \A a \in Linked :
       \/ NextOf(lvl[a], nxt[a])
       \/ \E w \in Writers : wpc[w] = "fix" /\ wnew[w] = a

\* A replace looks for a level that is in front of it, and what it takes out
\* still leads to the level below.
ReplaceOnTrack ==
  \A w \in Writers :
    /\ wpc[w] \in Unlinking => wkey[w] \in Level
    /\ wpc[w] = "search" => lvl[welem[w]] > wkey[w]
    /\ wpc[w] = "fix" => nxt[wnew[w]] = NULL
    /\ wpc[w] \in UnderLockAfter /\ removed[w] # NULL =>
         NextOf(lvl[removed[w]], nxt[removed[w]])
    /\ wpc[w] \notin {"rlock", "rscan", "rsearch", "drain"}

ListInv == ListComplete /\ ReplaceOnTrack /\ LockNeverLeaked

-----------------------------------------------------------------------------
(* ListIntact and LockNeverLeaked *)

\* What the proofs of this part start from.
ListContext == HeapContext /\ ListInv

(* The state after rcu_list_init. *)
LEMMA ListInit == Init => ListInv
BY ListAssumption
DEF Init, ListInv, ListComplete, ReplaceOnTrack, LockNeverLeaked, Linked,
    Unlinking

(* The insert of one level more. *)
LEMMA ListInsert ==
  ASSUME AllLevels, ListContext, Insert
  PROVE  ListInv'
<1>0. /\ WriterTypes /\ SharedTypes /\ NULL \notin Addr
      /\ built \in Nat /\ built' = built + 1
  BY TypeParts, ListAssumption DEF ListContext, HeapContext, SharedTypes, Insert
<1>1. /\ \A w \in Writers : wpc[w] = "idle"
      /\ wlock = NULL /\ UNCHANGED <<wlock, writerVars>>
  BY DEF ListContext, HeapContext, HeapInv, BeginsPublished, Insert
<1>2. PICK a \in Addr \ alloc :
        /\ head' = a
        /\ nxt' = [nxt EXCEPT ![a] = head]
        /\ lvl' = [lvl EXCEPT ![a] = built]
  BY DEF Insert
<1>3. Linked' = Linked \cup {a} /\ a \notin Linked /\ Linked \subseteq Addr
  BY <1>2, HeapInsert, LinkedFacts DEF ListContext
<1>4. /\ lvl'[a] = built /\ nxt'[a] = head
      /\ \A b \in Linked : lvl'[b] = lvl[b] /\ nxt'[b] = nxt[b]
      /\ \A b \in Linked : lvl[b] \in 0 .. built - 1
  BY <1>0, <1>2, <1>3
  DEF SharedTypes, ListContext, ListInv, ListComplete
<1>5. \A k \in 0 .. built' - 1 : \E b \in Linked' : lvl'[b] = k
  <2> SUFFICES ASSUME NEW k \in 0 .. built' - 1
               PROVE  \E b \in Linked' : lvl'[b] = k
    OBVIOUS
  <2>1. CASE k = built
    BY <1>3, <1>4, <2>1
  <2>2. CASE k # built
    <3>1. k \in 0 .. built - 1
      BY <1>0, <2>2
    <3> QED
      BY <1>3, <1>4, <3>1 DEF ListContext, ListInv, ListComplete
  <2> QED
    BY <2>1, <2>2
<1>6. \A b \in Linked' : lvl'[b] \in 0 .. built' - 1
  BY <1>0, <1>3, <1>4
<1>7. \A b, c \in Linked' : lvl'[b] = lvl'[c] => b = c
  <2>1. \A b \in Linked : lvl[b] # built
    BY <1>0, <1>4
  <2> QED
    BY <1>3, <1>4, <2>1 DEF ListContext, ListInv, ListComplete
<1>8. head' \in Linked' /\ lvl'[head'] = built' - 1 /\ built' # 0
  BY <1>0, <1>2, <1>3, <1>4
<1>9. \A b \in Linked' : NextOf(lvl[b], nxt[b])'
  <2>1. NextOf(lvl[a], nxt[a])'
    BY <1>0, <1>2, <1>3, <1>4
    DEF ListContext, ListInv, ListComplete, NextOf
  <2>2. \A b \in Linked : NextOf(lvl[b], nxt[b])
    BY <1>1 DEF ListContext, ListInv, ListComplete
  <2> QED
    BY <1>3, <1>4, <2>1, <2>2 DEF NextOf
<1>10. ListComplete'
  BY <1>5, <1>6, <1>7, <1>8, <1>9 DEF ListComplete
<1> QED
  BY <1>1, <1>10
  DEF ListInv, ReplaceOnTrack, LockNeverLeaked, Unlinking, UnderLockAfter,
      writerVars

(* Steps that change neither the elements of the list, nor their pointers  *)
(* and levels.                                                             *)
LEMMA ListSame ==
  ASSUME ListContext, Linked' = Linked, UNCHANGED <<head, built>>,
         \A a \in Linked : nxt'[a] = nxt[a] /\ lvl'[a] = lvl[a],
         \A w \in Writers : wpc[w] = "fix" =>
                wpc'[w] = "fix" /\ wnew'[w] = wnew[w]
  PROVE  /\ ListComplete'
         /\ \A l, p : NextOf(l, p) => NextOf(l, p)'
<1>1. ASSUME NEW l, NEW p, NextOf(l, p)
      PROVE  NextOf(l, p)'
  BY <1>1 DEF NextOf
<1> QED
  BY <1>1 DEF ListContext, ListInv, ListComplete, NextOf

(* A replace starts, with a level of the service. *)
LEMMA ListReplaceBegin ==
  ASSUME AllLevels, ListContext, NEW w \in Writers, NEW k \in ReplaceKeys,
         ReplaceBegin(w, k)
  PROVE  ListInv'
<1>0. /\ WriterTypes /\ SharedTypes /\ HeapContext /\ k \in Level
      /\ Linked \subseteq alloc /\ Linked' = Linked
  BY TypeParts, HeapReplaceBegin, LinkedFacts
  DEF ListContext, HeapContext, AllLevels
<1>1. PICK a \in Addr \ alloc :
        /\ nxt' = [nxt EXCEPT ![a] = NULL] /\ lvl' = [lvl EXCEPT ![a] = k]
        /\ wnew' = [wnew EXCEPT ![w] = a]
  BY DEF ReplaceBegin
<1>2. /\ wpc[w] = "idle" /\ wpc' = [wpc EXCEPT ![w] = "lock"]
      /\ wkey' = [wkey EXCEPT ![w] = k]
      /\ UNCHANGED <<head, built, wlock, removed, welem>>
  BY DEF ReplaceBegin
<1>3. \A b \in alloc : nxt'[b] = nxt[b] /\ lvl'[b] = lvl[b]
  BY <1>0, <1>1 DEF SharedTypes
<1>4. \A u \in Writers \ {w} :
        wpc'[u] = wpc[u] /\ wnew'[u] = wnew[u] /\ wkey'[u] = wkey[u]
  BY <1>0, <1>1, <1>2 DEF WriterTypes
<1>5. ListComplete' /\ \A l, p : NextOf(l, p) => NextOf(l, p)'
  BY <1>0, <1>2, <1>3, <1>4, ListSame DEF ListContext
<1>6. ReplaceOnTrack'
  <2>1. \A u \in Writers :
          /\ wpc[u] = "search" => welem[u] \in alloc
          /\ wpc[u] = "fix" => wnew[u] \in alloc
          /\ removed[u] # NULL => removed[u] \in alloc
    BY <1>0 DEF HeapContext, HeapInv, WriterPointers
  <2>2. wpc'[w] = "lock" /\ wkey'[w] = k
    BY <1>0, <1>2 DEF WriterTypes
  <2> QED
    BY <1>0, <1>2, <1>3, <1>4, <1>5, <2>1, <2>2
    DEF ReplaceOnTrack, ListContext, ListInv, Unlinking, UnderLockAfter
<1>7. LockNeverLeaked'
  BY <1>0, <1>2
  DEF ListContext, ListInv, LockNeverLeaked, InSection, WriterTypes, SharedTypes
<1> QED
  BY <1>5, <1>6, <1>7 DEF ListInv

(* Under the lock, or on the way to it, with the list as it is. *)
LEMMA ListMove ==
  ASSUME ListContext, NEW w \in Writers, NEW to, NEW p, NEW lock,
         Linked' = Linked, wpc[w] # "fix",
         wpc' = [wpc EXCEPT ![w] = to],
         welem' = [welem EXCEPT ![w] = p],
         wlock' = lock,
         UNCHANGED <<heap, built, wkey, wnew, removed>>,
         to \in Unlinking => wpc[w] \in Unlinking,
         to = "search" => lvl[p] > wkey[w],
         to \notin {"fix", "rlock", "rscan", "rsearch", "drain"},
         to \in UnderLockAfter => wpc[w] \in UnderLockAfter,
         \/ lock = NULL
         \/ lock = w /\ to \in {"scan", "search", "flip", "grace", "hung"}
  PROVE  ListInv'
<1> USE DEF heap
<1>0. WriterTypes /\ SharedTypes
  BY TypeParts DEF ListContext, HeapContext
<1>1. \A u \in Writers \ {w} : wpc'[u] = wpc[u] /\ welem'[u] = welem[u]
  BY <1>0 DEF WriterTypes
<1>2. wpc'[w] = to /\ welem'[w] = p
  BY <1>0 DEF WriterTypes
<1>3. ListComplete' /\ \A l, q : NextOf(l, q) => NextOf(l, q)'
  <2>1. \A u \in Writers : wpc[u] = "fix" => wpc'[u] = "fix" /\ wnew'[u] = wnew[u]
    BY <1>1
  <2> QED
    BY <2>1, ListSame
<1>4. ReplaceOnTrack'
  BY <1>1, <1>2, <1>3
  DEF ListContext, ListInv, ReplaceOnTrack, Unlinking, UnderLockAfter
<1>5. LockNeverLeaked'
  BY <1>2, ListAssumption DEF LockNeverLeaked, InSection
<1> QED
  BY <1>3, <1>4, <1>5 DEF ListInv

(* The steps of a replace that leave the list as it is. *)
LEMMA ListMoves ==
  ASSUME AllLevels, ListContext, NEW w \in Writers,
         Acquire(w) \/ FlipEpoch(w) \/ SpinForever(w)
  PROVE  ListInv'
<1>0. WriterTypes /\ HeapContext /\ Linked' = Linked
  BY TypeParts, HeapMoves DEF ListContext, HeapContext
<1>1. wpc[w] \notin {"rlock", "drain"} /\ (InSection(w) => wlock = w)
  BY DEF ListContext, HeapContext, ListInv, ReplaceOnTrack, SectionHoldsLock
<1>2. welem = [welem EXCEPT ![w] = welem[w]]
  BY <1>0 DEF WriterTypes
<1>3. CASE Acquire(w)
  BY <1>0, <1>1, <1>2, <1>3, ListMove
  DEF Acquire, ReplaceLock, RemoveLock, WriteLock, Unlinking, UnderLockAfter
<1>4. CASE FlipEpoch(w)
  BY <1>0, <1>1, <1>2, <1>4, ListMove
  DEF FlipEpoch, InSection, Unlinking, UnderLockAfter
<1>5. CASE SpinForever(w)
  BY <1>0, <1>1, <1>2, <1>5, ListMove
  DEF SpinForever, InSection, Unlinking, UnderLockAfter
<1> QED
  BY <1>3, <1>4, <1>5

(* A call that ends, with the list and what the other writers hold as they *)
(* are.                                                                    *)
LEMMA ListEndCall ==
  ASSUME ListContext, NEW w \in Writers, EndCall(w), wpc[w] # "fix",
         Linked' = Linked, UNCHANGED <<head, built>>,
         \A a \in Linked : nxt'[a] = nxt[a] /\ lvl'[a] = lvl[a],
         \A u \in Writers \ {w} : removed[u] # NULL =>
              nxt'[removed[u]] = nxt[removed[u]] /\ lvl'[removed[u]] = lvl[removed[u]],
         wlock' = NULL \/ (wlock' = wlock /\ ~InSection(w))
  PROVE  ListInv'
<1>0. WriterTypes /\ HeapContext
  BY TypeParts DEF ListContext, HeapContext
<1>1. \A u \in Writers \ {w} :
        /\ wpc'[u] = wpc[u] /\ welem'[u] = welem[u] /\ wkey'[u] = wkey[u]
        /\ wnew'[u] = wnew[u] /\ removed'[u] = removed[u]
  BY <1>0 DEF WriterTypes, EndCall
<1>2. wpc'[w] = "idle"
  BY <1>0 DEF WriterTypes, EndCall
<1>3. ListComplete' /\ \A l, q : NextOf(l, q) => NextOf(l, q)'
  <2>1. \A u \in Writers : wpc[u] = "fix" => wpc'[u] = "fix" /\ wnew'[u] = wnew[u]
    BY <1>1
  <2> QED
    BY <2>1, ListSame
<1>4. ReplaceOnTrack'
  <2>1. \A u \in Writers :
          /\ wpc[u] = "search" => welem[u] \in Linked
          /\ wpc[u] = "fix" => wnew[u] \in Linked
    BY <1>0 DEF HeapContext, HeapInv, WriterPointers
  <2> QED
    BY <1>1, <1>2, <1>3, <2>1
    DEF ListContext, ListInv, ReplaceOnTrack, Unlinking, UnderLockAfter
<1>5. LockNeverLeaked'
  BY <1>1, <1>2 DEF ListContext, ListInv, LockNeverLeaked, InSection,
     HeapContext, TypeInv, TypeOK
<1> QED
  BY <1>3, <1>4, <1>5 DEF ListInv

(* The end of the grace period and the free. *)
LEMMA ListEnds ==
  ASSUME AllLevels, ListContext, NEW w \in Writers, GraceEnd(w) \/ FreeRemoved(w)
  PROVE  ListInv'
<1>0. WriterTypes /\ SharedTypes /\ HeapContext
  BY TypeParts DEF ListContext, HeapContext
<1>1. CASE GraceEnd(w) /\ removed[w] # NULL
  <2>1. Linked' = Linked
    BY <1>0, <1>1, HeapMoves
  <2>2. welem = [welem EXCEPT ![w] = welem[w]]
    BY <1>0 DEF WriterTypes
  <2> QED
    BY <1>1, <2>1, <2>2, ListMove DEF GraceEnd, Unlinking, UnderLockAfter
<1>2. CASE GraceEnd(w) /\ removed[w] = NULL
  <2>1. Linked' = Linked /\ wpc[w] = "grace"
    BY <1>0, <1>2, HeapEndCall DEF GraceEnd, Unlinking
  <2> QED
    BY <1>2, <2>1, ListEndCall DEF GraceEnd, heap
<1>3. CASE FreeRemoved(w)
  <2>1. Linked' = Linked /\ wpc[w] = "free" /\ removed[w] # NULL
    BY <1>0, <1>3, HeapFree
    DEF FreeRemoved, HeapContext, HeapInv, WriterPointers
  <2>2. \A a \in Addr \ {removed[w]} : nxt'[a] = nxt[a] /\ lvl'[a] = lvl[a]
    BY <1>0, <1>3 DEF FreeRemoved, SharedTypes
  <2>3. \A a \in Linked : a \in Addr \ {removed[w]}
    BY <1>0, LinkedFacts
  <2>4. \A u \in Writers \ {w} : removed[u] # NULL =>
           removed[u] \in Addr \ {removed[w]}
    BY <1>0, <2>1 DEF WriterTypes, Ptr, HeapContext, HeapInv, WritersApart
  <2> QED
    BY <1>3, <2>1, <2>2, <2>3, <2>4, ListEndCall DEF FreeRemoved, InSection
<1> QED
  BY <1>1, <1>2, <1>3

(* The traversal of a replace that goes on: its level is further on. *)
LEMMA ListSearchMoves ==
  ASSUME AllLevels, ListContext, NEW w \in Writers,
         \/ ReplaceScan(w) /\ ~ReplaceHead(w)
         \/ ReplaceSearch(w) /\ ~LinkAfter(w, welem[w])
  PROVE  /\ ListInv' /\ Linked' = Linked
         /\ wpc[w] \in {"scan", "search"}
         /\ wpc' = [wpc EXCEPT ![w] = "search"]
         /\ UNCHANGED <<heap, epoch, built, wnew, removed, graceEpoch, strayed>>
<1>0. /\ WriterTypes /\ SharedTypes /\ HeapContext /\ wlock = w /\ Published
      /\ NULL \notin Linked
  BY TypeParts, InCallPublished, LinkedFacts
  DEF ListContext, HeapContext, HeapInv, SectionHoldsLock, InSection,
      ReplaceScan, ReplaceSearch
<1>1. wkey[w] \in Level /\ built = levelDeep /\ levelDeep \in Nat \ {0}
  BY <1>0, ListAssumption
  DEF ListContext, ListInv, ReplaceOnTrack, Unlinking, ReplaceScan,
      ReplaceSearch, Published
<1>2. CASE ReplaceScan(w) /\ ~ReplaceHead(w)
  <2>1. head \in Linked /\ lvl[head] = levelDeep - 1
    BY <1>1 DEF ListContext, ListInv, ListComplete
  <2>2. lvl[head] # wkey[w] /\ head # NULL
    BY <1>0, <1>2, <2>1 DEF ReplaceScan, ReplaceHead, ReturnLocked
  <2>3. lvl[head] > wkey[w]
    BY <1>1, <2>1, <2>2 DEF Level
  <2>4. Linked' = Linked
    BY <1>0, <1>2, <2>2, HeapMoves
  <2>5. /\ wpc[w] = "scan" /\ wpc' = [wpc EXCEPT ![w] = "search"]
        /\ welem' = [welem EXCEPT ![w] = head]
        /\ UNCHANGED <<heap, built, wlock, wkey, wnew, removed>>
        /\ UNCHANGED <<epoch, graceEpoch, strayed>>
    BY <1>2, <2>2 DEF ReplaceScan, ReplaceHead, history
  <2> QED
    BY <1>0, <2>3, <2>4, <2>5, ListMove DEF Unlinking, UnderLockAfter
<1>3. CASE ReplaceSearch(w) /\ ~LinkAfter(w, welem[w])
  <2> DEFINE elem == welem[w]
  <2>1. wpc[w] = "search" /\ elem \in Linked /\ lvl[elem] > wkey[w]
    BY <1>0, <1>3
    DEF ReplaceSearch, HeapContext, HeapInv, WriterPointers, ListContext,
        ListInv, ReplaceOnTrack
  <2>2. \A u \in Writers : wpc[u] # "fix"
    BY <1>0, <2>1, Alone DEF HeapContext, InSection
  <2>3. NextOf(lvl[elem], nxt[elem])
    BY <2>1, <2>2 DEF ListContext, ListInv, ListComplete
  <2>4. lvl[elem] \in Int /\ wkey[w] >= 0 /\ wkey[w] \in Int
    BY <1>0, <1>1, <2>1, LinkedFacts DEF SharedTypes, Level
  <2>5. nxt[elem] \in Linked /\ lvl[nxt[elem]] = lvl[elem] - 1
    BY <2>1, <2>3, <2>4 DEF NextOf
  <2>6. lvl[nxt[elem]] # wkey[w] /\ nxt[elem] # NULL
    BY <1>0, <1>3, <2>5 DEF ReplaceSearch, LinkAfter, ReturnLocked
  <2>7. lvl[nxt[elem]] > wkey[w]
    BY <2>1, <2>4, <2>5, <2>6
  <2>8. Linked' = Linked
    BY <1>0, <1>3, <2>6, HeapSearchMoves
  <2>9. /\ wpc' = [wpc EXCEPT ![w] = "search"]
        /\ welem' = [welem EXCEPT ![w] = nxt[elem]]
        /\ UNCHANGED <<heap, built, wlock, wkey, wnew, removed>>
        /\ UNCHANGED <<epoch, graceEpoch, strayed>>
    BY <1>0, <1>3, <2>1, <2>6
    DEF ReplaceSearch, LinkAfter, WriterTypes, history
  <2> QED
    BY <1>0, <2>1, <2>7, <2>8, <2>9, ListMove DEF Unlinking, UnderLockAfter
<1> QED
  BY <1>2, <1>3

(* A new element in the place of the old one, of the same level.           *)
LEMMA ListSwap ==
  ASSUME ListContext, NEW old \in Linked, NEW new \in Addr \ Linked,
         Linked' = (Linked \ {old}) \cup {new},
         lvl[new] = lvl[old], UNCHANGED <<built, lvl>>,
         head' = IF head = old THEN new ELSE head,
         \A a \in Linked' : \/ NextOf(lvl[a], nxt[a])'
                           \/ \E w \in Writers : wpc'[w] = "fix" /\ wnew'[w] = a
  PROVE  ListComplete'
<1>0. ListComplete /\ built \in Nat
  BY TypeParts DEF ListContext, ListInv, HeapContext, SharedTypes
<1>1. \A k \in 0 .. built' - 1 : \E b \in Linked' : lvl'[b] = k
  <2> SUFFICES ASSUME NEW k \in 0 .. built - 1
               PROVE  \E b \in Linked' : lvl[b] = k
    OBVIOUS
  <2>1. PICK b \in Linked : lvl[b] = k
    BY <1>0 DEF ListComplete
  <2> QED
    BY <2>1
<1>2. \A b \in Linked' : lvl'[b] \in 0 .. built' - 1
  BY <1>0 DEF ListComplete
<1>3. \A b, c \in Linked' : lvl'[b] = lvl'[c] => b = c
  BY <1>0 DEF ListComplete
<1>4. IF built' = 0 THEN head' = NULL
      ELSE head' \in Linked' /\ lvl'[head'] = built' - 1
  BY <1>0, LinkedFacts DEF ListComplete, ListContext
<1> QED
  BY <1>1, <1>2, <1>3, <1>4 DEF ListComplete

(* 172-178: the head is replaced. *)
LEMMA ListReplaceHead ==
  ASSUME AllLevels, ListContext, NEW w \in Writers, ReplaceScan(w),
         ReplaceHead(w)
  PROVE  ListInv'
<1> DEFINE old == head
           new == wnew[w]
<1>0. /\ WriterTypes /\ SharedTypes /\ HeapContext /\ wlock = w
      /\ wpc[w] = "scan"
  BY TypeParts
  DEF ListContext, HeapContext, SectionHoldsLock, InSection, ReplaceScan
<1>1. /\ wpc' = [wpc EXCEPT ![w] = "flip"]
      /\ nxt' = [nxt EXCEPT ![new] = nxt[old]]
      /\ head' = new /\ old # NULL /\ lvl[old] = wkey[w]
      /\ UNCHANGED <<wlock, built, lvl, wkey, wnew, welem>>
  BY DEF ReplaceHead, ReplaceScan
<1>2. Linked' = (Linked \ {old}) \cup {new}
  BY <1>0, HeapReplaceHead DEF ReplaceScan
<1>3. /\ old \in Linked /\ new \in Addr \ Linked /\ lvl[new] = lvl[old]
      /\ \A a \in Linked : nxt[a] # old
  BY <1>0, <1>1, LinkedFacts
  DEF HeapContext, HeapInv, HeapClosed, WriterPointers, LevelsDescend,
      LinkedOrNull, Unlinking, SharedTypes
<1>4. \A u \in Writers \ {w} : wpc[u] \in {"idle", "lock", "rlock", "free"}
  BY <1>0, Alone DEF HeapContext, InSection
<1>5. \A a \in Linked : NextOf(lvl[a], nxt[a])
  BY <1>0, <1>4 DEF ListContext, ListInv, ListComplete
<1>6. \A a \in Linked' : NextOf(lvl[a], nxt[a])'
  <2>1. \A a \in Linked : nxt'[a] = nxt[a] /\ lvl'[a] = lvl[a]
    BY <1>0, <1>1, <1>3, LinkedFacts DEF SharedTypes
  <2>2. nxt'[new] = nxt[old] /\ lvl'[new] = lvl[old]
    BY <1>0, <1>1, <1>3 DEF SharedTypes
  <2>3. \A a \in Linked : nxt[a] \in Linked =>
           nxt[a] \in Linked' /\ lvl'[nxt[a]] = lvl[nxt[a]]
    BY <1>1, <1>2, <1>3
  <2> QED
    BY <1>2, <1>3, <1>5, <2>1, <2>2, <2>3 DEF NextOf
<1>7. ListComplete'
  <2>1. head' = IF head = old THEN new ELSE head
    BY <1>1
  <2> QED
    BY <1>1, <1>2, <1>3, <1>6, <2>1, ListSwap
<1>8. \A u \in Writers \ {w} :
        /\ wpc'[u] = wpc[u] /\ wkey'[u] = wkey[u]
  BY <1>0, <1>1 DEF WriterTypes
<1>9. wpc'[w] = "flip"
  BY <1>0, <1>1 DEF WriterTypes
<1>10. ReplaceOnTrack'
  <2>1. NextOf(lvl[removed[w]], nxt[removed[w]])'
    <3>1. /\ old \in Linked /\ old \in Addr /\ new # old /\ nxt[old] # old
          /\ removed'[w] = old
      BY <1>0, <1>3, LinkedFacts DEF WriterTypes, ReplaceHead, ReplaceScan
    <3>2. nxt'[old] = nxt[old] /\ UNCHANGED lvl
      BY <1>0, <1>1, <3>1 DEF SharedTypes
    <3> QED
      BY <1>2, <1>5, <3>1, <3>2 DEF NextOf
  <2> QED
    BY <1>4, <1>8, <1>9, <2>1
    DEF ListContext, ListInv, ReplaceOnTrack, Unlinking, UnderLockAfter
<1>11. LockNeverLeaked'
  BY <1>0, <1>1, <1>9 DEF LockNeverLeaked, InSection
<1> QED
  BY <1>7, <1>10, <1>11 DEF ListInv

(* 184-188: the predecessor gets the new element, which leads nowhere yet. *)
LEMMA ListLinkAfter ==
  ASSUME AllLevels, ListContext, NEW w \in Writers, ReplaceSearch(w),
         LinkAfter(w, welem[w])
  PROVE  ListInv'
<1>d. PICK elem, old, new : elem = welem[w] /\ old = nxt[elem] /\ new = wnew[w]
  OBVIOUS
<1> USE <1>d
<1>0. /\ WriterTypes /\ SharedTypes /\ HeapContext /\ wlock = w
      /\ wpc[w] = "search"
  BY TypeParts
  DEF ListContext, HeapContext, SectionHoldsLock, InSection, ReplaceSearch
<1>1. /\ wpc' = [wpc EXCEPT ![w] = "fix"]
      /\ nxt' = [nxt EXCEPT ![elem] = new]
      /\ removed' = [removed EXCEPT ![w] = old]
      /\ old # NULL /\ lvl[old] = wkey[w]
      /\ UNCHANGED <<head, wlock, built, lvl, wkey, wnew, welem>>
  BY DEF LinkAfter, ReplaceSearch
<1>2. Linked' = (Linked \ {old}) \cup {new} /\ old # elem
  BY <1>0, HeapLinkAfter DEF ReplaceSearch
<1>3. /\ elem \in Linked /\ old \in Linked /\ new \in Addr \ Linked
      /\ lvl[new] = lvl[old] /\ nxt[new] = NULL /\ head # old
      /\ \A a \in Linked \ {elem} : nxt[a] # old
  BY <1>0, <1>1, LinkedFacts
  DEF HeapContext, HeapInv, HeapClosed, WriterPointers, LevelsDescend,
      LinkedOrNull, Unlinking, SharedTypes
<1>4. \A u \in Writers \ {w} : wpc[u] \in {"idle", "lock", "rlock", "free"}
  BY <1>0, Alone DEF HeapContext, InSection
<1>5. \A a \in Linked : NextOf(lvl[a], nxt[a])
  BY <1>0, <1>4 DEF ListContext, ListInv, ListComplete
<1>6. /\ \A u \in Writers \ {w} : wpc'[u] = wpc[u] /\ wkey'[u] = wkey[u]
      /\ wpc'[w] = "fix" /\ wnew'[w] = new /\ removed'[w] = old
  BY <1>0, <1>1 DEF WriterTypes
<1>7. /\ \A a \in Addr \ {elem} : nxt'[a] = nxt[a]
      /\ nxt'[elem] = new
  BY <1>0, <1>1, <1>3, LinkedFacts DEF SharedTypes
<1>8. \A a \in Linked' : a # new => NextOf(lvl[a], nxt[a])'
  <2>1. NextOf(lvl[elem], nxt[elem])'
    <3>1. lvl[elem] > 0 /\ lvl[new] = lvl[elem] - 1
      BY <1>1, <1>3, <1>5 DEF NextOf
    <3> QED
      BY <1>1, <1>2, <1>7, <3>1 DEF NextOf
  <2>2. ASSUME NEW a \in Linked \ {elem, old}
        PROVE  NextOf(lvl[a], nxt[a])'
    BY <1>1, <1>2, <1>3, <1>5, <1>7, LinkedFacts DEF NextOf
  <2> QED
    BY <1>2, <2>1, <2>2 DEF NextOf
<1>9. ListComplete'
  <2>1. head' = IF head = old THEN new ELSE head
    BY <1>1, <1>3
  <2>2. \A a \in Linked' : \/ NextOf(lvl[a], nxt[a])'
                           \/ \E u \in Writers : wpc'[u] = "fix" /\ wnew'[u] = a
    BY <1>6, <1>8
  <2> QED
    BY <1>1, <1>2, <1>3, <2>1, <2>2, ListSwap
<1>10. ReplaceOnTrack'
  <2>1. NextOf(lvl[old], nxt[old])'
    <3>1. nxt[old] # old
      BY <1>2, <1>3
    <3>2. old \in Addr
      BY <1>0, <1>3, LinkedFacts
    <3> QED
      BY <1>1, <1>2, <1>3, <1>5, <1>7, <3>1, <3>2 DEF NextOf
  <2>2. nxt'[new] = NULL
    BY <1>3, <1>7
  <2> QED
    BY <1>4, <1>6, <2>1, <2>2
    DEF ListContext, ListInv, ReplaceOnTrack, Unlinking, UnderLockAfter
<1>11. LockNeverLeaked'
  BY <1>0, <1>1, <1>6 DEF LockNeverLeaked, InSection
<1> QED
  BY <1>9, <1>10, <1>11 DEF ListInv

(* 189: the new element gets its next. *)
LEMMA ListReplaceFix ==
  ASSUME AllLevels, ListContext, NEW w \in Writers, ReplaceFix(w)
  PROVE  ListInv'
<1> DEFINE old == removed[w]
           new == wnew[w]
<1>0. /\ WriterTypes /\ SharedTypes /\ HeapContext /\ wlock = w
      /\ wpc[w] = "fix"
  BY TypeParts
  DEF ListContext, HeapContext, SectionHoldsLock, InSection, ReplaceFix
<1>1. /\ wpc' = [wpc EXCEPT ![w] = "flip"]
      /\ nxt' = [nxt EXCEPT ![new] = nxt[old]]
      /\ UNCHANGED <<head, wlock, built, lvl, wkey, wnew, welem, removed>>
  BY DEF ReplaceFix, RelinkedNext
<1>2. Linked' = Linked
  BY <1>0, HeapReplaceFix
<1>3. /\ new \in Linked /\ new \in Addr /\ lvl[new] = lvl[old]
      /\ NextOf(lvl[old], nxt[old])
  BY <1>0, LinkedFacts
  DEF HeapContext, HeapInv, WriterPointers, LevelsDescend, ListContext,
      ListInv, ReplaceOnTrack, UnderLockAfter
<1>4. \A u \in Writers \ {w} : wpc[u] \in {"idle", "lock", "rlock", "free"}
  BY <1>0, Alone DEF HeapContext, InSection
<1>5. \A a \in Linked \ {new} : NextOf(lvl[a], nxt[a])
  BY <1>0, <1>4 DEF ListContext, ListInv, ListComplete
<1>6. \A a \in Linked' : NextOf(lvl[a], nxt[a])'
  <2>1. /\ nxt'[new] = nxt[old]
        /\ \A a \in Linked \ {new} : nxt'[a] = nxt[a]
    BY <1>0, <1>1, <1>3, LinkedFacts DEF SharedTypes
  <2> QED
    BY <1>1, <1>2, <1>3, <1>5, <2>1 DEF NextOf
<1>7. ListComplete'
  BY <1>1, <1>2, <1>6 DEF ListContext, ListInv, ListComplete
<1>8. /\ \A u \in Writers \ {w} : wpc'[u] = wpc[u] /\ wkey'[u] = wkey[u]
      /\ wpc'[w] = "flip"
  BY <1>0, <1>1 DEF WriterTypes
<1>9. ReplaceOnTrack'
  <2>1. NextOf(lvl[old], nxt[old])'
    <3>1. old \in Addr /\ old # new
      BY <1>0, <1>3, LinkedFacts DEF WriterTypes, Ptr
    <3>2. nxt'[old] = nxt[old]
      BY <1>0, <1>1, <3>1 DEF SharedTypes
    <3> QED
      BY <1>1, <1>2, <1>3, <3>2 DEF NextOf
  <2>2. removed' = removed
    BY <1>1
  <2> QED
    BY <1>4, <1>8, <2>1, <2>2
    DEF ListContext, ListInv, ReplaceOnTrack, Unlinking, UnderLockAfter
<1>10. LockNeverLeaked'
  BY <1>0, <1>1, <1>8 DEF LockNeverLeaked, InSection
<1> QED
  BY <1>7, <1>9, <1>10 DEF ListInv

(* Every step. *)
LEMMA ListNext ==
  ASSUME AllLevels, ListContext, [Next]_vars
  PROVE  ListInv'
<1>1. CASE Insert
  BY <1>1, ListInsert
<1>2. CASE InsertFails
  BY <1>2 DEF InsertFails, AllLevels
<1>3. ASSUME UNCHANGED <<heap, built, wlock, writerVars>>
      PROVE  ListInv'
  <2>1. Linked' = Linked
    BY <1>3 DEF Linked, Unlinked, BeingRemoved, heap, writerVars
  <2> QED
    BY <1>3, <2>1
    DEF ListContext, ListInv, ListComplete, ReplaceOnTrack, LockNeverLeaked,
        InSection, NextOf, heap, writerVars
<1>4. ASSUME NEW r \in Readers, ReaderStep(r) PROVE ListInv'
  BY <1>3, <1>4
  DEF ReaderStep, InSearch, SearchBegin, WaitInterrupted, Register, ReadHead,
      Visit, Deregister, UseElement
<1>5. CASE UNCHANGED vars
  BY <1>3, <1>5 DEF vars
<1>6. ASSUME NEW w \in Writers, WriterStep(w) PROVE ListInv'
  <2>1. /\ ~ \E k \in RemoveKeys : RemoveBegin(w, k)
        /\ ~RemoveScan(w) /\ ~RemoveSearch(w) /\ ~RemoveDrain(w)
    BY DEF AllLevels, ListContext, ListInv, ReplaceOnTrack, RemoveScan,
           RemoveSearch, RemoveDrain
  <2>2. CASE ReplaceScan(w)
    BY <2>2, ListSearchMoves, ListReplaceHead
  <2>3. CASE ReplaceSearch(w)
    BY <2>3, ListSearchMoves, ListLinkAfter
  <2> QED
    BY <1>6, <2>1, <2>2, <2>3, ListReplaceBegin, ListMoves, ListEnds,
       ListReplaceFix DEF WriterStep, UnderLock
<1> QED
  BY <1>1, <1>2, <1>4, <1>5, <1>6 DEF Next

(* The invariant behind the next two theorems, as long as every key is a   *)
(* level that has its element.                                             *)
THEOREM ListInvariant == AllLevels => (Spec => []ListInv)
<1> SUFFICES ASSUME AllLevels PROVE Spec => []ListInv
  OBVIOUS
<1>1. TypeInv /\ SectionHoldsLock /\ HeapInv /\ ListInv /\ [Next]_vars => ListInv'
  BY ListNext DEF ListContext, HeapContext
<1> QED
  BY <1>1, ListInit, TypeInvariant, WriterExclusion, HeapInvariant, PTL
  DEF Spec

(* No replace reaches the returns of 176 and 196, which keep write_lock.   *)
THEOREM LockComesBack == AllLevels => (Spec => []LockNeverLeaked)
<1>1. ListInv => LockNeverLeaked
  BY DEF ListInv
<1> QED
  BY <1>1, ListInvariant, PTL

(* A search of a published service finds one element per level, the        *)
(* highest first, at whatever step the writers are; its one gap is behind  *)
(* the element that a replace has linked and not completed (188).          *)
THEOREM ListStaysIntact == AllLevels => (Spec => []ListIntact)
<1>1. TypeInv /\ HeapInv /\ ListInv => ListIntact
  <2> SUFFICES ASSUME TypeInv, HeapInv, ListInv, Published PROVE ListIntact
    BY DEF ListIntact
  <2>0. SharedTypes /\ built = levelDeep /\ levelDeep \in Nat \ {0}
    BY TypeParts, ListAssumption DEF Published
  <2>1. Linked \subseteq alloc /\ Linked \subseteq Addr
    BY <2>0 DEF Linked, SharedTypes
  <2> DEFINE f == [k \in Level |-> CHOOSE a \in Linked : lvl[a] = k]
  <2>2. \A k \in Level : f[k] \in Linked /\ lvl[f[k]] = k
    BY <2>0 DEF ListInv, ListComplete, Level
  <2>3. \A a \in Linked : lvl[a] \in Level /\ a = f[lvl[a]]
    BY <2>0, <2>2 DEF ListInv, ListComplete, Level
  <2> HIDE DEF f
  <2>4. f \in [Level -> Addr]
    BY <2>1, <2>2 DEF f
  <2>5. head = f[levelDeep - 1]
    BY <2>0, <2>3 DEF ListInv, ListComplete
  <2>6. nxt[f[0]] = NULL
    <3>1. 0 \in Level
      BY <2>0 DEF Level
    <3>2. CASE NextOf(lvl[f[0]], nxt[f[0]])
      BY <2>2, <3>1, <3>2 DEF NextOf
    <3>3. CASE \E w \in Writers : wpc[w] = "fix" /\ wnew[w] = f[0]
      BY <3>3 DEF ListInv, ReplaceOnTrack
    <3> QED
      BY <2>2, <3>1, <3>2, <3>3 DEF ListInv, ListComplete
  <2>7. ASSUME NEW k \in Level
        PROVE  /\ f[k] \in alloc /\ lvl[f[k]] = k
               /\ \/ k = 0 \/ nxt[f[k]] = f[k - 1]
                  \/ \E w \in Writers : wpc[w] = "fix" /\ wnew[w] = f[k]
    <3>1. f[k] \in Linked /\ lvl[f[k]] = k /\ f[k] \in alloc
      BY <2>1, <2>2
    <3>2. CASE NextOf(lvl[f[k]], nxt[f[k]])
      <4>1. k = 0 \/ (nxt[f[k]] \in Linked /\ lvl[nxt[f[k]]] = k - 1)
        BY <3>1, <3>2 DEF NextOf
      <4> QED
        BY <2>3, <3>1, <4>1
    <3> QED
      BY <3>1, <3>2 DEF ListInv, ListComplete
  <2> QED
    BY <2>4, <2>5, <2>6, <2>7 DEF ListIntact
<1> QED
  BY <1>1, ListInvariant, TypeInvariant, HeapInvariant, PTL

-----------------------------------------------------------------------------
(* Where the searches are when no signal ends a wait *)

Uninterrupted == \A e \in Epochs : interrupted[e] = 0

\* A writer waits for the epoch before the current one.
GraceIsForLast == \A w \in Writers : wpc[w] = "grace" => graceEpoch[w] # epoch

\* The elements a search may be on, as long as the one it was on is not freed.
Reachable == LinkedOrNull \cup {removed[w] : w \in Writers}

SearchPlaced(r) ==
  r \notin strayed /\ rpc[r] \in {"visit", "exit", "use"} => rp[r] \in Reachable

\* A search on an element that is about to be freed came late; but the replace
\* that unlinks the element behind that one waits for it.
SearchCovered(r) ==
  r \notin strayed /\ rpc[r] = "visit" =>
    \A w \in Writers : wpc[w] = "free" /\ rp[r] = removed[w] =>
      /\ EpochOpen(myEpoch[r])
      /\ nxt[removed[w]] \in LinkedOrNull \cup Withdrawn(myEpoch[r])

\* The level of a search that is on time is in front of it.
SearchInFront(r) == r \notin late /\ rpc[r] = "visit" => lvl[rp[r]] >= rkey[r]

LateRegistered(r) == r \in late => rpc[r] \in {"head", "visit", "exit", "use"}

SearchSound(r) == /\ SearchPlaced(r) /\ SearchCovered(r) /\ SearchInFront(r)
                  /\ LateRegistered(r)

SearchInv == /\ Uninterrupted /\ GraceIsForLast
             /\ \A r \in Readers : SearchSound(r)

SearchContext == ListContext /\ StandingAccounting /\ ReadersInv /\ SearchInv

(* What a search may be on is an element, unless it is NULL. *)
LEMMA ReachableFacts ==
  ASSUME HeapContext
  PROVE  /\ Linked \subseteq alloc /\ alloc \subseteq Addr /\ NULL \notin alloc
         /\ Reachable \subseteq alloc \cup {NULL}
<1>1. SharedTypes /\ NULL \notin Addr
  BY TypeParts, ListAssumption DEF HeapContext
<1>2. Linked \subseteq alloc /\ alloc \subseteq Addr
  BY <1>1 DEF Linked, SharedTypes
<1>3. \A w \in Writers : removed[w] \in alloc \cup {NULL}
  BY DEF HeapContext, HeapInv, WriterPointers
<1> QED
  BY <1>1, <1>2, <1>3 DEF Reachable, LinkedOrNull

(* A search that is on time is in the list, or on an element whose writer  *)
(* is to wait for it.                                                      *)
LEMMA OnTimePlaced ==
  ASSUME SearchContext, NEW r \in Readers \ late, rpc[r] \in {"visit", "exit"}
  PROVE  /\ r \notin strayed
         /\ rp[r] \in LinkedOrNull \cup Withdrawn(myEpoch[r])
<1>1. ReaderTypes /\ SharedTypes
  BY TypeParts DEF SearchContext, ListContext, HeapContext
<1>2. myEpoch[r] \in Epochs /\ interrupted[myEpoch[r]] = 0
  BY <1>1 DEF ReaderTypes, SearchContext, SearchInv, Uninterrupted
<1>3. OnTime(r)
  BY <1>2 DEF OnTime
<1>4. r \notin strayed
  BY <1>2 DEF SearchContext, ReadersInv, OnTimeReadersProtected
<1> QED
  BY <1>3, <1>4 DEF SearchContext, ReadersInv, OnTimeOnList

(* What a step of a writer leaves as it is. *)
LEMMA WriterKeeps ==
  ASSUME HeapContext, NEW w \in Writers, WriterStep(w)
  PROVE  /\ \A a \in alloc : \/ FreeRemoved(w) /\ a = removed[w]
                             \/ a \in alloc' /\ lvl'[a] = lvl[a]
         /\ \A u \in Writers \ {w} : removed[u] # NULL =>
              nxt'[removed[u]] = nxt[removed[u]]
         /\ removed[w] # NULL => removed'[w] = removed[w] \/ FreeRemoved(w)
         /\ UNCHANGED <<rpc, rkey, myEpoch, rp, late, interrupted, built>>
         /\ strayed' = strayed \/ FreeRemoved(w)
<1>0. /\ WriterTypes /\ SharedTypes /\ HeapInv /\ Linked \subseteq alloc
      /\ alloc \subseteq Addr
  BY TypeParts, ReachableFacts DEF HeapContext
<1>1. ASSUME NEW a \in alloc
      PROVE  \/ FreeRemoved(w) /\ a = removed[w]
             \/ a \in alloc' /\ lvl'[a] = lvl[a]
  <2>1. CASE \E k \in ReplaceKeys : ReplaceBegin(w, k)
    BY <1>0, <2>1 DEF ReplaceBegin, SharedTypes
  <2>2. CASE FreeRemoved(w)
    BY <1>0, <2>2 DEF FreeRemoved, SharedTypes
  <2>3. CASE ~FreeRemoved(w) /\ ~ \E k \in ReplaceKeys : ReplaceBegin(w, k)
    <3>1. UNCHANGED <<alloc, lvl>>
      BY <2>3
      DEF WriterStep, UnderLock, Acquire, RemoveBegin, ReplaceLock, RemoveLock,
          WriteLock, ReplaceScan, ReplaceHead, ReturnLocked, ReplaceSearch,
          LinkAfter, ReplaceFix, RemoveScan, RemoveSearch, RemoveDrain,
          FlipEpoch, GraceEnd, SpinForever, heap
    <3> QED
      BY <3>1
  <2> QED
    BY <2>1, <2>2, <2>3
<1>2. ASSUME NEW u \in Writers \ {w}, removed[u] # NULL
      PROVE  nxt'[removed[u]] = nxt[removed[u]]
  <2>1. /\ removed[u] \in alloc /\ removed[u] \in Addr /\ removed[u] \notin Linked
        /\ removed[u] # removed[w]
        /\ wpc[w] \in Unlinking => removed[u] # wnew[w]
    BY <1>0, <1>2, LinkedFacts
    DEF HeapContext, HeapInv, WriterPointers, WritersApart
  <2>2. CASE \E k \in ReplaceKeys : ReplaceBegin(w, k)
    BY <1>0, <2>1, <2>2 DEF ReplaceBegin, SharedTypes
  <2>3. CASE FreeRemoved(w)
    BY <1>0, <2>1, <2>3 DEF FreeRemoved, SharedTypes
  <2>4. CASE ReplaceScan(w)
    BY <1>0, <2>1, <2>4
    DEF ReplaceScan, ReplaceHead, ReturnLocked, heap, SharedTypes, Unlinking
  <2>5. CASE ReplaceSearch(w) \/ RemoveSearch(w)
    <3>1. welem[w] \in Linked
      BY <1>0, <2>5 DEF HeapInv, WriterPointers, ReplaceSearch, RemoveSearch
    <3>2. CASE ReplaceSearch(w)
      BY <1>0, <2>1, <3>1, <3>2
      DEF ReplaceSearch, LinkAfter, ReturnLocked, heap, SharedTypes
    <3>3. CASE RemoveSearch(w)
      BY <1>0, <2>1, <3>1, <3>3 DEF RemoveSearch, SharedTypes
    <3> QED
      BY <2>5, <3>2, <3>3
  <2>6. CASE ReplaceFix(w)
    <3>1. wnew[w] \in Linked
      BY <1>0, <2>6 DEF HeapInv, WriterPointers, ReplaceFix
    <3> QED
      BY <1>0, <2>1, <2>6, <3>1 DEF ReplaceFix, SharedTypes
  <2>7. CASE \/ \E k \in RemoveKeys : RemoveBegin(w, k)
             \/ Acquire(w) \/ RemoveScan(w) \/ RemoveDrain(w) \/ FlipEpoch(w)
             \/ GraceEnd(w) \/ SpinForever(w)
    <3>1. nxt' = nxt
      BY <2>7
      DEF RemoveBegin, Acquire, ReplaceLock, RemoveLock, WriteLock, RemoveScan,
          RemoveDrain, FlipEpoch, GraceEnd, SpinForever, heap
    <3> QED
      BY <3>1
  <2> QED
    BY <2>2, <2>3, <2>4, <2>5, <2>6, <2>7 DEF WriterStep, UnderLock
<1>3. removed[w] # NULL => removed'[w] = removed[w] \/ FreeRemoved(w)
  <2> SUFFICES ASSUME removed[w] # NULL, ~FreeRemoved(w)
               PROVE  removed'[w] = removed[w]
    OBVIOUS
  <2>1. wpc[w] \notin BeforeUnlink
    BY <1>0 DEF HeapInv, WriterPointers
  <2> QED
    BY <1>0, <2>1
    DEF WriterTypes, WriterStep, UnderLock, Acquire, ReplaceBegin, RemoveBegin,
        ReplaceLock, RemoveLock, WriteLock, ReplaceScan, ReplaceSearch,
        ReplaceFix, RemoveScan, RemoveSearch, RemoveDrain, FlipEpoch, GraceEnd,
        SpinForever, BeforeUnlink
<1>4. /\ UNCHANGED <<rpc, rkey, myEpoch, rp, late, interrupted, built>>
      /\ strayed' = strayed \/ FreeRemoved(w)
  BY DEF WriterStep, UnderLock, Acquire, ReplaceBegin, RemoveBegin,
      ReplaceLock, RemoveLock, WriteLock, ReplaceScan, ReplaceSearch,
      ReplaceFix, RemoveScan, RemoveSearch, RemoveDrain, FlipEpoch, GraceEnd,
      SpinForever, FreeRemoved, readerVars, history
<1> QED
  BY <1>1, <1>2, <1>3, <1>4

(* A search never sees two epochs pass without one writer waiting for it.  *)
LEMMA GraceIsForLastNext ==
  ASSUME HeapContext, GraceIsForLast, [Next]_vars
  PROVE  GraceIsForLast'
<1>0. WriterTypes /\ SharedTypes
  BY TypeParts DEF HeapContext
<1>1. ASSUME NEW w \in Writers, WriterStep(w) PROVE GraceIsForLast'
  <2>1. \A u \in Writers \ {w} : wpc'[u] = wpc[u] /\ graceEpoch'[u] = graceEpoch[u]
    BY <1>1, WriterLeaves
  <2>2. CASE FlipEpoch(w)
    <3>1. \A u \in Writers \ {w} : wpc[u] # "grace"
      BY <2>2, Alone DEF HeapContext, InSection, FlipEpoch
    <3>2. graceEpoch'[w] = epoch /\ epoch' # epoch
      BY <1>0, <2>2 DEF FlipEpoch, Flipped, WriterTypes, SharedTypes, Epochs
    <3> QED
      BY <2>1, <3>1, <3>2 DEF GraceIsForLast
  <2>3. CASE ~FlipEpoch(w)
    <3>1. wpc'[w] # "grace" /\ epoch' = epoch
      BY <1>0, <1>1, <2>3
      DEF WriterTypes, WriterStep, UnderLock, Acquire, ReplaceBegin,
          RemoveBegin, ReplaceLock, RemoveLock, WriteLock, ReplaceScan,
          ReplaceHead, ReturnLocked, ReplaceSearch, LinkAfter, ReplaceFix,
          RemoveScan, RemoveSearch, RemoveDrain, GraceEnd, SpinForever,
          FreeRemoved, EndCall
    <3> QED
      BY <2>1, <3>1 DEF GraceIsForLast
  <2> QED
    BY <2>2, <2>3
<1>2. CASE Insert \/ InsertFails
  BY <1>2
  DEF Insert, InsertFails, writerVars, GraceIsForLast, HeapContext, HeapInv,
      BeginsPublished
<1>3. ASSUME UNCHANGED <<epoch, writerVars>> PROVE GraceIsForLast'
  BY <1>3 DEF GraceIsForLast, writerVars
<1>4. ASSUME NEW r \in Readers, ReaderStep(r) PROVE GraceIsForLast'
  BY <1>3, <1>4
  DEF ReaderStep, InSearch, SearchBegin, WaitInterrupted, Register, ReadHead,
      Visit, Deregister, UseElement
<1>5. CASE UNCHANGED vars
  BY <1>3, <1>5 DEF vars
<1> QED
  BY <1>1, <1>2, <1>4, <1>5 DEF Next

(* Without signals no wait is interrupted. *)
LEMMA UninterruptedNext ==
  ASSUME MaxInterrupts = 0, Uninterrupted, [Next]_vars
  PROVE  Uninterrupted'
<1>1. ASSUME NEW r \in Readers PROVE ~WaitInterrupted(r)
  BY DEF WaitInterrupted, Uninterrupted, Epochs
<1>2. interrupted' = interrupted
  <2>1. ASSUME NEW r \in Readers, ReaderStep(r) PROVE interrupted' = interrupted
    BY <1>1, <2>1
    DEF ReaderStep, InSearch, SearchBegin, Register, ReadHead, Visit,
        Deregister, UseElement, history
  <2>2. ASSUME NEW w \in Writers, WriterStep(w) PROVE interrupted' = interrupted
    BY <2>2
    DEF WriterStep, UnderLock, Acquire, ReplaceBegin, RemoveBegin,
        ReplaceLock, RemoveLock, WriteLock, ReplaceScan, ReplaceSearch,
        ReplaceFix, RemoveScan, RemoveSearch, RemoveDrain, FlipEpoch, GraceEnd,
        SpinForever, FreeRemoved, history
  <2> QED
    BY <2>1, <2>2 DEF Next, Insert, InsertFails, history, vars
<1> QED
  BY <1>2 DEF Uninterrupted

(* A grace period that ends is not that of any search in its traversal.    *)
LEMMA GraceSpares ==
  ASSUME SearchContext, NEW w \in Writers, GraceEnd(w),
         NEW r \in Readers, rpc[r] \in {"head", "visit", "exit"}
  PROVE  myEpoch[r] # graceEpoch[w] /\ myEpoch[r] = epoch
<1>0. ReaderTypes /\ WriterTypes /\ SharedTypes
  BY TypeParts DEF SearchContext, ListContext, HeapContext
<1>1. interrupted[myEpoch[r]] = 0
  BY <1>0 DEF ReaderTypes, SearchContext, SearchInv, Uninterrupted
<1>2. myEpoch[r] # graceEpoch[w]
  BY <1>1, GraceIsOver DEF SearchContext, ListContext
<1>3. graceEpoch[w] # epoch
  BY DEF SearchContext, SearchInv, GraceIsForLast, GraceEnd
<1> QED
  BY <1>0, <1>2, <1>3 DEF ReaderTypes, WriterTypes, SharedTypes, Epochs

(* The steps of the writers, for each search. *)
LEMMA SearchWriter ==
  ASSUME SearchContext, NEW w \in Writers, WriterStep(w), NEW r \in Readers
  PROVE  SearchSound(r)'
<1>0. /\ ReaderTypes /\ WriterTypes /\ SharedTypes /\ HeapContext
      /\ SearchSound(r)
  BY TypeParts DEF SearchContext, ListContext, HeapContext, SearchInv
<1>1. PICK p, m : p = rp[r] /\ m = myEpoch[r]
  OBVIOUS
<1>2. /\ \A a \in Linked : a \in Linked' \/ a = removed'[w]
      /\ \A u \in Writers \ {w} : wpc'[u] = wpc[u] /\ removed'[u] = removed[u]
  BY <1>0, WriterLeaves
<1>3. /\ \A a \in alloc : \/ FreeRemoved(w) /\ a = removed[w]
                          \/ a \in alloc' /\ lvl'[a] = lvl[a]
      /\ \A u \in Writers \ {w} : removed[u] # NULL =>
              nxt'[removed[u]] = nxt[removed[u]]
      /\ removed[w] # NULL => removed'[w] = removed[w] \/ FreeRemoved(w)
      /\ UNCHANGED <<rpc, rkey, myEpoch, rp, late>>
      /\ strayed' = strayed \/ FreeRemoved(w)
  BY <1>0, WriterKeeps
<1>4. FreeRemoved(w) => strayed' = strayed \cup Holders(removed[w])
  BY DEF FreeRemoved
<1>5. SearchPlaced(r)'
  <2> SUFFICES ASSUME r \notin strayed', rpc[r] \in {"visit", "exit", "use"}
               PROVE  p \in Reachable'
    BY <1>1, <1>3 DEF SearchPlaced
  <2>1. r \notin strayed
    BY <1>3, <1>4
  <2>2. p \in Reachable
    BY <1>0, <1>1, <2>1 DEF SearchSound, SearchPlaced
  <2>3. CASE p \in LinkedOrNull
    BY <1>2, <2>3 DEF Reachable, LinkedOrNull
  <2>4. ASSUME NEW u \in Writers, p = removed[u], p # NULL PROVE p \in Reachable'
    <3>1. CASE u = w /\ FreeRemoved(w)
      BY <1>1, <1>4, <2>4, <3>1 DEF Holders
    <3>2. CASE ~(u = w /\ FreeRemoved(w))
      BY <1>2, <1>3, <2>4, <3>2 DEF Reachable
    <3> QED
      BY <3>1, <3>2
  <2> QED
    BY <2>2, <2>3, <2>4 DEF Reachable, LinkedOrNull
<1>6. SearchCovered(r)'
  <2> SUFFICES ASSUME r \notin strayed', rpc[r] = "visit",
                      NEW u \in Writers, wpc'[u] = "free", p = removed'[u]
               PROVE  /\ EpochOpen(m)'
                      /\ nxt'[p] \in LinkedOrNull' \cup Withdrawn(m)'
    BY <1>1, <1>3 DEF SearchCovered, EpochOpen, Withdrawn, Withdrawing
  <2>1. r \notin strayed /\ p # NULL
    BY <1>0, <1>1, <1>3, <1>4 DEF ReaderTypes
  <2>2. GraceEnd(w) => graceEpoch[w] # m /\ m = epoch
    BY <1>1, GraceSpares
  <2>3. CASE u # w
    <3>1. wpc[u] = "free" /\ p = removed[u] /\ nxt'[p] = nxt[p]
      BY <1>2, <1>3, <2>1, <2>3
    <3>2. EpochOpen(m) /\ nxt[p] \in LinkedOrNull \cup Withdrawn(m)
      BY <1>0, <1>1, <2>1, <3>1 DEF SearchSound, SearchCovered
    <3>3. /\ LinkedOrNull \cup Withdrawn(m) \subseteq LinkedOrNull' \cup Withdrawn(m)'
          /\ EpochOpen(m)'
      BY <1>0, <2>2, <3>2, WriterCovers
    <3> QED
      BY <3>1, <3>2, <3>3
  <2>4. CASE u = w
    <3>1. GraceEnd(w) /\ removed[w] # NULL
      <4>1. wpc[w] # "free"
        BY <1>0, <2>4
        DEF WriterTypes, WriterStep, UnderLock, Acquire, ReplaceBegin,
            RemoveBegin, ReplaceLock, RemoveLock, WriteLock, ReplaceScan,
            ReplaceSearch, ReplaceFix, RemoveScan, RemoveSearch, RemoveDrain,
            FlipEpoch, GraceEnd, SpinForever, FreeRemoved, EndCall
      <4> QED
        BY <1>0, <2>4, <4>1
        DEF WriterTypes, WriterStep, UnderLock, Acquire, ReplaceBegin,
            RemoveBegin, ReplaceLock, RemoveLock, WriteLock, ReplaceScan,
            ReplaceHead, ReturnLocked, ReplaceSearch, LinkAfter, ReplaceFix,
            RemoveScan, RemoveSearch, RemoveDrain, FlipEpoch, GraceEnd,
            SpinForever, FreeRemoved, EndCall
    <3>2. /\ wpc[w] = "grace" /\ UNCHANGED <<nxt, removed, epoch>>
          /\ Linked' = Linked
      BY <1>0, <3>1, HeapMoves DEF GraceEnd, heap
    <3>3. nxt[removed[w]] \in LinkedOrNull
      BY <1>0, <3>1, <3>2
      DEF HeapContext, HeapInv, WriterPointers, UnderLockAfter
    <3> QED
      BY <2>2, <2>4, <3>1, <3>2, <3>3 DEF EpochOpen, LinkedOrNull
  <2> QED
    BY <2>3, <2>4
<1>7. SearchInFront(r)'
  <2> SUFFICES ASSUME r \notin late, rpc[r] = "visit"
               PROVE  lvl'[p] >= rkey[r]
    BY <1>1, <1>3 DEF SearchInFront
  <2>1. p \in Linked \cup Withdrawn(m) /\ p # NULL
    BY <1>0, <1>1, OnTimePlaced DEF ReaderTypes, LinkedOrNull
  <2>2. p \in alloc
    BY <1>0, <2>1, LinkedFacts
    DEF HeapContext, HeapInv, WriterPointers, Withdrawn, Withdrawing
  <2>3. ~(FreeRemoved(w) /\ p = removed[w])
    <3> SUFFICES ASSUME FreeRemoved(w), p = removed[w] PROVE FALSE
      OBVIOUS
    <3>1. p \notin Linked /\ wpc[w] = "free"
      BY <1>0, LinkedFacts DEF FreeRemoved
    <3>2. PICK u \in Withdrawing(m) : p = removed[u]
      BY <2>1, <3>1 DEF Withdrawn
    <3>3. u \in Writers /\ u # w
      BY <3>1, <3>2 DEF Withdrawing
    <3> QED
      BY <1>0, <2>1, <3>2, <3>3 DEF HeapContext, HeapInv, WritersApart
  <2> QED
    BY <1>0, <1>1, <1>3, <2>2, <2>3 DEF SearchSound, SearchInFront
<1>8. LateRegistered(r)'
  BY <1>0, <1>3 DEF SearchSound, LateRegistered
<1> QED
  BY <1>5, <1>6, <1>7, <1>8 DEF SearchSound

(* Where the traversal finds its next element: in the list, or among those *)
(* whose writers wait for the epoch of the search.  On time, it is led to  *)
(* the level below, except behind an element that is not completed (188).  *)
LEMMA NextPlace ==
  ASSUME SearchContext, NEW r \in Readers \ strayed, rpc[r] = "visit",
         NEW q, q = nxt[rp[r]]
  PROVE  /\ q \in LinkedOrNull \cup Withdrawn(myEpoch[r])
         /\ r \notin late /\ lvl[rp[r]] # rkey[r] =>
              \/ q = NULL /\ StorePending
              \/ q \in Linked /\ lvl[q] >= rkey[r]
<1>0. /\ ReaderTypes /\ WriterTypes /\ SharedTypes /\ HeapContext
      /\ SearchSound(r)
  BY TypeParts DEF SearchContext, ListContext, HeapContext, SearchInv
<1>1. PICK p, m : p = rp[r] /\ m = myEpoch[r] /\ p # NULL
  BY <1>0 DEF ReaderTypes
<1>2. p \in Reachable
  BY <1>0, <1>1 DEF SearchSound, SearchPlaced
<1>3. ASSUME p \in Linked PROVE q \in LinkedOrNull
  BY <1>0, <1>1, <1>3 DEF HeapContext, HeapInv, HeapClosed
<1>4. ASSUME NEW w \in Writers, p = removed[w]
      PROVE  q \in LinkedOrNull \cup Withdrawn(m)
  <2>1. wpc[w] \in UnderLockAfter \cup {"free"}
    BY <1>0, <1>1, <1>4
    DEF HeapContext, HeapInv, WriterPointers, BeforeUnlink, UnderLockAfter,
        WriterTypes, WriterPCs
  <2>2. CASE wpc[w] \in UnderLockAfter
    BY <1>0, <1>1, <1>4, <2>2 DEF HeapContext, HeapInv, WriterPointers
  <2>3. CASE wpc[w] = "free"
    BY <1>0, <1>1, <1>4, <2>3 DEF SearchSound, SearchCovered
  <2> QED
    BY <2>1, <2>2, <2>3
<1>5. ASSUME r \notin late, lvl[p] # rkey[r]
      PROVE  \/ q = NULL /\ StorePending
             \/ q \in Linked /\ lvl[q] >= rkey[r]
  <2>1. p \in Linked \cup Withdrawn(m)
    BY <1>1, <1>5, OnTimePlaced DEF LinkedOrNull
  <2>2. p \in Addr
    BY <1>0, <1>1, ReachableFacts, <1>2
  <2>3. lvl[p] > rkey[r] /\ rkey[r] >= 0 /\ rkey[r] \in Int /\ lvl[p] \in Int
    <3>1. lvl[p] >= rkey[r]
      BY <1>0, <1>1, <1>5 DEF SearchSound, SearchInFront
    <3>2. lvl[p] \in Int /\ rkey[r] \in Int /\ rkey[r] >= 0
      BY <1>0, <2>2, ListAssumption DEF ReaderTypes, SharedTypes, Level
    <3> QED
      BY <1>5, <3>1, <3>2
  <2>4. NextOf(lvl[p], q) \/ (q = NULL /\ StorePending)
    <3>1. CASE p \in Linked
      <4>1. CASE NextOf(lvl[p], nxt[p])
        BY <1>1, <4>1
      <4>2. CASE \E w \in Writers : wpc[w] = "fix" /\ wnew[w] = p
        BY <1>1, <4>2
        DEF SearchContext, ListContext, ListInv, ReplaceOnTrack, StorePending
      <4> QED
        BY <3>1, <4>1, <4>2
        DEF SearchContext, ListContext, ListInv, ListComplete
    <3>2. CASE p \in Withdrawn(m)
      BY <1>1, <3>2
      DEF SearchContext, ListContext, ListInv, ReplaceOnTrack, Withdrawn,
          Withdrawing, UnderLockAfter
    <3> QED
      BY <2>1, <3>1, <3>2
  <2> QED
    BY <2>3, <2>4 DEF NextOf
<1>6. q \in LinkedOrNull \cup Withdrawn(m)
  <2>1. p \in Linked \/ \E w \in Writers : p = removed[w]
    BY <1>1, <1>2 DEF Reachable, LinkedOrNull
  <2> QED
    BY <1>3, <1>4, <2>1
<1> QED
  BY <1>1, <1>5, <1>6

(* What a search may be on is no element that is about to be freed, if it  *)
(* has not been led there by the end of a grace period.                    *)
LEMMA WithdrawnNotFreed ==
  ASSUME HeapContext, NEW m, NEW p \in LinkedOrNull \cup Withdrawn(m), p # NULL
  PROVE  /\ p \in alloc /\ p \in Reachable /\ ~Unlinked(p)
         /\ \A w \in Writers : wpc[w] = "free" => p # removed[w]
<1>1. CASE p \in Linked
  BY <1>1, LinkedFacts DEF Linked, Reachable, LinkedOrNull
<1>2. CASE p \in Withdrawn(m)
  <2>1. PICK u \in Withdrawing(m) : p = removed[u]
    BY <1>2 DEF Withdrawn
  <2>2. u \in Writers /\ wpc[u] # "free"
    BY <2>1 DEF Withdrawing
  <2>3. p \in alloc /\ \A w \in Writers : wpc[w] = "free" => p # removed[w]
    BY <2>1, <2>2 DEF HeapContext, HeapInv, WritersApart, WriterPointers
  <2>4. ~Unlinked(p)
    BY <2>1, <2>2
    DEF HeapContext, HeapInv, WritersApart, Unlinked, Unlinking
  <2> QED
    BY <2>1, <2>2, <2>3, <2>4 DEF Reachable
<1> QED
  BY <1>1, <1>2 DEF LinkedOrNull

(* A step of one search leaves the others where they are. *)
LEMMA ReaderLeaves ==
  ASSUME ReaderTypes, NEW r \in Readers, ReaderStep(r)
  PROVE  \A q \in Readers \ {r} :
           /\ rpc'[q] = rpc[q] /\ rp'[q] = rp[q] /\ myEpoch'[q] = myEpoch[q]
           /\ rkey'[q] = rkey[q]
           /\ q \in late' <=> q \in late
           /\ q \in strayed' <=> q \in strayed
BY DEF ReaderStep, InSearch, SearchBegin, WaitInterrupted, Register, ReadHead,
      Visit, VisitElement, VisitFreed, MoveTo, StopAtElement, Deregister,
      UseElement, EndSearch, ReaderTypes, history

(* The steps of a search, for itself. *)
LEMMA SearchReader ==
  ASSUME SearchContext, NEW r \in Readers, ReaderStep(r)
  PROVE  SearchSound(r)'
<1>0. /\ ReaderTypes /\ WriterTypes /\ SharedTypes /\ HeapContext
      /\ SearchSound(r) /\ NULL \notin Addr
  BY TypeParts, ListAssumption
  DEF SearchContext, ListContext, HeapContext, SearchInv
<1>1. UNCHANGED <<heap, epoch, built, writerVars>>
  BY DEF ReaderStep, InSearch, SearchBegin, WaitInterrupted, Register,
         ReadHead, Visit, Deregister, UseElement
<1>2. LinkedOrNull' = LinkedOrNull /\ Reachable' = Reachable
  BY <1>1
  DEF LinkedOrNull, Linked, Reachable, Unlinked, BeingRemoved, heap, writerVars
\* Steps to where there is nothing to show.
<1>3. ASSUME rpc'[r] \notin {"visit", "exit", "use"},
             r \notin late' \/ rpc'[r] = "head"
      PROVE  SearchSound(r)'
  BY <1>3
  DEF SearchSound, SearchPlaced, SearchCovered, SearchInFront, LateRegistered
\* Steps to an element p from which a replace is still far.
<1>4. ASSUME NEW m, NEW p \in LinkedOrNull \cup Withdrawn(m), rp'[r] = p,
             rpc'[r] = IF p = NULL THEN "exit" ELSE "visit",
             r \notin late' /\ p # NULL => lvl[p] >= rkey'[r]
      PROVE  SearchSound(r)'
  <2>1. p \in Reachable
    BY <1>0, <1>4, WithdrawnNotFreed DEF Reachable, LinkedOrNull
  <2>2. \A w \in Writers : p # NULL /\ wpc[w] = "free" => p # removed[w]
    BY <1>0, <1>4, WithdrawnNotFreed
  <2>3. wpc' = wpc /\ removed' = removed /\ lvl' = lvl
    BY <1>1 DEF writerVars, heap
  <2>4. SearchPlaced(r)'
    BY <1>2, <1>4, <2>1 DEF SearchPlaced
  <2>5. SearchCovered(r)'
    BY <1>4, <2>2, <2>3 DEF SearchCovered
  <2>6. SearchInFront(r)'
    BY <1>4, <2>3 DEF SearchInFront
  <2>7. LateRegistered(r)'
    BY <1>4 DEF LateRegistered
  <2> QED
    BY <2>4, <2>5, <2>6, <2>7 DEF SearchSound
\* Steps that leave the loop with the element it stopped at.
<1>5. ASSUME rpc[r] \in {"visit", "exit"}, rpc'[r] \in {"exit", "use"},
             rp'[r] = rp[r], strayed' = strayed
      PROVE  SearchSound(r)'
  BY <1>0, <1>2, <1>5
  DEF SearchSound, SearchPlaced, SearchCovered, SearchInFront, LateRegistered
<1>6. CASE \E k \in SearchKeys : SearchBegin(r, k)
  <2>1. rpc[r] = "idle" /\ rpc'[r] = "wait" /\ late' = late
    BY <1>0, <1>6 DEF SearchBegin, ReaderTypes, history
  <2> QED
    BY <1>0, <1>3, <2>1 DEF SearchSound, LateRegistered
<1>7. CASE WaitInterrupted(r) \/ UseElement(r)
  BY <1>0, <1>3, <1>7 DEF WaitInterrupted, UseElement, EndSearch, ReaderTypes
<1>8. CASE Register(r)
  BY <1>0, <1>3, <1>8 DEF Register, ReaderTypes
<1>9. CASE ReadHead(r)
  <2>1. /\ rp'[r] = head /\ rpc'[r] = IF head = NULL THEN "exit" ELSE "visit"
        /\ rpc[r] = "head" /\ rkey' = rkey
    BY <1>0, <1>9 DEF ReadHead, ReaderTypes
  <2>2. head \in LinkedOrNull
    BY <1>0 DEF HeapContext, HeapInv, HeapClosed
  <2>3. Published
    BY <2>1 DEF SearchContext, ReadersInv
  <2>4. head \in Linked /\ lvl[head] = levelDeep - 1
    BY <2>3, ListAssumption
    DEF SearchContext, ListContext, ListInv, ListComplete, Published
  <2>5. lvl[head] >= rkey'[r]
    BY <1>0, <2>1, <2>4, ListAssumption DEF ReaderTypes, Level
  <2> QED
    BY <1>4, <2>1, <2>2, <2>5
<1>10. CASE Visit(r) /\ r \notin strayed
  <2>1. /\ rpc[r] = "visit" /\ VisitElement(r)
        /\ UNCHANGED <<rkey, myEpoch, late>>
    BY <1>10 DEF Visit, VisitFreed
  <2>2. CASE lvl[rp[r]] = rkey[r]
    <3>1. rpc'[r] = "exit" /\ rp' = rp /\ strayed' = strayed
      BY <1>0, <2>1, <2>2 DEF VisitElement, StopAtElement, ReaderTypes
    <3> QED
      BY <1>5, <2>1, <3>1
  <2>3. CASE lvl[rp[r]] # rkey[r]
    <3>1. PICK q : q = nxt[rp[r]]
      OBVIOUS
    <3>2. rp'[r] = q /\ rpc'[r] = IF q = NULL THEN "exit" ELSE "visit"
      BY <1>0, <2>1, <2>3, <3>1 DEF VisitElement, MoveTo, ReaderTypes
    <3>3. /\ q \in LinkedOrNull \cup Withdrawn(myEpoch[r])
          /\ r \notin late => q = NULL \/ lvl[q] >= rkey[r]
      BY <1>10, <2>1, <2>3, <3>1, NextPlace
    <3> QED
      BY <1>4, <2>1, <3>2, <3>3
  <2> QED
    BY <2>2, <2>3
<1>11. CASE Visit(r) /\ r \in strayed
  <2>1. /\ rpc[r] = "visit" /\ VisitFreed(r) /\ late' = late
    BY <1>11 DEF Visit, VisitElement
  <2>2. r \in strayed' /\ rpc'[r] \in {"visit", "exit"}
    BY <1>0, <1>11, <2>1 DEF VisitFreed, StopAtElement, MoveTo, ReaderTypes
  <2>3. r \in late
    BY <1>11, <2>1, OnTimePlaced
  <2> QED
    BY <2>1, <2>2, <2>3
    DEF SearchSound, SearchPlaced, SearchCovered, SearchInFront, LateRegistered
<1>12. CASE Deregister(r)
  <2>1. CASE rp[r] = NULL
    BY <1>0, <1>3, <1>12, <2>1 DEF Deregister, EndSearch, ReaderTypes
  <2>2. CASE rp[r] # NULL
    <3>1. /\ rpc[r] = "exit" /\ rpc'[r] = "use" /\ rp' = rp
          /\ strayed' = strayed
      BY <1>0, <1>12, <2>2 DEF Deregister, ReaderTypes
    <3> QED
      BY <1>5, <3>1
  <2> QED
    BY <2>1, <2>2
<1> QED
  BY <1>6, <1>7, <1>8, <1>9, <1>10, <1>11, <1>12 DEF ReaderStep, InSearch

(* Every step. *)
LEMMA SearchNext ==
  ASSUME AllLevels, MaxInterrupts = 0, SearchContext, [Next]_vars
  PROVE  SearchInv'
<1>0. /\ ReaderTypes /\ WriterTypes /\ SharedTypes /\ HeapContext
      /\ \A r \in Readers : SearchSound(r)
  BY TypeParts DEF SearchContext, ListContext, HeapContext, SearchInv
<1>1. Uninterrupted' /\ GraceIsForLast'
  BY <1>0, UninterruptedNext, GraceIsForLastNext DEF SearchContext, SearchInv
\* A search that neither moves nor sees the writers move.
<1>2. ASSUME UNCHANGED <<heap, epoch, writerVars>>, NEW r \in Readers,
             rpc'[r] = rpc[r], rp'[r] = rp[r], myEpoch'[r] = myEpoch[r],
             rkey'[r] = rkey[r], r \in late' <=> r \in late,
             r \in strayed' <=> r \in strayed
      PROVE  SearchSound(r)'
  <2>1. /\ Reachable' = Reachable /\ LinkedOrNull' = LinkedOrNull
        /\ UNCHANGED <<nxt, lvl, wpc, removed, epoch, graceEpoch>>
    BY <1>2
    DEF Reachable, LinkedOrNull, Linked, Unlinked, BeingRemoved, heap,
        writerVars
  <2>2. SearchPlaced(r)' /\ SearchInFront(r)' /\ LateRegistered(r)'
    BY <1>0, <1>2, <2>1
    DEF SearchSound, SearchPlaced, SearchInFront, LateRegistered
  <2>3. SearchCovered(r)'
    <3>1. PICK m : m = myEpoch[r]
      OBVIOUS
    <3>2. EpochOpen(m)' = EpochOpen(m) /\ Withdrawn(m)' = Withdrawn(m)
      BY <2>1 DEF EpochOpen, Withdrawn, Withdrawing
    <3>3. /\ EpochOpen(myEpoch[r])' = EpochOpen(m)'
          /\ Withdrawn(myEpoch[r])' = Withdrawn(m)'
      BY <1>2, <3>1 DEF EpochOpen, Withdrawn, Withdrawing
    <3> QED
      BY <1>0, <1>2, <2>1, <3>1, <3>2, <3>3 DEF SearchSound, SearchCovered
  <2> QED
    BY <2>2, <2>3 DEF SearchSound
<1>3. CASE Insert \/ InsertFails
  <2>1. UNCHANGED <<readerVars, late, strayed>> /\ \A r \in Readers : rpc[r] = "idle"
    BY <1>3 DEF Insert, InsertFails, history, SearchContext, ReadersInv
  <2>2. ASSUME NEW r \in Readers PROVE SearchSound(r)'
    <3>1. rpc'[r] = "idle" /\ r \notin late'
      BY <1>0, <2>1 DEF SearchSound, LateRegistered, readerVars
    <3> QED
      BY <3>1
      DEF SearchSound, SearchPlaced, SearchCovered, SearchInFront,
          LateRegistered
  <2> QED
    BY <1>1, <2>2 DEF SearchInv
<1>4. ASSUME NEW r \in Readers, ReaderStep(r) PROVE SearchInv'
  <2>1. UNCHANGED <<heap, epoch, writerVars>>
    BY <1>4
    DEF ReaderStep, InSearch, SearchBegin, WaitInterrupted, Register,
        ReadHead, Visit, Deregister, UseElement
  <2>2. \A q \in Readers \ {r} :
         /\ rpc'[q] = rpc[q] /\ rp'[q] = rp[q] /\ myEpoch'[q] = myEpoch[q]
         /\ rkey'[q] = rkey[q]
         /\ q \in late' <=> q \in late
         /\ q \in strayed' <=> q \in strayed
    BY <1>0, <1>4, ReaderLeaves
  <2>3. \A q \in Readers \ {r} : SearchSound(q)'
    BY <1>2, <2>1, <2>2
  <2> QED
    BY <1>1, <1>4, <2>3, SearchReader DEF SearchInv
<1>5. ASSUME NEW w \in Writers, WriterStep(w) PROVE SearchInv'
  BY <1>1, <1>5, SearchWriter DEF SearchInv
<1>6. CASE UNCHANGED vars
  BY <1>1, <1>2, <1>6 DEF vars, readerVars, history, SearchInv
<1> QED
  BY <1>3, <1>4, <1>5, <1>6 DEF Next

(* Where the searches are, always. *)
LEMMA SearchInvariant ==
  AllLevels /\ MaxInterrupts = 0 => (Spec => []SearchInv)
<1> SUFFICES ASSUME AllLevels, MaxInterrupts = 0 PROVE Spec => []SearchInv
  OBVIOUS
<1>1. Init => SearchInv
  BY DEF Init, SearchInv, Uninterrupted, GraceIsForLast, SearchSound,
         SearchPlaced, SearchCovered, SearchInFront, LateRegistered
<1>2. TypeInv /\ SectionHoldsLock /\ HeapInv /\ ListInv /\ StandingAccounting
        /\ ReadersInv /\ SearchInv /\ [Next]_vars => SearchInv'
  BY SearchNext DEF SearchContext, ListContext, HeapContext
<1> QED
  BY <1>1, <1>2, TypeInvariant, WriterExclusion, HeapInvariant, ListInvariant,
     StandingCounts, ReadersAlways, PTL DEF Spec

-----------------------------------------------------------------------------
(* ImplementsAtomicLevels *)

\* Each level that is inserted holds the one element of the list with it.
ContentsRight ==
  /\ \A l \in Level : l >= built => Contents[l] = NULL
  /\ \A l \in Level : l < built => Contents[l] \in Linked /\ lvl[Contents[l]] = l
  /\ \A a \in Linked : lvl[a] \in Level /\ lvl[a] < built /\ Contents[lvl[a]] = a

\* What the proofs of this part start from, before and after a step.
RefContext == SearchContext /\ ContentsRight

(* The element that Current chooses. *)
LEMMA ContentsFacts == TypeInv /\ ListInv => ContentsRight
<1> SUFFICES ASSUME TypeInv, ListInv PROVE ContentsRight
  OBVIOUS
<1>0. built \in 0 .. levelDeep /\ levelDeep \in Nat
  BY TypeParts, ListAssumption DEF SharedTypes
<1>1. \A l \in Level : Contents[l] = Current(l)
  BY DEF Contents
<1>2. ASSUME NEW l \in Level, l >= built PROVE Contents[l] = NULL
  BY <1>1, <1>2 DEF Current
<1>3. ASSUME NEW l \in Level, l < built
      PROVE  Contents[l] \in Linked /\ lvl[Contents[l]] = l
  <2>1. ~(l >= built) /\ l \in 0 .. built - 1
    BY <1>0, <1>3 DEF Level
  <2>2. \E a \in alloc : lvl[a] = l /\ ~Unlinked(a) /\ ~BeingRemoved(a)
    BY <2>1 DEF ListInv, ListComplete, Linked
  <2>3. Current(l) =
          CHOOSE a \in alloc : lvl[a] = l /\ ~Unlinked(a) /\ ~BeingRemoved(a)
    BY <2>1 DEF Current
  <2>4. /\ Current(l) \in alloc /\ lvl[Current(l)] = l
        /\ ~Unlinked(Current(l)) /\ ~BeingRemoved(Current(l))
    BY <2>2, <2>3
  <2> QED
    BY <1>1, <2>4 DEF Linked
<1>4. ASSUME NEW a \in Linked
      PROVE  lvl[a] \in Level /\ lvl[a] < built /\ Contents[lvl[a]] = a
  <2>1. lvl[a] \in Level /\ lvl[a] < built
    BY <1>0 DEF ListInv, ListComplete, Level
  <2>2. Contents[lvl[a]] \in Linked /\ lvl[Contents[lvl[a]]] = lvl[a]
    BY <1>3, <2>1
  <2> QED
    BY <2>1, <2>2 DEF ListInv, ListComplete
<1> QED
  BY <1>2, <1>3, <1>4 DEF ContentsRight

(* The elements of the levels, when the list has the same. *)
LEMMA ContentsSame ==
  ASSUME RefContext, RefContext', Linked' = Linked, built' = built,
         \A a \in Linked : lvl'[a] = lvl[a]
  PROVE  Contents' = Contents
<1>0. built \in Int /\ \A l \in Level : l \in Int
  BY TypeParts, ListAssumption
  DEF RefContext, SearchContext, ListContext, HeapContext, SharedTypes, Level
<1>1. ASSUME NEW l \in Level PROVE Contents'[l] = Contents[l]
  <2>1. CASE l >= built
    BY <2>1 DEF RefContext, ContentsRight
  <2>2. CASE l < built
    <3>1. PICK a \in Linked : a = Contents[l] /\ lvl[a] = l
      BY <2>2 DEF RefContext, ContentsRight
    <3>2. a \in Linked' /\ lvl'[a] = l
      BY <3>1
    <3> QED
      BY <3>1, <3>2 DEF RefContext, ContentsRight
  <2> QED
    BY <1>0, <2>1, <2>2
<1>2. Contents = [l \in Level |-> Contents[l]]
  BY DEF Contents
<1>3. Contents' = [l \in Level |-> Contents'[l]]
  BY DEF Contents
<1> QED
  BY <1>1, <1>2, <1>3

(* The phases of the searches, in a step of a writer that frees nothing.   *)
LEMMA PhasesSame ==
  ASSUME RefContext, UNCHANGED <<readerVars, strayed>>,
         \A a \in alloc : lvl'[a] = lvl[a]
  PROVE  SearchPhases' = SearchPhases /\ SearchResults' = SearchResults
<1>1. ASSUME NEW r \in Readers
      PROVE  PhaseOf(r)' = PhaseOf(r) /\ FoundBy(r)' = FoundBy(r)
  <2>1. r \notin strayed => (ArrivedAt(r)' <=> ArrivedAt(r))
    <3>1. r \notin strayed /\ rpc[r] = "visit" => rp[r] \in alloc
      <4>1. ReaderTypes /\ HeapContext /\ SearchPlaced(r)
        BY TypeParts
        DEF RefContext, SearchContext, ListContext, HeapContext, SearchInv,
            SearchSound
      <4> QED
        BY <4>1, ReachableFacts DEF SearchPlaced, ReaderTypes
    <3> QED
      BY <3>1 DEF ArrivedAt, readerVars
  <2>2. PhaseOf(r)' = PhaseOf(r)
    BY <2>1 DEF PhaseOf, readerVars
  <2>3. rp'[r] = rp[r]
    BY DEF readerVars
  <2> QED
    BY <2>2, <2>3 DEF FoundBy
<1> QED
  BY <1>1 DEF SearchPhases, SearchResults

(* Who is overtaken, as long as the epoch is the same. *)
LEMMA OvertakenSame ==
  ASSUME UNCHANGED <<epoch, rpc, myEpoch, late>>
  PROVE  OvertakenOnes' = OvertakenOnes
BY DEF OvertakenOnes, Overtaken

(* A step of a writer that neither links, nor frees, nor ends an epoch.    *)
LEMMA QuietWriter ==
  ASSUME RefContext, RefContext', NEW w \in Writers,
         Linked' = Linked, UNCHANGED <<built, epoch, readerVars, late, strayed>>,
         \A a \in alloc : lvl'[a] = lvl[a],
         LiveElements' = LiveElements,
         \A u \in Writers \ {w} : wpc'[u] = wpc[u],
         wpc'[w] \in {"fix", "flip"} <=> wpc[w] \in {"fix", "flip"}
  PROVE  UNCHANGED Abstract!vars
<1>1. Contents' = Contents
  <2>1. Linked \subseteq alloc
    BY DEF Linked
  <2> QED
    BY <2>1, ContentsSame
<1>2. SearchPhases' = SearchPhases /\ SearchResults' = SearchResults
  BY PhasesSame
<1>3. OvertakenOnes' = OvertakenOnes
  BY OvertakenSame DEF readerVars
<1>4. StorePending' = StorePending
  <2>1. StorePending' <=> StorePending
    BY DEF StorePending
  <2> QED
    BY <2>1 DEF StorePending
<1> QED
  BY <1>1, <1>2, <1>3, <1>4 DEF Abstract!vars, readerVars

(* The elements that are live, in a step that allocates and frees nothing. *)
LEMMA LiveSame ==
  ASSUME NEW w \in Writers, alloc' = alloc,
         \A u \in Writers \ {w} : wpc'[u] = wpc[u] /\ wnew'[u] = wnew[u],
         wpc'[w] \in Unlinking <=> wpc[w] \in Unlinking,
         wpc[w] \in Unlinking => wnew'[w] = wnew[w]
  PROVE  LiveElements' = LiveElements
<1>1. \A a : Unlinked(a)' <=> Unlinked(a)
  BY DEF Unlinked, Unlinking
<1> QED
  BY <1>1 DEF LiveElements

(* The beginning of a replace, the search for its level, the fix of 189,   *)
(* the wait of 209 and its end are not seen.                               *)
LEMMA QuietSteps ==
  ASSUME AllLevels, RefContext, RefContext', NEW w \in Writers,
         \/ \E k \in ReplaceKeys : ReplaceBegin(w, k)
         \/ Acquire(w) \/ ReplaceFix(w) \/ GraceEnd(w) \/ SpinForever(w)
         \/ ReplaceScan(w) /\ ~ReplaceHead(w)
         \/ ReplaceSearch(w) /\ ~LinkAfter(w, welem[w])
  PROVE  UNCHANGED Abstract!vars
<1>0. /\ WriterTypes /\ SharedTypes /\ HeapContext /\ ListContext
      /\ wpc[w] \notin {"rlock", "drain"}
  BY TypeParts
  DEF RefContext, SearchContext, ListContext, HeapContext, ListInv,
      ReplaceOnTrack
<1>1. CASE \E k \in ReplaceKeys : ReplaceBegin(w, k)
  <2>1. PICK k \in ReplaceKeys : ReplaceBegin(w, k)
    BY <1>1
  <2>2. PICK a \in Addr \ alloc :
          /\ alloc' = alloc \cup {a} /\ lvl' = [lvl EXCEPT ![a] = k]
          /\ wnew' = [wnew EXCEPT ![w] = a]
    BY <2>1 DEF ReplaceBegin
  <2>3. /\ wpc[w] = "idle" /\ wpc' = [wpc EXCEPT ![w] = "lock"]
        /\ UNCHANGED <<built, epoch, readerVars, late, strayed>>
    BY <2>1 DEF ReplaceBegin, history
  <2>4. Linked' = Linked
    BY <1>0, <2>1, HeapReplaceBegin
  <2>5. \A b \in alloc : lvl'[b] = lvl[b]
    BY <1>0, <2>2 DEF SharedTypes
  <2>6. /\ \A u \in Writers \ {w} : wpc'[u] = wpc[u] /\ wnew'[u] = wnew[u]
        /\ wpc'[w] = "lock" /\ wnew'[w] = a
    BY <1>0, <2>2, <2>3 DEF WriterTypes
  <2>7. Unlinked(a)' /\ \A b \in alloc : Unlinked(b)' <=> Unlinked(b)
    BY <2>2, <2>3, <2>6 DEF Unlinked
  <2>8. LiveElements' = LiveElements
    BY <2>2, <2>7 DEF LiveElements
  <2> QED
    BY <2>3, <2>4, <2>5, <2>6, <2>8, QuietWriter
<1>2. ASSUME Linked' = Linked, NEW to, wpc' = [wpc EXCEPT ![w] = to],
             UNCHANGED <<alloc, lvl, wnew, built, epoch, readerVars, late, strayed>>,
             to \in Unlinking <=> wpc[w] \in Unlinking,
             to \in {"fix", "flip"} <=> wpc[w] \in {"fix", "flip"}
      PROVE  UNCHANGED Abstract!vars
  <2>1. wpc'[w] = to /\ \A u \in Writers \ {w} : wpc'[u] = wpc[u]
    BY <1>0, <1>2 DEF WriterTypes
  <2>2. LiveElements' = LiveElements
    BY <1>2, <2>1, LiveSame
  <2> QED
    BY <1>2, <2>1, <2>2, QuietWriter
<1>3. CASE Acquire(w)
  <2>1. wpc[w] = "lock" /\ ReplaceLock(w)
    BY <1>0, <1>3 DEF Acquire, ReplaceLock, RemoveLock, WriteLock
  <2>2. Linked' = Linked
    BY <1>0, <1>3, HeapMoves
  <2> QED
    BY <1>2, <2>1, <2>2 DEF ReplaceLock, WriteLock, heap, history, Unlinking
<1>4. CASE ReplaceFix(w)
  <2>1. Linked' = Linked
    BY <1>0, <1>4, HeapReplaceFix
  <2> QED
    BY <1>2, <1>4, <2>1 DEF ReplaceFix, history, Unlinking
<1>5. CASE GraceEnd(w) /\ removed[w] # NULL
  <2>1. Linked' = Linked
    BY <1>0, <1>5, HeapMoves
  <2> QED
    BY <1>2, <1>5, <2>1 DEF GraceEnd, heap, history, Unlinking
<1>6. CASE GraceEnd(w) /\ removed[w] = NULL
  <2>1. /\ wpc[w] = "grace" /\ EndCall(w)
        /\ UNCHANGED <<heap, epoch, built, readerVars, history>>
    BY <1>6 DEF GraceEnd
  <2>2. Linked' = Linked
    BY <1>0, <1>6, <2>1, HeapEndCall DEF Unlinking
  <2>3. /\ wpc'[w] = "idle"
        /\ \A u \in Writers \ {w} : wpc'[u] = wpc[u] /\ wnew'[u] = wnew[u]
    BY <1>0, <2>1 DEF EndCall, WriterTypes
  <2>4. LiveElements' = LiveElements
    BY <2>1, <2>3, LiveSame DEF heap, Unlinking
  <2> QED
    BY <2>1, <2>2, <2>3, <2>4, QuietWriter DEF heap, history
<1>7. CASE SpinForever(w)
  <2>1. wpc[w] = "grace"
    BY <1>0, <1>7 DEF SpinForever
  <2>2. Linked' = Linked
    BY <1>0, <1>7, HeapMoves
  <2> QED
    BY <1>2, <1>7, <2>1, <2>2 DEF SpinForever, heap, history, Unlinking
<1>8. CASE \/ ReplaceScan(w) /\ ~ReplaceHead(w)
           \/ ReplaceSearch(w) /\ ~LinkAfter(w, welem[w])
  <2>1. /\ Linked' = Linked /\ wpc[w] \in {"scan", "search"}
        /\ wpc' = [wpc EXCEPT ![w] = "search"]
        /\ UNCHANGED <<heap, epoch, built, wnew>>
    BY <1>0, <1>8, ListSearchMoves
  <2>2. UNCHANGED <<readerVars, late, strayed>>
    BY <1>8 DEF ReplaceScan, ReplaceSearch, history
  <2> QED
    BY <1>2, <2>1, <2>2 DEF heap, Unlinking
<1> QED
  BY <1>1, <1>3, <1>4, <1>5, <1>6, <1>7, <1>8

(* The new element takes the place of the old one: a store. *)
LEMMA StoreStep ==
  ASSUME AllLevels, RefContext, RefContext', NEW w \in Writers,
         wpc[w] \in {"scan", "search"},
         NEW to \in {"fix", "flip"}, wpc' = [wpc EXCEPT ![w] = to],
         NEW old \in Linked, NEW new, new = wnew[w],
         lvl[old] = wkey[w], Linked' = (Linked \ {old}) \cup {new},
         UNCHANGED <<alloc, lvl, built, epoch, readerVars, wnew, history>>
  PROVE  Abstract!Store(wkey[w], new) /\ wkey[w] \in Level /\ new \in Addr
<1>0. /\ WriterTypes /\ SharedTypes /\ HeapContext /\ ContentsRight
      /\ levelDeep \in Nat \ {0}
  BY TypeParts, ListAssumption
  DEF RefContext, SearchContext, ListContext, HeapContext
<1>1. PICK l : l = wkey[w]
  OBVIOUS
<1>2. /\ Published /\ l \in Level
      /\ new \in alloc /\ lvl[new] = l /\ new \in Addr /\ alloc \subseteq Addr
  BY <1>0, <1>1, InCallPublished, LinkedFacts
  DEF HeapContext, HeapInv, WriterPointers, LevelsDescend, Unlinking,
      RefContext, SearchContext, ListContext, ListInv, ReplaceOnTrack,
      SharedTypes
<1>3. \A u \in Writers \ {w} : wpc[u] \in {"idle", "lock", "rlock", "free"}
  BY <1>0, Alone DEF HeapContext, InSection
<1>4. /\ wpc'[w] = to /\ \A u \in Writers \ {w} : wpc'[u] = wpc[u]
  BY <1>0 DEF WriterTypes
<1>5. NULL \notin Linked /\ \A k \in Level : k < built
  BY <1>0, <1>2, LinkedFacts DEF Published, Level
<1>6. Abstract!Filled
  BY <1>0, <1>5 DEF Abstract!Filled, ContentsRight
<1>7. StorePending' /\ ~StorePending
  BY <1>3, <1>4 DEF StorePending
<1>8. new \notin LiveElements /\ LiveElements' = LiveElements \cup {new}
  <2>1. Unlinked(new)
    BY DEF Unlinked
  <2>2. ~Unlinked(new)'
    <3>1. \A u \in Writers \ {w} : wpc[u] \in Unlinking => wnew[u] # new
      BY <1>0 DEF HeapContext, HeapInv, WritersApart, Unlinking
    <3> QED
      BY <1>4, <3>1 DEF Unlinked, Unlinking
  <2>3. \A a \in alloc \ {new} : Unlinked(a)' <=> Unlinked(a)
    BY <1>4 DEF Unlinked
  <2> QED
    BY <1>2, <2>1, <2>2, <2>3 DEF LiveElements
<1>9. Contents' = [Contents EXCEPT ![l] = new]
  <2>1. ASSUME NEW k \in Level, k # l PROVE Contents'[k] = Contents[k]
    <3>1. PICK a \in Linked : a = Contents[k] /\ lvl[a] = k
      BY <1>0, <1>5 DEF ContentsRight
    <3>2. a \in Linked' /\ lvl'[a] = k
      BY <1>1, <2>1, <3>1
    <3> QED
      BY <3>1, <3>2 DEF RefContext, ContentsRight
  <2>2. Contents'[l] = new
    BY <1>2 DEF RefContext, ContentsRight
  <2>3. Contents = [k \in Level |-> Contents[k]]
    BY DEF Contents
  <2>4. Contents' = [k \in Level |-> Contents'[k]]
    BY DEF Contents
  <2> QED
    BY <1>2, <2>1, <2>2, <2>3, <2>4
<1>10. /\ SearchPhases' = SearchPhases /\ SearchResults' = SearchResults
       /\ OvertakenOnes' = OvertakenOnes /\ rkey' = rkey
  BY PhasesSame, OvertakenSame DEF readerVars, history
<1> QED
  BY <1>1, <1>2, <1>6, <1>7, <1>8, <1>9, <1>10
  DEF Abstract!Store, Abstract!Put, StorePending

(* 172-178 and 184-188. *)
LEMMA LinkSteps ==
  ASSUME AllLevels, RefContext, RefContext', NEW w \in Writers,
         \/ ReplaceScan(w) /\ ReplaceHead(w)
         \/ ReplaceSearch(w) /\ LinkAfter(w, welem[w])
  PROVE  \E l \in Level, e \in Addr : Abstract!Store(l, e)
<1>0. SharedTypes /\ HeapContext
  BY TypeParts DEF RefContext, SearchContext, ListContext, HeapContext
<1>1. CASE ReplaceScan(w) /\ ReplaceHead(w)
  <2>1. /\ wpc[w] = "scan" /\ wpc' = [wpc EXCEPT ![w] = "flip"]
        /\ lvl[head] = wkey[w] /\ head # NULL
        /\ UNCHANGED <<alloc, lvl, built, epoch, readerVars, wnew, history>>
    BY <1>1 DEF ReplaceScan, ReplaceHead
  <2>2. Linked' = (Linked \ {head}) \cup {wnew[w]} /\ head \in Linked
    BY <1>0, <1>1, <2>1, HeapReplaceHead
    DEF HeapContext, HeapInv, HeapClosed, LinkedOrNull
  <2> QED
    BY <2>1, <2>2, StoreStep
<1>2. CASE ReplaceSearch(w) /\ LinkAfter(w, welem[w])
  <2>1. PICK old : old = nxt[welem[w]]
    OBVIOUS
  <2>2. /\ wpc[w] = "search" /\ wpc' = [wpc EXCEPT ![w] = "fix"]
        /\ lvl[old] = wkey[w] /\ old # NULL
        /\ UNCHANGED <<alloc, lvl, built, epoch, readerVars, wnew, history>>
    BY <1>2, <2>1 DEF ReplaceSearch, LinkAfter
  <2>3. Linked' = (Linked \ {old}) \cup {wnew[w]}
    BY <1>0, <1>2, <2>1, HeapLinkAfter DEF ReplaceSearch
  <2>4. old \in Linked
    BY <1>0, <2>1, <2>2
    DEF HeapContext, HeapInv, HeapClosed, WriterPointers, LinkedOrNull
  <2> QED
    BY <2>2, <2>3, <2>4, StoreStep
<1> QED
  BY <1>1, <1>2

(* A search that waits is called, and nobody else is. *)
LEMMA PhaseFacts ==
  ASSUME RefContext, NEW r \in Readers
  PROVE  /\ SearchPhases[r] = PhaseOf(r) /\ SearchResults[r] = FoundBy(r)
         /\ PhaseOf(r) = "called" <=> rpc[r] = "wait"
         /\ rpc[r] \in {"idle", "wait", "head"} => r \notin strayed
         /\ PhaseOf(r) = "done" <=> r \notin strayed /\ rpc[r] = "use"
         /\ PhaseOf(r) = "taken" =>
              r \notin strayed /\ rpc[r] \in {"visit", "exit"}
<1>1. r \in strayed => rpc[r] \in {"visit", "exit", "use"}
  BY DEF RefContext, SearchContext, ReadersInv
<1>2. rpc[r] \in ReaderPCs
  BY TypeParts
  DEF RefContext, SearchContext, ListContext, HeapContext, ReaderTypes
<1> QED
  BY <1>1, <1>2
  DEF SearchPhases, SearchResults, PhaseOf, ArrivedAt, ReaderPCs

(* The epoch flips (200-204): the store is complete. *)
LEMMA CompleteStep ==
  ASSUME AllLevels, RefContext, RefContext', NEW w \in Writers, FlipEpoch(w)
  PROVE  Abstract!Complete
<1>0. /\ WriterTypes /\ SharedTypes /\ HeapContext
  BY TypeParts DEF RefContext, SearchContext, ListContext, HeapContext
<1>1. /\ wpc[w] = "flip" /\ wpc' = [wpc EXCEPT ![w] = "grace"]
      /\ UNCHANGED <<heap, built, readerVars, late, strayed, wnew>>
  BY DEF FlipEpoch, history
<1>2. \A u \in Writers \ {w} : wpc[u] \in {"idle", "lock", "rlock", "free"}
  BY <1>0, <1>1, Alone DEF HeapContext, InSection
<1>3. /\ wpc'[w] = "grace"
      /\ \A u \in Writers \ {w} : wpc'[u] = wpc[u] /\ wnew'[u] = wnew[u]
  BY <1>0, <1>1 DEF WriterTypes
<1>4. StorePending /\ ~StorePending'
  BY <1>1, <1>2, <1>3 DEF StorePending
<1>5. Contents' = Contents
  <2>1. Linked' = Linked
    BY <1>0, HeapMoves
  <2> QED
    BY <1>1, <2>1, ContentsSame DEF heap
<1>6. LiveElements' = LiveElements
  BY <1>1, <1>3, LiveSame DEF heap, Unlinking
<1>7. SearchPhases' = SearchPhases /\ SearchResults' = SearchResults
  BY <1>1, PhasesSame DEF heap
<1>8. PICK later : later = {r \in Readers : rpc[r] = "wait" /\ myEpoch[r] # epoch'}
  OBVIOUS
<1>9. /\ later \in SUBSET {r \in Readers : SearchPhases[r] = "called"}
      /\ OvertakenOnes' =
           {r \in OvertakenOnes : SearchPhases[r] # "called"} \cup later
  <2>1. \A r \in Readers : r \in late => rpc[r] # "wait"
    BY DEF RefContext, SearchContext, SearchInv, SearchSound, LateRegistered
  <2>2. \A r \in Readers : SearchPhases[r] = "called" <=> rpc[r] = "wait"
    BY PhaseFacts
  <2>3. UNCHANGED <<rpc, myEpoch, late>>
    BY <1>1 DEF readerVars
  <2> QED
    BY <1>8, <2>1, <2>2, <2>3 DEF OvertakenOnes, Overtaken
<1> QED
  BY <1>1, <1>4, <1>5, <1>6, <1>7, <1>9 DEF Abstract!Complete, readerVars

(* The kfree (213). *)
LEMMA DestroyStep ==
  ASSUME AllLevels, RefContext, RefContext', NEW w \in Writers, FreeRemoved(w)
  PROVE  \E e \in Addr : Abstract!Destroy(e)
<1>0. /\ ReaderTypes /\ WriterTypes /\ SharedTypes /\ HeapContext
  BY TypeParts DEF RefContext, SearchContext, ListContext, HeapContext
<1>1. PICK old : old = removed[w]
  OBVIOUS
<1>2. /\ wpc[w] = "free" /\ wpc' = [wpc EXCEPT ![w] = "idle"]
      /\ wnew' = [wnew EXCEPT ![w] = NULL]
      /\ alloc' = alloc \ {old} /\ lvl' = [lvl EXCEPT ![old] = 0]
      /\ strayed' = strayed \cup Holders(old)
      /\ UNCHANGED <<built, epoch, readerVars, late>>
  BY <1>1 DEF FreeRemoved, EndCall
<1>3. /\ old \in Addr /\ old \in alloc /\ old \notin Linked /\ old # NULL
      /\ \A m : old \notin Withdrawn(m)
  <2>1. old \in alloc /\ old # NULL /\ old \notin Linked /\ old \in Addr
    BY <1>0, <1>1, <1>2, LinkedFacts
    DEF HeapContext, HeapInv, WriterPointers, SharedTypes
  <2>2. \A m : old \notin Withdrawn(m)
    BY <1>0, <1>1, <1>2, <2>1, WithdrawnNotFreed
  <2> QED
    BY <2>1, <2>2
<1>4. /\ wpc'[w] = "idle"
      /\ \A u \in Writers \ {w} : wpc'[u] = wpc[u] /\ wnew'[u] = wnew[u]
  BY <1>0, <1>2 DEF WriterTypes
<1>5. \A a \in Addr \ {old} : lvl'[a] = lvl[a]
  BY <1>0, <1>2 DEF SharedTypes
<1>6. Contents' = Contents
  <2>1. Linked' = Linked /\ Linked \subseteq Addr \ {old}
    BY <1>0, <1>3, HeapFree, LinkedFacts
  <2> QED
    BY <1>2, <1>5, <2>1, ContentsSame
<1>7. /\ old \in LiveElements /\ LiveElements' = LiveElements \ {old}
      /\ StorePending' = StorePending
  <2>1. ~Unlinked(old)
    BY <1>0, <1>1 DEF HeapContext, HeapInv, WritersApart, Unlinked, Unlinking
  <2>2. \A a : Unlinked(a)' <=> Unlinked(a)
    BY <1>2, <1>4 DEF Unlinked
  <2>3. StorePending' <=> StorePending
    BY <1>2, <1>4 DEF StorePending
  <2> QED
    BY <1>2, <1>3, <2>1, <2>2, <2>3 DEF LiveElements, StorePending
<1>8. Abstract!Replaced(old)
  <2>1. \A l \in Level : Contents[l] \in LinkedOrNull
    <3>1. built \in Int /\ \A l \in Level : l \in Int
      BY <1>0, ListAssumption DEF SharedTypes, Level
    <3> QED
      BY <3>1 DEF RefContext, ContentsRight, LinkedOrNull
  <2> QED
    BY <1>3, <1>7, <2>1 DEF Abstract!Replaced, LinkedOrNull
\* Who is in the traversal, on the element that goes, came late.
<1>9. \A r \in Readers : rpc[r] \in {"visit", "exit"} /\ rp[r] = old => r \in late
  <2> SUFFICES ASSUME NEW r \in Readers, rpc[r] \in {"visit", "exit"},
                      rp[r] = old, r \notin late
               PROVE  FALSE
    OBVIOUS
  <2>1. rp[r] \in LinkedOrNull \cup Withdrawn(myEpoch[r])
    BY OnTimePlaced DEF RefContext
  <2> QED
    BY <1>3, <2>1 DEF LinkedOrNull
<1>10. \A r \in Readers :
         SearchResults[r] = old /\ SearchPhases[r] = "taken" => r \in OvertakenOnes
  BY <1>9, PhaseFacts DEF FoundBy, OvertakenOnes, Overtaken
<1>11. PICK lost : lost = Holders(old) \ strayed
  OBVIOUS
<1>12. lost \in SUBSET {r \in Readers :
                          \/ SearchPhases[r] = "done" /\ SearchResults[r] = old
                          \/ r \in OvertakenOnes}
  <2> SUFFICES ASSUME NEW r \in Readers, r \notin strayed, rp[r] = old,
                      rpc[r] \in {"visit", "exit", "use"}
               PROVE  \/ SearchPhases[r] = "done" /\ SearchResults[r] = old
                      \/ r \in OvertakenOnes
    BY <1>11 DEF Holders
  <2>1. CASE rpc[r] = "use"
    BY <2>1, PhaseFacts DEF FoundBy
  <2>2. CASE rpc[r] # "use"
    BY <1>9, <2>2 DEF OvertakenOnes, Overtaken
  <2> QED
    BY <2>1, <2>2
<1>13. ASSUME NEW r \in Readers
       PROVE  /\ PhaseOf(r)' = IF r \in lost THEN "lost" ELSE PhaseOf(r)
              /\ FoundBy(r)' = IF r \in lost THEN NULL ELSE FoundBy(r)
  <2>1. CASE r \in lost
    <3>1. r \in strayed'
      BY <1>2, <1>11, <2>1
    <3>2. PhaseOf(r)' = "lost"
      BY <3>1 DEF PhaseOf
    <3> QED
      BY <2>1, <3>2 DEF FoundBy
  <2>2. CASE r \notin lost
    <3>1. r \in strayed' <=> r \in strayed
      BY <1>2, <1>11, <2>2
    <3>2. r \notin strayed => (ArrivedAt(r)' <=> ArrivedAt(r))
      <4>1. r \notin strayed /\ rpc[r] = "visit" => rp[r] \in Addr \ {old}
        <5>1. SearchPlaced(r)
          BY DEF RefContext, SearchContext, SearchInv, SearchSound
        <5> QED
          BY <1>0, <1>11, <2>2, <5>1, ReachableFacts
          DEF SearchPlaced, Holders, ReaderTypes
      <4> QED
        BY <1>2, <1>5, <4>1 DEF ArrivedAt, readerVars
    <3>3. PhaseOf(r)' = PhaseOf(r)
      BY <1>2, <3>1, <3>2 DEF PhaseOf, readerVars
    <3>4. FoundBy(r)' = FoundBy(r)
      BY <1>2, <3>3 DEF FoundBy, readerVars
    <3> QED
      BY <2>2, <3>3, <3>4
  <2> QED
    BY <2>1, <2>2
<1>14. /\ SearchPhases' =
            [r \in Readers |-> IF r \in lost THEN "lost" ELSE SearchPhases[r]]
       /\ SearchResults' =
            [r \in Readers |-> IF r \in lost THEN NULL ELSE SearchResults[r]]
  BY <1>13 DEF SearchPhases, SearchResults
<1>15. OvertakenOnes' = OvertakenOnes /\ rkey' = rkey
  BY <1>2, OvertakenSame DEF readerVars
<1> QED
  BY <1>3, <1>6, <1>7, <1>8, <1>10, <1>12, <1>14, <1>15 DEF Abstract!Destroy

(* The insert of one level more (69-88). *)
LEMMA FillStep ==
  ASSUME AllLevels, RefContext, RefContext', Insert
  PROVE  \E l \in Level, e \in Addr : Abstract!Fill(l, e)
<1>0. /\ ReaderTypes /\ WriterTypes /\ SharedTypes /\ HeapContext
      /\ ContentsRight /\ levelDeep \in Nat
  BY TypeParts, ListAssumption
  DEF RefContext, SearchContext, ListContext, HeapContext
<1>1. /\ \A w \in Writers : wpc[w] = "idle"
      /\ \A r \in Readers : rpc[r] = "idle"
      /\ UNCHANGED <<readerVars, late, strayed, writerVars>>
      /\ built' = built + 1 /\ built \in Level
  BY <1>0
  DEF Insert, HeapContext, HeapInv, BeginsPublished, RefContext,
      SearchContext, ReadersInv, history, SharedTypes, Level, Published
<1>2. PICK a \in Addr \ alloc :
        /\ alloc' = alloc \cup {a} /\ lvl' = [lvl EXCEPT ![a] = built]
        /\ head' = a
        /\ nxt' = [nxt EXCEPT ![a] = head]
  BY DEF Insert
<1>3. Linked' = Linked \cup {a} /\ Linked \subseteq alloc
  BY <1>0, <1>2, HeapInsert, LinkedFacts
<1>4. /\ lvl'[a] = built /\ \A b \in alloc : lvl'[b] = lvl[b]
  BY <1>0, <1>2 DEF SharedTypes
<1>5. Contents[built] = NULL /\ Contents' = [Contents EXCEPT ![built] = a]
  <2>1. \A l \in Level : l \in Int /\ built \in Int
    BY <1>0 DEF Level, SharedTypes
  <2>2. Contents[built] = NULL
    BY <1>0, <1>1, <2>1 DEF ContentsRight
  <2>3. Contents'[built] = a
    BY <1>3, <1>4 DEF RefContext, ContentsRight
  <2>4. ASSUME NEW l \in Level, l # built PROVE Contents'[l] = Contents[l]
    <3>1. CASE l < built
      <4>1. PICK b \in Linked : b = Contents[l] /\ lvl[b] = l
        BY <1>0, <3>1 DEF ContentsRight
      <4>2. b \in Linked' /\ lvl'[b] = l
        BY <1>3, <1>4, <4>1
      <4> QED
        BY <4>1, <4>2 DEF RefContext, ContentsRight
    <3>2. CASE l > built
      <4>1. l >= built /\ l >= built'
        BY <1>1, <2>1, <3>2
      <4> QED
        BY <4>1 DEF RefContext, ContentsRight
    <3> QED
      BY <2>1, <2>4, <3>1, <3>2
  <2>5. Contents = [l \in Level |-> Contents[l]]
    BY DEF Contents
  <2>6. Contents' = [l \in Level |-> Contents'[l]]
    BY DEF Contents
  <2> QED
    BY <1>1, <2>2, <2>3, <2>4, <2>5, <2>6
<1>6. a \notin LiveElements /\ LiveElements' = LiveElements \cup {a}
  <2>1. \A b : ~Unlinked(b) /\ ~Unlinked(b)'
    BY <1>1 DEF Unlinked, writerVars
  <2> QED
    BY <1>2, <2>1 DEF LiveElements
<1>7. StorePending' = StorePending
  BY <1>1 DEF StorePending, writerVars
<1>8. SearchPhases' = SearchPhases /\ SearchResults' = SearchResults
  BY <1>1, <1>4, PhasesSame
<1>9. OvertakenOnes' = OvertakenOnes /\ rkey' = rkey
  BY <1>1 DEF OvertakenOnes, Overtaken, readerVars
<1> QED
  BY <1>1, <1>2, <1>5, <1>6, <1>7, <1>8, <1>9 DEF Abstract!Fill, Abstract!Put

(* What a step of a search does to what is seen of it. *)
LEMMA ReaderSeen ==
  ASSUME RefContext, NEW r \in Readers, ReaderStep(r),
         NEW ph, PhaseOf(r)' = ph, NEW fo, FoundBy(r)' = fo
  PROVE  /\ UNCHANGED <<Contents, LiveElements, StorePending>>
         /\ SearchPhases' = [SearchPhases EXCEPT ![r] = ph]
         /\ SearchResults' = [SearchResults EXCEPT ![r] = fo]
         /\ ph = PhaseOf(r) => SearchPhases' = SearchPhases
         /\ fo = FoundBy(r) => SearchResults' = SearchResults
         /\ \A q \in Readers \ {r} : q \in OvertakenOnes' <=> q \in OvertakenOnes
<1>0. ReaderTypes
  BY TypeParts DEF RefContext, SearchContext, ListContext, HeapContext
<1>1. UNCHANGED <<heap, epoch, built, writerVars>>
  BY DEF ReaderStep, InSearch, SearchBegin, WaitInterrupted, Register,
         ReadHead, Visit, Deregister, UseElement
<1>2. \A a : (Unlinked(a)' <=> Unlinked(a)) /\ (BeingRemoved(a)' <=> BeingRemoved(a))
  BY <1>1 DEF Unlinked, BeingRemoved, writerVars
<1>3. LiveElements' = LiveElements
  BY <1>1, <1>2 DEF LiveElements, heap
<1>4. Contents' = Contents
  <2>1. \A l \in Level : Current(l)' = Current(l)
    BY <1>1 DEF Current, Unlinked, BeingRemoved, heap, writerVars
  <2> QED
    BY <2>1 DEF Contents
<1>5. StorePending' = StorePending
  BY <1>1 DEF StorePending, writerVars
<1>6. ASSUME NEW q \in Readers \ {r}
      PROVE  /\ PhaseOf(q)' = PhaseOf(q) /\ FoundBy(q)' = FoundBy(q)
             /\ Overtaken(q)' <=> Overtaken(q)
  <2>1. /\ rpc'[q] = rpc[q] /\ rp'[q] = rp[q] /\ myEpoch'[q] = myEpoch[q]
        /\ rkey'[q] = rkey[q]
        /\ q \in late' <=> q \in late
        /\ q \in strayed' <=> q \in strayed
    BY <1>0, ReaderLeaves
  <2>2. lvl' = lvl /\ epoch' = epoch
    BY <1>1 DEF heap
  <2>3. PhaseOf(q)' = PhaseOf(q)
    BY <2>1, <2>2 DEF PhaseOf, ArrivedAt
  <2>4. FoundBy(q)' = FoundBy(q)
    BY <2>1, <2>3 DEF FoundBy
  <2>5. Overtaken(q)' <=> Overtaken(q)
    BY <2>1, <2>2 DEF Overtaken
  <2> QED
    BY <2>3, <2>4, <2>5
<1>7. /\ SearchPhases' = [SearchPhases EXCEPT ![r] = ph]
      /\ ph = PhaseOf(r) => SearchPhases' = SearchPhases
  BY <1>6 DEF SearchPhases
<1>8. /\ SearchResults' = [SearchResults EXCEPT ![r] = fo]
      /\ fo = FoundBy(r) => SearchResults' = SearchResults
  BY <1>6 DEF SearchResults
<1>9. \A q \in Readers \ {r} : q \in OvertakenOnes' <=> q \in OvertakenOnes
  BY <1>6 DEF OvertakenOnes
<1> QED
  BY <1>3, <1>4, <1>5, <1>7, <1>8, <1>9

\* A step of a search that is not seen.
QuietFor(r) ==
  /\ PhaseOf(r)' = PhaseOf(r) /\ FoundBy(r)' = FoundBy(r)
  /\ rkey' = rkey
  /\ Overtaken(r)' <=> Overtaken(r)

LEMMA QuietReader ==
  ASSUME RefContext, NEW r \in Readers, ReaderStep(r), QuietFor(r)
  PROVE  UNCHANGED Abstract!vars
<1>1. PICK ph, fo : ph = PhaseOf(r) /\ fo = FoundBy(r)
  OBVIOUS
<1>2. PhaseOf(r)' = ph /\ FoundBy(r)' = fo
  BY <1>1 DEF QuietFor
<1>3. /\ UNCHANGED <<Contents, LiveElements, StorePending>>
      /\ SearchPhases' = SearchPhases /\ SearchResults' = SearchResults
      /\ \A q \in Readers \ {r} : q \in OvertakenOnes' <=> q \in OvertakenOnes
  BY <1>1, <1>2, ReaderSeen
<1>4. OvertakenOnes' = OvertakenOnes
  BY <1>3 DEF OvertakenOnes, QuietFor
<1> QED
  BY <1>3, <1>4 DEF Abstract!vars, QuietFor

(* The call of a search, and its registration (37-46). *)
LEMMA CallStep ==
  ASSUME RefContext, NEW r \in Readers, NEW k \in SearchKeys, SearchBegin(r, k)
  PROVE  Abstract!Call(r, k) /\ k \in Level
<1>0. /\ ReaderTypes /\ SharedTypes /\ ContentsRight /\ LateRegistered(r)
      /\ k \in Level /\ HeapContext /\ NULL \notin Linked
  BY TypeParts, ListAssumption, LinkedFacts
  DEF RefContext, SearchContext, ListContext, HeapContext, SearchInv,
      SearchSound
<1>1. /\ Published /\ rpc[r] = "idle" /\ rpc'[r] = "wait"
      /\ rkey' = [rkey EXCEPT ![r] = k] /\ myEpoch'[r] = epoch'
      /\ UNCHANGED <<late, strayed>>
  BY <1>0 DEF SearchBegin, ReaderTypes, history
<1>2. r \notin strayed /\ r \notin late
  BY <1>0, <1>1, PhaseFacts DEF LateRegistered
<1>3. PhaseOf(r) = "idle" /\ PhaseOf(r)' = "called"
  BY <1>1, <1>2 DEF PhaseOf, ArrivedAt
<1>4. FoundBy(r) = NULL /\ FoundBy(r)' = NULL
  BY <1>3 DEF FoundBy
<1>5. r \notin OvertakenOnes /\ r \notin OvertakenOnes'
  BY <1>1, <1>2 DEF OvertakenOnes, Overtaken
<1>6. Abstract!Filled
  BY <1>0, <1>1, ListAssumption
  DEF Abstract!Filled, ContentsRight, Published, Level
<1>7. /\ UNCHANGED <<Contents, LiveElements, StorePending>>
      /\ SearchPhases' = [SearchPhases EXCEPT ![r] = "called"]
      /\ SearchResults' = SearchResults
      /\ \A q \in Readers \ {r} : q \in OvertakenOnes' <=> q \in OvertakenOnes
  BY <1>3, <1>4, ReaderSeen DEF ReaderStep
<1>8. OvertakenOnes' = OvertakenOnes
  BY <1>5, <1>7 DEF OvertakenOnes
<1>9. SearchPhases[r] = "idle"
  BY <1>3, PhaseFacts
<1> QED
  BY <1>0, <1>1, <1>6, <1>7, <1>8, <1>9 DEF Abstract!Call

LEMMA StartStep ==
  ASSUME RefContext, NEW r \in Readers, Register(r)
  PROVE  Abstract!Start(r)
<1>0. ReaderTypes /\ LateRegistered(r)
  BY TypeParts
  DEF RefContext, SearchContext, ListContext, HeapContext, SearchInv,
      SearchSound
<1>1. /\ rpc[r] = "wait" /\ rpc'[r] = "head"
      /\ r \notin late /\ (r \in late' <=> myEpoch[r] # epoch)
      /\ UNCHANGED <<epoch, rkey, strayed>>
  BY <1>0 DEF Register, ReaderTypes, LateRegistered
<1>2. r \notin strayed
  BY <1>1, PhaseFacts
<1>3. PhaseOf(r) = "called" /\ PhaseOf(r)' = "looking"
  BY <1>1, <1>2 DEF PhaseOf, ArrivedAt
<1>4. FoundBy(r) = NULL /\ FoundBy(r)' = NULL
  BY <1>3 DEF FoundBy
<1>5. r \in OvertakenOnes <=> r \in OvertakenOnes'
  BY <1>1 DEF OvertakenOnes, Overtaken
<1>6. /\ UNCHANGED <<Contents, LiveElements, StorePending>>
      /\ SearchPhases' = [SearchPhases EXCEPT ![r] = "looking"]
      /\ SearchResults' = SearchResults
      /\ \A q \in Readers \ {r} : q \in OvertakenOnes' <=> q \in OvertakenOnes
  BY <1>3, <1>4, ReaderSeen DEF ReaderStep
<1>7. OvertakenOnes' = OvertakenOnes
  BY <1>5, <1>6 DEF OvertakenOnes
<1>8. SearchPhases[r] = "called"
  BY <1>3, PhaseFacts
<1> QED
  BY <1>1, <1>6, <1>7, <1>8 DEF Abstract!Start

(* A search that goes on to an element takes it if it has the level of the *)
(* search.                                                                 *)
LEMMA ArriveStep ==
  ASSUME RefContext, NEW r \in Readers, ReaderStep(r), r \notin strayed,
         rpc[r] \in {"head", "visit"}, ~ArrivedAt(r), NEW q, rp'[r] = q,
         rpc'[r] = IF q = NULL THEN "exit" ELSE "visit",
         UNCHANGED <<lvl, rkey, epoch, late>>, r \notin strayed',
         q = NULL => StorePending \/ r \in late,
         q # NULL /\ lvl[q] = rkey[r] =>
           \/ q = Contents[rkey[r]]
           \/ r \in late /\ q \in LiveElements
  PROVE  Abstract!Take(r) \/ UNCHANGED Abstract!vars
<1>0. rkey[r] \in Level
  BY TypeParts
  DEF RefContext, SearchContext, ListContext, HeapContext, ReaderTypes
<1>1. PhaseOf(r) = "looking" /\ FoundBy(r) = NULL
  BY DEF PhaseOf, FoundBy
<1>2. /\ Overtaken(r) <=> r \in late
      /\ Overtaken(r)' <=> r \in late
  BY DEF Overtaken
<1>3. ArrivedAt(r)' <=> q # NULL /\ lvl[q] = rkey[r]
  BY DEF ArrivedAt
<1>4. CASE q # NULL /\ lvl[q] # rkey[r]
  <2>1. PhaseOf(r)' = "looking" /\ FoundBy(r)' = NULL
    BY <1>3, <1>4 DEF PhaseOf, FoundBy
  <2> QED
    BY <1>1, <1>2, <2>1, QuietReader DEF QuietFor
<1>5. CASE q = NULL \/ lvl[q] = rkey[r]
  <2>1. PhaseOf(r)' = "taken" /\ FoundBy(r)' = q
    BY <1>3, <1>5 DEF PhaseOf, FoundBy
  <2>2. /\ UNCHANGED <<Contents, LiveElements, StorePending>>
        /\ SearchPhases' = [SearchPhases EXCEPT ![r] = "taken"]
        /\ SearchResults' = [SearchResults EXCEPT ![r] = q]
        /\ \A p \in Readers \ {r} : p \in OvertakenOnes' <=> p \in OvertakenOnes
    BY <2>1, ReaderSeen
  <2>3. OvertakenOnes' = OvertakenOnes /\ (r \in OvertakenOnes <=> r \in late)
    BY <1>2, <2>2 DEF OvertakenOnes
  <2>4. q \in Abstract!Allowed(r)
    BY <1>5, <2>3 DEF Abstract!Allowed
  <2>5. SearchPhases[r] = "looking"
    BY <1>1, PhaseFacts
  <2> QED
    BY <2>2, <2>3, <2>4, <2>5 DEF Abstract!Take
<1> QED
  BY <1>4, <1>5

(* 48-50: to the head, and from one element to the next. *)
LEMMA TraverseSteps ==
  ASSUME RefContext, NEW r \in Readers, ReadHead(r) \/ Visit(r)
  PROVE  Abstract!Take(r) \/ UNCHANGED Abstract!vars
<1>0. /\ ReaderTypes /\ SharedTypes /\ HeapContext /\ SearchContext
      /\ ContentsRight /\ NULL \notin Linked
      /\ ReaderStep(r)
  BY TypeParts, LinkedFacts
  DEF RefContext, SearchContext, ListContext, HeapContext, ReaderStep, InSearch
<1>1. CASE ReadHead(r)
  <2>1. /\ rpc[r] = "head" /\ rp'[r] = head
        /\ rpc'[r] = IF head = NULL THEN "exit" ELSE "visit"
        /\ UNCHANGED <<lvl, rkey, epoch, late, strayed>>
    BY <1>0, <1>1 DEF ReadHead, ReaderTypes, heap, history
  <2>2. r \notin strayed
    BY <2>1, PhaseFacts
  <2>3. Published
    BY <1>0, <2>1 DEF SearchContext, ReadersInv
  <2>4. head \in Linked
    BY <2>3, ListAssumption
    DEF RefContext, SearchContext, ListContext, ListInv, ListComplete, Published
  <2>5. Contents[lvl[head]] = head /\ head # NULL
    BY <1>0, <2>4 DEF ContentsRight
  <2>6. ~ArrivedAt(r)
    BY <2>1 DEF ArrivedAt
  <2> QED
    BY <1>0, <2>1, <2>2, <2>5, <2>6, ArriveStep
<1>2. CASE Visit(r) /\ r \in strayed
  <2>1. r \in strayed' /\ UNCHANGED <<rkey, late, epoch>> /\ rpc[r] = "visit"
    BY <1>2 DEF Visit, VisitElement, VisitFreed, StopAtElement, MoveTo
  <2>2. rpc'[r] # "wait"
    BY <1>0, <1>2
    DEF Visit, VisitElement, VisitFreed, StopAtElement, MoveTo, ReaderTypes
  <2>3. PhaseOf(r) = "lost" /\ PhaseOf(r)' = "lost"
    BY <1>2, <2>1 DEF PhaseOf
  <2>4. FoundBy(r)' = FoundBy(r)
    BY <2>3 DEF FoundBy
  <2>5. Overtaken(r)' <=> Overtaken(r)
    BY <2>1, <2>2 DEF Overtaken
  <2> QED
    BY <1>0, <2>1, <2>3, <2>4, <2>5, QuietReader DEF QuietFor
<1>3. CASE Visit(r) /\ r \notin strayed /\ ArrivedAt(r)
  <2>1. /\ rpc[r] = "visit" /\ rpc'[r] = "exit"
        /\ UNCHANGED <<rkey, late, epoch, rp, strayed>>
    BY <1>0, <1>3
    DEF Visit, VisitElement, VisitFreed, StopAtElement, ArrivedAt, ReaderTypes
  <2>2. PhaseOf(r) = "taken" /\ PhaseOf(r)' = "taken"
    BY <1>3, <2>1 DEF PhaseOf
  <2>3. FoundBy(r)' = FoundBy(r)
    BY <2>1, <2>2 DEF FoundBy
  <2>4. Overtaken(r)' <=> Overtaken(r)
    BY <2>1 DEF Overtaken
  <2> QED
    BY <1>0, <2>1, <2>2, <2>3, <2>4, QuietReader DEF QuietFor
<1>4. CASE Visit(r) /\ r \notin strayed /\ ~ArrivedAt(r)
  <2>1. PICK q : q = nxt[rp[r]]
    OBVIOUS
  <2>2. rpc[r] = "visit" /\ lvl[rp[r]] # rkey[r]
    BY <1>4 DEF Visit, ArrivedAt
  <2>3. /\ rp'[r] = q /\ rpc'[r] = IF q = NULL THEN "exit" ELSE "visit"
        /\ strayed' = IF q \in Addr \ alloc THEN strayed \cup {r} ELSE strayed
        /\ UNCHANGED <<lvl, rkey, epoch, late>>
    BY <1>0, <1>4, <2>1, <2>2
    DEF Visit, VisitElement, VisitFreed, MoveTo, ReaderTypes, heap
  <2>4. /\ q \in LinkedOrNull \cup Withdrawn(myEpoch[r])
        /\ r \notin late =>
             \/ q = NULL /\ StorePending
             \/ q \in Linked /\ lvl[q] >= rkey[r]
    BY <1>0, <1>4, <2>1, <2>2, NextPlace
  <2>5. q # NULL => q \in LiveElements /\ q \in alloc
    BY <1>0, <2>4, WithdrawnNotFreed DEF LiveElements
  <2>6. r \notin strayed'
    BY <1>4, <2>3, <2>5, ListAssumption
  <2>7. q \in Linked => Contents[lvl[q]] = q
    BY <1>0 DEF ContentsRight
  <2> QED
    BY <1>0, <1>4, <2>2, <2>3, <2>4, <2>5, <2>6, <2>7, ArriveStep
<1> QED
  BY <1>1, <1>2, <1>3, <1>4

(* 56-58, and the use of the result: the search ends, and the call returns. *)
LEMMA ReturnStep ==
  ASSUME RefContext, NEW r \in Readers, ReaderStep(r), EndSearch(r),
         rpc[r] \in {"exit", "use"}, rpc[r] = "exit" => rp[r] = NULL
  PROVE  Abstract!Return(r)
<1>0. /\ ReaderTypes /\ SharedTypes /\ levelDeep \in Nat \ {0} /\ 0 \in Level
  BY TypeParts, ListAssumption
  DEF RefContext, SearchContext, ListContext, HeapContext, Level
<1>1. /\ rpc'[r] = "idle" /\ rkey' = [rkey EXCEPT ![r] = 0]
      /\ r \notin strayed' /\ r \notin late'
  BY <1>0 DEF EndSearch, ReaderTypes
<1>2. PhaseOf(r)' = "idle"
  BY <1>1 DEF PhaseOf, ArrivedAt
<1>3. FoundBy(r)' = NULL
  BY <1>2 DEF FoundBy
<1>4. \/ PhaseOf(r) \in {"done", "lost"}
      \/ PhaseOf(r) = "taken" /\ FoundBy(r) = NULL
  BY DEF PhaseOf, FoundBy, ArrivedAt
<1>5. /\ UNCHANGED <<Contents, LiveElements, StorePending>>
      /\ SearchPhases' = [SearchPhases EXCEPT ![r] = "idle"]
      /\ SearchResults' = [SearchResults EXCEPT ![r] = NULL]
      /\ \A q \in Readers \ {r} : q \in OvertakenOnes' <=> q \in OvertakenOnes
  BY <1>2, <1>3, ReaderSeen
<1>6. r \notin OvertakenOnes'
  BY <1>1 DEF OvertakenOnes, Overtaken
<1>7. OvertakenOnes' = OvertakenOnes \ {r}
  BY <1>5, <1>6 DEF OvertakenOnes
<1>8. SearchPhases[r] = PhaseOf(r) /\ SearchResults[r] = FoundBy(r)
  BY PhaseFacts
<1> QED
  BY <1>0, <1>1, <1>4, <1>5, <1>7, <1>8 DEF Abstract!Return

LEMMA LeaveSteps ==
  ASSUME RefContext, NEW r \in Readers, Deregister(r) \/ UseElement(r)
  PROVE  \/ Abstract!Finish(r) \/ Abstract!Return(r)
         \/ UNCHANGED Abstract!vars
<1>0. ReaderTypes /\ ReaderStep(r)
  BY TypeParts
  DEF RefContext, SearchContext, ListContext, HeapContext, ReaderStep, InSearch
<1>1. CASE UseElement(r)
  BY <1>0, <1>1, ReturnStep DEF UseElement
<1>2. CASE Deregister(r) /\ rp[r] = NULL
  BY <1>0, <1>2, ReturnStep DEF Deregister
<1>3. CASE Deregister(r) /\ rp[r] # NULL
  <2>1. /\ rpc[r] = "exit" /\ rpc'[r] = "use"
        /\ UNCHANGED <<rkey, epoch, late, rp, strayed>>
    BY <1>0, <1>3 DEF Deregister, ReaderTypes
  <2>2. Overtaken(r)' <=> Overtaken(r)
    BY <2>1 DEF Overtaken
  <2>3. CASE r \in strayed
    <3>1. PhaseOf(r) = "lost" /\ PhaseOf(r)' = "lost"
      BY <2>1, <2>3 DEF PhaseOf
    <3>2. FoundBy(r)' = FoundBy(r)
      BY <3>1 DEF FoundBy
    <3> QED
      BY <1>0, <2>1, <2>2, <3>1, <3>2, QuietReader DEF QuietFor
  <2>4. CASE r \notin strayed
    <3>1. PhaseOf(r) = "taken" /\ PhaseOf(r)' = "done"
      BY <2>1, <2>4 DEF PhaseOf, ArrivedAt
    <3>2. FoundBy(r) = rp[r] /\ FoundBy(r)' = rp[r]
      BY <2>1, <3>1 DEF FoundBy
    <3>3. PICK fo : fo = FoundBy(r)
      OBVIOUS
    <3>4. /\ UNCHANGED <<Contents, LiveElements, StorePending>>
          /\ SearchPhases' = [SearchPhases EXCEPT ![r] = "done"]
          /\ SearchResults' = SearchResults
          /\ \A q \in Readers \ {r} : q \in OvertakenOnes' <=> q \in OvertakenOnes
      BY <1>0, <3>1, <3>2, <3>3, ReaderSeen
    <3>5. OvertakenOnes' = OvertakenOnes
      BY <2>2, <3>4 DEF OvertakenOnes
    <3>6. SearchPhases[r] = "taken" /\ SearchResults[r] # NULL
      BY <1>3, <3>1, <3>2, PhaseFacts
    <3> QED
      BY <2>1, <3>4, <3>5, <3>6 DEF Abstract!Finish
  <2> QED
    BY <2>3, <2>4
<1> QED
  BY <1>1, <1>2, <1>3

\* What the list with its searches does, seen from the callers.
RefinesStep ==
  \/ \E l \in Level, e \in Addr : Abstract!Fill(l, e) \/ Abstract!Store(l, e)
  \/ Abstract!Complete
  \/ \E e \in Addr : Abstract!Destroy(e)
  \/ \E r \in Readers : \/ \E l \in Level : Abstract!Call(r, l)
                        \/ Abstract!Start(r) \/ Abstract!Take(r)
                        \/ Abstract!Finish(r) \/ Abstract!Return(r)
  \/ UNCHANGED Abstract!vars

LEMMA WriterRefines ==
  ASSUME AllLevels, RefContext, RefContext', NEW w \in Writers, WriterStep(w)
  PROVE  RefinesStep
<1>1. /\ ~ \E k \in RemoveKeys : RemoveBegin(w, k)
      /\ ~RemoveScan(w) /\ ~RemoveSearch(w) /\ ~RemoveDrain(w)
  BY DEF AllLevels, RefContext, SearchContext, ListContext, ListInv,
         ReplaceOnTrack, RemoveScan, RemoveSearch, RemoveDrain
<1>2. CASE FlipEpoch(w)
  BY <1>2, CompleteStep DEF RefinesStep
<1>3. CASE FreeRemoved(w)
  BY <1>3, DestroyStep DEF RefinesStep
<1>4. CASE \/ ReplaceScan(w) /\ ReplaceHead(w)
           \/ ReplaceSearch(w) /\ LinkAfter(w, welem[w])
  BY <1>4, LinkSteps DEF RefinesStep
<1>5. CASE \/ \E k \in ReplaceKeys : ReplaceBegin(w, k)
           \/ Acquire(w) \/ ReplaceFix(w) \/ GraceEnd(w) \/ SpinForever(w)
           \/ ReplaceScan(w) /\ ~ReplaceHead(w)
           \/ ReplaceSearch(w) /\ ~LinkAfter(w, welem[w])
  BY <1>5, QuietSteps DEF RefinesStep
<1> QED
  BY <1>1, <1>2, <1>3, <1>4, <1>5 DEF WriterStep, UnderLock

LEMMA ReaderRefines ==
  ASSUME MaxInterrupts = 0, RefContext, NEW r \in Readers, ReaderStep(r)
  PROVE  RefinesStep
<1>1. ~WaitInterrupted(r)
  BY DEF RefContext, SearchContext, SearchInv, Uninterrupted, Epochs,
         WaitInterrupted
<1>2. CASE \E k \in SearchKeys : SearchBegin(r, k)
  BY <1>2, CallStep DEF RefinesStep
<1>3. CASE Register(r)
  BY <1>3, StartStep DEF RefinesStep
<1>4. CASE ReadHead(r) \/ Visit(r)
  BY <1>4, TraverseSteps DEF RefinesStep
<1>5. CASE Deregister(r) \/ UseElement(r)
  BY <1>5, LeaveSteps DEF RefinesStep
<1> QED
  BY <1>1, <1>2, <1>3, <1>4, <1>5 DEF ReaderStep, InSearch

(* Every step is one of AtomicLevels, or is not seen. *)
LEMMA NextRefines ==
  ASSUME AllLevels, MaxInterrupts = 0, RefContext, RefContext', [Next]_vars
  PROVE  [Abstract!Next]_(Abstract!vars)
<1>1. CASE Insert
  BY <1>1, FillStep DEF RefinesStep, Abstract!Next
<1>2. CASE InsertFails
  BY <1>2 DEF InsertFails, AllLevels
<1>3. CASE UNCHANGED vars
  <2>1. UNCHANGED Contents
    BY <1>3
    DEF Contents, Current, Unlinked, BeingRemoved, vars, heap, writerVars
  <2>2. UNCHANGED <<LiveElements, StorePending>>
    BY <1>3 DEF LiveElements, StorePending, Unlinked, vars, heap, writerVars
  <2>3. UNCHANGED <<SearchPhases, SearchResults>>
    BY <1>3
    DEF SearchPhases, SearchResults, PhaseOf, FoundBy, ArrivedAt, vars, heap,
        readerVars, history
  <2>4. UNCHANGED <<rkey, OvertakenOnes>>
    BY <1>3 DEF OvertakenOnes, Overtaken, vars, readerVars, history
  <2> QED
    BY <2>1, <2>2, <2>3, <2>4 DEF Abstract!vars
<1>4. RefinesStep => [Abstract!Next]_(Abstract!vars)
  BY DEF RefinesStep, Abstract!Next
<1> QED
  BY <1>1, <1>2, <1>3, <1>4, ReaderRefines, WriterRefines DEF Next

LEMMA InitRefines == Init => Abstract!Init
<1> SUFFICES ASSUME Init PROVE Abstract!Init
  OBVIOUS
<1>0. 0 \in Level /\ \A l \in Level : l >= 0
  BY ListAssumption DEF Level
<1>1. Contents = [l \in Level |-> NULL]
  BY <1>0 DEF Init, Contents, Current
<1>2. LiveElements = {} /\ StorePending = FALSE /\ OvertakenOnes = {}
  BY DEF Init, LiveElements, StorePending, OvertakenOnes, Overtaken
<1>3. \A r \in Readers : PhaseOf(r) = "idle" /\ FoundBy(r) = NULL
  BY DEF Init, PhaseOf, FoundBy, ArrivedAt
<1>4. /\ SearchPhases = [r \in Readers |-> "idle"]
      /\ SearchResults = [r \in Readers |-> NULL]
  BY <1>3 DEF SearchPhases, SearchResults
<1>5. rkey \in [Readers -> Level]
  BY <1>0 DEF Init
<1> QED
  BY <1>1, <1>2, <1>4, <1>5 DEF Abstract!Init

(* The list as the callers of rcu_list_replace and rcu_list_search see it: *)
(* when the writers replace levels of the service, every insert got its    *)
(* memory and no signal ends a wait, a replace is an atomic store of its   *)
(* level, complete when the epoch flips; a search takes, at the one moment *)
(* it arrives, what its level then holds; and an element is freed under no *)
(* search but one whose epoch had ended before it registered.              *)
THEOREM RefinesAtomicLevels ==
  AllLevels /\ MaxInterrupts = 0 => (Spec => ImplementsAtomicLevels)
<1> SUFFICES ASSUME AllLevels, MaxInterrupts = 0
             PROVE  Spec => ImplementsAtomicLevels
  OBVIOUS
<1> DEFINE Inv == /\ TypeInv /\ SectionHoldsLock /\ HeapInv /\ ListInv
                  /\ StandingAccounting /\ ReadersInv /\ SearchInv
<1>1. Inv => RefContext
  BY ContentsFacts DEF RefContext, SearchContext, ListContext, HeapContext
<1>2. Inv' => RefContext'
  BY <1>1, PTL
<1>3. Inv /\ Inv' /\ [Next]_vars => [Abstract!Next]_(Abstract!vars)
  BY <1>1, <1>2, NextRefines
<1>4. Spec => []Inv
  BY TypeInvariant, WriterExclusion, HeapInvariant, ListInvariant,
     StandingCounts, ReadersAlways, SearchInvariant, PTL
<1> QED
  BY <1>3, <1>4, InitRefines, PTL
  DEF Spec, ImplementsAtomicLevels, Abstract!Spec

=============================================================================
