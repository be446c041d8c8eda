---------------------------- MODULE RcuListProofs ----------------------------
(***************************************************************************)
(* What holds of RcuList for any number of readers, writers, addresses and *)
(* levels: types, mutual exclusion of the writers, and the meaning of      *)
(* standing[].                                                             *)
(***************************************************************************)
EXTENDS RcuList, FiniteSetTheorems, TLAPS

\* The pointers that the code dereferences without a test are not NULL.
DereferencesOK ==
  /\ \A r \in Readers : rpc[r] = "visit" => rp[r] # NULL
  /\ \A w \in Writers : /\ wpc[w] \in {"search", "rsearch"} => welem[w] # NULL
                        /\ wpc[w] = "fix" => removed[w] # NULL

TypeInv == TypeOK /\ DereferencesOK

\* What the steps of the readers and of the writers may do to the types.
ReaderTypes ==
  /\ rpc \in [Readers -> ReaderPCs]
  /\ rkey \in [Readers -> Level]
  /\ myEpoch \in [Readers -> Epochs]
  /\ rp \in [Readers -> Ptr]
  /\ late \subseteq Readers
  /\ strayed \subseteq Readers
  /\ \A r \in Readers : rpc[r] = "visit" => rp[r] # NULL

WriterTypes ==
  /\ wpc \in [Writers -> WriterPCs]
  /\ wkey \in [Writers -> Int]
  /\ wnew \in [Writers -> Ptr]
  /\ welem \in [Writers -> Ptr]
  /\ removed \in [Writers -> Ptr]
  /\ graceEpoch \in [Writers -> Epochs]
  /\ \A w \in Writers : /\ wpc[w] \in {"search", "rsearch"} => welem[w] # NULL
                        /\ wpc[w] = "fix" => removed[w] # NULL

SharedTypes ==
  /\ head \in Ptr
  /\ nxt \in [Addr -> Ptr]
  /\ lvl \in [Addr -> Int]
  /\ alloc \subseteq Addr
  /\ epoch \in Epochs
  /\ standing \in [Epochs -> Int]
  /\ wlock \in Writers \cup {NULL}
  /\ built \in 0 .. levelDeep
  /\ interrupted \in [Epochs -> Nat]

(* The three parts are the invariant. *)
LEMMA TypeParts == TypeInv <=> ReaderTypes /\ WriterTypes /\ SharedTypes
BY DEF TypeInv, TypeOK, DereferencesOK, ReaderTypes, WriterTypes, SharedTypes

(* The initial state is well typed. *)
LEMMA TypeInit == Init => TypeInv
BY ListAssumption
DEF Init, TypeInv, TypeOK, DereferencesOK, ReaderPCs, WriterPCs, Level, Ptr,
    Epochs

(* rcu_list_insert *)
LEMMA TypeInsert == TypeInv /\ Insert => TypeInv'
<1> SUFFICES ASSUME TypeInv, Insert PROVE TypeInv'
  OBVIOUS
<1>0. ReaderTypes /\ WriterTypes /\ SharedTypes
  BY TypeParts
<1>1. built' \in 0 .. levelDeep
  BY <1>0, ListAssumption DEF SharedTypes, Insert, Published
<1>2. epoch' \in Epochs
  BY <1>0 DEF SharedTypes, Insert, Flipped, Epochs
<1>3. /\ head' \in Ptr /\ alloc' \subseteq Addr
      /\ nxt' \in [Addr -> Ptr] /\ lvl' \in [Addr -> Int]
  BY <1>0, ListAssumption DEF SharedTypes, Insert, Ptr
<1>4. SharedTypes'
  BY <1>0, <1>1, <1>2, <1>3 DEF SharedTypes, Insert, history
<1>5. ReaderTypes' /\ WriterTypes'
  BY <1>0 DEF ReaderTypes, WriterTypes, Insert, readerVars, writerVars, history
<1> QED
  BY <1>4, <1>5, TypeParts DEF TypeInv, TypeOK, DereferencesOK, ReaderTypes,
     WriterTypes, SharedTypes

(* rcu_list_insert without memory *)
LEMMA TypeInsertFails == TypeInv /\ InsertFails => TypeInv'
<1> SUFFICES ASSUME TypeInv, InsertFails PROVE TypeInv'
  OBVIOUS
<1>0. ReaderTypes /\ WriterTypes /\ SharedTypes
  BY TypeParts
<1>1. built' \in 0 .. levelDeep
  BY <1>0, ListAssumption DEF SharedTypes, InsertFails, Published
<1>2. ReaderTypes' /\ WriterTypes' /\ SharedTypes'
  BY <1>0, <1>1
  DEF ReaderTypes, WriterTypes, SharedTypes, InsertFails, readerVars,
      writerVars, history, heap
<1> QED
  BY <1>2 DEF TypeInv, TypeOK, DereferencesOK, ReaderTypes, WriterTypes,
              SharedTypes

(* A reader that leaves rcu_list_search or tag_receive. *)
LEMMA TypeEndSearch ==
  ASSUME ReaderTypes, NEW r \in Readers, EndSearch(r)
  PROVE  ReaderTypes'
BY ListAssumption DEF ReaderTypes, EndSearch, ReaderPCs, Ptr, Level, Epochs

(* Steps of rcu_list_search. *)
LEMMA TypeReader ==
  ASSUME TypeInv, NEW r \in Readers, ReaderStep(r)
  PROVE  TypeInv'
<1> USE DEF heap, writerVars, readerVars, history
<1>0. ReaderTypes /\ WriterTypes /\ SharedTypes
  BY TypeParts
<1>1. WriterTypes'
  BY <1>0
  DEF WriterTypes, ReaderStep, InSearch, SearchBegin, WaitInterrupted, Register,
      ReadHead, Visit, Deregister, UseElement
<1>2. SharedTypes'
  <2>1. CASE WaitInterrupted(r)
    BY <1>0, <2>1 DEF SharedTypes, ReaderTypes, WaitInterrupted, Epochs
  <2>2. CASE Register(r)
    BY <1>0, <2>2 DEF SharedTypes, ReaderTypes, Register, Epochs
  <2>3. CASE Deregister(r)
    BY <1>0, <2>3
    DEF SharedTypes, ReaderTypes, Deregister, Deregistered, Epochs
  <2>4. CASE \/ \E k \in SearchKeys : SearchBegin(r, k)
             \/ ReadHead(r) \/ Visit(r) \/ UseElement(r)
    BY <1>0, <2>4 DEF SharedTypes, SearchBegin, ReadHead, Visit, UseElement
  <2> QED
    BY <2>1, <2>2, <2>3, <2>4 DEF ReaderStep, InSearch
<1>3. ReaderTypes'
  <2>1. CASE \E k \in SearchKeys : SearchBegin(r, k)
    BY <1>0, <2>1, ListAssumption
    DEF ReaderTypes, SharedTypes, SearchBegin, ReaderPCs
  <2>2. CASE WaitInterrupted(r)
    BY <1>0, <2>2, TypeEndSearch DEF WaitInterrupted
  <2>3. CASE Register(r)
    BY <1>0, <2>3 DEF ReaderTypes, Register, ReaderPCs
  <2>4. CASE ReadHead(r)
    BY <1>0, <2>4 DEF ReaderTypes, SharedTypes, ReadHead, ReaderPCs
  <2>5. CASE Visit(r)
    <3>1. ASSUME NEW q \in Ptr, MoveTo(r, q), UNCHANGED <<rkey, myEpoch, late>>
          PROVE  ReaderTypes'
      BY <1>0, <3>1 DEF ReaderTypes, MoveTo, ReaderPCs
    <3>2. ASSUME StopAtElement(r), UNCHANGED <<rkey, myEpoch, late>>
          PROVE  ReaderTypes'
      BY <1>0, <3>2 DEF ReaderTypes, StopAtElement, ReaderPCs
    <3>3. nxt[rp[r]] \in Ptr
      BY <1>0, <2>5 DEF ReaderTypes, SharedTypes, Visit, Ptr
    <3>4. StopAtElement(r) \/ \E q \in Ptr : MoveTo(r, q)
      BY <2>5, <3>3 DEF Visit, VisitElement, VisitFreed
    <3> QED
      BY <2>5, <3>1, <3>2, <3>4 DEF Visit
  <2>6. CASE Deregister(r)
    <3>1. CASE rp[r] = NULL
      BY <1>0, <2>6, <3>1, TypeEndSearch DEF Deregister
    <3>2. CASE rp[r] # NULL
      BY <1>0, <2>6, <3>2 DEF ReaderTypes, Deregister, ReaderPCs
    <3> QED
      BY <3>1, <3>2
  <2>7. CASE UseElement(r)
    BY <1>0, <2>7, TypeEndSearch DEF UseElement
  <2> QED
    BY <2>1, <2>2, <2>3, <2>4, <2>5, <2>6, <2>7 DEF ReaderStep, InSearch
<1> QED
  BY <1>1, <1>2, <1>3 DEF TypeInv, TypeOK, DereferencesOK, ReaderTypes,
     WriterTypes, SharedTypes

(* A writer whose call is over. *)
LEMMA TypeEndCall ==
  ASSUME WriterTypes, NEW w \in Writers, EndCall(w)
  PROVE  WriterTypes'
BY DEF WriterTypes, EndCall, WriterPCs, Ptr, Epochs

(* The element a replace or a remove allocates, links and frees. *)
LEMMA TypeWriterShared ==
  ASSUME ReaderTypes, WriterTypes, SharedTypes, NEW w \in Writers,
         WriterStep(w)
  PROVE  SharedTypes'
<1> USE DEF heap, readerVars, writerVars, history
<1>1. CASE \E k \in ReplaceKeys : ReplaceBegin(w, k)
  BY <1>1, ListAssumption DEF SharedTypes, ReplaceBegin, Ptr
<1>2. CASE Acquire(w)
  BY <1>2 DEF SharedTypes, Acquire, ReplaceLock, RemoveLock, WriteLock
<1>3. CASE ReplaceScan(w)
  BY <1>3 DEF SharedTypes, WriterTypes, ReplaceScan, ReplaceHead, ReturnLocked,
              EndCall, Ptr
<1>4. CASE ReplaceSearch(w)
  BY <1>4 DEF SharedTypes, WriterTypes, ReplaceSearch, LinkAfter, ReturnLocked,
              EndCall, Ptr
<1>5. CASE ReplaceFix(w)
  BY <1>5 DEF SharedTypes, WriterTypes, ReplaceFix, RelinkedNext, Ptr
<1>6. CASE RemoveScan(w)
  BY <1>6 DEF SharedTypes, WriterTypes, RemoveScan, Ptr
<1>7. CASE RemoveSearch(w)
  BY <1>7 DEF SharedTypes, WriterTypes, RemoveSearch, Ptr
<1>8. CASE FlipEpoch(w)
  BY <1>8 DEF SharedTypes, FlipEpoch, Flipped, Epochs
<1>9. CASE GraceEnd(w)
  BY <1>9 DEF SharedTypes, GraceEnd
<1>10. CASE FreeRemoved(w)
  <2>1. nxt' \in [Addr -> Ptr]
    BY <1>10 DEF SharedTypes, FreeRemoved, Ptr
  <2>2. lvl' \in [Addr -> Int]
    <3>1. lvl \in [Addr -> Int] /\ lvl' = [lvl EXCEPT ![removed[w]] = 0]
      BY <1>10 DEF SharedTypes, FreeRemoved
    <3>2. 0 \in Int
      OBVIOUS
    <3> QED
      BY <3>1, <3>2, Zenon
  <2>3. alloc' \subseteq Addr
    BY <1>10 DEF SharedTypes, FreeRemoved
  <2> QED
    BY <1>10, <2>1, <2>2, <2>3 DEF SharedTypes, FreeRemoved
<1>11. CASE \/ \E k \in RemoveKeys : RemoveBegin(w, k)
            \/ RemoveDrain(w) \/ SpinForever(w)
  BY <1>11 DEF SharedTypes, RemoveBegin, RemoveDrain, SpinForever
<1> QED
  BY <1>1, <1>2, <1>3, <1>4, <1>5, <1>6, <1>7, <1>8, <1>9, <1>10, <1>11
  DEF WriterStep, UnderLock

(* The locals of rcu_list_replace and rcu_list_remove. *)
LEMMA TypeWriterLocals ==
  ASSUME ReaderTypes, WriterTypes, SharedTypes, NEW w \in Writers,
         WriterStep(w)
  PROVE  WriterTypes'
<1> USE DEF heap, readerVars, writerVars, history
<1>1. CASE \E k \in ReplaceKeys : ReplaceBegin(w, k)
  BY <1>1, ListAssumption DEF WriterTypes, ReplaceBegin, WriterPCs, Ptr
<1>2. CASE \E k \in RemoveKeys : RemoveBegin(w, k)
  BY <1>2, ListAssumption DEF WriterTypes, RemoveBegin, WriterPCs
<1>3. CASE Acquire(w)
  BY <1>3
  DEF WriterTypes, Acquire, ReplaceLock, RemoveLock, WriteLock, WriterPCs
<1>4. CASE ReplaceScan(w)
  <2>1. CASE ReturnLocked(w)
    BY <2>1, TypeEndCall DEF ReturnLocked
  <2>2. CASE ReplaceHead(w)
    BY <1>4, <2>2
    DEF WriterTypes, SharedTypes, ReplaceScan, ReplaceHead, WriterPCs
  <2> QED
    BY <1>4, <2>1, <2>2 DEF WriterTypes, SharedTypes, ReplaceScan, WriterPCs
<1>5. CASE ReplaceSearch(w)
  <2>1. CASE ReturnLocked(w)
    BY <2>1, TypeEndCall DEF ReturnLocked
  <2>2. nxt[welem[w]] \in Ptr
    BY <1>5 DEF WriterTypes, SharedTypes, ReplaceSearch, Ptr
  <2>3. CASE LinkAfter(w, welem[w])
    BY <1>5, <2>2, <2>3 DEF WriterTypes, ReplaceSearch, LinkAfter, WriterPCs
  <2> QED
    BY <1>5, <2>1, <2>2, <2>3 DEF WriterTypes, ReplaceSearch, WriterPCs
<1>6. CASE ReplaceFix(w)
  BY <1>6 DEF WriterTypes, ReplaceFix, WriterPCs
<1>7. CASE RemoveScan(w)
  BY <1>7 DEF WriterTypes, SharedTypes, RemoveScan, WriterPCs
<1>8. CASE RemoveSearch(w)
  <2>1. nxt[welem[w]] \in Ptr
    BY <1>8 DEF WriterTypes, SharedTypes, RemoveSearch, Ptr
  <2> QED
    BY <1>8, <2>1 DEF WriterTypes, RemoveSearch, WriterPCs
<1>9. CASE RemoveDrain(w)
  BY <1>9 DEF WriterTypes, RemoveDrain, WriterPCs
<1>10. CASE FlipEpoch(w)
  BY <1>10 DEF WriterTypes, SharedTypes, FlipEpoch, WriterPCs
<1>11. CASE GraceEnd(w)
  <2>1. CASE EndCall(w)
    BY <2>1, TypeEndCall
  <2> QED
    BY <1>11, <2>1 DEF WriterTypes, GraceEnd, WriterPCs
<1>12. CASE FreeRemoved(w)
  BY <1>12, TypeEndCall DEF FreeRemoved
<1>13. CASE SpinForever(w)
  BY <1>13 DEF WriterTypes, SpinForever, WriterPCs
<1> QED
  BY <1>1, <1>2, <1>3, <1>4, <1>5, <1>6, <1>7, <1>8, <1>9, <1>10, <1>11,
     <1>12, <1>13 DEF WriterStep, UnderLock

(* A writer only touches a reader by freeing the element it is on. *)
LEMMA TypeWriterReaders ==
  ASSUME ReaderTypes, NEW w \in Writers, WriterStep(w)
  PROVE  ReaderTypes'
<1>1. CASE FreeRemoved(w)
  BY <1>1 DEF ReaderTypes, FreeRemoved, Holders, readerVars
<1>2. CASE ~FreeRemoved(w)
  <2>1. UNCHANGED <<readerVars, late, strayed>>
    BY <1>2
    DEF WriterStep, UnderLock, Acquire, ReplaceBegin, RemoveBegin, ReplaceLock,
        RemoveLock, WriteLock, ReplaceScan, ReplaceSearch, ReplaceFix,
        RemoveScan, RemoveSearch, RemoveDrain, FlipEpoch, GraceEnd,
        SpinForever, history
  <2> QED
    BY <2>1 DEF ReaderTypes, readerVars
<1> QED
  BY <1>1, <1>2

(* Every step of the specification keeps the invariant. *)
LEMMA TypeNext == TypeInv /\ [Next]_vars => TypeInv'
<1> SUFFICES ASSUME TypeInv, [Next]_vars PROVE TypeInv'
  OBVIOUS
<1>1. CASE Insert \/ InsertFails
  BY <1>1, TypeInsert, TypeInsertFails
<1>2. ASSUME NEW r \in Readers, ReaderStep(r) PROVE TypeInv'
  BY <1>2, TypeReader
<1>3. ASSUME NEW w \in Writers, WriterStep(w) PROVE TypeInv'
  <2>1. ReaderTypes /\ WriterTypes /\ SharedTypes
    BY TypeParts
  <2>2. ReaderTypes' /\ WriterTypes' /\ SharedTypes'
    BY <1>3, <2>1, TypeWriterShared, TypeWriterLocals, TypeWriterReaders
  <2> QED
    BY <2>2 DEF TypeInv, TypeOK, DereferencesOK, ReaderTypes, WriterTypes,
                SharedTypes
<1>4. CASE UNCHANGED vars
  BY <1>4 DEF vars, heap, readerVars, writerVars, history, TypeInv, TypeOK,
              DereferencesOK
<1> QED
  BY <1>1, <1>2, <1>3, <1>4 DEF Next

(* No NULL pointer is dereferenced by a traversal of rcu_list_search,      *)
(* rcu_list_replace or rcu_list_remove; the invariant the types rest on.   *)
THEOREM TypeInvariant == Spec => []TypeInv
BY TypeInit, TypeNext, PTL DEF Spec

(* Every variable keeps its type. *)
THEOREM TypeCorrect == Spec => []TypeOK
<1>1. TypeInv => TypeOK
  BY DEF TypeInv
<1> QED
  BY <1>1, TypeInvariant, PTL

-----------------------------------------------------------------------------
(* Mutual exclusion *)

(* The lock is taken by a writer that enters its section when it is free,  *)
(* and given back by the one that leaves it (171-210, 120-148).            *)
LEMMA LockNext == TypeInv /\ SectionHoldsLock /\ [Next]_vars => SectionHoldsLock'
<1> SUFFICES ASSUME TypeInv, SectionHoldsLock, [Next]_vars
             PROVE  SectionHoldsLock'
  OBVIOUS
<1> USE DEF SectionHoldsLock, InSection
<1>0. WriterTypes
  BY TypeParts
<1>1. CASE UNCHANGED <<wpc, wlock>>
  BY <1>1
<1>2. ASSUME NEW w \in Writers, Acquire(w) PROVE SectionHoldsLock'
  BY <1>0, <1>2, ListAssumption
  DEF WriterTypes, Acquire, ReplaceLock, RemoveLock, WriteLock, LockAvailable
<1>3. ASSUME NEW w \in Writers, GraceEnd(w) PROVE SectionHoldsLock'
  BY <1>0, <1>3 DEF WriterTypes, GraceEnd, EndCall
<1>4. ASSUME NEW w \in Writers, UNCHANGED wlock,
             InSection(w)' => InSection(w),
             \A u \in Writers \ {w} : wpc'[u] = wpc[u]
      PROVE  SectionHoldsLock'
  BY <1>4
<1>5. ASSUME NEW w \in Writers, WriterStep(w), ~Acquire(w), ~GraceEnd(w)
      PROVE  /\ UNCHANGED wlock
             /\ InSection(w)' => InSection(w)
             /\ \A u \in Writers \ {w} : wpc'[u] = wpc[u]
  <2> USE <1>0, <1>5 DEF WriterTypes
  <2>1. CASE \/ \E k \in ReplaceKeys : ReplaceBegin(w, k)
             \/ \E k \in RemoveKeys : RemoveBegin(w, k)
    BY <2>1 DEF ReplaceBegin, RemoveBegin
  <2>2. CASE ReplaceScan(w) \/ ReplaceSearch(w) \/ ReplaceFix(w)
    BY <2>2 DEF ReplaceScan, ReplaceHead, ReturnLocked, EndCall, ReplaceSearch,
                LinkAfter, ReplaceFix
  <2>3. CASE RemoveScan(w) \/ RemoveSearch(w) \/ RemoveDrain(w)
    BY <2>3 DEF RemoveScan, RemoveSearch, RemoveDrain
  <2>4. CASE FlipEpoch(w) \/ SpinForever(w) \/ FreeRemoved(w)
    BY <2>4 DEF FlipEpoch, SpinForever, FreeRemoved, EndCall
  <2> QED
    BY <2>1, <2>2, <2>3, <2>4 DEF WriterStep, UnderLock
<1>6. ASSUME NEW r \in Readers, ReaderStep(r) PROVE SectionHoldsLock'
  <2>1. UNCHANGED <<wpc, wlock>>
    BY <1>6
    DEF ReaderStep, InSearch, SearchBegin, WaitInterrupted, Register, ReadHead,
        Visit, Deregister, UseElement, writerVars
  <2> QED
    BY <1>1, <2>1
<1>7. CASE Insert \/ InsertFails
  BY <1>1, <1>7 DEF Insert, InsertFails, writerVars
<1>8. CASE UNCHANGED vars
  BY <1>1, <1>8 DEF vars, writerVars
<1> QED
  BY <1>2, <1>3, <1>4, <1>5, <1>6, <1>7, <1>8 DEF Next

(* At most one writer at a time changes the list or the epoch: the one     *)
(* that holds write_lock, even when a replace returned without unlocking.  *)
THEOREM WriterExclusion == Spec => []SectionHoldsLock
<1>1. Init => SectionHoldsLock
  BY DEF Init, SectionHoldsLock, InSection
<1> QED
  BY <1>1, LockNext, TypeInvariant, PTL DEF Spec

-----------------------------------------------------------------------------
(* The meaning of standing[] *)

(* Registering adds a reader to the ones standing[e] counts. *)
LEMMA CountJoin ==
  ASSUME NEW e \in Epochs, NEW r \in Readers,
         r \notin Registered(e), Registered(e)' = Registered(e) \cup {r}
  PROVE  Cardinality(Registered(e)') = Cardinality(Registered(e)) + 1
<1>1. IsFiniteSet(Registered(e))
  BY ListAssumption, FS_Subset DEF Registered
<1> QED
  BY <1>1, FS_AddElement

(* Deregistering takes it off. *)
LEMMA CountLeave ==
  ASSUME NEW e \in Epochs, NEW r \in Readers,
         r \in Registered(e), Registered(e)' = Registered(e) \ {r}
  PROVE  Cardinality(Registered(e)') = Cardinality(Registered(e)) - 1
<1>1. IsFiniteSet(Registered(e))
  BY ListAssumption, FS_Subset DEF Registered
<1> QED
  BY <1>1, FS_RemoveElement

(* A step that neither registers nor deregisters. *)
LEMMA CountSame ==
  ASSUME StandingAccounting, UNCHANGED <<standing, interrupted>>,
         \A e \in Epochs : Registered(e)' = Registered(e)
  PROVE  StandingAccounting'
BY DEF StandingAccounting

(* The number of registered searches is a natural number. *)
LEMMA CountType == \A e \in Epochs : Cardinality(Registered(e)) \in Nat
<1> TAKE e \in Epochs
<1>1. IsFiniteSet(Registered(e))
  BY ListAssumption, FS_Subset DEF Registered
<1> QED
  BY <1>1, FS_CardinalityType

(* Lines 42, 46 and 56, one step of a reader at a time. *)
LEMMA StandingReader ==
  ASSUME TypeInv, StandingAccounting, NEW r \in Readers, ReaderStep(r)
  PROVE  StandingAccounting'
<1>0. ReaderTypes /\ SharedTypes
  BY TypeParts
<1>e. PICK e \in Epochs : e = myEpoch[r]
  BY <1>0 DEF ReaderTypes
<1>1. CASE WaitInterrupted(r)
  <2>1. \A d \in Epochs : Registered(d)' = Registered(d)
    BY <1>0, <1>1 DEF ReaderTypes, WaitInterrupted, EndSearch, Registered
  <2> QED
    BY <1>0, <1>1, <1>e, <2>1, CountType
    DEF StandingAccounting, WaitInterrupted, SharedTypes
<1>2. CASE Register(r)
  <2>1. r \notin Registered(e) /\ Registered(e)' = Registered(e) \cup {r}
    BY <1>0, <1>2, <1>e DEF ReaderTypes, Register, Registered, Epochs
  <2>2. \A d \in Epochs \ {e} : Registered(d)' = Registered(d)
    BY <1>0, <1>2, <1>e DEF ReaderTypes, Register, Registered, Epochs
  <2>3. Cardinality(Registered(e)') = Cardinality(Registered(e)) + 1
    BY <1>e, <2>1, CountJoin
  <2> QED
    BY <1>0, <1>2, <1>e, <2>2, <2>3, CountType
    DEF StandingAccounting, Register, SharedTypes
<1>3. CASE Deregister(r)
  <2>1. r \in Registered(e) /\ Registered(e)' = Registered(e) \ {r}
    BY <1>0, <1>3, <1>e DEF ReaderTypes, Deregister, EndSearch, Registered, Epochs
  <2>2. \A d \in Epochs \ {e} : Registered(d)' = Registered(d)
    BY <1>0, <1>3, <1>e DEF ReaderTypes, Deregister, EndSearch, Registered, Epochs
  <2>3. Cardinality(Registered(e)') = Cardinality(Registered(e)) - 1
    BY <1>e, <2>1, CountLeave
  <2> QED
    BY <1>0, <1>3, <1>e, <2>2, <2>3, CountType
    DEF StandingAccounting, Deregister, Deregistered, SharedTypes
<1>4. CASE \/ \E k \in SearchKeys : SearchBegin(r, k)
           \/ ReadHead(r) \/ Visit(r) \/ UseElement(r)
  <2>1. \A d \in Epochs : Registered(d)' = Registered(d)
    BY <1>0, <1>4
    DEF ReaderTypes, SearchBegin, ReadHead, Visit, VisitElement, VisitFreed,
        MoveTo, StopAtElement, UseElement, EndSearch, Registered
  <2>2. UNCHANGED <<standing, interrupted>>
    BY <1>4 DEF SearchBegin, ReadHead, Visit, UseElement, history
  <2> QED
    BY <2>1, <2>2, CountSame
<1> QED
  BY <1>1, <1>2, <1>3, <1>4 DEF ReaderStep, InSearch

(* standing[e] is what the grace period of rcu_list_replace takes it for,  *)
(* the number of searches registered for e, but for the ones a signal      *)
(* ended.                                                                  *)
THEOREM StandingCounts == Spec => []StandingAccounting
<1>1. Init => StandingAccounting
  <2> SUFFICES ASSUME Init, NEW e \in Epochs
               PROVE  standing[e] = Cardinality(Registered(e)) - interrupted[e]
    BY DEF StandingAccounting
  <2>1. Registered(e) = {}
    BY DEF Init, Registered
  <2> QED
    BY <2>1, FS_EmptySet DEF Init
<1>2. TypeInv /\ StandingAccounting /\ [Next]_vars => StandingAccounting'
  <2> SUFFICES ASSUME TypeInv, StandingAccounting, [Next]_vars
               PROVE  StandingAccounting'
    OBVIOUS
  <2>1. ASSUME UNCHANGED <<standing, interrupted, rpc, myEpoch>>
        PROVE  StandingAccounting'
    BY <2>1, CountSame DEF Registered
  <2>2. ASSUME NEW r \in Readers, ReaderStep(r) PROVE StandingAccounting'
    BY <2>2, StandingReader
  <2>3. CASE Insert \/ InsertFails
    BY <2>1, <2>3 DEF Insert, InsertFails, readerVars, history
  <2>4. ASSUME NEW w \in Writers, WriterStep(w) PROVE StandingAccounting'
    BY <2>1, <2>4
    DEF WriterStep, UnderLock, Acquire, ReplaceBegin, RemoveBegin, ReplaceLock,
        RemoveLock, WriteLock, ReplaceScan, ReplaceSearch, ReplaceFix,
        RemoveScan, RemoveSearch, RemoveDrain, FlipEpoch, GraceEnd,
        SpinForever, FreeRemoved, readerVars, history
  <2>5. CASE UNCHANGED vars
    BY <2>1, <2>5 DEF vars, readerVars, history
  <2> QED
    BY <2>2, <2>3, <2>4, <2>5 DEF Next
<1> QED
  BY <1>1, <1>2, TypeInvariant, PTL DEF Spec

=============================================================================
