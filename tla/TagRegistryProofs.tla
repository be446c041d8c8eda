--------------------------- MODULE TagRegistryProofs ---------------------------
(***************************************************************************)
(* What holds of TagRegistry for any number of threads, slots, services,   *)
(* keys and calls: who holds searchLock, what the slots and serviceCount   *)
(* hold, that a key names one service, and what the module's count counts. *)
(***************************************************************************)
EXTENDS TagRegistry, FiniteSetTheorems, TLAPS

TableOps == {"OPEN", "SEND", "RECEIVE", "AWAKE_ALL", "REMOVE"}
Removing == {"sleepers", "unlink", "clear", "kfree", "died", "dec", "removed"}
Creating == {"count", "wlock", "pick", "store", "fresh", "exists", "inc",
             "wunlock", "put"}

\* What the place of a thread says of its call and its locals.
Place(t) ==
  /\ pc[t] = "idle" <=> call[t] = NoCall
  /\ pc[t] # "idle" => call[t] \in Arguments
  /\ pc[t] \in Creating => Op(t) = "CREATE"
  /\ pc[t] \in {"rlock", "runlock", "valid"} => Op(t) \in TableOps
  /\ pc[t] \in {"scan", "touch"} => Op(t) \in TableOps \cup {"CREATE"}
  /\ pc[t] \in Removing => Op(t) = "REMOVE"
  /\ pc[t] = "tag" => Op(t) \in {"CREATE", "OPEN"}
  /\ pc[t] \in {"refuse", "reject", "send", "waiting", "lost",
                "listen", "asleep", "leave", "copying", "awake", "rogue"} =>
       Op(t) # "CREATE"
  /\ pc[t] \in {"refuse", "reject"} => Op(t) # "REMOVE"
  /\ pc[t] \in {"send", "waiting", "lost", "listen", "asleep",
                "leave", "copying", "awake", "rogue"} => Op(t) # "REMOVE"
  /\ pc[t] \in {"scan", "touch"} /\ Op(t) = "CREATE" => ~IsPrivate(t)
  /\ pc[t] \in {"touch", "store", "fresh", "clear"} => idx[t] \in Slots
  /\ pc[t] \in {"exists", "inc", "wunlock", "put", "valid", "send",
                "listen", "asleep", "awake", "sleepers", "unlink",
                "clear"} =>
       service[t] \in Svc
  /\ pc[t] \in {"idle", "count", "wlock", "rlock", "scan", "touch", "pick",
                "store", "fresh"} => service[t] = NULL
  /\ pc[t] \in {"idle", "count", "wlock"} => idx[t] = 0
  /\ pc[t] = "oops" /\ Op(t) = "CREATE" => service[t] = NULL
  /\ pc[t] = "runlock" /\ Op(t) = "REMOVE" => service[t] = NULL

\* A slot a create has chosen is not a dirty one, whoever wrote to it since.
NeverDirtied ==
  \A t \in Threads : pc[t] \in {"store", "fresh"} => tagServices[idx[t]] # Wild

TypeInv == TypeOK /\ (\A t \in Threads : Place(t)) /\ NeverDirtied

-----------------------------------------------------------------------------
Readers == {t \in Threads : InRead(t)}

\* searchLock, without the cardinality of the writers.
OneWriter ==
  ~rogue =>
    /\ \A t \in Threads : InWrite(t) => wlocked /\ ~leakedWrite
    /\ \A t, u \in Threads : InWrite(t) /\ InWrite(u) => t = u
    /\ wlocked /\ ~leakedWrite => \E t \in Threads : InWrite(t)
    /\ leakedWrite => wlocked
    /\ wlocked => readers = 0
LockInv == readers = Cardinality(Readers) + leakedReads /\ OneWriter

-----------------------------------------------------------------------------
\* A REMOVE knows the only slot that holds what it frees, and empties it
\* before the free.
RemoveKnowsSlot ==
  Intact =>
    /\ \A t \in Threads : pc[t] = "clear" =>
         /\ tagServices[idx[t]] \in {tmp[t], NULL}
         /\ \A i \in Slots : tmp[t] \in Svc /\ tagServices[i] = tmp[t]
                               => i = idx[t]
    /\ \A t \in Threads : pc[t] = "kfree" /\ tmp[t] \in Svc =>
         \A i \in Slots : tagServices[i] # tmp[t]

\* The slot a create has chosen is its own until it unlocks.
CreateOwnsSlot ==
  ~rogue =>
    \A t \in Threads :
      /\ pc[t] = "store" => tagServices[idx[t]] = NULL
      /\ pc[t] = "fresh" => /\ tagServices[idx[t]] \in Svc
                            /\ key[tagServices[idx[t]]] = call[t].arg

\* What the search of a create in its section has gone through.
Searched(t) == IF pc[t] \in {"scan", "touch"} THEN 0 .. idx[t] - 1 ELSE Slots
SearchSound ==
  Intact =>
    \A t \in Threads :
      /\ pc[t] \in {"scan", "touch", "pick", "store"} /\ Op(t) = "CREATE"
           /\ ~IsPrivate(t) =>
             \A i \in Searched(t) \cap Slots :
               tagServices[i] \in Svc => key[tagServices[i]] # call[t].arg
      /\ pc[t] = "touch" /\ Op(t) = "CREATE" => tagServices[idx[t]] = p[t]

\* The service a create has found or made is not freed behind its back.
CreateHoldsService ==
  Intact =>
    \A t \in Threads \ dangling :
      Op(t) = "CREATE" /\ service[t] # NULL => service[t] \in alloc

TableInv == /\ TableHoldsLiveServices /\ RemoveKnowsSlot /\ CreateOwnsSlot
            /\ SearchSound /\ KeysUnique /\ CreateReturnsItsService
            /\ CreateHoldsService

-----------------------------------------------------------------------------
(* Types *)

\* The parts of TypeOK.
LocalTypes ==
  /\ pc \in [Threads -> PCs]
  /\ call \in [Threads -> Arguments \cup {NoCall}]
  /\ idx \in [Threads -> 0 .. min_sys_TAG_Services]
  /\ p \in [Threads -> Ptr] /\ tmp \in [Threads -> Ptr]
  /\ service \in [Threads -> Svc \cup {NULL}]
  /\ dangling \subseteq Threads
ObjectTypes ==
  /\ key \in [Svc -> AnyKey]
  /\ tag \in [Svc -> Slots]
  /\ creator \in [Svc -> Threads \cup {NULL}]
  /\ perm \in [Svc -> {"OPEN_ROOM", "PRIVATE_ROOM"}]
  /\ alloc \subseteq Svc /\ keptLists \subseteq Svc
  /\ queue \in [Svc -> SUBSET Threads]
SharedTypes ==
  /\ tagServices \in [Slots -> Ptr]
  /\ serviceCount \in 0 .. CountWidth - 1
  /\ wlocked \in BOOLEAN
  /\ readers \in Int /\ refs \in Int
  /\ calls \in 0 .. MaxCalls
  /\ leakedReads \in Nat /\ leakedWrite \in BOOLEAN /\ leakedRefs \in Nat
  /\ rogue \in BOOLEAN /\ wild \in BOOLEAN
  /\ vacuous \in Nat /\ freedTwice \subseteq Svc

LEMMA TypeParts == TypeOK <=> LocalTypes /\ ObjectTypes /\ SharedTypes
BY DEF TypeOK, LocalTypes, ObjectTypes, SharedTypes

LEMMA ArgumentFields ==
  ASSUME NEW c \in Arguments
  PROVE  /\ c.op \in Operations /\ c # NoCall
         /\ c.op = "CREATE" => c.arg \in AnyKey /\ c.perm \in Perms
<1>. USE DEF Call, NoCall, Operations
<1>1. CASE \E k \in AnyKey, pm \in Perms : c = Call("CREATE", k, pm)
  BY <1>1
<1>2. CASE \E k \in AnyKey : c = Call("OPEN", k, "OPEN_ROOM")
  BY <1>2
<1>3. CASE \E op \in {"SEND", "RECEIVE", "AWAKE_ALL", "REMOVE"}, i \in Slots :
             c = Call(op, i, "OPEN_ROOM")
  BY <1>3
<1>4. CASE \E op \in {"OTHER", "INVALID"} : c = Call(op, 0, "OPEN_ROOM")
  BY <1>4
<1>5. QED BY <1>1, <1>2, <1>3, <1>4 DEF Arguments

LEMMA NoCallFields == NoCall \notin Arguments /\ NoCall.op = "none"
BY ArgumentFields DEF NoCall

Step(t) == \/ \E c \in Arguments : Enter(t, c)
           \/ Acquire(t) \/ Work(t) \/ WakeUp(t) \/ Stray(t)

\* The steps that stop a thread in a list, on a service that was freed or in
\* kfree.
Halts(t) == SendWaits(t) \/ Stray(t) \/ FreeFails(t)

LEMMA HaltEffect ==
  ASSUME LocalTypes, NEW t \in Threads, Halts(t)
  PROVE  /\ UNCHANGED <<tagServices, serviceCount, key, tag, creator, perm,
                        alloc, queue, wlocked, readers, refs, call, idx, p,
                        service, tmp, calls, leakedReads, leakedWrite,
                        leakedRefs, rogue, freedTwice, dangling, vacuous>>
         /\ wild' = wild \/ wild' = TRUE
         /\ \/ keptLists' = keptLists
            \/ pc[t] = "send" /\ keptLists' = keptLists \cup {service[t]}
         /\ pc' = [pc EXCEPT ![t] = pc'[t]]
         /\ \/ pc[t] = "kfree" /\ pc'[t] = "died" /\ FreeFails(t)
            \/ /\ pc[t] \in {"send", "listen", "asleep", "leave", "awake"}
               /\ pc'[t] \in {"waiting", "lost"}
<1>. USE DEF LocalTypes, table, object, lock, locals, leaks, faults, damage,
             Goto
<1>1. CASE SendWaits(t)
  BY <1>1 DEF SendWaits
<1>2. CASE Stray(t)
  BY <1>2 DEF Stray
<1>3. CASE FreeFails(t)
  BY <1>3 DEF FreeFails
<1>4. QED BY <1>1, <1>2, <1>3 DEF Halts

LEMMA EndCallTypes ==
  ASSUME LocalTypes, NEW t \in Threads, EndCall(t), RegistryAssumption
  PROVE  LocalTypes' /\ Place(t)'
<1>1. LocalTypes'
  BY DEF LocalTypes, EndCall, PCs, Ptr, RegistryAssumption
<1>2. pc'[t] = "idle"
  BY DEF LocalTypes, EndCall
<1>3. call'[t] = NoCall
  BY DEF LocalTypes, EndCall
<1>4. service'[t] = NULL /\ idx'[t] = 0
  BY DEF LocalTypes, EndCall
<1>5. Place(t)'
  BY <1>2, <1>3, <1>4, NoCallFields DEF Place, Op, Creating, TableOps, Removing
<1>6. QED BY <1>1, <1>5

LEMMA SharedStep ==
  ASSUME RegistryAssumption, TypeInv, NEW t \in Threads, Step(t)
  PROVE  SharedTypes'
<1>. USE TypeParts DEF SharedTypes, table, object, locals, leaks, faults,
                       damage,
                       lock, TypeInv
<1>0. ASSUME NEW c \in Arguments, Enter(t, c) PROVE SharedTypes'
  BY <1>0 DEF Enter, RegistryAssumption
<1>1. CASE Reject(t)
  BY <1>1 DEF Reject, ModulePut, NoService, NoMemory, Oops, Found, NextSlot
<1>2. CASE Refuse(t)
  BY <1>2 DEF Refuse, ModulePut, NoService, NoMemory, Oops, Found, NextSlot
<1>3. CASE ReadLock(t)
  BY <1>3 DEF ReadLock, ModulePut, NoService, NoMemory, Oops, Found, NextSlot
<1>4. CASE WriteLock(t)
  BY <1>4 DEF WriteLock, ModulePut, NoService, NoMemory, Oops, Found, NextSlot
<1>5. CASE ScanLoad(t)
  BY <1>5 DEF ScanLoad, ModulePut, NoService, NoMemory, Oops, Found, NextSlot
<1>6. CASE ScanTouch(t)
  BY <1>6 DEF ScanTouch, ModulePut, NoService, NoMemory, Oops, Found, NextSlot
<1>7. CASE CheckCount(t)
  BY <1>7 DEF CheckCount, ModulePut, NoService, NoMemory, Oops, Found, NextSlot
<1>8. CASE KeyExists(t)
  <2>1. wlocked' \in BOOLEAN
    BY <1>8 DEF KeyExists, Unlocked
  <2>2. QED BY <1>8, <2>1 DEF KeyExists, ModulePut
<1>9. CASE PickSlot(t)
  BY <1>9 DEF PickSlot, ModulePut, NoService, NoMemory, Oops, Found, NextSlot
<1>10. CASE StoreService(t)
  BY <1>10 DEF StoreService, Allocatable, ObjectTypes, Place, Ptr
<1>11. CASE StoreFails(t)
  BY <1>11 DEF StoreFails, ModulePut, NoService, NoMemory, Oops, Found,
               NextSlot
<1>12. CASE SpareFails(t)
  BY <1>12 DEF SpareFails, ModulePut, NoService, NoMemory, Oops, Found,
               NextSlot
<1>13. CASE ReloadService(t)
  BY <1>13 DEF ReloadService, ModulePut, NoService, NoMemory, Oops, Found,
               NextSlot
<1>14. CASE CountUp(t)
  BY <1>14 DEF CountUp, ModulePut, NoService, NoMemory, Oops, Found,
               NextSlot, Wrapped, Increment, RegistryAssumption
<1>15. CASE WriteUnlock(t)
  BY <1>15 DEF WriteUnlock, ModulePut, NoService, NoMemory, Oops, Found,
               NextSlot, Unlocked
<1>16. CASE PutModule(t)
  BY <1>16 DEF PutModule, ModulePut, NoService, NoMemory, Oops, Found, NextSlot
<1>17. CASE ReturnTag(t)
  BY <1>17 DEF ReturnTag, ModulePut, NoService, NoMemory, Oops, Found, NextSlot
<1>18. CASE ReadUnlock(t)
  BY <1>18 DEF ReadUnlock, ModulePut, NoService, NoMemory, Oops, Found,
               NextSlot
<1>19. CASE CheckValid(t)
  BY <1>19 DEF CheckValid, ModulePut, NoService, NoMemory, Oops, Found,
               NextSlot, Op
<1>20. CASE Send(t)
  BY <1>20 DEF Send, ModulePut, NoService, NoMemory, Oops, Found, NextSlot
<1>21. CASE Listen(t)
  BY <1>21 DEF Listen, ModulePut, NoService, NoMemory, Oops, Found, NextSlot
<1>22. CASE Leave(t)
  BY <1>22 DEF Leave, ModulePut, NoService, NoMemory, Oops, Found, NextSlot
<1>23. CASE AwakeQueues(t)
  BY <1>23 DEF AwakeQueues, ModulePut, NoService, NoMemory, Oops, Found,
               NextSlot
<1>24. CASE RogueUnlock(t)
  <2>1. wlocked' \in BOOLEAN
    BY <1>24 DEF RogueUnlock, Unlocked
  <2>2. rogue' \in BOOLEAN
    <3>1. CASE \E u \in Threads : InWrite(u)
      BY <1>24, <3>1 DEF RogueUnlock
    <3>2. CASE ~(\E u \in Threads : InWrite(u))
      BY <1>24, <3>2 DEF RogueUnlock
    <3>3. QED BY <3>1, <3>2
  <2>3. UNCHANGED <<table, readers, calls, leakedReads, leakedRefs,
                    freedTwice, vacuous, wild>>
    BY <1>24 DEF RogueUnlock
  <2>4. refs' \in Int
    BY <1>24 DEF RogueUnlock, ModulePut
  <2>5. leakedWrite' \in BOOLEAN
    BY <1>24 DEF RogueUnlock
  <2>6. QED BY <2>1, <2>2, <2>3, <2>4, <2>5, Zenon
<1>25. CASE CheckSleepers(t)
  BY <1>25 DEF CheckSleepers, ModulePut, NoService, NoMemory, Oops, Found,
               NextSlot
<1>26. CASE LoadSlot(t)
  BY <1>26 DEF LoadSlot, ModulePut, NoService, NoMemory, Oops, Found, NextSlot
<1>27. CASE ClearSlot(t)
  <2>1. tagServices' \in [Slots -> Ptr]
    BY <1>27 DEF ClearSlot, Cleared, Ptr
  <2>2. vacuous' \in Nat
    BY <1>27 DEF ClearSlot
  <2>3. QED BY <1>27, <2>1, <2>2 DEF ClearSlot
<1>28. CASE FreeService(t)
  <2>1. freedTwice' \subseteq Svc
    BY <1>28 DEF FreeService
  <2>2. QED BY <1>28, <2>1 DEF FreeService
<1>29. CASE CountDown(t)
  BY <1>29 DEF CountDown, ModulePut, NoService, NoMemory, Oops, Found,
               NextSlot, Wrapped, RegistryAssumption
<1>30. CASE RemoveReturn(t)
  BY <1>30 DEF RemoveReturn, ModulePut, NoService, NoMemory, Oops, Found,
               NextSlot
<1>31. CASE WakeUp(t)
  BY <1>31 DEF WakeUp, ModulePut, NoService, NoMemory, Oops, Found, NextSlot
<1>33. CASE Halts(t)
  <2>1. wild' \in BOOLEAN
    BY <1>33, HaltEffect
  <2>2. UNCHANGED <<tagServices, serviceCount, wlocked, readers, refs, calls,
                    leakedReads, leakedWrite, leakedRefs, rogue, vacuous,
                    freedTwice>>
    BY <1>33, HaltEffect
  <2>3. QED BY <2>1, <2>2
<1>32. QED BY <1>0, <1>1, <1>2, <1>3, <1>4, <1>5, <1>6, <1>7, <1>8, <1>9,
              <1>10, <1>11, <1>12, <1>13, <1>14, <1>15, <1>16, <1>17, <1>18,
               <1>19, <1>20, <1>21, <1>22, <1>23, <1>24, <1>25, <1>26, <1>27,
               <1>28, <1>29, <1>30, <1>31, <1>33
           DEF Step, Acquire, Work, Halts


LEMMA ObjectStep ==
  ASSUME RegistryAssumption, TypeInv, NEW t \in Threads, Step(t)
  PROVE  ObjectTypes'
<1>. USE TypeParts DEF ObjectTypes, object, TypeInv
<1>0. ASSUME NEW c \in Arguments, Enter(t, c) PROVE ObjectTypes'
  BY <1>0 DEF Enter
<1>1. CASE Reject(t)
  BY <1>1 DEF Reject
<1>2. CASE Refuse(t)
  BY <1>2 DEF Refuse
<1>3. CASE ReadLock(t)
  BY <1>3 DEF ReadLock
<1>4. CASE WriteLock(t)
  BY <1>4 DEF WriteLock
<1>5. CASE ScanLoad(t)
  BY <1>5 DEF ScanLoad
<1>6. CASE ScanTouch(t)
  BY <1>6 DEF ScanTouch
<1>7. CASE CheckCount(t)
  BY <1>7 DEF CheckCount
<1>8. CASE KeyExists(t)
  BY <1>8 DEF KeyExists
<1>9. CASE PickSlot(t)
  BY <1>9 DEF PickSlot
<1>10. CASE StoreService(t)
  <2>1. call[t].arg \in AnyKey
        /\ call[t].perm \in {"OPEN_ROOM", "PRIVATE_ROOM"} /\ idx[t] \in Slots
    BY <1>10, ArgumentFields, NoCallFields
       DEF StoreService, LocalTypes, Place, Op, Creating, RegistryAssumption
  <2>2. PICK s \in Svc :
          /\ alloc' = alloc \cup {s}
          /\ keptLists' = keptLists \ {s}
          /\ key' = [key EXCEPT ![s] = call[t].arg]
          /\ tag' = [tag EXCEPT ![s] = idx[t]]
          /\ creator' = [creator EXCEPT ![s] = t]
          /\ perm' = [perm EXCEPT ![s] = call[t].perm]
          /\ queue' = [queue EXCEPT ![s] = {}]
    BY <1>10 DEF StoreService, Allocatable, SharedTypes
  <2>3. QED BY <2>1, <2>2
<1>11. CASE StoreFails(t)
  BY <1>11 DEF StoreFails
<1>12. CASE SpareFails(t)
  BY <1>12 DEF SpareFails
<1>13. CASE ReloadService(t)
  BY <1>13 DEF ReloadService
<1>14. CASE CountUp(t)
  BY <1>14 DEF CountUp
<1>15. CASE WriteUnlock(t)
  BY <1>15 DEF WriteUnlock
<1>16. CASE PutModule(t)
  BY <1>16 DEF PutModule
<1>17. CASE ReturnTag(t)
  BY <1>17 DEF ReturnTag
<1>18. CASE ReadUnlock(t)
  BY <1>18 DEF ReadUnlock
<1>19. CASE CheckValid(t)
  BY <1>19 DEF CheckValid
<1>20. CASE Send(t)
  <2>1. keptLists' \subseteq Svc
    BY <1>20 DEF Send, Place
  <2>2. queue' \in [Svc -> SUBSET Threads]
    <3>1. CASE UNCHANGED queue
      BY <3>1
    <3>2. ASSUME NEW w, queue' = [queue EXCEPT ![service[t]] = @ \ w]
          PROVE  queue' \in [Svc -> SUBSET Threads]
      BY <3>2
    <3>3. QED BY <1>20, <3>1, <3>2 DEF Send
  <2>3. QED BY <1>20, <2>1, <2>2 DEF Send
<1>21. CASE Listen(t)
  BY <1>21 DEF Listen
<1>22. CASE Leave(t)
  BY <1>22 DEF Leave
<1>23. CASE AwakeQueues(t)
  BY <1>23 DEF AwakeQueues
<1>24. CASE RogueUnlock(t)
  BY <1>24 DEF RogueUnlock
<1>25. CASE CheckSleepers(t)
  BY <1>25 DEF CheckSleepers
<1>26. CASE LoadSlot(t)
  BY <1>26 DEF LoadSlot
<1>27. CASE ClearSlot(t)
  BY <1>27 DEF ClearSlot
<1>28. CASE FreeService(t)
  BY <1>28 DEF FreeService
<1>29. CASE CountDown(t)
  BY <1>29 DEF CountDown
<1>30. CASE RemoveReturn(t)
  BY <1>30 DEF RemoveReturn
<1>31. CASE WakeUp(t)
  BY <1>31 DEF WakeUp
<1>33. CASE Halts(t)
  <2>1. UNCHANGED <<key, tag, creator, perm, alloc, queue>>
    BY <1>33, HaltEffect
  <2>2. keptLists' = keptLists \/ service[t] \in Svc
    BY <1>33, HaltEffect DEF Place
  <2>3. keptLists' \subseteq keptLists \cup {service[t]}
    BY <1>33, HaltEffect
  <2>4. QED BY <2>1, <2>2, <2>3
<1>32. QED BY <1>0, <1>1, <1>2, <1>3, <1>4, <1>5, <1>6, <1>7, <1>8, <1>9,
              <1>10, <1>11, <1>12, <1>13, <1>14, <1>15, <1>16, <1>17, <1>18,
               <1>19, <1>20, <1>21, <1>22, <1>23, <1>24, <1>25, <1>26, <1>27,
               <1>28, <1>29, <1>30, <1>31, <1>33
           DEF Step, Acquire, Work, Halts


LEMMA LocalStep ==
  ASSUME RegistryAssumption, TypeInv, NEW t \in Threads, Step(t)
  PROVE  LocalTypes' /\ Place(t)'
<1>. LocalTypes /\ SharedTypes /\ Place(t)
  BY TypeParts DEF TypeInv
<1>. USE DEF locals, faults, damage, Goto, Op, IsPrivate, Ptr, PCs, TableOps,
             Removing,
             Creating
<1>0. ASSUME NEW c \in Arguments, Enter(t, c)
      PROVE  LocalTypes' /\ Place(t)'
  <2>1. FirstStep(c) \in {"reject", "refuse", "count", "rlock"}
    BY DEF FirstStep
  <2>2. LocalTypes'
    BY <1>0, <2>1 DEF Enter, LocalTypes
  <2>3. pc'[t] = FirstStep(c) /\ call'[t] = c
    BY <1>0 DEF Enter, LocalTypes
  <2>4. service'[t] = NULL /\ idx'[t] = 0
    BY <1>0 DEF Enter, LocalTypes, Place
  <2>5. Place(t)'
    BY <2>1, <2>3, <2>4, ArgumentFields DEF Place, FirstStep, Operations
  <2>6. QED BY <2>2, <2>5
<1>1. CASE Reject(t)
  BY <1>1, EndCallTypes DEF Reject
<1>2. CASE Refuse(t)
  BY <1>2, EndCallTypes DEF Refuse
<1>3. CASE ReadLock(t)
  <2>1. LocalTypes'
    BY <1>3 DEF ReadLock, LocalTypes
  <2>2. Place(t)'
    BY <1>3, <2>1, ArgumentFields, NoCallFields DEF ReadLock, LocalTypes, Place
  <2>3. QED BY <2>1, <2>2
<1>4. CASE WriteLock(t)
  <2>1. LocalTypes'
    BY <1>4 DEF WriteLock, LocalTypes
  <2>2. Place(t)'
    BY <1>4, <2>1, ArgumentFields, NoCallFields DEF WriteLock, LocalTypes,
                                                    Place
  <2>3. QED BY <2>1, <2>2
<1>5. CASE ScanLoad(t)
  <2>1. LocalTypes'
    <3>1. idx'[t] \in 0 .. min_sys_TAG_Services
      BY <1>5 DEF ScanLoad, SearchedSlots, Slots, LocalTypes,
                   RegistryAssumption
    <3>2. p'[t] \in Ptr /\ pc'[t] \in PCs
      BY <1>5 DEF ScanLoad, SearchedSlots, Slots, LocalTypes, SharedTypes
    <3>3. /\ idx' = [idx EXCEPT ![t] = idx'[t]]
          /\ p' = [p EXCEPT ![t] = p'[t]]
          /\ pc' = [pc EXCEPT ![t] = pc'[t]]
      BY <1>5 DEF ScanLoad, LocalTypes
    <3>4. QED BY <1>5, <3>1, <3>2, <3>3 DEF ScanLoad, LocalTypes
  <2>2. Place(t)'
    BY <1>5, <2>1 DEF ScanLoad, SearchedSlots, LocalTypes, Place
  <2>3. QED BY <2>1, <2>2
<1>6. CASE ScanTouch(t)
  <2>1. LocalTypes'
    BY <1>6 DEF ScanTouch, Found, NextSlot, Oops, LocalTypes, Slots,
                RegistryAssumption, Place
  <2>2. Place(t)'
    BY <1>6, <2>1 DEF ScanTouch, Found, NextSlot, Oops, LocalTypes, Place
  <2>3. QED BY <2>1, <2>2
<1>7. CASE CheckCount(t)
  <2>1. CASE EndCall(t)
    BY <2>1, EndCallTypes
  <2>2. CASE Goto(t, "wlock") /\ UNCHANGED <<locals, dangling>>
    BY <1>7, <2>2 DEF CheckCount, LocalTypes, Place
  <2>3. QED BY <1>7, <2>1, <2>2 DEF CheckCount
<1>8. CASE KeyExists(t)
  BY <1>8, EndCallTypes DEF KeyExists
<1>9. CASE PickSlot(t)
  <2>1. CASE NoService(t)
    BY <2>1, EndCallTypes DEF NoService
  <2>2. ASSUME NEW i \in FreeSlots,
               idx' = [idx EXCEPT ![t] = i], Goto(t, "store"),
               UNCHANGED <<call, p, service, tmp, dangling>>
        PROVE  LocalTypes' /\ Place(t)'
    <3>1. i \in Slots /\ i \in 0 .. min_sys_TAG_Services
      BY DEF FreeSlots, Slots, RegistryAssumption
    <3>2. LocalTypes'
      BY <1>9, <2>2, <3>1 DEF LocalTypes
    <3>3. Place(t)'
      BY <1>9, <2>2, <3>1 DEF PickSlot, LocalTypes, Place
    <3>4. QED BY <3>2, <3>3
  <2>3. QED BY <1>9, <2>1, <2>2 DEF PickSlot
<1>10. CASE StoreService(t)
  <2>1. LocalTypes'
    BY <1>10 DEF StoreService, LocalTypes
  <2>2. Place(t)'
    BY <1>10, <2>1, ArgumentFields, NoCallFields DEF StoreService,
                                                     LocalTypes, Place
  <2>3. QED BY <2>1, <2>2
<1>11. CASE StoreFails(t)
  <2>1. LocalTypes'
    BY <1>11 DEF StoreFails, NoMemory, LocalTypes
  <2>2. Place(t)'
    BY <1>11, <2>1 DEF StoreFails, NoMemory, LocalTypes, Place
  <2>3. QED BY <2>1, <2>2
<1>12. CASE SpareFails(t)
  <2>1. LocalTypes'
    BY <1>12 DEF SpareFails, NoMemory, LocalTypes
  <2>2. Place(t)'
    BY <1>12, <2>1 DEF SpareFails, NoMemory, LocalTypes, Place
  <2>3. QED BY <2>1, <2>2
<1>13. CASE ReloadService(t)
  <2>1. CASE NoService(t)
    BY <2>1, EndCallTypes DEF NoService
  <2>2. CASE /\ service' = [service EXCEPT ![t] = tagServices[idx[t]]]
             /\ tagServices[idx[t]] # NULL
             /\ Goto(t, IF IsPrivate(t) THEN "wunlock" ELSE "inc")
             /\ UNCHANGED <<call, idx, p, tmp, dangling>>
    <3>1. tagServices[idx[t]] \in Svc
      BY <1>13, <2>2 DEF ReloadService, TypeInv, NeverDirtied, SharedTypes,
                         Place
    <3>2. LocalTypes'
      BY <1>13, <2>2, <3>1 DEF LocalTypes
    <3>3. Place(t)'
      BY <1>13, <2>2, <3>1 DEF ReloadService, LocalTypes, Place
    <3>4. QED BY <3>2, <3>3
  <2>3. QED BY <1>13, <2>1, <2>2 DEF ReloadService
<1>14. CASE CountUp(t)
  <2>1. LocalTypes'
    BY <1>14 DEF CountUp, LocalTypes
  <2>2. Place(t)'
    BY <1>14, <2>1, ArgumentFields, NoCallFields DEF CountUp, LocalTypes, Place
  <2>3. QED BY <2>1, <2>2
<1>15. CASE WriteUnlock(t)
  <2>1. LocalTypes'
    BY <1>15 DEF WriteUnlock, LocalTypes
  <2>2. Place(t)'
    BY <1>15, <2>1, ArgumentFields, NoCallFields DEF WriteUnlock, LocalTypes,
                                                     Place
  <2>3. QED BY <2>1, <2>2
<1>16. CASE PutModule(t)
  <2>1. LocalTypes'
    BY <1>16 DEF PutModule, LocalTypes
  <2>2. Place(t)'
    BY <1>16, <2>1, ArgumentFields, NoCallFields DEF PutModule, LocalTypes,
                                                     Place
  <2>3. QED BY <2>1, <2>2
<1>17. CASE ReturnTag(t)
  BY <1>17, EndCallTypes DEF ReturnTag
<1>18. CASE ReadUnlock(t)
  <2>1. CASE EndCall(t)
    BY <2>1, EndCallTypes
  <2>2. CASE /\ service[t] # NULL /\ Goto(t, "valid")
             /\ UNCHANGED <<locals, dangling>>
    BY <1>18, <2>2 DEF ReadUnlock, LocalTypes, Place
  <2>3. QED BY <1>18, <2>1, <2>2 DEF ReadUnlock
<1>19. CASE CheckValid(t)
  <2>1. CASE EndCall(t)
    BY <2>1, EndCallTypes
  <2>2. CASE Goto(t, Granted(Op(t))) /\ UNCHANGED <<locals, dangling>>
    <3>1. Op(t) \in TableOps /\ service[t] \in Svc
      BY <1>19 DEF CheckValid, Place
    <3>2. LocalTypes'
      BY <3>1, <2>2 DEF LocalTypes, Granted
    <3>3. pc'[t] = Granted(Op(t))
      BY <2>2 DEF LocalTypes
    <3>4. Place(t)'
      BY <1>19, <2>2, <3>1, <3>3 DEF CheckValid, Place, Granted
    <3>5. QED BY <3>2, <3>4
  <2>3. QED BY <1>19, <2>1, <2>2 DEF CheckValid
<1>20. CASE Send(t)
  BY <1>20, EndCallTypes DEF Send
<1>21. CASE Listen(t)
  <2>1. LocalTypes'
    BY <1>21 DEF Listen, LocalTypes
  <2>2. Place(t)'
    BY <1>21, <2>1, ArgumentFields, NoCallFields DEF Listen, LocalTypes, Place
  <2>3. QED BY <2>1, <2>2
<1>22. CASE Leave(t)
  <2>1. CASE EndCall(t)
    BY <2>1, EndCallTypes
  <2>2. CASE Goto(t, "copying") /\ UNCHANGED <<locals, dangling>>
    BY <1>22, <2>2 DEF Leave, LocalTypes, Place
  <2>3. QED BY <1>22, <2>1, <2>2 DEF Leave
<1>23. CASE AwakeQueues(t)
  <2>1. LocalTypes'
    BY <1>23 DEF AwakeQueues, LocalTypes
  <2>2. Place(t)'
    BY <1>23, <2>1, ArgumentFields, NoCallFields DEF AwakeQueues, LocalTypes,
                                                     Place
  <2>3. QED BY <2>1, <2>2
<1>24. CASE RogueUnlock(t)
  BY <1>24, EndCallTypes DEF RogueUnlock
<1>25. CASE CheckSleepers(t)
  <2>1. CASE EndCall(t)
    BY <2>1, EndCallTypes
  <2>2. CASE Goto(t, "unlink") /\ UNCHANGED <<locals, dangling>>
    BY <1>25, <2>2 DEF CheckSleepers, LocalTypes, Place
  <2>3. QED BY <1>25, <2>1, <2>2 DEF CheckSleepers
<1>26. CASE LoadSlot(t)
  <2>1. PICK i \in Slots : idx' = [idx EXCEPT ![t] = i]
                           /\ tmp' = [tmp EXCEPT ![t] = tagServices[i]]
    BY <1>26 DEF LoadSlot
  <2>2. i \in 0 .. min_sys_TAG_Services /\ tagServices[i] \in Ptr
    BY DEF Slots, RegistryAssumption, SharedTypes
  <2>3. LocalTypes'
    BY <1>26, <2>1, <2>2 DEF LoadSlot, LocalTypes
  <2>4. Place(t)'
    BY <1>26, <2>1, <2>2 DEF LoadSlot, LocalTypes, Place
  <2>5. QED BY <2>3, <2>4
<1>27. CASE ClearSlot(t)
  <2>1. LocalTypes'
    BY <1>27 DEF ClearSlot, LocalTypes
  <2>2. Place(t)'
    BY <1>27, <2>1, ArgumentFields, NoCallFields DEF ClearSlot, LocalTypes,
                                                     Place
  <2>3. QED BY <2>1, <2>2
<1>28. CASE FreeService(t)
  <2>1. LocalTypes'
    BY <1>28 DEF FreeService, LocalTypes
  <2>2. Place(t)'
    BY <1>28, <2>1, ArgumentFields, NoCallFields DEF FreeService, LocalTypes,
                                                     Place
  <2>3. QED BY <2>1, <2>2
<1>29. CASE CountDown(t)
  <2>1. LocalTypes'
    BY <1>29 DEF CountDown, LocalTypes
  <2>2. Place(t)'
    BY <1>29, <2>1, ArgumentFields, NoCallFields DEF CountDown, LocalTypes,
                                                     Place
  <2>3. QED BY <2>1, <2>2
<1>30. CASE RemoveReturn(t)
  BY <1>30, EndCallTypes DEF RemoveReturn
<1>31. CASE WakeUp(t)
  <2>1. LocalTypes'
    BY <1>31 DEF WakeUp, LocalTypes
  <2>2. Place(t)'
    BY <1>31, <2>1, ArgumentFields, NoCallFields DEF WakeUp, LocalTypes, Place
  <2>3. QED BY <2>1, <2>2
<1>33. CASE Halts(t)
  <2>1. pc'[t] \in {"died", "waiting", "lost"}
        /\ pc' = [pc EXCEPT ![t] = pc'[t]]
    BY <1>33, HaltEffect
  <2>2. UNCHANGED <<call, idx, p, tmp, service, dangling>>
    BY <1>33, HaltEffect
  <2>3. LocalTypes'
    BY <2>1, <2>2 DEF LocalTypes
  <2>4. Place(t)'
    BY <1>33, HaltEffect DEF Place
  <2>5. QED BY <2>3, <2>4
<1>32. QED BY <1>0, <1>1, <1>2, <1>3, <1>4, <1>5, <1>6, <1>7, <1>8, <1>9,
              <1>10, <1>11, <1>12, <1>13, <1>14, <1>15, <1>16, <1>17, <1>18,
               <1>19, <1>20, <1>21, <1>22, <1>23, <1>24, <1>25, <1>26, <1>27,
               <1>28, <1>29, <1>30, <1>31, <1>33
           DEF Step, Acquire, Work, Halts


LEMMA OthersKeep ==
  ASSUME TypeInv, NEW t \in Threads, Step(t), NEW u \in Threads \ {t}
  PROVE  /\ pc'[u] = pc[u] /\ call'[u] = call[u] /\ idx'[u] = idx[u]
         /\ p'[u] = p[u] /\ service'[u] = service[u] /\ tmp'[u] = tmp[u]
         /\ u \in dangling => u \in dangling'
<1>. LocalTypes
  BY TypeParts DEF TypeInv
<1>. USE DEF LocalTypes, locals, faults, damage, Goto, EndCall
<1>0. ASSUME NEW c \in Arguments, Enter(t, c)
      PROVE  /\ pc'[u] = pc[u] /\ call'[u] = call[u] /\ idx'[u] = idx[u]
             /\ p'[u] = p[u] /\ service'[u] = service[u] /\ tmp'[u] = tmp[u]
             /\ u \in dangling => u \in dangling'
  BY <1>0 DEF Enter
<1>1. CASE Reject(t)
  BY <1>1 DEF Reject
<1>2. CASE Refuse(t)
  BY <1>2 DEF Refuse
<1>3. CASE ReadLock(t)
  BY <1>3 DEF ReadLock
<1>4. CASE WriteLock(t)
  BY <1>4 DEF WriteLock
<1>5. CASE ScanLoad(t)
  BY <1>5 DEF ScanLoad
<1>6. CASE ScanTouch(t)
  BY <1>6 DEF ScanTouch, Found, NextSlot, Oops
<1>7. CASE CheckCount(t)
  BY <1>7 DEF CheckCount
<1>8. CASE KeyExists(t)
  BY <1>8 DEF KeyExists
<1>9. CASE PickSlot(t)
  BY <1>9 DEF PickSlot, NoService
<1>10. CASE StoreService(t)
  BY <1>10 DEF StoreService
<1>11. CASE StoreFails(t)
  BY <1>11 DEF StoreFails, NoMemory
<1>12. CASE SpareFails(t)
  BY <1>12 DEF SpareFails, NoMemory
<1>13. CASE ReloadService(t)
  BY <1>13 DEF ReloadService, NoService
<1>14. CASE CountUp(t)
  BY <1>14 DEF CountUp
<1>15. CASE WriteUnlock(t)
  BY <1>15 DEF WriteUnlock
<1>16. CASE PutModule(t)
  BY <1>16 DEF PutModule
<1>17. CASE ReturnTag(t)
  BY <1>17 DEF ReturnTag
<1>18. CASE ReadUnlock(t)
  BY <1>18 DEF ReadUnlock
<1>19. CASE CheckValid(t)
  BY <1>19 DEF CheckValid
<1>20. CASE Send(t)
  BY <1>20 DEF Send
<1>21. CASE Listen(t)
  BY <1>21 DEF Listen
<1>22. CASE Leave(t)
  BY <1>22 DEF Leave
<1>23. CASE AwakeQueues(t)
  BY <1>23 DEF AwakeQueues
<1>24. CASE RogueUnlock(t)
  BY <1>24 DEF RogueUnlock
<1>25. CASE CheckSleepers(t)
  BY <1>25 DEF CheckSleepers
<1>26. CASE LoadSlot(t)
  BY <1>26 DEF LoadSlot
<1>27. CASE ClearSlot(t)
  BY <1>27 DEF ClearSlot
<1>28. CASE FreeService(t)
  BY <1>28 DEF FreeService
<1>29. CASE CountDown(t)
  BY <1>29 DEF CountDown
<1>30. CASE RemoveReturn(t)
  BY <1>30 DEF RemoveReturn
<1>31. CASE WakeUp(t)
  BY <1>31 DEF WakeUp
<1>33. CASE Halts(t)
  BY <1>33, HaltEffect
<1>32. QED BY <1>0, <1>1, <1>2, <1>3, <1>4, <1>5, <1>6, <1>7, <1>8, <1>9,
              <1>10, <1>11, <1>12, <1>13, <1>14, <1>15, <1>16, <1>17, <1>18,
               <1>19, <1>20, <1>21, <1>22, <1>23, <1>24, <1>25, <1>26, <1>27,
               <1>28, <1>29, <1>30, <1>31, <1>33
           DEF Step, Acquire, Work, Halts

\* The steps that touch the table or a service.
LEMMA TableSteps ==
  ASSUME NEW t \in Threads, Step(t)
  PROVE  \/ UNCHANGED <<tagServices, key, tag, alloc, freedTwice>>
         \/ StoreService(t) \/ ClearSlot(t) \/ FreeService(t)
<1>. USE DEF table, object, faults, damage
<1>0. ASSUME NEW c \in Arguments, Enter(t, c)
      PROVE  UNCHANGED <<tagServices, key, tag, alloc, freedTwice>>
  BY <1>0 DEF Enter
<1>1. CASE Reject(t)
  BY <1>1 DEF Reject
<1>2. CASE Refuse(t)
  BY <1>2 DEF Refuse
<1>3. CASE ReadLock(t)
  BY <1>3 DEF ReadLock
<1>4. CASE WriteLock(t)
  BY <1>4 DEF WriteLock
<1>5. CASE ScanLoad(t)
  BY <1>5 DEF ScanLoad
<1>6. CASE ScanTouch(t)
  BY <1>6 DEF ScanTouch
<1>7. CASE CheckCount(t)
  BY <1>7 DEF CheckCount
<1>8. CASE KeyExists(t)
  BY <1>8 DEF KeyExists
<1>9. CASE PickSlot(t)
  BY <1>9 DEF PickSlot
<1>10. CASE StoreService(t)
  BY <1>10 DEF StoreService
<1>11. CASE StoreFails(t)
  BY <1>11 DEF StoreFails
<1>12. CASE SpareFails(t)
  BY <1>12 DEF SpareFails
<1>13. CASE ReloadService(t)
  BY <1>13 DEF ReloadService
<1>14. CASE CountUp(t)
  BY <1>14 DEF CountUp
<1>15. CASE WriteUnlock(t)
  BY <1>15 DEF WriteUnlock
<1>16. CASE PutModule(t)
  BY <1>16 DEF PutModule
<1>17. CASE ReturnTag(t)
  BY <1>17 DEF ReturnTag
<1>18. CASE ReadUnlock(t)
  BY <1>18 DEF ReadUnlock
<1>19. CASE CheckValid(t)
  BY <1>19 DEF CheckValid
<1>20. CASE Send(t)
  BY <1>20 DEF Send
<1>21. CASE Listen(t)
  BY <1>21 DEF Listen
<1>22. CASE Leave(t)
  BY <1>22 DEF Leave
<1>23. CASE AwakeQueues(t)
  BY <1>23 DEF AwakeQueues
<1>24. CASE RogueUnlock(t)
  BY <1>24 DEF RogueUnlock
<1>25. CASE CheckSleepers(t)
  BY <1>25 DEF CheckSleepers
<1>26. CASE LoadSlot(t)
  BY <1>26 DEF LoadSlot
<1>27. CASE ClearSlot(t)
  BY <1>27 DEF ClearSlot
<1>28. CASE FreeService(t)
  BY <1>28 DEF FreeService
<1>29. CASE CountDown(t)
  BY <1>29 DEF CountDown
<1>30. CASE RemoveReturn(t)
  BY <1>30 DEF RemoveReturn
<1>31. CASE WakeUp(t)
  BY <1>31 DEF WakeUp
<1>33. CASE Halts(t)
  BY <1>33 DEF Halts, SendWaits, Stray, FreeFails
<1>32. QED BY <1>0, <1>1, <1>2, <1>3, <1>4, <1>5, <1>6, <1>7, <1>8, <1>9,
              <1>10, <1>11, <1>12, <1>13, <1>14, <1>15, <1>16, <1>17, <1>18,
               <1>19, <1>20, <1>21, <1>22, <1>23, <1>24, <1>25, <1>26, <1>27,
               <1>28, <1>29, <1>30, <1>31, <1>33
           DEF Step, Acquire, Work, Halts


\* How a thread gets to some of its places.
Arrived(t) ==
  /\ pc'[t] = "store" => PickSlot(t)
  /\ pc'[t] = "fresh" => StoreService(t)
  /\ pc'[t] = "clear" => LoadSlot(t)
  /\ pc'[t] = "kfree" => ClearSlot(t)
  /\ pc[t] = "kfree" => FreeService(t) \/ FreeFails(t)
  /\ pc'[t] \in {"scan", "touch", "pick"} =>
       ReadLock(t) \/ WriteLock(t) \/ ScanLoad(t) \/ ScanTouch(t)
  /\ Op(t)' = "CREATE" /\ service'[t] # NULL =>
       \/ ScanTouch(t) \/ ReloadService(t)
       \/ UNCHANGED <<tagServices, key, tag, call, service, dangling, tmp>>
            /\ pc'[t] # "kfree"

LEMMA Arrivals ==
  ASSUME RegistryAssumption, TypeInv, NEW t \in Threads, Step(t)
  PROVE  Arrived(t)
<1>. LocalTypes /\ Place(t)
  BY TypeParts DEF TypeInv
<1>. USE NoCallFields DEF Arrived, LocalTypes, locals, Goto, EndCall, Op
<1>0. ASSUME NEW c \in Arguments, Enter(t, c)
      PROVE  Arrived(t)
  BY <1>0 DEF Enter, FirstStep, Place
<1>1. CASE Reject(t)
  BY <1>1 DEF Reject, Place, Removing, TableOps
<1>2. CASE Refuse(t)
  BY <1>2 DEF Refuse, Place, Removing, TableOps
<1>3. CASE ReadLock(t)
  BY <1>3 DEF ReadLock, Place, Removing, TableOps
<1>4. CASE WriteLock(t)
  BY <1>4 DEF WriteLock, Place, Removing, TableOps
<1>5. CASE ScanLoad(t)
  BY <1>5 DEF ScanLoad, Place, Removing, TableOps
<1>6. CASE ScanTouch(t)
  BY <1>6 DEF ScanTouch, Found, NextSlot, Oops
<1>7. CASE CheckCount(t)
  BY <1>7 DEF CheckCount, Place, Creating
<1>8. CASE KeyExists(t)
  BY <1>8 DEF KeyExists
<1>9. CASE PickSlot(t)
  BY <1>9 DEF PickSlot, NoService, Place
<1>10. CASE StoreService(t)
  BY <1>10 DEF StoreService, Place, Removing
<1>11. CASE StoreFails(t)
  BY <1>11 DEF StoreFails, NoMemory, Place, Removing
<1>12. CASE SpareFails(t)
  BY <1>12 DEF SpareFails, NoMemory, Place, Removing
<1>13. CASE ReloadService(t)
  BY <1>13 DEF ReloadService, NoService, Place
<1>14. CASE CountUp(t)
  BY <1>14 DEF CountUp, table, object, faults, damage
<1>15. CASE WriteUnlock(t)
  BY <1>15 DEF WriteUnlock, table, object, faults, damage
<1>16. CASE PutModule(t)
  BY <1>16 DEF PutModule, table, object, faults, damage
<1>17. CASE ReturnTag(t)
  BY <1>17 DEF ReturnTag
<1>18. CASE ReadUnlock(t)
  BY <1>18 DEF ReadUnlock, Place, TableOps
<1>19. CASE CheckValid(t)
  BY <1>19 DEF CheckValid, Granted, TableOps, Place, Op
<1>20. CASE Send(t)
  BY <1>20 DEF Send, Place, Removing, TableOps
<1>21. CASE Listen(t)
  BY <1>21 DEF Listen, Place, Removing, TableOps
<1>22. CASE Leave(t)
  BY <1>22 DEF Leave, Place, Removing, TableOps
<1>23. CASE AwakeQueues(t)
  BY <1>23 DEF AwakeQueues, Place, Removing, TableOps
<1>24. CASE RogueUnlock(t)
  BY <1>24 DEF RogueUnlock
<1>25. CASE CheckSleepers(t)
  BY <1>25 DEF CheckSleepers, Place, Removing, TableOps
<1>26. CASE LoadSlot(t)
  BY <1>26 DEF LoadSlot, Place, Removing
<1>27. CASE ClearSlot(t)
  BY <1>27 DEF ClearSlot, Place, Removing
<1>28. CASE FreeService(t)
  BY <1>28 DEF FreeService, Place, Removing
<1>29. CASE CountDown(t)
  BY <1>29 DEF CountDown, Place, Removing
<1>30. CASE RemoveReturn(t)
  BY <1>30 DEF RemoveReturn, Place, Removing, TableOps
<1>31. CASE WakeUp(t)
  BY <1>31 DEF WakeUp, Place, Removing, TableOps
<1>33. CASE Halts(t)
  BY <1>33, HaltEffect DEF Place, Removing
<1>32. QED BY <1>0, <1>1, <1>2, <1>3, <1>4, <1>5, <1>6, <1>7, <1>8, <1>9,
              <1>10, <1>11, <1>12, <1>13, <1>14, <1>15, <1>16, <1>17, <1>18,
               <1>19, <1>20, <1>21, <1>22, <1>23, <1>24, <1>25, <1>26, <1>27,
               <1>28, <1>29, <1>30, <1>31, <1>33
           DEF Step, Acquire, Work, Halts

LEMMA PlaceOfOthers ==
  ASSUME TypeInv, NEW t \in Threads, Step(t), NEW u \in Threads \ {t}
  PROVE  Place(u)'
<1>1. Place(u)
  BY DEF TypeInv
<1>2. QED BY <1>1, OthersKeep DEF Place, Op, IsPrivate

LEMMA DirtyStep ==
  ASSUME RegistryAssumption, TypeInv, NEW t \in Threads, Step(t)
  PROVE  NeverDirtied'
<1>. SUFFICES ASSUME NEW u \in Threads, pc'[u] \in {"store", "fresh"}
              PROVE  tagServices'[idx'[u]] # Wild
  BY DEF NeverDirtied
<1>. LocalTypes /\ SharedTypes /\ NULL # Wild /\ Wild \notin Svc
  BY TypeParts DEF TypeInv, RegistryAssumption
<1>1. ASSUME NEW i \in Slots, tagServices[i] # Wild
      PROVE  tagServices'[i] # Wild
  <2>1. CASE tagServices' = tagServices
    BY <1>1, <2>1
  <2>2. CASE StoreService(t)
    BY <1>1, <2>2 DEF StoreService, Allocatable, SharedTypes
  <2>3. CASE ClearSlot(t)
    BY <1>1, <2>3 DEF ClearSlot, Cleared, SharedTypes
  <2>4. QED BY <2>1, <2>2, <2>3, TableSteps DEF FreeService, table
<1>2. CASE u # t
  <2>1. pc[u] \in {"store", "fresh"} /\ idx'[u] = idx[u]
    BY <1>2, OthersKeep
  <2>2. idx[u] \in Slots /\ tagServices[idx[u]] # Wild
    BY <2>1 DEF TypeInv, Place, NeverDirtied
  <2>3. QED BY <2>1, <2>2, <1>1
<1>3. CASE u = t /\ PickSlot(t)
  BY <1>3 DEF PickSlot, FreeSlots, NoService, EndCall, Goto, LocalTypes, table
<1>4. CASE u = t /\ pc[t] = "store" /\ idx'[t] = idx[t]
  BY <1>1, <1>4 DEF TypeInv, Place, NeverDirtied
<1>5. QED BY <1>2, <1>3, <1>4, Arrivals DEF Arrived, StoreService, locals

LEMMA NextSteps ==
  ASSUME Next
  PROVE  \E t \in Threads : Step(t)
BY DEF Next, Step

LEMMA InitTypes ==
  ASSUME RegistryAssumption, Init
  PROVE  TypeInv
<1>1. LocalTypes
  BY DEF Init, LocalTypes, PCs, Ptr, Slots, RegistryAssumption
<1>2. ObjectTypes
  BY DEF Init, ObjectTypes, AnyKey, Slots, RegistryAssumption
<1>3. SharedTypes
  <2>1. tagServices \in [Slots -> Ptr]
    BY DEF Init, Ptr
  <2>2. serviceCount \in 0 .. CountWidth - 1 /\ calls \in 0 .. MaxCalls
    BY DEF Init, RegistryAssumption
  <2>3. /\ readers \in Int /\ refs \in Int /\ leakedReads \in Nat
        /\ leakedRefs \in Nat /\ vacuous \in Nat
    BY DEF Init
  <2>4. /\ wlocked \in BOOLEAN /\ leakedWrite \in BOOLEAN
        /\ rogue \in BOOLEAN /\ wild \in BOOLEAN /\ freedTwice \subseteq Svc
    BY DEF Init
  <2>5. QED BY <2>1, <2>2, <2>3, <2>4 DEF SharedTypes
<1>4. \A t \in Threads : Place(t)
  BY NoCallFields
     DEF Init, Place, Op, TableOps, Creating, Removing
<1>5. NeverDirtied
  BY DEF Init, NeverDirtied
<1>6. QED BY <1>1, <1>2, <1>3, <1>4, <1>5, TypeParts DEF TypeInv

(* Every thread is where its call can be, with the locals that place       *)
(* needs, and no create ever picks a slot kmalloc left dirty.              *)
THEOREM TypeInvariant == Spec => []TypeInv
<1>1. Init => TypeInv
  BY RegistryAssumption, InitTypes
<1>2. TypeInv /\ [Next]_vars => TypeInv'
  <2>1. ASSUME TypeInv, Next PROVE TypeInv'
    <3>1. PICK t \in Threads : Step(t)
      BY <2>1, NextSteps
    <3>2. LocalTypes' /\ ObjectTypes' /\ SharedTypes' /\ Place(t)'
      BY <2>1, <3>1, RegistryAssumption, LocalStep, ObjectStep, SharedStep
    <3>3. \A u \in Threads : Place(u)'
      BY <2>1, <3>1, <3>2, PlaceOfOthers
    <3>4. NeverDirtied'
      BY <2>1, <3>1, RegistryAssumption, DirtyStep
    <3>5. TypeOK'
      BY <3>2 DEF TypeOK, LocalTypes, ObjectTypes, SharedTypes
    <3>6. QED BY <3>3, <3>4, <3>5 DEF TypeInv
  <2>2. ASSUME TypeInv, UNCHANGED vars PROVE TypeInv'
    <3>. USE <2>2 DEF vars, table, object, lock, locals, leaks, faults, damage
    <3>1. TypeOK'
      BY DEF TypeInv, TypeOK
    <3>2. ASSUME NEW t \in Threads PROVE Place(t)'
      <4>1. Place(t)
        BY DEF TypeInv
      <4>2. QED BY <4>1 DEF Place, Op, IsPrivate
    <3>3. NeverDirtied'
      BY DEF TypeInv, NeverDirtied
    <3>4. QED BY <3>1, <3>2, <3>3 DEF TypeInv
  <2>3. QED BY <2>1, <2>2
<1>3. QED BY <1>1, <1>2, PTL DEF Spec

(* Every variable keeps the type TagRegistry declares for it.              *)
THEOREM TypeCorrect == Spec => []TypeOK
<1>1. TypeInv => TypeOK
  BY DEF TypeInv
<1>2. QED BY <1>1, TypeInvariant, PTL

-----------------------------------------------------------------------------
(* searchLock *)

\* What a step does to the sections of its thread and to the lock.
Stays(t) ==
  /\ InRead(t)' <=> InRead(t)
  /\ InWrite(t)' <=> InWrite(t)
  /\ UNCHANGED <<wlocked, readers, leakedReads, leakedWrite, rogue>>
BeginsRead(t) ==
  /\ ~InRead(t) /\ InRead(t)' /\ ~InWrite(t) /\ ~InWrite(t)'
  /\ ~wlocked /\ readers' = readers + 1
  /\ UNCHANGED <<wlocked, leakedReads, leakedWrite, rogue>>
BeginsWrite(t) ==
  /\ ~InRead(t) /\ ~InRead(t)' /\ ~InWrite(t) /\ InWrite(t)'
  /\ ~wlocked /\ readers = 0 /\ wlocked'
  /\ UNCHANGED <<readers, leakedReads, leakedWrite, rogue>>
EndsRead(t) ==
  /\ InRead(t) /\ ~InRead(t)' /\ ~InWrite(t) /\ ~InWrite(t)'
  /\ \/ readers' = readers - 1 /\ leakedReads' = leakedReads
     \/ readers' = readers /\ leakedReads' = leakedReads + 1
  /\ UNCHANGED <<wlocked, leakedWrite, rogue>>
EndsWrite(t) ==
  /\ ~InRead(t) /\ ~InRead(t)' /\ InWrite(t) /\ ~InWrite(t)'
  /\ \/ ~wlocked' /\ leakedWrite' = leakedWrite
     \/ wlocked' = wlocked /\ leakedWrite' = wlocked
  /\ UNCHANGED <<readers, leakedReads, rogue>>
BreaksLock(t) ==
  /\ ~InRead(t) /\ ~InRead(t)' /\ ~InWrite(t) /\ ~InWrite(t)'
  /\ ~wlocked' /\ ~leakedWrite'
  /\ ~rogue' => ~rogue /\ \A u \in Threads : ~InWrite(u)
  /\ UNCHANGED <<readers, leakedReads>>

LEMMA Sections ==
  ASSUME RegistryAssumption, TypeInv, NEW t \in Threads, Step(t)
  PROVE  \/ Stays(t) \/ BeginsRead(t) \/ BeginsWrite(t)
         \/ EndsRead(t) \/ EndsWrite(t) \/ BreaksLock(t)
<1>. LocalTypes /\ Place(t)
  BY TypeParts DEF TypeInv
<1>. USE DEF LocalTypes, Place, InRead, InWrite, Op, IsPrivate, Goto, EndCall,
             locals, leaks, faults, damage, lock, Creating, Removing, TableOps
<1>0. ASSUME NEW c \in Arguments, Enter(t, c)
      PROVE  Stays(t)
  BY <1>0, NoCallFields, ArgumentFields DEF Enter, FirstStep, Operations, Stays
<1>1. CASE Reject(t)
  BY <1>1, NoCallFields DEF Reject, Stays
<1>2. CASE Refuse(t)
  BY <1>2, NoCallFields DEF Refuse, Stays
<1>3. CASE ReadLock(t)
  BY <1>3, NoCallFields DEF ReadLock, BeginsRead, ReadAvailable
<1>4. CASE WriteLock(t)
  BY <1>4, NoCallFields DEF WriteLock, BeginsWrite, WriteAvailable
<1>5. CASE ScanLoad(t)
  BY <1>5, NoCallFields DEF ScanLoad, Stays
<1>6. CASE ScanTouch(t)
  BY <1>6, NoCallFields DEF ScanTouch, Stays, Found, NextSlot, Oops
<1>7. CASE CheckCount(t)
  BY <1>7, NoCallFields DEF CheckCount, Stays
<1>8. CASE KeyExists(t)
  BY <1>8, NoCallFields DEF KeyExists, EndsWrite, Unlocked
<1>9. CASE PickSlot(t)
  BY <1>9, NoCallFields DEF PickSlot, Stays, EndsWrite, NoService
<1>10. CASE StoreService(t)
  BY <1>10, NoCallFields DEF StoreService, Stays
<1>11. CASE StoreFails(t)
  BY <1>11, NoCallFields DEF StoreFails, Stays, NoMemory
<1>12. CASE SpareFails(t)
  BY <1>12, NoCallFields DEF SpareFails, Stays, NoMemory
<1>13. CASE ReloadService(t)
  BY <1>13, NoCallFields DEF ReloadService, Stays, EndsWrite, NoService
<1>14. CASE CountUp(t)
  BY <1>14, NoCallFields DEF CountUp, Stays
<1>15. CASE WriteUnlock(t)
  BY <1>15, NoCallFields DEF WriteUnlock, EndsWrite, Unlocked
<1>16. CASE PutModule(t)
  BY <1>16, NoCallFields DEF PutModule, Stays
<1>17. CASE ReturnTag(t)
  BY <1>17, NoCallFields DEF ReturnTag, Stays
<1>18. CASE ReadUnlock(t)
  BY <1>18, NoCallFields DEF ReadUnlock, EndsRead
<1>19. CASE CheckValid(t)
  BY <1>19, NoCallFields DEF CheckValid, Stays, EndsRead, Granted
<1>20. CASE Send(t)
  BY <1>20, NoCallFields DEF Send, Stays
<1>21. CASE Listen(t)
  BY <1>21, NoCallFields DEF Listen, Stays
<1>22. CASE Leave(t)
  BY <1>22, NoCallFields DEF Leave, Stays
<1>23. CASE AwakeQueues(t)
  BY <1>23, NoCallFields DEF AwakeQueues, Stays
<1>24. CASE RogueUnlock(t)
  BY <1>24, NoCallFields DEF RogueUnlock, BreaksLock, Unlocked
<1>25. CASE CheckSleepers(t)
  BY <1>25, NoCallFields DEF CheckSleepers, Stays, EndsRead
<1>26. CASE LoadSlot(t)
  BY <1>26, NoCallFields DEF LoadSlot, Stays
<1>27. CASE ClearSlot(t)
  BY <1>27, NoCallFields DEF ClearSlot, Stays
<1>28. CASE FreeService(t)
  BY <1>28, NoCallFields DEF FreeService, Stays
<1>29. CASE CountDown(t)
  BY <1>29, NoCallFields DEF CountDown, Stays
<1>30. CASE RemoveReturn(t)
  BY <1>30, NoCallFields DEF RemoveReturn, EndsRead
<1>31. CASE WakeUp(t)
  BY <1>31, NoCallFields DEF WakeUp, Stays
<1>33. CASE Halts(t)
  BY <1>33, HaltEffect DEF Stays
<1>32. QED BY <1>0, <1>1, <1>2, <1>3, <1>4, <1>5, <1>6, <1>7, <1>8, <1>9,
              <1>10, <1>11, <1>12, <1>13, <1>14, <1>15, <1>16, <1>17, <1>18,
               <1>19, <1>20, <1>21, <1>22, <1>23, <1>24, <1>25, <1>26, <1>27,
               <1>28, <1>29, <1>30, <1>31, <1>33
           DEF Step, Acquire, Work, Halts

LEMMA OtherSections ==
  ASSUME TypeInv, NEW t \in Threads, Step(t), NEW u \in Threads \ {t}
  PROVE  (InRead(u)' <=> InRead(u)) /\ (InWrite(u)' <=> InWrite(u))
<1>1. pc'[u] = pc[u] /\ call'[u] = call[u]
  BY OthersKeep
<1>2. QED BY <1>1 DEF InRead, InWrite, Op, IsPrivate

\* A set of threads that only thread t may join or leave.
LEMMA JoinOrLeave ==
  ASSUME NEW S, IsFiniteSet(S), NEW T, NEW t,
         \A u : u # t => (u \in S <=> u \in T)
  PROVE  /\ IsFiniteSet(T)
         /\ Cardinality(S) \in Nat /\ Cardinality(T) \in Nat
         /\ (t \in S <=> t \in T) => Cardinality(T) = Cardinality(S)
         /\ t \notin S /\ t \in T => Cardinality(T) = Cardinality(S) + 1
         /\ t \in S /\ t \notin T => Cardinality(T) = Cardinality(S) - 1
<1>1. CASE t \in S <=> t \in T
  <2>1. S = T
    BY <1>1
  <2>2. QED BY <1>1, <2>1, FS_CardinalityType
<1>2. CASE t \notin S /\ t \in T
  <2>1. T = S \cup {t}
    BY <1>2
  <2>2. QED BY <1>2, <2>1, FS_CardinalityType, FS_AddElement
<1>3. CASE t \in S /\ t \notin T
  <2>1. T = S \ {t}
    BY <1>3
  <2>2. QED BY <1>3, <2>1, FS_CardinalityType, FS_RemoveElement
<1>4. QED BY <1>1, <1>2, <1>3

LEMMA ReadersFinite ==
  ASSUME RegistryAssumption
  PROVE  IsFiniteSet(Readers) /\ Cardinality(Readers) \in Nat
BY FS_Subset, FS_CardinalityType DEF Readers, RegistryAssumption

\* While somebody reads nobody writes.
LEMMA ReadExcludesWrite ==
  ASSUME RegistryAssumption, TypeInv, LockInv, ~rogue,
         NEW t \in Threads, InRead(t)
  PROVE  /\ readers # 0 /\ ~wlocked
         /\ \A u \in Threads : ~InWrite(u)
<1>1. Cardinality(Readers) # 0
  <2>1. t \in Readers
    BY DEF Readers
  <2>2. QED BY <2>1, ReadersFinite, FS_EmptySet
<1>2. leakedReads \in Nat
  BY DEF TypeInv, TypeOK
<1>3. readers # 0
  BY <1>1, <1>2, ReadersFinite DEF LockInv
<1>4. QED BY <1>3 DEF LockInv, OneWriter

LEMMA ReadersStep ==
  ASSUME RegistryAssumption, TypeInv, LockInv, NEW t \in Threads, Step(t)
  PROVE  (readers = Cardinality(Readers) + leakedReads)'
<1>1. \A u : u # t => (u \in Readers <=> u \in Readers')
  BY OtherSections DEF Readers
<1>2. IsFiniteSet(Readers)
  BY ReadersFinite
<1>3. /\ Cardinality(Readers) \in Nat /\ Cardinality(Readers') \in Nat
      /\ (t \in Readers <=> t \in Readers') =>
           Cardinality(Readers') = Cardinality(Readers)
      /\ t \notin Readers /\ t \in Readers' =>
           Cardinality(Readers') = Cardinality(Readers) + 1
      /\ t \in Readers /\ t \notin Readers' =>
           Cardinality(Readers') = Cardinality(Readers) - 1
  BY <1>1, <1>2, JoinOrLeave
<1>4. (t \in Readers <=> InRead(t)) /\ (t \in Readers' <=> InRead(t)')
  BY DEF Readers
<1>5. /\ readers = Cardinality(Readers) + leakedReads
      /\ readers \in Int /\ leakedReads \in Nat
  BY DEF LockInv, TypeInv, TypeOK
<1>6. CASE /\ InRead(t)' <=> InRead(t)
           /\ UNCHANGED <<readers, leakedReads>>
  BY <1>3, <1>4, <1>5, <1>6
<1>7. CASE BeginsRead(t)
  BY <1>3, <1>4, <1>5, <1>7 DEF BeginsRead
<1>8. CASE EndsRead(t)
  <2>1. Cardinality(Readers') = Cardinality(Readers) - 1
    BY <1>3, <1>4, <1>8 DEF EndsRead
  <2>2. \/ readers' = readers - 1 /\ leakedReads' = leakedReads
        \/ readers' = readers /\ leakedReads' = leakedReads + 1
    BY <1>8 DEF EndsRead
  <2>3. QED BY <1>3, <1>5, <2>1, <2>2
<1>9. QED BY <1>6, <1>7, <1>8, Sections
          DEF Stays, BeginsWrite, EndsWrite, BreaksLock

LEMMA OneWriterStep ==
  ASSUME RegistryAssumption, TypeInv, LockInv, NEW t \in Threads, Step(t)
  PROVE  OneWriter'
<1>. SUFFICES ASSUME ~rogue'
     PROVE /\ \A u \in Threads : InWrite(u)' => wlocked' /\ ~leakedWrite'
           /\ \A u, v \in Threads : InWrite(u)' /\ InWrite(v)' => u = v
           /\ wlocked' /\ ~leakedWrite' => \E u \in Threads : InWrite(u)'
           /\ leakedWrite' => wlocked'
           /\ wlocked' => readers' = 0
  BY DEF OneWriter
<1>1. ~rogue
  BY Sections
     DEF Stays, BeginsRead, BeginsWrite, EndsRead, EndsWrite, BreaksLock
<1>2. /\ \A u \in Threads : InWrite(u) => wlocked /\ ~leakedWrite
      /\ \A u, v \in Threads : InWrite(u) /\ InWrite(v) => u = v
      /\ wlocked /\ ~leakedWrite => \E u \in Threads : InWrite(u)
      /\ leakedWrite => wlocked
      /\ wlocked => readers = 0
  BY <1>1 DEF LockInv, OneWriter
<1>3. \A u \in Threads : u # t => (InWrite(u)' <=> InWrite(u))
  BY OtherSections
<1>4. CASE Stays(t)
  BY <1>2, <1>3, <1>4 DEF Stays
<1>5. CASE BeginsRead(t)
  BY <1>2, <1>3, <1>5 DEF BeginsRead
<1>6. CASE BeginsWrite(t)
  BY <1>2, <1>3, <1>6 DEF BeginsWrite
<1>7. CASE EndsRead(t)
  <2>1. ~wlocked /\ \A u \in Threads : ~InWrite(u)
    BY <1>1, <1>7, ReadExcludesWrite DEF EndsRead
  <2>2. QED BY <1>2, <1>3, <1>7, <2>1 DEF EndsRead
<1>8. CASE EndsWrite(t)
  BY <1>2, <1>3, <1>8 DEF EndsWrite
<1>9. CASE BreaksLock(t)
  BY <1>2, <1>3, <1>9 DEF BreaksLock
<1>10. QED BY <1>4, <1>5, <1>6, <1>7, <1>8, <1>9, Sections

LEMMA LockSteps == TypeInv /\ LockInv /\ [Next]_vars => LockInv'
<1>1. ASSUME TypeInv, LockInv, Next PROVE LockInv'
  <2>1. PICK t \in Threads : Step(t)
    BY <1>1, NextSteps
  <2>2. QED BY <1>1, <2>1, RegistryAssumption, ReadersStep, OneWriterStep
            DEF LockInv
<1>2. ASSUME LockInv, UNCHANGED vars PROVE LockInv'
  BY <1>2 DEF LockInv, OneWriter, Readers, InRead, InWrite, Op, IsPrivate,
              vars, lock, locals, leaks, faults, damage
<1>3. QED BY <1>1, <1>2

LEMMA LockInit == Init => LockInv
<1>. SUFFICES ASSUME Init PROVE LockInv
  OBVIOUS
<1>1. \A t \in Threads : pc[t] = "idle" /\ ~InRead(t) /\ ~InWrite(t)
  BY DEF Init, InRead, InWrite
<1>2. Readers = {}
  BY <1>1 DEF Readers
<1>3. Cardinality(Readers) = 0
  BY <1>2, FS_EmptySet
<1>4. QED BY <1>1, <1>3 DEF Init, LockInv, OneWriter

(* The reader count is exact in every build of races; the writer bit is    *)
(* one create in its section, or one that returned with the lock, until an *)
(* AWAKE_ALL releases a lock it does not hold (377).                       *)
THEOREM LockInvariant == Spec => []LockInv
<1>1. Init => LockInv
  BY LockInit
<1>2. TypeInv /\ LockInv /\ [Next]_vars => LockInv'
  BY LockSteps
<1>3. QED BY <1>1, <1>2, TypeInvariant, PTL DEF Spec

(* searchLock is held by those who are in its sections and by the returns  *)
(* that forget it, and by nobody else.                                     *)
THEOREM LockAccounted == Spec => []SearchLockAccounting
<1>1. ASSUME LockInv PROVE SearchLockAccounting
  <2>1. readers = Cardinality({t \in Threads : InRead(t)}) + leakedReads
    BY <1>1 DEF LockInv, Readers
  <2>2. ASSUME ~rogue
        PROVE  /\ Cardinality({t \in Threads : InWrite(t)})
                    = IF wlocked /\ ~leakedWrite THEN 1 ELSE 0
               /\ wlocked => readers = 0
    <3>. OneWriter
      BY <1>1 DEF LockInv
    <3>1. CASE wlocked /\ ~leakedWrite
      <4>1. PICK t \in Threads : InWrite(t)
        BY <2>2, <3>1 DEF OneWriter
      <4>2. {u \in Threads : InWrite(u)} = {t}
        BY <2>2, <4>1 DEF OneWriter
      <4>3. QED BY <2>2, <3>1, <4>2, FS_Singleton DEF OneWriter
    <3>2. CASE ~(wlocked /\ ~leakedWrite)
      <4>1. {u \in Threads : InWrite(u)} = {}
        BY <2>2, <3>2 DEF OneWriter
      <4>2. QED BY <2>2, <3>2, <4>1, FS_EmptySet DEF OneWriter
    <3>3. QED BY <3>1, <3>2
  <2>3. QED BY <2>1, <2>2 DEF SearchLockAccounting
<1>2. QED BY <1>1, LockInvariant, PTL

-----------------------------------------------------------------------------
(* The module's reference count *)

Holds(t) == pc[t] # "idle" /\ ~(pc[t] = "tag" /\ Op(t) = "CREATE")
Holding == {t \in Threads : Holds(t)}

\* What a step does to the reference its thread holds.
KeepsReference(t) ==
  (Holds(t)' <=> Holds(t)) /\ UNCHANGED <<refs, leakedRefs>>
TakesReference(t) ==
  ~Holds(t) /\ Holds(t)' /\ refs' = refs + 1 /\ UNCHANGED leakedRefs
DropsReference(t) ==
  /\ Holds(t) /\ ~Holds(t)'
  /\ \/ refs' = refs - 1 /\ leakedRefs' = leakedRefs
     \/ refs' = refs /\ leakedRefs' = leakedRefs + 1

LEMMA ReferenceSteps ==
  ASSUME RegistryAssumption, TypeInv, NEW t \in Threads, Step(t)
  PROVE  KeepsReference(t) \/ TakesReference(t) \/ DropsReference(t)
<1>. LocalTypes /\ Place(t)
  BY TypeParts DEF TypeInv
<1>. USE DEF LocalTypes, Place, Holds, Op, IsPrivate, Goto, EndCall, locals,
             leaks, Creating, Removing, TableOps
<1>0. ASSUME NEW c \in Arguments, Enter(t, c)
      PROVE  TakesReference(t)
  BY <1>0, NoCallFields, ArgumentFields DEF Enter, FirstStep, TakesReference
<1>1. CASE Reject(t)
  BY <1>1, NoCallFields DEF Reject, DropsReference, ModulePut
<1>2. CASE Refuse(t)
  BY <1>2, NoCallFields DEF Refuse, DropsReference, ModulePut
<1>3. CASE ReadLock(t)
  BY <1>3, NoCallFields DEF ReadLock, KeepsReference
<1>4. CASE WriteLock(t)
  BY <1>4, NoCallFields DEF WriteLock, KeepsReference
<1>5. CASE ScanLoad(t)
  BY <1>5, NoCallFields DEF ScanLoad, KeepsReference
<1>6. CASE ScanTouch(t)
  BY <1>6, NoCallFields DEF ScanTouch, KeepsReference, Found, NextSlot, Oops
<1>7. CASE CheckCount(t)
  BY <1>7, NoCallFields DEF CheckCount, KeepsReference, DropsReference,
                            ModulePut
<1>8. CASE KeyExists(t)
  BY <1>8, NoCallFields DEF KeyExists, DropsReference, ModulePut
<1>9. CASE PickSlot(t)
  BY <1>9, NoCallFields DEF PickSlot, KeepsReference, DropsReference,
                            ModulePut, NoService
<1>10. CASE StoreService(t)
  BY <1>10, NoCallFields DEF StoreService, KeepsReference
<1>11. CASE StoreFails(t)
  BY <1>11, NoCallFields DEF StoreFails, KeepsReference, NoMemory
<1>12. CASE SpareFails(t)
  BY <1>12, NoCallFields DEF SpareFails, KeepsReference, NoMemory
<1>13. CASE ReloadService(t)
  BY <1>13, NoCallFields DEF ReloadService, KeepsReference, DropsReference,
                             ModulePut, NoService
<1>14. CASE CountUp(t)
  BY <1>14, NoCallFields DEF CountUp, KeepsReference
<1>15. CASE WriteUnlock(t)
  BY <1>15, NoCallFields DEF WriteUnlock, KeepsReference
<1>16. CASE PutModule(t)
  BY <1>16, NoCallFields DEF PutModule, DropsReference, ModulePut
<1>17. CASE ReturnTag(t)
  BY <1>17, NoCallFields DEF ReturnTag, KeepsReference, DropsReference,
                             ModulePut
<1>18. CASE ReadUnlock(t)
  BY <1>18, NoCallFields DEF ReadUnlock, KeepsReference, DropsReference,
                             ModulePut
<1>19. CASE CheckValid(t)
  BY <1>19, NoCallFields DEF CheckValid, KeepsReference, DropsReference,
                             ModulePut, Granted
<1>20. CASE Send(t)
  BY <1>20, NoCallFields DEF Send, DropsReference, ModulePut
<1>21. CASE Listen(t)
  BY <1>21, NoCallFields DEF Listen, KeepsReference
<1>22. CASE Leave(t)
  BY <1>22, NoCallFields DEF Leave, KeepsReference, DropsReference, ModulePut
<1>23. CASE AwakeQueues(t)
  BY <1>23, NoCallFields DEF AwakeQueues, KeepsReference
<1>24. CASE RogueUnlock(t)
  BY <1>24, NoCallFields DEF RogueUnlock, DropsReference, ModulePut
<1>25. CASE CheckSleepers(t)
  BY <1>25, NoCallFields DEF CheckSleepers, KeepsReference, DropsReference,
                             ModulePut
<1>26. CASE LoadSlot(t)
  BY <1>26, NoCallFields DEF LoadSlot, KeepsReference
<1>27. CASE ClearSlot(t)
  BY <1>27, NoCallFields DEF ClearSlot, KeepsReference
<1>28. CASE FreeService(t)
  BY <1>28, NoCallFields DEF FreeService, KeepsReference
<1>29. CASE CountDown(t)
  BY <1>29, NoCallFields DEF CountDown, KeepsReference
<1>30. CASE RemoveReturn(t)
  BY <1>30, NoCallFields DEF RemoveReturn, DropsReference, ModulePut
<1>31. CASE WakeUp(t)
  BY <1>31, NoCallFields DEF WakeUp, KeepsReference
<1>33. CASE Halts(t)
  BY <1>33, HaltEffect DEF KeepsReference
<1>32. QED BY <1>0, <1>1, <1>2, <1>3, <1>4, <1>5, <1>6, <1>7, <1>8, <1>9,
              <1>10, <1>11, <1>12, <1>13, <1>14, <1>15, <1>16, <1>17, <1>18,
               <1>19, <1>20, <1>21, <1>22, <1>23, <1>24, <1>25, <1>26, <1>27,
               <1>28, <1>29, <1>30, <1>31, <1>33
           DEF Step, Acquire, Work, Halts


LEMMA ReferencesStep ==
  ASSUME RegistryAssumption, TypeInv, NEW t \in Threads, Step(t),
         refs = Cardinality(Holding) + leakedRefs
  PROVE  (refs = Cardinality(Holding) + leakedRefs)'
<1>1. \A u : u # t => (u \in Holding <=> u \in Holding')
  BY OthersKeep DEF Holding, Holds, Op
<1>2. IsFiniteSet(Holding)
  BY FS_Subset DEF Holding, RegistryAssumption
<1>3. /\ Cardinality(Holding) \in Nat /\ Cardinality(Holding') \in Nat
      /\ (t \in Holding <=> t \in Holding') =>
           Cardinality(Holding') = Cardinality(Holding)
      /\ t \notin Holding /\ t \in Holding' =>
           Cardinality(Holding') = Cardinality(Holding) + 1
      /\ t \in Holding /\ t \notin Holding' =>
           Cardinality(Holding') = Cardinality(Holding) - 1
  BY <1>1, <1>2, JoinOrLeave
<1>4. (t \in Holding <=> Holds(t)) /\ (t \in Holding' <=> Holds(t)')
  BY DEF Holding
<1>5. refs \in Int /\ leakedRefs \in Nat
  BY DEF TypeInv, TypeOK
<1>6. CASE KeepsReference(t)
  BY <1>3, <1>4, <1>5, <1>6 DEF KeepsReference
<1>7. CASE TakesReference(t)
  BY <1>3, <1>4, <1>5, <1>7 DEF TakesReference
<1>8. CASE DropsReference(t)
  <2>1. Cardinality(Holding') = Cardinality(Holding) - 1
    BY <1>3, <1>4, <1>8 DEF DropsReference
  <2>2. \/ refs' = refs - 1 /\ leakedRefs' = leakedRefs
        \/ refs' = refs /\ leakedRefs' = leakedRefs + 1
    BY <1>8 DEF DropsReference
  <2>3. QED BY <1>3, <1>5, <2>1, <2>2
<1>9. QED BY <1>6, <1>7, <1>8, ReferenceSteps

(* Every call holds one reference of the module until it puts it, however  *)
(* it returns; what the counter has too many are the returns that forget   *)
(* it (91, 103, 164, 408, 474).                                            *)
THEOREM ReferencesCounted == Spec => []ModuleRefsAccounting
<1>. DEFINE Inv == refs = Cardinality(Holding) + leakedRefs
<1>1. Init => Inv
  <2>. SUFFICES ASSUME Init PROVE Inv
    OBVIOUS
  <2>1. Holding = {}
    BY DEF Init, Holding, Holds
  <2>2. QED BY <2>1, FS_EmptySet DEF Init
<1>2. TypeInv /\ Inv /\ [Next]_vars => Inv'
  <2>1. ASSUME TypeInv, Inv, Next PROVE Inv'
    <3>1. PICK t \in Threads : Step(t)
      BY <2>1, NextSteps
    <3>2. QED BY <2>1, <3>1, RegistryAssumption, ReferencesStep
  <2>2. ASSUME Inv, UNCHANGED vars PROVE Inv'
    BY <2>2 DEF Holding, Holds, Op, vars, locals, leaks
  <2>3. QED BY <2>1, <2>2
<1>3. Inv => ModuleRefsAccounting
  <2>1. Holding = {t \in Active : ~(pc[t] = "tag" /\ Op(t) = "CREATE")}
    BY DEF Holding, Holds, Active
  <2>2. QED BY <2>1 DEF ModuleRefsAccounting
<1>. HIDE DEF Inv
<1>4. QED BY <1>1, <1>2, <1>3, TypeInvariant, PTL DEF Spec

-----------------------------------------------------------------------------
(* The table *)

LEMMA RogueStays ==
  ASSUME RegistryAssumption, TypeInv, NEW t \in Threads, Step(t), ~rogue'
  PROVE  ~rogue
BY Sections
   DEF Stays, BeginsRead, BeginsWrite, EndsRead, EndsWrite, BreaksLock

LEMMA IntactStays ==
  ASSUME RegistryAssumption, TypeInv, NEW t \in Threads, Step(t), Intact'
  PROVE  Intact
<1>1. ~rogue
  BY RogueStays DEF Intact
<1>2. freedTwice \subseteq freedTwice'
  BY TableSteps
     DEF StoreService, ClearSlot, FreeService, faults, damage
<1>3. QED BY <1>1, <1>2 DEF Intact

\* Alone in its section, a create sees nobody change the table.
LEMMA WriterAlone ==
  ASSUME RegistryAssumption, TypeInv, LockInv, ~rogue,
         NEW u \in Threads, InWrite(u), NEW t \in Threads \ {u}, Step(t)
  PROVE  UNCHANGED <<tagServices, key, tag, alloc>>
<1>1. ~InRead(t)
  BY ReadExcludesWrite
<1>2. ~InWrite(t)
  BY DEF LockInv, OneWriter
<1>3. ~StoreService(t) /\ ~ClearSlot(t) /\ ~FreeService(t)
  BY <1>1, <1>2 DEF StoreService, ClearSlot, FreeService, InRead, InWrite
<1>4. QED BY <1>3, TableSteps

\* What the three steps that touch the table and the services do to them.
LEMMA StoreEffect ==
  ASSUME TypeInv, NEW t \in Threads, StoreService(t)
  PROVE  \E s \in Svc :
           /\ freedTwice = {} => s \notin alloc
           /\ idx[t] \in Slots /\ idx'[t] = idx[t] /\ call'[t] = call[t]
           /\ tagServices'[idx[t]] = s /\ alloc' = alloc \cup {s}
           /\ tag'[s] = idx[t] /\ key'[s] = call[t].arg
           /\ \A i \in Slots \ {idx[t]} : tagServices'[i] = tagServices[i]
           /\ \A r \in Svc \ {s} : tag'[r] = tag[r] /\ key'[r] = key[r]
<1>1. idx[t] \in Slots
  BY DEF StoreService, TypeInv, Place
<1>2. PICK s \in Svc :
        /\ freedTwice = {} => s \notin alloc
        /\ tagServices' = [tagServices EXCEPT ![idx[t]] = s]
        /\ alloc' = alloc \cup {s}
        /\ key' = [key EXCEPT ![s] = call[t].arg]
        /\ tag' = [tag EXCEPT ![s] = idx[t]]
  BY DEF StoreService, Allocatable, TypeInv, TypeOK
<1>3. QED BY <1>1, <1>2 DEF StoreService, locals, TypeInv, TypeOK

LEMMA ClearEffect ==
  ASSUME TypeInv, NEW t \in Threads, ClearSlot(t)
  PROVE  /\ idx[t] \in Slots /\ tagServices'[idx[t]] = NULL
         /\ \A i \in Slots \ {idx[t]} : tagServices'[i] = tagServices[i]
         /\ UNCHANGED <<key, tag, alloc>>
BY DEF ClearSlot, Cleared, TypeInv, TypeOK, Place, object

LEMMA FreeEffect ==
  ASSUME NEW t \in Threads, FreeService(t)
  PROVE  alloc' = alloc \ {tmp[t]} /\ UNCHANGED <<tagServices, key, tag>>
BY DEF FreeService, table

\* What the steps that disturb a part of the table's invariant start from.
TableHypotheses(t) ==
  /\ RegistryAssumption /\ TypeInv /\ LockInv /\ TableInv /\ Step(t)
  /\ ~rogue
IntactHypotheses(t) == TableHypotheses(t) /\ freedTwice = {}

LEMMA LiveStep ==
  ASSUME NEW t \in Threads, IntactHypotheses(t)
  PROVE  \A i \in Slots :
           tagServices'[i] \in Svc =>
             tagServices'[i] \in alloc' /\ tag'[tagServices'[i]] = i
<1>. /\ RegistryAssumption /\ TypeInv /\ Step(t) /\ ~rogue
     /\ freedTwice = {} /\ NULL \notin Svc
  BY DEF IntactHypotheses, TableHypotheses, RegistryAssumption
<1>1. \A i \in Slots : tagServices[i] \in Svc =>
        tagServices[i] \in alloc /\ tag[tagServices[i]] = i
  BY DEF IntactHypotheses, TableHypotheses, Intact, TableInv,
         TableHoldsLiveServices
<1>2. CASE UNCHANGED <<tagServices, key, tag, alloc>>
  BY <1>1, <1>2
<1>3. CASE StoreService(t)
  BY <1>1, <1>3, StoreEffect
<1>4. CASE ClearSlot(t)
  BY <1>1, <1>4, ClearEffect
<1>5. CASE FreeService(t)
  <2>1. tmp[t] \in Svc => \A i \in Slots : tagServices[i] # tmp[t]
    BY <1>5 DEF IntactHypotheses, TableHypotheses, Intact, TableInv,
                RemoveKnowsSlot, FreeService
  <2>2. QED BY <1>1, <1>5, <2>1, FreeEffect
<1>6. QED BY <1>2, <1>3, <1>4, <1>5, TableSteps

\* Where somebody reads nobody stores: a slot keeps its service or is
\* emptied.
LEMMA ReadersTable ==
  ASSUME NEW t \in Threads, TableHypotheses(t),
         NEW u \in Threads, InRead(u)
  PROVE  \A i \in Slots : tagServices'[i] \in {tagServices[i], NULL}
<1>. RegistryAssumption /\ TypeInv /\ LockInv /\ Step(t) /\ ~rogue
  BY DEF TableHypotheses
<1>1. ~StoreService(t)
  BY ReadExcludesWrite DEF StoreService, InWrite
<1>2. QED BY <1>1, TableSteps, ClearEffect, FreeEffect

LEMMA RemoveStep ==
  ASSUME NEW t \in Threads, IntactHypotheses(t)
  PROVE  RemoveKnowsSlot'
<1>. /\ RegistryAssumption /\ TypeInv /\ LockInv /\ Step(t) /\ ~rogue
     /\ TableHypotheses(t) /\ freedTwice = {}
     /\ NULL \notin Svc
  BY DEF IntactHypotheses, TableHypotheses, RegistryAssumption
<1>0. RemoveKnowsSlot /\ TableHoldsLiveServices
  BY DEF IntactHypotheses, TableHypotheses, Intact, TableInv
<1>1. ASSUME NEW u \in Threads, pc'[u] = "clear"
      PROVE  /\ idx'[u] \in Slots
             /\ tagServices'[idx'[u]] \in {tmp'[u], NULL}
             /\ \A i \in Slots : tmp'[u] \in Svc /\ tagServices'[i] = tmp'[u]
                                   => i = idx'[u]
  <2>1. CASE u = t
    <3>1. LoadSlot(t)
      BY <1>1, <2>1, Arrivals DEF Arrived
    <3>2. PICK i \in Slots : /\ idx' = [idx EXCEPT ![t] = i]
                             /\ tmp' = [tmp EXCEPT ![t] = tagServices[i]]
      BY <3>1 DEF LoadSlot
    <3>3. idx'[t] = i /\ tmp'[t] = tagServices[i]
          /\ tagServices' = tagServices
      BY <3>1, <3>2 DEF LoadSlot, table, TypeInv, TypeOK
    <3>4. QED BY <1>0, <2>1, <3>3 DEF TableHoldsLiveServices, Intact
  <2>2. CASE u # t
    <3>1. /\ pc[u] = "clear" /\ idx'[u] = idx[u] /\ tmp'[u] = tmp[u]
          /\ InRead(u) /\ idx[u] \in Slots
      BY <1>1, <2>2, OthersKeep DEF InRead, TypeInv, Place
    <3>2. \A i \in Slots : tagServices'[i] \in {tagServices[i], NULL}
      BY <3>1, ReadersTable
    <3>3. QED BY <1>0, <3>1, <3>2 DEF RemoveKnowsSlot, Intact
  <2>3. QED BY <2>1, <2>2
<1>2. ASSUME NEW u \in Threads, pc'[u] = "kfree", tmp'[u] \in Svc,
             NEW i \in Slots
      PROVE  tagServices'[i] # tmp'[u]
  <2>1. CASE u = t
    <3>1. ClearSlot(t)
      BY <1>2, <2>1, Arrivals DEF Arrived
    <3>2. tmp' = tmp /\ pc[t] = "clear"
      BY <3>1 DEF ClearSlot, locals
    <3>3. QED BY <1>0, <1>2, <2>1, <3>1, <3>2, ClearEffect
              DEF RemoveKnowsSlot, Intact
  <2>2. CASE u # t
    <3>1. pc[u] = "kfree" /\ tmp'[u] = tmp[u] /\ InRead(u)
      BY <1>2, <2>2, OthersKeep DEF InRead
    <3>2. tagServices'[i] \in {tagServices[i], NULL}
      BY <3>1, ReadersTable
    <3>3. QED BY <1>0, <1>2, <3>1, <3>2 DEF RemoveKnowsSlot, Intact
  <2>3. QED BY <2>1, <2>2
<1>3. QED BY <1>1, <1>2 DEF RemoveKnowsSlot

LEMMA OwnSlotStep ==
  ASSUME NEW t \in Threads, TableHypotheses(t)
  PROVE  CreateOwnsSlot'
<1>. /\ RegistryAssumption /\ TypeInv /\ LockInv /\ Step(t) /\ ~rogue
     /\ NULL \notin Svc
  BY DEF TableHypotheses, RegistryAssumption
<1>0. CreateOwnsSlot
  BY DEF TableHypotheses, TableInv
<1>1. ASSUME NEW u \in Threads, pc'[u] = "store"
      PROVE  tagServices'[idx'[u]] = NULL
  <2>1. CASE u = t
    <3>1. PickSlot(t)
      BY <1>1, <2>1, Arrivals DEF Arrived
    <3>2. PICK i \in FreeSlots : idx' = [idx EXCEPT ![t] = i]
      BY <1>1, <2>1, <3>1 DEF PickSlot, NoService, EndCall, TypeInv, TypeOK
    <3>3. tagServices' = tagServices /\ idx'[t] = i
      BY <3>1, <3>2 DEF PickSlot, table, TypeInv, TypeOK
    <3>4. QED BY <2>1, <3>3 DEF FreeSlots
  <2>2. CASE u # t
    <3>1. pc[u] = "store" /\ idx'[u] = idx[u] /\ InWrite(u)
      BY <1>1, <2>2, OthersKeep DEF InWrite
    <3>2. QED BY <1>0, <2>2, <3>1, WriterAlone DEF CreateOwnsSlot
  <2>3. QED BY <2>1, <2>2
<1>2. ASSUME NEW u \in Threads, pc'[u] = "fresh"
      PROVE  /\ tagServices'[idx'[u]] \in Svc
             /\ key'[tagServices'[idx'[u]]] = call'[u].arg
  <2>1. CASE u = t
    <3>1. StoreService(t)
      BY <1>2, <2>1, Arrivals DEF Arrived
    <3>2. QED BY <2>1, <3>1, StoreEffect
  <2>2. CASE u # t
    <3>1. /\ pc[u] = "fresh" /\ idx'[u] = idx[u] /\ call'[u] = call[u]
          /\ InWrite(u)
      BY <1>2, <2>2, OthersKeep DEF InWrite
    <3>2. QED BY <1>0, <2>2, <3>1, WriterAlone DEF CreateOwnsSlot
  <2>3. QED BY <2>1, <2>2
<1>3. QED BY <1>1, <1>2 DEF CreateOwnsSlot

\* What a create has found of the slots it went through.
SearchedSoFar(t) ==
  pc[t] \in {"scan", "touch", "pick", "store"} /\ Op(t) = "CREATE"
    /\ ~IsPrivate(t) =>
      \A i \in Searched(t) \cap Slots :
        tagServices[i] \in Svc => key[tagServices[i]] # call[t].arg
LoadedSlot(t) ==
  pc[t] = "touch" /\ Op(t) = "CREATE" => tagServices[idx[t]] = p[t]

LEMMA SearchParts ==
  SearchSound <=> (Intact => \A t \in Threads : SearchedSoFar(t)
                                                  /\ LoadedSlot(t))
BY DEF SearchSound, SearchedSoFar, LoadedSlot

LEMMA OwnSearchStep ==
  ASSUME NEW t \in Threads, IntactHypotheses(t)
  PROVE  SearchedSoFar(t)' /\ LoadedSlot(t)'
<1>. /\ RegistryAssumption /\ TypeInv /\ LockInv /\ Step(t) /\ ~rogue
     /\ TableHypotheses(t) /\ freedTwice = {}
     /\ LocalTypes /\ SharedTypes /\ Place(t) /\ NULL \notin Svc
  BY TypeParts DEF IntactHypotheses, TableHypotheses, RegistryAssumption,
                   TypeInv
<1>0. SearchedSoFar(t) /\ LoadedSlot(t) /\ TableHoldsLiveServices
  BY SearchParts DEF IntactHypotheses, TableHypotheses, Intact, TableInv
<1>. SUFFICES ASSUME pc'[t] \in {"scan", "touch", "pick", "store"},
                     Op(t)' = "CREATE"
              PROVE  SearchedSoFar(t)' /\ LoadedSlot(t)'
  BY DEF SearchedSoFar, LoadedSlot
<1>1. CASE PickSlot(t)
  <2>1. /\ pc[t] = "pick" /\ call'[t] = call[t] /\ pc'[t] = "store"
        /\ tagServices' = tagServices /\ key' = key
    BY <1>1 DEF PickSlot, NoService, EndCall, Goto, LocalTypes, table, object
  <2>2. QED BY <1>0, <2>1
            DEF SearchedSoFar, LoadedSlot, Searched, Op, IsPrivate
<1>2. CASE ReadLock(t)
  <2>1. Op(t)' = Op(t) /\ Op(t) \in TableOps
    BY <1>2 DEF ReadLock, Place, locals, Op
  <2>2. QED BY <2>1 DEF TableOps
<1>3. CASE WriteLock(t)
  <2>1. /\ call' = call /\ idx'[t] = 0
        /\ pc'[t] = IF IsPrivate(t) THEN "pick" ELSE "scan"
    BY <1>3 DEF WriteLock, Place, locals, Goto, LocalTypes
  <2>2. pc'[t] = "scan" => Searched(t)' = 0 .. -1
    BY <2>1 DEF Searched
  <2>3. pc'[t] # "scan" => IsPrivate(t)' /\ pc'[t] = "pick"
    BY <2>1 DEF IsPrivate
  <2>4. QED BY <2>2, <2>3 DEF SearchedSoFar, LoadedSlot
<1>4. CASE ScanLoad(t)
  <2>1. /\ pc[t] = "scan" /\ call' = call
        /\ tagServices' = tagServices /\ key' = key
    BY <1>4 DEF ScanLoad, table, object
  <2>2. CASE /\ idx[t] \in SearchedSlots /\ tagServices[idx[t]] = NULL
             /\ idx' = [idx EXCEPT ![t] = @ + 1] /\ UNCHANGED <<pc, p>>
    <3>1. pc'[t] = "scan" /\ idx'[t] = idx[t] + 1 /\ idx[t] \in Slots
      BY <2>1, <2>2 DEF LocalTypes, SearchedSlots
    <3>2. \A i \in 0 .. idx'[t] - 1 : i \in 0 .. idx[t] - 1 \/ i = idx[t]
      BY <3>1 DEF Slots
    <3>3. QED BY <1>0, <2>1, <2>2, <3>1, <3>2
              DEF SearchedSoFar, LoadedSlot, Searched, Op, IsPrivate
  <2>3. CASE /\ p' = [p EXCEPT ![t] = tagServices[idx[t]]]
             /\ Goto(t, "touch") /\ UNCHANGED idx
    <3>1. pc'[t] = "touch" /\ idx' = idx /\ p'[t] = tagServices[idx[t]]
      BY <2>3 DEF LocalTypes, Goto
    <3>2. QED BY <1>0, <2>1, <3>1
              DEF SearchedSoFar, LoadedSlot, Searched, Op, IsPrivate
  <2>4. CASE /\ idx[t] \notin SearchedSlots
             /\ Goto(t, IF Op(t) = "CREATE" THEN "pick" ELSE "runlock")
    <3>1. pc'[t] = "pick"
      BY <2>1, <2>4 DEF LocalTypes, Goto, Op
    <3>2. \A i \in Slots : i \in 0 .. idx[t] - 1
      BY <2>4 DEF SearchedSlots, Slots, LocalTypes, RegistryAssumption
    <3>3. QED BY <1>0, <2>1, <3>1, <3>2
              DEF SearchedSoFar, LoadedSlot, Searched, Op, IsPrivate
  <2>5. QED BY <1>4, <2>2, <2>3, <2>4 DEF ScanLoad
<1>5. CASE ScanTouch(t)
  <2>1. /\ pc[t] = "touch" /\ call' = call /\ idx[t] \in Slots
        /\ tagServices' = tagServices /\ key' = key
        /\ NextSlot(t) /\ p[t] \in Svc
    BY <1>5
       DEF ScanTouch, table, object, Found, Oops, Goto, LocalTypes, Place
  <2>2. pc'[t] = "scan" /\ idx'[t] = idx[t] + 1
    BY <2>1 DEF NextSlot, Goto, LocalTypes
  <2>3. Op(t) = "CREATE" /\ tagServices[idx[t]] = p[t] /\ p[t] \in alloc
    BY <1>0, <2>1 DEF LoadedSlot, Op, TableHoldsLiveServices, Intact
  <2>4. key[p[t]] # call[t].arg
    BY <2>1, <2>3 DEF NextSlot, MayNotBe, Freed, Matches
  <2>5. \A i \in 0 .. idx'[t] - 1 : i \in 0 .. idx[t] - 1 \/ i = idx[t]
    BY <2>1, <2>2 DEF Slots
  <2>6. QED BY <1>0, <2>1, <2>2, <2>3, <2>4, <2>5
            DEF SearchedSoFar, LoadedSlot, Searched, Op, IsPrivate
<1>6. QED BY <1>1, <1>2, <1>3, <1>4, <1>5, Arrivals DEF Arrived

LEMMA SearchStep ==
  ASSUME NEW t \in Threads, IntactHypotheses(t)
  PROVE  SearchSound'
<1>. /\ RegistryAssumption /\ TypeInv /\ LockInv /\ Step(t) /\ ~rogue
     /\ TableHypotheses(t) /\ freedTwice = {}
  BY DEF IntactHypotheses, TableHypotheses, Intact
<1>1. ASSUME NEW u \in Threads \ {t}
      PROVE  SearchedSoFar(u)' /\ LoadedSlot(u)'
  <2>1. SearchedSoFar(u) /\ LoadedSlot(u)
    BY SearchParts DEF IntactHypotheses, TableHypotheses, Intact, TableInv
  <2>2. /\ pc'[u] = pc[u] /\ call'[u] = call[u] /\ idx'[u] = idx[u]
        /\ p'[u] = p[u]
    BY OthersKeep
  <2>3. CASE InWrite(u)
    BY <2>1, <2>2, <2>3, WriterAlone
       DEF SearchedSoFar, LoadedSlot, Searched, Op, IsPrivate
  <2>4. CASE ~InWrite(u)
    BY <2>2, <2>4 DEF SearchedSoFar, LoadedSlot, InWrite, Op
  <2>5. QED BY <2>3, <2>4
<1>2. \A u \in Threads : SearchedSoFar(u)' /\ LoadedSlot(u)'
  BY <1>1, OwnSearchStep
<1>3. QED BY <1>2 DEF SearchSound, SearchedSoFar, LoadedSlot

LEMMA KeysStep ==
  ASSUME NEW t \in Threads, IntactHypotheses(t)
  PROVE  KeysUnique'
<1>. /\ RegistryAssumption /\ TypeInv /\ LockInv /\ Step(t) /\ ~rogue
     /\ TableHypotheses(t) /\ freedTwice = {}
     /\ NULL \notin Svc /\ TAG_IPC_PRIVATE \notin Keys
  BY DEF IntactHypotheses, TableHypotheses, RegistryAssumption
<1>0. /\ TableHoldsLiveServices /\ SearchSound
      /\ \A i, j \in PublicServices :
           key[tagServices[i]] = key[tagServices[j]] => i = j
  BY DEF IntactHypotheses, TableHypotheses, Intact, TableInv, KeysUnique
<1>. SUFFICES ASSUME NEW i \in Slots, NEW j \in Slots,
                     tagServices'[i] \in Svc, tagServices'[j] \in Svc,
                     key'[tagServices'[i]] \in Keys,
                     key'[tagServices'[i]] = key'[tagServices'[j]]
              PROVE  i = j
  BY DEF KeysUnique, PublicServices
<1>1. CASE UNCHANGED <<tagServices, key, tag, alloc>>
  BY <1>0, <1>1 DEF PublicServices
<1>2. CASE ClearSlot(t)
  <2>1. tagServices'[i] = tagServices[i] /\ tagServices'[j] = tagServices[j]
        /\ key' = key
    BY <1>2, ClearEffect
  <2>2. QED BY <1>0, <2>1 DEF PublicServices
<1>3. CASE FreeService(t)
  BY <1>0, <1>3, FreeEffect DEF PublicServices
<1>4. CASE StoreService(t)
  <2>1. PICK s \in Svc :
          /\ s \notin alloc /\ idx[t] \in Slots
          /\ tagServices'[idx[t]] = s /\ key'[s] = call[t].arg
          /\ \A k \in Slots \ {idx[t]} : tagServices'[k] = tagServices[k]
          /\ \A r \in Svc \ {s} : tag'[r] = tag[r] /\ key'[r] = key[r]
    BY <1>4, StoreEffect
  <2>2. ASSUME NEW k \in Slots \ {idx[t]}, tagServices'[k] \in Svc
        PROVE  /\ tagServices'[k] = tagServices[k]
               /\ key'[tagServices'[k]] = key[tagServices[k]]
               /\ call[t].arg \in Keys => key[tagServices[k]] # call[t].arg
    <3>1. tagServices'[k] = tagServices[k] /\ tagServices[k] \in alloc
      BY <1>0, <2>1, <2>2 DEF TableHoldsLiveServices, Intact
    <3>2. pc[t] = "store" /\ Op(t) = "CREATE"
      BY <1>4 DEF StoreService, TypeInv, Place, Creating
    <3>3. call[t].arg \in Keys => key[tagServices[k]] # call[t].arg
      BY <1>0, <2>2, <3>1, <3>2 DEF SearchSound, Searched, IsPrivate, Intact
    <3>4. QED BY <2>1, <2>2, <3>1, <3>3
  <2>3. CASE i # idx[t] /\ j # idx[t]
    BY <1>0, <2>2, <2>3 DEF PublicServices
  <2>4. CASE i = idx[t] /\ j # idx[t]
    BY <2>1, <2>2, <2>4
  <2>5. CASE i # idx[t] /\ j = idx[t]
    BY <2>1, <2>2, <2>5
  <2>6. QED BY <2>3, <2>4, <2>5
<1>5. QED BY <1>1, <1>2, <1>3, <1>4, TableSteps

\* The service a create is about to return the tag of.
Returns(t) ==
  t \notin dangling /\ Op(t) = "CREATE" /\ service[t] # NULL
    /\ ~BeingFreed(service[t]) =>
      /\ tagServices[tag[service[t]]] = service[t]
      /\ key[service[t]] = call[t].arg

LEMMA OwnReturnStep ==
  ASSUME NEW t \in Threads, IntactHypotheses(t)
  PROVE  Returns(t)'
<1>. /\ RegistryAssumption /\ TypeInv /\ LockInv /\ Step(t) /\ ~rogue
     /\ TableHypotheses(t) /\ freedTwice = {}
     /\ LocalTypes /\ SharedTypes /\ Place(t) /\ NULL \notin Svc
  BY TypeParts DEF IntactHypotheses, TableHypotheses, RegistryAssumption,
                   TypeInv
<1>0. /\ Returns(t) /\ TableHoldsLiveServices /\ CreateOwnsSlot
      /\ SearchedSoFar(t) /\ LoadedSlot(t)
  BY SearchParts
     DEF IntactHypotheses, TableHypotheses, Intact, TableInv,
         CreateReturnsItsService, Returns
<1>. SUFFICES ASSUME Op(t)' = "CREATE", service'[t] # NULL
              PROVE  Returns(t)'
  BY DEF Returns
<1>1. CASE ScanTouch(t)
  <2>1. /\ pc[t] = "touch" /\ call' = call /\ idx[t] \in Slots
        /\ tagServices' = tagServices /\ key' = key /\ tag' = tag
    BY <1>1 DEF ScanTouch, table, object, Place
  <2>2. service[t] = NULL /\ Op(t) = "CREATE"
    BY <2>1 DEF Place, Op
  <2>3. Found(t) /\ p[t] \in Svc /\ service'[t] = p[t]
    BY <1>1, <2>2 DEF ScanTouch, Found, NextSlot, Oops, LocalTypes
  <2>4. /\ tagServices[idx[t]] = p[t] /\ p[t] \in alloc
        /\ tag[p[t]] = idx[t]
    BY <1>0, <2>1, <2>2, <2>3 DEF LoadedSlot, TableHoldsLiveServices, Intact
  <2>5. key[p[t]] = call[t].arg
    BY <2>2, <2>3, <2>4 DEF Found, MayBe, Freed, Matches
  <2>6. QED BY <2>1, <2>3, <2>4, <2>5 DEF Returns
<1>2. CASE ReloadService(t)
  <2>1. /\ pc[t] = "fresh" /\ tagServices' = tagServices /\ key' = key
        /\ tag' = tag
    BY <1>2 DEF ReloadService, table, object
  <2>2. call' = call /\ service'[t] = tagServices[idx[t]]
    BY <1>2, NoCallFields
       DEF ReloadService, NoService, EndCall, LocalTypes, Op
  <2>3. /\ tagServices[idx[t]] \in Svc /\ idx[t] \in Slots
        /\ key[tagServices[idx[t]]] = call[t].arg
    BY <1>0, <2>1 DEF CreateOwnsSlot, Place
  <2>4. QED BY <1>0, <2>1, <2>2, <2>3 DEF Returns, TableHoldsLiveServices,
                                          Intact
<1>3. CASE /\ UNCHANGED <<tagServices, key, tag, call, service, dangling, tmp>>
           /\ pc'[t] # "kfree"
  <2>1. pc[t] # "kfree"
    BY <1>3 DEF Place, Removing, Op
  <2>2. BeingFreed(service[t])' <=> BeingFreed(service[t])
    BY <1>3, <2>1, OthersKeep DEF BeingFreed
  <2>3. QED BY <1>0, <1>3, <2>2 DEF Returns, Op
<1>4. QED BY <1>1, <1>2, <1>3, Arrivals DEF Arrived

LEMMA ReturnStep ==
  ASSUME NEW t \in Threads, IntactHypotheses(t),
         NEW u \in Threads \ {t}
  PROVE  Returns(u)'
<1>. /\ RegistryAssumption /\ TypeInv /\ LockInv /\ Step(t) /\ ~rogue
     /\ TableHypotheses(t) /\ freedTwice = {}
     /\ NULL \notin Svc
  BY DEF IntactHypotheses, TableHypotheses, RegistryAssumption
<1>0. /\ Returns(u) /\ TableHoldsLiveServices /\ CreateOwnsSlot
      /\ RemoveKnowsSlot /\ CreateHoldsService
  BY DEF IntactHypotheses, TableHypotheses, Intact, TableInv,
         CreateReturnsItsService, Returns
<1>1. /\ call'[u] = call[u] /\ service'[u] = service[u]
      /\ u \in dangling => u \in dangling'
  BY OthersKeep
<1>. DEFINE s == service[u]
<1>. SUFFICES ASSUME u \notin dangling', Op(u) = "CREATE", s # NULL,
                     ~BeingFreed(service[u])'
              PROVE  /\ tagServices'[tag'[s]] = s
                     /\ key'[s] = call[u].arg
  BY <1>1 DEF Returns, Op
<1>2. s \in Svc /\ tag[s] \in Slots
  BY DEF TypeInv, TypeOK
<1>3. ~BeingFreed(s)
  <2>. SUFFICES ASSUME NEW v \in Threads, pc[v] = "kfree", tmp[v] = s
                PROVE  FALSE
    BY DEF BeingFreed
  <2>1. CASE v # t
    BY <1>1, <2>1, OthersKeep DEF BeingFreed
  <2>2. CASE v = t
    <3>1. ~FreeFails(t)
      <4>1. u \notin dangling
        BY <1>1
      <4>2. s \in alloc
        BY <1>0, <4>1 DEF CreateHoldsService, Intact
      <4>3. QED BY <2>2, <4>2 DEF FreeFails
    <3>2. FreeService(t)
      BY <2>2, <3>1, Arrivals DEF Arrived
    <3>3. u \in dangling'
      BY <1>2, <2>2, <3>2 DEF FreeService
    <3>4. QED BY <3>3
  <2>3. QED BY <2>1, <2>2
<1>4. tagServices[tag[s]] = s /\ key[s] = call[u].arg /\ s \in alloc
  BY <1>0, <1>1, <1>2, <1>3 DEF Returns, TableHoldsLiveServices, Intact
<1>5. CASE UNCHANGED <<tagServices, key, tag, alloc>>
  BY <1>4, <1>5
<1>6. CASE StoreService(t)
  <2>1. tagServices[idx[t]] = NULL /\ tag[s] # idx[t]
    BY <1>0, <1>2, <1>4, <1>6 DEF CreateOwnsSlot, StoreService
  <2>2. QED BY <1>2, <1>4, <1>6, <2>1, StoreEffect
<1>7. CASE ClearSlot(t)
  <2>1. CASE tag[s] = idx[t]
    <3>1. pc[t] = "clear" /\ tmp' = tmp /\ pc'[t] = "kfree"
      BY <1>7 DEF ClearSlot, Goto, locals, TypeInv, TypeOK
    <3>2. tmp[t] = s
      BY <1>0, <1>2, <1>4, <2>1, <3>1 DEF RemoveKnowsSlot, Intact
    <3>3. BeingFreed(service[u])'
      BY <1>1, <3>1, <3>2 DEF BeingFreed
    <3>4. QED BY <3>3
  <2>2. CASE tag[s] # idx[t]
    BY <1>2, <1>4, <1>7, <2>2, ClearEffect
  <2>3. QED BY <2>1, <2>2
<1>8. CASE FreeService(t)
  BY <1>4, <1>8, FreeEffect
<1>9. QED BY <1>5, <1>6, <1>7, <1>8, TableSteps

LEMMA HoldsStep ==
  ASSUME NEW t \in Threads, IntactHypotheses(t)
  PROVE  CreateHoldsService'
<1>. /\ RegistryAssumption /\ TypeInv /\ LockInv /\ Step(t) /\ ~rogue
     /\ TableHypotheses(t) /\ freedTwice = {} /\ NULL \notin Svc
     /\ LocalTypes /\ SharedTypes /\ Place(t)
  BY TypeParts
     DEF IntactHypotheses, TableHypotheses, RegistryAssumption, TypeInv
<1>0. /\ TableHoldsLiveServices /\ CreateOwnsSlot /\ LoadedSlot(t)
      /\ \A u \in Threads \ dangling :
           Op(u) = "CREATE" /\ service[u] # NULL => service[u] \in alloc
  BY SearchParts DEF TableHypotheses, TableInv, CreateHoldsService, Intact
<1>1. ASSUME NEW u \in Threads \ {t}, u \notin dangling',
             Op(u)' = "CREATE", service'[u] # NULL
      PROVE  service'[u] \in alloc'
  <2>1. /\ u \notin dangling /\ Op(u) = "CREATE" /\ service'[u] = service[u]
    BY <1>1, OthersKeep DEF Op
  <2>2. service[u] \in alloc /\ service[u] \in Svc
    BY <1>0, <1>1, <2>1 DEF LocalTypes
  <2>3. CASE FreeService(t)
    <3>1. service[u] # tmp[t]
      BY <1>1, <2>2, <2>3 DEF FreeService
    <3>2. QED BY <2>1, <2>2, <2>3, <3>1, FreeEffect
  <2>4. CASE ~FreeService(t)
    BY <2>1, <2>2, <2>4, TableSteps, StoreEffect, ClearEffect
  <2>5. QED BY <2>3, <2>4
<1>2. ASSUME t \notin dangling', Op(t)' = "CREATE", service'[t] # NULL
      PROVE  service'[t] \in alloc'
  <2>1. CASE ScanTouch(t)
    <3>1. /\ pc[t] = "touch" /\ call' = call /\ idx[t] \in Slots
          /\ alloc' = alloc
      BY <2>1 DEF ScanTouch, object, Place
    <3>2. service[t] = NULL /\ Op(t) = "CREATE"
      BY <1>2, <3>1 DEF Place, Op
    <3>3. p[t] \in Svc /\ service'[t] = p[t]
      BY <1>2, <2>1, <3>2 DEF ScanTouch, Found, NextSlot, Oops, LocalTypes
    <3>4. QED BY <1>0, <3>1, <3>2, <3>3
              DEF LoadedSlot, TableHoldsLiveServices, Intact
  <2>2. CASE ReloadService(t)
    <3>1. pc[t] = "fresh" /\ alloc' = alloc /\ idx[t] \in Slots
      BY <2>2 DEF ReloadService, object, Place
    <3>2. service'[t] = tagServices[idx[t]]
      BY <1>2, <2>2, NoCallFields
         DEF ReloadService, NoService, EndCall, LocalTypes, Op
    <3>3. QED BY <1>0, <3>1, <3>2
              DEF CreateOwnsSlot, TableHoldsLiveServices, Intact
  <2>3. CASE /\ UNCHANGED <<tagServices, key, tag, call, service, dangling,
                            tmp>>
             /\ pc'[t] # "kfree"
    <3>1. service[t] \in alloc /\ Op(t) = "CREATE"
      BY <1>0, <1>2, <2>3 DEF Op
    <3>2. ~FreeService(t)
      BY <3>1 DEF FreeService, Place, Removing
    <3>3. QED BY <2>3, <3>1, <3>2, TableSteps, StoreEffect, ClearEffect
  <2>4. QED BY <1>2, <2>1, <2>2, <2>3, Arrivals DEF Arrived
<1>3. QED BY <1>1, <1>2 DEF CreateHoldsService

LEMMA TableStepsKeep ==
  TypeInv /\ LockInv /\ TableInv /\ [Next]_vars => TableInv'
<1>1. ASSUME TypeInv, LockInv, TableInv, Next PROVE TableInv'
  <2>1. PICK t \in Threads : Step(t)
    BY <1>1, NextSteps
  <2>2. CreateOwnsSlot'
    <3>1. CASE rogue'
      BY <3>1 DEF CreateOwnsSlot
    <3>2. CASE ~rogue'
      <4>1. TableHypotheses(t)
        BY <1>1, <2>1, <3>2, RegistryAssumption, RogueStays
           DEF TableHypotheses
      <4>2. QED BY <4>1, OwnSlotStep
    <3>3. QED BY <3>1, <3>2
  <2>3. CASE ~Intact'
    BY <2>2, <2>3
       DEF TableInv, TableHoldsLiveServices, RemoveKnowsSlot, SearchSound,
           KeysUnique, CreateReturnsItsService, CreateHoldsService
  <2>4. CASE Intact'
    <3>1. IntactHypotheses(t)
      BY <1>1, <2>1, <2>4, RegistryAssumption, IntactStays
         DEF IntactHypotheses, TableHypotheses, Intact
    <3>2. TableHoldsLiveServices'
      BY <3>1, LiveStep DEF TableHoldsLiveServices
    <3>3. /\ RemoveKnowsSlot' /\ SearchSound' /\ KeysUnique'
          /\ CreateHoldsService'
      BY <3>1, RemoveStep, SearchStep, KeysStep, HoldsStep
    <3>4. \A u \in Threads : Returns(u)'
      BY <3>1, OwnReturnStep, ReturnStep
    <3>5. CreateReturnsItsService'
      BY <3>4 DEF CreateReturnsItsService, Returns
    <3>6. QED BY <2>2, <3>2, <3>3, <3>5 DEF TableInv
  <2>5. QED BY <2>3, <2>4
<1>2. ASSUME TableInv, UNCHANGED vars PROVE TableInv'
  <2>. USE <1>2 DEF TableInv, vars, table, object, locals, faults, damage,
                    Intact
  <2>1. TableHoldsLiveServices' /\ RemoveKnowsSlot' /\ CreateOwnsSlot'
    BY DEF TableHoldsLiveServices, RemoveKnowsSlot, CreateOwnsSlot
  <2>2. SearchSound'
    BY DEF SearchSound, Searched, Op, IsPrivate
  <2>3. KeysUnique' /\ CreateReturnsItsService' /\ CreateHoldsService'
    BY DEF KeysUnique, PublicServices, CreateReturnsItsService, BeingFreed,
           Op, CreateHoldsService
  <2>4. QED BY <2>1, <2>2, <2>3
<1>3. QED BY <1>1, <1>2

LEMMA TableInit == Init => TableInv
<1>. SUFFICES ASSUME Init PROVE TableInv
  OBVIOUS
<1>1. \A i \in Slots : tagServices[i] \notin Svc
  BY RegistryAssumption DEF Init, RegistryAssumption
<1>2. \A t \in Threads : pc[t] = "idle" /\ call[t] = NoCall
  BY DEF Init
<1>3. \A t \in Threads : Op(t) # "CREATE"
  BY <1>2, NoCallFields DEF Op
<1>4. QED BY <1>1, <1>2, <1>3
          DEF TableInv, TableHoldsLiveServices, RemoveKnowsSlot,
              CreateOwnsSlot, SearchSound, KeysUnique, PublicServices,
              CreateReturnsItsService, CreateHoldsService

(* The table, until AWAKE_ALL unlocks a writer (377) or two REMOVEs free   *)
(* one service (426): slots hold live services, REMOVE frees what it has   *)
(* taken out, keys are unique, and what a create has searched stays so     *)
(* until it unlocks.  The slot it has chosen is its own after a double     *)
(* free, too.                                                              *)
THEOREM TableInvariant == Spec => []TableInv
<1>1. Init => TableInv
  BY TableInit
<1>2. TypeInv /\ LockInv /\ TableInv /\ [Next]_vars => TableInv'
  BY TableStepsKeep
<1>3. QED BY <1>1, <1>2, TypeInvariant, LockInvariant, PTL DEF Spec

(* Every slot in use holds a service that is not freed and bears its tag,  *)
(* until AWAKE_ALL unlocks a writer or two REMOVEs free one service.       *)
THEOREM SlotsHoldLiveServices == Spec => []TableHoldsLiveServices
<1>1. TableInv => TableHoldsLiveServices
  BY DEF TableInv
<1>2. QED BY <1>1, TableInvariant, PTL

(* A public key names at most one service (57-61), with the exceptions of  *)
(* SlotsHoldLiveServices.                                                  *)
THEOREM KeysNameOneService == Spec => []KeysUnique
<1>1. TableInv => KeysUnique
  BY DEF TableInv
<1>2. QED BY <1>1, TableInvariant, PTL

(* The tag CREATE returns is that of the service it found or made (70-76), *)
(* with the exceptions of SlotsHoldLiveServices.                           *)
THEOREM CreateReturnsTag == Spec => []CreateReturnsItsService
<1>1. TableInv => CreateReturnsItsService
  BY DEF TableInv
<1>2. QED BY <1>1, TableInvariant, PTL

-----------------------------------------------------------------------------
(* serviceCount *)

\* The rest of a division is what the division leaves.
LEMMA ModUnique ==
  ASSUME NEW W \in Nat, W > 0, NEW q \in Int, NEW r \in 0 .. W - 1
  PROVE  (W * q + r) % W = r
OBVIOUS

LEMMA ModAdd ==
  ASSUME NEW W \in Nat, W > 0, NEW a \in Int, NEW b \in Int
  PROVE  ((a % W) + b) % W = (a + b) % W
<1>1. PICK q \in Int, r \in 0 .. W - 1 : a = W * q + r /\ a % W = r
  <2>1. a \div W \in Int /\ a % W \in 0 .. W - 1
        /\ a = W * (a \div W) + (a % W)
    OBVIOUS
  <2>2. QED BY <2>1
<1>2. PICK k \in Int, s \in 0 .. W - 1 : r + b = W * k + s
  <2>1. (r + b) \div W \in Int /\ (r + b) % W \in 0 .. W - 1
        /\ r + b = W * ((r + b) \div W) + ((r + b) % W)
    OBVIOUS
  <2>2. QED BY <2>1
<1>3. W * q + W * k = W * (q + k)
  OBVIOUS
<1>4. a + b = W * (q + k) + s
  BY <1>1, <1>2, <1>3
<1>5. q + k \in Int
  OBVIOUS
<1>6. (a + b) % W = s
  BY <1>4, <1>5, ModUnique
<1>7. (r + b) % W = s
  BY <1>2, ModUnique
<1>8. QED BY <1>1, <1>6, <1>7

\* A thread that has stored or cleared and not counted yet.
Counting(t) ==
  pc[t] \in {"fresh", "inc"} \/ (pc[t] = "wunlock" /\ IsPrivate(t))
Discounting(t) == pc[t] \in {"kfree", "died", "dec"}
CountStays(t) ==
  /\ Counting(t)' <=> Counting(t)
  /\ Discounting(t)' <=> Discounting(t)
  /\ UNCHANGED <<tagServices, serviceCount, vacuous>>

LEMMA CountSteps ==
  ASSUME NEW t \in Threads, TableHypotheses(t)
  PROVE  \/ CountStays(t) \/ StoreService(t) \/ CountUp(t)
         \/ ClearSlot(t) \/ CountDown(t)
<1>. RegistryAssumption /\ TypeInv /\ Step(t) /\ LocalTypes /\ Place(t)
  BY TypeParts DEF TypeInv, TableHypotheses
<1>. USE DEF LocalTypes, Place, CountStays, Counting, Discounting, Op,
             IsPrivate, Goto, EndCall, table, locals, faults, damage, Creating,
             Removing, TableOps
<1>0. ASSUME NEW c \in Arguments, Enter(t, c)
      PROVE  CountStays(t)
  BY <1>0 DEF Enter, FirstStep
<1>1. CASE Reject(t)
  BY <1>1, NoCallFields DEF Reject
<1>2. CASE Refuse(t)
  BY <1>2, NoCallFields DEF Refuse
<1>3. CASE ReadLock(t)
  BY <1>3, NoCallFields DEF ReadLock
<1>4. CASE WriteLock(t)
  BY <1>4, NoCallFields DEF WriteLock
<1>5. CASE ScanLoad(t)
  BY <1>5, NoCallFields DEF ScanLoad
<1>6. CASE ScanTouch(t)
  BY <1>6, NoCallFields DEF ScanTouch, Found, NextSlot, Oops
<1>7. CASE CheckCount(t)
  BY <1>7, NoCallFields DEF CheckCount
<1>8. CASE KeyExists(t)
  BY <1>8, NoCallFields DEF KeyExists
<1>9. CASE PickSlot(t)
  BY <1>9, NoCallFields DEF PickSlot, NoService
<1>10. CASE StoreService(t)
  BY <1>10
<1>11. CASE StoreFails(t)
  BY <1>11, NoCallFields DEF StoreFails, NoMemory
<1>12. CASE SpareFails(t)
  BY <1>12, NoCallFields DEF SpareFails, NoMemory
<1>13. CASE ReloadService(t)
  <2>1. tagServices[idx[t]] \in Svc
    BY <1>13 DEF ReloadService, TableHypotheses, TableInv, CreateOwnsSlot
  <2>2. tagServices[idx[t]] # NULL
    BY <2>1 DEF RegistryAssumption
  <2>3. QED BY <1>13, <2>2 DEF ReloadService
<1>14. CASE CountUp(t)
  BY <1>14
<1>15. CASE WriteUnlock(t)
  BY <1>15, NoCallFields DEF WriteUnlock
<1>16. CASE PutModule(t)
  BY <1>16, NoCallFields DEF PutModule
<1>17. CASE ReturnTag(t)
  BY <1>17, NoCallFields DEF ReturnTag
<1>18. CASE ReadUnlock(t)
  BY <1>18, NoCallFields DEF ReadUnlock
<1>19. CASE CheckValid(t)
  BY <1>19, NoCallFields DEF CheckValid, Granted
<1>20. CASE Send(t)
  BY <1>20, NoCallFields DEF Send
<1>21. CASE Listen(t)
  BY <1>21, NoCallFields DEF Listen
<1>22. CASE Leave(t)
  BY <1>22, NoCallFields DEF Leave
<1>23. CASE AwakeQueues(t)
  BY <1>23, NoCallFields DEF AwakeQueues
<1>24. CASE RogueUnlock(t)
  BY <1>24, NoCallFields DEF RogueUnlock
<1>25. CASE CheckSleepers(t)
  BY <1>25, NoCallFields DEF CheckSleepers
<1>26. CASE LoadSlot(t)
  BY <1>26, NoCallFields DEF LoadSlot
<1>27. CASE ClearSlot(t)
  BY <1>27
<1>28. CASE FreeService(t)
  BY <1>28, NoCallFields DEF FreeService
<1>29. CASE CountDown(t)
  BY <1>29
<1>30. CASE RemoveReturn(t)
  BY <1>30, NoCallFields DEF RemoveReturn
<1>31. CASE WakeUp(t)
  BY <1>31, NoCallFields DEF WakeUp
<1>33. CASE Halts(t)
  BY <1>33, HaltEffect
<1>32. QED BY <1>0, <1>1, <1>2, <1>3, <1>4, <1>5, <1>6, <1>7, <1>8, <1>9,
              <1>10, <1>11, <1>12, <1>13, <1>14, <1>15, <1>16, <1>17, <1>18,
               <1>19, <1>20, <1>21, <1>22, <1>23, <1>24, <1>25, <1>26, <1>27,
               <1>28, <1>29, <1>30, <1>31, <1>33
           DEF Step, Acquire, Work, Halts

\* What serviceCount stands for, before it wraps.
Services == Cardinality(Occupied) - Cardinality(DirtySlots)
              - Cardinality(Uncounted) + Cardinality(Undiscounted) - vacuous

LEMMA CountedFinite ==
  ASSUME RegistryAssumption, TypeInv
  PROVE  /\ IsFiniteSet(Occupied) /\ IsFiniteSet(Uncounted)
         /\ IsFiniteSet(Undiscounted)
         /\ Cardinality(Occupied) \in Nat /\ Cardinality(Uncounted) \in Nat
         /\ Cardinality(Undiscounted) \in Nat
         /\ Cardinality(DirtySlots) \in Nat
         /\ Services \in Int
<1>1. IsFiniteSet(Slots)
  BY FS_Interval DEF Slots, RegistryAssumption
<1>2. IsFiniteSet(Occupied) /\ IsFiniteSet(DirtySlots)
  BY <1>1, FS_Subset DEF Occupied, RegistryAssumption
<1>3. IsFiniteSet(Uncounted) /\ IsFiniteSet(Undiscounted)
  BY FS_Subset DEF Uncounted, Undiscounted, RegistryAssumption
<1>4. /\ Cardinality(Occupied) \in Nat /\ Cardinality(Uncounted) \in Nat
      /\ Cardinality(Undiscounted) \in Nat /\ Cardinality(DirtySlots) \in Nat
  BY <1>2, <1>3, FS_CardinalityType
<1>5. vacuous \in Nat
  BY DEF TypeInv, TypeOK
<1>6. QED BY <1>2, <1>3, <1>4, <1>5 DEF Services

\* How the four steps that count change what is counted.
LEMMA ServicesStep ==
  ASSUME NEW t \in Threads, TableHypotheses(t)
  PROVE  Services' = IF CountUp(t) THEN Services + 1
                     ELSE IF CountDown(t) THEN Services - 1 ELSE Services
<1>. /\ RegistryAssumption /\ TypeInv /\ LockInv /\ TableInv /\ Step(t)
     /\ ~rogue /\ LocalTypes /\ SharedTypes /\ Place(t) /\ NULL \notin Svc
  BY TypeParts DEF TypeInv, TableHypotheses, RegistryAssumption
<1>1. /\ Cardinality(Occupied) \in Nat /\ Cardinality(Uncounted) \in Nat
      /\ Cardinality(Undiscounted) \in Nat /\ Cardinality(DirtySlots) \in Nat
      /\ vacuous \in Nat
  BY CountedFinite DEF SharedTypes
<1>2. /\ \A u : u # t => (u \in Uncounted <=> u \in Uncounted')
      /\ \A u : u # t => (u \in Undiscounted <=> u \in Undiscounted')
  BY OthersKeep DEF Uncounted, Undiscounted, IsPrivate
<1>3. /\ Cardinality(Uncounted') \in Nat
      /\ (t \in Uncounted <=> t \in Uncounted') =>
           Cardinality(Uncounted') = Cardinality(Uncounted)
      /\ t \notin Uncounted /\ t \in Uncounted' =>
           Cardinality(Uncounted') = Cardinality(Uncounted) + 1
      /\ t \in Uncounted /\ t \notin Uncounted' =>
           Cardinality(Uncounted') = Cardinality(Uncounted) - 1
  BY <1>2, CountedFinite, JoinOrLeave
<1>4. /\ Cardinality(Undiscounted') \in Nat
      /\ (t \in Undiscounted <=> t \in Undiscounted') =>
           Cardinality(Undiscounted') = Cardinality(Undiscounted)
      /\ t \notin Undiscounted /\ t \in Undiscounted' =>
           Cardinality(Undiscounted') = Cardinality(Undiscounted) + 1
      /\ t \in Undiscounted /\ t \notin Undiscounted' =>
           Cardinality(Undiscounted') = Cardinality(Undiscounted) - 1
  BY <1>2, CountedFinite, JoinOrLeave
<1>5. /\ t \in Uncounted <=> Counting(t)
      /\ t \in Uncounted' <=> Counting(t)'
      /\ t \in Undiscounted <=> Discounting(t)
      /\ t \in Undiscounted' <=> Discounting(t)'
  BY DEF Uncounted, Undiscounted, Counting, Discounting
<1>6. CASE CountStays(t) /\ ~CountUp(t) /\ ~CountDown(t)
  <2>1. Occupied' = Occupied /\ vacuous' = vacuous
    BY <1>6 DEF CountStays, Occupied
  <2>2. QED BY <1>3, <1>4, <1>5, <1>6, <2>1 DEF CountStays, Services
<1>7. CASE StoreService(t)
  <2>1. ~CountUp(t) /\ ~CountDown(t)
    BY <1>7 DEF StoreService, CountUp, CountDown
  <2>2. /\ ~Counting(t) /\ Counting(t)' /\ ~Discounting(t)
        /\ ~Discounting(t)' /\ vacuous' = vacuous
    BY <1>7 DEF StoreService, Counting, Discounting, Goto, LocalTypes,
                faults, damage
  <2>3. /\ idx[t] \in Slots /\ tagServices[idx[t]] = NULL
        /\ tagServices'[idx[t]] \in Svc
        /\ \A i \in Slots \ {idx[t]} : tagServices'[i] = tagServices[i]
    <3>1. /\ idx[t] \in Slots /\ tagServices'[idx[t]] \in Svc
          /\ \A i \in Slots \ {idx[t]} : tagServices'[i] = tagServices[i]
      BY <1>7, StoreEffect
    <3>2. pc[t] = "store" /\ ~rogue
      BY <1>7 DEF StoreService
    <3>3. tagServices[idx[t]] = NULL
      BY <3>2 DEF TableInv, CreateOwnsSlot
    <3>4. QED BY <3>1, <3>3
  <2>4. Cardinality(Occupied') = Cardinality(Occupied) + 1
    <3>1. \A i : i # idx[t] => (i \in Occupied <=> i \in Occupied')
      BY <2>3 DEF Occupied
    <3>2. idx[t] \notin Occupied /\ idx[t] \in Occupied'
      BY <2>3 DEF Occupied
    <3>3. QED BY <3>1, <3>2, CountedFinite, JoinOrLeave
  <2>5. QED BY <1>1, <1>3, <1>4, <1>5, <2>1, <2>2, <2>4 DEF Services
<1>8. CASE ClearSlot(t)
  <2>1. ~CountUp(t) /\ ~CountDown(t)
    BY <1>8 DEF ClearSlot, CountUp, CountDown
  <2>2. ~Counting(t) /\ ~Counting(t)' /\ ~Discounting(t) /\ Discounting(t)'
    BY <1>8 DEF ClearSlot, Counting, Discounting, Goto, LocalTypes
  <2>3. \A i : i # idx[t] => (i \in Occupied <=> i \in Occupied')
    BY <1>8, ClearEffect DEF Occupied
  <2>4. idx[t] \notin Occupied'
    BY <1>8, ClearEffect DEF Occupied
  <2>5. CASE tagServices[idx[t]] = NULL
    <3>1. vacuous' = vacuous + 1
      BY <1>8, <2>5 DEF ClearSlot
    <3>2. idx[t] \notin Occupied
      BY <2>5 DEF Occupied
    <3>3. Cardinality(Occupied') = Cardinality(Occupied)
      BY <2>3, <2>4, <3>2, CountedFinite, JoinOrLeave
    <3>4. QED BY <1>1, <1>3, <1>4, <1>5, <2>1, <2>2, <3>1, <3>3 DEF Services
  <2>6. CASE tagServices[idx[t]] # NULL
    <3>1. vacuous' = vacuous
      BY <1>8, <2>6 DEF ClearSlot
    <3>2. idx[t] \in Occupied
      BY <1>8, <2>6, ClearEffect DEF Occupied
    <3>3. Cardinality(Occupied') = Cardinality(Occupied) - 1
      BY <2>3, <2>4, <3>2, CountedFinite, JoinOrLeave
    <3>4. QED BY <1>1, <1>3, <1>4, <1>5, <2>1, <2>2, <3>1, <3>3 DEF Services
  <2>7. QED BY <2>5, <2>6
<1>9. CASE CountUp(t)
  <2>1. /\ Counting(t) /\ ~Counting(t)' /\ ~Discounting(t)
        /\ ~Discounting(t)' /\ Occupied' = Occupied /\ vacuous' = vacuous
    BY <1>9 DEF CountUp, Counting, Discounting, Goto, LocalTypes, IsPrivate,
                locals, faults, damage, Occupied
  <2>2. QED BY <1>1, <1>3, <1>4, <1>5, <1>9, <2>1 DEF Services
<1>10. CASE CountDown(t)
  <2>1. /\ ~Counting(t) /\ ~Counting(t)' /\ Discounting(t)
        /\ ~Discounting(t)' /\ Occupied' = Occupied /\ vacuous' = vacuous
    BY <1>10 DEF CountDown, Counting, Discounting, Goto, LocalTypes,
                 faults, damage, Occupied
  <2>2. ~CountUp(t)
    BY <1>10 DEF CountUp, CountDown
  <2>3. QED BY <1>1, <1>3, <1>4, <1>5, <1>10, <2>1, <2>2 DEF Services
<1>11. QED BY <1>6, <1>7, <1>8, <1>9, <1>10, CountSteps

LEMMA CountStep ==
  ASSUME NEW t \in Threads, TableHypotheses(t),
         serviceCount = Services % CountWidth
  PROVE  serviceCount' = Services' % CountWidth
<1>1. CountWidth \in Nat /\ CountWidth > 0 /\ Services \in Int
  BY CountedFinite DEF TableHypotheses, RegistryAssumption
<1>2. CASE CountUp(t)
  <2>1. serviceCount' = (serviceCount + 1) % CountWidth
    BY <1>2 DEF CountUp, Wrapped, Increment
  <2>2. Services' = Services + 1
    BY <1>2, ServicesStep
  <2>3. ((Services % CountWidth) + 1) % CountWidth
          = (Services + 1) % CountWidth
    <3>1. 1 \in Int
      OBVIOUS
    <3>2. QED BY <1>1, <3>1, ModAdd, Zenon
  <2>4. QED BY <2>1, <2>2, <2>3
<1>3. CASE CountDown(t)
  <2>1. serviceCount' = (serviceCount + (-1)) % CountWidth
    <3>1. serviceCount \in Int
      BY DEF TableHypotheses, TypeInv, TypeOK
    <3>2. serviceCount - 1 = serviceCount + (-1)
      BY <3>1
    <3>3. QED BY <1>3, <3>2 DEF CountDown, Wrapped
  <2>2. Services' = Services + (-1)
    <3>1. ~CountUp(t)
      BY <1>3 DEF CountUp, CountDown
    <3>2. QED BY <1>1, <1>3, <3>1, ServicesStep
  <2>3. ((Services % CountWidth) + (-1)) % CountWidth
          = (Services + (-1)) % CountWidth
    <3>1. -1 \in Int
      OBVIOUS
    <3>2. QED BY <1>1, <3>1, ModAdd, Zenon
  <2>4. QED BY <2>1, <2>2, <2>3
<1>4. CASE ~CountUp(t) /\ ~CountDown(t)
  <2>1. Services' = Services
    BY <1>4, ServicesStep
  <2>2. serviceCount' = serviceCount
    BY <1>4, CountSteps
       DEF CountStays, StoreService, ClearSlot
  <2>3. QED BY <2>1, <2>2
<1>5. QED BY <1>2, <1>3, <1>4

(* serviceCount is the services in the table, up to the updates under way, *)
(* the dirty slots, the REMOVEs that found nothing left to remove, and the *)
(* width of an unsigned int; until an AWAKE_ALL unlocks a writer.          *)
THEOREM ServicesCounted == Spec => []CountAccounting
<1>1. CountAccounting <=> (~rogue => serviceCount = Services % CountWidth)
  BY DEF CountAccounting, Services
<1>2. Init => CountAccounting
  <2>. SUFFICES ASSUME Init PROVE serviceCount = Services % CountWidth
    BY <1>1
  <2>1. Occupied = DirtySlots
    BY RegistryAssumption DEF Init, Occupied, RegistryAssumption
  <2>2. Uncounted = {} /\ Undiscounted = {}
    BY DEF Init, Uncounted, Undiscounted
  <2>3. TypeInv
    BY RegistryAssumption, InitTypes
  <2>4. Services = 0
    BY <2>1, <2>2, <2>3, RegistryAssumption, CountedFinite, FS_EmptySet
       DEF Services, Init
  <2>5. 0 % CountWidth = 0
    BY RegistryAssumption DEF RegistryAssumption
  <2>6. QED BY <2>4, <2>5 DEF Init
<1>3. TypeInv /\ LockInv /\ TableInv /\ CountAccounting /\ [Next]_vars
        => CountAccounting'
  <2>1. ASSUME TypeInv, LockInv, TableInv, CountAccounting, Next, ~rogue'
        PROVE  serviceCount' = Services' % CountWidth
    <3>1. PICK t \in Threads : Step(t)
      BY <2>1, NextSteps
    <3>2. TableHypotheses(t)
      BY <2>1, <3>1, RegistryAssumption, RogueStays DEF TableHypotheses
    <3>3. serviceCount = Services % CountWidth
      BY <1>1, <2>1, <3>2 DEF TableHypotheses
    <3>4. QED BY <3>2, <3>3, CountStep
  <2>2. ASSUME CountAccounting, UNCHANGED vars PROVE CountAccounting'
    BY <2>2 DEF CountAccounting, Occupied, Uncounted, Undiscounted,
                IsPrivate, vars, table, locals, faults, damage
  <2>3. CountAccounting'
          <=> (~rogue' => serviceCount' = Services' % CountWidth)
    BY DEF CountAccounting, Services
  <2>4. QED BY <2>1, <2>2, <2>3
<1>4. QED BY <1>2, <1>3, TypeInvariant, LockInvariant, TableInvariant, PTL
          DEF Spec
=============================================================================
