----------------------------- MODULE TagRegistry -----------------------------
(***************************************************************************)
(* The table of TAG services (TAG_Messaging.c, TAG_Messagin_help.c): the   *)
(* system calls tag_get, tag_send, tag_receive and tag_ctl as concurrent   *)
(* threads over tagServices[], searchLock, serviceCount, the service       *)
(* objects and the reference count of the module.                          *)
(*                                                                         *)
(* A service is an address with its key, tag, creator and permission; its  *)
(* levels are one wait queue here (modules RcuList and LevelWait have      *)
(* them).  searchLock is the kernel's queued rwlock: a writer bit and a    *)
(* count of readers; write_unlock clears the bit, whoever set it.          *)
(***************************************************************************)
EXTENDS Integers, FiniteSets

CONSTANTS
  Threads,
  Root,                  \* threads of the super user
  Svc,                   \* addresses kmalloc can return for a service
  NULL,
  min_sys_TAG_Services,  \* slots of tagServices (256)
  Keys,                  \* public keys of tag_get
  TAG_IPC_PRIVATE,
  DirtySlots,            \* slots that kmalloc did not return as NULL
  AllocFails,            \* whether the kmalloc of a service may fail
  Unmapped,              \* threads whose user buffer stays unmapped
  Calls,                 \* operations the threads call
  Perms,                 \* permissions CREATE is called with
  CountWidth,            \* serviceCount wraps modulo this (2^32)
  MaxCalls               \* bound on the calls

Slots == 0 .. min_sys_TAG_Services - 1
MAX_SERVICE_NUM == min_sys_TAG_Services

Operations == {"CREATE", "OPEN", "SEND", "RECEIVE", "AWAKE_ALL", "REMOVE",
               "OTHER", "INVALID"}

Wild == "wild"   \* what a dirty slot holds

ASSUME RegistryAssumption ==
  /\ min_sys_TAG_Services \in Nat \ {0}
  /\ IsFiniteSet(Threads) /\ Root \subseteq Threads
  /\ NULL \notin Svc \cup Threads /\ NULL # Wild /\ Wild \notin Svc
  /\ TAG_IPC_PRIVATE \notin Keys
  /\ DirtySlots \subseteq Slots
  /\ AllocFails \in BOOLEAN
  /\ Unmapped \subseteq Threads
  /\ Calls \subseteq Operations
  /\ Perms \subseteq {"OPEN_ROOM", "PRIVATE_ROOM"}
  /\ CountWidth \in Nat /\ CountWidth > min_sys_TAG_Services
  /\ MaxCalls \in Nat

VARIABLES
  tagServices, serviceCount,
  key, tag, creator, perm, alloc,  \* the service objects
  queue,                \* receivers asleep on a service's queues
  wlocked, readers,     \* searchLock
  refs,                 \* module reference count
  pc, call,             \* a thread's control and the arguments of its call
  idx, p, service, tmp, \* its locals
  calls,                \* counter of the bound
  leakedReads, leakedWrite, leakedRefs,  \* history: returns that keep them
  keptLists,    \* services whose list a replace keeps locked
  rogue,        \* history: AWAKE_ALL released a write lock it did not hold
  freedTwice,   \* history: services freed again before they were reused
  dangling,     \* history: threads whose service was freed during the call
  vacuous,      \* history: REMOVEs that found the slot empty already
  wild          \* history: a thread died on a bad pointer in a section

object  == <<key, tag, creator, perm, alloc, keptLists>>
locals  == <<call, idx, p, service, tmp>>
leaks   == <<leakedReads, leakedWrite, leakedRefs>>
damage  == <<rogue, freedTwice, vacuous, wild>>
faults  == <<damage, dangling>>
lock    == <<wlocked, readers>>
table   == <<tagServices, serviceCount>>
vars == <<table, object, queue, lock, refs, pc, locals, calls, leaks,
          faults>>

AnyKey == Keys \cup {TAG_IPC_PRIVATE}
NoCall == [op |-> "none", arg |-> 0, perm |-> "OPEN_ROOM"]
Ptr == Svc \cup {NULL, Wild}

(* initService *)
Init ==
  /\ tagServices = [i \in Slots |-> IF i \in DirtySlots THEN Wild ELSE NULL]
  /\ serviceCount = 0
  /\ key = [s \in Svc |-> TAG_IPC_PRIVATE]
  /\ tag = [s \in Svc |-> 0]
  /\ creator = [s \in Svc |-> NULL]
  /\ perm = [s \in Svc |-> "OPEN_ROOM"]
  /\ alloc = {} /\ keptLists = {}
  /\ queue = [s \in Svc |-> {}]
  /\ wlocked = FALSE /\ readers = 0
  /\ refs = 0
  /\ pc = [t \in Threads |-> "idle"]
  /\ call = [t \in Threads |-> NoCall]
  /\ idx = [t \in Threads |-> 0]
  /\ p = [t \in Threads |-> NULL]
  /\ service = [t \in Threads |-> NULL]
  /\ tmp = [t \in Threads |-> NULL]
  /\ calls = 0
  /\ leakedReads = 0 /\ leakedWrite = FALSE /\ leakedRefs = 0
  /\ rogue = FALSE /\ dangling = {} /\ vacuous = 0 /\ freedTwice = {}
  /\ wild = FALSE

-----------------------------------------------------------------------------
Goto(t, next) == pc' = [pc EXCEPT ![t] = next]

Op(t) == call[t].op
IsPrivate(t) == call[t].arg = TAG_IPC_PRIVATE

\* The call returns; its locals are gone.
EndCall(t) ==
  /\ pc' = [pc EXCEPT ![t] = "idle"]
  /\ call' = [call EXCEPT ![t] = NoCall]
  /\ idx' = [idx EXCEPT ![t] = 0]
  /\ p' = [p EXCEPT ![t] = NULL]
  /\ service' = [service EXCEPT ![t] = NULL]
  /\ tmp' = [tmp EXCEPT ![t] = NULL]
  /\ dangling' = dangling \ {t}

ModulePut_Missing == refs' = refs
ModulePut == refs' = refs - 1

\* serviceCount is an unsigned int.
Wrapped_Signed(n) == n
Wrapped(n) == n % CountWidth

Increment_Missing == 0
Increment == 1

Unlocked == FALSE

\* Reading a service object that was freed gives any value, and so does one
\* that was freed twice: kmalloc gives its address to others as well.
Freed(s) == s \notin alloc \/ s \in freedTwice
MayBe(s, fact) == Freed(s) \/ fact
MayNotBe(s, fact) == Freed(s) \/ ~fact

(* validServiceOperation *)
Valid(t, s) == t \in Root \/ perm[s] = "OPEN_ROOM" \/ creator[s] = t

-----------------------------------------------------------------------------
(* Entry of the system calls.  INVALID is a call whose permission, key,    *)
(* tag, size or buffer the checks at the entry refuse; OTHER one with a    *)
(* command that is none of the four.                                       *)

FirstStep(c) ==
  CASE c.op = "INVALID" -> "reject"
    [] c.op = "CREATE" -> "count"
    [] c.op = "OPEN" /\ c.arg = TAG_IPC_PRIVATE -> "refuse"
    [] c.op = "OTHER" -> "refuse"
    [] OTHER -> "rlock"

Enter(t, c) ==
  /\ pc[t] = "idle"
  /\ calls < MaxCalls
  /\ calls' = calls + 1
  /\ refs' = refs + 1
  /\ call' = [call EXCEPT ![t] = c]
  /\ Goto(t, FirstStep(c))
  /\ UNCHANGED <<table, object, queue, lock, idx, p, service, tmp, leaks,
                 faults>>

Call(op, arg, pm) == [op |-> op, arg |-> arg, perm |-> pm]
Arguments ==
  {Call("CREATE", k, pm) : k \in AnyKey, pm \in Perms}
    \cup {Call("OPEN", k, "OPEN_ROOM") : k \in AnyKey}
    \cup {Call(op, i, "OPEN_ROOM") :
            op \in {"SEND", "RECEIVE", "AWAKE_ALL", "REMOVE"}, i \in Slots}
    \cup {Call(op, 0, "OPEN_ROOM") : op \in {"OTHER", "INVALID"}}

\* permAmmisible, keyAmmissible, the checks of size, buffer and tag, and a
\* copy_from_user that fails.
Reject(t) ==
  /\ pc[t] = "reject"
  /\ ModulePut
  /\ EndCall(t)
  /\ UNCHANGED <<table, object, queue, lock, calls, leaks, damage>>

\* OPEN of IPC_PRIVATE (91) and an unknown command (164, 474) return without
\* module_put.
Refuse(t) ==
  /\ pc[t] = "refuse"
  /\ EndCall(t)
  /\ leakedRefs' = leakedRefs + 1
  /\ UNCHANGED <<table, object, queue, lock, refs, calls, leakedReads,
                 leakedWrite, damage>>

-----------------------------------------------------------------------------
(* searchLock *)

ReadAvailable_Always == TRUE
ReadAvailable == ~wlocked

ReadLock(t) ==
  /\ pc[t] = "rlock"
  /\ ReadAvailable
  /\ readers' = readers + 1
  /\ Goto(t, "scan")
  /\ UNCHANGED <<table, object, queue, wlocked, refs, locals, calls,
                 leaks, faults>>

WriteAvailable_IgnoresWriter == readers = 0
WriteAvailable == ~wlocked /\ readers = 0

\* Public keys are searched for first; IPC_PRIVATE goes on to the new service.
WriteLock(t) ==
  /\ pc[t] = "wlock"
  /\ WriteAvailable
  /\ wlocked' = TRUE
  /\ Goto(t, IF IsPrivate(t) THEN "pick" ELSE "scan")
  /\ UNCHANGED <<table, object, queue, readers, refs, locals, calls,
                 leaks, faults>>

-----------------------------------------------------------------------------
(* searchTAG_Service_withKey and searchTAG_Service_withTag *)

Matches(t, s) == IF Op(t) \in {"CREATE", "OPEN"} THEN key[s] = call[t].arg
                                                 ELSE tag[s] = call[t].arg

\* The slots the loop goes through.
SearchedSlots_ButLast == 0 .. min_sys_TAG_Services - 2
SearchedSlots == Slots

\* The slots in order, one load of tagServices[i] each.
ScanLoad(t) ==
  /\ pc[t] = "scan"
  /\ \/ /\ idx[t] \in SearchedSlots /\ tagServices[idx[t]] = NULL
        /\ idx' = [idx EXCEPT ![t] = @ + 1]
        /\ UNCHANGED <<pc, p>>
     \/ /\ idx[t] \in SearchedSlots /\ tagServices[idx[t]] # NULL
        /\ p' = [p EXCEPT ![t] = tagServices[idx[t]]]
        /\ Goto(t, "touch")
        /\ UNCHANGED idx
     \/ /\ idx[t] \notin SearchedSlots
        /\ idx' = [idx EXCEPT ![t] = 0]
        /\ Goto(t, IF Op(t) = "CREATE" THEN "pick" ELSE "runlock")
        /\ UNCHANGED p
  /\ UNCHANGED <<table, object, queue, lock, refs, call, service, tmp,
                 calls, leaks, faults>>

Found(t) ==
  /\ MayBe(p[t], Matches(t, p[t]))
  /\ service' = [service EXCEPT ![t] = p[t]]
  /\ idx' = [idx EXCEPT ![t] = 0]
  /\ Goto(t, CASE Op(t) = "CREATE" -> "exists"
               [] Op(t) = "REMOVE" -> "valid"
               [] OTHER -> "runlock")
  /\ UNCHANGED wild

NextSlot(t) ==
  /\ MayNotBe(p[t], Matches(t, p[t]))
  /\ idx' = [idx EXCEPT ![t] = @ + 1]
  /\ Goto(t, "scan")
  /\ UNCHANGED <<service, wild>>

\* tagServices is kmalloc'd and never cleared: a slot may hold a wild pointer.
Oops(t) ==
  /\ p[t] = Wild
  /\ wild' = TRUE
  /\ Goto(t, "oops")
  /\ UNCHANGED <<service, idx>>

ScanTouch(t) ==
  /\ pc[t] = "touch"
  /\ (p[t] \in Svc /\ (Found(t) \/ NextSlot(t))) \/ Oops(t)
  /\ p' = [p EXCEPT ![t] = NULL]
  /\ UNCHANGED <<table, object, queue, lock, refs, call, tmp, calls,
                 leaks, rogue, freedTwice, dangling, vacuous>>

-----------------------------------------------------------------------------
(* tag_get CREATE *)

\* Before the lock is taken.
CheckCount(t) ==
  /\ pc[t] = "count"
  /\ \/ /\ serviceCount >= MAX_SERVICE_NUM
        /\ ModulePut
        /\ EndCall(t)
     \/ /\ serviceCount < MAX_SERVICE_NUM
        /\ Goto(t, "wlock")
        /\ UNCHANGED <<refs, locals, dangling>>
  /\ UNCHANGED <<table, object, queue, lock, calls, leaks, damage>>

KeyExists(t) ==
  /\ pc[t] = "exists"
  /\ wlocked' = Unlocked
  /\ ModulePut
  /\ EndCall(t)
  /\ UNCHANGED <<table, object, queue, readers, calls, leaks, damage>>

\* new_TAG_Service returned NULL: the return keeps searchLock (47-50, 64-67).
NoService(t) ==
  /\ ModulePut
  /\ EndCall(t)
  /\ leakedWrite' = wlocked

FreeSlots == {i \in Slots : tagServices[i] = NULL}

PickSlot(t) ==
  /\ pc[t] = "pick"
  /\ \/ /\ FreeSlots = {}
        /\ NoService(t)
     \/ \E i \in FreeSlots :
          /\ \A j \in FreeSlots : i <= j
          /\ idx' = [idx EXCEPT ![t] = i]
          /\ Goto(t, "store")
          /\ UNCHANGED <<refs, call, p, service, tmp, leakedWrite,
                         dangling>>
  /\ UNCHANGED <<table, object, queue, lock, calls, leakedReads, leakedRefs,
                 damage>>

\* kmalloc failed and its result is used: the thread dies in its section.
NoMemory(t) ==
  /\ AllocFails
  /\ wild' = TRUE
  /\ Goto(t, "oops")

StoreFails(t) ==
  /\ pc[t] = "store"
  /\ NoMemory(t)
  /\ UNCHANGED <<table, object, queue, lock, refs, locals, calls, leaks,
                 rogue, freedTwice, dangling, vacuous>>

\* A second kfree makes the free list of the allocator a cycle: the address
\* comes back again and again, in use or not.
Allocatable == (Svc \ alloc) \cup freedTwice

StoreService(t) ==
  /\ pc[t] = "store"
  /\ \E s \in Allocatable :
       /\ tagServices' = [tagServices EXCEPT ![idx[t]] = s]
       /\ alloc' = alloc \cup {s}
       /\ keptLists' = keptLists \ {s}
       /\ key' = [key EXCEPT ![s] = call[t].arg]
       /\ tag' = [tag EXCEPT ![s] = idx[t]]
       /\ creator' = [creator EXCEPT ![s] = t]
       /\ perm' = [perm EXCEPT ![s] = call[t].perm]
       /\ queue' = [queue EXCEPT ![s] = {}]
  /\ Goto(t, "fresh")
  /\ UNCHANGED <<serviceCount, lock, refs, locals, calls, leaks, faults>>

\* `return tagServices[i]` reads the slot again.  A public create counts the
\* service before it unlocks, a private one after.
ReloadService(t) ==
  /\ pc[t] = "fresh"
  /\ \/ /\ tagServices[idx[t]] = NULL
        /\ NoService(t)
     \/ /\ tagServices[idx[t]] # NULL
        /\ service' = [service EXCEPT ![t] = tagServices[idx[t]]]
        /\ Goto(t, IF IsPrivate(t) THEN "wunlock" ELSE "inc")
        /\ UNCHANGED <<refs, call, idx, p, tmp, leakedWrite, dangling>>
  /\ UNCHANGED <<table, object, queue, lock, calls, leakedReads, leakedRefs,
                 damage>>

CountUp(t) ==
  /\ pc[t] = "inc"
  /\ serviceCount' = Wrapped(serviceCount + Increment)
  /\ Goto(t, IF IsPrivate(t) THEN "put" ELSE "wunlock")
  /\ UNCHANGED <<tagServices, object, queue, lock, refs, locals, calls,
                 leaks, faults>>

WriteUnlock(t) ==
  /\ pc[t] = "wunlock"
  /\ wlocked' = Unlocked
  /\ Goto(t, IF IsPrivate(t) THEN "inc" ELSE "put")
  /\ UNCHANGED <<table, object, queue, readers, refs, locals, calls,
                 leaks, faults>>

PutModule(t) ==
  /\ pc[t] = "put"
  /\ ModulePut
  /\ Goto(t, "tag")
  /\ UNCHANGED <<table, object, queue, lock, locals, calls, leaks,
                 faults>>

\* `return service->tag`; OPEN gets here without module_put (103).
ReturnTag(t) ==
  /\ pc[t] = "tag"
  /\ EndCall(t)
  /\ leakedRefs' = IF Op(t) = "OPEN" THEN leakedRefs + 1 ELSE leakedRefs
  /\ UNCHANGED <<table, object, queue, lock, refs, calls, leakedReads,
                 leakedWrite, damage>>

-----------------------------------------------------------------------------
(* OPEN, tag_send, tag_receive, AWAKE_ALL: unlock, then use the service *)

ReadUnlock(t) ==
  /\ pc[t] = "runlock"
  /\ readers' = readers - 1
  /\ \/ /\ service[t] = NULL
        /\ ModulePut
        /\ EndCall(t)
     \/ /\ service[t] # NULL
        /\ Goto(t, "valid")
        /\ UNCHANGED <<refs, locals, dangling>>
  /\ UNCHANGED <<table, object, queue, wlocked, calls, leaks, damage>>

Granted(op) == CASE op = "OPEN" -> "tag"
                 [] op = "SEND" -> "send"
                 [] op = "RECEIVE" -> "listen"
                 [] op = "AWAKE_ALL" -> "awake"
                 [] op = "REMOVE" -> "sleepers"

\* REMOVE is still under the read lock here, and keeps it when refused (398).
CheckValid(t) ==
  /\ pc[t] = "valid"
  /\ \/ /\ MayBe(service[t], Valid(t, service[t]))
        /\ Goto(t, Granted(Op(t)))
        /\ UNCHANGED <<refs, locals, leakedReads, dangling>>
     \/ /\ MayNotBe(service[t], Valid(t, service[t]))
        /\ ModulePut
        /\ EndCall(t)
        /\ leakedReads' = IF Op(t) = "REMOVE" THEN leakedReads + 1
                                              ELSE leakedReads
  /\ UNCHANGED <<table, object, queue, lock, calls, leakedWrite, leakedRefs,
                 damage>>

\* The rest of tag_send.  list_replace spins for as long as the list's lock is
\* taken (rcu-list.c:171).  Then it wakes up the readers of its level, or
\* nobody; or the list has no such level (a negative one) and the replace
\* returns with the lock (176, 196).
Send(t) ==
  /\ pc[t] = "send"
  /\ MayBe(service[t], service[t] \notin keptLists)
  /\ \/ /\ \E woken \in SUBSET queue[service[t]] :
             queue' = [queue EXCEPT ![service[t]] = @ \ woken]
        /\ UNCHANGED keptLists
     \/ /\ keptLists' = keptLists \cup {service[t]}
        /\ UNCHANGED queue
  /\ ModulePut
  /\ EndCall(t)
  /\ UNCHANGED <<table, key, tag, creator, perm, alloc, lock, calls, leaks,
                 damage>>

\* The busy-wait for a search under way never looks at standing[] again
\* (rcu-list.c:209, a build that keeps it in a register).
SendWaits(t) ==
  /\ pc[t] = "send"
  /\ MayBe(service[t], service[t] \notin keptLists)
  /\ \E u \in Threads : pc[u] = "leave" /\ service[u] = service[t]
  /\ keptLists' = keptLists \cup {service[t]}
  /\ Goto(t, "waiting")
  /\ UNCHANGED <<table, key, tag, creator, perm, alloc, queue, lock, refs,
                 locals, calls, leaks, faults>>

\* A lock, a queue or an element of a service that was freed holds anything,
\* also when its address is in use again: the thread spins, or dies, outside
\* searchLock.
Stray(t) ==
  /\ pc[t] \in {"send", "listen", "asleep", "leave", "awake"}
  /\ Freed(service[t]) \/ t \in dangling
  /\ Goto(t, "lost")
  /\ UNCHANGED <<table, object, queue, lock, refs, locals, calls, leaks,
                 faults>>

\* rcu_list_search goes to sleep, or finds its level ready at once.
Listen(t) ==
  /\ pc[t] = "listen"
  /\ \/ /\ queue' = [queue EXCEPT ![service[t]] = @ \cup {t}]
        /\ Goto(t, "asleep")
     \/ /\ Goto(t, "leave")
        /\ UNCHANGED queue
  /\ UNCHANGED <<table, object, lock, refs, locals, calls, leaks,
                 faults>>

\* A waker took it off the queue, or a signal did.
WakeUp(t) ==
  /\ pc[t] = "asleep"
  /\ queue' = [queue EXCEPT ![service[t]] = @ \ {t}]
  /\ Goto(t, "leave")
  /\ UNCHANGED <<table, object, lock, refs, locals, calls, leaks,
                 faults>>

\* The traversal, the copy to user space and the return.  The copy tries
\* again for as long as something is left, whatever copy_to_user says: on a
\* buffer that stays unmapped it never ends.
Leave(t) ==
  /\ pc[t] = "leave"
  /\ \/ ModulePut /\ EndCall(t)
     \/ /\ t \in Unmapped
        /\ Goto(t, "copying")
        /\ UNCHANGED <<refs, locals, dangling>>
  /\ UNCHANGED <<table, object, queue, lock, calls, leaks, damage>>

AwakeQueues(t) ==
  /\ pc[t] = "awake"
  /\ queue' = [queue EXCEPT ![service[t]] = {}]
  /\ Goto(t, "rogue")
  /\ UNCHANGED <<table, object, lock, refs, locals, calls, leaks,
                 faults>>

InWrite(t) ==
  \/ pc[t] \in {"pick", "store", "fresh", "exists", "wunlock"}
  \/ pc[t] \in {"scan", "touch", "oops"} /\ Op(t) = "CREATE"
  \/ pc[t] = "inc" /\ ~IsPrivate(t)

\* write_unlock of a lock this thread released for reading long before (377).
RogueUnlock(t) ==
  /\ pc[t] = "rogue"
  /\ wlocked' = Unlocked
  /\ rogue' = (rogue \/ \E u \in Threads : InWrite(u))
  /\ leakedWrite' = FALSE
  /\ ModulePut
  /\ EndCall(t)
  /\ UNCHANGED <<table, object, queue, readers, calls, leakedReads, leakedRefs,
                 freedTwice, vacuous, wild>>

-----------------------------------------------------------------------------
(* tag_ctl REMOVE, under the read lock *)

\* EADDRINUSE keeps the lock and the module reference (408).
CheckSleepers(t) ==
  /\ pc[t] = "sleepers"
  /\ \/ /\ MayNotBe(service[t], queue[service[t]] = {})
        /\ EndCall(t)
        /\ leakedReads' = leakedReads + 1
        /\ leakedRefs' = leakedRefs + 1
     \/ /\ MayBe(service[t], queue[service[t]] = {})
        /\ Goto(t, "unlink")
        /\ UNCHANGED <<locals, leakedReads, leakedRefs, dangling>>
  /\ UNCHANGED <<table, object, queue, lock, refs, calls, leakedWrite, damage>>

\* The kmalloc of emptyService, a service REMOVE fills in and drops (413-421).
SpareFails(t) ==
  /\ pc[t] = "unlink"
  /\ NoMemory(t)
  /\ UNCHANGED <<table, object, queue, lock, refs, locals, calls, leaks,
                 rogue, freedTwice, dangling, vacuous>>

\* `tmp = tagServices[service->tag]`
LoadSlot(t) ==
  /\ pc[t] = "unlink"
  /\ \E i \in Slots :
       /\ MayBe(service[t], tag[service[t]] = i)
       /\ idx' = [idx EXCEPT ![t] = i]
       /\ tmp' = [tmp EXCEPT ![t] = tagServices[i]]
  /\ Goto(t, "clear")
  /\ UNCHANGED <<table, object, queue, lock, refs, call, p, service,
                 calls, leaks, faults>>

Cleared_Not(t) == tagServices
Cleared(t) == [tagServices EXCEPT ![idx[t]] = NULL]

ClearSlot(t) ==
  /\ pc[t] = "clear"
  /\ tagServices' = Cleared(t)
  /\ vacuous' = IF tagServices[idx[t]] = NULL THEN vacuous + 1 ELSE vacuous
  /\ Goto(t, "kfree")
  /\ UNCHANGED <<serviceCount, object, queue, lock, refs, locals, calls,
                 leaks, rogue, freedTwice, dangling, wild>>

\* Two REMOVEs that loaded one service free it twice.
FreeService(t) ==
  /\ pc[t] = "kfree"
  /\ tmp[t] # Wild
  /\ alloc' = alloc \ {tmp[t]}
  /\ freedTwice' = freedTwice \cup ({tmp[t]} \cap (Svc \ alloc))
  /\ dangling' = dangling \cup {u \in Threads \ {t} :
                    tmp[t] \in Svc /\ tmp[t] \in {service[u], p[u], tmp[u]}}
  /\ Goto(t, "dec")
  /\ UNCHANGED <<table, key, tag, creator, perm, keptLists, queue, lock, refs,
                 locals, calls, leaks, rogue, vacuous, wild>>

\* kfree finds that it was given no object in use: the thread dies in its
\* section.
FreeFails(t) ==
  /\ pc[t] = "kfree"
  /\ tmp[t] \notin alloc \cup {NULL}
  /\ wild' = TRUE
  /\ Goto(t, "died")
  /\ UNCHANGED <<table, object, queue, lock, refs, locals, calls, leaks,
                 rogue, freedTwice, dangling, vacuous>>

CountDown(t) ==
  /\ pc[t] = "dec"
  /\ serviceCount' = Wrapped(serviceCount - 1)
  /\ Goto(t, "removed")
  /\ UNCHANGED <<tagServices, object, queue, lock, refs, locals, calls,
                 leaks, faults>>

RemoveReturn(t) ==
  /\ pc[t] = "removed"
  /\ readers' = readers - 1
  /\ ModulePut
  /\ EndCall(t)
  /\ UNCHANGED <<table, object, queue, wlocked, calls, leaks, damage>>

-----------------------------------------------------------------------------
Acquire(t) == ReadLock(t) \/ WriteLock(t)

Work(t) ==
  \/ Reject(t) \/ Refuse(t) \/ ScanLoad(t) \/ ScanTouch(t)
  \/ CheckCount(t) \/ KeyExists(t) \/ PickSlot(t) \/ StoreService(t)
  \/ StoreFails(t) \/ SpareFails(t)
  \/ ReloadService(t) \/ CountUp(t) \/ WriteUnlock(t) \/ PutModule(t)
  \/ ReturnTag(t)
  \/ ReadUnlock(t) \/ CheckValid(t) \/ Listen(t) \/ Leave(t)
  \/ Send(t) \/ SendWaits(t)
  \/ AwakeQueues(t) \/ RogueUnlock(t)
  \/ CheckSleepers(t) \/ LoadSlot(t) \/ ClearSlot(t) \/ FreeService(t)
  \/ FreeFails(t) \/ CountDown(t) \/ RemoveReturn(t)

Next ==
  \E t \in Threads :
    \/ \E c \in {a \in Arguments : a.op \in Calls} : Enter(t, c)
    \/ Acquire(t) \/ Work(t) \/ WakeUp(t) \/ Stray(t)

Spec == Init /\ [][Next]_vars

(* A thread in a call is scheduled, and the queued rwlock serves those who *)
(* wait for it in turn.  Nothing makes a call, or wakes up a reader.       *)
FairSpec == Spec /\ \A t \in Threads : WF_vars(Work(t)) /\ SF_vars(Acquire(t))

-----------------------------------------------------------------------------
PCs == {"idle", "count", "reject", "refuse", "copying", "rlock", "wlock",
        "scan", "touch", "oops", "exists", "pick", "store", "fresh", "inc",
        "wunlock", "put", "tag", "runlock", "valid", "send", "waiting", "lost", "died", "listen", "asleep", "leave", "awake",
        "rogue", "sleepers", "unlink", "clear", "kfree", "dec", "removed"}

TypeOK ==
  /\ tagServices \in [Slots -> Ptr]
  /\ serviceCount \in 0 .. CountWidth - 1
  /\ key \in [Svc -> AnyKey]
  /\ tag \in [Svc -> Slots]
  /\ creator \in [Svc -> Threads \cup {NULL}]
  /\ perm \in [Svc -> {"OPEN_ROOM", "PRIVATE_ROOM"}]
  /\ alloc \subseteq Svc /\ keptLists \subseteq Svc
  /\ queue \in [Svc -> SUBSET Threads]
  /\ wlocked \in BOOLEAN
  /\ readers \in Int /\ refs \in Int
  /\ pc \in [Threads -> PCs]
  /\ call \in [Threads -> Arguments \cup {NoCall}]
  /\ idx \in [Threads -> 0 .. min_sys_TAG_Services]
  /\ p \in [Threads -> Ptr] /\ tmp \in [Threads -> Ptr]
  /\ service \in [Threads -> Svc \cup {NULL}]
  /\ calls \in 0 .. MaxCalls
  /\ leakedReads \in Nat /\ leakedWrite \in BOOLEAN /\ leakedRefs \in Nat
  /\ rogue \in BOOLEAN /\ wild \in BOOLEAN
  /\ dangling \subseteq Threads /\ freedTwice \subseteq Svc
  /\ vacuous \in Nat

Occupied == {i \in Slots : tagServices[i] # NULL}
Active == {t \in Threads : pc[t] # "idle"}

InRead(t) ==
  \/ pc[t] \in {"runlock", "sleepers", "unlink", "clear", "kfree", "died",
                "dec", "removed"}
  \/ pc[t] \in {"scan", "touch", "oops"} /\ Op(t) # "CREATE"
  \/ pc[t] = "valid" /\ Op(t) = "REMOVE"

(* searchLock: the reader count is the threads in a read section and the   *)
(* REMOVEs that returned without unlocking (398-401, 408); the writer bit  *)
(* is the one thread in a write section or a CREATE that returned without  *)
(* unlocking (47-50, 64-67), as long as no AWAKE_ALL unlocked a writer.    *)
SearchLockAccounting ==
  /\ readers = Cardinality({t \in Threads : InRead(t)}) + leakedReads
  /\ ~rogue =>
       /\ Cardinality({t \in Threads : InWrite(t)})
            = IF wlocked /\ ~leakedWrite THEN 1 ELSE 0
       /\ wlocked => readers = 0

\* No AWAKE_ALL unlocked a writer (377), no two REMOVEs freed one service
\* (426).
Intact == ~rogue /\ freedTwice = {}

(* Two services never share a public key (57-61): a create searches for    *)
(* the key and stores the service in one write section, as long as no      *)
(* AWAKE_ALL unlocked it and no two REMOVEs freed one service.             *)
PublicServices == {i \in Slots : /\ tagServices[i] \in Svc
                                 /\ key[tagServices[i]] \in Keys}
KeysUnique ==
  Intact =>
    \A i, j \in PublicServices :
      key[tagServices[i]] = key[tagServices[j]] => i = j

(* The tag CREATE returns (70-76) designates the service it stored, unless *)
(* a REMOVE has found that service already: no other create has taken the  *)
(* slot, with the two exceptions of KeysUnique.                            *)
BeingFreed(s) == \E u \in Threads : pc[u] = "kfree" /\ tmp[u] = s
CreateReturnsItsService ==
  Intact =>
    \A t \in Threads \ dangling :
      Op(t) = "CREATE" /\ service[t] # NULL /\ ~BeingFreed(service[t]) =>
        /\ tagServices[tag[service[t]]] = service[t]
        /\ key[service[t]] = call[t].arg

(* Every slot in use holds a service that is not freed and bears the index *)
(* of the slot as its tag (70, 423-426), whatever creates, lookups and     *)
(* REMOVEs interleave, with two exceptions.  A REMOVE let in by AWAKE_ALL  *)
(* between the choice of a slot and the store frees a service that is      *)
(* stored again; and after two REMOVEs that both loaded the slot (423)     *)
(* before one cleared it (424), kmalloc may return one address for two     *)
(* slots.                                                                  *)
TableHoldsLiveServices ==
  Intact =>
    \A i \in Slots :
      tagServices[i] \in Svc =>
        tagServices[i] \in alloc /\ tag[tagServices[i]] = i

\* Creates that have stored and not counted, removes that have cleared and
\* not counted.
Uncounted == {t \in Threads : pc[t] \in {"fresh", "inc"} \/
                               (pc[t] = "wunlock" /\ IsPrivate(t))}
Undiscounted == {t \in Threads : pc[t] \in {"kfree", "died", "dec"}}

(* serviceCount (53, 70, 427) follows the table, but for the slots kmalloc *)
(* returned dirty, the updates under way and the REMOVEs that found their  *)
(* slot empty, modulo the width of an unsigned int; as long as no          *)
(* AWAKE_ALL unlocked a writer.                                            *)
CountAccounting ==
  ~rogue =>
    serviceCount = (Cardinality(Occupied) - Cardinality(DirtySlots)
                      - Cardinality(Uncounted) + Cardinality(Undiscounted)
                      - vacuous) % CountWidth

(* The module cannot be unloaded under a call: its reference count is the  *)
(* calls that have not put theirs, and those that returned without doing   *)
(* so (91, 103, 164, 408, 474).  The last read of CREATE (76) is after it. *)
ModuleRefsAccounting ==
  refs = Cardinality({t \in Active : ~(pc[t] = "tag" /\ Op(t) = "CREATE")})
           + leakedRefs

(* A call returns or sleeps, but for these.  It copies to a buffer that    *)
(* stays unmapped (332).  It is a tag_send whose service's list a replace  *)
(* has locked for good, or whose own replace waits in there for ever       *)
(* (rcu-list.c:171, 176, 196, 209).  Its service was freed under it.  A    *)
(* call that returned kept searchLock (50, 67, 400, 408), or one died in   *)
(* its section, on a wild pointer, a failed kmalloc or a second kfree.     *)
(* Only the last two hold up the calls on other services.                  *)
StuckInList(t) ==
  pc[t] = "waiting" \/ (pc[t] = "send" /\ service[t] \in keptLists)


-----------------------------------------------------------------------------
(* What the source says, against what it does *)

(* TAG_Messaging.c:386, EADDRINUSE: REMOVE does not free a service that a  *)
(* reader is waiting on.                                                   *)
RemoveSparesReaders ==
  \A t \in dangling : pc[t] # "asleep"

=============================================================================
