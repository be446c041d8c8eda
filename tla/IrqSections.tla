----------------------------- MODULE IrqSections -----------------------------
(***************************************************************************)
(* The interrupts and the CPUs under the locks of TAG_Messaging.c and      *)
(* rcu-list.c.  The lists keep the interrupt state of every writer in one  *)
(* global, `flags` (rcu-list.c:14); searchLock keeps it in locals.  CREATE *)
(* and REMOVE allocate, and so may sleep, inside searchLock.               *)
(*                                                                         *)
(* The kernel is not preemptible: a thread keeps its CPU from the entry of *)
(* the call to its return, unless it sleeps.  What the sections do to the  *)
(* table and the lists, and the returns that do not unlock, are in         *)
(* TagRegistry and RcuList.                                                *)
(***************************************************************************)
EXTENDS Integers, Sequences, FiniteSets

CONSTANTS
  Threads, NULL,
  CPUs,        \* number of CPUs
  Lists,       \* the lists of the services SEND may find
  levelDeep,   \* levels of a list
  MaySleep     \* whether an allocation may put its thread to sleep

ASSUME IrqAssumption ==
  /\ NULL \notin Threads \cup Lists
  /\ CPUs \in Nat \ {0}
  /\ Threads \cap Lists = {}
  /\ levelDeep \in Nat \ {0}
  /\ MaySleep \in BOOLEAN

VARIABLES
  pc, op,
  running,          \* threads that have a CPU
  on,               \* interrupts are enabled under the thread
  local,            \* flags of searchLock, a local of the call
  tmp,              \* state irqsave read, until it is stored
  lst, level,       \* the list a writer works on, and the next level
  flags,            \* the global of rcu-list.c
  flagsOf,          \* history: the section that stored it, while it lasts
  wlocked, readers, \* searchLock
  queue,            \* those that spin on it, in turn
  locked,           \* lists whose write_lock is held
  crossed,          \* history: the call restored the flags of another
  slept             \* history: the call slept in a section

vars == <<pc, op, running, on, local, tmp, lst, level, flags, flagsOf, wlocked,
          readers, queue, locked, crossed, slept>>
search == <<wlocked, readers, queue>>
global == <<flags, flagsOf>>
past   == <<crossed, slept>>

\* A list that CREATE or REMOVE fills is nobody else's: it has the thread's
\* name.
AnyList == Lists \cup Threads
NoSection == [thread |-> NULL, list |-> NULL]

Init ==
  /\ pc = [t \in Threads |-> "idle"]
  /\ op = [t \in Threads |-> "SEND"]
  /\ running = {}
  /\ on = [t \in Threads |-> TRUE]
  /\ local = [t \in Threads |-> TRUE]
  /\ tmp = [t \in Threads |-> TRUE]
  /\ lst = [t \in Threads |-> NULL]
  /\ level = [t \in Threads |-> 0]
  /\ flags = FALSE
  /\ flagsOf = NoSection
  /\ wlocked = FALSE /\ readers = 0 /\ queue = <<>> /\ locked = {}
  /\ crossed = [t \in Threads |-> FALSE]
  /\ slept = [t \in Threads |-> FALSE]

Goto(t, next) == pc' = [pc EXCEPT ![t] = next]
FreeCPU == Cardinality(running) < CPUs

-----------------------------------------------------------------------------
(* searchLock: irqsave disables the interrupts first, then spins.  A SEND  *)
(* that finds no service stands for the other calls that only search.      *)

SearchSave(t, o) ==
  /\ pc[t] = "idle"
  /\ FreeCPU
  /\ running' = running \cup {t}
  /\ op' = [op EXCEPT ![t] = o]
  /\ local' = [local EXCEPT ![t] = on[t]]
  /\ on' = [on EXCEPT ![t] = FALSE]
  /\ queue' = Append(queue, t)
  /\ Goto(t, "search")
  /\ UNCHANGED <<tmp, lst, level, global, wlocked, readers, locked, past>>

\* What was searched for lets the call go on, or not.
SearchAcquire(t) ==
  /\ pc[t] = "search"
  /\ queue # <<>> /\ Head(queue) = t
  /\ ~wlocked
  /\ \/ op[t] = "CREATE" /\ readers = 0 /\ wlocked' = TRUE /\ UNCHANGED readers
     \/ op[t] # "CREATE" /\ readers' = readers + 1 /\ UNCHANGED wlocked
  /\ queue' = Tail(queue)
  /\ \/ op[t] # "SEND" /\ Goto(t, "alloc")
     \/ Goto(t, "searched")
  /\ UNCHANGED <<op, running, on, local, tmp, lst, level, global, locked, past>>

Restored_Global(t) == flags
Restored(t) == local[t]

ReadersLeft_All == readers
ReadersLeft == readers - 1

SearchRelease(t) ==
  /\ pc[t] = "searched"
  /\ \/ op[t] = "CREATE" /\ wlocked' = FALSE /\ UNCHANGED readers
     \/ op[t] # "CREATE" /\ readers' = ReadersLeft /\ UNCHANGED wlocked
  /\ UNCHANGED queue
  /\ on' = [on EXCEPT ![t] = Restored(t)]
  /\ Goto(t, "return") \/ (op[t] = "SEND" /\ Goto(t, "replace"))
  /\ UNCHANGED <<op, running, local, tmp, lst, level, global, locked, past>>

-----------------------------------------------------------------------------
(* The allocations of new_TAG_Service, of REMOVE and of rcu_list_insert *)

Alloc(t) ==
  /\ pc[t] = "alloc"
  /\ Goto(t, "insert")
  /\ UNCHANGED <<op, running, on, local, tmp, lst, level, global, search, locked,
                 past>>

Sleep(t) ==
  /\ pc[t] = "alloc"
  /\ MaySleep
  /\ running' = running \ {t}
  /\ slept' = [slept EXCEPT ![t] = TRUE]
  /\ Goto(t, "asleep")
  /\ UNCHANGED <<op, on, local, tmp, lst, level, global, search, locked,
                 crossed>>

\* The scheduler enables the interrupts; the allocator puts them back, if it
\* is the allocator that called it.
Resume(t) ==
  /\ pc[t] = "asleep"
  /\ FreeCPU
  /\ running' = running \cup {t}
  /\ \E state \in {on[t], TRUE} : on' = [on EXCEPT ![t] = state]
  /\ Goto(t, "insert")
  /\ UNCHANGED <<op, local, tmp, lst, level, global, search, locked, past>>

-----------------------------------------------------------------------------
(* The write_lock of a list: rcu_list_insert and rcu_list_replace *)

ListSave(t) ==
  /\ \/ pc[t] = "insert" /\ lst' = [lst EXCEPT ![t] = t]
     \/ pc[t] = "replace" /\ \E l \in Lists : lst' = [lst EXCEPT ![t] = l]
  /\ tmp' = [tmp EXCEPT ![t] = on[t]]
  /\ on' = [on EXCEPT ![t] = FALSE]
  /\ Goto(t, "list")
  /\ UNCHANGED <<op, running, local, level, global, search, locked, past>>

ListFree_Always(t) == TRUE
ListFree(t) == lst[t] \notin locked

\* The saved state goes to `flags` once the lock is taken.
ListAcquire(t) ==
  /\ pc[t] = "list"
  /\ ListFree(t)
  /\ locked' = locked \cup {lst[t]}
  /\ flags' = tmp[t]
  /\ flagsOf' = [thread |-> t, list |-> lst[t]]
  /\ Goto(t, "write")
  /\ UNCHANGED <<op, running, on, local, tmp, lst, level, search, past>>

RestoredByList == flags

MoreLevels(t) == level[t] < levelDeep - 1

ListRelease(t) ==
  /\ pc[t] = "write"
  /\ locked' = locked \ {lst[t]}
  /\ on' = [on EXCEPT ![t] = RestoredByList]
  /\ crossed' = [crossed EXCEPT ![t] = @ \/ flagsOf.thread # t]
  /\ flagsOf' = IF flagsOf.thread = t THEN NoSection ELSE flagsOf
  /\ lst' = [lst EXCEPT ![t] = NULL]
  /\ \/ /\ op[t] # "SEND" /\ MoreLevels(t)
        /\ level' = [level EXCEPT ![t] = @ + 1]
        /\ Goto(t, "alloc")
     \/ /\ op[t] # "SEND" /\ ~MoreLevels(t)
        /\ level' = [level EXCEPT ![t] = 0]
        /\ Goto(t, "searched")
     \/ /\ op[t] = "SEND"
        /\ Goto(t, "return")
        /\ UNCHANGED level
  /\ UNCHANGED <<op, running, local, tmp, flags, search, slept>>

\* The return to user space enables the interrupts.
Return(t) ==
  /\ pc[t] = "return"
  /\ running' = running \ {t}
  /\ on' = [on EXCEPT ![t] = TRUE]
  /\ crossed' = [crossed EXCEPT ![t] = FALSE]
  /\ slept' = [slept EXCEPT ![t] = FALSE]
  /\ op' = [op EXCEPT ![t] = "SEND"]
  /\ tmp' = [tmp EXCEPT ![t] = TRUE]
  /\ Goto(t, "idle")
  /\ UNCHANGED <<local, lst, level, global, search, locked>>

-----------------------------------------------------------------------------
Work(t) ==
  \/ SearchRelease(t) \/ Alloc(t) \/ Sleep(t) \/ ListSave(t)
  \/ ListRelease(t) \/ Return(t)

Next ==
  \E t \in Threads :
    \/ \E o \in {"CREATE", "SEND", "REMOVE"} : SearchSave(t, o)
    \/ Work(t) \/ SearchAcquire(t) \/ ListAcquire(t) \/ Resume(t)

(* A thread that has a CPU goes on, the first of the queue takes searchLock*)
(* once it can; the lock of a list is as fair, and a sleeper gets a CPU if *)
(* one is free again and again.                                            *)
Spec ==
  /\ Init /\ [][Next]_vars
  /\ \A t \in Threads : /\ WF_vars(Work(t) \/ SearchAcquire(t))
                       /\ SF_vars(ListAcquire(t) \/ Resume(t))

-----------------------------------------------------------------------------
PCs == {"idle", "search", "searched", "alloc", "asleep", "insert", "replace",
        "list", "write", "return"}

TypeOK ==
  /\ pc \in [Threads -> PCs]
  /\ op \in [Threads -> {"CREATE", "SEND", "REMOVE"}]
  /\ running \subseteq Threads
  /\ on \in [Threads -> BOOLEAN] /\ local \in [Threads -> BOOLEAN]
  /\ tmp \in [Threads -> BOOLEAN]
  /\ lst \in [Threads -> AnyList \cup {NULL}]
  /\ level \in [Threads -> 0 .. levelDeep - 1]
  /\ flags \in BOOLEAN
  /\ flagsOf \in [thread : Threads \cup {NULL}, list : AnyList \cup {NULL}]
  /\ wlocked \in BOOLEAN /\ readers \in Int
  /\ queue \in Seq(Threads)
  /\ locked \subseteq AnyList
  /\ crossed \in [Threads -> BOOLEAN] /\ slept \in [Threads -> BOOLEAN]

(* The lock of a list guards `flags` (rcu-list.c:14) against the writers   *)
(* of that list: what one finds there in its section it stored itself, or  *)
(* a writer of some other list did.                                        *)
ListGuardsFlags ==
  \A t \in Threads :
    pc[t] = "write" => flagsOf.thread = t \/ flagsOf.list # lst[t]

(* The interrupts are masked in the sections and come back after them.  A  *)
(* list's section has no exception, and searchLock's only after an insert  *)
(* inside it restored the flags of another list's writer, or slept.        *)
(* CREATE and REMOVE return with the interrupts on whatever their inserts  *)
(* did: searchLock restores its own copy (51, 71, 428).  SEND does, unless *)
(* it restored the flags of a writer of another list.                      *)
InterruptsFollowSections ==
  \A t \in Threads :
    /\ on[t] => \/ pc[t] \in {"idle", "replace", "return"}
                \/ pc[t] \in {"alloc", "asleep", "insert", "searched"}
                     /\ (crossed[t] \/ slept[t])
    /\ ~on[t] => \/ pc[t] \notin {"idle", "replace", "return"}
                 \/ pc[t] = "return" /\ op[t] = "SEND" /\ crossed[t]

Spinning(t) == pc[t] \in {"search", "list"}

(* Every CPU spins on searchLock behind a thread that holds it, asleep,    *)
(* and waits for one of those CPUs: the calls hang for ever.               *)
Starved ==
  /\ \E t \in Threads : pc[t] = "asleep"
  /\ Len(queue) = CPUs
  /\ wlocked \/ (op[Head(queue)] = "CREATE" /\ readers > 0)

(* A call that spins gets its lock, in any mix of sections and nested      *)
(* inserts; only a sleep inside searchLock (help.c:68, TAG_Messaging.c:413 *)
(* and rcu-list.c:75 allocate with GFP_KERNEL there) can starve it.        *)
SpinsEnd == \A t \in Threads : Spinning(t) ~> ~Spinning(t) \/ Starved

=============================================================================
