------------------------------- MODULE RcuList -------------------------------
(***************************************************************************)
(* The epoch-based list of TAG_MESSAGING/TAG_Subsystem/rcu-list.c: one     *)
(* element per level of a TAG service.  Readers (tag_receive) traverse it  *)
(* without a lock, registered in standing[] for the epoch they sampled;    *)
(* writers (tag_send) replace the element of a level under write_lock,     *)
(* flip the epoch, wait for the standing readers of the epoch that ended   *)
(* and then kfree the element they unlinked.                               *)
(*                                                                         *)
(* One action per access to shared memory.  wait_event_interruptible is    *)
(* here an external call that may return at any moment, normally or with   *)
(* -ERESTARTSYS; module LevelWait says when it returns.                    *)
(***************************************************************************)
EXTENDS Integers, FiniteSets

CONSTANTS
  Readers,       \* threads that call rcu_list_search
  Writers,       \* threads that call rcu_list_replace or rcu_list_remove
  Addr,          \* addresses kmalloc can return for an element
  NULL,
  levelDeep,     \* levels of a service (32 in TAG_MACROS.h)
  SearchKeys,    \* levels the readers ask for
  ReplaceKeys,   \* keys the writers pass to rcu_list_replace
  RemoveKeys,    \* keys the writers pass to rcu_list_remove
  SpinOutcomes,  \* what the compiler may make of the busy-wait loops
  NoMemoryLevels, \* levels whose insert may get no memory
  MaxInterrupts  \* bound on the waits a signal ends

Level == 0 .. levelDeep - 1

ASSUME ListAssumption ==
  /\ levelDeep \in Nat \ {0}
  /\ IsFiniteSet(Readers)
  /\ NULL \notin Addr \cup Writers
  /\ SearchKeys \subseteq Level /\ NoMemoryLevels \subseteq Level
  /\ ReplaceKeys \subseteq Int
  /\ RemoveKeys \subseteq Int
  /\ SpinOutcomes \subseteq {"reread", "hoisted"}
  /\ MaxInterrupts \in Nat

VARIABLES
  head, nxt, lvl,  \* l->head and the fields next, level of each element
  alloc,           \* addresses that hold an element (kmalloc'd, not kfree'd)
  epoch, standing, \* l->epoch, l->standing[2]
  wlock,           \* holder of l->write_lock, NULL when it is free
  built,           \* calls of rcu_list_insert so far, one per level
  rpc, rkey, myEpoch, rp,                         \* locals of a search
  wpc, wkey, wnew, welem, removed, graceEpoch,    \* locals of a writer
  interrupted,     \* history: searches of each epoch that a signal ended
  late,            \* history: readers registered for an epoch already over
  strayed          \* history: readers whose element was freed under them

heap   == <<head, nxt, lvl, alloc>>
readerVars == <<rpc, rkey, myEpoch, rp>>
writerVars == <<wpc, wkey, wnew, welem, removed, graceEpoch>>
history == <<interrupted, late, strayed>>
vars   == <<heap, epoch, standing, wlock, built, readerVars, writerVars,
            history>>

Epochs == {0, 1}
Flipped_NoModulo(e) == e + 1
Flipped(e) == (e + 1) % 2
Ptr == Addr \cup {NULL}

ReaderPCs == {"idle", "wait", "head", "visit", "exit", "use"}
WriterPCs == {"idle", "lock", "scan", "search", "fix",
              "rlock", "rscan", "rsearch", "drain",
              "flip", "grace", "hung", "free"}

\* The service is visible to other threads once every level is inserted.
Published == built = levelDeep

-----------------------------------------------------------------------------
(* rcu_list_init *)
Init ==
  /\ head = NULL
  /\ nxt = [a \in Addr |-> NULL]
  /\ lvl = [a \in Addr |-> 0]
  /\ alloc = {}
  /\ epoch = 0
  /\ standing = [e \in Epochs |-> 0]
  /\ wlock = NULL
  /\ built = 0
  /\ rpc = [r \in Readers |-> "idle"]
  /\ rkey = [r \in Readers |-> 0]
  /\ myEpoch = [r \in Readers |-> 0]
  /\ rp = [r \in Readers |-> NULL]
  /\ wpc = [w \in Writers |-> "idle"]
  /\ wkey = [w \in Writers |-> 0]
  /\ wnew = [w \in Writers |-> NULL]
  /\ welem = [w \in Writers |-> NULL]
  /\ removed = [w \in Writers |-> NULL]
  /\ graceEpoch = [w \in Writers |-> 0]
  /\ interrupted = [e \in Epochs |-> 0]
  /\ late = {}
  /\ strayed = {}

\* The exit test of `while(l->standing[e] > 0);`.
NoStanding_OneLeft(e) == ~(standing[e] > 1)
NoStanding(e) == ~(standing[e] > 0)

(* rcu_list_insert, called for j = 0 .. levelDeep - 1 by new_TAG_Service   *)
(* before any other thread can reach the list, so one step per call.       *)
Insert ==
  /\ ~Published
  /\ NoStanding(epoch)
  /\ \E a \in Addr \ alloc :
       /\ alloc' = alloc \cup {a}
       /\ lvl' = [lvl EXCEPT ![a] = built]
       /\ nxt' = [nxt EXCEPT ![a] = head]
       /\ head' = a
  /\ epoch' = Flipped(epoch)
  /\ built' = built + 1
  /\ UNCHANGED <<standing, wlock, readerVars, writerVars, history>>

\* `if(!p) return 0;`: nobody looks at the result and the service is
\* published without the level.
InsertFails ==
  /\ ~Published
  /\ built \in NoMemoryLevels
  /\ built' = built + 1
  /\ UNCHANGED <<heap, epoch, standing, wlock, readerVars, writerVars,
                 history>>

-----------------------------------------------------------------------------
(* rcu_list_search, and the use of its result by tag_receive. *)

SearchBegin(r, key) ==
  /\ Published
  /\ rpc[r] = "idle"
  /\ rpc' = [rpc EXCEPT ![r] = "wait"]
  /\ rkey' = [rkey EXCEPT ![r] = key]
  /\ myEpoch' = [myEpoch EXCEPT ![r] = epoch]
  /\ UNCHANGED <<heap, epoch, standing, wlock, built, rp, writerVars,
                 history>>

\* The search is over: its locals are gone.
EndSearch(r) ==
  /\ rpc' = [rpc EXCEPT ![r] = "idle"]
  /\ rkey' = [rkey EXCEPT ![r] = 0]
  /\ myEpoch' = [myEpoch EXCEPT ![r] = 0]
  /\ rp' = [rp EXCEPT ![r] = NULL]
  /\ late' = late \ {r}
  /\ strayed' = strayed \ {r}

\* wait_event_interruptible returned -ERESTARTSYS: standing is decremented
\* although this search never incremented it.
WaitInterrupted(r) ==
  /\ rpc[r] = "wait"
  /\ interrupted[0] + interrupted[1] < MaxInterrupts
  /\ standing' = [standing EXCEPT ![myEpoch[r]] = @ - 1]
  /\ interrupted' = [interrupted EXCEPT ![myEpoch[r]] = @ + 1]
  /\ EndSearch(r)
  /\ UNCHANGED <<heap, epoch, wlock, built, writerVars>>

\* wait_event_interruptible returned 0: register in the epoch sampled
\* before the wait.
Register(r) ==
  /\ rpc[r] = "wait"
  /\ standing' = [standing EXCEPT ![myEpoch[r]] = @ + 1]
  /\ rpc' = [rpc EXCEPT ![r] = "head"]
  /\ late' = IF myEpoch[r] = epoch THEN late ELSE late \cup {r}
  /\ UNCHANGED <<heap, epoch, wlock, built, rkey, myEpoch, rp, writerVars,
                 interrupted, strayed>>

ReadHead(r) ==
  /\ rpc[r] = "head"
  /\ rp' = [rp EXCEPT ![r] = head]
  /\ rpc' = [rpc EXCEPT ![r] = IF head = NULL THEN "exit" ELSE "visit"]
  /\ UNCHANGED <<heap, epoch, standing, wlock, built, rkey, myEpoch,
                 writerVars, history>>

\* Where an iteration of the traversal leaves the reader: on `p->next`, out
\* of the loop when there is none, and astray when that element was freed.
MoveTo(r, p) ==
  /\ rp' = [rp EXCEPT ![r] = p]
  /\ rpc' = [rpc EXCEPT ![r] = IF p = NULL THEN "exit" ELSE "visit"]
  /\ strayed' = IF p \in Addr \ alloc THEN strayed \cup {r} ELSE strayed

StopAtElement(r) ==
  /\ rpc' = [rpc EXCEPT ![r] = "exit"]
  /\ UNCHANGED <<rp, strayed>>

\* One iteration.  On freed memory it reads any level and any next.
VisitElement(r) ==
  /\ r \notin strayed
  /\ IF lvl[rp[r]] = rkey[r] THEN StopAtElement(r) ELSE MoveTo(r, nxt[rp[r]])

VisitFreed(r) ==
  /\ r \in strayed
  /\ StopAtElement(r) \/ \E p \in Ptr : MoveTo(r, p)

Visit(r) ==
  /\ rpc[r] = "visit"
  /\ VisitElement(r) \/ VisitFreed(r)
  /\ UNCHANGED <<heap, epoch, standing, wlock, built, rkey, myEpoch,
                 writerVars, interrupted, late>>

\* What a search that ends takes off standing[my_epoch].
Deregistered_Current(r) == [standing EXCEPT ![epoch] = @ - 1]
Deregistered_Never(r) == standing
Deregistered(r) == [standing EXCEPT ![myEpoch[r]] = @ - 1]

Deregister(r) ==
  /\ rpc[r] = "exit"
  /\ standing' = Deregistered(r)
  /\ IF rp[r] = NULL THEN EndSearch(r)
     ELSE /\ rpc' = [rpc EXCEPT ![r] = "use"]
          /\ UNCHANGED <<rkey, myEpoch, rp, late, strayed>>
  /\ UNCHANGED <<heap, epoch, wlock, built, writerVars, interrupted>>

\* tag_receive reads e->size and e->message after the search returned.
UseElement(r) ==
  /\ rpc[r] = "use"
  /\ EndSearch(r)
  /\ UNCHANGED <<heap, epoch, standing, wlock, built, writerVars, interrupted>>

-----------------------------------------------------------------------------
(* rcu_list_replace *)

ReplaceBegin(w, key) ==
  /\ Published
  /\ wpc[w] = "idle"
  /\ \E a \in Addr \ alloc :
       /\ alloc' = alloc \cup {a}
       /\ lvl' = [lvl EXCEPT ![a] = key]
       /\ nxt' = [nxt EXCEPT ![a] = NULL]
       /\ wnew' = [wnew EXCEPT ![w] = a]
  /\ wkey' = [wkey EXCEPT ![w] = key]
  /\ wpc' = [wpc EXCEPT ![w] = "lock"]
  /\ UNCHANGED <<head, epoch, standing, wlock, built, readerVars, welem,
                 removed, graceEpoch, history>>

\* The condition under which write_lock_irqsave returns.
LockAvailable_Always(w) == TRUE
LockAvailable(w) == wlock = NULL

WriteLock(w, from, to) ==
  /\ wpc[w] = from
  /\ LockAvailable(w)
  /\ wlock' = w
  /\ wpc' = [wpc EXCEPT ![w] = to]
  /\ UNCHANGED <<heap, epoch, standing, built, readerVars, wkey, wnew, welem,
                 removed, graceEpoch, history>>

ReplaceLock(w) == WriteLock(w, "lock", "scan")

\* The call is over: its locals are gone.
EndCall(w) ==
  /\ wpc' = [wpc EXCEPT ![w] = "idle"]
  /\ wkey' = [wkey EXCEPT ![w] = 0]
  /\ wnew' = [wnew EXCEPT ![w] = NULL]
  /\ welem' = [welem EXCEPT ![w] = NULL]
  /\ removed' = [removed EXCEPT ![w] = NULL]
  /\ graceEpoch' = [graceEpoch EXCEPT ![w] = 0]

\* `return 0` before write_unlock_irqrestore: the lock stays taken and the
\* new element is lost.
ReturnLocked(w) == EndCall(w) /\ UNCHANGED heap

ReplaceHead(w) ==
  /\ head # NULL /\ lvl[head] = wkey[w]
  /\ removed' = [removed EXCEPT ![w] = head]
  /\ nxt' = [nxt EXCEPT ![wnew[w]] = nxt[head]]
  /\ head' = wnew[w]
  /\ wpc' = [wpc EXCEPT ![w] = "flip"]
  /\ UNCHANGED <<lvl, alloc, wkey, wnew, welem, graceEpoch>>

ReplaceScan(w) ==
  /\ wpc[w] = "scan"
  /\ \/ head = NULL /\ ReturnLocked(w)
     \/ ReplaceHead(w)
     \/ /\ head # NULL /\ lvl[head] # wkey[w]
        /\ welem' = [welem EXCEPT ![w] = head]
        /\ wpc' = [wpc EXCEPT ![w] = "search"]
        /\ UNCHANGED <<heap, wkey, wnew, removed, graceEpoch>>
  /\ UNCHANGED <<epoch, standing, wlock, built, readerVars, history>>

\* The predecessor is found: it is made to point to the new element, whose
\* own next is still NULL.
LinkAfter(w, elem) ==
  /\ nxt[elem] # NULL /\ lvl[nxt[elem]] = wkey[w]
  /\ removed' = [removed EXCEPT ![w] = nxt[elem]]
  /\ nxt' = [nxt EXCEPT ![elem] = wnew[w]]
  /\ wpc' = [wpc EXCEPT ![w] = "fix"]
  /\ UNCHANGED <<head, lvl, alloc, wkey, wnew, welem, graceEpoch>>

ReplaceSearch(w) ==
  /\ wpc[w] = "search"
  /\ LET elem == welem[w] IN
       \/ LinkAfter(w, elem)
       \/ /\ nxt[elem] # NULL /\ lvl[nxt[elem]] # wkey[w]
          /\ welem' = [welem EXCEPT ![w] = nxt[elem]]
          /\ UNCHANGED <<heap, wpc, wkey, wnew, removed, graceEpoch>>
       \/ nxt[elem] = NULL /\ ReturnLocked(w)
  /\ UNCHANGED <<epoch, standing, wlock, built, readerVars, history>>

\* new_element->next once `new_element->next = removed->next` is executed.
RelinkedNext_Forgotten(w) == nxt[wnew[w]]
RelinkedNext_Removed(w) == removed[w]
RelinkedNext(w) == nxt[removed[w]]

ReplaceFix(w) ==
  /\ wpc[w] = "fix"
  /\ nxt' = [nxt EXCEPT ![wnew[w]] = RelinkedNext(w)]
  /\ wpc' = [wpc EXCEPT ![w] = "flip"]
  /\ UNCHANGED <<head, lvl, alloc, epoch, standing, wlock, built, readerVars,
                 wkey, wnew, welem, removed, graceEpoch, history>>

-----------------------------------------------------------------------------
(* rcu_list_remove *)

RemoveBegin(w, key) ==
  /\ Published
  /\ wpc[w] = "idle"
  /\ wkey' = [wkey EXCEPT ![w] = key]
  /\ wpc' = [wpc EXCEPT ![w] = "rlock"]
  /\ UNCHANGED <<heap, epoch, standing, wlock, built, readerVars, wnew, welem,
                 removed, graceEpoch, history>>

RemoveLock(w) == WriteLock(w, "rlock", "rscan")

RemoveScan(w) ==
  /\ wpc[w] = "rscan"
  /\ \/ /\ head # NULL /\ lvl[head] = wkey[w]
        /\ removed' = [removed EXCEPT ![w] = head]
        /\ head' = nxt[head]
        /\ wpc' = [wpc EXCEPT ![w] = "drain"]
        /\ UNCHANGED <<nxt, welem>>
     \/ /\ head # NULL /\ lvl[head] # wkey[w]
        /\ welem' = [welem EXCEPT ![w] = head]
        /\ wpc' = [wpc EXCEPT ![w] = "rsearch"]
        /\ UNCHANGED <<head, nxt, removed>>
     \/ /\ head = NULL
        /\ wpc' = [wpc EXCEPT ![w] = "drain"]
        /\ UNCHANGED <<head, nxt, welem, removed>>
  /\ UNCHANGED <<lvl, alloc, epoch, standing, wlock, built, readerVars, wkey,
                 wnew, graceEpoch, history>>

RemoveSearch(w) ==
  /\ wpc[w] = "rsearch"
  /\ LET elem == welem[w] IN
       \/ /\ nxt[elem] # NULL /\ lvl[nxt[elem]] = wkey[w]
          /\ removed' = [removed EXCEPT ![w] = nxt[elem]]
          /\ nxt' = [nxt EXCEPT ![elem] = nxt[nxt[elem]]]
          /\ wpc' = [wpc EXCEPT ![w] = "drain"]
          /\ UNCHANGED welem
       \/ /\ nxt[elem] # NULL /\ lvl[nxt[elem]] # wkey[w]
          /\ welem' = [welem EXCEPT ![w] = nxt[elem]]
          /\ UNCHANGED <<nxt, wpc, removed>>
       \/ /\ nxt[elem] = NULL
          /\ wpc' = [wpc EXCEPT ![w] = "drain"]
          /\ UNCHANGED <<nxt, welem, removed>>
  /\ UNCHANGED <<head, lvl, alloc, epoch, standing, wlock, built, readerVars,
                 wkey, wnew, graceEpoch, history>>

\* `while(l->standing[temp] > 0);` before the epoch moves.
RemoveDrain(w) ==
  /\ wpc[w] = "drain"
  /\ NoStanding(Flipped(epoch))
  /\ wpc' = [wpc EXCEPT ![w] = "flip"]
  /\ UNCHANGED <<heap, epoch, standing, wlock, built, readerVars, wkey, wnew,
                 welem, removed, graceEpoch, history>>

-----------------------------------------------------------------------------
(* The grace period, common to replace and remove. *)

FlipEpoch(w) ==
  /\ wpc[w] = "flip"
  /\ graceEpoch' = [graceEpoch EXCEPT ![w] = epoch]
  /\ epoch' = Flipped(epoch)
  /\ wpc' = [wpc EXCEPT ![w] = "grace"]
  /\ UNCHANGED <<heap, standing, wlock, built, readerVars, wkey, wnew, welem,
                 removed, history>>

\* The lock is released first; the element unlinked, if any, is freed next.
GraceEnd(w) ==
  /\ wpc[w] = "grace"
  /\ NoStanding(graceEpoch[w])
  /\ wlock' = NULL
  /\ \/ removed[w] = NULL /\ EndCall(w)
     \/ /\ removed[w] # NULL
        /\ wpc' = [wpc EXCEPT ![w] = "free"]
        /\ UNCHANGED <<wkey, wnew, welem, removed, graceEpoch>>
  /\ UNCHANGED <<heap, epoch, standing, built, readerVars, history>>

\* standing[] is not volatile: compiled as one load before the loop (as in
\* the rcu-list.o kept in the repository), a positive value spins forever.
SpinForever(w) ==
  /\ "hoisted" \in SpinOutcomes
  /\ \/ wpc[w] = "grace" /\ ~NoStanding(graceEpoch[w])
     \/ wpc[w] = "drain" /\ ~NoStanding(Flipped(epoch))
  /\ wpc' = [wpc EXCEPT ![w] = "hung"]
  /\ UNCHANGED <<heap, epoch, standing, wlock, built, readerVars, wkey, wnew,
                 welem, removed, graceEpoch, history>>

\* Readers that still hold the address of the element being freed.
Holders(a) == {r \in Readers : rpc[r] \in {"visit", "exit", "use"} /\ rp[r] = a}

FreeRemoved(w) ==
  /\ wpc[w] = "free"
  /\ alloc' = alloc \ {removed[w]}
  /\ nxt' = [nxt EXCEPT ![removed[w]] = NULL]
  /\ lvl' = [lvl EXCEPT ![removed[w]] = 0]
  /\ strayed' = strayed \cup Holders(removed[w])
  /\ EndCall(w)
  /\ UNCHANGED <<head, epoch, standing, wlock, built, readerVars, interrupted,
                 late>>

-----------------------------------------------------------------------------
InSearch(r) == ReadHead(r) \/ Visit(r) \/ Deregister(r) \/ UseElement(r)

ReaderStep(r) ==
  \/ \E key \in SearchKeys : SearchBegin(r, key)
  \/ WaitInterrupted(r) \/ Register(r) \/ InSearch(r)

Acquire(w) == ReplaceLock(w) \/ RemoveLock(w)

UnderLock(w) ==
  \/ ReplaceScan(w) \/ ReplaceSearch(w) \/ ReplaceFix(w)
  \/ RemoveScan(w) \/ RemoveSearch(w) \/ RemoveDrain(w)
  \/ FlipEpoch(w) \/ GraceEnd(w) \/ FreeRemoved(w)

WriterStep(w) ==
  \/ \E key \in ReplaceKeys : ReplaceBegin(w, key)
  \/ \E key \in RemoveKeys : RemoveBegin(w, key)
  \/ Acquire(w) \/ UnderLock(w) \/ SpinForever(w)

Next ==
  \/ Insert \/ InsertFails
  \/ \E r \in Readers : ReaderStep(r)
  \/ \E w \in Writers : WriterStep(w)

Spec == Init /\ [][Next]_vars

(* A thread inside a traversal or a critical section keeps running; the    *)
(* queued rwlock hands the lock over in FIFO order, hence SF on Acquire.   *)
(* Nothing forces a new call, a wake-up or a signal.                       *)
Fairness ==
  /\ \A r \in Readers : WF_vars(InSearch(r))
  /\ \A w \in Writers : WF_vars(UnderLock(w)) /\ SF_vars(Acquire(w))

FairSpec == Spec /\ Fairness

-----------------------------------------------------------------------------
(* Types *)

TypeOK ==
  /\ head \in Ptr
  /\ nxt \in [Addr -> Ptr]
  /\ lvl \in [Addr -> Int]
  /\ alloc \subseteq Addr
  /\ epoch \in Epochs
  /\ standing \in [Epochs -> Int]
  /\ wlock \in Writers \cup {NULL}
  /\ built \in 0 .. levelDeep
  /\ rpc \in [Readers -> ReaderPCs]
  /\ rkey \in [Readers -> Level]
  /\ myEpoch \in [Readers -> Epochs]
  /\ rp \in [Readers -> Ptr]
  /\ wpc \in [Writers -> WriterPCs]
  /\ wkey \in [Writers -> Int]
  /\ wnew \in [Writers -> Ptr]
  /\ welem \in [Writers -> Ptr]
  /\ removed \in [Writers -> Ptr]
  /\ graceEpoch \in [Writers -> Epochs]
  /\ interrupted \in [Epochs -> Nat]
  /\ late \subseteq Readers
  /\ strayed \subseteq Readers

\* standing[] stays inside a C long as long as fewer than 2^63 calls are in
\* flight, so Int is its range here.

-----------------------------------------------------------------------------
(* Safety *)

InSection(w) == wpc[w] \in {"scan", "search", "fix", "rscan", "rsearch",
                            "drain", "flip", "grace", "hung"}

(* A writer that changes the list or the epoch (171-210, 120-148) is the   *)
(* one that holds write_lock.                                              *)
SectionHoldsLock == \A w \in Writers : InSection(w) => wlock = w

(* When the keys are levels of the service, every insert got its memory    *)
(* and none is removed, write_lock is never left taken: the returns of 176 *)
(* and 196 are not reached.                                                *)
LockNeverLeaked == wlock # NULL => InSection(wlock)

\* The searches standing[e] should count.
Registered(e) == {r \in Readers : /\ rpc[r] \in {"head", "visit", "exit"}
                                  /\ myEpoch[r] = e}

(* Lines 42, 46 and 56: standing[e] is the number of searches registered   *)
(* for e, less one for every search of e that a signal ended.              *)
StandingAccounting ==
  \A e \in Epochs : standing[e] = Cardinality(Registered(e)) - interrupted[e]

(* At every moment a search can look at it, the list of a published        *)
(* service is one element per level, the highest level first; its one gap  *)
(* is after an element that a replace has linked and not completed (188).  *)
ListIntact ==
  Published =>
    \E f \in [Level -> Addr] :
      /\ head = f[levelDeep - 1]
      /\ nxt[f[0]] = NULL
      /\ \A k \in Level :
           /\ f[k] \in alloc /\ lvl[f[k]] = k
           /\ \/ k = 0 \/ nxt[f[k]] = f[k - 1]
              \/ \E w \in Writers : wpc[w] = "fix" /\ wnew[w] = f[k]

(* The grace period (198-209) does protect a search that registered while  *)
(* the epoch it had sampled was still current, unless a signal made the    *)
(* count of that epoch too small: its element is not freed before it       *)
(* leaves the traversal.                                                   *)
OnTimeReadersProtected ==
  \A r \in strayed :
    rpc[r] \in {"visit", "exit"} => r \in late \/ interrupted[myEpoch[r]] > 0

(* A replace of a level that is not in the list - a negative one, which    *)
(* tag_send lets through, or one whose insert got no memory (77) - returns *)
(* with write_lock taken (176, 196): no later call changes the list or     *)
(* ends an epoch.                                                          *)
Leaked == wlock \in Writers /\ wpc[wlock] \in {"idle", "lock", "rlock"}
LeakedLockStopsUpdates ==
  [][Leaked => Leaked' /\ UNCHANGED <<head, epoch, wlock>>]_vars

-----------------------------------------------------------------------------
(* What the source says, against what it does *)

(* Comment of 207-208: the replace waits for every search that had not     *)
(* finished.  No element is freed under a search.                          *)
ReplaceWaitsForSearches ==
  \A r \in strayed : rpc[r] \notin {"visit", "exit"}

-----------------------------------------------------------------------------
(* Liveness *)

(* 209: the wait for the standing searches ends, so a replace that asked   *)
(* for the lock returns; unless a search was led astray (it could follow   *)
(* freed memory for ever), a return kept the lock (176, 196), or the wait  *)
(* was compiled to one load, which hangs on any search it finds.           *)
ReplaceReturns ==
  \A w \in Writers :
    wpc[w] = "lock" ~> \/ wpc[w] = "idle" \/ strayed # {} \/ Leaked
                       \/ \E u \in Writers : wpc[u] = "hung"

=============================================================================
