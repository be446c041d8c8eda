------------------------------ MODULE LevelWait ------------------------------
(***************************************************************************)
(* How the readers of a TAG service wait for a message and are called:     *)
(* rcu_list_search up to line 58 (ready[], waiters[], readerQueue[]), the  *)
(* end of tag_send, and the loop of tag_ctl AWAKE_ALL.                     *)
(*                                                                         *)
(* The list is its content here: the message of each level, replaced and   *)
(* looked up in one step (module RcuList has the steps inside).  The       *)
(* kernel's wait_event_interruptible and wake_up_all are external.         *)
(***************************************************************************)
EXTENDS Integers, FiniteSets

CONSTANTS
  Receivers, Senders, Awakers,  \* threads in tag_receive, tag_send, AWAKE_ALL
  levelDeep,
  MaxSends, MaxAwakes, MaxSignals  \* bounds on the calls and the signals

Level == 0 .. levelDeep - 1

ASSUME WaitAssumption ==
  /\ levelDeep \in Nat \ {0}
  /\ IsFiniteSet(Receivers)
  /\ {MaxSends, MaxAwakes, MaxSignals} \subseteq Nat
  /\ Senders \cap Awakers = {}

VARIABLES
  ready, waiters,  \* l->ready[], l->waiters[]
  queue,           \* l->readerQueue[]: the receivers with an entry on it
  content,         \* the message each level's element carries
  rpc, rlev, reg,  \* a receiver's control, level, and register of += and -=
  result,          \* what its last tag_receive returned
  sig,             \* receivers with a signal pending
  spc, slev,       \* a sender's or awaker's control and level
  sent, awoken, signalled,  \* counters of the bounds; `sent` numbers messages
  smsg,            \* history: the message a sender carries, 0 for an awaker
  calledWith,      \* history: the messages of those who set ready[] since
                   \*   the receiver reset it
  called, wiped,   \* history: receivers woken up in this call; those of them
                   \*   for whom a later reader has reset ready[] since
  raced            \* history: levels on which two += or -= overlapped

receiverVars == <<rpc, rlev, reg, result>>
senderVars   == <<spc, slev, smsg>>
bounds       == <<sent, awoken, signalled>>
callHistory  == <<calledWith, called, wiped>>
vars == <<ready, waiters, queue, content, receiverVars, sig, senderVars,
          bounds, callHistory, raced>>

\* A message is its number; 0 is the "" that new_TAG_Service inserts.
Message == 0 .. MaxSends

ReceiverPCs == {"idle", "reset", "inc", "inc2",
                "test", "prepare", "check", "asleep", "last",
                "find", "dec", "dec2", "intr", "intr2"}
SenderPCs == {"idle", "active", "set", "wake"}

\* What tag_receive returns, as its comment names the outcomes.
Result == [code : {"none", "EUCLEAN"}] \cup [code : {"size"}, msg : Message]

Init ==
  /\ ready = [l \in Level |-> 0]
  /\ waiters = [l \in Level |-> 0]
  /\ queue = [l \in Level |-> {}]
  /\ content = [l \in Level |-> 0]
  /\ rpc = [r \in Receivers |-> "idle"]
  /\ rlev = [r \in Receivers |-> 0]
  /\ reg = [r \in Receivers |-> 0]
  /\ result = [r \in Receivers |-> [code |-> "none"]]
  /\ sig = {}
  /\ spc = [s \in Senders \cup Awakers |-> "idle"]
  /\ slev = [s \in Senders \cup Awakers |-> 0]
  /\ smsg = [s \in Senders \cup Awakers |-> 0]
  /\ sent = 0 /\ awoken = 0 /\ signalled = 0
  /\ calledWith = [r \in Receivers |-> {}]
  /\ called = {}
  /\ wiped = {}
  /\ raced = {}

-----------------------------------------------------------------------------
(* tag_receive: the receiver's side *)

ReceiveBegin(r, l) ==
  /\ rpc[r] = "idle"
  /\ rpc' = [rpc EXCEPT ![r] = "reset"]
  /\ rlev' = [rlev EXCEPT ![r] = l]
  /\ result' = [result EXCEPT ![r] = [code |-> "none"]]
  /\ UNCHANGED <<ready, waiters, queue, content, reg, sig, senderVars, bounds,
                 callHistory, raced>>

\* The receivers for whom a reset of ready[l] undoes a call: they were woken
\* up, or are about to be by a wake_up_all that follows its own store.
InCall(r) == rpc[r] \notin {"idle", "reset", "find", "dec", "dec2"}
WakePending(l) == \E s \in Senders \cup Awakers : spc[s] = "wake" /\ slev[s] = l
Undone(r, l) ==
  {q \in Receivers : /\ q = r \/ (InCall(q) /\ rlev[q] = l)
                     /\ q \in called \/ WakePending(l)}

\* `l->ready[key] = 0`: of this reader, and of every other one.
ClearedReady(l) == [ready EXCEPT ![l] = 0]

ResetReady(r) ==
  /\ rpc[r] = "reset"
  /\ ready' = ClearedReady(rlev[r])
  /\ rpc' = [rpc EXCEPT ![r] = "inc"]
  /\ wiped' = wiped \cup Undone(r, rlev[r])
  /\ UNCHANGED <<waiters, queue, content, rlev, reg, result, sig, senderVars,
                 bounds, calledWith, called, raced>>

\* The load and the store of `waiters[key] += 1` and `-= 1`.
InUpdate(r) == rpc[r] \in {"inc2", "dec2", "intr2"}

Load(r, from, to) ==
  /\ rpc[r] = from
  /\ reg' = [reg EXCEPT ![r] = waiters[rlev[r]]]
  /\ rpc' = [rpc EXCEPT ![r] = to]
  /\ raced' = IF \E q \in Receivers \ {r} : InUpdate(q) /\ rlev[q] = rlev[r]
              THEN raced \cup {rlev[r]} ELSE raced
  /\ UNCHANGED <<ready, waiters, queue, content, rlev, result, sig, senderVars,
                 bounds, callHistory>>

Store(r, n) == /\ waiters' = [waiters EXCEPT ![rlev[r]] = reg[r] + n]
               /\ reg' = [reg EXCEPT ![r] = 0]

WaitersLoad(r) == Load(r, "inc", "inc2")

WaitersAdd(r) ==
  /\ rpc[r] = "inc2"
  /\ Store(r, 1)
  /\ rpc' = [rpc EXCEPT ![r] = "test"]
  /\ UNCHANGED <<ready, queue, content, rlev, result, sig, senderVars, bounds,
                 callHistory, raced>>

(* wait_event_interruptible.  The condition is tried once without the      *)
(* queue; then each turn of the loop puts the receiver on the queue, tries *)
(* the condition again and sleeps.                                         *)
Condition(r) == ready[rlev[r]] = 1

TestReady(r) ==
  /\ rpc[r] = "test"
  /\ rpc' = [rpc EXCEPT ![r] = IF Condition(r) THEN "find" ELSE "prepare"]
  /\ UNCHANGED <<ready, waiters, queue, content, rlev, reg, result, sig,
                 senderVars, bounds, callHistory, raced>>

\* prepare_to_wait_event: a pending signal takes the entry off the queue.
PrepareToWait(r) ==
  /\ rpc[r] = "prepare"
  /\ \/ /\ r \in sig
        /\ queue' = [queue EXCEPT ![rlev[r]] = @ \ {r}]
        /\ rpc' = [rpc EXCEPT ![r] = "last"]
     \/ /\ r \notin sig
        /\ queue' = [queue EXCEPT ![rlev[r]] = @ \cup {r}]
        /\ rpc' = [rpc EXCEPT ![r] = "check"]
  /\ UNCHANGED <<ready, waiters, content, rlev, reg, result, sig, senderVars,
                 bounds, callHistory, raced>>

CheckReady(r) ==
  /\ rpc[r] = "check"
  /\ \/ /\ Condition(r)
        /\ queue' = [queue EXCEPT ![rlev[r]] = @ \ {r}]
        /\ rpc' = [rpc EXCEPT ![r] = "find"]
     \/ /\ ~Condition(r)
        /\ rpc' = [rpc EXCEPT ![r] = "asleep"]
        /\ UNCHANGED queue
  /\ UNCHANGED <<ready, waiters, content, rlev, reg, result, sig, senderVars,
                 bounds, callHistory, raced>>

\* schedule() returns: a waker took the entry off the queue, or a signal.
CanResume(r) == r \notin queue[rlev[r]] \/ r \in sig

Resume(r) ==
  /\ rpc[r] = "asleep"
  /\ CanResume(r)
  /\ rpc' = [rpc EXCEPT ![r] = "prepare"]
  /\ UNCHANGED <<ready, waiters, queue, content, rlev, reg, result, sig,
                 senderVars, bounds, callHistory, raced>>

\* With a signal pending, the condition still has the last word.
LastCheck(r) ==
  /\ rpc[r] = "last"
  /\ rpc' = [rpc EXCEPT ![r] = IF Condition(r) THEN "find" ELSE "intr"]
  /\ UNCHANGED <<ready, waiters, queue, content, rlev, reg, result, sig,
                 senderVars, bounds, callHistory, raced>>

\* The call returns to user mode, where a pending signal is handled.
Return(r, res) ==
  /\ result' = [result EXCEPT ![r] = res]
  /\ rpc' = [rpc EXCEPT ![r] = "idle"]
  /\ sig' = sig \ {r}
  /\ rlev' = [rlev EXCEPT ![r] = 0]
  /\ calledWith' = [calledWith EXCEPT ![r] = {}]
  /\ called' = called \ {r}
  /\ wiped' = wiped \ {r}

InterruptedLoad(r) == Load(r, "intr", "intr2")

\* -ERESTARTSYS: rcu_list_search returns NULL, tag_receive -EUCLEAN.
InterruptedReturn(r) ==
  /\ rpc[r] = "intr2"
  /\ Store(r, -1)
  /\ Return(r, [code |-> "EUCLEAN"])
  /\ UNCHANGED <<ready, queue, content, senderVars, bounds, raced>>

\* The traversal: the message the level has now.
FindMessage(r) ==
  /\ rpc[r] = "find"
  /\ result' = [result EXCEPT ![r] = [code |-> "size",
                                      msg |-> content[rlev[r]]]]
  /\ rpc' = [rpc EXCEPT ![r] = "dec"]
  /\ UNCHANGED <<ready, waiters, queue, content, rlev, reg, sig, senderVars,
                 bounds, callHistory, raced>>

FoundLoad(r) == Load(r, "dec", "dec2")

\* What the store of `waiters[key] -= 1` takes off after the traversal.
FoundDelta_Forgotten == 0
FoundDelta == -1

FoundReturn(r) ==
  /\ rpc[r] = "dec2"
  /\ Store(r, FoundDelta)
  /\ Return(r, result[r])
  /\ UNCHANGED <<ready, queue, content, senderVars, bounds, raced>>

\* A signal for a thread that is in the call.
Signal(r) ==
  /\ signalled < MaxSignals
  /\ rpc[r] # "idle" /\ r \notin sig
  /\ sig' = sig \cup {r}
  /\ signalled' = signalled + 1
  /\ UNCHANGED <<ready, waiters, queue, content, receiverVars, senderVars,
                 sent, awoken, callHistory, raced>>

-----------------------------------------------------------------------------
(* tag_send, from list_replace on *)

\* What the levels hold once list_replace has returned.
Stored_Forgotten(l, m) == content
Stored(l, m) == [content EXCEPT ![l] = m]

Replace(s, l) ==
  /\ spc[s] = "idle"
  /\ sent < MaxSends
  /\ sent' = sent + 1
  /\ content' = Stored(l, sent')
  /\ smsg' = [smsg EXCEPT ![s] = sent']
  /\ slev' = [slev EXCEPT ![s] = l]
  /\ spc' = [spc EXCEPT ![s] = "active"]
  /\ UNCHANGED <<ready, waiters, queue, receiverVars, sig, awoken, signalled,
                 callHistory, raced>>

EndSend(s) == /\ spc' = [spc EXCEPT ![s] = "idle"]
              /\ slev' = [slev EXCEPT ![s] = 0]
              /\ smsg' = [smsg EXCEPT ![s] = 0]

\* `waitqueue_active(&readerQueue[level])`.
HasSleepers_Others(s) == Cardinality(queue[slev[s]]) > 1
HasSleepers(s) == queue[slev[s]] # {}

WaitqueueActive(s) ==
  /\ spc[s] = "active"
  /\ \/ ~HasSleepers(s) /\ EndSend(s)
     \/ /\ HasSleepers(s)
        /\ spc' = [spc EXCEPT ![s] = "set"]
        /\ UNCHANGED <<slev, smsg>>
  /\ UNCHANGED <<ready, waiters, queue, content, receiverVars, sig, bounds,
                 callHistory, raced>>

\* wake_up_all follows the store, in tag_send and in AWAKE_ALL.
AfterSet_NoWake == "idle"
AfterSet == "wake"

\* `ready[level] = 1`.
MadeReady_Forgotten(l) == ready
MadeReady(l) == [ready EXCEPT ![l] = 1]

MarkReady(s) ==
  /\ ready' = MadeReady(slev[s])
  /\ calledWith' = [r \in Receivers |-> IF InCall(r) /\ rlev[r] = slev[s]
                                        THEN calledWith[r] \cup {smsg[s]}
                                        ELSE calledWith[r]]

SetReady(s) ==
  /\ spc[s] = "set"
  /\ MarkReady(s)
  /\ spc' = [spc EXCEPT ![s] = AfterSet]
  /\ UNCHANGED <<waiters, queue, content, receiverVars, sig, slev, smsg,
                 bounds, called, wiped, raced>>

\* wake_up_all: autoremove_wake_function takes every entry off the queue.
WakeQueue(l) ==
  /\ queue' = [queue EXCEPT ![l] = {}]
  /\ called' = called \cup queue[l]

SendWake(s) ==
  /\ s \in Senders
  /\ spc[s] = "wake"
  /\ WakeQueue(slev[s])
  /\ EndSend(s)
  /\ UNCHANGED <<ready, waiters, content, receiverVars, sig, bounds, calledWith,
                 wiped, raced>>

-----------------------------------------------------------------------------
(* tag_ctl AWAKE_ALL: both stores for each level, from 0 up *)

AwakeBegin(s) ==
  /\ spc[s] = "idle"
  /\ awoken < MaxAwakes
  /\ awoken' = awoken + 1
  /\ spc' = [spc EXCEPT ![s] = "set"]
  /\ slev' = [slev EXCEPT ![s] = 0]
  /\ UNCHANGED <<ready, waiters, queue, content, receiverVars, sig, smsg, sent,
                 signalled, callHistory, raced>>

\* The exit test of the loop over the levels.
LastLevel_Early(l) == l >= levelDeep - 2
LastLevel_PastEnd(l) == l = levelDeep
LastLevel(l) == l = levelDeep - 1

AwakeWake(s) ==
  /\ s \in Awakers
  /\ spc[s] = "wake"
  /\ WakeQueue(slev[s])
  /\ \/ /\ LastLevel(slev[s])
        /\ spc' = [spc EXCEPT ![s] = "idle"]
        /\ slev' = [slev EXCEPT ![s] = 0]
     \/ /\ ~LastLevel(slev[s])
        /\ spc' = [spc EXCEPT ![s] = "set"]
        /\ slev' = [slev EXCEPT ![s] = @ + 1]
  /\ UNCHANGED <<ready, waiters, content, receiverVars, sig, smsg, bounds,
                 calledWith, wiped, raced>>

-----------------------------------------------------------------------------
ReceiveStep(r) ==
  \/ ResetReady(r) \/ WaitersLoad(r) \/ WaitersAdd(r)
  \/ TestReady(r) \/ PrepareToWait(r) \/ CheckReady(r) \/ Resume(r)
  \/ LastCheck(r) \/ InterruptedLoad(r) \/ InterruptedReturn(r)
  \/ FindMessage(r) \/ FoundLoad(r) \/ FoundReturn(r)

CallerStep(s) ==
  WaitqueueActive(s) \/ SetReady(s) \/ SendWake(s) \/ AwakeWake(s)

Next ==
  \/ \E r \in Receivers, l \in Level : ReceiveBegin(r, l)
  \/ \E r \in Receivers : ReceiveStep(r) \/ Signal(r)
  \/ \E s \in Senders, l \in Level : Replace(s, l)
  \/ \E s \in Awakers : AwakeBegin(s)
  \/ \E s \in Senders \cup Awakers : CallerStep(s)

Spec == Init /\ [][Next]_vars

(* Threads in a system call are scheduled; nothing makes a thread start a  *)
(* call or send a signal.                                                  *)
FairSpec ==
  /\ Spec
  /\ \A r \in Receivers : WF_vars(ReceiveStep(r))
  /\ \A s \in Senders \cup Awakers : WF_vars(CallerStep(s))

-----------------------------------------------------------------------------
TypeOK ==
  /\ ready \in [Level -> {0, 1}]
  /\ waiters \in [Level -> Int]
  /\ queue \in [Level -> SUBSET Receivers]
  /\ content \in [Level -> Message]
  /\ rpc \in [Receivers -> ReceiverPCs]
  /\ rlev \in [Receivers -> Level]
  /\ reg \in [Receivers -> Int]
  /\ \A r \in Receivers : result[r] \in Result
  /\ sig \subseteq Receivers
  /\ spc \in [Senders \cup Awakers -> SenderPCs]
  /\ slev \in [Senders \cup Awakers -> Level]
  /\ smsg \in [Senders \cup Awakers -> Message]
  /\ sent \in Message /\ awoken \in 0 .. MaxAwakes
  /\ signalled \in 0 .. MaxSignals
  /\ calledWith \in [Receivers -> SUBSET Message]
  /\ called \subseteq Receivers
  /\ wiped \subseteq Receivers
  /\ raced \subseteq Level

(* wait_event_interruptible (40) with the store before the wake_up_all     *)
(* (255-256, 372-373): a reader does not stay asleep on a level that is    *)
(* ready unless the wake_up_all for it is still to come.                   *)
NoMissedWake ==
  \A r \in Receivers :
    LET l == rlev[r] IN
      rpc[r] = "asleep" /\ r \in queue[l] /\ ready[l] = 1 => WakePending(l)

(* Line 38 makes the test of line 40 about this call, and list_replace     *)
(* (236) is before the store (255) and the traversal after the wait (48):  *)
(* a reader leaves only if it was called after its own reset, and with the *)
(* message it was called for, or a later one of its level.                 *)
CalledReaderGetsMessage ==
  \A r \in Receivers :
    /\ rpc[r] \in {"find", "dec", "dec2"} => calledWith[r] # {}
    /\ rpc[r] \in {"dec", "dec2"} =>
         \A m \in calledWith[r] : result[r].msg >= m

(* A reader that was woken up goes back to sleep only because a later      *)
(* reader of its level reset ready[] (38) before it had looked.            *)
RelapseOnlyAfterReset ==
  \A r \in called :
    rpc[r] = "asleep" /\ r \in queue[rlev[r]] => r \in wiped

\* The readers between the store of line 39 and the one of line 43 or 57.
Counted(l) == {r \in Receivers : rlev[r] = l /\ rpc[r] \notin
                 {"idle", "reset", "inc", "inc2"}}

(* waiters[] (39, 43, 57), printed by the char device, drifts only when    *)
(* two of its plain += and -= overlapped on the level.                     *)
WaitersDriftOnlyByRace ==
  \A l \in Level \ raced : waiters[l] = Cardinality(Counted(l))

(* A reader that was woken up returns, unless a later reader undid the     *)
(* call (38).                                                              *)
CalledReturns ==
  \A r \in Receivers : r \in called ~> (rpc[r] = "idle" \/ r \in wiped)

(* AWAKE_ALL gets to the readers asleep on every level of the service.     *)
AwakeReachesEveryLevel ==
  \A s \in Awakers, r \in Receivers :
    (spc[s] = "set" /\ slev[s] = 0 /\ rpc[r] = "asleep")
      ~> (r \in called \/ rpc[r] # "asleep")

(* waitqueue_active (244) is tested without the lock of the queue: a       *)
(* sender that gives up may have missed a reader about to sleep, but every *)
(* reader already asleep on its level has been called by somebody else.    *)
SenderSkipsNoSleeper ==
  [][\A s \in Senders :
       spc[s] = "active" /\ spc'[s] = "idle"
         => \A r \in Receivers :
              rpc[r] = "asleep" /\ rlev[r] = slev[s] => r \in called]_vars

=============================================================================
