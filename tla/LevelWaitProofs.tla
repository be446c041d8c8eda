--------------------------- MODULE LevelWaitProofs ---------------------------
(***************************************************************************)
(* What holds of LevelWait for any number of receivers, senders, awakers   *)
(* and levels: nobody sleeps through a wake-up that is complete, a message *)
(* reaches those it was sent to, and what waiters[] counts.                *)
(***************************************************************************)
EXTENDS LevelWait, FiniteSetTheorems, TLAPS

Callers == Senders \cup Awakers

\* What a sender carries is no newer than what its level holds, and the
\* receivers it called are told nothing newer either.
MessagesInOrder ==
  /\ \A l \in Level : content[l] <= sent
  /\ \A s \in Callers : smsg[s] <= content[slev[s]]
  /\ \A s \in Awakers : smsg[s] = 0
  /\ \A r \in Receivers : \A m \in calledWith[r] : m <= content[rlev[r]]
  /\ \A r \in Receivers : rpc[r] \in {"idle", "reset"} => calledWith[r] = {}

\* The entries of a queue are those of receivers of its level.
QueuesHoldWaiters ==
  \A l \in Level : \A r \in queue[l] :
    rlev[r] = l /\ rpc[r] \in {"prepare", "check", "asleep"}

\* What a receiver that is in its wait can read from ready[] of its level.
ReadyMeansCalled ==
  \A r \in Receivers :
    InCall(r) /\ ready[rlev[r]] = 1 => calledWith[r] # {}
ResetMeansWiped ==
  \A r \in Receivers :
    InCall(r) /\ ready[rlev[r]] = 0 /\ (r \in called \/ WakePending(rlev[r]))
      => r \in wiped

\* An entry leaves its queue by a call, once the receiver is past 40's first
\* test.
SleepersQueuedOrCalled ==
  \A r \in Receivers :
    rpc[r] \in {"check", "asleep"} => r \in queue[rlev[r]] \cup called

\* On a level where no two updates overlapped there is one at a time, and
\* its load is not stale.
UpdatesApart ==
  \A l \in Level \ raced : \A r \in Receivers :
    InUpdate(r) /\ rlev[r] = l =>
      /\ reg[r] = waiters[l]
      /\ \A q \in Receivers \ {r} : ~(InUpdate(q) /\ rlev[q] = l)

WaitInv == /\ MessagesInOrder /\ QueuesHoldWaiters
           /\ ReadyMeansCalled /\ ResetMeansWiped
           /\ SleepersQueuedOrCalled /\ UpdatesApart
           /\ NoMissedWake /\ CalledReaderGetsMessage
           /\ RelapseOnlyAfterReset /\ WaitersDriftOnlyByRace

-----------------------------------------------------------------------------
(* Types *)

Sized == [code : {"size"}, msg : Message]

\* A receiver that has found its element has the message to return.
TypeInv ==
  /\ TypeOK
  /\ result \in [Receivers -> Result]
  /\ \A r \in Receivers : rpc[r] \in {"dec", "dec2"} => result[r] \in Sized

(* The levels and the messages are integers. *)
LEMMA Numbers ==
  /\ Level \subseteq Nat /\ 0 \in Level
  /\ Message \subseteq Nat /\ 0 \in Message
BY WaitAssumption DEF Level, Message

(* The state after the service is created. *)
LEMMA TypeInit == Init => TypeInv
BY Numbers, WaitAssumption
DEF Init, TypeInv, TypeOK, ReceiverPCs, SenderPCs, Result, Sized

(* A receiver whose control alone moves, not past the traversal. *)
LEMMA TypeReceiverMoves ==
  ASSUME TypeInv, NEW r \in Receivers, NEW to \in ReceiverPCs \ {"dec", "dec2"},
         rpc' = [rpc EXCEPT ![r] = to],
         UNCHANGED <<waiters, content, rlev, reg, result, sig, senderVars,
                     bounds, calledWith, called, raced>>,
         ready' \in [Level -> {0, 1}], queue' \in [Level -> SUBSET Receivers],
         wiped' \subseteq Receivers
  PROVE  TypeInv'
BY DEF TypeInv, TypeOK, senderVars, bounds

(* The load of waiters[] into the register of += or -=. *)
LEMMA TypeLoad ==
  ASSUME TypeInv, NEW r \in Receivers,
         \/ WaitersLoad(r) \/ InterruptedLoad(r) \/ FoundLoad(r)
  PROVE  TypeInv'
<1> USE DEF senderVars, bounds, callHistory
<1>1. PICK to \in ReceiverPCs :
        /\ rpc' = [rpc EXCEPT ![r] = to]
        /\ to = "dec2" => rpc[r] = "dec"
        /\ to # "dec"
  BY DEF WaitersLoad, InterruptedLoad, FoundLoad, Load, ReceiverPCs
<1>2. /\ reg' = [reg EXCEPT ![r] = waiters[rlev[r]]]
      /\ raced' \in {raced \cup {rlev[r]}, raced}
      /\ UNCHANGED <<ready, waiters, queue, content, rlev, result, sig,
                     senderVars, bounds, callHistory>>
  BY DEF WaitersLoad, InterruptedLoad, FoundLoad, Load
<1>3. reg' \in [Receivers -> Int] /\ raced' \subseteq Level
  BY <1>2 DEF TypeInv, TypeOK
<1>4. rpc' \in [Receivers -> ReceiverPCs]
  BY <1>1 DEF TypeInv, TypeOK
<1>5. \A q \in Receivers : rpc'[q] \in {"dec", "dec2"} => rpc[q] \in {"dec", "dec2"}
  BY <1>1 DEF TypeInv, TypeOK
<1> QED
  BY <1>2, <1>3, <1>4, <1>5 DEF TypeInv, TypeOK

(* The store back into waiters[]. *)
LEMMA TypeStore ==
  ASSUME TypeInv, NEW r \in Receivers, NEW n \in Int, Store(r, n)
  PROVE  waiters' \in [Level -> Int] /\ reg' \in [Receivers -> Int]
BY DEF TypeInv, TypeOK, Store

(* The returns of tag_receive. *)
LEMMA TypeReturn ==
  ASSUME TypeInv, NEW r \in Receivers, NEW res \in Result, Return(r, res)
  PROVE  /\ result' \in [Receivers -> Result]
         /\ rpc' \in [Receivers -> ReceiverPCs]
         /\ \A q \in Receivers : rpc'[q] \in {"dec", "dec2"} => result'[q] \in Sized
         /\ sig' \subseteq Receivers /\ rlev' \in [Receivers -> Level]
         /\ calledWith' \in [Receivers -> SUBSET Message]
         /\ called' \subseteq Receivers /\ wiped' \subseteq Receivers
<1>1. result' \in [Receivers -> Result]
  BY DEF TypeInv, Return
<1>2. rpc' \in [Receivers -> ReceiverPCs]
  BY DEF TypeInv, TypeOK, Return, ReceiverPCs
<1>3. \A q \in Receivers : rpc'[q] \in {"dec", "dec2"} => result'[q] \in Sized
  BY DEF TypeInv, TypeOK, Return
<1>4. rlev' \in [Receivers -> Level]
  BY Numbers DEF TypeInv, TypeOK, Return
<1>5. calledWith' \in [Receivers -> SUBSET Message]
  BY DEF TypeInv, TypeOK, Return
<1> QED
  BY <1>1, <1>2, <1>3, <1>4, <1>5 DEF TypeInv, TypeOK, Return

(* The steps of tag_receive. *)
LEMMA TypeReceive ==
  ASSUME TypeInv, NEW r \in Receivers, ReceiveStep(r)
  PROVE  TypeInv'
<1> USE DEF senderVars, bounds, callHistory
<1>1. CASE ResetReady(r)
  <2>1. ready' \in [Level -> {0, 1}]
    BY <1>1 DEF ResetReady, ClearedReady, TypeInv, TypeOK
  <2>2. queue' \in [Level -> SUBSET Receivers] /\ wiped' \subseteq Receivers
    BY <1>1 DEF ResetReady, Undone, TypeInv, TypeOK
  <2> QED
    BY <1>1, <2>1, <2>2, TypeReceiverMoves DEF ResetReady, ReceiverPCs
<1>2. CASE TestReady(r) \/ Resume(r) \/ LastCheck(r)
  BY <1>2, TypeReceiverMoves
  DEF TestReady, Resume, LastCheck, ReceiverPCs, TypeInv, TypeOK
<1>3. CASE PrepareToWait(r) \/ CheckReady(r)
  <2>1. queue' \in [Level -> SUBSET Receivers]
    BY <1>3 DEF PrepareToWait, CheckReady, TypeInv, TypeOK
  <2>2. ready' \in [Level -> {0, 1}] /\ wiped' \subseteq Receivers
    BY <1>3 DEF PrepareToWait, CheckReady, TypeInv, TypeOK
  <2> QED
    BY <1>3, <2>1, <2>2, TypeReceiverMoves
    DEF PrepareToWait, CheckReady, ReceiverPCs
<1>4. CASE WaitersLoad(r) \/ InterruptedLoad(r) \/ FoundLoad(r)
  BY <1>4, TypeLoad
<1>5. CASE WaitersAdd(r)
  <2>1. waiters' \in [Level -> Int] /\ reg' \in [Receivers -> Int]
    BY <1>5, TypeStore DEF WaitersAdd
  <2>2. rpc' = [rpc EXCEPT ![r] = "test"]
    BY <1>5 DEF WaitersAdd
  <2>3. rpc' \in [Receivers -> ReceiverPCs]
    BY <2>2 DEF TypeInv, TypeOK, ReceiverPCs
  <2> QED
    BY <1>5, <2>1, <2>2, <2>3 DEF WaitersAdd, TypeInv, TypeOK
<1>6. CASE InterruptedReturn(r)
  <2>1. waiters' \in [Level -> Int] /\ reg' \in [Receivers -> Int]
    BY <1>6, TypeStore DEF InterruptedReturn
  <2>2. [code |-> "EUCLEAN"] \in Result
    BY DEF Result
  <2> QED
    BY <1>6, <2>1, <2>2, TypeReturn DEF InterruptedReturn, TypeInv, TypeOK
<1>7. CASE FoundReturn(r)
  <2>1. waiters' \in [Level -> Int] /\ reg' \in [Receivers -> Int]
    BY <1>7, TypeStore DEF FoundReturn, FoundDelta
  <2>2. result[r] \in Result
    BY DEF TypeInv
  <2> QED
    BY <1>7, <2>1, <2>2, TypeReturn DEF FoundReturn, TypeInv, TypeOK
<1>8. CASE FindMessage(r)
  <2>1. PICK res \in Sized : result' = [result EXCEPT ![r] = res]
    BY <1>8 DEF FindMessage, Sized, TypeInv, TypeOK
  <2>2. res \in Result
    BY DEF Sized, Result
  <2>3. result' \in [Receivers -> Result]
    BY <2>1, <2>2 DEF TypeInv
  <2>4. rpc' = [rpc EXCEPT ![r] = "dec"]
    BY <1>8 DEF FindMessage
  <2>5. rpc' \in [Receivers -> ReceiverPCs]
    BY <2>4 DEF TypeInv, TypeOK, ReceiverPCs
  <2>6. \A q \in Receivers : rpc'[q] \in {"dec", "dec2"} => result'[q] \in Sized
    BY <2>1, <2>4 DEF TypeInv, TypeOK
  <2> QED
    BY <1>8, <2>3, <2>5, <2>6 DEF FindMessage, TypeInv, TypeOK
<1> QED
  BY <1>1, <1>2, <1>3, <1>4, <1>5, <1>6, <1>7, <1>8 DEF ReceiveStep

(* The steps of tag_send and AWAKE_ALL touch no receiver. *)
LEMMA TypeCallers ==
  ASSUME TypeInv, UNCHANGED <<waiters, receiverVars, sig, signalled, raced>>,
         ready' \in [Level -> {0, 1}],
         queue' \in [Level -> SUBSET Receivers],
         content' \in [Level -> Message],
         spc' \in [Callers -> SenderPCs],
         slev' \in [Callers -> Level],
         smsg' \in [Callers -> Message],
         sent' \in Message, awoken' \in 0 .. MaxAwakes,
         calledWith' \in [Receivers -> SUBSET Message],
         called' \subseteq Receivers, wiped' \subseteq Receivers
  PROVE  TypeInv'
BY DEF TypeInv, TypeOK, Callers, receiverVars

(* tag_send and AWAKE_ALL *)
LEMMA TypeCaller ==
  ASSUME TypeInv, NEW s \in Callers, CallerStep(s)
  PROVE  TypeInv'
<1> USE DEF receiverVars, senderVars, bounds, callHistory
<1>1. CASE WaitqueueActive(s)
  <2>1. spc' \in [Callers -> SenderPCs]
    BY <1>1 DEF WaitqueueActive, EndSend, TypeInv, TypeOK, SenderPCs, Callers
  <2>2. slev' \in [Callers -> Level] /\ smsg' \in [Callers -> Message]
    BY <1>1, Numbers DEF WaitqueueActive, EndSend, TypeInv, TypeOK, Callers
  <2> QED
    BY <1>1, <2>1, <2>2, TypeCallers DEF WaitqueueActive, TypeInv, TypeOK
<1>2. CASE SetReady(s)
  <2>1. ready' \in [Level -> {0, 1}]
    BY <1>2 DEF SetReady, MarkReady, MadeReady, TypeInv, TypeOK
  <2>2. spc' \in [Callers -> SenderPCs]
    BY <1>2 DEF SetReady, AfterSet, TypeInv, TypeOK, SenderPCs, Callers
  <2>3. calledWith' \in [Receivers -> SUBSET Message]
    <3>1. smsg[s] \in Message /\ calledWith \in [Receivers -> SUBSET Message]
      BY DEF TypeInv, TypeOK, Callers
    <3>2. \A r \in Receivers : calledWith[r] \cup {smsg[s]} \in SUBSET Message
      BY <3>1
    <3> QED
      BY <1>2, <3>1, <3>2 DEF SetReady, MarkReady
  <2> QED
    BY <1>2, <2>1, <2>2, <2>3, TypeCallers DEF SetReady, TypeInv, TypeOK, Callers
<1>3. ASSUME WakeQueue(slev[s])
      PROVE  queue' \in [Level -> SUBSET Receivers] /\ called' \subseteq Receivers
  BY <1>3 DEF WakeQueue, TypeInv, TypeOK, Callers
<1>4. CASE SendWake(s)
  <2>1. spc' \in [Callers -> SenderPCs]
    BY <1>4 DEF SendWake, EndSend, TypeInv, TypeOK, SenderPCs, Callers
  <2>2. slev' \in [Callers -> Level] /\ smsg' \in [Callers -> Message]
    BY <1>4, Numbers DEF SendWake, EndSend, TypeInv, TypeOK, Callers
  <2> QED
    BY <1>3, <1>4, <2>1, <2>2, TypeCallers DEF SendWake, TypeInv, TypeOK
<1>5. CASE AwakeWake(s)
  <2>1. spc' \in [Callers -> SenderPCs]
    BY <1>5 DEF AwakeWake, TypeInv, TypeOK, SenderPCs, Callers
  <2>2. slev' \in [Callers -> Level]
    <3>1. slev[s] \in Level /\ slev \in [Callers -> Level]
      BY DEF TypeInv, TypeOK, Callers
    <3>2. ~LastLevel(slev[s]) => slev[s] + 1 \in Level
      BY <3>1, WaitAssumption DEF LastLevel, Level
    <3>3. PICK l \in Level : slev' = [slev EXCEPT ![s] = l]
      BY <1>5, <3>2, Numbers DEF AwakeWake
    <3> QED
      BY <3>1, <3>3
  <2> QED
    BY <1>3, <1>5, <2>1, <2>2, TypeCallers DEF AwakeWake, TypeInv, TypeOK, Callers
<1> QED
  BY <1>1, <1>2, <1>4, <1>5 DEF CallerStep

(* Every step. *)
LEMMA TypeNext == TypeInv /\ [Next]_vars => TypeInv'
<1> SUFFICES ASSUME TypeInv, [Next]_vars PROVE TypeInv'
  OBVIOUS
<1> USE DEF receiverVars, senderVars, bounds, callHistory
<1>1. ASSUME NEW r \in Receivers, NEW l \in Level, ReceiveBegin(r, l)
      PROVE  TypeInv'
  <2>1. [code |-> "none"] \in Result
    BY DEF Result
  <2>2. result' \in [Receivers -> Result]
    <3>1. PICK res \in Result : result' = [result EXCEPT ![r] = res]
      BY <1>1, <2>1 DEF ReceiveBegin
    <3> QED
      BY <3>1 DEF TypeInv
  <2>3. rpc' = [rpc EXCEPT ![r] = "reset"] /\ rlev' = [rlev EXCEPT ![r] = l]
    BY <1>1 DEF ReceiveBegin
  <2>4. rpc' \in [Receivers -> ReceiverPCs] /\ rlev' \in [Receivers -> Level]
    BY <2>3 DEF TypeInv, TypeOK, ReceiverPCs
  <2>5. ASSUME NEW q \in Receivers, rpc'[q] \in {"dec", "dec2"}
        PROVE  result'[q] \in Sized
    <3>1. q # r /\ rpc[q] \in {"dec", "dec2"}
      BY <2>3, <2>5 DEF TypeInv, TypeOK
    <3>2. result'[q] = result[q]
      BY <1>1, <3>1 DEF ReceiveBegin, TypeInv
    <3> QED
      BY <3>1, <3>2 DEF TypeInv
  <2> QED
    BY <1>1, <2>2, <2>4, <2>5 DEF ReceiveBegin, TypeInv, TypeOK
<1>2. ASSUME NEW r \in Receivers, Signal(r) PROVE TypeInv'
  BY <1>2, WaitAssumption DEF Signal, TypeInv, TypeOK
<1>3. ASSUME NEW s \in Senders, NEW l \in Level, Replace(s, l)
      PROVE  TypeInv'
  <2>1. sent' \in Message
    BY <1>3, WaitAssumption DEF Replace, TypeInv, TypeOK, Message
  <2>2. content' \in [Level -> Message]
    BY <1>3, <2>1 DEF Replace, Stored, TypeInv, TypeOK
  <2>3. /\ spc' \in [Callers -> SenderPCs] /\ slev' \in [Callers -> Level]
        /\ smsg' \in [Callers -> Message]
    BY <1>3, <2>1 DEF Replace, TypeInv, TypeOK, SenderPCs, Callers
  <2> QED
    BY <1>3, <2>1, <2>2, <2>3, TypeCallers DEF Replace, TypeInv, TypeOK
<1>4. ASSUME NEW s \in Awakers, AwakeBegin(s) PROVE TypeInv'
  <2>1. awoken' \in 0 .. MaxAwakes
    BY <1>4, WaitAssumption DEF AwakeBegin, TypeInv, TypeOK
  <2>2. spc' \in [Callers -> SenderPCs] /\ slev' \in [Callers -> Level]
    BY <1>4, Numbers DEF AwakeBegin, TypeInv, TypeOK, SenderPCs, Callers
  <2> QED
    BY <1>4, <2>1, <2>2, TypeCallers DEF AwakeBegin, TypeInv, TypeOK, Callers
<1>5. CASE UNCHANGED vars
  BY <1>5 DEF vars, TypeInv, TypeOK
<1> QED
  BY <1>1, <1>2, <1>3, <1>4, <1>5, TypeReceive, TypeCaller DEF Next, Callers

(* The types, and that a receiver past its traversal has a message. *)
THEOREM TypeInvariant == Spec => []TypeInv
BY TypeInit, TypeNext, PTL DEF Spec

(* Every variable keeps its type. *)
THEOREM TypeCorrect == Spec => []TypeOK
<1>1. TypeInv => TypeOK
  BY DEF TypeInv
<1> QED
  BY <1>1, TypeInvariant, PTL

-----------------------------------------------------------------------------
(* What a step leaves alone *)

(* A step of one receiver is none of another's business, but for the reset *)
(* of ready[].                                                             *)
LEMMA ReceiverFrame ==
  ASSUME TypeInv, NEW r \in Receivers, ReceiveStep(r)
  PROVE  /\ UNCHANGED <<content, senderVars, bounds>>
         /\ ready' = ready \/ ResetReady(r)
         /\ \A q \in Receivers \ {r} :
              /\ rpc'[q] = rpc[q] /\ rlev'[q] = rlev[q] /\ reg'[q] = reg[q]
              /\ result'[q] = result[q] /\ calledWith'[q] = calledWith[q]
              /\ q \in called' <=> q \in called
              /\ q \in wiped => q \in wiped'
              /\ \A l \in Level : q \in queue'[l] <=> q \in queue[l]
<1> USE DEF TypeInv, TypeOK, callHistory
<1>1. CASE ResetReady(r) \/ TestReady(r) \/ Resume(r) \/ LastCheck(r)
  BY <1>1 DEF ResetReady, TestReady, Resume, LastCheck
<1>2. CASE PrepareToWait(r) \/ CheckReady(r)
  BY <1>2 DEF PrepareToWait, CheckReady
<1>3. CASE WaitersLoad(r) \/ InterruptedLoad(r) \/ FoundLoad(r)
  BY <1>3 DEF WaitersLoad, InterruptedLoad, FoundLoad, Load
<1>4. CASE WaitersAdd(r) \/ InterruptedReturn(r) \/ FoundReturn(r)
  BY <1>4 DEF WaitersAdd, InterruptedReturn, FoundReturn, Store, Return
<1>5. CASE FindMessage(r)
  BY <1>5 DEF FindMessage
<1> QED
  BY <1>1, <1>2, <1>3, <1>4, <1>5 DEF ReceiveStep

(* A step of a sender or awaker moves no receiver. *)
LEMMA CallerFrame ==
  ASSUME TypeInv, NEW s \in Callers, CallerStep(s)
  PROVE  /\ UNCHANGED <<receiverVars, waiters, content, sig, wiped, raced, bounds>>
         /\ \A t \in Callers \ {s} :
              spc'[t] = spc[t] /\ slev'[t] = slev[t] /\ smsg'[t] = smsg[t]
         /\ \A r \in Receivers : calledWith[r] \subseteq calledWith'[r]
         /\ called \subseteq called'
<1> USE DEF TypeInv, TypeOK, Callers, callHistory
<1>1. CASE WaitqueueActive(s)
  BY <1>1 DEF WaitqueueActive, EndSend
<1>2. CASE SetReady(s)
  BY <1>2 DEF SetReady, MarkReady
<1>3. CASE SendWake(s) \/ AwakeWake(s)
  BY <1>3 DEF SendWake, AwakeWake, WakeQueue, EndSend
<1> QED
  BY <1>1, <1>2, <1>3 DEF CallerStep

-----------------------------------------------------------------------------
(* The messages *)

(* A message is stored before its receivers are called, and levels only    *)
(* get newer ones.                                                         *)
LEMMA MessagesNext ==
  TypeInv /\ MessagesInOrder /\ [Next]_vars => MessagesInOrder'
<1> SUFFICES ASSUME TypeInv, MessagesInOrder, [Next]_vars
             PROVE  MessagesInOrder'
  OBVIOUS
<1>0. /\ content \in [Level -> Nat] /\ sent \in Nat /\ 0 \in Level
      /\ slev \in [Callers -> Level] /\ smsg \in [Callers -> Nat]
      /\ rlev \in [Receivers -> Level] /\ rpc \in [Receivers -> ReceiverPCs]
      /\ calledWith \in [Receivers -> SUBSET Nat]
  BY Numbers DEF TypeInv, TypeOK, Callers
<1>1. ASSUME NEW r \in Receivers, ReceiveStep(r) PROVE MessagesInOrder'
  <2>1. /\ calledWith'[r] = {} \/ (calledWith'[r] = calledWith[r] /\ rlev'[r] = rlev[r])
        /\ rpc'[r] \in {"idle", "reset"} => calledWith'[r] = {}
    <3>1. CASE InterruptedReturn(r) \/ FoundReturn(r)
      BY <1>0, <3>1 DEF InterruptedReturn, FoundReturn, Return
    <3>2. CASE ~InterruptedReturn(r) /\ ~FoundReturn(r)
      BY <1>0, <1>1, <3>2
      DEF ReceiveStep, ResetReady, TestReady, Resume, LastCheck,
          PrepareToWait, CheckReady, WaitersLoad, InterruptedLoad, FoundLoad,
          Load, WaitersAdd, FindMessage, callHistory
    <3> QED
      BY <3>1, <3>2
  <2> QED
    BY <1>1, <2>1, ReceiverFrame DEF MessagesInOrder, senderVars, bounds
<1>2. ASSUME NEW r \in Receivers, NEW l \in Level, ReceiveBegin(r, l)
      PROVE  MessagesInOrder'
  BY <1>0, <1>2
  DEF ReceiveBegin, MessagesInOrder, senderVars, bounds, callHistory
<1>3. ASSUME NEW r \in Receivers, Signal(r) PROVE MessagesInOrder'
  BY <1>3 DEF Signal, MessagesInOrder, receiverVars, senderVars, callHistory
<1>4. ASSUME NEW s \in Senders, NEW l \in Level, Replace(s, l)
      PROVE  MessagesInOrder'
  <2>1. /\ sent' = sent + 1 /\ content' = [content EXCEPT ![l] = sent + 1]
        /\ smsg' = [smsg EXCEPT ![s] = sent + 1]
        /\ slev' = [slev EXCEPT ![s] = l]
        /\ UNCHANGED <<rpc, rlev, calledWith>>
    BY <1>4 DEF Replace, Stored, receiverVars, callHistory
  <2>2. \A k \in Level : content[k] <= content'[k] /\ content'[k] <= sent'
    BY <1>0, <2>1 DEF MessagesInOrder
  <2>3. \A t \in Callers : smsg'[t] <= content'[slev'[t]]
    BY <1>0, <2>1, <2>2 DEF MessagesInOrder, Callers
  <2>4. \A t \in Awakers : smsg'[t] = 0
    BY <1>0, <2>1, WaitAssumption DEF MessagesInOrder, Callers
  <2>5. \A r \in Receivers : \A m \in calledWith[r] : m <= content'[rlev[r]]
    <3>1. ASSUME NEW r \in Receivers, NEW m \in calledWith[r]
          PROVE  m <= content'[rlev[r]]
      <4>1. /\ m \in Nat /\ m <= content[rlev[r]] /\ rlev[r] \in Level
            /\ content[rlev[r]] \in Nat
        BY <1>0 DEF MessagesInOrder
      <4>2. content[rlev[r]] <= content'[rlev[r]] /\ content'[rlev[r]] \in Nat
        BY <1>0, <2>1, <2>2, <4>1
      <4> QED
        BY <4>1, <4>2
    <3> QED
      BY <3>1
  <2> QED
    BY <2>1, <2>2, <2>3, <2>4, <2>5 DEF MessagesInOrder
<1>5. ASSUME NEW s \in Awakers, AwakeBegin(s) PROVE MessagesInOrder'
  BY <1>0, <1>5
  DEF AwakeBegin, MessagesInOrder, receiverVars, callHistory, Callers
<1>6. ASSUME NEW s \in Callers, CallerStep(s) PROVE MessagesInOrder'
  <2>1. /\ \A t \in Callers : smsg'[t] <= content[slev'[t]]
        /\ \A t \in Awakers : smsg'[t] = 0
    <3>1. CASE WaitqueueActive(s) \/ SetReady(s) \/ SendWake(s)
      BY <1>0, <1>6, <3>1
      DEF WaitqueueActive, SetReady, SendWake, EndSend, MessagesInOrder, Callers
    <3>2. CASE AwakeWake(s)
      <4>1. smsg' = smsg /\ smsg[s] = 0 /\ slev'[s] \in Level
        BY <1>6, <3>2, TypeCaller
        DEF AwakeWake, MessagesInOrder, TypeInv, TypeOK, Callers
      <4> QED
        BY <1>0, <1>6, <4>1, CallerFrame DEF MessagesInOrder
    <3> QED
      BY <1>6, <3>1, <3>2 DEF CallerStep
  <2>2. ASSUME NEW r \in Receivers
        PROVE  /\ \A m \in calledWith'[r] : m <= content[rlev[r]]
               /\ rpc[r] \in {"idle", "reset"} => calledWith'[r] = {}
    <3>1. CASE SetReady(s)
      <4>1. calledWith'[r] = IF InCall(r) /\ rlev[r] = slev[s]
                             THEN calledWith[r] \cup {smsg[s]} ELSE calledWith[r]
        BY <3>1 DEF SetReady, MarkReady
      <4> QED
        BY <4>1 DEF MessagesInOrder, InCall
    <3>2. CASE ~SetReady(s)
      BY <1>6, <3>2
      DEF CallerStep, WaitqueueActive, SendWake, AwakeWake, MessagesInOrder,
          callHistory
    <3> QED
      BY <3>1, <3>2
  <2> QED
    BY <1>6, <2>1, <2>2, CallerFrame DEF MessagesInOrder, receiverVars, bounds
<1>7. CASE UNCHANGED vars
  BY <1>7
  DEF vars, receiverVars, senderVars, bounds, callHistory, MessagesInOrder
<1> QED
  BY <1>1, <1>2, <1>3, <1>4, <1>5, <1>6, <1>7 DEF Next, Callers

-----------------------------------------------------------------------------
(* The steps, in three kinds *)

\* A step that begins a call or sends a signal, or none.
Quiet ==
  /\ UNCHANGED <<ready, waiters, queue, reg, calledWith, called, wiped, raced>>
  /\ \A r \in Receivers :
       \/ /\ rpc'[r] = rpc[r] /\ rlev'[r] = rlev[r]
          /\ result'[r] = result[r]
       \/ rpc[r] = "idle" /\ rpc'[r] = "reset"
  /\ \A s \in Callers : /\ spc'[s] = "wake" <=> spc[s] = "wake"
                        /\ spc[s] = "wake" => slev'[s] = slev[s]

(* A step is of a receiver, of a sender or an awaker, or begins a call.    *)
LEMMA StepKinds ==
  ASSUME TypeInv, [Next]_vars
  PROVE  \/ \E r \in Receivers : ReceiveStep(r)
         \/ \E s \in Callers : CallerStep(s)
         \/ Quiet
<1> USE DEF TypeInv, TypeOK, Callers, receiverVars, senderVars, callHistory
<1>1. ASSUME NEW r \in Receivers, NEW l \in Level, ReceiveBegin(r, l)
      PROVE  Quiet
  BY <1>1 DEF ReceiveBegin, Quiet
<1>2. ASSUME NEW r \in Receivers, Signal(r) PROVE Quiet
  BY <1>2 DEF Signal, Quiet
<1>3. ASSUME NEW s \in Senders, NEW l \in Level, Replace(s, l) PROVE Quiet
  BY <1>3 DEF Replace, Quiet
<1>4. ASSUME NEW s \in Awakers, AwakeBegin(s) PROVE Quiet
  BY <1>4 DEF AwakeBegin, Quiet
<1>5. CASE UNCHANGED vars
  BY <1>5 DEF vars, Quiet
<1> QED
  BY <1>1, <1>2, <1>3, <1>4, <1>5 DEF Next

(* The wake_up_all that is still to come, across the steps.                *)
LEMMA PendingSteps ==
  ASSUME TypeInv, NEW l \in Level
  PROVE  /\ \A r \in Receivers :
              ReceiveStep(r) => (WakePending(l)' <=> WakePending(l))
         /\ Quiet => (WakePending(l)' <=> WakePending(l))
         /\ \A s \in Callers :
              WaitqueueActive(s) => (WakePending(l)' <=> WakePending(l))
         /\ \A s \in Callers :
              SetReady(s) =>
                (WakePending(l)' <=> WakePending(l) \/ slev[s] = l)
         /\ \A s \in Callers :
              SendWake(s) \/ AwakeWake(s) =>
                /\ WakePending(l)' => WakePending(l)
                /\ WakePending(l) /\ l # slev[s] => WakePending(l)'
                /\ WakePending(slev[s])
<1> USE DEF TypeInv, TypeOK, Callers, WakePending
<1>1. ASSUME NEW r \in Receivers, ReceiveStep(r)
      PROVE  WakePending(l)' <=> WakePending(l)
  BY <1>1, ReceiverFrame DEF senderVars
<1>2. Quiet => (WakePending(l)' <=> WakePending(l))
  BY DEF Quiet
<1>3. ASSUME NEW s \in Callers, WaitqueueActive(s)
      PROVE  WakePending(l)' <=> WakePending(l)
  BY <1>3 DEF WaitqueueActive, EndSend
<1>4. ASSUME NEW s \in Callers, SetReady(s)
      PROVE  WakePending(l)' <=> WakePending(l) \/ slev[s] = l
  BY <1>4 DEF SetReady, AfterSet
<1>5. ASSUME NEW s \in Callers, SendWake(s) \/ AwakeWake(s)
      PROVE  /\ WakePending(l)' => WakePending(l)
             /\ WakePending(l) /\ l # slev[s] => WakePending(l)'
             /\ WakePending(slev[s])
  BY <1>5 DEF SendWake, AwakeWake, EndSend
<1> QED
  BY <1>1, <1>2, <1>3, <1>4, <1>5

-----------------------------------------------------------------------------
(* The queues *)

(* Entries get on a queue in prepare_to_wait_event and leave it there, in  *)
(* finish_wait or by a wake_up_all.                                        *)
LEMMA QueuesNext ==
  TypeInv /\ QueuesHoldWaiters /\ [Next]_vars => QueuesHoldWaiters'
<1> SUFFICES ASSUME TypeInv, QueuesHoldWaiters, [Next]_vars
             PROVE  QueuesHoldWaiters'
  OBVIOUS
<1> USE DEF TypeInv, TypeOK
<1>1. ASSUME NEW r \in Receivers, ReceiveStep(r) PROVE QueuesHoldWaiters'
  <2>1. \A l \in Level : r \in queue'[l] =>
          rlev'[r] = l /\ rpc'[r] \in {"prepare", "check", "asleep"}
    <3>1. CASE PrepareToWait(r) \/ CheckReady(r)
      BY <3>1 DEF PrepareToWait, CheckReady, QueuesHoldWaiters
    <3>2. CASE ResetReady(r) \/ TestReady(r) \/ Resume(r) \/ LastCheck(r)
      BY <3>2
      DEF ResetReady, TestReady, Resume, LastCheck, QueuesHoldWaiters
    <3>3. CASE WaitersLoad(r) \/ InterruptedLoad(r) \/ FoundLoad(r)
      BY <3>3
      DEF WaitersLoad, InterruptedLoad, FoundLoad, Load, QueuesHoldWaiters
    <3>4. CASE WaitersAdd(r) \/ InterruptedReturn(r) \/ FoundReturn(r)
      BY <3>4
      DEF WaitersAdd, InterruptedReturn, FoundReturn, QueuesHoldWaiters
    <3>5. CASE FindMessage(r)
      BY <3>5 DEF FindMessage, QueuesHoldWaiters
    <3> QED
      BY <1>1, <3>1, <3>2, <3>3, <3>4, <3>5 DEF ReceiveStep
  <2>2. \A l \in Level : queue'[l] \subseteq Receivers
    BY <1>1, TypeReceive
  <2> QED
    BY <1>1, <2>1, <2>2, ReceiverFrame DEF QueuesHoldWaiters
<1>2. ASSUME NEW s \in Callers, CallerStep(s) PROVE QueuesHoldWaiters'
  <2>1. \A l \in Level : queue'[l] \subseteq queue[l]
    BY <1>2
    DEF CallerStep, WaitqueueActive, SetReady, SendWake, AwakeWake, WakeQueue
  <2> QED
    BY <1>2, <2>1, CallerFrame DEF QueuesHoldWaiters, receiverVars
<1>3. CASE Quiet
  BY <1>3 DEF Quiet, QueuesHoldWaiters
<1> QED
  BY <1>1, <1>2, <1>3, StepKinds

(* prepare_to_wait_event is before the condition and the sleep, and only a *)
(* wake_up_all takes the entry of a receiver that is past it.              *)
LEMMA SleepersNext ==
  TypeInv /\ QueuesHoldWaiters /\ SleepersQueuedOrCalled /\ [Next]_vars
    => SleepersQueuedOrCalled'
<1> SUFFICES ASSUME TypeInv, QueuesHoldWaiters, SleepersQueuedOrCalled,
                    [Next]_vars
             PROVE  SleepersQueuedOrCalled'
  OBVIOUS
<1> USE DEF TypeInv, TypeOK
<1>1. ASSUME NEW r \in Receivers, ReceiveStep(r) PROVE SleepersQueuedOrCalled'
  <2>1. rpc'[r] \in {"check", "asleep"} =>
          r \in queue'[rlev'[r]] \cup called'
    <3>1. CASE PrepareToWait(r) \/ CheckReady(r)
      BY <3>1
      DEF PrepareToWait, CheckReady, SleepersQueuedOrCalled, callHistory
    <3>2. CASE ResetReady(r) \/ TestReady(r) \/ Resume(r) \/ LastCheck(r)
      BY <3>2 DEF ResetReady, TestReady, Resume, LastCheck
    <3>3. CASE WaitersLoad(r) \/ InterruptedLoad(r) \/ FoundLoad(r)
      BY <3>3 DEF WaitersLoad, InterruptedLoad, FoundLoad, Load
    <3>4. CASE WaitersAdd(r) \/ InterruptedReturn(r) \/ FoundReturn(r)
      BY <3>4 DEF WaitersAdd, InterruptedReturn, FoundReturn, Return
    <3>5. CASE FindMessage(r)
      BY <3>5 DEF FindMessage
    <3> QED
      BY <1>1, <3>1, <3>2, <3>3, <3>4, <3>5 DEF ReceiveStep
  <2> QED
    BY <1>1, <2>1, ReceiverFrame DEF SleepersQueuedOrCalled
<1>2. ASSUME NEW s \in Callers, CallerStep(s) PROVE SleepersQueuedOrCalled'
  <2>1. \A l \in Level : queue[l] \subseteq queue'[l] \cup called'
    BY <1>2
    DEF CallerStep, WaitqueueActive, SetReady, SendWake, AwakeWake, WakeQueue
  <2> QED
    BY <1>2, <2>1, CallerFrame DEF SleepersQueuedOrCalled, receiverVars
<1>3. CASE Quiet
  BY <1>3 DEF Quiet, SleepersQueuedOrCalled
<1> QED
  BY <1>1, <1>2, <1>3, StepKinds

-----------------------------------------------------------------------------
(* ready[] *)

(* Who finds ready[] set was called: every store of 1 is a call of those   *)
(* who are past their own store of 0.                                      *)
LEMMA ReadyNext ==
  TypeInv /\ ReadyMeansCalled /\ [Next]_vars => ReadyMeansCalled'
<1> SUFFICES ASSUME TypeInv, ReadyMeansCalled, [Next]_vars
             PROVE  ReadyMeansCalled'
  OBVIOUS
<1> USE DEF TypeInv, TypeOK, InCall
<1>1. ASSUME NEW r \in Receivers, ReceiveStep(r) PROVE ReadyMeansCalled'
  <2>1. CASE ResetReady(r)
    <3>1. ready' = [ready EXCEPT ![rlev[r]] = 0] /\ rlev' = rlev
          /\ calledWith' = calledWith /\ rpc' = [rpc EXCEPT ![r] = "inc"]
      BY <2>1 DEF ResetReady, ClearedReady
    <3> QED
      BY <3>1 DEF ReadyMeansCalled
  <2>2. CASE ~ResetReady(r)
    <3>1. ready' = ready
      BY <1>1, <2>2, ReceiverFrame
    <3>2. InCall(r)' =>
            InCall(r) /\ rlev'[r] = rlev[r] /\ calledWith'[r] = calledWith[r]
      <4>1. CASE InterruptedReturn(r) \/ FoundReturn(r)
        BY <4>1 DEF InterruptedReturn, FoundReturn, Return
      <4>2. CASE ~InterruptedReturn(r) /\ ~FoundReturn(r)
        BY <1>1, <2>2, <4>2
        DEF ReceiveStep, TestReady, Resume, LastCheck, PrepareToWait,
            CheckReady, WaitersLoad, InterruptedLoad, FoundLoad, Load,
            WaitersAdd, FindMessage, callHistory
      <4> QED
        BY <4>1, <4>2
    <3> QED
      BY <1>1, <3>1, <3>2, ReceiverFrame DEF ReadyMeansCalled
  <2> QED
    BY <2>1, <2>2
<1>2. ASSUME NEW s \in Callers, CallerStep(s) PROVE ReadyMeansCalled'
  <2>1. CASE SetReady(s)
    <3>1. /\ ready' = [ready EXCEPT ![slev[s]] = 1]
          /\ calledWith' = [r \in Receivers |->
                              IF InCall(r) /\ rlev[r] = slev[s]
                              THEN calledWith[r] \cup {smsg[s]}
                              ELSE calledWith[r]]
          /\ UNCHANGED <<rpc, rlev>>
      BY <2>1 DEF SetReady, MarkReady, MadeReady, receiverVars
    <3> QED
      BY <3>1 DEF ReadyMeansCalled, Callers
  <2>2. CASE ~SetReady(s)
    BY <1>2, <2>2
    DEF CallerStep, WaitqueueActive, SendWake, AwakeWake, ReadyMeansCalled,
        receiverVars, callHistory
  <2> QED
    BY <2>1, <2>2
<1>3. CASE Quiet
  BY <1>3 DEF Quiet, ReadyMeansCalled
<1> QED
  BY <1>1, <1>2, <1>3, StepKinds

(* Who was woken up, or is about to be, and does not find ready[] set has  *)
(* been undone by a later reader's store of 0.                             *)
LEMMA ResetNext ==
  TypeInv /\ QueuesHoldWaiters /\ ResetMeansWiped /\ [Next]_vars
    => ResetMeansWiped'
<1> SUFFICES ASSUME TypeInv, QueuesHoldWaiters, ResetMeansWiped, [Next]_vars
             PROVE  ResetMeansWiped'
  OBVIOUS
<1> USE DEF TypeInv, TypeOK, InCall
<1>1. ASSUME NEW r \in Receivers, ReceiveStep(r) PROVE ResetMeansWiped'
  <2>1. \A l \in Level : WakePending(l)' <=> WakePending(l)
    BY <1>1, PendingSteps
  <2>2. CASE ResetReady(r)
    <3>1. /\ ready' = [ready EXCEPT ![rlev[r]] = 0] /\ rlev' = rlev
          /\ called' = called /\ rpc' = [rpc EXCEPT ![r] = "inc"]
          /\ wiped' = wiped \cup Undone(r, rlev[r])
      BY <2>2 DEF ResetReady, ClearedReady
    <3>2. ASSUME NEW q \in Receivers, InCall(q)', ready'[rlev[q]] = 0,
                 q \in called \/ WakePending(rlev[q])
          PROVE  q \in wiped'
      <4>1. CASE rlev[q] = rlev[r]
        BY <3>1, <3>2, <4>1 DEF Undone
      <4>2. CASE rlev[q] # rlev[r]
        BY <3>1, <3>2, <4>2 DEF ResetMeansWiped
      <4> QED
        BY <4>1, <4>2
    <3> QED
      BY <2>1, <3>1, <3>2 DEF ResetMeansWiped
  <2>3. CASE ~ResetReady(r)
    <3>1. ready' = ready
      BY <1>1, <2>3, ReceiverFrame
    <3>2. InCall(r)' => /\ InCall(r) /\ rlev'[r] = rlev[r]
                        /\ called' = called /\ wiped' = wiped
      <4>1. CASE InterruptedReturn(r) \/ FoundReturn(r)
        BY <4>1 DEF InterruptedReturn, FoundReturn, Return
      <4>2. CASE ~InterruptedReturn(r) /\ ~FoundReturn(r)
        BY <1>1, <2>3, <4>2
        DEF ReceiveStep, TestReady, Resume, LastCheck, PrepareToWait,
            CheckReady, WaitersLoad, InterruptedLoad, FoundLoad, Load,
            WaitersAdd, FindMessage, callHistory
      <4> QED
        BY <4>1, <4>2
    <3>3. ASSUME NEW q \in Receivers, InCall(q)', ready[rlev'[q]] = 0,
                 q \in called' \/ WakePending(rlev'[q])
          PROVE  q \in wiped'
      <4>1. CASE q = r
        BY <3>2, <3>3, <4>1 DEF ResetMeansWiped
      <4>2. CASE q # r
        BY <1>1, <3>3, <4>2, ReceiverFrame DEF ResetMeansWiped
      <4> QED
        BY <4>1, <4>2
    <3>4. \A q \in Receivers : rlev'[q] \in Level
      BY <1>1, TypeReceive
    <3> QED
      BY <2>1, <3>1, <3>3, <3>4 DEF ResetMeansWiped
  <2> QED
    BY <2>2, <2>3
<1>2. ASSUME NEW s \in Callers, CallerStep(s) PROVE ResetMeansWiped'
  <2>1. CASE SetReady(s)
    <3>1. /\ ready' = [ready EXCEPT ![slev[s]] = 1]
          /\ UNCHANGED <<rpc, rlev, called, wiped>>
      BY <2>1 DEF SetReady, MarkReady, MadeReady, receiverVars
    <3>2. \A l \in Level : l # slev[s] => (WakePending(l)' <=> WakePending(l))
      BY <1>2, <2>1, PendingSteps
    <3> QED
      BY <3>1, <3>2 DEF ResetMeansWiped, Callers
  <2>2. CASE WaitqueueActive(s)
    BY <1>2, <2>2, PendingSteps
    DEF WaitqueueActive, ResetMeansWiped, receiverVars, callHistory
  <2>3. CASE SendWake(s) \/ AwakeWake(s)
    <3>1. /\ called' = called \cup queue[slev[s]]
          /\ UNCHANGED <<ready, rpc, rlev, wiped>>
      BY <2>3 DEF SendWake, AwakeWake, WakeQueue, receiverVars
    <3>2. /\ \A l \in Level : WakePending(l)' => WakePending(l)
          /\ WakePending(slev[s])
      BY <1>2, <2>3, PendingSteps DEF Callers
    <3>3. \A r \in queue[slev[s]] : rlev[r] = slev[s]
      BY DEF QueuesHoldWaiters, Callers
    <3> QED
      BY <3>1, <3>2, <3>3 DEF ResetMeansWiped
  <2> QED
    BY <1>2, <2>1, <2>2, <2>3 DEF CallerStep
<1>3. CASE Quiet
  <2>1. \A l \in Level : WakePending(l)' <=> WakePending(l)
    BY <1>3, PendingSteps
  <2> QED
    BY <1>3, <2>1 DEF Quiet, ResetMeansWiped
<1> QED
  BY <1>1, <1>2, <1>3, StepKinds
-----------------------------------------------------------------------------
(* Wake-ups *)

(* Every store of 1 has its wake_up_all to come, and a receiver sleeps     *)
(* only after it read a 0 from its place on the queue.                     *)
LEMMA WakeNext == TypeInv /\ NoMissedWake /\ [Next]_vars => NoMissedWake'
<1> SUFFICES ASSUME TypeInv, NoMissedWake, [Next]_vars PROVE NoMissedWake'
  OBVIOUS
<1> USE DEF TypeInv, TypeOK
<1>1. ASSUME NEW r \in Receivers, ReceiveStep(r) PROVE NoMissedWake'
  <2>1. \A l \in Level : WakePending(l)' <=> WakePending(l)
    BY <1>1, PendingSteps
  <2>2. \A l \in Level : ready'[l] = 1 => ready[l] = 1
    BY <1>1, ReceiverFrame DEF ResetReady, ClearedReady
  <2>3. \A q \in Receivers : rlev'[q] \in Level
    BY <1>1, TypeReceive
  <2>4. ~(rpc'[r] = "asleep" /\ ready'[rlev'[r]] = 1)
    <3>1. CASE PrepareToWait(r) \/ CheckReady(r)
      BY <3>1 DEF PrepareToWait, CheckReady, Condition
    <3>2. CASE ResetReady(r) \/ TestReady(r) \/ Resume(r) \/ LastCheck(r)
      BY <3>2 DEF ResetReady, TestReady, Resume, LastCheck
    <3>3. CASE WaitersLoad(r) \/ InterruptedLoad(r) \/ FoundLoad(r)
      BY <3>3 DEF WaitersLoad, InterruptedLoad, FoundLoad, Load
    <3>4. CASE WaitersAdd(r) \/ InterruptedReturn(r) \/ FoundReturn(r)
      BY <3>4 DEF WaitersAdd, InterruptedReturn, FoundReturn, Return
    <3>5. CASE FindMessage(r)
      BY <3>5 DEF FindMessage
    <3> QED
      BY <1>1, <3>1, <3>2, <3>3, <3>4, <3>5 DEF ReceiveStep
  <2>5. ASSUME NEW q \in Receivers, rpc'[q] = "asleep",
               q \in queue'[rlev'[q]], ready'[rlev'[q]] = 1
        PROVE  WakePending(rlev'[q])
    <3>1. q # r
      BY <2>4, <2>5
    <3>2. rpc[q] = "asleep" /\ rlev'[q] = rlev[q] /\ q \in queue[rlev[q]]
      BY <1>1, <2>3, <2>5, <3>1, ReceiverFrame
    <3> QED
      BY <2>2, <2>5, <3>2 DEF NoMissedWake
  <2> QED
    BY <2>1, <2>3, <2>5 DEF NoMissedWake
<1>2. ASSUME NEW s \in Callers, CallerStep(s) PROVE NoMissedWake'
  <2>1. CASE SetReady(s)
    <3>1. /\ ready' = [ready EXCEPT ![slev[s]] = 1]
          /\ UNCHANGED <<rpc, rlev, queue>>
      BY <2>1 DEF SetReady, MarkReady, MadeReady, receiverVars
    <3>2. \A l \in Level : WakePending(l)' <=> WakePending(l) \/ slev[s] = l
      BY <1>2, <2>1, PendingSteps
    <3> QED
      BY <3>1, <3>2 DEF NoMissedWake, Callers
  <2>2. CASE WaitqueueActive(s)
    BY <1>2, <2>2, PendingSteps
    DEF WaitqueueActive, NoMissedWake, receiverVars
  <2>3. CASE SendWake(s) \/ AwakeWake(s)
    <3>1. /\ queue' = [queue EXCEPT ![slev[s]] = {}]
          /\ UNCHANGED <<ready, rpc, rlev>>
      BY <2>3 DEF SendWake, AwakeWake, WakeQueue, receiverVars
    <3>2. \A l \in Level : WakePending(l) /\ l # slev[s] => WakePending(l)'
      BY <1>2, <2>3, PendingSteps DEF Callers
    <3> QED
      BY <3>1, <3>2 DEF NoMissedWake, Callers
  <2> QED
    BY <1>2, <2>1, <2>2, <2>3 DEF CallerStep
<1>3. CASE Quiet
  <2>1. \A l \in Level : WakePending(l)' <=> WakePending(l)
    BY <1>3, PendingSteps
  <2> QED
    BY <1>3, <2>1 DEF Quiet, NoMissedWake
<1> QED
  BY <1>1, <1>2, <1>3, StepKinds

(* A receiver that was woken up goes back to sleep on a 0, which is the    *)
(* undoing of its call.                                                    *)
LEMMA RelapseNext ==
  /\ TypeInv /\ QueuesHoldWaiters /\ ResetMeansWiped /\ RelapseOnlyAfterReset
  /\ [Next]_vars
  => RelapseOnlyAfterReset'
<1> SUFFICES ASSUME TypeInv, QueuesHoldWaiters, ResetMeansWiped,
                    RelapseOnlyAfterReset, [Next]_vars
             PROVE  RelapseOnlyAfterReset'
  OBVIOUS
<1> USE DEF TypeInv, TypeOK
<1>1. ASSUME NEW r \in Receivers, ReceiveStep(r) PROVE RelapseOnlyAfterReset'
  <2>1. r \in called' /\ rpc'[r] = "asleep" => r \in wiped'
    <3>1. CASE PrepareToWait(r) \/ CheckReady(r)
      BY <3>1
      DEF PrepareToWait, CheckReady, Condition, ResetMeansWiped, InCall,
          callHistory
    <3>2. CASE ResetReady(r) \/ TestReady(r) \/ Resume(r) \/ LastCheck(r)
      BY <3>2 DEF ResetReady, TestReady, Resume, LastCheck
    <3>3. CASE WaitersLoad(r) \/ InterruptedLoad(r) \/ FoundLoad(r)
      BY <3>3 DEF WaitersLoad, InterruptedLoad, FoundLoad, Load
    <3>4. CASE WaitersAdd(r) \/ InterruptedReturn(r) \/ FoundReturn(r)
      BY <3>4 DEF WaitersAdd, InterruptedReturn, FoundReturn, Return
    <3>5. CASE FindMessage(r)
      BY <3>5 DEF FindMessage
    <3> QED
      BY <1>1, <3>1, <3>2, <3>3, <3>4, <3>5 DEF ReceiveStep
  <2>2. called' \subseteq Receivers
    BY <1>1, TypeReceive
  <2> QED
    BY <1>1, <2>1, <2>2, ReceiverFrame DEF RelapseOnlyAfterReset
<1>2. ASSUME NEW s \in Callers, CallerStep(s) PROVE RelapseOnlyAfterReset'
  <2>1. CASE SendWake(s) \/ AwakeWake(s)
    <3>1. /\ called' = called \cup queue[slev[s]]
          /\ queue' = [queue EXCEPT ![slev[s]] = {}]
          /\ UNCHANGED <<rpc, rlev, wiped>>
      BY <2>1 DEF SendWake, AwakeWake, WakeQueue, receiverVars
    <3>2. \A r \in queue[slev[s]] : rlev[r] = slev[s]
      BY DEF QueuesHoldWaiters, Callers
    <3> QED
      BY <3>1, <3>2 DEF RelapseOnlyAfterReset, Callers
  <2>2. CASE WaitqueueActive(s) \/ SetReady(s)
    BY <2>2
    DEF WaitqueueActive, SetReady, RelapseOnlyAfterReset, receiverVars,
        callHistory
  <2> QED
    BY <1>2, <2>1, <2>2 DEF CallerStep
<1>3. CASE Quiet
  BY <1>3 DEF Quiet, RelapseOnlyAfterReset
<1> QED
  BY <1>1, <1>2, <1>3, StepKinds

(* A receiver goes on to its traversal only when it reads a 1, which is a  *)
(* call; the level has the caller's message by then, or a newer one.       *)
LEMMA DeliveryNext ==
  /\ TypeInv /\ MessagesInOrder /\ ReadyMeansCalled /\ CalledReaderGetsMessage
  /\ [Next]_vars
  => CalledReaderGetsMessage'
<1> SUFFICES ASSUME TypeInv, MessagesInOrder, ReadyMeansCalled,
                    CalledReaderGetsMessage, [Next]_vars
             PROVE  CalledReaderGetsMessage'
  OBVIOUS
<1> USE DEF TypeInv, TypeOK
<1>1. ASSUME NEW r \in Receivers, ReceiveStep(r) PROVE CalledReaderGetsMessage'
  <2>1. /\ rpc'[r] \in {"find", "dec", "dec2"} => calledWith'[r] # {}
        /\ rpc'[r] \in {"dec", "dec2"} =>
             \A m \in calledWith'[r] : result'[r].msg >= m
    <3>1. CASE TestReady(r) \/ LastCheck(r) \/ CheckReady(r)
      BY <3>1
      DEF TestReady, LastCheck, CheckReady, Condition, ReadyMeansCalled, InCall,
          callHistory
    <3>2. CASE ResetReady(r) \/ PrepareToWait(r) \/ Resume(r)
      BY <3>2 DEF ResetReady, PrepareToWait, Resume
    <3>3. CASE WaitersLoad(r) \/ InterruptedLoad(r)
      BY <3>3 DEF WaitersLoad, InterruptedLoad, Load
    <3>4. CASE FoundLoad(r)
      BY <3>4 DEF FoundLoad, Load, CalledReaderGetsMessage, callHistory
    <3>5. CASE WaitersAdd(r) \/ InterruptedReturn(r) \/ FoundReturn(r)
      BY <3>5 DEF WaitersAdd, InterruptedReturn, FoundReturn, Return
    <3>6. CASE FindMessage(r)
      <4>1. /\ rpc[r] = "find" /\ rpc'[r] = "dec"
            /\ calledWith' = calledWith
            /\ result'[r].msg = content[rlev[r]]
        BY <3>6 DEF FindMessage, callHistory
      <4>2. content[rlev[r]] \in Nat /\ calledWith[r] \subseteq Nat
        BY Numbers
      <4> QED
        BY <4>1, <4>2 DEF CalledReaderGetsMessage, MessagesInOrder
    <3> QED
      BY <1>1, <3>1, <3>2, <3>3, <3>4, <3>5, <3>6 DEF ReceiveStep
  <2> QED
    BY <1>1, <2>1, ReceiverFrame DEF CalledReaderGetsMessage
<1>2. ASSUME NEW s \in Callers, CallerStep(s) PROVE CalledReaderGetsMessage'
  <2>1. \A r \in Receivers :
          rpc[r] \in {"find", "dec", "dec2"} => calledWith'[r] = calledWith[r]
    BY <1>2
    DEF CallerStep, WaitqueueActive, SetReady, MarkReady, InCall, SendWake,
        AwakeWake, callHistory
  <2> QED
    BY <1>2, <2>1, CallerFrame DEF CalledReaderGetsMessage, receiverVars
<1>3. CASE Quiet
  BY <1>3 DEF Quiet, CalledReaderGetsMessage
<1> QED
  BY <1>1, <1>2, <1>3, StepKinds

-----------------------------------------------------------------------------
(* waiters[] *)

(* The three kinds of steps on waiters[].                                  *)
LEMMA UpdateKinds ==
  ASSUME TypeInv, NEW r \in Receivers, ReceiveStep(r)
  PROVE  \/ \E from, to \in ReceiverPCs :
              /\ Load(r, from, to)
              /\ <<from, to>> \in {<<"inc", "inc2">>, <<"intr", "intr2">>,
                                   <<"dec", "dec2">>}
         \/ /\ WaitersAdd(r) \/ InterruptedReturn(r) \/ FoundReturn(r)
            /\ UNCHANGED raced
            /\ rpc'[r] \in {"idle", "test"}
         \/ /\ UNCHANGED <<waiters, reg, raced, rlev>>
            /\ ~InUpdate(r) /\ ~InUpdate(r)'
            /\ rpc[r] \in {"idle", "reset", "inc", "inc2"}
                 <=> rpc'[r] \in {"idle", "reset", "inc", "inc2"}
<1> USE DEF TypeInv, TypeOK
<1>1. CASE WaitersLoad(r) \/ InterruptedLoad(r) \/ FoundLoad(r)
  BY <1>1 DEF WaitersLoad, InterruptedLoad, FoundLoad, ReceiverPCs
<1>2. CASE WaitersAdd(r) \/ InterruptedReturn(r) \/ FoundReturn(r)
  BY <1>2 DEF WaitersAdd, InterruptedReturn, FoundReturn, Return
<1>3. CASE ResetReady(r) \/ TestReady(r) \/ Resume(r) \/ LastCheck(r)
  BY <1>3 DEF ResetReady, TestReady, Resume, LastCheck, InUpdate
<1>4. CASE PrepareToWait(r) \/ CheckReady(r) \/ FindMessage(r)
  BY <1>4 DEF PrepareToWait, CheckReady, FindMessage, InUpdate
<1> QED
  BY <1>1, <1>2, <1>3, <1>4 DEF ReceiveStep

(* A second load before the store marks the level.                         *)
LEMMA ApartNext == TypeInv /\ UpdatesApart /\ [Next]_vars => UpdatesApart'
<1> SUFFICES ASSUME TypeInv, UpdatesApart, [Next]_vars PROVE UpdatesApart'
  OBVIOUS
<1> USE DEF TypeInv, TypeOK
<1>1. ASSUME NEW r \in Receivers, ReceiveStep(r) PROVE UpdatesApart'
  <2>0. \A q \in Receivers \ {r} :
          /\ InUpdate(q)' <=> InUpdate(q)
          /\ rlev'[q] = rlev[q] /\ reg'[q] = reg[q]
    BY <1>1, ReceiverFrame DEF InUpdate
  <2>1. CASE UNCHANGED <<waiters, reg, raced, rlev>> /\ ~InUpdate(r)'
    BY <2>0, <2>1 DEF UpdatesApart
  <2>2. ASSUME NEW from \in ReceiverPCs, NEW to \in ReceiverPCs,
               Load(r, from, to)
        PROVE  UpdatesApart'
    <3>1. /\ reg'[r] = waiters[rlev[r]] /\ rlev' = rlev /\ waiters' = waiters
          /\ raced \subseteq raced'
          /\ (\E q \in Receivers \ {r} : InUpdate(q) /\ rlev[q] = rlev[r])
               => rlev[r] \in raced'
      BY <2>2 DEF Load
    <3>2. ASSUME NEW l \in Level \ raced', NEW q \in Receivers,
                 InUpdate(q)', rlev[q] = l
          PROVE  /\ reg'[q] = waiters[l]
                 /\ \A p \in Receivers \ {q} : ~(InUpdate(p)' /\ rlev[p] = l)
      <4>1. CASE q = r
        BY <2>0, <3>1, <3>2, <4>1 DEF UpdatesApart
      <4>2. CASE q # r
        <5>1. InUpdate(q) /\ l \notin raced /\ reg'[q] = reg[q]
          BY <2>0, <3>1, <3>2, <4>2
        <5>2. rlev[r] # l
          BY <3>1, <3>2, <4>2, <5>1
        <5> QED
          BY <2>0, <3>2, <5>1, <5>2 DEF UpdatesApart
      <4> QED
        BY <4>1, <4>2
    <3> QED
      BY <3>1, <3>2 DEF UpdatesApart
  <2>3. CASE /\ WaitersAdd(r) \/ InterruptedReturn(r) \/ FoundReturn(r)
             /\ UNCHANGED raced
             /\ rpc'[r] \in {"idle", "test"}
    <3>1. InUpdate(r) /\ \A l \in Level \ {rlev[r]} : waiters'[l] = waiters[l]
      BY <2>3 DEF WaitersAdd, InterruptedReturn, FoundReturn, Store, InUpdate
    <3>2. ~InUpdate(r)'
      BY <2>3 DEF InUpdate
    <3> QED
      BY <2>0, <2>3, <3>1, <3>2 DEF UpdatesApart
  <2> QED
    BY <1>1, <2>1, <2>2, <2>3, UpdateKinds
<1>2. ASSUME NEW s \in Callers, CallerStep(s) PROVE UpdatesApart'
  BY <1>2, CallerFrame DEF UpdatesApart, InUpdate, receiverVars
<1>3. CASE Quiet
  BY <1>3 DEF Quiet, UpdatesApart, InUpdate
<1> QED
  BY <1>1, <1>2, <1>3, StepKinds

(* What comes between the store of += and the store of -= is counted.      *)
LEMMA DriftNext ==
  TypeInv /\ UpdatesApart /\ WaitersDriftOnlyByRace /\ [Next]_vars
    => WaitersDriftOnlyByRace'
<1> SUFFICES ASSUME TypeInv, UpdatesApart, WaitersDriftOnlyByRace, [Next]_vars
             PROVE  WaitersDriftOnlyByRace'
  OBVIOUS
<1> USE DEF TypeInv, TypeOK
<1>0. \A l \in Level :
        IsFiniteSet(Counted(l)) /\ Cardinality(Counted(l)) \in Nat
  <2>1. \A l \in Level : Counted(l) \subseteq Receivers
    BY DEF Counted
  <2> QED
    BY <2>1, WaitAssumption, FS_Subset, FS_CardinalityType
<1>1. ASSUME NEW r \in Receivers, ReceiveStep(r)
      PROVE  WaitersDriftOnlyByRace'
  <2>0. \A q \in Receivers \ {r} : rpc'[q] = rpc[q] /\ rlev'[q] = rlev[q]
    BY <1>1, ReceiverFrame
  <2>1. CASE /\ UNCHANGED <<waiters, reg, raced, rlev>>
             /\ rpc[r] \in {"idle", "reset", "inc", "inc2"}
                  <=> rpc'[r] \in {"idle", "reset", "inc", "inc2"}
    <3>1. \A l \in Level : Counted(l)' = Counted(l)
      BY <2>0, <2>1 DEF Counted
    <3> QED
      BY <2>1, <3>1 DEF WaitersDriftOnlyByRace
  <2>2. ASSUME NEW from \in ReceiverPCs, NEW to \in ReceiverPCs,
               Load(r, from, to),
               <<from, to>> \in {<<"inc", "inc2">>, <<"intr", "intr2">>,
                                 <<"dec", "dec2">>}
        PROVE  WaitersDriftOnlyByRace'
    <3>1. /\ waiters' = waiters /\ rlev' = rlev /\ raced \subseteq raced'
          /\ rpc[r] = from /\ rpc'[r] = to
      BY <2>2 DEF Load
    <3>2. \A l \in Level : Counted(l)' = Counted(l)
      BY <2>0, <2>2, <3>1 DEF Counted
    <3> QED
      BY <3>1, <3>2 DEF WaitersDriftOnlyByRace
  <2>3. CASE UNCHANGED raced /\ WaitersAdd(r)
    <3>1. /\ rpc[r] = "inc2" /\ rpc'[r] = "test" /\ rlev' = rlev
          /\ waiters' = [waiters EXCEPT ![rlev[r]] = reg[r] + 1]
      BY <2>3 DEF WaitersAdd, Store
    <3>2. /\ r \notin Counted(rlev[r])
          /\ Counted(rlev[r])' = Counted(rlev[r]) \cup {r}
          /\ \A l \in Level \ {rlev[r]} : Counted(l)' = Counted(l)
      BY <2>0, <3>1 DEF Counted
    <3>3. Cardinality(Counted(rlev[r]) \cup {r})
            = Cardinality(Counted(rlev[r])) + 1
      BY <1>0, <3>2, FS_AddElement
    <3>4. rlev[r] \notin raced => reg[r] = waiters[rlev[r]]
      BY <3>1 DEF UpdatesApart, InUpdate
    <3> QED
      BY <2>3, <3>1, <3>2, <3>3, <3>4 DEF WaitersDriftOnlyByRace
  <2>4. CASE UNCHANGED raced /\ (InterruptedReturn(r) \/ FoundReturn(r))
    <3>1. /\ rpc[r] \in {"intr2", "dec2"} /\ rpc'[r] = "idle"
          /\ waiters' = [waiters EXCEPT ![rlev[r]] = reg[r] + (-1)]
      BY <2>4 DEF InterruptedReturn, FoundReturn, FoundDelta, Store, Return
    <3>2. /\ r \in Counted(rlev[r])
          /\ \A l \in Level : Counted(l)' =
               IF l = rlev[r] THEN Counted(l) \ {r} ELSE Counted(l)
      BY <2>0, <3>1 DEF Counted
    <3>3. Cardinality(Counted(rlev[r]) \ {r})
            = Cardinality(Counted(rlev[r])) - 1
      <4>1. IsFiniteSet(Counted(rlev[r])) /\ r \in Counted(rlev[r])
        BY <1>0, <3>2
      <4> HIDE DEF TypeInv, TypeOK
      <4> QED
        BY <4>1, FS_RemoveElement
    <3>4. rlev[r] \notin raced => reg[r] = waiters[rlev[r]]
      BY <3>1 DEF UpdatesApart, InUpdate
    <3> QED
      BY <2>4, <3>1, <3>2, <3>3, <3>4 DEF WaitersDriftOnlyByRace
  <2> QED
    BY <1>1, <2>1, <2>2, <2>3, <2>4, UpdateKinds
<1>2. ASSUME NEW s \in Callers, CallerStep(s) PROVE WaitersDriftOnlyByRace'
  BY <1>2, CallerFrame DEF WaitersDriftOnlyByRace, Counted, receiverVars
<1>3. CASE Quiet
  <2>1. \A l \in Level : Counted(l)' = Counted(l)
    BY <1>3 DEF Quiet, Counted
  <2> QED
    BY <1>3, <2>1 DEF Quiet, WaitersDriftOnlyByRace
<1> QED
  BY <1>1, <1>2, <1>3, StepKinds

-----------------------------------------------------------------------------
(* The results *)

(* The state after the service is created.                                 *)
LEMMA WaitInit == Init => WaitInv
<1> SUFFICES ASSUME Init PROVE WaitInv
  OBVIOUS
<1> USE DEF Init
<1>1. MessagesInOrder /\ QueuesHoldWaiters
  BY Numbers DEF MessagesInOrder, QueuesHoldWaiters, Callers
<1>2. ReadyMeansCalled /\ ResetMeansWiped /\ SleepersQueuedOrCalled
  BY DEF ReadyMeansCalled, ResetMeansWiped, SleepersQueuedOrCalled, InCall
<1>3. UpdatesApart /\ NoMissedWake /\ CalledReaderGetsMessage
  BY DEF UpdatesApart, InUpdate, NoMissedWake, CalledReaderGetsMessage
<1>4. RelapseOnlyAfterReset
  BY DEF RelapseOnlyAfterReset
<1>5. WaitersDriftOnlyByRace
  <2>1. \A l \in Level : Counted(l) = {}
    BY DEF Counted
  <2> QED
    BY <2>1, FS_EmptySet DEF WaitersDriftOnlyByRace
<1> QED
  BY <1>1, <1>2, <1>3, <1>4, <1>5 DEF WaitInv

(* The parts of WaitInv hold together in every reachable state: who is on  *)
(* which queue, what ready[] says of those who wait, and what waiters[]    *)
(* says of those who are between 39 and 43 or 57.                          *)
THEOREM WaitInvariant == Spec => []WaitInv
<1>1. TypeInv /\ WaitInv /\ [Next]_vars => WaitInv'
  BY MessagesNext, QueuesNext, SleepersNext, ReadyNext, ResetNext, WakeNext,
     RelapseNext, DeliveryNext, ApartNext, DriftNext
  DEF WaitInv
<1> QED
  BY <1>1, WaitInit, TypeInvariant, PTL DEF Spec

(* Nobody stays asleep on a level that is ready and whose wake_up_all is   *)
(* over (40, 255-256, 372-373).                                            *)
THEOREM NobodySleepsThrough == Spec => []NoMissedWake
<1>1. WaitInv => NoMissedWake
  BY DEF WaitInv
<1> QED
  BY <1>1, WaitInvariant, PTL

(* tag_receive returns the message its reader was called for or a later    *)
(* one of the level (38, 48, 236, 255).                                    *)
THEOREM MessageReachesTheCalled == Spec => []CalledReaderGetsMessage
<1>1. WaitInv => CalledReaderGetsMessage
  BY DEF WaitInv
<1> QED
  BY <1>1, WaitInvariant, PTL

(* A reader sleeps again after its wake-up only because of the store of a  *)
(* later reader (38).                                                      *)
THEOREM OnlyResetsUndoCalls == Spec => []RelapseOnlyAfterReset
<1>1. WaitInv => RelapseOnlyAfterReset
  BY DEF WaitInv
<1> QED
  BY <1>1, WaitInvariant, PTL

(* waiters[] is the number of the readers it is meant to count, on every   *)
(* level where no two updates overlapped (39, 43, 57).                     *)
THEOREM WaitersCounted == Spec => []WaitersDriftOnlyByRace
<1>1. WaitInv => WaitersDriftOnlyByRace
  BY DEF WaitInv
<1> QED
  BY <1>1, WaitInvariant, PTL

(* A sender that finds the queue empty skips only readers that somebody    *)
(* else has called (244).                                                  *)
THEOREM SkippedSleepersWereCalled == Spec => SenderSkipsNoSleeper
<1>1. ASSUME TypeInv, WaitInv, [Next]_vars, NEW s \in Senders,
             spc[s] = "active", spc'[s] = "idle",
             NEW r \in Receivers, rpc[r] = "asleep", rlev[r] = slev[s]
      PROVE  r \in called
  <2> USE DEF TypeInv, TypeOK
  <2>1. WaitqueueActive(s)
    <3>1. \A q \in Receivers : ~ReceiveStep(q)
      BY <1>1, ReceiverFrame DEF senderVars
    <3>2. \A q \in Receivers, l \in Level : ~ReceiveBegin(q, l)
      BY <1>1 DEF ReceiveBegin, senderVars
    <3>3. \A q \in Receivers : ~Signal(q)
      BY <1>1 DEF Signal, senderVars
    <3>4. \A t \in Senders, l \in Level : ~Replace(t, l)
      BY <1>1 DEF Replace
    <3>5. \A t \in Awakers : ~AwakeBegin(t)
      BY <1>1 DEF AwakeBegin
    <3>6. \A t \in Callers \ {s} : ~CallerStep(t)
      BY <1>1, CallerFrame DEF Callers
    <3>7. ~SetReady(s) /\ ~SendWake(s) /\ ~AwakeWake(s)
      BY <1>1 DEF SetReady, SendWake, AwakeWake
    <3>8. ~UNCHANGED vars
      BY <1>1 DEF vars, senderVars
    <3> QED
      BY <1>1, <3>1, <3>2, <3>3, <3>4, <3>5, <3>6, <3>7, <3>8
      DEF Next, CallerStep, Callers
  <2>2. queue[rlev[r]] = {}
    BY <1>1, <2>1 DEF WaitqueueActive, HasSleepers
  <2> QED
    BY <1>1, <2>2 DEF WaitInv, SleepersQueuedOrCalled
<1>2. TypeInv /\ WaitInv /\ [Next]_vars =>
        [\A s \in Senders :
           spc[s] = "active" /\ spc'[s] = "idle"
             => \A r \in Receivers :
                  rpc[r] = "asleep" /\ rlev[r] = slev[s] => r \in called]_vars
  BY <1>1
<1> QED
  BY <1>2, WaitInvariant, TypeInvariant, PTL DEF Spec, SenderSkipsNoSleeper

=============================================================================
