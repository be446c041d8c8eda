-------------------------- MODULE IrqSectionsProofs --------------------------
(***************************************************************************)
(* What holds of IrqSections for any number of threads, CPUs, lists and    *)
(* levels: types, what the global `flags` is guarded against, and where    *)
(* the interrupts are masked.                                              *)
(***************************************************************************)
EXTENDS IrqSections, TLAPS

InSearchOnly == {"alloc", "asleep", "insert"}
AtList == {"list", "write"}

\* What the place of a call says of its kind, its list and its copies.
CallsOK ==
  \A t \in Threads :
    /\ local[t]
    /\ pc[t] = "replace" => op[t] = "SEND"
    /\ pc[t] \in InSearchOnly => op[t] # "SEND"
    /\ pc[t] = "asleep" => slept[t]
    /\ pc[t] \in AtList => lst[t] \in AnyList
    /\ pc[t] \in AtList /\ op[t] = "SEND" => tmp[t]
    /\ pc[t] \in AtList /\ op[t] # "SEND" /\ tmp[t] => crossed[t] \/ slept[t]

\* The write_lock of a list has one holder.
ListsOK ==
  \A t \in Threads : pc[t] = "write" =>
    /\ lst[t] \in locked
    /\ \A u \in Threads \ {t} : pc[u] = "write" => lst[u] # lst[t]

\* `flags` is the copy of the writer that stored it last, while its section
\* lasts.
FlagsOK ==
  \A t \in Threads : flagsOf.thread = t => pc[t] = "write" /\ flags = tmp[t]

IInv == /\ TypeOK /\ CallsOK /\ ListsOK /\ FlagsOK
        /\ ListGuardsFlags /\ InterruptsFollowSections

-----------------------------------------------------------------------------
(* The program begins with every call outside and the interrupts on. *)
LEMMA IInvInit == Init => IInv
<1> SUFFICES ASSUME Init PROVE IInv
  OBVIOUS
<1>1. /\ pc \in [Threads -> PCs]
      /\ op \in [Threads -> {"CREATE", "SEND", "REMOVE"}]
      /\ running \subseteq Threads
      /\ lst \in [Threads -> AnyList \cup {NULL}]
      /\ flagsOf \in [thread : Threads \cup {NULL}, list : AnyList \cup {NULL}]
  BY DEF Init, PCs, NoSection
<1>2. /\ on \in [Threads -> BOOLEAN] /\ local \in [Threads -> BOOLEAN]
      /\ tmp \in [Threads -> BOOLEAN]
      /\ flags \in BOOLEAN /\ wlocked \in BOOLEAN
      /\ crossed \in [Threads -> BOOLEAN] /\ slept \in [Threads -> BOOLEAN]
  BY DEF Init
<1>3. /\ level \in [Threads -> 0 .. levelDeep - 1] /\ readers \in Int
      /\ queue \in Seq(Threads) /\ locked \subseteq AnyList
  BY IrqAssumption DEF Init
<1>4. CallsOK /\ ListsOK
  BY DEF Init, CallsOK, ListsOK, InSearchOnly, AtList
<1>5. FlagsOK /\ ListGuardsFlags
  BY IrqAssumption DEF Init, FlagsOK, ListGuardsFlags, NoSection
<1>6. InterruptsFollowSections
  BY DEF Init, InterruptsFollowSections
<1> QED
  BY <1>1, <1>2, <1>3, <1>4, <1>5, <1>6 DEF IInv, TypeOK

(* A call masks the interrupts that were on and queues for searchLock. *)
LEMMA SearchSaveStep ==
  ASSUME NEW t \in Threads, NEW o \in {"CREATE", "SEND", "REMOVE"}, IInv,
         SearchSave(t, o)
  PROVE  IInv'
<1> USE IrqAssumption DEF IInv
<1>1. TypeOK'
  BY DEF TypeOK, PCs, SearchSave, Goto, search, global, past
<1>2. CallsOK'
  BY DEF TypeOK, CallsOK, FlagsOK, InterruptsFollowSections, InSearchOnly,
     AtList, SearchSave, Goto, past
<1>3. ListsOK'
  BY DEF TypeOK, ListsOK, SearchSave, Goto
<1>4. FlagsOK'
  BY DEF TypeOK, FlagsOK, SearchSave, Goto, global
<1>5. ListGuardsFlags'
  BY DEF TypeOK, CallsOK, ListsOK, ListGuardsFlags, NoSection, AnyList,
     AtList, SearchSave, Goto, global
<1>6. InterruptsFollowSections'
  BY DEF TypeOK, CallsOK, FlagsOK, InterruptsFollowSections, InSearchOnly,
     AtList, SearchSave, Goto, past
<1> QED
  BY <1>1, <1>2, <1>3, <1>4, <1>5, <1>6

(* It gets searchLock, the interrupts masked. *)
LEMMA SearchAcquireStep ==
  ASSUME NEW t \in Threads, IInv, SearchAcquire(t) PROVE IInv'
<1> USE IrqAssumption DEF IInv
<1>1. TypeOK'
  <2>1. pc' \in [Threads -> PCs]
    <3>1. PICK next \in PCs : pc' = [pc EXCEPT ![t] = next]
      BY DEF PCs, SearchAcquire, Goto
    <3> QED
      BY <3>1 DEF TypeOK
  <2>2. /\ op' \in [Threads -> {"CREATE", "SEND", "REMOVE"}]
        /\ running' \subseteq Threads
    BY DEF TypeOK, SearchAcquire
  <2>3. /\ on' \in [Threads -> BOOLEAN] /\ local' \in [Threads -> BOOLEAN]
        /\ tmp' \in [Threads -> BOOLEAN]
    BY DEF TypeOK, SearchAcquire
  <2>4. /\ lst' \in [Threads -> AnyList \cup {NULL}]
        /\ level' \in [Threads -> 0 .. levelDeep - 1]
    BY DEF TypeOK, SearchAcquire
  <2>5. /\ flags' \in BOOLEAN /\ locked' \subseteq AnyList
        /\ flagsOf' \in [thread : Threads \cup {NULL},
                        list : AnyList \cup {NULL}]
    BY DEF TypeOK, SearchAcquire, global
  <2>6. wlocked' \in BOOLEAN /\ readers' \in Int /\ queue' \in Seq(Threads)
    <3>1. wlocked' \in BOOLEAN
      BY DEF TypeOK, SearchAcquire
    <3>2. readers' \in Int
      BY DEF TypeOK, SearchAcquire
    <3>3. queue' \in Seq(Threads)
      BY DEF TypeOK, SearchAcquire
    <3> QED
      BY <3>1, <3>2, <3>3
  <2>7. crossed' \in [Threads -> BOOLEAN] /\ slept' \in [Threads -> BOOLEAN]
    BY DEF TypeOK, SearchAcquire, past
  <2> QED
    BY <2>1, <2>2, <2>3, <2>4, <2>5, <2>6, <2>7 DEF TypeOK, AnyList
<1>2. CallsOK'
  BY DEF TypeOK, CallsOK, FlagsOK, InterruptsFollowSections, InSearchOnly,
     AtList, SearchAcquire, Goto, past
<1>3. ListsOK'
  BY DEF TypeOK, ListsOK, SearchAcquire, Goto
<1>4. FlagsOK'
  BY DEF TypeOK, FlagsOK, SearchAcquire, Goto, global
<1>5. ListGuardsFlags'
  BY DEF TypeOK, CallsOK, ListsOK, ListGuardsFlags, NoSection, AnyList,
     AtList, SearchAcquire, Goto, global
<1>6. InterruptsFollowSections'
  <2>1. pc[t] = "search" /\ ~on[t]
    BY DEF InterruptsFollowSections, SearchAcquire
  <2>2. PICK next \in {"alloc", "searched"} : pc' = [pc EXCEPT ![t] = next]
    BY DEF SearchAcquire, Goto
  <2>3. UNCHANGED <<op, on, crossed, slept>>
    BY DEF SearchAcquire, past
  <2> QED
    BY <2>1, <2>2, <2>3 DEF TypeOK, InterruptsFollowSections
<1> QED
  BY <1>1, <1>2, <1>3, <1>4, <1>5, <1>6

(* searchLock restores the call's own copy. *)
LEMMA SearchReleaseStep ==
  ASSUME NEW t \in Threads, IInv, SearchRelease(t) PROVE IInv'
<1> USE IrqAssumption DEF IInv
<1>1. TypeOK'
  <2>1. pc' \in [Threads -> PCs]
    <3>1. PICK next \in PCs : pc' = [pc EXCEPT ![t] = next]
      BY DEF PCs, SearchRelease, Goto
    <3> QED
      BY <3>1 DEF TypeOK
  <2>2. /\ op' \in [Threads -> {"CREATE", "SEND", "REMOVE"}]
        /\ running' \subseteq Threads
    BY DEF TypeOK, SearchRelease
  <2>3. /\ on' \in [Threads -> BOOLEAN] /\ local' \in [Threads -> BOOLEAN]
        /\ tmp' \in [Threads -> BOOLEAN]
    BY DEF TypeOK, SearchRelease, Restored
  <2>4. /\ lst' \in [Threads -> AnyList \cup {NULL}]
        /\ level' \in [Threads -> 0 .. levelDeep - 1]
    BY DEF TypeOK, SearchRelease
  <2>5. /\ flags' \in BOOLEAN /\ locked' \subseteq AnyList
        /\ flagsOf' \in [thread : Threads \cup {NULL},
                        list : AnyList \cup {NULL}]
    BY DEF TypeOK, SearchRelease, global
  <2>6. wlocked' \in BOOLEAN /\ readers' \in Int /\ queue' \in Seq(Threads)
    <3>1. wlocked' \in BOOLEAN
      BY DEF TypeOK, SearchRelease, ReadersLeft
    <3>2. readers' \in Int
      BY DEF TypeOK, SearchRelease, ReadersLeft
    <3>3. queue' \in Seq(Threads)
      BY DEF TypeOK, SearchRelease, ReadersLeft
    <3> QED
      BY <3>1, <3>2, <3>3
  <2>7. crossed' \in [Threads -> BOOLEAN] /\ slept' \in [Threads -> BOOLEAN]
    BY DEF TypeOK, SearchRelease, past
  <2> QED
    BY <2>1, <2>2, <2>3, <2>4, <2>5, <2>6, <2>7 DEF TypeOK, AnyList
<1>2. CallsOK'
  BY DEF TypeOK, CallsOK, FlagsOK, InterruptsFollowSections, InSearchOnly,
     AtList, SearchRelease, Goto, past, Restored
<1>3. ListsOK'
  BY DEF TypeOK, ListsOK, SearchRelease, Goto
<1>4. FlagsOK'
  BY DEF TypeOK, FlagsOK, SearchRelease, Goto, global
<1>5. ListGuardsFlags'
  BY DEF TypeOK, CallsOK, ListsOK, ListGuardsFlags, NoSection, AnyList,
     AtList, SearchRelease, Goto, global
<1>6. InterruptsFollowSections'
  BY DEF TypeOK, CallsOK, FlagsOK, InterruptsFollowSections, InSearchOnly,
     AtList, SearchRelease, Goto, past, Restored
<1> QED
  BY <1>1, <1>2, <1>3, <1>4, <1>5, <1>6

(* An allocation that does not sleep. *)
LEMMA AllocStep ==
  ASSUME NEW t \in Threads, IInv, Alloc(t) PROVE IInv'
<1> USE IrqAssumption DEF IInv
<1>1. TypeOK'
  BY DEF TypeOK, PCs, Alloc, Goto, search, global, past
<1>2. CallsOK'
  BY DEF TypeOK, CallsOK, FlagsOK, InterruptsFollowSections, InSearchOnly,
     AtList, Alloc, Goto, past
<1>3. ListsOK'
  BY DEF TypeOK, ListsOK, Alloc, Goto
<1>4. FlagsOK'
  BY DEF TypeOK, FlagsOK, Alloc, Goto, global
<1>5. ListGuardsFlags'
  BY DEF TypeOK, CallsOK, ListsOK, ListGuardsFlags, NoSection, AnyList,
     AtList, Alloc, Goto, global
<1>6. InterruptsFollowSections'
  BY DEF TypeOK, CallsOK, FlagsOK, InterruptsFollowSections, InSearchOnly,
     AtList, Alloc, Goto, past
<1> QED
  BY <1>1, <1>2, <1>3, <1>4, <1>5, <1>6

(* An allocation that does. *)
LEMMA SleepStep ==
  ASSUME NEW t \in Threads, IInv, Sleep(t) PROVE IInv'
<1> USE IrqAssumption DEF IInv
<1>1. TypeOK'
  BY DEF TypeOK, PCs, Sleep, Goto, search, global
<1>2. CallsOK'
  BY DEF TypeOK, CallsOK, FlagsOK, InterruptsFollowSections, InSearchOnly,
     AtList, Sleep, Goto
<1>3. ListsOK'
  BY DEF TypeOK, ListsOK, Sleep, Goto
<1>4. FlagsOK'
  BY DEF TypeOK, FlagsOK, Sleep, Goto, global
<1>5. ListGuardsFlags'
  BY DEF TypeOK, CallsOK, ListsOK, ListGuardsFlags, NoSection, AnyList,
     AtList, Sleep, Goto, global
<1>6. InterruptsFollowSections'
  BY DEF TypeOK, CallsOK, FlagsOK, InterruptsFollowSections, InSearchOnly,
     AtList, Sleep, Goto
<1> QED
  BY <1>1, <1>2, <1>3, <1>4, <1>5, <1>6

(* A sleeper goes on, maybe with the interrupts on. *)
LEMMA ResumeStep ==
  ASSUME NEW t \in Threads, IInv, Resume(t) PROVE IInv'
<1> USE IrqAssumption DEF IInv
<1>1. TypeOK'
  <2>1. pc' \in [Threads -> PCs]
    <3>1. PICK next \in PCs : pc' = [pc EXCEPT ![t] = next]
      BY DEF PCs, Resume, Goto
    <3> QED
      BY <3>1 DEF TypeOK
  <2>2. /\ op' \in [Threads -> {"CREATE", "SEND", "REMOVE"}]
        /\ running' \subseteq Threads
    BY DEF TypeOK, Resume
  <2>3. /\ on' \in [Threads -> BOOLEAN] /\ local' \in [Threads -> BOOLEAN]
        /\ tmp' \in [Threads -> BOOLEAN]
    <3>1. PICK state \in BOOLEAN : on' = [on EXCEPT ![t] = state]
      BY DEF TypeOK, Resume
    <3> QED
      BY <3>1 DEF TypeOK, Resume
  <2>4. /\ lst' \in [Threads -> AnyList \cup {NULL}]
        /\ level' \in [Threads -> 0 .. levelDeep - 1]
    BY DEF TypeOK, Resume
  <2>5. /\ flags' \in BOOLEAN /\ locked' \subseteq AnyList
        /\ flagsOf' \in [thread : Threads \cup {NULL},
                        list : AnyList \cup {NULL}]
    BY DEF TypeOK, Resume, global
  <2>6. wlocked' \in BOOLEAN /\ readers' \in Int /\ queue' \in Seq(Threads)
    <3>1. wlocked' \in BOOLEAN
      BY DEF TypeOK, Resume, search
    <3>2. readers' \in Int
      BY DEF TypeOK, Resume, search
    <3>3. queue' \in Seq(Threads)
      BY DEF TypeOK, Resume, search
    <3> QED
      BY <3>1, <3>2, <3>3
  <2>7. crossed' \in [Threads -> BOOLEAN] /\ slept' \in [Threads -> BOOLEAN]
    BY DEF TypeOK, Resume, past
  <2> QED
    BY <2>1, <2>2, <2>3, <2>4, <2>5, <2>6, <2>7 DEF TypeOK, AnyList
<1>2. CallsOK'
  BY DEF TypeOK, CallsOK, FlagsOK, InterruptsFollowSections, InSearchOnly,
     AtList, Resume, Goto, past
<1>3. ListsOK'
  BY DEF TypeOK, ListsOK, Resume, Goto
<1>4. FlagsOK'
  BY DEF TypeOK, FlagsOK, Resume, Goto, global
<1>5. ListGuardsFlags'
  BY DEF TypeOK, CallsOK, ListsOK, ListGuardsFlags, NoSection, AnyList,
     AtList, Resume, Goto, global
<1>6. InterruptsFollowSections'
  BY DEF TypeOK, CallsOK, FlagsOK, InterruptsFollowSections, InSearchOnly,
     AtList, Resume, Goto, past
<1> QED
  BY <1>1, <1>2, <1>3, <1>4, <1>5, <1>6

(* A writer of a list masks the interrupts, and keeps what they were. *)
LEMMA ListSaveStep ==
  ASSUME NEW t \in Threads, IInv, ListSave(t) PROVE IInv'
<1> USE IrqAssumption DEF IInv
<1>1. TypeOK'
  <2>1. PICK l \in AnyList : lst' = [lst EXCEPT ![t] = l]
    BY DEF AnyList, ListSave
  <2>2. lst' \in [Threads -> AnyList \cup {NULL}]
    BY <2>1 DEF TypeOK
  <2>3. /\ pc' \in [Threads -> PCs] /\ on' \in [Threads -> BOOLEAN]
        /\ tmp' \in [Threads -> BOOLEAN]
    BY DEF TypeOK, PCs, ListSave, Goto
  <2> QED
    BY <2>2, <2>3 DEF TypeOK, AnyList, ListSave, search, global, past
<1>2. CallsOK'
  BY DEF TypeOK, CallsOK, FlagsOK, InterruptsFollowSections, InSearchOnly,
     AtList, AnyList, ListSave, Goto, past
<1>3. ListsOK'
  BY DEF TypeOK, ListsOK, ListSave, Goto
<1>4. FlagsOK'
  BY DEF TypeOK, FlagsOK, ListSave, Goto, global
<1>5. ListGuardsFlags'
  BY DEF TypeOK, CallsOK, ListsOK, ListGuardsFlags, NoSection, AnyList,
     AtList, ListSave, Goto, global
<1>6. InterruptsFollowSections'
  BY DEF TypeOK, CallsOK, FlagsOK, InterruptsFollowSections, InSearchOnly,
     AtList, ListSave, Goto, past
<1> QED
  BY <1>1, <1>2, <1>3, <1>4, <1>5, <1>6

(* It alone gets the lock of its list, and stores what it kept in `flags`. *)
LEMMA ListAcquireStep ==
  ASSUME NEW t \in Threads, IInv, ListAcquire(t) PROVE IInv'
<1> USE IrqAssumption DEF IInv
<1>1. TypeOK'
  BY DEF TypeOK, PCs, CallsOK, InSearchOnly, AtList, AnyList, ListAcquire,
     Goto, search, past
<1>2. CallsOK'
  BY DEF TypeOK, CallsOK, FlagsOK, InterruptsFollowSections, InSearchOnly,
     AtList, AnyList, ListAcquire, Goto, past
<1>3. ListsOK'
  BY DEF TypeOK, ListsOK, ListAcquire, Goto, ListFree
<1>4. FlagsOK'
  BY DEF TypeOK, FlagsOK, ListAcquire, Goto
<1>5. ListGuardsFlags'
  BY DEF TypeOK, CallsOK, ListsOK, ListGuardsFlags, NoSection, AnyList,
     AtList, ListAcquire, Goto, ListFree
<1>6. InterruptsFollowSections'
  BY DEF TypeOK, CallsOK, FlagsOK, InterruptsFollowSections, InSearchOnly,
     AtList, ListAcquire, Goto, past
<1> QED
  BY <1>1, <1>2, <1>3, <1>4, <1>5, <1>6

(* It restores `flags`, whoever stored it last. *)
LEMMA ListReleaseStep ==
  ASSUME NEW t \in Threads, IInv, ListRelease(t) PROVE IInv'
<1> USE IrqAssumption DEF IInv
<1>1. TypeOK'
  <2>1. pc' \in [Threads -> PCs]
    <3>1. PICK next \in PCs : pc' = [pc EXCEPT ![t] = next]
      BY DEF PCs, ListRelease, Goto
    <3> QED
      BY <3>1 DEF TypeOK
  <2>2. /\ op' \in [Threads -> {"CREATE", "SEND", "REMOVE"}]
        /\ running' \subseteq Threads
    BY DEF TypeOK, ListRelease
  <2>3. /\ on' \in [Threads -> BOOLEAN] /\ local' \in [Threads -> BOOLEAN]
        /\ tmp' \in [Threads -> BOOLEAN]
    BY DEF TypeOK, ListRelease, RestoredByList
  <2>4. /\ lst' \in [Threads -> AnyList \cup {NULL}]
        /\ level' \in [Threads -> 0 .. levelDeep - 1]
    <3>1. lst' \in [Threads -> AnyList \cup {NULL}]
      BY DEF TypeOK, ListRelease
    <3>2. level[t] \in 0 .. levelDeep - 1
      BY DEF TypeOK
    <3>3. PICK n \in 0 .. levelDeep - 1 :
            level' = [level EXCEPT ![t] = n] \/ level' = level
      BY <3>2 DEF ListRelease, MoreLevels
    <3> QED
      BY <3>1, <3>3 DEF TypeOK
  <2>5. /\ flags' \in BOOLEAN /\ locked' \subseteq AnyList
        /\ flagsOf' \in [thread : Threads \cup {NULL},
                        list : AnyList \cup {NULL}]
    <3>1. flags' \in BOOLEAN /\ locked' \subseteq AnyList
      BY DEF TypeOK, ListRelease
    <3>2. flagsOf' \in {NoSection, flagsOf}
      BY DEF ListRelease
    <3> QED
      BY <3>1, <3>2 DEF TypeOK, NoSection
  <2>6. wlocked' \in BOOLEAN /\ readers' \in Int /\ queue' \in Seq(Threads)
    <3>1. wlocked' \in BOOLEAN
      BY DEF TypeOK, ListRelease, search
    <3>2. readers' \in Int
      BY DEF TypeOK, ListRelease, search
    <3>3. queue' \in Seq(Threads)
      BY DEF TypeOK, ListRelease, search
    <3> QED
      BY <3>1, <3>2, <3>3
  <2>7. crossed' \in [Threads -> BOOLEAN] /\ slept' \in [Threads -> BOOLEAN]
    BY DEF TypeOK, ListRelease, past
  <2> QED
    BY <2>1, <2>2, <2>3, <2>4, <2>5, <2>6, <2>7 DEF TypeOK, AnyList
<1>2. CallsOK'
  BY DEF TypeOK, CallsOK, FlagsOK, InterruptsFollowSections, InSearchOnly,
     AtList, ListRelease, Goto, RestoredByList
<1>3. ListsOK'
  BY DEF TypeOK, ListsOK, ListRelease, Goto
<1>4. FlagsOK'
  BY DEF TypeOK, FlagsOK, NoSection, ListRelease, Goto
<1>5. ListGuardsFlags'
  BY DEF TypeOK, CallsOK, ListsOK, ListGuardsFlags, NoSection, AnyList,
     AtList, ListRelease, Goto
<1>6. InterruptsFollowSections'
  BY DEF TypeOK, CallsOK, FlagsOK, InterruptsFollowSections, InSearchOnly,
     AtList, ListRelease, Goto, RestoredByList
<1> QED
  BY <1>1, <1>2, <1>3, <1>4, <1>5, <1>6

(* The way back to user space. *)
LEMMA ReturnStep ==
  ASSUME NEW t \in Threads, IInv, Return(t) PROVE IInv'
<1> USE IrqAssumption DEF IInv
<1>1. TypeOK'
  BY DEF TypeOK, PCs, Return, Goto, search, global
<1>2. CallsOK'
  BY DEF TypeOK, CallsOK, FlagsOK, InterruptsFollowSections, InSearchOnly,
     AtList, Return, Goto
<1>3. ListsOK'
  BY DEF TypeOK, ListsOK, Return, Goto
<1>4. FlagsOK'
  BY DEF TypeOK, FlagsOK, Return, Goto, global
<1>5. ListGuardsFlags'
  BY DEF TypeOK, CallsOK, ListsOK, ListGuardsFlags, NoSection, AnyList,
     AtList, Return, Goto, global
<1>6. InterruptsFollowSections'
  BY DEF TypeOK, CallsOK, FlagsOK, InterruptsFollowSections, InSearchOnly,
     AtList, Return, Goto
<1> QED
  BY <1>1, <1>2, <1>3, <1>4, <1>5, <1>6

-----------------------------------------------------------------------------
(* Every step keeps the invariant. *)
LEMMA IInvNext == IInv /\ [Next]_vars => IInv'
<1> SUFFICES ASSUME IInv, [Next]_vars PROVE IInv'
  OBVIOUS
<1>1. ASSUME NEW t \in Threads, NEW o \in {"CREATE", "SEND", "REMOVE"},
             SearchSave(t, o)
      PROVE  IInv'
  BY <1>1, SearchSaveStep
<1>2. ASSUME NEW t \in Threads, SearchAcquire(t) PROVE IInv'
  BY <1>2, SearchAcquireStep
<1>3. ASSUME NEW t \in Threads, SearchRelease(t) PROVE IInv'
  BY <1>3, SearchReleaseStep
<1>4. ASSUME NEW t \in Threads, Alloc(t) PROVE IInv'
  BY <1>4, AllocStep
<1>5. ASSUME NEW t \in Threads, Sleep(t) PROVE IInv'
  BY <1>5, SleepStep
<1>6. ASSUME NEW t \in Threads, Resume(t) PROVE IInv'
  BY <1>6, ResumeStep
<1>7. ASSUME NEW t \in Threads, ListSave(t) PROVE IInv'
  BY <1>7, ListSaveStep
<1>8. ASSUME NEW t \in Threads, ListAcquire(t) PROVE IInv'
  BY <1>8, ListAcquireStep
<1>9. ASSUME NEW t \in Threads, ListRelease(t) PROVE IInv'
  BY <1>9, ListReleaseStep
<1>10. ASSUME NEW t \in Threads, Return(t) PROVE IInv'
  BY <1>10, ReturnStep
<1>11. CASE UNCHANGED vars
  BY <1>11
  DEF IInv, TypeOK, CallsOK, ListsOK, FlagsOK, ListGuardsFlags,
      InterruptsFollowSections, vars
<1> QED
  BY <1>1, <1>2, <1>3, <1>4, <1>5, <1>6, <1>7, <1>8, <1>9, <1>10, <1>11
     DEF Next, Work

-----------------------------------------------------------------------------
(* Every reachable state satisfies the invariant. *)
THEOREM Invariance == Spec => []IInv
BY IInvInit, IInvNext, PTL DEF Spec

(* The types hold. *)
THEOREM TypeCorrect == Spec => []TypeOK
<1>1. IInv => TypeOK
  BY DEF IInv
<1> QED
  BY <1>1, Invariance, PTL

(* What a writer finds in `flags` (rcu-list.c:14) it stored itself, or a   *)
(* writer of another list did.                                             *)
THEOREM FlagsGuarded == Spec => []ListGuardsFlags
<1>1. IInv => ListGuardsFlags
  BY DEF IInv
<1> QED
  BY <1>1, Invariance, PTL

(* The interrupts are masked in the sections and come back after them, but *)
(* for sections that restored another writer's `flags` or slept.           *)
THEOREM InterruptsCorrect == Spec => []InterruptsFollowSections
<1>1. IInv => InterruptsFollowSections
  BY DEF IInv
<1> QED
  BY <1>1, Invariance, PTL

=============================================================================
