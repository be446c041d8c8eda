------------------------- MODULE ModuleLifecycleProofs -------------------------
(***************************************************************************)
(* What holds of ModuleLifecycle for any number of programs, entries of    *)
(* the system call table, major numbers and loads: the reference count,    *)
(* what the calls find, what the table has at every step, and what an      *)
(* unload leaves behind.                                                   *)
(***************************************************************************)
EXTENDS ModuleLifecycle, FiniteSetTheorems, WellFoundedInduction, TLAPS

InitSteps == {"find", "services", "add", "chrdev", "class", "node"}
ExitSteps ==
  {"remove", "unregister", "destroy", "declass", "again", "unmount", "dead"}

\* Where the loader is in main.c.
Control ==
  /\ mod \in {"absent", "live"} <=> step = "out"
  /\ mod = "coming" <=> step \in InitSteps
  /\ mod = "going" <=> step \in ExitSteps

\* The free entries found, and how many of them are in use.
Found == free_entries # <<>>
EntriesFound ==
  /\ Found =>
       /\ free_entries \in [1 .. 4 -> FreeEntries]
       /\ \A i, j \in 1 .. 4 : free_entries[i] = free_entries[j] => i = j
  /\ ~Found => nextFree = 0
  /\ step = "find" => ~Found
  /\ step \in {"services", "add"} => Found
  /\ step = "add" => nextFree < 4
  /\ (step \in {"find", "services"} \cup (ExitSteps \ {"remove"})
      \/ mod = "absent") => nextFree = 0

\* tagServices is there as soon as there are calls, until unmountRCU.
ServicesThere ==
  IF mod = "absent" \/ step \in {"find", "services"}
  THEN tagServices = NULL
  ELSE tagServices = NULL <=> ~Found

\* The device is registered from RegisterChrdev to the first unregister.
DeviceSteps == {"class", "node", "out", "remove", "unregister"}
DeviceRegistered ==
  /\ \A m \in Majors : chrdev[m] = "module" =>
       m = majorNum /\ mod # "absent" /\ step \in DeviceSteps
  /\ majorNum # NULL /\ mod # "absent" /\ step \in DeviceSteps =>
       chrdev[majorNum] = "module"
  /\ step \in {"find", "services", "add", "chrdev"} => majorNum = NULL

\* The class and the device file are those of a valid `class`.
ClassThere ==
  /\ classes => /\ class = "valid" /\ mod # "absent"
                /\ step \in (DeviceSteps \ {"class"}) \cup {"destroy", "declass"}
  /\ node => /\ class = "valid" /\ mod # "absent"
             /\ step \in (DeviceSteps \ {"class", "node"}) \cup {"destroy"}
  /\ step = "node" => class = "valid"

\* The entries of the table that are not the kernel's.
TableOwned ==
  /\ \A e \in Entries : table[e] = Ni => e \in FreeEntries
  /\ \A e \in Entries : table[e].to = "module" =>
       \E i \in Installed : free_entries[i] = e /\ table[e] = Own(i - 1)
  /\ hook \in Hookable \cup {NULL}
  /\ contested \subseteq Hookable
  /\ \A i \in Installed : free_entries[i] \in contested \cup (Entries \ {hook})

\* A call is in the module's text only while it is mapped, and its services
\* are there.
CallsInside ==
  \A c \in Callers : InText(c) => mod # "absent" /\ tagServices = "allocated"

\* The device is open only between the registration and an unload.
OpenersInside ==
  \A o \in Openers :
    /\ opc[o] # "closed" => /\ mod \in {"coming", "live"}
                            /\ step \in {"class", "node", "out"}
    /\ opc[o] = "oopsed" => ~Found

\* The numbers of this load, and the calls made with them.
NumbersExposed ==
  /\ \A f \in Functions4 :
       mod # "absent" /\ sysCallNum[f] # 0 =>
         Found /\ sysCallNum[f] = free_entries[f + 1]
  /\ \A c \in Callers :
       /\ idxLoad[c] <= loads
       /\ idxLoad[c] = loads =>
            \A f \in Functions4 :
              idx[c][f] # 0 => Found /\ idx[c][f] = free_entries[f + 1]

NobodyInside == mod \in {"going", "absent"} => Holders = {}

LifeInv ==
  /\ TypeOK /\ Control /\ EntriesFound /\ ServicesThere
  /\ DeviceRegistered /\ ClassThere /\ TableOwned /\ TableAccounted
  /\ CallsInside /\ OpenersInside /\ NumbersExposed
  /\ NobodyInside /\ RefsCountHolders /\ CallReachesItsFunction

-----------------------------------------------------------------------------
(* The free entries of the table *)

(* A set of naturals has a least element.                                  *)
LEMMA Least ==
  ASSUME NEW S \in SUBSET Nat, S # {}
  PROVE  \E x \in S : \A y \in S : x <= y
<1> DEFINE R == OpToRel(<, Nat)
<1>1. \E x \in S : \A y \in S : ~(<<y, x>> \in R)
  <2>1. IsWellFoundedOn(R, Nat)
    BY NatLessThanWellFounded
  <2> HIDE DEF R
  <2> QED
    BY <2>1, WFMin
<1>2. \A x, y \in Nat : y < x => <<y, x>> \in R
  BY DEF OpToRel
<1> HIDE DEF R
<1>3. PICK x \in S : \A y \in S : ~(<<y, x>> \in R)
  BY <1>1
<1>4. \A y \in S : ~(y < x)
  BY <1>2, <1>3
<1> QED
  BY <1>4

(* The next one of a finite set of naturals, as long as there is one.      *)
LEMMA Following ==
  ASSUME NEW S \in SUBSET Nat, IsFiniteSet(S), NEW e \in S, NEW k \in Nat,
         Cardinality({d \in S : d < e}) = k, k + 1 < Cardinality(S),
         NEW k1, k1 = k + 1
  PROVE  \E n \in S : Cardinality({d \in S : d < n}) = k1
<1> DEFINE Below == {d \in S : d < e}
           UpTo  == Below \cup {e}
           Rest  == S \ UpTo
<1>1. IsFiniteSet(Below) /\ e \notin Below
  BY FS_Subset
<1>2. Cardinality(UpTo) = k + 1
  <2>1. Cardinality(Below) = k
    OBVIOUS
  <2> HIDE DEF Below
  <2> QED
    BY <1>1, <2>1, FS_AddElement
<1>3. Rest # {}
  <2>1. UpTo \subseteq S
    OBVIOUS
  <2>2. Rest = {} => UpTo = S
    BY <2>1
  <2>3. S # UpTo
    <3>1. Cardinality(S) \in Nat
      BY FS_CardinalityType
    <3> HIDE DEF UpTo
    <3> QED
      BY <1>2, <3>1
  <2> QED
    BY <2>2, <2>3
<1>4. PICK n \in Rest : \A y \in Rest : n <= y
  <2>1. Rest \in SUBSET Nat
    OBVIOUS
  <2> HIDE DEF Rest
  <2> QED
    BY <1>3, <2>1, Least
<1>5. {d \in S : d < n} = UpTo
  <2>1. n \in S /\ n \in Nat /\ e \in Nat /\ e < n
    OBVIOUS
  <2>2. \A d \in S : d < n <=> d \in UpTo
    BY <1>4, <2>1
  <2> QED
    BY <2>2
<1> QED
  BY <1>2, <1>5

(* With four free entries at least there is a first, .. and a fourth.      *)
LEMMA FourFree ==
  ASSUME NEW S \in SUBSET Nat, IsFiniteSet(S), Cardinality(S) >= 4
  PROVE  \A i \in 1 .. 4 : \E e \in S : Cardinality({d \in S : d < e}) = i - 1
<1>0. Cardinality(S) \in Nat
  BY FS_CardinalityType
<1>1. \E e \in S : Cardinality({d \in S : d < e}) = 0
  <2>1. S # {}
    BY FS_EmptySet
  <2>2. PICK e \in S : \A y \in S : e <= y
    BY <2>1, Least
  <2>3. \A d \in S : ~(d < e)
    BY <2>2
  <2>4. {d \in S : d < e} = {}
    BY <2>3
  <2>5. Cardinality({d \in S : d < e}) = 0
    BY <2>4, FS_EmptySet
  <2> QED
    BY <2>5
<1>2. \E e \in S : Cardinality({d \in S : d < e}) = 1
  <2>1. PICK e \in S : Cardinality({d \in S : d < e}) = 0
    BY <1>1
  <2>2. 0 \in Nat /\ 0 + 1 < Cardinality(S) /\ 1 = 0 + 1
    BY <1>0
  <2> QED
    BY <2>1, <2>2, Following
<1>3. \E e \in S : Cardinality({d \in S : d < e}) = 2
  <2>1. PICK e \in S : Cardinality({d \in S : d < e}) = 1
    BY <1>2
  <2>2. 1 \in Nat /\ 1 + 1 < Cardinality(S) /\ 2 = 1 + 1
    BY <1>0
  <2> QED
    BY <2>1, <2>2, Following
<1>4. \E e \in S : Cardinality({d \in S : d < e}) = 3
  <2>1. PICK e \in S : Cardinality({d \in S : d < e}) = 2
    BY <1>3
  <2>2. 2 \in Nat /\ 2 + 1 < Cardinality(S) /\ 3 = 2 + 1
    BY <1>0
  <2> QED
    BY <2>1, <2>2, Following
<1>5. \A i \in 1 .. 4 : i - 1 \in {0, 1, 2, 3}
  OBVIOUS
<1> QED
  BY <1>1, <1>2, <1>3, <1>4, <1>5

(* The four entries found are four distinct free ones.                     *)
LEMMA FirstFour ==
  ASSUME Free \subseteq Entries, Cardinality(Free) >= 4
  PROVE  /\ FirstFree(4) \in [1 .. 4 -> Free]
         /\ \A i, j \in 1 .. 4 : FirstFree(4)[i] = FirstFree(4)[j] => i = j
<1>1. Free \subseteq Nat /\ IsFiniteSet(Free)
  <2>1. Entries \subseteq Nat /\ 0 \in Int /\ LastEntry \in Int
    BY LifecycleAssumption DEF Entries
  <2>2. IsFiniteSet(Entries)
    BY <2>1, FS_Interval DEF Entries
  <2> QED
    BY <2>1, <2>2, FS_Subset
<1>2. \A i \in 1 .. 4 :
        \E e \in Free : Cardinality({d \in Free : d < e}) = i - 1
  <2> HIDE DEF Free
  <2> QED
    BY <1>1, FourFree
<1>3. \A i \in 1 .. 4 :
        /\ NthFree(i) \in Free
        /\ Cardinality({d \in Free : d < NthFree(i)}) = i - 1
  BY <1>2 DEF NthFree
<1>4. \A i, j \in 1 .. 4 : NthFree(i) = NthFree(j) => i = j
  BY <1>3
<1> QED
  BY <1>3, <1>4 DEF FirstFree

(* What Rightful says of an entry, without its CHOOSE.                     *)
LEMMA RightfulIs ==
  ASSUME TypeOK, EntriesFound
  PROVE  /\ \A i \in Installed : Rightful(free_entries[i]) = Own(i - 1)
         /\ \A e \in Entries :
              (\A i \in Installed : free_entries[i] # e) =>
                Rightful(e) = IF e = hook THEN Hooked
                              ELSE IF e \in FreeEntries THEN Ni ELSE Kernel
<1>1. \A i, j \in Installed : free_entries[i] = free_entries[j] => i = j
  BY DEF EntriesFound, Installed, TypeOK
<1> QED
  BY <1>1 DEF Rightful

-----------------------------------------------------------------------------
(* What the steps leave alone *)

(* The calls are no business of the loader's.                              *)
LEMMA CallerFrame ==
  ASSUME TypeOK, NEW c \in Callers, CallerStep(c)
  PROVE  /\ UNCHANGED <<kernel, globals, mod, step, loads, opc, others>>
         /\ \A d \in Callers \ {c} :
              /\ cpc'[d] = cpc[d] /\ idx'[d] = idx[d] /\ want'[d] = want[d]
              /\ fn'[d] = fn[d] /\ idxLoad'[d] = idxLoad[d]
<1> USE DEF TypeOK, module
<1>1. ASSUME NEW f \in Called, Call(c, f)
      PROVE  /\ UNCHANGED <<kernel, globals, mod, step, loads, opc, others>>
             /\ \A d \in Callers \ {c} :
                  /\ cpc'[d] = cpc[d] /\ idx'[d] = idx[d] /\ want'[d] = want[d]
                  /\ fn'[d] = fn[d] /\ idxLoad'[d] = idxLoad[d]
  BY <1>1 DEF Call
<1>2. CASE InitTBDE(c) \/ Exit(c) \/ ModulePut(c) \/ ReturnWithoutPut(c)
  BY <1>2 DEF InitTBDE, Exit, ModulePut, ReturnWithoutPut
<1>3. CASE TryModuleGet(c) \/ ReturnFromCall(c)
  BY <1>3 DEF TryModuleGet, ReturnFromCall
<1> QED
  BY <1>1, <1>2, <1>3 DEF CallerStep

(* Nor are the open files.                                                 *)
LEMMA OpenerFrame ==
  ASSUME TypeOK, NEW o \in Openers, OpenerStep(o)
  PROVE  /\ UNCHANGED <<kernel, globals, mod, step, loads, callers, others>>
         /\ \A d \in Openers \ {o} : opc'[d] = opc[d]
BY DEF TypeOK, OpenerStep, Open, DevOpen, Close, module

\* A step of insmod or rmmod.
LoaderStep == Load \/ InitStep \/ Unload \/ ExitStep

(* insmod and rmmod have no call in progress and no open file.             *)
LEMMA LoaderFrame ==
  ASSUME LoaderStep
  PROVE  /\ UNCHANGED <<refs, opc, hook, drivers, idx, want, fn, idxLoad,
                      leakedRefs>>
         /\ Load \/ loads' = loads
         /\ Unmount \/ cpc' = cpc
<1> USE DEF LoaderStep, InitStep, ExitStep, callers, others, module
<1>1. CASE Load \/ Unload
  BY <1>1 DEF Load, Unload
<1>2. CASE InitStep
  BY <1>2
  DEF FindEntries, InitService, AddSyscall, RegisterChrdev, CreateClass,
      CreateDevice
<1>3. CASE ExitStep
  BY <1>3
  DEF RemoveSyscall, UnregisterFirst, UnregisterAgain, Unregister,
      DestroyDevice, DestroyClass, Unmount
<1> QED
  BY <1>1, <1>2, <1>3

\* A step of the neighbour or of the other driver.
OthersStep ==
  \/ \E e \in Hookable : Hook(e)
  \/ Unhook
  \/ \E m \in Majors : OtherRegisters(m)

(* They change only the table and the majors.                              *)
LEMMA OthersFrame ==
  ASSUME OthersStep
  PROVE  UNCHANGED <<classes, node, globals, module, callers, opc, contested>>
BY DEF OthersStep, Hook, Unhook, OtherRegisters

(* The steps by who takes them.                                            *)
LEMMA StepKinds ==
  ASSUME [Next]_vars
  PROVE  \/ LoaderStep
         \/ \E c \in Callers : CallerStep(c)
         \/ \E o \in Openers : OpenerStep(o)
         \/ OthersStep
         \/ UNCHANGED vars
BY DEF Next, LoaderStep, OthersStep

-----------------------------------------------------------------------------
(* The loader *)

(* insmod goes through its steps to "out", and so does rmmod.              *)
LEMMA ControlNext == TypeOK /\ Control /\ [Next]_vars => Control'
<1> SUFFICES ASSUME TypeOK, Control, [Next]_vars PROVE Control'
  OBVIOUS
<1> USE DEF Control, InitSteps, ExitSteps
<1>1. CASE Load \/ Unload
  BY <1>1 DEF Load, Unload
<1>2. CASE InitStep
  BY <1>2
  DEF InitStep, FindEntries, InitService, AddSyscall, RegisterChrdev,
      CreateClass, CreateDevice, AfterFound, Loaded
<1>3. CASE ExitStep
  BY <1>3
  DEF ExitStep, RemoveSyscall, UnregisterFirst, UnregisterAgain, Unregister,
      DestroyDevice, DestroyClass, Unmount
<1>4. CASE UNCHANGED <<mod, step>>
  BY <1>4
<1> QED
  BY <1>1, <1>2, <1>3, <1>4, StepKinds, CallerFrame, OpenerFrame, OthersFrame
  DEF LoaderStep, vars, module

(* In a table that was found there are four free entries: those that       *)
(* nobody hooks are free when no call is installed.                        *)
LEMMA EnoughFree ==
  ASSUME TypeOK, EntriesFound, TableOwned, TableAccounted, nextFree = 0
  PROVE  Free \subseteq FreeEntries /\ Cardinality(Free) >= 4
<1>1. Free \subseteq FreeEntries
  BY DEF Free, TableOwned
<1>2. FreeEntries \ Hookable \subseteq Free
  <2>1. ASSUME NEW e \in FreeEntries \ Hookable PROVE table[e] = Ni
    <3>1. e \in Entries \ contested /\ e # hook
      BY LifecycleAssumption DEF TableOwned
    <3>2. Installed = {}
      BY DEF Installed
    <3>3. Rightful(e) = Ni
      BY <3>1, <3>2 DEF Rightful
    <3> QED
      BY <3>1, <3>3 DEF TableAccounted
  <2> QED
    BY <2>1, LifecycleAssumption DEF Free
<1>3. IsFiniteSet(Free)
  <2>1. LastEntry \in Int /\ 0 \in Int /\ Free \subseteq Entries
    BY LifecycleAssumption, <1>1
  <2>2. IsFiniteSet(Entries)
    BY <2>1, FS_Interval DEF Entries
  <2> QED
    BY <2>1, <2>2, FS_Subset
<1>4. /\ Cardinality(FreeEntries \ Hookable) <= Cardinality(Free)
      /\ Cardinality(FreeEntries \ Hookable) \in Nat
      /\ Cardinality(Free) \in Nat
  <2> HIDE DEF Free
  <2> QED
    BY <1>2, <1>3, FS_Subset, FS_CardinalityType
<1> QED
  BY <1>1, <1>4, LifecycleAssumption

(* foundFree_entries finds four distinct entries that were free at boot,   *)
(* and add_syscall and removeAllSyscall count through them.                *)
LEMMA FoundNext ==
  /\ TypeOK /\ Control /\ EntriesFound /\ TableOwned /\ TableAccounted
  /\ [Next]_vars
  => EntriesFound'
<1> SUFFICES ASSUME TypeOK, Control, EntriesFound, TableOwned, TableAccounted,
                    [Next]_vars
             PROVE  EntriesFound'
  OBVIOUS
<1> USE DEF Control, InitSteps, ExitSteps
<1>1. CASE Load \/ Unload
  BY <1>1 DEF Load, Unload, globals, EntriesFound, Found
<1>2. CASE FindEntries
  <2>1. CASE ~TableFound
    BY <1>2, <2>1 DEF FindEntries, EntriesFound, Found
  <2>2. CASE TableFound
    <3>1. nextFree = 0 /\ nextFree' = 0
      BY <1>2 DEF FindEntries, EntriesFound
    <3>2. Free \subseteq FreeEntries /\ Cardinality(Free) >= 4
      BY <3>1, EnoughFree
    <3>3. free_entries' = FirstFree(4) /\ step' = "services"
      BY <1>2, <2>2 DEF FindEntries, AfterFound
    <3>4. /\ free_entries' \in [1 .. 4 -> Free]
          /\ \A i, j \in 1 .. 4 :
               free_entries'[i] = free_entries'[j] => i = j
      BY <3>2, <3>3, LifecycleAssumption, FirstFour
    <3>5. free_entries' # <<>>
      <4>1. DOMAIN free_entries' = 1 .. 4
        BY <3>4
      <4>2. 1 \in DOMAIN free_entries'
        BY <4>1
      <4> QED
        BY <4>2
    <3>6. free_entries' \in [1 .. 4 -> FreeEntries]
      BY <3>2, <3>4
    <3>7. mod' # "absent"
      BY <1>2 DEF FindEntries
    <3> QED
      BY <3>1, <3>3, <3>4, <3>5, <3>6, <3>7 DEF EntriesFound, Found
  <2> QED
    BY <2>1, <2>2
<1>3. CASE InitService \/ AddSyscall \/ RegisterChrdev \/ CreateClass
           \/ CreateDevice
  BY <1>3
  DEF InitService, AddSyscall, RegisterChrdev, CreateClass, CreateDevice,
      Loaded, EntriesFound, Found, TypeOK
<1>4. CASE ExitStep
  BY <1>4
  DEF ExitStep, RemoveSyscall, MoreToRemove, UnregisterFirst, UnregisterAgain,
      Unregister, DestroyDevice, DestroyClass, Unmount, globals, EntriesFound,
      Found, TypeOK
<1>5. CASE UNCHANGED <<mod, step, globals>>
  BY <1>5 DEF globals, EntriesFound, Found
<1> QED
  BY <1>1, <1>2, <1>3, <1>4, <1>5, StepKinds, CallerFrame, OpenerFrame,
     OthersFrame
  DEF LoaderStep, InitStep, vars, module

(* The table of services is there between InitService and unmountRCU.      *)
LEMMA ServicesNext ==
  TypeOK /\ Control /\ EntriesFound /\ ServicesThere /\ [Next]_vars
    => ServicesThere'
<1> SUFFICES ASSUME TypeOK, Control, EntriesFound, ServicesThere, [Next]_vars
             PROVE  ServicesThere'
  OBVIOUS
<1> USE LifecycleAssumption
    DEF Control, InitSteps, ExitSteps, ServicesThere, EntriesFound, Found
<1>1. CASE Load \/ Unload
  BY <1>1 DEF Load, Unload, globals
<1>2. CASE InitStep
  BY <1>2
  DEF InitStep, FindEntries, InitService, AddSyscall, RegisterChrdev,
      CreateClass, CreateDevice, AfterFound, Loaded
<1>3. CASE ExitStep
  BY <1>3
  DEF ExitStep, RemoveSyscall, UnregisterFirst, UnregisterAgain, Unregister,
      DestroyDevice, DestroyClass, Unmount, globals
<1>4. CASE UNCHANGED <<mod, step, globals>>
  BY <1>4 DEF globals
<1> QED
  BY <1>1, <1>2, <1>3, <1>4, StepKinds, CallerFrame, OpenerFrame, OthersFrame
  DEF LoaderStep, vars, module

-----------------------------------------------------------------------------
(* The device *)

(* register_chrdev takes a free major, and the first unregister_chrdev     *)
(* gives it back.                                                          *)
LEMMA DeviceNext ==
  TypeOK /\ Control /\ DeviceRegistered /\ [Next]_vars => DeviceRegistered'
<1> SUFFICES ASSUME TypeOK, Control, DeviceRegistered, [Next]_vars
             PROVE  DeviceRegistered'
  OBVIOUS
<1> USE LifecycleAssumption
    DEF Control, InitSteps, ExitSteps, DeviceRegistered, DeviceSteps, TypeOK
<1>1. CASE Load \/ Unload
  BY <1>1 DEF Load, Unload, globals, kernel
<1>2. CASE FindEntries \/ InitService \/ AddSyscall
  BY <1>2 DEF FindEntries, InitService, AddSyscall, AfterFound, kernel
<1>3. CASE RegisterChrdev
  BY <1>3 DEF RegisterChrdev, Loaded
<1>4. CASE CreateClass \/ CreateDevice
  BY <1>4 DEF CreateClass, CreateDevice, Loaded
<1>5. CASE RemoveSyscall \/ DestroyDevice \/ DestroyClass \/ Unmount
  BY <1>5
  DEF RemoveSyscall, DestroyDevice, DestroyClass, Unmount, kernel, globals
<1>6. CASE UnregisterFirst \/ UnregisterAgain
  BY <1>6
  DEF UnregisterFirst, UnregisterAgain, Unregister, Unregistered, globals
<1>7. CASE OthersStep
  <2>1. /\ UNCHANGED <<mod, step, majorNum>>
        /\ \A m \in Majors : chrdev'[m] = "module" <=> chrdev[m] = "module"
    BY <1>7 DEF OthersStep, Hook, Unhook, OtherRegisters, globals, module
  <2> QED
    BY <2>1
<1>8. CASE UNCHANGED <<kernel, mod, step, globals>>
  BY <1>8 DEF globals, kernel
<1> QED
  BY <1>1, <1>2, <1>3, <1>4, <1>5, <1>6, <1>7, <1>8, StepKinds, CallerFrame,
     OpenerFrame
  DEF LoaderStep, InitStep, ExitStep, vars, module

(* class_create and device_create are undone in the opposite order.        *)
LEMMA ClassNext == TypeOK /\ Control /\ ClassThere /\ [Next]_vars => ClassThere'
<1> SUFFICES ASSUME TypeOK, Control, ClassThere, [Next]_vars
             PROVE  ClassThere'
  OBVIOUS
<1> USE DEF Control, InitSteps, ExitSteps, ClassThere, DeviceSteps, TypeOK
<1>1. CASE Load \/ Unload
  BY <1>1 DEF Load, Unload, globals, kernel
<1>2. CASE FindEntries \/ InitService \/ AddSyscall \/ RegisterChrdev
  BY <1>2
  DEF FindEntries, InitService, AddSyscall, RegisterChrdev, AfterFound, kernel,
      Loaded
<1>3. CASE CreateClass
  <2>1. ~classes /\ ~node /\ mod # "absent"
    BY <1>3 DEF CreateClass
  <2>2. /\ node' = node
        /\ \/ classes' = classes /\ step' = "out"
           \/ class' = "valid" /\ step' = "node" /\ mod' = mod
    BY <1>3 DEF CreateClass, Loaded
  <2> QED
    BY <2>1, <2>2
<1>4. CASE CreateDevice
  <2>1. ~node /\ mod' = "live" /\ step' = "out" /\ mod # "absent"
    BY <1>4 DEF CreateDevice, Loaded
  <2>2. \/ class' = class /\ classes' = classes
        \/ ~classes' /\ node' = node
    BY <1>4 DEF CreateDevice
  <2>3. classes => class = "valid"
    OBVIOUS
  <2>4. CASE class' = class /\ classes' = classes
    <3>1. class = "valid"
      BY <1>4 DEF CreateDevice
    <3> QED
      BY <2>1, <2>3, <2>4, <3>1
  <2>5. CASE ~classes' /\ node' = node
    BY <2>1, <2>5
  <2> QED
    BY <2>2, <2>4, <2>5
<1>5. CASE RemoveSyscall \/ UnregisterFirst \/ UnregisterAgain \/ Unmount
  BY <1>5
  DEF RemoveSyscall, UnregisterFirst, UnregisterAgain, Unregister, Unmount,
      kernel, globals
<1>6. CASE DestroyDevice
  <2>1. ~node'
    BY <1>6 DEF DestroyDevice
  <2>2. /\ step' \in {"declass", "dead"} /\ UNCHANGED <<classes, mod, class>>
        /\ step' = "dead" => ~classes
    BY <1>6 DEF DestroyDevice, globals
  <2> QED
    BY <2>1, <2>2
<1>7. CASE DestroyClass
  <2>1. ~classes' /\ ~node /\ node' = node
    BY <1>7 DEF DestroyClass, ClassLeft
  <2>2. step' # "node"
    BY <1>7 DEF DestroyClass
  <2> QED
    BY <2>1, <2>2
<1>8. CASE UNCHANGED <<classes, node, mod, step, globals>>
  BY <1>8 DEF globals
<1> QED
  BY <1>1, <1>2, <1>3, <1>4, <1>5, <1>6, <1>7, <1>8, StepKinds, CallerFrame,
     OpenerFrame, OthersFrame
  DEF LoaderStep, InitStep, ExitStep, vars, kernel, module

-----------------------------------------------------------------------------
(* The system call table *)

TableInv == TableOwned /\ TableAccounted

(* Three kinds of records.                                                 *)
LEMMA Targets ==
  /\ Ni.to # "module" /\ Kernel.to # "module" /\ Hooked.to # "module"
  /\ Ni # Kernel /\ Ni # Hooked /\ Hooked # Kernel
  /\ \A f \in Functions4 :
       /\ Own(f).to = "module" /\ Own(f).fn = f
       /\ Own(f) # Ni /\ Own(f) # Hooked /\ Own(f) # Kernel
<1>1. /\ Ni.to = "sys_ni_syscall" /\ Kernel.to = "kernel"
      /\ Hooked.to = "neighbour"
  BY DEF Ni, Kernel, Hooked
<1>2. \A f \in Functions4 : Own(f).to = "module" /\ Own(f).fn = f
  BY DEF Own
<1> QED
  BY <1>1, <1>2

(* add_syscall installs the next call over what the entry has.             *)
LEMMA AddTable ==
  ASSUME TypeOK, EntriesFound, TableInv, AddSyscall
  PROVE  TableInv'
<1>0. PICK k \in 1 .. 4 : k = nextFree + 1 /\ k - 1 = nextFree
  BY DEF AddSyscall, EntriesFound, TypeOK
<1>1. PICK e \in Entries : e = free_entries[k]
  BY LifecycleAssumption DEF AddSyscall, EntriesFound, TypeOK
<1>2. /\ k \in 1 .. 4 /\ nextFree \in Functions4 /\ nextFree' = k /\ Found
      /\ free_entries \in [1 .. 4 -> FreeEntries]
      /\ e \in FreeEntries
  BY <1>0, <1>1 DEF AddSyscall, EntriesFound, TypeOK, Functions4
<1>3. /\ table' = [table EXCEPT ![e] = Own(nextFree)]
      /\ contested' = IF table[e] = Ni THEN contested ELSE contested \cup {e}
      /\ UNCHANGED <<free_entries, hook>>
  BY <1>0, <1>1 DEF AddSyscall
<1>4. /\ Installed' = Installed \cup {k}
      /\ \A i \in Installed : i \in 1 .. 4 /\ free_entries[i] # e
  BY <1>0, <1>1, <1>2 DEF Installed, EntriesFound, TypeOK
<1>5. table \in [Entries -> {Ni, Kernel, Hooked} \cup {Own(f) : f \in Functions4}]
      /\ contested \subseteq Entries
  BY DEF TypeOK
<1>6. e \notin contested =>
        IF e = hook THEN table[e] = Hooked ELSE table[e] = Ni
  BY <1>2, <1>4, RightfulIs DEF TableInv, TableAccounted
<1>7. TableOwned'
  <2>1. \A d \in Entries : table'[d] = Ni => d \in FreeEntries
    BY <1>2, <1>3, <1>5 DEF TableInv, TableOwned
  <2>2. ASSUME NEW d \in Entries, table'[d].to = "module"
        PROVE  \E i \in Installed' : free_entries[i] = d /\ table'[d] = Own(i - 1)
    <3>1. CASE d = e
      <4>1. table'[e] = Own(nextFree)
        BY <1>3, <1>5
      <4>2. free_entries[k] = e /\ table'[e] = Own(k - 1) /\ k \in Installed'
        BY <1>0, <1>1, <1>4, <4>1
      <4> QED
        BY <3>1, <4>2
    <3>2. CASE d # e
      BY <1>3, <1>4, <1>5, <2>2, <3>2 DEF TableInv, TableOwned
    <3> QED
      BY <3>1, <3>2
  <2>3. contested' \subseteq Hookable
    BY <1>3, <1>6, LifecycleAssumption DEF TableInv, TableOwned
  <2>4. ASSUME NEW i \in Installed'
        PROVE  free_entries[i] \in contested' \cup (Entries \ {hook})
    <3>1. CASE i = k
      BY <1>1, <1>3, <1>6, <3>1, Targets
    <3>2. CASE i # k
      BY <1>3, <1>4, <3>2 DEF TableInv, TableOwned
    <3> QED
      BY <3>1, <3>2
  <2> QED
    BY <1>3, <2>1, <2>2, <2>3, <2>4 DEF TableInv, TableOwned
<1>8. ASSUME NEW d \in Entries \ contested'
      PROVE  table'[d] = Rightful(d)'
  <2>1. \A i, j \in Installed' : free_entries'[i] = free_entries'[j] => i = j
    BY <1>2, <1>3, <1>4 DEF EntriesFound
  <2>2. CASE d = e
    <3>1. k \in Installed' /\ free_entries'[k] = d
      BY <1>1, <1>3, <1>4, <2>2
    <3>2. Rightful(d)' = Own(k - 1)
      BY <2>1, <3>1 DEF Rightful
    <3> QED
      BY <1>0, <1>3, <1>5, <2>2, <3>2
  <2>3. CASE d # e
    <3>1. table'[d] = table[d] /\ table[d] = Rightful(d)
      BY <1>3, <1>5, <1>8, <2>3 DEF TableInv, TableAccounted
    <3>2. \A i \in Installed' : free_entries'[i] = d <=>
            i \in Installed /\ free_entries[i] = d
      BY <1>1, <1>3, <1>4, <2>3
    <3>3. CASE \E i \in Installed : free_entries[i] = d
      <4>1. PICK i \in Installed : free_entries[i] = d
        BY <3>3
      <4>2. Rightful(d) = Own(i - 1)
        BY <4>1, RightfulIs
      <4>3. i \in Installed' /\ free_entries'[i] = d
        BY <1>3, <1>4, <4>1
      <4>4. Rightful(d)' = Own(i - 1)
        BY <2>1, <4>3 DEF Rightful
      <4> QED
        BY <3>1, <4>2, <4>4
    <3>4. CASE \A i \in Installed : free_entries[i] # d
      BY <1>3, <3>1, <3>2, <3>4 DEF Rightful
    <3> QED
      BY <3>3, <3>4
  <2> QED
    BY <2>2, <2>3
<1> QED
  BY <1>7, <1>8 DEF TableInv, TableAccounted

(* removeAllSyscall gives the last entry it counts back.                   *)
LEMMA RemoveTable ==
  ASSUME TypeOK, EntriesFound, TableInv, RemoveSyscall
  PROVE  TableInv'
<1>1. CASE ~MoreToRemove
  BY <1>1
  DEF RemoveSyscall, others, TableInv, TableOwned, TableAccounted, Rightful,
      Installed
<1>2. CASE MoreToRemove
  <2>0. PICK k \in 1 .. 4 : k = nextFree
    BY <1>2 DEF MoreToRemove, TypeOK
  <2>1. PICK e \in FreeEntries : e = free_entries[k]
    BY <2>0 DEF EntriesFound
  <2>2. /\ table' = [table EXCEPT ![e] = Ni] /\ nextFree' = k - 1
        /\ UNCHANGED <<free_entries, hook, contested>>
    BY <1>2, <2>0, <2>1 DEF RemoveSyscall, EntryToRestore, others
  <2>3. /\ Installed = Installed' \cup {k}
        /\ \A i \in Installed' : i \in 1 .. 4 /\ free_entries[i] # e
    BY <2>0, <2>1, <2>2 DEF Installed, EntriesFound, TypeOK
  <2>4. /\ e \in Entries
        /\ table \in [Entries -> {Ni, Kernel, Hooked}
                                   \cup {Own(f) : f \in Functions4}]
    BY LifecycleAssumption DEF TypeOK
  <2>5. TableOwned'
    <3>1. \A d \in Entries : table'[d] = Ni => d \in FreeEntries
      BY <2>2, <2>4 DEF TableInv, TableOwned
    <3>2. ASSUME NEW d \in Entries, table'[d].to = "module"
          PROVE  \E i \in Installed' :
                   free_entries[i] = d /\ table'[d] = Own(i - 1)
      <4>1. d # e
        BY <2>2, <2>4, <3>2, Targets
      <4>2. PICK i \in Installed : free_entries[i] = d /\ table[d] = Own(i - 1)
        BY <2>2, <2>4, <3>2, <4>1 DEF TableInv, TableOwned
      <4> QED
        BY <2>1, <2>2, <2>3, <2>4, <4>1, <4>2
    <3> QED
      BY <2>2, <2>3, <3>1, <3>2 DEF TableInv, TableOwned
  <2>6. ASSUME NEW d \in Entries \ contested
        PROVE  table'[d] = Rightful(d)'
    <3>1. CASE d = e
      <4>1. d # hook
        BY <2>1, <2>3, <2>6, <3>1 DEF TableInv, TableOwned
      <4>2. Rightful(d)' = Ni
        BY <2>2, <2>3, <3>1, <4>1 DEF Rightful
      <4> QED
        BY <2>2, <2>4, <3>1, <4>2
    <3>2. CASE d # e
      <4>1. table'[d] = table[d] /\ table[d] = Rightful(d)
        BY <2>2, <2>4, <2>6, <3>2 DEF TableInv, TableAccounted
      <4>2. CASE \E i \in Installed : free_entries[i] = d
        <5>1. PICK i \in Installed : free_entries[i] = d
          BY <4>2
        <5>2. Rightful(d) = Own(i - 1)
          BY <5>1, RightfulIs
        <5>3. i \in Installed' /\ free_entries'[i] = d
          BY <2>1, <2>2, <2>3, <3>2, <5>1
        <5>4. \A j \in Installed' : free_entries'[j] = d => j = i
          BY <2>2, <2>3, <5>1, <5>3 DEF EntriesFound, Installed, TypeOK
        <5>5. Rightful(d)' = Own(i - 1)
          BY <5>3, <5>4 DEF Rightful
        <5> QED
          BY <4>1, <5>2, <5>5
      <4>3. CASE \A i \in Installed : free_entries[i] # d
        <5>1. \A i \in Installed' : free_entries'[i] # d
          BY <2>2, <2>3, <4>3
        <5> QED
          BY <2>2, <4>1, <4>3, <5>1 DEF Rightful
      <4> QED
        BY <4>2, <4>3
    <3> QED
      BY <3>1, <3>2
  <2> QED
    BY <2>2, <2>5, <2>6 DEF TableInv, TableAccounted
<1> QED
  BY <1>1, <1>2

(* The neighbour hooks an entry that is free, and takes its hook back.     *)
LEMMA HookTable ==
  ASSUME TypeOK, EntriesFound, TableInv,
         Unhook \/ \E e \in Hookable : Hook(e)
  PROVE  TableInv'
<1>0. /\ UNCHANGED <<free_entries, nextFree, contested>>
      /\ table \in [Entries -> {Ni, Kernel, Hooked}
                                 \cup {Own(f) : f \in Functions4}]
      /\ Hookable \subseteq FreeEntries /\ FreeEntries \subseteq Entries
      /\ NULL \notin Entries
  BY LifecycleAssumption DEF Unhook, Hook, globals, TypeOK
<1>1. Installed' = Installed
  BY <1>0 DEF Installed
<1>2. ASSUME NEW e \in Hookable, Hook(e) PROVE TableInv'
  <2>1. /\ hook = NULL /\ table[e] = Ni /\ hook' = e
        /\ table' = [table EXCEPT ![e] = Hooked]
    BY <1>2 DEF Hook
  <2>2. \A i \in Installed : free_entries[i] = e => e \in contested
    <3>1. ASSUME NEW i \in Installed, free_entries[i] = e, e \notin contested
          PROVE  FALSE
      <4>1. table[e] = Own(i - 1)
        BY <1>0, <3>1, RightfulIs DEF TableInv, TableAccounted
      <4>2. i - 1 \in Functions4
        BY DEF Installed, Functions4
      <4> QED
        BY <2>1, <4>1, <4>2, Targets
    <3> QED
      BY <3>1
  <2>3. TableOwned'
    <3>1. \A d \in Entries : table'[d] = Ni => d \in FreeEntries
      BY <1>0, <2>1 DEF TableInv, TableOwned
    <3>2. ASSUME NEW d \in Entries, table'[d].to = "module"
          PROVE  \E i \in Installed :
                   free_entries[i] = d /\ table'[d] = Own(i - 1)
      <4>1. d # e
        BY <1>0, <2>1, <3>2, Targets
      <4> QED
        BY <1>0, <2>1, <3>2, <4>1 DEF TableInv, TableOwned
    <3>3. \A i \in Installed : free_entries[i] \in contested \cup (Entries \ {e})
      BY <1>0, <2>2 DEF TableInv, TableOwned
    <3> QED
      BY <1>0, <1>1, <2>1, <3>1, <3>2, <3>3 DEF TableInv, TableOwned
  <2>4. ASSUME NEW d \in Entries \ contested
        PROVE  table'[d] = Rightful(d)'
    <3>1. CASE d = e
      <4>1. Rightful(d)' = Hooked
        BY <1>0, <1>1, <2>1, <2>2, <2>4, <3>1 DEF Rightful
      <4> QED
        BY <1>0, <2>1, <3>1, <4>1
    <3>2. CASE d # e
      <4>1. table'[d] = Rightful(d)
        BY <1>0, <2>1, <2>4, <3>2 DEF TableInv, TableAccounted
      <4>2. Rightful(d)' = Rightful(d)
        BY <1>0, <1>1, <2>1, <3>2 DEF Rightful
      <4> QED
        BY <4>1, <4>2
    <3> QED
      BY <3>1, <3>2
  <2> QED
    BY <1>0, <2>3, <2>4 DEF TableInv, TableAccounted
<1>3. CASE Unhook
  <2>0. PICK e \in Hookable : e = hook
    BY <1>3 DEF Unhook, TableInv, TableOwned
  <2>1. hook' = NULL /\ table' = [table EXCEPT ![e] = Ni]
    BY <1>3, <2>0 DEF Unhook
  <2>2. \A i \in Installed : free_entries[i] = e => e \in contested
    BY <2>0 DEF TableInv, TableOwned
  <2>3. TableOwned'
    <3>1. \A d \in Entries : table'[d] = Ni => d \in FreeEntries
      BY <1>0, <2>1 DEF TableInv, TableOwned
    <3>2. ASSUME NEW d \in Entries, table'[d].to = "module"
          PROVE  \E i \in Installed :
                   free_entries[i] = d /\ table'[d] = Own(i - 1)
      <4>1. d # e
        BY <1>0, <2>1, <3>2, Targets
      <4> QED
        BY <1>0, <2>1, <3>2, <4>1 DEF TableInv, TableOwned
    <3>3. \A i \in Installed :
            free_entries[i] \in contested \cup (Entries \ {NULL})
      BY <1>0, <2>0, <2>2 DEF TableInv, TableOwned
    <3> QED
      BY <1>0, <1>1, <2>1, <3>1, <3>2, <3>3 DEF TableInv, TableOwned
  <2>4. ASSUME NEW d \in Entries \ contested
        PROVE  table'[d] = Rightful(d)'
    <3>1. CASE d = e
      <4>1. Rightful(d)' = Ni
        BY <1>0, <1>1, <2>1, <2>2, <2>4, <3>1 DEF Rightful
      <4> QED
        BY <1>0, <2>1, <3>1, <4>1
    <3>2. CASE d # e
      <4>1. table'[d] = Rightful(d)
        BY <1>0, <2>1, <2>4, <3>2 DEF TableInv, TableAccounted
      <4>2. Rightful(d)' = Rightful(d)
        BY <1>0, <1>1, <2>0, <2>1, <2>4, <3>2 DEF Rightful
      <4> QED
        BY <4>1, <4>2
    <3> QED
      BY <3>1, <3>2
  <2> QED
    BY <1>0, <2>3, <2>4 DEF TableInv, TableAccounted
<1> QED
  BY <1>2, <1>3

(* The table at every step.                                                *)
LEMMA TableNext ==
  TypeOK /\ EntriesFound /\ TableInv /\ [Next]_vars => TableInv'
<1> SUFFICES ASSUME TypeOK, EntriesFound, TableInv, [Next]_vars
             PROVE  TableInv'
  OBVIOUS
<1>1. CASE AddSyscall
  BY <1>1, AddTable
<1>2. CASE RemoveSyscall
  BY <1>2, RemoveTable
<1>3. CASE Unhook \/ \E e \in Hookable : Hook(e)
  BY <1>3, HookTable
<1>4. ASSUME Installed' = {}, Installed = {}, UNCHANGED <<table, hook, contested>>
      PROVE  TableInv'
  BY <1>4 DEF TableInv, TableOwned, TableAccounted, Rightful
<1>5. ASSUME UNCHANGED <<free_entries, nextFree, table, hook, contested>>
      PROVE  TableInv'
  BY <1>5 DEF TableInv, TableOwned, TableAccounted, Rightful, Installed
<1>6. CASE Load \/ FindEntries
  <2>1. nextFree = 0 /\ nextFree' = 0 /\ UNCHANGED <<table, hook, contested>>
    BY <1>6 DEF Load, FindEntries, EntriesFound, kernel, others
  <2>2. Installed' = {} /\ Installed = {}
    BY <2>1 DEF Installed
  <2> QED
    BY <1>4, <2>1, <2>2
<1>7. CASE InitService \/ RegisterChrdev \/ CreateClass \/ CreateDevice \/ Unload
  BY <1>5, <1>7
  DEF InitService, RegisterChrdev, CreateClass, CreateDevice, Unload, kernel,
      globals, others
<1>8. CASE UnregisterFirst \/ UnregisterAgain \/ DestroyDevice \/ DestroyClass
           \/ Unmount
  BY <1>5, <1>8
  DEF UnregisterFirst, UnregisterAgain, Unregister, DestroyDevice,
      DestroyClass, Unmount, kernel, globals, others
<1>9. ASSUME NEW m \in Majors, OtherRegisters(m) PROVE TableInv'
  BY <1>5, <1>9 DEF OtherRegisters, globals
<1>10. CASE UNCHANGED <<kernel, globals, others>>
  BY <1>5, <1>10 DEF kernel, globals, others
<1> QED
  BY <1>1, <1>2, <1>3, <1>6, <1>7, <1>8, <1>9, <1>10, StepKinds, CallerFrame,
     OpenerFrame
  DEF LoaderStep, InitStep, ExitStep, OthersStep, vars

-----------------------------------------------------------------------------
(* The calls and the open files *)

(* A call gets into the module through an entry it has installed, and out  *)
(* of it, or the module is unmapped under it.                              *)
LEMMA InsideNext ==
  /\ TypeOK /\ EntriesFound /\ ServicesThere /\ TableInv /\ CallsInside
  /\ [Next]_vars
  => CallsInside'
<1> SUFFICES ASSUME TypeOK, EntriesFound, ServicesThere, TableInv, CallsInside,
                    [Next]_vars
             PROVE  CallsInside'
  OBVIOUS
<1> USE DEF CallsInside, InText
<1>1. ASSUME NEW c \in Callers, CallerStep(c) PROVE CallsInside'
  <2>1. UNCHANGED <<mod, tagServices>>
        /\ \A d \in Callers \ {c} : cpc'[d] = cpc[d]
    BY <1>1, CallerFrame DEF globals
  <2>2. InText(c)' => mod # "absent" /\ tagServices = "allocated"
    <3>1. ASSUME NEW f \in Called, Call(c, f)
          PROVE  mod # "absent" /\ tagServices = "allocated"
      <4>1. idx[c][f] \in Entries /\ table[idx[c][f]].to = "module"
        BY <3>1, LifecycleAssumption DEF Call, TypeOK
      <4>2. nextFree # 0
        BY <4>1 DEF TableInv, TableOwned, Installed
      <4>3. Found /\ mod # "absent" /\ step \notin {"find", "services"}
        BY <4>2 DEF EntriesFound
      <4> QED
        BY <4>3 DEF ServicesThere, TypeOK
    <3>2. CASE InitTBDE(c) \/ Exit(c) \/ ModulePut(c) \/ TryModuleGet(c)
               \/ ReturnWithoutPut(c) \/ ReturnFromCall(c)
      BY <3>2
      DEF InitTBDE, Exit, ModulePut, TryModuleGet, ReturnWithoutPut,
          ReturnFromCall, TypeOK
    <3> QED
      BY <1>1, <3>1, <3>2 DEF CallerStep
  <2> QED
    BY <2>1, <2>2
<1>2. CASE Load
  BY <1>2 DEF Load, callers
<1>3. CASE Unmount
  BY <1>3 DEF Unmount
<1>4. CASE LoaderStep /\ ~Load /\ ~Unmount
  <2>1. cpc' = cpc
    BY <1>4, LoaderFrame
  <2>2. mod # "absent" => mod' # "absent"
    BY <1>4
    DEF LoaderStep, InitStep, ExitStep, FindEntries, InitService, AddSyscall,
        RegisterChrdev, CreateClass, CreateDevice, Loaded, Unload,
        RemoveSyscall, UnregisterFirst, UnregisterAgain, Unregister,
        DestroyDevice, DestroyClass
  <2>3. tagServices = "allocated" => tagServices' = "allocated"
    BY <1>4
    DEF LoaderStep, InitStep, ExitStep, FindEntries, InitService, AddSyscall,
        RegisterChrdev, CreateClass, CreateDevice, Unload,
        RemoveSyscall, UnregisterFirst, UnregisterAgain, Unregister,
        DestroyDevice, DestroyClass, globals
  <2> QED
    BY <2>1, <2>2, <2>3
<1>5. CASE UNCHANGED <<cpc, mod, tagServices>>
  BY <1>5
<1> QED
  BY <1>1, <1>2, <1>3, <1>4, <1>5, StepKinds, OpenerFrame, OthersFrame
  DEF vars, globals, module, callers

(* The references of the module, of calls and of files, are finitely many. *)
LEMMA HoldersFinite ==
  /\ IsFiniteSet(Holders) /\ Cardinality(Holders) \in Nat
  /\ Cardinality(Holders) = 0 => Holders = {}
<1>1. IsFiniteSet(Callers \cup Openers)
  BY LifecycleAssumption, FS_Union
<1>2. Holders \subseteq Callers \cup Openers
  BY DEF Holders
<1>3. IsFiniteSet(Holders)
  BY <1>1, <1>2, FS_Subset
<1> QED
  BY <1>3, FS_CardinalityType, FS_EmptySet

(* The device is opened when it is registered, and an unload waits for the *)
(* files.                                                                  *)
LEMMA OpenNext ==
  /\ TypeOK /\ Control /\ ServicesThere /\ DeviceRegistered
  /\ RefsCountHolders /\ OpenersInside /\ [Next]_vars
  => OpenersInside'
<1> SUFFICES ASSUME TypeOK, Control, ServicesThere, DeviceRegistered,
                    RefsCountHolders, OpenersInside, [Next]_vars
             PROVE  OpenersInside'
  OBVIOUS
<1> USE DEF OpenersInside, Control, InitSteps, ExitSteps, Found
<1>1. ASSUME NEW o \in Openers, OpenerStep(o) PROVE OpenersInside'
  <2>1. UNCHANGED <<mod, step, free_entries>>
        /\ \A d \in Openers \ {o} : opc'[d] = opc[d]
    BY <1>1, OpenerFrame DEF globals
  <2>2. CASE Open(o)
    <3>1. mod \in {"coming", "live"} /\ step \in {"class", "node", "out"}
      BY <2>2 DEF Open, DeviceRegistered, DeviceSteps, TypeOK
    <3>2. opc'[o] = "opening"
      BY <2>2 DEF Open, TypeOK
    <3> QED
      BY <2>1, <3>1, <3>2
  <2>3. CASE DevOpen(o)
    <3>1. opc'[o] = "oopsed" => free_entries = <<>>
      BY <2>3 DEF DevOpen, TypeOK, ServicesThere
    <3>2. mod \in {"coming", "live"} /\ step \in {"class", "node", "out"}
      BY <2>3 DEF DevOpen
    <3> QED
      BY <2>1, <3>1, <3>2
  <2>4. CASE Close(o)
    BY <2>1, <2>4 DEF Close, TypeOK
  <2> QED
    BY <1>1, <2>2, <2>3, <2>4 DEF OpenerStep
<1>2. CASE LoaderStep
  <2>1. opc' = opc
    BY <1>2, LoaderFrame
  <2>2. CASE Unload
    <3>1. Holders = {}
      BY <2>2, HoldersFinite DEF Unload, MayUnload, RefsCountHolders, TypeOK
    <3>2. \A o \in Openers : opc[o] = "closed"
      BY <3>1 DEF Holders, TypeOK, OpenerPCs
    <3> QED
      BY <2>1, <3>2
  <2>3. CASE CreateClass \/ CreateDevice
    BY <2>1, <2>3 DEF CreateClass, CreateDevice, Loaded
  <2>4. CASE ~Unload /\ ~CreateClass /\ ~CreateDevice
    <3>1. ~(mod \in {"coming", "live"} /\ step \in {"class", "node", "out"})
      BY <1>2, <2>4
      DEF LoaderStep, InitStep, ExitStep, Load, FindEntries, InitService,
          AddSyscall, RegisterChrdev, RemoveSyscall, UnregisterFirst,
          UnregisterAgain, Unregister, DestroyDevice, DestroyClass, Unmount
    <3> QED
      BY <2>1, <3>1
  <2> QED
    BY <2>2, <2>3, <2>4
<1>3. CASE UNCHANGED <<opc, mod, step, free_entries>>
  BY <1>3
<1> QED
  BY <1>1, <1>2, <1>3, StepKinds, CallerFrame, OthersFrame
  DEF vars, globals, module

(* try_module_get, module_put and the references of the files.             *)
LEMMA RefsNext ==
  /\ TypeOK /\ Control /\ DeviceRegistered /\ CallsInside
  /\ NobodyInside /\ RefsCountHolders /\ [Next]_vars
  => NobodyInside' /\ RefsCountHolders'
<1> SUFFICES ASSUME TypeOK, Control, DeviceRegistered, CallsInside,
                    NobodyInside, RefsCountHolders, [Next]_vars
             PROVE  NobodyInside' /\ RefsCountHolders'
  OBVIOUS
<1>0. /\ refs = Cardinality(Holders) + leakedRefs /\ leakedRefs \in Nat
      /\ refs \in Nat
  BY HoldersFinite, LifecycleAssumption DEF RefsCountHolders, TypeOK
<1>a. ASSUME NEW x \in (Callers \cup Openers) \ Holders,
             Holders' = Holders \cup {x}, refs' = refs + 1,
             leakedRefs' = leakedRefs, mod' \in {"coming", "live"}
      PROVE  NobodyInside' /\ RefsCountHolders'
  <2>1. Cardinality(Holders \cup {x}) = Cardinality(Holders) + 1
    BY HoldersFinite, FS_AddElement
  <2>2. Cardinality(Holders) \in Nat
    BY HoldersFinite
  <2> QED
    BY <1>0, <1>a, <2>1, <2>2 DEF NobodyInside, RefsCountHolders
<1>b. ASSUME NEW x \in Holders, Holders' = Holders \ {x}, refs' = refs - 1,
             leakedRefs' = leakedRefs, mod' = mod
      PROVE  NobodyInside' /\ RefsCountHolders'
  <2>1. Cardinality(Holders \ {x}) = Cardinality(Holders) - 1
    BY HoldersFinite, FS_RemoveElement
  <2>2. Holders # {} /\ Cardinality(Holders) \in Nat
    BY HoldersFinite
  <2> QED
    BY <1>0, <1>b, <2>1, <2>2 DEF NobodyInside, RefsCountHolders
<1>c. ASSUME Holders' = Holders, refs' = refs, leakedRefs' = leakedRefs,
             mod' \in {"going", "absent"} => mod \in {"going", "absent"}
      PROVE  NobodyInside' /\ RefsCountHolders'
  BY <1>c DEF NobodyInside, RefsCountHolders
<1>1. ASSUME NEW c \in Callers, CallerStep(c)
      PROVE  NobodyInside' /\ RefsCountHolders'
  <2>1. mod' = mod /\ opc' = opc /\ \A d \in Callers \ {c} : cpc'[d] = cpc[d]
    BY <1>1, CallerFrame
  <2>2. CASE TryModuleGet(c) /\ Admitted
    <3>1. /\ cpc[c] = "fetched" /\ cpc'[c] = "in" /\ refs' = refs + 1
          /\ leakedRefs' = leakedRefs
      BY <2>2 DEF TryModuleGet, TypeOK
    <3>2. mod \in {"coming", "live"}
      BY <2>2, <3>1 DEF Admitted, CallsInside, InText, TypeOK
    <3>3. Holders' = Holders \cup {c} /\ c \notin Holders
      BY <2>1, <3>1, LifecycleAssumption DEF Holders
    <3> QED
      BY <1>a, <2>1, <3>1, <3>2, <3>3
  <2>3. CASE TryModuleGet(c) /\ ~Admitted
    <3>1. Holders = {} /\ leakedRefs = 0
      BY <2>3 DEF Admitted, NobodyInside, RefsCountHolders
    <3>2. refs = 0
      BY <1>0, <3>1, FS_EmptySet
    <3>3. /\ cpc[c] = "fetched" /\ cpc'[c] = "leaving" /\ refs' = refs
          /\ leakedRefs' = leakedRefs
      BY <2>3, <3>2 DEF TryModuleGet, TypeOK, RefsAfterRefusal, RefsAfterPut
    <3>4. Holders' = Holders
      BY <2>1, <3>3 DEF Holders
    <3> QED
      BY <1>c, <2>1, <3>3, <3>4
  <2>4. CASE ModulePut(c)
    <3>1. /\ cpc[c] = "in" /\ cpc'[c] = "leaving" /\ refs' = RefsAfterPut
          /\ leakedRefs' = leakedRefs
      BY <2>4 DEF ModulePut, TypeOK
    <3>2. Holders' = Holders \ {c} /\ c \in Holders
      BY <2>1, <3>1, LifecycleAssumption DEF Holders
    <3>3. refs > 0
      <4>1. Cardinality(Holders) # 0 /\ Cardinality(Holders) \in Nat
        BY <3>2, HoldersFinite
      <4> QED
        BY <1>0, <4>1
    <3>4. refs' = refs - 1
      BY <3>1, <3>3 DEF RefsAfterPut
    <3> QED
      BY <1>b, <2>1, <3>1, <3>2, <3>4
  <2>5. CASE ReturnWithoutPut(c)
    <3>1. /\ cpc[c] = "in" /\ cpc'[c] = "leaving" /\ refs' = refs
          /\ leakedRefs' = leakedRefs + 1
      BY <2>5 DEF ReturnWithoutPut, TypeOK, module
    <3>2. Holders' = Holders \ {c} /\ c \in Holders
      BY <2>1, <3>1, LifecycleAssumption DEF Holders
    <3>3. Cardinality(Holders') = Cardinality(Holders) - 1
      BY <3>2, HoldersFinite, FS_RemoveElement
    <3>4. Cardinality(Holders) \in Nat
      BY HoldersFinite
    <3>5. mod \notin {"going", "absent"}
      BY <3>2 DEF NobodyInside
    <3> QED
      BY <1>0, <2>1, <3>1, <3>3, <3>4, <3>5
      DEF NobodyInside, RefsCountHolders
  <2>6. CASE ~TryModuleGet(c) /\ ~ModulePut(c) /\ ~ReturnWithoutPut(c)
    <3>1. /\ cpc[c] # "in" /\ cpc'[c] # "in" /\ refs' = refs
          /\ leakedRefs' = leakedRefs
      BY <1>1, <2>6
      DEF CallerStep, Call, InitTBDE, Exit, ReturnFromCall, TypeOK, module
    <3>2. Holders' = Holders
      BY <2>1, <3>1 DEF Holders
    <3> QED
      BY <1>c, <2>1, <3>1, <3>2
  <2> QED
    BY <2>2, <2>3, <2>4, <2>5, <2>6
<1>2. ASSUME NEW o \in Openers, OpenerStep(o)
      PROVE  NobodyInside' /\ RefsCountHolders'
  <2>1. /\ mod' = mod /\ cpc' = cpc /\ leakedRefs' = leakedRefs
        /\ \A d \in Openers \ {o} : opc'[d] = opc[d]
    BY <1>2, OpenerFrame DEF callers
  <2>2. CASE Open(o)
    <3>1. opc[o] = "closed" /\ opc'[o] = "opening" /\ refs' = refs + 1
      BY <2>2 DEF Open, TypeOK
    <3>2. mod \in {"coming", "live"}
      BY <2>2 DEF Open, DeviceRegistered, TypeOK
    <3>3. Holders' = Holders \cup {o} /\ o \notin Holders
      BY <2>1, <3>1, LifecycleAssumption DEF Holders
    <3> QED
      BY <1>a, <2>1, <3>1, <3>2, <3>3
  <2>3. CASE DevOpen(o)
    <3>1. /\ opc[o] = "opening" /\ opc'[o] \in {"oopsed", "file"}
          /\ refs' = refs
      BY <2>3 DEF DevOpen, TypeOK, module
    <3>2. Holders' = Holders
      BY <2>1, <3>1 DEF Holders
    <3> QED
      BY <1>c, <2>1, <3>1, <3>2
  <2>4. CASE Close(o)
    <3>1. opc[o] = "file" /\ opc'[o] = "closed" /\ refs' = refs - 1
      BY <2>4 DEF Close, TypeOK
    <3>2. Holders' = Holders \ {o} /\ o \in Holders
      BY <2>1, <3>1, LifecycleAssumption DEF Holders
    <3> QED
      BY <1>b, <2>1, <3>1, <3>2
  <2> QED
    BY <1>2, <2>2, <2>3, <2>4 DEF OpenerStep
<1>3. CASE LoaderStep
  <2>1. /\ refs' = refs /\ opc' = opc /\ leakedRefs' = leakedRefs
        /\ Unmount \/ cpc' = cpc
    BY <1>3, LoaderFrame
  <2>2. CASE Unload
    <3>1. Cardinality(Holders) = 0 /\ leakedRefs = 0
      BY <1>0, <2>2, HoldersFinite DEF Unload, MayUnload
    <3>2. Holders = {}
      BY <3>1, HoldersFinite
    <3>3. Holders' = Holders
      BY <2>1, <2>2 DEF Unload, callers, Holders
    <3> QED
      BY <1>0, <2>1, <3>1, <3>2, <3>3 DEF NobodyInside, RefsCountHolders
  <2>3. CASE Unmount
    <3>1. mod = "going"
      BY <2>3 DEF Unmount, Control, ExitSteps
    <3>2. Holders = {}
      BY <3>1 DEF NobodyInside
    <3>3. \A d \in Callers : cpc'[d] = "in" => cpc[d] = "in"
      BY <2>3 DEF Unmount
    <3>4. Holders' = Holders
      BY <2>1, <3>2, <3>3 DEF Holders
    <3> QED
      BY <1>c, <2>1, <3>1, <3>4
  <2>4. CASE ~Unload /\ ~Unmount
    <3>1. mod' \in {"going", "absent"} => mod \in {"going", "absent"}
      BY <1>3, <2>4
      DEF LoaderStep, InitStep, ExitStep, Load, FindEntries, InitService,
          AddSyscall, RegisterChrdev, CreateClass, CreateDevice, Loaded,
          RemoveSyscall, UnregisterFirst, UnregisterAgain, Unregister,
          DestroyDevice, DestroyClass
    <3>2. Holders' = Holders
      BY <2>1, <2>4 DEF Holders
    <3> QED
      BY <1>c, <2>1, <3>1, <3>2
  <2> QED
    BY <2>2, <2>3, <2>4
<1>4. CASE UNCHANGED <<refs, cpc, leakedRefs, opc, mod>>
  <2>1. Holders' = Holders
    BY <1>4 DEF Holders
  <2> QED
    BY <1>c, <1>4, <2>1
<1> QED
  BY <1>1, <1>2, <1>3, <1>4, StepKinds, OthersFrame DEF vars, module, callers

-----------------------------------------------------------------------------
(* The numbers in sysfs *)

(* sysCallNum[f] is the entry of the call f from add_syscall to the next   *)
(* load, and so is what a program of this load has read of it.             *)
LEMMA NumbersNext ==
  /\ TypeOK /\ Control /\ EntriesFound /\ NumbersExposed /\ [Next]_vars
  => NumbersExposed'
<1> SUFFICES ASSUME TypeOK, Control, EntriesFound, NumbersExposed, [Next]_vars
             PROVE  NumbersExposed'
  OBVIOUS
<1> USE DEF TypeOK, NumbersExposed, Found
<1>1. ASSUME NEW c \in Callers, CallerStep(c) PROVE NumbersExposed'
  <2>1. /\ UNCHANGED <<mod, sysCallNum, free_entries, loads>>
        /\ \A d \in Callers \ {c} : idx'[d] = idx[d] /\ idxLoad'[d] = idxLoad[d]
    BY <1>1, CallerFrame DEF globals
  <2>2. /\ idxLoad'[c] <= loads
        /\ idxLoad'[c] = loads => \A f \in Functions4 : idx'[c][f] # 0 =>
             free_entries # <<>> /\ idx'[c][f] = free_entries[f + 1]
    <3>1. CASE InitTBDE(c)
      BY <3>1 DEF InitTBDE
    <3>2. CASE Exit(c)
      BY <3>2, LifecycleAssumption DEF Exit, Unread
    <3>3. CASE ~InitTBDE(c) /\ ~Exit(c)
      BY <1>1, <3>3
      DEF CallerStep, Call, TryModuleGet, ModulePut, ReturnWithoutPut,
          ReturnFromCall
    <3> QED
      BY <3>1, <3>2, <3>3
  <2> QED
    BY <2>1, <2>2
<1>2. CASE LoaderStep
  <2>1. idx' = idx /\ idxLoad' = idxLoad
    BY <1>2, LoaderFrame
  <2>2. CASE Load
    BY <2>1, <2>2, LifecycleAssumption DEF Load, Unread
  <2>3. CASE FindEntries
    <3>1. free_entries = <<>>
      BY <2>3 DEF FindEntries, EntriesFound
    <3>2. UNCHANGED <<mod, sysCallNum, loads>>
      BY <2>3 DEF FindEntries
    <3> QED
      BY <2>1, <3>1, <3>2
  <2>4. CASE AddSyscall
    <3>1. /\ nextFree \in Functions4 /\ free_entries # <<>>
          /\ sysCallNum' = [sysCallNum EXCEPT ![nextFree]
                                                = free_entries[nextFree + 1]]
          /\ UNCHANGED <<mod, free_entries, loads>>
      BY <2>4 DEF AddSyscall, EntriesFound, Exposed, Functions4
    <3> QED
      BY <2>1, <3>1
  <2>5. CASE ~Load /\ ~FindEntries /\ ~AddSyscall
    <3>1. UNCHANGED <<sysCallNum, free_entries, loads>>
          /\ (mod' # "absent" => mod # "absent")
      BY <1>2, <2>5
      DEF LoaderStep, InitStep, ExitStep, InitService, RegisterChrdev,
          CreateClass, CreateDevice, Loaded, Unload, RemoveSyscall,
          UnregisterFirst, UnregisterAgain, Unregister, DestroyDevice,
          DestroyClass, Unmount, globals, Control
    <3> QED
      BY <2>1, <3>1
  <2> QED
    BY <2>2, <2>3, <2>4, <2>5
<1>3. CASE UNCHANGED <<mod, sysCallNum, free_entries, loads, idx, idxLoad>>
  BY <1>3
<1> QED
  BY <1>1, <1>2, <1>3, StepKinds, OpenerFrame, OthersFrame
  DEF vars, globals, module, callers

(* The entry a program of this load goes through is that of the function   *)
(* it asks for.                                                            *)
LEMMA FunctionNext ==
  /\ TypeOK /\ EntriesFound /\ TableInv /\ NumbersExposed
  /\ CallReachesItsFunction /\ [Next]_vars
  => CallReachesItsFunction'
<1> SUFFICES ASSUME TypeOK, EntriesFound, TableInv, NumbersExposed,
                    CallReachesItsFunction, [Next]_vars
             PROVE  CallReachesItsFunction'
  OBVIOUS
<1> USE DEF CallReachesItsFunction
<1>1. ASSUME NEW c \in Callers, CallerStep(c) PROVE CallReachesItsFunction'
  <2>1. /\ loads' = loads
        /\ \A d \in Callers \ {c} :
             /\ cpc'[d] = cpc[d] /\ want'[d] = want[d]
             /\ fn'[d] = fn[d] /\ idxLoad'[d] = idxLoad[d]
    BY <1>1, CallerFrame
  <2>2. ASSUME cpc'[c] \in {"fetched", "in"}, idxLoad'[c] = loads
        PROVE  fn'[c] = want'[c]
    <3>1. ASSUME NEW f \in Called, Call(c, f) PROVE fn'[c] = want'[c]
      <4>1. f \in Functions4 /\ idx[c][f] \in Entries /\ idx[c][f] # 0
            /\ table[idx[c][f]].to = "module"
        BY <3>1, LifecycleAssumption DEF Call, TypeOK
      <4>2. Found /\ idx[c][f] = free_entries[f + 1]
        BY <2>2, <3>1, <4>1 DEF NumbersExposed, Call
      <4>3. PICK i \in Installed : /\ free_entries[i] = idx[c][f]
                                   /\ table[idx[c][f]] = Own(i - 1)
        BY <4>1 DEF TableInv, TableOwned
      <4>4. i = f + 1 /\ i - 1 = f
        BY <4>1, <4>2, <4>3 DEF EntriesFound, Installed, Functions4
      <4>5. table[idx[c][f]].fn = f
        BY <4>1, <4>3, <4>4, Targets
      <4> QED
        BY <3>1, <4>5 DEF Call, TypeOK
    <3>2. CASE TryModuleGet(c)
      BY <2>2, <3>2 DEF TryModuleGet, TypeOK
    <3>3. CASE InitTBDE(c) \/ Exit(c) \/ ModulePut(c) \/ ReturnWithoutPut(c)
               \/ ReturnFromCall(c)
      BY <2>2, <3>3
      DEF InitTBDE, Exit, ModulePut, ReturnWithoutPut, ReturnFromCall, TypeOK
    <3> QED
      BY <1>1, <3>1, <3>2, <3>3 DEF CallerStep
  <2> QED
    BY <2>1, <2>2
<1>2. CASE Load
  BY <1>2, LoaderFrame DEF Load, callers, LoaderStep, NumbersExposed, TypeOK
<1>3. CASE LoaderStep /\ ~Load
  <2>1. UNCHANGED <<want, fn, idxLoad, loads>>
    BY <1>3, LoaderFrame
  <2>2. \A c \in Callers : cpc'[c] \in {"fetched", "in"} => cpc'[c] = cpc[c]
    BY <1>3, LoaderFrame DEF Unmount
  <2> QED
    BY <2>1, <2>2
<1>4. CASE UNCHANGED <<cpc, idxLoad, loads, fn, want>>
  BY <1>4
<1> QED
  BY <1>1, <1>2, <1>3, <1>4, StepKinds, OpenerFrame, OthersFrame
  DEF vars, module, callers

-----------------------------------------------------------------------------
(* Types *)

\* The globals of the module and the state of the kernel.
KernelTypes ==
  /\ table \in [Entries -> {Ni, Kernel, Hooked} \cup {Own(f) : f \in Functions4}]
  /\ chrdev \in [Majors -> {"free", "module", "other"}]
  /\ classes \in BOOLEAN /\ node \in BOOLEAN
  /\ mod \in {"absent", "coming", "live", "going"}
  /\ step \in Steps
  /\ contested \subseteq Entries
GlobalTypes ==
  /\ free_entries = <<>> \/ free_entries \in [1 .. 4 -> Entries]
  /\ nextFree \in 0 .. 4
  /\ sysCallNum \in [Functions4 -> Entries]
  /\ tagServices \in {NULL, "allocated"}
  /\ majorNum \in Majors \cup {NULL}
  /\ class \in {NULL, "valid", "error", "destroyed"}
  /\ loads \in 0 .. MaxLoads
CallTypes ==
  /\ cpc \in [Callers -> CallerPCs]
  /\ idx \in [Callers -> [Functions4 -> Entries]]
  /\ want \in [Callers -> Functions4] /\ fn \in [Callers -> Functions4]
  /\ idxLoad \in [Callers -> 0 .. MaxLoads]
  /\ leakedRefs \in 0 .. MaxLeaks
OtherTypes ==
  /\ opc \in [Openers -> OpenerPCs]
  /\ hook \in Entries \cup {NULL}
  /\ drivers \subseteq Majors

(* TypeOK in parts.                                                        *)
LEMMA TypeParts ==
  TypeOK <=> /\ KernelTypes /\ GlobalTypes /\ CallTypes /\ OtherTypes
             /\ refs \in Nat
BY DEF TypeOK, KernelTypes, GlobalTypes, CallTypes, OtherTypes

(* The first entry is no number of a call.                                 *)
LEMMA Indices ==
  /\ 0 \in Entries /\ 0 \in Functions4 /\ Called \subseteq Functions4
  /\ Unread \in [Functions4 -> Entries] /\ 0 \in 0 .. MaxLoads
  /\ FreeEntries \subseteq Entries
<1>1. 0 \in Entries /\ 0 \in Functions4 /\ 0 \in 0 .. MaxLoads
  BY LifecycleAssumption DEF Entries, Functions4
<1> QED
  BY <1>1, LifecycleAssumption DEF Unread

(* insmod and rmmod keep the types.                                        *)
LEMMA LoaderTypes ==
  ASSUME TypeOK, Control, EntriesFound, EntriesFound', LoaderStep
  PROVE  KernelTypes' /\ GlobalTypes'
<1> USE Indices DEF TypeOK, KernelTypes, GlobalTypes, Steps
<1>1. CASE Load \/ Unload
  BY <1>1, LifecycleAssumption DEF Load, Unload, kernel, globals, others
<1>2. CASE FindEntries
  <2>1. free_entries' = <<>> \/ free_entries' \in [1 .. 4 -> Entries]
    BY LifecycleAssumption DEF EntriesFound, Found
  <2> QED
    BY <1>2, <2>1 DEF FindEntries, AfterFound, kernel, others
<1>3. CASE AddSyscall
  <2>1. PICK e \in Entries : e = free_entries[nextFree + 1]
    BY <1>3 DEF AddSyscall, EntriesFound
  <2>2. nextFree \in Functions4 /\ nextFree' \in 0 .. 4
    BY <1>3 DEF AddSyscall, EntriesFound, Functions4
  <2>3. /\ table' = [table EXCEPT ![e] = Own(nextFree)]
        /\ sysCallNum' = [sysCallNum EXCEPT ![nextFree] = e]
        /\ contested' \in {contested, contested \cup {e}}
        /\ step' \in {"chrdev", "add"}
        /\ UNCHANGED <<chrdev, classes, node, free_entries, tagServices,
                       majorNum, class, mod, loads>>
    BY <1>3, <2>1 DEF AddSyscall, Exposed
  <2> QED
    BY <2>1, <2>2, <2>3
<1>4. CASE InitService \/ RegisterChrdev
  BY <1>4 DEF InitService, RegisterChrdev, Loaded, kernel, others
<1>5. CASE CreateClass \/ CreateDevice
  BY <1>5 DEF CreateClass, CreateDevice, Loaded, kernel, others
<1>6. CASE RemoveSyscall
  <2>1. MoreToRemove => EntryToRestore \in Entries
    BY DEF MoreToRemove, EntryToRestore, EntriesFound
  <2> QED
    BY <1>6, <2>1 DEF RemoveSyscall, MoreToRemove, others
<1>7. CASE UnregisterFirst \/ UnregisterAgain
  BY <1>7
  DEF UnregisterFirst, UnregisterAgain, Unregister, Unregistered, globals,
      others
<1>8. CASE DestroyDevice
  <2>1. node' \in BOOLEAN
    BY <1>8 DEF DestroyDevice
  <2> QED
    BY <1>8, <2>1 DEF DestroyDevice, globals, others
<1>9. CASE DestroyClass
  <2>1. classes' \in BOOLEAN
    BY <1>9 DEF DestroyClass, ClassLeft
  <2> QED
    BY <1>9, <2>1 DEF DestroyClass, globals, others
<1>10. CASE Unmount
  BY <1>10 DEF Unmount, kernel, others
<1> QED
  BY <1>1, <1>2, <1>3, <1>4, <1>5, <1>6, <1>7, <1>8, <1>9, <1>10
  DEF LoaderStep, InitStep, ExitStep

(* The programs keep the types.                                            *)
LEMMA CallerTypes ==
  ASSUME TypeOK, NEW c \in Callers, CallerStep(c)
  PROVE  CallTypes'
<1> USE Indices DEF TypeOK, CallTypes, CallerPCs
<1>1. ASSUME NEW f \in Called, Call(c, f) PROVE CallTypes'
  <2>1. idx[c][f] \in Entries /\ f \in Functions4
    OBVIOUS
  <2>2. table[idx[c][f]].fn \in Functions4
    <3>1. table[idx[c][f]] \in {Ni, Kernel, Hooked} \cup {Own(g) : g \in Functions4}
      BY <2>1
    <3>2. Ni.fn = 0 /\ Kernel.fn = 0 /\ Hooked.fn = 0
      BY DEF Ni, Kernel, Hooked
    <3> QED
      BY <3>1, <3>2, Targets
  <2> QED
    BY <1>1, <2>1, <2>2 DEF Call
<1>2. CASE InitTBDE(c)
  BY <1>2 DEF InitTBDE
<1>3. CASE Exit(c)
  BY <1>3 DEF Exit
<1>4. CASE TryModuleGet(c)
  BY <1>4 DEF TryModuleGet
<1>5. CASE ModulePut(c)
  BY <1>5 DEF ModulePut
<1>6. CASE ReturnFromCall(c)
  BY <1>6 DEF ReturnFromCall, module
<1>7. CASE ReturnWithoutPut(c)
  <2>1. leakedRefs' \in 0 .. MaxLeaks
    BY <1>7, LifecycleAssumption DEF ReturnWithoutPut
  <2> QED
    BY <1>7, <2>1 DEF ReturnWithoutPut
<1> QED
  BY <1>1, <1>2, <1>3, <1>4, <1>5, <1>6, <1>7 DEF CallerStep

(* Every step keeps the types.                                             *)
LEMMA TypeNext ==
  /\ TypeOK /\ Control /\ EntriesFound /\ EntriesFound' /\ RefsCountHolders'
  /\ [Next]_vars
  => TypeOK'
<1> SUFFICES ASSUME TypeOK, Control, EntriesFound, EntriesFound',
                    RefsCountHolders', [Next]_vars
             PROVE  TypeOK'
  OBVIOUS
<1> USE DEF KernelTypes, GlobalTypes, CallTypes, OtherTypes
<1>1. KernelTypes /\ GlobalTypes /\ CallTypes /\ OtherTypes
  BY TypeParts
<1>2. SUFFICES KernelTypes' /\ GlobalTypes' /\ CallTypes' /\ OtherTypes'
  <2>1. (IsFiniteSet(Holders) /\ Cardinality(Holders) \in Nat)'
    BY HoldersFinite, PTL
  <2>2. leakedRefs' \in Nat
    BY <1>2, LifecycleAssumption
  <2>3. refs' \in Nat
    BY <2>1, <2>2 DEF RefsCountHolders
  <2> QED
    BY <1>2, <2>3 DEF TypeOK
<1>3. ASSUME NEW c \in Callers, CallerStep(c)
      PROVE  KernelTypes' /\ GlobalTypes' /\ CallTypes' /\ OtherTypes'
  BY <1>1, <1>3, CallerTypes, CallerFrame DEF kernel, globals, others
<1>4. ASSUME NEW o \in Openers, OpenerStep(o)
      PROVE  KernelTypes' /\ GlobalTypes' /\ CallTypes' /\ OtherTypes'
  <2>1. opc' \in [Openers -> OpenerPCs]
    BY <1>1, <1>4 DEF OpenerStep, Open, DevOpen, Close, OpenerPCs
  <2> QED
    BY <1>1, <1>4, <2>1, OpenerFrame DEF kernel, globals, callers, others
<1>5. CASE LoaderStep
  <2>1. CallTypes'
    BY <1>1, <1>5, LoaderFrame DEF Unmount, CallerPCs
  <2>2. OtherTypes'
    BY <1>1, <1>5, LoaderFrame
  <2> QED
    BY <1>5, <2>1, <2>2, LoaderTypes
<1>6. CASE OthersStep
  <2>1. KernelTypes' /\ OtherTypes'
    BY <1>1, <1>6, LifecycleAssumption
    DEF OthersStep, Hook, Unhook, OtherRegisters, module
  <2>2. GlobalTypes'
    <3>1. UNCHANGED <<globals, module>>
      BY <1>6, OthersFrame
    <3> QED
      BY <1>1, <3>1 DEF globals, module
  <2>3. CallTypes'
    BY <1>1, <1>6, OthersFrame DEF callers
  <2> QED
    BY <2>1, <2>2, <2>3
<1>7. CASE UNCHANGED vars
  BY <1>1, <1>7 DEF vars, kernel, globals, module, callers, others
<1> QED
  BY <1>3, <1>4, <1>5, <1>6, <1>7, StepKinds

-----------------------------------------------------------------------------
(* The results *)

(* The state after boot.                                                   *)
LEMMA LifeInit == Init => LifeInv
<1> SUFFICES ASSUME Init PROVE LifeInv
  OBVIOUS
<1> USE DEF Init
<1>0. /\ 0 \in Entries /\ 0 \in Functions4 /\ 0 \in 0 .. MaxLoads
      /\ Unread \in [Functions4 -> Entries]
  BY LifecycleAssumption, Indices
<1>1. TypeOK
  BY <1>0, LifecycleAssumption DEF TypeOK, Steps, CallerPCs, OpenerPCs
<1>2. Control /\ EntriesFound /\ ServicesThere
  BY DEF Control, InitSteps, ExitSteps, EntriesFound, Found, ServicesThere
<1>3. DeviceRegistered /\ ClassThere
  BY DEF DeviceRegistered, ClassThere
<1>4. TableOwned /\ TableAccounted
  <2>1. Installed = {}
    BY DEF Installed
  <2>2. \A e \in Entries :
          table[e] = IF e \in FreeEntries THEN Ni ELSE Kernel
    OBVIOUS
  <2>3. NULL \notin Entries
    BY LifecycleAssumption
  <2>4. TableOwned
    BY <2>1, <2>2, Targets DEF TableOwned
  <2>5. TableAccounted
    BY <2>1, <2>2, <2>3 DEF TableAccounted, Rightful
  <2> QED
    BY <2>4, <2>5
<1>5. CallsInside /\ OpenersInside /\ CallReachesItsFunction
  BY DEF CallsInside, InText, OpenersInside, CallReachesItsFunction
<1>6. NumbersExposed
  BY DEF NumbersExposed, Unread
<1>7. NobodyInside /\ RefsCountHolders
  <2>1. Holders = {}
    BY DEF Holders
  <2> QED
    BY <2>1, FS_EmptySet DEF NobodyInside, RefsCountHolders
<1> QED
  BY <1>1, <1>2, <1>3, <1>4, <1>5, <1>6, <1>7 DEF LifeInv

(* Who is where during a load and an unload, and what the table, the       *)
(* device and the references are there for.                                *)
THEOREM LifeInvariant == Spec => []LifeInv
<1>1. LifeInv /\ [Next]_vars => LifeInv'
  <2> SUFFICES ASSUME LifeInv, [Next]_vars PROVE LifeInv'
    OBVIOUS
  <2>1. EntriesFound' /\ Control'
    BY FoundNext, ControlNext DEF LifeInv
  <2>2. NobodyInside' /\ RefsCountHolders'
    BY RefsNext DEF LifeInv
  <2>3. TypeOK'
    BY <2>1, <2>2, TypeNext DEF LifeInv
  <2>4. TableOwned' /\ TableAccounted'
    BY TableNext DEF LifeInv, TableInv
  <2>5. CallsInside' /\ OpenersInside'
    BY InsideNext, OpenNext DEF LifeInv, TableInv
  <2>6. NumbersExposed' /\ CallReachesItsFunction'
    BY NumbersNext, FunctionNext DEF LifeInv, TableInv
  <2>7. DeviceRegistered' /\ ClassThere' /\ ServicesThere'
    BY DeviceNext, ClassNext, ServicesNext DEF LifeInv
  <2> QED
    BY <2>1, <2>2, <2>3, <2>4, <2>5, <2>6, <2>7 DEF LifeInv
<1> QED
  BY <1>1, LifeInit, PTL DEF Spec

(* Every variable keeps its type.                                          *)
THEOREM TypeCorrect == Spec => []TypeOK
<1>1. LifeInv => TypeOK
  BY DEF LifeInv
<1> QED
  BY <1>1, LifeInvariant, PTL

(* The reference count of the module is the number of the calls inside, of *)
(* the open files and of the returns that kept theirs (91, 103, 164, 408,  *)
(* 474), although tag_ctl puts a reference it was refused (457-458); and   *)
(* after one of those returns no unload begins.                            *)
THEOREM ReferencesCounted == Spec => []RefsCountHolders
<1>1. LifeInv => RefsCountHolders
  BY DEF LifeInv
<1> QED
  BY <1>1, LifeInvariant, PTL

(* A call that runs finds tagServices, and an open that does not is one of *)
(* a load whose finder had failed (main.c, 41-51).                         *)
THEOREM ServicesFound == Spec => []CallsFindServices
<1>1. LifeInv => CallsFindServices
  BY LifecycleAssumption
  DEF LifeInv, CallsInside, InText, OpenersInside, Found, CallsFindServices
<1> QED
  BY <1>1, LifeInvariant, PTL

(* At every step of add_syscall and removeAllSyscall an entry has its own  *)
(* call, its hook or what it had at boot, unless the neighbour's hook was  *)
(* overwritten (138-165).                                                  *)
THEOREM TableKept == Spec => []TableAccounted
<1>1. LifeInv => TableAccounted
  BY DEF LifeInv
<1> QED
  BY <1>1, LifeInvariant, PTL

(* A program with the numbers of this load calls what it asked for.        *)
THEOREM FunctionReached == Spec => []CallReachesItsFunction
<1>1. LifeInv => CallReachesItsFunction
  BY DEF LifeInv
<1> QED
  BY <1>1, LifeInvariant, PTL

(* An unload leaves no class, no device, no major and no entry behind,     *)
(* wherever the load had stopped.                                          *)
THEOREM NothingLeft == Spec => []UnloadCleansUp
<1>1. ASSUME LifeInv, mod = "absent"
      PROVE  /\ \A e \in Entries : table[e].to # "module"
             /\ tagServices = NULL /\ ~classes /\ ~node
             /\ \A m \in Majors : chrdev[m] # "module"
  <2>1. Installed = {}
    BY <1>1 DEF LifeInv, EntriesFound, Installed
  <2>2. \A e \in Entries : table[e].to # "module"
    BY <1>1, <2>1 DEF LifeInv, TableOwned
  <2>3. tagServices = NULL /\ ~classes /\ ~node
    BY <1>1 DEF LifeInv, ServicesThere, ClassThere
  <2>4. \A m \in Majors : chrdev[m] # "module"
    BY <1>1 DEF LifeInv, DeviceRegistered
  <2> QED
    BY <2>2, <2>3, <2>4
<1>2. LifeInv => UnloadCleansUp
  BY <1>1 DEF UnloadCleansUp
<1> QED
  BY <1>2, LifeInvariant, PTL

(* The module is unmapped under no open file, and under a call only before *)
(* its try_module_get or after its module_put (sysCall_Discovery.c, 161).  *)
THEOREM UnmapSpares == Spec => UnmapSparesHolders
<1>1. ASSUME LifeInv, [Next]_vars, mod # "absent", mod' = "absent"
      PROVE  /\ \A c \in Callers : cpc'[c] = "unmapped" => c \notin Holders
             /\ \A o \in Openers : opc[o] = "closed"
  <2>1. Unmount
    <3>1. CASE LoaderStep
      BY <1>1, <3>1
      DEF LoaderStep, InitStep, ExitStep, Load, FindEntries, InitService,
          AddSyscall, RegisterChrdev, CreateClass, CreateDevice, Loaded,
          Unload, RemoveSyscall, UnregisterFirst, UnregisterAgain, Unregister,
          DestroyDevice, DestroyClass
    <3>2. CASE mod' = mod
      BY <1>1, <3>2
    <3> QED
      BY <1>1, <3>1, <3>2, StepKinds, CallerFrame, OpenerFrame, OthersFrame
      DEF LifeInv, vars, module
  <2>2. mod = "going"
    BY <1>1, <2>1 DEF LifeInv, Control, ExitSteps, Unmount
  <2>3. Holders = {}
    BY <1>1, <2>2 DEF LifeInv, NobodyInside
  <2> QED
    BY <1>1, <2>2, <2>3 DEF LifeInv, OpenersInside
<1>2. LifeInv /\ [Next]_vars =>
        [mod # "absent" /\ mod' = "absent" =>
           /\ \A c \in Callers : cpc'[c] = "unmapped" => c \notin Holders
           /\ \A o \in Openers : opc[o] = "closed"]_vars
  BY <1>1
<1> QED
  BY <1>2, LifeInvariant, PTL DEF Spec, UnmapSparesHolders

=============================================================================
