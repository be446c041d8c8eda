---------------------------- MODULE ModuleLifecycle ----------------------------
(***************************************************************************)
(* Loading and unloading the module (main.c), its entries of the system    *)
(* call table (sysCall_Discovery.c) and its character device (charDev.c),  *)
(* while programs call tag_get .. tag_ctl through the numbers they read    *)
(* from sysfs (user/interface), others open the device, a neighbour module *)
(* hooks a free entry of the table the way this one does, and another      *)
(* driver registers a major number.                                        *)
(*                                                                         *)
(* One loader thread runs insmod and rmmod, one call of the init and exit  *)
(* routines per step.  What the calls do inside is in module TagRegistry.  *)
(***************************************************************************)
EXTENDS Integers, FiniteSets

CONSTANTS
  Callers,      \* programs that call the four functions
  Called,       \* the functions they call
  Openers,      \* programs that open the device
  NULL,
  LastEntry,    \* last entry of the system call table
  FreeEntries,  \* entries that point to sys_ni_syscall at boot
  Pattern,      \* entries validate_page compares (134, 174, 182, ... 236)
  Hookable,     \* entries the neighbour may hook
  Majors,       \* dynamic major numbers
  InitMayFail,  \* whether the steps of devkoInit may fail
  MaxLoads,     \* bound on the loads
  MaxLeaks      \* bound on the returns that keep a reference

Entries == 0 .. LastEntry
Functions4 == 0 .. 3   \* tag_get, tag_send, tag_receive, tag_ctl

ASSUME LifecycleAssumption ==
  /\ LastEntry \in Nat /\ MaxLoads \in Nat /\ MaxLeaks \in Nat
  /\ FreeEntries \subseteq Entries \ {0}
  /\ Pattern \subseteq FreeEntries /\ Hookable \subseteq FreeEntries
  /\ Cardinality(FreeEntries \ Hookable) >= 4
  /\ Called \subseteq Functions4
  /\ NULL \notin Majors \cup Entries /\ NULL # "allocated"
  /\ IsFiniteSet(Callers) /\ IsFiniteSet(Openers) /\ Callers \cap Openers = {}
  /\ InitMayFail \in BOOLEAN

VARIABLES
  table,                  \* the system call table
  chrdev,                 \* who registered each major number
  classes, node,          \* is the class registered, has /dev the device
  mod, refs,              \* state and reference count of the module
  step,                   \* what the loader does next
  free_entries, nextFree, sysCallNum, tagServices, majorNum, class,
  loads,                  \* counter of the bound
  hook,                   \* the entry the neighbour has hooked
  cpc, idx, want, fn,     \* a caller: sysCallIndex, the call it makes
  opc,                    \* an opener
  idxLoad,     \* history: the load a caller's numbers are from
  leakedRefs,  \* history: calls that returned and kept their reference
  contested,   \* history: hooks of the neighbour that add_syscall overwrote
  drivers      \* majors the other driver has registered

kernel  == <<table, chrdev, classes, node>>
globals == <<free_entries, nextFree, sysCallNum, tagServices, majorNum, class>>
module  == <<mod, refs, step, loads>>
callers == <<cpc, idx, want, fn, idxLoad, leakedRefs>>
others  == <<hook, contested, drivers>>
vars == <<kernel, globals, module, callers, opc, others>>

Ni     == [to |-> "sys_ni_syscall", fn |-> 0]
Kernel == [to |-> "kernel", fn |-> 0]
Hooked == [to |-> "neighbour", fn |-> 0]
Own(f) == [to |-> "module", fn |-> f]

Unread == [f \in Functions4 |-> 0]

Init ==
  /\ table = [e \in Entries |-> IF e \in FreeEntries THEN Ni ELSE Kernel]
  /\ chrdev = [m \in Majors |-> "free"]
  /\ classes = FALSE /\ node = FALSE
  /\ mod = "absent" /\ refs = 0 /\ step = "out" /\ loads = 0
  /\ free_entries = <<>> /\ nextFree = 0 /\ sysCallNum = Unread
  /\ tagServices = NULL /\ majorNum = NULL /\ class = NULL
  /\ hook = NULL /\ contested = {} /\ drivers = {}
  /\ cpc = [c \in Callers |-> "new"]
  /\ idx = [c \in Callers |-> Unread]
  /\ want = [c \in Callers |-> 0] /\ fn = [c \in Callers |-> 0]
  /\ idxLoad = [c \in Callers |-> 0] /\ leakedRefs = 0
  /\ opc = [o \in Openers |-> "closed"]

-----------------------------------------------------------------------------
(* insmod: init_module_Default *)

\* The module's data is zeroed: a new image is mapped.
Load ==
  /\ step = "out" /\ mod = "absent" /\ loads < MaxLoads
  /\ mod' = "coming" /\ step' = "find" /\ loads' = loads + 1
  /\ free_entries' = <<>> /\ nextFree' = 0 /\ sysCallNum' = Unread
  /\ tagServices' = NULL /\ majorNum' = NULL /\ class' = NULL
  /\ UNCHANGED <<kernel, refs, callers, opc, others>>

\* syscall_table_finder recognises the table by its pattern.
TableFound == \A e \in Pattern : table[e] = Ni

Free == {e \in Entries : table[e] = Ni}
NthFree(i) == CHOOSE e \in Free : Cardinality({d \in Free : d < e}) = i - 1
FirstFree(n) == [i \in 1 .. n |-> NthFree(i)]

\* What follows when there are free entries.
AfterFound_NoServices == "add"
AfterFound == "services"

\* foundFree_entries(4): -1 without a table, and the calls are left out.
FindEntries ==
  /\ step = "find"
  /\ \/ /\ TableFound
        /\ free_entries' = FirstFree(4)
        /\ step' = AfterFound
     \/ /\ ~TableFound
        /\ step' = "chrdev"
        /\ UNCHANGED free_entries
  /\ UNCHANGED <<kernel, nextFree, sysCallNum, tagServices, majorNum, class,
                 mod, refs, loads, callers, opc, others>>

InitService ==
  /\ step = "services"
  /\ tagServices' = "allocated"
  /\ step' = "add"
  /\ UNCHANGED <<kernel, free_entries, nextFree, sysCallNum, majorNum, class,
                 mod, refs, loads, callers, opc, others>>

\* sysCallNum[num] = add_syscall(f), once for each num from 0.
Exposed_Shifted(e) == [sysCallNum EXCEPT ![(nextFree + 1) % 4] = e]
Exposed(e) == [sysCallNum EXCEPT ![nextFree] = e]

\* exposeNewSyscall(f, nextFree): the entry may have been hooked since it was
\* found free.
AddSyscall ==
  /\ step = "add"
  /\ LET e == free_entries[nextFree + 1] IN
       /\ table' = [table EXCEPT ![e] = Own(nextFree)]
       /\ sysCallNum' = Exposed(e)
       /\ contested' = IF table[e] = Ni THEN contested ELSE contested \cup {e}
  /\ nextFree' = nextFree + 1
  /\ step' = IF nextFree' = 4 THEN "chrdev" ELSE "add"
  /\ UNCHANGED <<chrdev, classes, node, free_entries, tagServices, majorNum,
                 class, mod, refs, loads, callers, opc, hook, drivers>>

\* The result of devkoInit is ignored: the module is loaded in any case.
Loaded == mod' = "live" /\ step' = "out"

RegisterChrdev ==
  /\ step = "chrdev"
  /\ \/ /\ InitMayFail \/ \A m \in Majors : chrdev[m] # "free"
        /\ Loaded
        /\ UNCHANGED <<chrdev, majorNum>>
     \/ \E m \in Majors :
          /\ chrdev[m] = "free"
          /\ chrdev' = [chrdev EXCEPT ![m] = "module"]
          /\ majorNum' = m
          /\ step' = "class" /\ UNCHANGED mod
  /\ UNCHANGED <<table, classes, node, free_entries, nextFree, sysCallNum,
                 tagServices, class, refs, loads, callers, opc, others>>

\* unregister_chrdev_region(devNo, 1) is no undo of register_chrdev, which
\* took all the 256 minors: the device stays registered.
CreateClass ==
  /\ step = "class"
  /\ \/ /\ InitMayFail
        /\ class' = "error"
        /\ Loaded
        /\ UNCHANGED classes
     \/ /\ class' = "valid"
        /\ classes' = TRUE
        /\ step' = "node" /\ UNCHANGED mod
  /\ UNCHANGED <<table, chrdev, node, free_entries, nextFree, sysCallNum,
                 tagServices, majorNum, refs, loads, callers, opc, others>>

CreateDevice ==
  /\ step = "node"
  /\ \/ node' = TRUE /\ UNCHANGED <<class, classes>>
     \/ /\ InitMayFail
        /\ class' = "destroyed" /\ classes' = FALSE
        /\ UNCHANGED node
  /\ Loaded
  /\ UNCHANGED <<table, chrdev, free_entries, nextFree, sysCallNum,
                 tagServices, majorNum, refs, loads, callers, opc, others>>

-----------------------------------------------------------------------------
(* rmmod: cleanup_module_Default *)

MayUnload == refs = 0

Unload ==
  /\ step = "out" /\ mod = "live"
  /\ MayUnload
  /\ mod' = "going" /\ step' = "remove"
  /\ UNCHANGED <<kernel, globals, refs, loads, callers, opc, others>>

\* The test of removeAllSyscall's loop.
MoreToRemove == nextFree > 0

EntryToRestore_First == free_entries[1]
EntryToRestore == free_entries[nextFree]

RemoveSyscall ==
  /\ step = "remove"
  /\ \/ /\ MoreToRemove
        /\ table' = [table EXCEPT ![EntryToRestore] = Ni]
        /\ nextFree' = nextFree - 1
        /\ UNCHANGED step
     \/ /\ ~MoreToRemove
        /\ step' = "unregister"
        /\ UNCHANGED <<table, nextFree>>
  /\ UNCHANGED <<chrdev, classes, node, free_entries, sysCallNum, tagServices,
                 majorNum, class, mod, refs, loads, callers, opc, others>>

\* unregister_chrdev takes the major off whoever has it.
Unregistered == [m \in Majors |-> IF m = majorNum THEN "free" ELSE chrdev[m]]

Unregister(from, to) ==
  /\ step = from
  /\ chrdev' = Unregistered
  /\ step' = to
  /\ UNCHANGED <<table, classes, node, globals, mod, refs, loads, callers, opc,
                 others>>

UnregisterFirst == Unregister("unregister", "destroy")
UnregisterAgain == Unregister("again", "unmount")

\* device_destroy and class_destroy accept NULL.  An ERR_PTR faults; a freed
\* class may fault, or pass for a class that is no longer there.
ClassAccepted_NotNull == class \in {"valid", "destroyed"}
ClassAccepted == class \in {"valid", NULL, "destroyed"}

DestroyDevice ==
  /\ step = "destroy"
  /\ \/ ClassAccepted /\ step' = "declass"
     \/ class \in {"error", "destroyed"} /\ step' = "dead"
  /\ node' = (node /\ class # "valid")
  /\ UNCHANGED <<table, chrdev, classes, globals, mod, refs, loads, callers,
                 opc, others>>

ClassLeft_Forgotten == classes
ClassLeft == classes /\ class # "valid"

DestroyClass ==
  /\ step = "declass"
  /\ \/ step' = "again"
     \/ class = "destroyed" /\ step' = "dead"
  /\ classes' = ClassLeft
  /\ UNCHANGED <<table, chrdev, node, globals, mod, refs, loads, callers, opc,
                 others>>

\* unmountRCU, after which the kernel unmaps the module under the callers
\* that are in its text: they have fetched the entry and not yet returned.
InText(c) == cpc[c] \in {"fetched", "in", "leaving"}

Unmount ==
  /\ step = "unmount"
  /\ tagServices' = NULL
  /\ mod' = "absent" /\ step' = "out"
  /\ cpc' = [c \in Callers |-> IF InText(c) THEN "unmapped" ELSE cpc[c]]
  /\ UNCHANGED <<kernel, free_entries, nextFree, sysCallNum, majorNum, class,
                 refs, loads, idx, want, fn, idxLoad, leakedRefs, opc, others>>

-----------------------------------------------------------------------------
(* Callers: initTBDE, then tag_get .. tag_ctl of interface.c *)

\* The parameter is in sysfs as long as the module is there.
InitTBDE(c) ==
  /\ cpc[c] = "new"
  /\ mod # "absent"
  /\ idx' = [idx EXCEPT ![c] = sysCallNum]
  /\ idxLoad' = [idxLoad EXCEPT ![c] = loads]
  /\ cpc' = [cpc EXCEPT ![c] = "ready"]
  /\ UNCHANGED <<kernel, globals, module, want, fn, leakedRefs, opc, others>>

Exit(c) ==
  /\ cpc[c] = "ready"
  /\ cpc' = [cpc EXCEPT ![c] = "new"]
  /\ idx' = [idx EXCEPT ![c] = Unread]
  /\ idxLoad' = [idxLoad EXCEPT ![c] = 0]
  /\ UNCHANGED <<kernel, globals, module, want, fn, leakedRefs, opc, others>>

\* The call loads the entry its number designates.  Index 0 exits instead;
\* an entry that is not this module's answers by itself (ENOSYS, or what the
\* neighbour does).
Call(c, f) ==
  /\ cpc[c] = "ready"
  /\ idx[c][f] # 0
  /\ table[idx[c][f]].to = "module"
  /\ want' = [want EXCEPT ![c] = f]
  /\ fn' = [fn EXCEPT ![c] = table[idx[c][f]].fn]
  /\ cpc' = [cpc EXCEPT ![c] = "fetched"]
  /\ UNCHANGED <<kernel, globals, module, idx, idxLoad, leakedRefs, opc,
                 others>>

\* module_put does not go below zero.
RefsAfterPut_Twice == IF refs > 1 THEN refs - 2 ELSE 0
RefsAfterPut == IF refs > 0 THEN refs - 1 ELSE refs

\* try_module_get fails in a module that is going; tag_ctl then calls
\* module_put.
RefsAfterRefusal_BelowZero(c) == IF fn[c] = 3 THEN refs - 1 ELSE refs
RefsAfterRefusal(c) == IF fn[c] = 3 THEN RefsAfterPut ELSE refs

Admitted_Unchecked == TRUE
Admitted == mod # "going"

TryModuleGet(c) ==
  /\ cpc[c] = "fetched"
  /\ \/ /\ Admitted
        /\ refs' = refs + 1
        /\ cpc' = [cpc EXCEPT ![c] = "in"]
     \/ /\ ~Admitted
        /\ refs' = RefsAfterRefusal(c)
        /\ cpc' = [cpc EXCEPT ![c] = "leaving"]
  /\ UNCHANGED <<kernel, globals, mod, step, loads, idx, want, fn, idxLoad,
                 leakedRefs, opc, others>>

ModulePut(c) ==
  /\ cpc[c] = "in"
  /\ refs' = RefsAfterPut
  /\ cpc' = [cpc EXCEPT ![c] = "leaving"]
  /\ UNCHANGED <<kernel, globals, mod, step, loads, idx, want, fn, idxLoad,
                 leakedRefs, opc, others>>

\* Returns of tag_get (91, 103, 164) and tag_ctl (408, 474) without it.
ReturnWithoutPut(c) ==
  /\ cpc[c] = "in"
  /\ fn[c] \in {0, 3}
  /\ leakedRefs < MaxLeaks
  /\ leakedRefs' = leakedRefs + 1
  /\ cpc' = [cpc EXCEPT ![c] = "leaving"]
  /\ UNCHANGED <<kernel, globals, module, idx, want, fn, idxLoad, opc, others>>

ReturnFromCall(c) ==
  /\ cpc[c] = "leaving"
  /\ cpc' = [cpc EXCEPT ![c] = "ready"]
  /\ want' = [want EXCEPT ![c] = 0]
  /\ fn' = [fn EXCEPT ![c] = 0]
  /\ UNCHANGED <<kernel, globals, module, idx, idxLoad, leakedRefs, opc,
                 others>>

-----------------------------------------------------------------------------
(* The device: chrdev_open takes a reference of its owner for the file *)

Open(o) ==
  /\ opc[o] = "closed"
  /\ \E m \in Majors : chrdev[m] = "module"
  /\ mod # "going"
  /\ refs' = refs + 1
  /\ opc' = [opc EXCEPT ![o] = "opening"]
  /\ UNCHANGED <<kernel, globals, mod, step, loads, callers, others>>

\* scan_Service reads tagServices[i] without a test of tagServices.
DevOpen(o) ==
  /\ opc[o] = "opening"
  /\ opc' = [opc EXCEPT ![o] = IF tagServices = NULL THEN "oopsed" ELSE "file"]
  /\ UNCHANGED <<kernel, globals, module, callers, others>>

Close(o) ==
  /\ opc[o] = "file"
  /\ refs' = refs - 1
  /\ opc' = [opc EXCEPT ![o] = "closed"]
  /\ UNCHANGED <<kernel, globals, mod, step, loads, callers, others>>

-----------------------------------------------------------------------------
(* The neighbour and the other driver *)

Hook(e) ==
  /\ hook = NULL /\ table[e] = Ni
  /\ hook' = e
  /\ table' = [table EXCEPT ![e] = Hooked]
  /\ UNCHANGED <<chrdev, classes, node, globals, module, callers, opc,
                 contested, drivers>>

Unhook ==
  /\ hook # NULL
  /\ table' = [table EXCEPT ![hook] = Ni]
  /\ hook' = NULL
  /\ UNCHANGED <<chrdev, classes, node, globals, module, callers, opc,
                 contested, drivers>>

OtherRegisters(m) ==
  /\ chrdev[m] = "free" /\ m \notin drivers
  /\ chrdev' = [chrdev EXCEPT ![m] = "other"]
  /\ drivers' = drivers \cup {m}
  /\ UNCHANGED <<table, classes, node, globals, module, callers, opc, hook,
                 contested>>

-----------------------------------------------------------------------------
InitStep ==
  \/ FindEntries \/ InitService \/ AddSyscall
  \/ RegisterChrdev \/ CreateClass \/ CreateDevice

ExitStep ==
  \/ RemoveSyscall \/ UnregisterFirst \/ DestroyDevice \/ DestroyClass
  \/ UnregisterAgain \/ Unmount

CallerStep(c) ==
  \/ InitTBDE(c) \/ Exit(c) \/ \E f \in Called : Call(c, f)
  \/ TryModuleGet(c) \/ ModulePut(c) \/ ReturnWithoutPut(c)
  \/ ReturnFromCall(c)

OpenerStep(o) == Open(o) \/ DevOpen(o) \/ Close(o)

Next ==
  \/ Load \/ InitStep \/ Unload \/ ExitStep
  \/ \E c \in Callers : CallerStep(c)
  \/ \E o \in Openers : OpenerStep(o)
  \/ \E e \in Hookable : Hook(e)
  \/ Unhook
  \/ \E m \in Majors : OtherRegisters(m)

Spec == Init /\ [][Next]_vars

(* insmod and rmmod run to their end; nothing makes anybody call them.     *)
FairSpec == Spec /\ WF_vars(InitStep) /\ WF_vars(ExitStep)

-----------------------------------------------------------------------------
CallerPCs == {"new", "ready", "fetched", "in", "leaving", "unmapped"}
OpenerPCs == {"closed", "opening", "file", "oopsed"}
Steps == {"out", "find", "services", "add", "chrdev", "class", "node",
          "remove", "unregister", "destroy", "declass", "again", "unmount",
          "dead"}

TypeOK ==
  /\ table \in [Entries -> {Ni, Kernel, Hooked} \cup {Own(f) : f \in Functions4}]
  /\ chrdev \in [Majors -> {"free", "module", "other"}]
  /\ classes \in BOOLEAN /\ node \in BOOLEAN
  /\ mod \in {"absent", "coming", "live", "going"}
  /\ refs \in Nat /\ step \in Steps /\ loads \in 0 .. MaxLoads
  /\ free_entries = <<>> \/ free_entries \in [1 .. 4 -> Entries]
  /\ nextFree \in 0 .. 4
  /\ sysCallNum \in [Functions4 -> Entries]
  /\ tagServices \in {NULL, "allocated"}
  /\ majorNum \in Majors \cup {NULL}
  /\ class \in {NULL, "valid", "error", "destroyed"}
  /\ hook \in Entries \cup {NULL}
  /\ cpc \in [Callers -> CallerPCs] /\ opc \in [Openers -> OpenerPCs]
  /\ idx \in [Callers -> [Functions4 -> Entries]]
  /\ want \in [Callers -> Functions4] /\ fn \in [Callers -> Functions4]
  /\ idxLoad \in [Callers -> 0 .. MaxLoads]
  /\ leakedRefs \in 0 .. MaxLeaks
  /\ contested \subseteq Entries /\ drivers \subseteq Majors

Holders == {c \in Callers : cpc[c] = "in"}
             \cup {o \in Openers : opc[o] \in {"opening", "file", "oopsed"}}

(* The references of the module are the calls in progress, the open files  *)
(* and the returns that kept theirs (91, 103, 164, 408, 474), though       *)
(* tag_ctl puts one it did not get (457-458).  After the first of those    *)
(* returns the module is never unloaded.                                   *)
RefsCountHolders ==
  /\ refs = Cardinality(Holders) + leakedRefs
  /\ mod \in {"going", "absent"} => leakedRefs = 0

(* The module is unmapped under no open file, and under no call but one in *)
(* the two gaps no reference covers: it has fetched the entry before       *)
(* removeAllSyscall took it out (sysCall_Discovery.c, 161) and not got to  *)
(* try_module_get, or called module_put (or was refused) and not returned. *)
UnmapSparesHolders ==
  [][mod # "absent" /\ mod' = "absent" =>
       /\ \A c \in Callers : cpc'[c] = "unmapped" => c \notin Holders
       /\ \A o \in Openers : opc[o] = "closed"]_vars

(* A call that runs finds the table of services (main.c, 42): it is        *)
(* allocated before the entries are installed and freed after the last     *)
(* reference is gone.  An open of the device finds none only if the finder *)
(* failed and the init went on to register the device (main.c, 41-51).     *)
CallsFindServices ==
  /\ \A c \in Callers : cpc[c] = "in" => tagServices # NULL
  /\ \A o \in Openers : opc[o] = "oopsed" => free_entries = <<>>

Installed == {i \in 1 .. 4 : i <= nextFree}
Rightful(e) ==
  IF \E i \in Installed : free_entries[i] = e
  THEN Own((CHOOSE i \in Installed : free_entries[i] = e) - 1)
  ELSE IF e = hook THEN Hooked
  ELSE IF e \in FreeEntries THEN Ni ELSE Kernel

(* At every moment of a load or an unload (138-165) the table has the      *)
(* calls installed so far, the neighbour's hook, and the kernel's own      *)
(* entries in all the rest; but for a hook that was set between            *)
(* foundFree_entries and add_syscall.                                      *)
TableAccounted ==
  \A e \in Entries \ contested : table[e] = Rightful(e)

(* A program whose numbers are of this load calls the function it asked    *)
(* for.  With numbers of an earlier load it may call another (the entries  *)
(* shift when the neighbour hooked one in between).                        *)
CallReachesItsFunction ==
  \A c \in Callers :
    cpc[c] \in {"fetched", "in"} /\ idxLoad[c] = loads => fn[c] = want[c]

(* Unloading leaves nothing behind, however far devkoInit had got          *)
(* (devkoExit undoes all its steps), and no entry of the table that points *)
(* into the module, contested or not.                                      *)
UnloadCleansUp ==
  mod = "absent" =>
    /\ \A e \in Entries : table[e].to # "module"
    /\ tagServices = NULL
    /\ ~classes /\ ~node
    /\ \A m \in Majors : chrdev[m] # "module"

(* An unload that has begun ends, unless a step of devkoInit had failed    *)
(* after the registration and left class invalid.                          *)
UnloadEnds ==
  mod = "going" ~> (mod = "absent" \/ class \in {"error", "destroyed"})

=============================================================================
