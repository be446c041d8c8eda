-------------------------- MODULE StatusDeviceProofs --------------------------
(***************************************************************************)
(* What holds of StatusDevice for any number of readers of the file, any   *)
(* size of the text and any calls of the threads beside it: the text stays *)
(* in its pages, the scan goes astray for four reasons only, and reads     *)
(* deliver the text.                                                       *)
(***************************************************************************)
EXTENDS StatusDevice, TagRegistryProofs

\* The device only adds to the system calls.
LEMMA DeviceKeepsCalls ==
  /\ DevInit => Init
  /\ [DevNext]_allVars => [Next]_vars
<1>1. DevInit => Init
  BY DEF DevInit
<1>2. DevNext => Next \/ UNCHANGED vars
  BY DEF DevNext, RegistryStep, DevOpen, ScanStep, ScanSlot, LoadService,
         PrintLine, DevRelease, ReadBegin, CopyToUser, ReadReturn
<1>3. UNCHANGED allVars => UNCHANGED vars
  BY DEF allVars
<1>4. QED BY <1>1, <1>2, <1>3

\* So the theorems of TagRegistry hold beside the device.
LEMMA CallsUndisturbed == DevSpec => Spec
BY DeviceKeepsCalls, PTL DEF DevSpec, Spec

-----------------------------------------------------------------------------
(* The scan *)

FilePCs == {"closed", "slot", "load", "print", "open", "oopsed"}

\* Where the scan is, and how much it has printed.
ScanTypes ==
  /\ fpc \in FilePCs
  /\ slot \in 0 .. min_sys_TAG_Services
  /\ fpc \in {"load", "print"} => slot \in Slots
  /\ writeLen \in 0 .. STATUS_SIZE_MAX
  /\ fpc = "closed" => writeLen = 0
  /\ Scanning => writeLen < STATUS_SIZE_MAX
  /\ astray \in BOOLEAN /\ removing \in BOOLEAN

\* As long as nothing is removed the scan stands on a service of the table.
ScanOnService ==
  DirtySlots = {} =>
    /\ \A i \in Slots : tagServices[i] # Wild
    /\ Intact /\ ~removing =>
         /\ ~astray
         /\ fpc \in {"load", "print"} => tagServices[slot] # NULL
         /\ fpc = "print" => ptr = tagServices[slot]

ScanInv == ScanTypes /\ ScanOnService

-----------------------------------------------------------------------------
(* The reads *)

\* A read copies a part of the text, up to where it stands.
ReadTypes ==
  /\ f_pos \in Nat /\ f_pos <= writeLen
  /\ dpc \in [DevReaders -> {"idle", "copy"}]
  /\ pos \in [DevReaders -> Nat] /\ len \in [DevReaders -> Nat]
  /\ offset \in [DevReaders -> Nat]
  /\ delivered \in [Offsets -> 0 .. 2]
  /\ \A d \in Busy : /\ fpc = "open" /\ offset[d] <= len[d]
                     /\ pos[d] + len[d] <= writeLen

\* What is before the place of a read, or of the file, was delivered.
NothingSkipped ==
  \A k \in Offsets :
    /\ k < f_pos => delivered[k] > 0
    /\ \A d \in Busy : k < pos[d] + offset[d] => delivered[k] > 0

\* Without overlaps one read is the only one, and what is after its place
\* was not delivered.
NothingTwice ==
  ~overlapped =>
    /\ \A d, e \in Busy : d = e
    /\ \A k \in Offsets : delivered[k] < 2
    /\ \A k \in Offsets : Busy = {} /\ k >= f_pos => delivered[k] = 0
    /\ \A k \in Offsets : \A d \in Busy :
         k >= pos[d] + offset[d] => delivered[k] = 0

\* Before the text is there nothing has been read of it.
NoTextNoRead == fpc # "open" => f_pos = 0

ReadInv == ReadTypes /\ NothingSkipped /\ NothingTwice

-----------------------------------------------------------------------------
(* Proofs of the scan *)

\* The quotient of a division is what the division leaves.
LEMMA DivUnique ==
  ASSUME NEW W \in Nat, W > 0, NEW q \in Int, NEW r \in 0 .. W - 1
  PROVE  (W * q + r) \div W = q
OBVIOUS

\* One byte less than the size still maps all of its pages.
LEMMA WholePages ==
  ASSUME DeviceAssumption
  PROVE  Mapped = STATUS_SIZE_MAX
<1>1. /\ PAGE \in Nat /\ PAGE > 1 /\ STATUS_SIZE_MAX \in Nat
      /\ STATUS_SIZE_MAX % PAGE = 0
  BY DEF DeviceAssumption
<1>2. PICK q \in Int : STATUS_SIZE_MAX = PAGE * q
  <2>1. /\ STATUS_SIZE_MAX \div PAGE \in Int
        /\ STATUS_SIZE_MAX
             = PAGE * (STATUS_SIZE_MAX \div PAGE) + (STATUS_SIZE_MAX % PAGE)
    BY <1>1
  <2>2. QED BY <1>1, <2>1
<1>3. PAGE - 2 \in 0 .. PAGE - 1
  BY <1>1
<1>4. STATUS_SIZE_MAX - 1 + PAGE - 1 = PAGE * q + (PAGE - 2)
  BY <1>1, <1>2
<1>5. (PAGE * q + (PAGE - 2)) \div PAGE = q
  <2>1. PAGE > 0
    BY <1>1
  <2>2. QED BY <1>1, <1>2, <1>3, <2>1, DivUnique
<1>6. Mapped = q * PAGE
  BY <1>4, <1>5 DEF Mapped, StatusSize
<1>7. q * PAGE = PAGE * q
  BY <1>1
<1>8. QED BY <1>2, <1>6, <1>7

\* scnprintf leaves room for the last NUL, and loses nothing it has written.
LEMMA PrintedFits ==
  ASSUME NEW n \in Nat, writeLen \in Nat, writeLen < STATUS_SIZE_MAX,
         STATUS_SIZE_MAX \in Nat
  PROVE  Printed(n) \in Nat /\ Printed(n) < STATUS_SIZE_MAX
BY DEF Printed, StatusSize

ScanUnchanged == UNCHANGED <<fpc, slot, ptr, writeLen, astray, removing>>
TableUnchanged == UNCHANGED <<tagServices, alloc, rogue, freedTwice>>

\* The steps of the device leave the table alone; those of the calls, and of
\* the reads, the scan.
LEMMA DeviceSteps ==
  ASSUME DevNext
  PROVE  \/ /\ Next /\ UNCHANGED <<fpc, slot, ptr, writeLen, astray>>
            /\ removing'
                 = (removing \/ (Scanning /\ \E t \in Threads : ClearSlot(t)))
         \/ TableUnchanged /\ ScanUnchanged
         \/ TableUnchanged /\ (DevOpen \/ ScanStep \/ DevRelease)
<1>. USE DEF vars, table, object, faults, damage, scanVars, readVars,
             TableUnchanged, ScanUnchanged
<1>1. CASE RegistryStep
  BY <1>1 DEF RegistryStep
<1>2. CASE DevOpen \/ ScanStep \/ DevRelease
  BY <1>2 DEF DevOpen, ScanStep, ScanSlot, LoadService, PrintLine,
              DevRelease
<1>3. CASE \E d \in DevReaders : \/ \E n \in Lens : ReadBegin(d, n)
                                 \/ CopyToUser(d) \/ ReadReturn(d)
  BY <1>3 DEF ReadBegin, CopyToUser, ReadReturn
<1>4. QED BY <1>1, <1>2, <1>3 DEF DevNext

LEMMA ScanTypesNext ==
  ASSUME DeviceAssumption, RegistryAssumption, ScanTypes, [DevNext]_allVars
  PROVE  ScanTypes'
<1>. USE DEF ScanTypes, FilePCs, Scanning
<1>. /\ STATUS_SIZE_MAX \in Nat \ {0} /\ LineLength \in Nat
     /\ LineLength + 1 \in Nat /\ min_sys_TAG_Services \in Nat
  BY DEF DeviceAssumption, RegistryAssumption
<1>1. CASE /\ UNCHANGED <<fpc, slot, ptr, writeLen, astray>>
           /\ removing'
                = (removing \/ (Scanning /\ \E t \in Threads : ClearSlot(t)))
  <2>1. removing' \in BOOLEAN
    <3>1. CASE Scanning /\ \E t \in Threads : ClearSlot(t)
      BY <1>1, <3>1
    <3>2. CASE ~(Scanning /\ \E t \in Threads : ClearSlot(t))
      BY <1>1, <3>2
    <3>3. QED BY <3>1, <3>2
  <2>2. QED BY <1>1, <2>1
<1>2. CASE ScanUnchanged
  BY <1>2 DEF ScanUnchanged
<1>3. CASE DevOpen
  BY <1>3 DEF DevOpen, scanVars
<1>4. CASE ScanSlot
  BY <1>4 DEF ScanSlot, Slots
<1>5. CASE LoadService
  BY <1>5 DEF LoadService
<1>6. CASE PrintLine
  <2>1. /\ Printed(LineLength) \in Nat /\ Printed(LineLength + 1) \in Nat
        /\ Printed(LineLength) < STATUS_SIZE_MAX
        /\ Printed(LineLength + 1) < STATUS_SIZE_MAX
    BY <1>6, PrintedFits DEF PrintLine
  <2>2. astray' \in BOOLEAN
    <3>1. CASE BadPointer
      BY <1>6, <3>1 DEF PrintLine
    <3>2. CASE ~BadPointer
      BY <1>6, <3>2 DEF PrintLine
    <3>3. QED BY <3>1, <3>2
  <2>3. fpc = "print" /\ removing' = removing /\ slot \in Slots
    BY <1>6 DEF PrintLine
  <2>4. CASE fpc' = "oopsed" /\ UNCHANGED <<slot, line, writeLen>>
    BY <2>2, <2>3, <2>4
  <2>5. CASE /\ fpc' = "load" /\ writeLen' = Printed(LineLength)
             /\ UNCHANGED slot
    BY <2>1, <2>2, <2>3, <2>5
  <2>6. CASE /\ fpc' = "slot" /\ slot' = slot + 1
             /\ writeLen' = Printed(LineLength + 1)
    BY <2>1, <2>2, <2>3, <2>6 DEF Slots
  <2>7. QED BY <1>6, <2>4, <2>5, <2>6 DEF PrintLine
<1>7. CASE DevRelease
  <2>1. astray' \in BOOLEAN /\ removing' \in BOOLEAN
    BY <1>7 DEF DevRelease
  <2>2. fpc' = "closed" /\ slot' = slot /\ writeLen' = 0
    BY <1>7 DEF DevRelease
  <2>3. QED BY <2>1, <2>2
<1>8. CASE UNCHANGED allVars
  BY <1>8 DEF allVars, devVars, scanVars
<1>9. QED BY <1>1, <1>2, <1>3, <1>4, <1>5, <1>6, <1>7, <1>8, DeviceSteps
          DEF ScanStep

\* What a call may do to a slot while the table is intact.
LEMMA CallsAndSlots ==
  ASSUME RegistryAssumption, TypeInv, LockInv, TableInv, Next
  PROVE  /\ Intact' => Intact
         /\ \A i \in Slots : tagServices[i] # Wild => tagServices'[i] # Wild
         /\ Intact /\ (\A t \in Threads : ~ClearSlot(t)) =>
              \A i \in Slots : tagServices[i] # NULL =>
                                 tagServices'[i] = tagServices[i]
<1>1. PICK t \in Threads : Step(t)
  BY NextSteps
<1>2. Intact' => Intact
  BY <1>1, IntactStays
<1>3. NULL # Wild /\ Wild \notin Svc
  BY DEF RegistryAssumption
<1>4. CASE StoreService(t)
  <2>1. Intact => tagServices[idx[t]] = NULL
    BY <1>4 DEF TableInv, CreateOwnsSlot, StoreService, Intact
  <2>2. QED BY <1>2, <1>3, <1>4, <2>1, StoreEffect
<1>5. CASE ClearSlot(t)
  BY <1>2, <1>3, <1>5, ClearEffect
<1>6. CASE tagServices' = tagServices
  BY <1>2, <1>6
<1>7. QED BY <1>1, <1>4, <1>5, <1>6, TableSteps, FreeEffect

LEMMA ScanOnServiceNext ==
  ASSUME DeviceAssumption, RegistryAssumption, TypeInv, LockInv, TableInv,
         ScanInv, [DevNext]_allVars
  PROVE  ScanOnService'
<1>. USE DEF Intact
<1>. SUFFICES ASSUME DirtySlots = {}
     PROVE  /\ \A i \in Slots : tagServices'[i] # Wild
            /\ Intact' /\ ~removing' =>
                 /\ ~astray'
                 /\ fpc' \in {"load", "print"} => tagServices'[slot'] # NULL
                 /\ fpc' = "print" => ptr' = tagServices'[slot']
  BY DEF ScanOnService
<1>0. /\ ScanTypes
      /\ \A i \in Slots : tagServices[i] # Wild
      /\ Intact /\ ~removing =>
           /\ ~astray
           /\ fpc \in {"load", "print"} => tagServices[slot] # NULL
           /\ fpc = "print" => ptr = tagServices[slot]
  BY DEF ScanInv, ScanOnService
<1>1. CASE /\ Next /\ UNCHANGED <<fpc, slot, ptr, writeLen, astray>>
           /\ removing'
                = (removing \/ (Scanning /\ \E t \in Threads : ClearSlot(t)))
  <2>1. \A i \in Slots : tagServices'[i] # Wild
    BY <1>0, <1>1, CallsAndSlots
  <2>2. CASE Intact' /\ ~removing'
    <3>1. Intact /\ ~removing
      BY <1>1, <2>2, CallsAndSlots
    <3>2. CASE fpc \in {"load", "print"}
      <4>1. \A t \in Threads : ~ClearSlot(t)
        BY <1>1, <2>2, <3>2 DEF Scanning
      <4>2. tagServices'[slot] = tagServices[slot]
        BY <1>0, <1>1, <3>1, <3>2, <4>1, CallsAndSlots DEF ScanTypes
      <4>3. QED BY <1>0, <1>1, <2>1, <3>1, <3>2, <4>2
    <3>3. CASE fpc \notin {"load", "print"}
      BY <1>0, <1>1, <2>1, <3>1, <3>3
    <3>4. QED BY <3>2, <3>3
  <2>3. QED BY <2>1, <2>2
<1>2. CASE TableUnchanged /\ ScanUnchanged
  BY <1>0, <1>2 DEF TableUnchanged, ScanUnchanged
<1>3. CASE TableUnchanged /\ DevOpen
  BY <1>0, <1>3 DEF TableUnchanged, DevOpen, scanVars
<1>4. CASE TableUnchanged /\ ScanSlot
  BY <1>0, <1>4 DEF TableUnchanged, ScanSlot
<1>5. CASE TableUnchanged /\ LoadService
  BY <1>0, <1>5 DEF TableUnchanged, LoadService, LoadedPointer
<1>6. CASE TableUnchanged /\ PrintLine
  <2>1. fpc = "print" /\ slot \in Slots
    BY <1>0, <1>6 DEF PrintLine, ScanTypes
  <2>2. Intact /\ ~removing =>
          ptr \in Svc /\ ptr \in alloc /\ tagServices[slot] = ptr
    <3>. SUFFICES ASSUME Intact, ~removing
                  PROVE  ptr \in Svc /\ ptr \in alloc
                           /\ tagServices[slot] = ptr
      OBVIOUS
    <3>1. tagServices[slot] \in Svc /\ ptr = tagServices[slot]
      BY <1>0, <2>1 DEF TypeInv, TypeOK, Ptr
    <3>2. QED BY <2>1, <3>1 DEF TableInv, TableHoldsLiveServices
  <2>3. Intact' /\ ~removing' =>
          /\ ~astray' /\ fpc' # "print"
          /\ fpc' = "load" => slot' = slot
    BY <1>0, <1>6, <2>2 DEF PrintLine, TableUnchanged, BadPointer
  <2>4. Intact' /\ ~removing' => tagServices[slot] # NULL
    BY <1>0, <1>6, <2>1 DEF PrintLine, TableUnchanged
  <2>5. QED BY <1>0, <1>6, <2>3, <2>4 DEF TableUnchanged
<1>7. CASE TableUnchanged /\ DevRelease
  BY <1>0, <1>7 DEF TableUnchanged, DevRelease
<1>8. CASE UNCHANGED allVars
  BY <1>0, <1>8 DEF allVars, vars, table, faults, damage, devVars, scanVars
<1>9. QED BY <1>1, <1>2, <1>3, <1>4, <1>5, <1>6, <1>7, <1>8, DeviceSteps
          DEF ScanStep

(* The scan knows where it is: while nothing is removed it stands on a     *)
(* service of the table, without the lock that CREATE and REMOVE take.     *)
THEOREM ScanInvariant == DevSpec => []ScanInv
<1>1. DevInit => ScanInv
  <2>. SUFFICES ASSUME DevInit PROVE ScanInv
    OBVIOUS
  <2>1. ScanTypes
    <3>1. astray \in BOOLEAN /\ removing \in BOOLEAN
      BY DEF DevInit
    <3>2. fpc = "closed" /\ slot = 0 /\ writeLen = 0
      BY DEF DevInit
    <3>3. QED BY <3>1, <3>2, RegistryAssumption, DeviceAssumption
              DEF ScanTypes, FilePCs, Scanning, RegistryAssumption,
                  DeviceAssumption
  <2>2. ScanOnService
    BY RegistryAssumption
       DEF DevInit, Init, ScanOnService, RegistryAssumption
  <2>3. QED BY <2>1, <2>2 DEF ScanInv
<1>2. TypeInv /\ LockInv /\ TableInv /\ ScanInv /\ [DevNext]_allVars
        => ScanInv'
  BY RegistryAssumption, DeviceAssumption, ScanTypesNext, ScanOnServiceNext
     DEF ScanInv
<1>3. QED BY <1>1, <1>2, CallsUndisturbed, TypeInvariant, LockInvariant,
             TableInvariant, PTL DEF DevSpec

(* The scan strays only if a REMOVE took a service out under it, an        *)
(* AWAKE_ALL broke the lock, two REMOVEs freed one service, or kmalloc     *)
(* left a slot dirty (115-122).                                            *)
THEOREM ScanStrays == DevSpec => []ScanStraysOnlyDuringRemove
<1>1. ScanInv => ScanStraysOnlyDuringRemove
  BY DEF ScanInv, ScanOnService, ScanStraysOnlyDuringRemove
<1>2. QED BY <1>1, ScanInvariant, PTL

-----------------------------------------------------------------------------
(* Proofs of the reads *)

\* Steps that leave the reads alone, and the text while they go on.
LEMMA CallsKeepReads ==
  ASSUME ReadInv, UNCHANGED readVars, ScanTypes, ScanTypes',
         UNCHANGED <<fpc, writeLen>> \/ (f_pos = 0 /\ Busy = {})
  PROVE  ReadInv'
<1>. USE DEF readVars
<1>1. Busy' = Busy
  BY DEF Busy
<1>2. ReadTypes'
  <2>1. ReadTypes
    BY DEF ReadInv
  <2>2. CASE UNCHANGED <<fpc, writeLen>>
    BY <1>1, <2>1, <2>2 DEF ReadTypes
  <2>3. CASE f_pos = 0 /\ Busy = {}
    <3>1. f_pos' <= writeLen'
      BY <2>3 DEF ScanTypes
    <3>2. QED BY <1>1, <2>1, <2>3, <3>1 DEF ReadTypes
  <2>4. QED BY <2>2, <2>3
<1>3. NothingSkipped' /\ NothingTwice'
  BY <1>1 DEF ReadInv, NothingSkipped, NothingTwice
<1>4. QED BY <1>2, <1>3 DEF ReadInv

LEMMA ReadBeginStep ==
  ASSUME DeviceAssumption, ReadInv, ScanTypes,
         NEW d \in DevReaders, NEW n \in Lens, ReadBegin(d, n)
  PROVE  ReadInv'
<1>1. ReadTypes /\ NothingSkipped /\ NothingTwice /\ n \in Nat
  BY DEF ReadInv, DeviceAssumption
<1>2. /\ f_pos \in Nat /\ writeLen \in Nat /\ f_pos < writeLen
      /\ fpc = "open" /\ dpc[d] = "idle"
      /\ f_pos' = f_pos /\ delivered' = delivered /\ fpc' = fpc
      /\ writeLen' = writeLen
  BY <1>1 DEF ReadBegin, ReadTypes, ScanTypes, scanVars
<1>3. Clipped(n) \in Nat /\ f_pos + Clipped(n) <= writeLen
  BY <1>1, <1>2 DEF Clipped
<1>4. /\ dpc' = [dpc EXCEPT ![d] = "copy"]
      /\ pos' = [pos EXCEPT ![d] = f_pos]
      /\ len' = [len EXCEPT ![d] = Clipped(n)]
      /\ offset' = [offset EXCEPT ![d] = 0]
  BY DEF ReadBegin
<1>5. Busy' = Busy \cup {d} /\ d \notin Busy
  BY <1>1, <1>2, <1>4 DEF Busy, ReadTypes
<1>6. /\ pos'[d] = f_pos /\ len'[d] = Clipped(n) /\ offset'[d] = 0
      /\ \A e \in Busy : /\ pos'[e] = pos[e] /\ len'[e] = len[e]
                         /\ offset'[e] = offset[e]
  BY <1>1, <1>4, <1>5 DEF ReadTypes, Busy
<1>7. ReadTypes'
  <2>1. /\ dpc' \in [DevReaders -> {"idle", "copy"}]
        /\ pos' \in [DevReaders -> Nat] /\ len' \in [DevReaders -> Nat]
        /\ offset' \in [DevReaders -> Nat]
    BY <1>1, <1>2, <1>3, <1>4 DEF ReadTypes
  <2>2. \A e \in Busy' : /\ fpc' = "open" /\ offset'[e] <= len'[e]
                         /\ pos'[e] + len'[e] <= writeLen'
    BY <1>1, <1>2, <1>3, <1>5, <1>6 DEF ReadTypes
  <2>3. QED BY <1>1, <1>2, <2>1, <2>2 DEF ReadTypes
<1>8. NothingSkipped'
  BY <1>1, <1>2, <1>5, <1>6 DEF NothingSkipped
<1>9. NothingTwice'
  <2>. SUFFICES ASSUME ~overlapped' PROVE NothingTwice'
    BY DEF NothingTwice
  <2>1. ~overlapped /\ Busy = {}
    BY DEF ReadBegin
  <2>2. QED BY <1>1, <1>2, <1>5, <1>6, <2>1 DEF NothingTwice
<1>10. QED BY <1>7, <1>8, <1>9 DEF ReadInv

LEMMA CopyStep ==
  ASSUME DeviceAssumption, ReadInv, ScanTypes,
         NEW d \in DevReaders, CopyToUser(d)
  PROVE  ReadInv'
<1>1. /\ ReadTypes /\ NothingSkipped /\ NothingTwice
      /\ Offsets \subseteq Nat
  BY DEF ReadInv, Offsets, DeviceAssumption
<1>2. PICK n \in 0 .. (len[d] - offset[d]) :
        /\ offset' = [offset EXCEPT ![d] = NextOffset(d, n)]
        /\ delivered' = [k \in Offsets |->
             IF k - pos[d] - offset[d] \in 0 .. (n - 1) /\ delivered[k] < 2
             THEN delivered[k] + 1 ELSE delivered[k]]
  BY DEF CopyToUser
<1>3. /\ d \in Busy /\ offset[d] \in Nat /\ len[d] \in Nat /\ pos[d] \in Nat
      /\ offset[d] < len[d] /\ n \in Nat
  BY <1>1, <1>2 DEF CopyToUser, Busy, ReadTypes
<1>4. /\ f_pos' = f_pos /\ dpc' = dpc /\ pos' = pos /\ len' = len
      /\ fpc' = fpc /\ writeLen' = writeLen /\ overlapped' = overlapped
      /\ Busy' = Busy
  BY DEF CopyToUser, scanVars, Busy
<1>5. /\ offset'[d] = offset[d] + n /\ offset'[d] \in Nat
      /\ offset'[d] <= len[d]
      /\ \A e \in Busy \ {d} : offset'[e] = offset[e]
  BY <1>1, <1>2, <1>3 DEF NextOffset, ReadTypes, Busy
<1>6. \A k \in Offsets :
        /\ delivered[k] \in 0 .. 2 /\ delivered'[k] \in 0 .. 2
        /\ delivered[k] > 0 => delivered'[k] > 0
        /\ k \in (pos[d] + offset[d]) .. (pos[d] + offset[d] + n - 1) =>
             delivered'[k] > 0 /\ delivered'[k] <= delivered[k] + 1
        /\ k \notin (pos[d] + offset[d]) .. (pos[d] + offset[d] + n - 1) =>
             delivered'[k] = delivered[k]
  <2>. SUFFICES ASSUME NEW k \in Offsets
       PROVE
        /\ delivered[k] \in 0 .. 2 /\ delivered'[k] \in 0 .. 2
        /\ delivered[k] > 0 => delivered'[k] > 0
        /\ k \in (pos[d] + offset[d]) .. (pos[d] + offset[d] + n - 1) =>
             delivered'[k] > 0 /\ delivered'[k] <= delivered[k] + 1
        /\ k \notin (pos[d] + offset[d]) .. (pos[d] + offset[d] + n - 1) =>
             delivered'[k] = delivered[k]
    OBVIOUS
  <2>1. delivered[k] \in 0 .. 2 /\ k \in Nat
    BY <1>1 DEF ReadTypes
  <2>2. k - pos[d] - offset[d] \in 0 .. (n - 1)
          <=> k \in (pos[d] + offset[d]) .. (pos[d] + offset[d] + n - 1)
    BY <1>3, <2>1
  <2>3. delivered'[k] =
          IF k - pos[d] - offset[d] \in 0 .. (n - 1) /\ delivered[k] < 2
          THEN delivered[k] + 1 ELSE delivered[k]
    BY <1>2
  <2>4. QED BY <2>1, <2>2, <2>3
<1>7. ReadTypes'
  <2>1. delivered' \in [Offsets -> 0 .. 2]
    BY <1>2, <1>6
  <2>2. offset' \in [DevReaders -> Nat]
    BY <1>1, <1>2, <1>3 DEF ReadTypes, NextOffset
  <2>3. QED BY <1>1, <1>4, <1>5, <2>1, <2>2 DEF ReadTypes
<1>8. NothingSkipped'
  <2>. SUFFICES ASSUME NEW k \in Offsets
       PROVE  /\ k < f_pos => delivered'[k] > 0
              /\ \A e \in Busy : k < pos[e] + offset'[e] => delivered'[k] > 0
    BY <1>4 DEF NothingSkipped
  <2>1. k < f_pos => delivered'[k] > 0
    BY <1>1, <1>6 DEF NothingSkipped
  <2>2. ASSUME NEW e \in Busy, e # d, k < pos[e] + offset'[e]
        PROVE  delivered'[k] > 0
    BY <1>1, <1>5, <1>6, <2>2 DEF NothingSkipped
  <2>3. ASSUME k < pos[d] + offset'[d] PROVE delivered'[k] > 0
    <3>1. CASE k < pos[d] + offset[d]
      BY <1>1, <1>3, <1>6, <3>1 DEF NothingSkipped
    <3>2. CASE ~(k < pos[d] + offset[d])
      <4>1. k \in (pos[d] + offset[d]) .. (pos[d] + offset[d] + n - 1)
        BY <1>1, <1>3, <1>5, <2>3, <3>2
      <4>2. QED BY <1>6, <4>1
    <3>3. QED BY <3>1, <3>2
  <2>4. QED BY <2>1, <2>2, <2>3
<1>9. NothingTwice'
  <2>. SUFFICES ASSUME ~overlapped PROVE NothingTwice'
    BY <1>4 DEF NothingTwice
  <2>1. Busy = {d}
    BY <1>1, <1>3 DEF NothingTwice
  <2>2. ASSUME NEW k \in Offsets
        PROVE  /\ delivered'[k] < 2
               /\ k >= pos[d] + offset'[d] => delivered'[k] = 0
    <3>1. k \in Nat /\ delivered[k] \in 0 .. 2 /\ delivered'[k] \in 0 .. 2
      BY <1>1, <1>6 DEF ReadTypes
    <3>2. delivered[k] < 2 /\ (k >= pos[d] + offset[d] => delivered[k] = 0)
      BY <1>1, <1>3 DEF NothingTwice
    <3>3. CASE k \in (pos[d] + offset[d]) .. (pos[d] + offset[d] + n - 1)
      <4>1. k >= pos[d] + offset[d] /\ ~(k >= pos[d] + offset'[d])
        BY <1>3, <1>5, <3>1, <3>3
      <4>2. QED BY <1>6, <3>1, <3>2, <3>3, <4>1
    <3>4. CASE k \notin (pos[d] + offset[d]) .. (pos[d] + offset[d] + n - 1)
      BY <1>3, <1>5, <1>6, <3>1, <3>2, <3>4
    <3>5. QED BY <3>3, <3>4
  <2>3. QED BY <1>4, <2>1, <2>2 DEF NothingTwice
<1>10. QED BY <1>7, <1>8, <1>9 DEF ReadInv

LEMMA ReadReturnStep ==
  ASSUME DeviceAssumption, ReadInv, ScanTypes,
         NEW d \in DevReaders, ReadReturn(d)
  PROVE  ReadInv'
<1>1. /\ ReadTypes /\ NothingSkipped /\ NothingTwice
      /\ Offsets \subseteq Nat /\ writeLen \in Nat
  BY DEF ReadInv, Offsets, DeviceAssumption, ScanTypes
<1>2. /\ d \in Busy /\ offset[d] \in Nat /\ len[d] \in Nat /\ pos[d] \in Nat
      /\ offset[d] = len[d] /\ pos[d] + len[d] <= writeLen
      /\ f_pos' = pos[d] + len[d] /\ fpc = "open"
  BY <1>1 DEF ReadReturn, Busy, ReadTypes, NewPosition
<1>3. /\ fpc' = fpc /\ writeLen' = writeLen /\ overlapped' = overlapped
      /\ delivered' = delivered
      /\ dpc' = [dpc EXCEPT ![d] = "idle"]
      /\ pos' = [pos EXCEPT ![d] = 0] /\ len' = [len EXCEPT ![d] = 0]
      /\ offset' = [offset EXCEPT ![d] = 0]
  BY DEF ReadReturn, scanVars
<1>4. Busy' = Busy \ {d}
  BY <1>1, <1>3 DEF Busy, ReadTypes
<1>5. \A e \in Busy' : /\ pos'[e] = pos[e] /\ len'[e] = len[e]
                       /\ offset'[e] = offset[e] /\ e \in Busy
  BY <1>1, <1>3, <1>4 DEF ReadTypes, Busy
<1>6. ReadTypes'
  <2>1. /\ dpc' \in [DevReaders -> {"idle", "copy"}]
        /\ pos' \in [DevReaders -> Nat] /\ len' \in [DevReaders -> Nat]
        /\ offset' \in [DevReaders -> Nat]
    BY <1>1, <1>3 DEF ReadTypes
  <2>2. f_pos' \in Nat /\ f_pos' <= writeLen'
    BY <1>1, <1>2, <1>3
  <2>3. \A e \in Busy' : /\ fpc' = "open" /\ offset'[e] <= len'[e]
                         /\ pos'[e] + len'[e] <= writeLen'
    BY <1>1, <1>3, <1>5 DEF ReadTypes
  <2>4. QED BY <1>1, <1>3, <2>1, <2>2, <2>3 DEF ReadTypes
<1>7. NothingSkipped'
  BY <1>1, <1>2, <1>3, <1>5 DEF NothingSkipped
<1>8. NothingTwice'
  BY <1>1, <1>2, <1>3, <1>4, <1>5 DEF NothingTwice
<1>9. QED BY <1>6, <1>7, <1>8 DEF ReadInv

LEMMA ReleaseStep ==
  ASSUME DeviceAssumption, ReadInv, DevRelease
  PROVE  ReadInv'
<1>1. /\ Busy = {} /\ Busy' = {} /\ f_pos' = 0 /\ writeLen' = 0
      /\ delivered' = [k \in Offsets |-> 0]
      /\ UNCHANGED <<dpc, pos, len, offset>>
  BY DEF DevRelease, Busy
<1>2. Offsets \subseteq Nat
  BY DEF Offsets, DeviceAssumption
<1>3. ReadTypes'
  BY <1>1 DEF ReadInv, ReadTypes
<1>4. NothingSkipped' /\ NothingTwice'
  BY <1>1, <1>2 DEF NothingSkipped, NothingTwice
<1>5. QED BY <1>3, <1>4 DEF ReadInv

LEMMA ReadInvNext ==
  ASSUME RegistryAssumption, DeviceAssumption, ScanTypes, ScanTypes',
         NoTextNoRead, ReadInv, [DevNext]_allVars
  PROVE  ReadInv'
<1>1. CASE RegistryStep \/ UNCHANGED allVars
  BY <1>1, CallsKeepReads
     DEF RegistryStep, allVars, devVars, scanVars
<1>2. CASE DevOpen \/ ScanStep
  <2>1. UNCHANGED readVars /\ fpc # "open"
    BY <1>2 DEF DevOpen, ScanStep, ScanSlot, LoadService, PrintLine
  <2>2. f_pos = 0 /\ Busy = {}
    BY <2>1, <1>2 DEF NoTextNoRead, DevOpen, ScanStep, ScanSlot, LoadService,
                      PrintLine, ReadInv, ReadTypes
  <2>3. QED BY <2>1, <2>2, CallsKeepReads
<1>3. CASE DevRelease
  BY <1>3, ReleaseStep
<1>4. CASE \E d \in DevReaders : \/ \E n \in Lens : ReadBegin(d, n)
                                 \/ CopyToUser(d) \/ ReadReturn(d)
  BY <1>4, ReadBeginStep, CopyStep, ReadReturnStep
<1>5. QED BY <1>1, <1>2, <1>3, <1>4 DEF DevNext

LEMMA NoTextNoReadNext ==
  ASSUME ReadInv, NoTextNoRead, [DevNext]_allVars
  PROVE  NoTextNoRead'
<1>. USE DEF NoTextNoRead
<1>1. CASE RegistryStep \/ UNCHANGED allVars
  BY <1>1 DEF RegistryStep, allVars, devVars, readVars
<1>2. CASE DevOpen \/ ScanStep
  BY <1>2 DEF DevOpen, ScanStep, ScanSlot, LoadService, PrintLine, readVars
<1>3. CASE DevRelease
  BY <1>3 DEF DevRelease
<1>4. CASE \E d \in DevReaders : \/ \E n \in Lens : ReadBegin(d, n)
                                 \/ CopyToUser(d) \/ ReadReturn(d)
  <2>1. PICK d \in DevReaders : \/ \E n \in Lens : ReadBegin(d, n)
                                \/ CopyToUser(d) \/ ReadReturn(d)
    BY <1>4
  <2>2. CASE (\E n \in Lens : ReadBegin(d, n)) \/ CopyToUser(d)
    BY <2>2 DEF ReadBegin, CopyToUser
  <2>3. CASE ReadReturn(d)
    <3>1. d \in Busy /\ fpc' = fpc
      BY <2>3 DEF ReadReturn, Busy
    <3>2. fpc = "open"
      BY <3>1 DEF ReadInv, ReadTypes
    <3>3. QED BY <3>1, <3>2
  <2>4. QED BY <2>1, <2>2, <2>3
<1>5. QED BY <1>1, <1>2, <1>3, <1>4 DEF DevNext

(* Where the reads stand, and what of the text was delivered: the position *)
(* of the file, the place and the end of every read, overlapping or not.   *)
THEOREM ReadInvariant == DevSpec => [](NoTextNoRead /\ ReadInv)
<1>1. DevInit => NoTextNoRead /\ ReadInv
  <2>. SUFFICES ASSUME DevInit PROVE NoTextNoRead /\ ReadInv
    OBVIOUS
  <2>1. /\ f_pos = 0 /\ writeLen = 0 /\ Busy = {}
        /\ dpc \in [DevReaders -> {"idle", "copy"}]
        /\ pos \in [DevReaders -> Nat] /\ len \in [DevReaders -> Nat]
        /\ offset \in [DevReaders -> Nat]
        /\ delivered = [k \in Offsets |-> 0]
    BY DEF DevInit, Busy
  <2>2. Offsets \subseteq Nat
    BY DeviceAssumption DEF Offsets, DeviceAssumption
  <2>3. ReadTypes
    BY <2>1 DEF ReadTypes
  <2>4. NothingSkipped /\ NothingTwice
    BY <2>1, <2>2 DEF NothingSkipped, NothingTwice
  <2>5. QED BY <2>1, <2>3, <2>4 DEF ReadInv, NoTextNoRead
<1>2. ScanInv => ScanTypes
  BY DEF ScanInv
<1>3. ScanTypes /\ ScanTypes' /\ NoTextNoRead /\ ReadInv
        /\ [DevNext]_allVars => (NoTextNoRead /\ ReadInv)'
  BY RegistryAssumption, DeviceAssumption, ReadInvNext, NoTextNoReadNext
<1>4. QED BY <1>1, <1>2, <1>3, ScanInvariant, PTL DEF DevSpec

(* Reads skip nothing, however copy_to_user cuts them and however they     *)
(* overlap, and deliver nothing twice unless they do (charDev.c 29-51).    *)
THEOREM ReadsDeliverText == DevSpec => []TextDelivered
<1>1. ReadInv => TextDelivered
  BY DEF ReadInv, NothingSkipped, NothingTwice, TextDelivered
<1>2. QED BY <1>1, ReadInvariant, PTL

(* The text and its last NUL fit the pages that vzalloc maps for one byte  *)
(* less, whatever the lines are, and no read goes past them (113, 125).    *)
THEOREM TextFits == DevSpec => []TextInsideMapping
<1>1. ScanTypes /\ ReadInv => TextInsideMapping
  <2>. SUFFICES ASSUME ScanTypes, ReadInv PROVE TextInsideMapping
    OBVIOUS
  <2>1. Mapped = STATUS_SIZE_MAX /\ STATUS_SIZE_MAX \in Nat
    BY DeviceAssumption, WholePages DEF DeviceAssumption
  <2>2. QED BY <2>1 DEF ScanTypes, ReadInv, ReadTypes, TextInsideMapping
<1>2. ScanInv => ScanTypes
  BY DEF ScanInv
<1>3. QED BY <1>1, <1>2, ScanInvariant, ReadInvariant, PTL
=============================================================================
