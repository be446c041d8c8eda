----------------------------- MODULE StatusDevice -----------------------------
(***************************************************************************)
(* The character device (charDev.c) beside the system calls of TagRegistry.*)
(* open prints the table of services into a buffer of the file             *)
(* (scan_Service, without searchLock); read copies the buffer to user      *)
(* space; release frees it.  One file, that several threads may read.      *)
(*                                                                         *)
(* The text is a number of characters: what they say is left out, how many *)
(* there are, where they go and how often each is delivered is not.        *)
(***************************************************************************)
EXTENDS TagRegistry

CONSTANTS
  DevReaders,       \* threads that read the file
  Faulty,           \* those whose buffer may stay unmapped
  levelDeep,        \* lines of a service
  LineLength,       \* characters of a line
  STATUS_SIZE_MAX, PAGE,
  Lens              \* sizes read is called with

ASSUME DeviceAssumption ==
  /\ Faulty \subseteq DevReaders
  /\ levelDeep \in Nat \ {0} /\ LineLength \in Nat \ {0}
  /\ PAGE \in Nat /\ PAGE > 1 /\ STATUS_SIZE_MAX \in Nat \ {0}
  /\ STATUS_SIZE_MAX % PAGE = 0
  /\ Lens \subseteq Nat

VARIABLES
  fpc,                \* the file: "closed", in the steps of open, or "open"
  slot, line, ptr,    \* locals of scan_Service: i, level, a loaded pointer
  writeLen,           \* characters printed so far; then dev->size
  f_pos,
  dpc, pos, len, offset, \* a read and its locals
  delivered,          \* history: how often each character was (up to twice)
  overlapped,         \* history: two reads of the file overlapped
  removing,           \* history: a REMOVE cleared a slot during the scan
  astray              \* history: the scan dereferenced NULL or freed memory

scanVars == <<slot, line, ptr, writeLen>>
readVars == <<f_pos, dpc, pos, len, offset, delivered, overlapped>>
devVars  == <<fpc, scanVars, readVars, removing, astray>>
allVars  == <<vars, devVars>>

Offsets == 0 .. STATUS_SIZE_MAX

DevInit ==
  /\ Init
  /\ fpc = "closed"
  /\ slot = 0 /\ line = 0 /\ ptr = NULL /\ writeLen = 0
  /\ f_pos = 0
  /\ dpc = [d \in DevReaders |-> "idle"]
  /\ pos = [d \in DevReaders |-> 0]
  /\ len = [d \in DevReaders |-> 0]
  /\ offset = [d \in DevReaders |-> 0]
  /\ delivered = [k \in Offsets |-> 0]
  /\ overlapped = FALSE /\ removing = FALSE /\ astray = FALSE

-----------------------------------------------------------------------------
(* open: getModuleStatus and scan_Service *)

StatusSize_PlusOne == STATUS_SIZE_MAX + 1
StatusSize == STATUS_SIZE_MAX

\* vzalloc(*len - 1) maps whole pages.
Mapped == ((StatusSize - 1 + PAGE - 1) \div PAGE) * PAGE

\* scnprintf writes what fits before the last character, and a NUL.
Printed(n) ==
  LET room == StatusSize - writeLen - 1
  IN writeLen + (IF n < room THEN n ELSE room)

DevOpen ==
  /\ fpc = "closed"
  /\ fpc' = "slot"
  /\ UNCHANGED <<vars, scanVars, readVars, removing, astray>>

\* `if(tagServices[i] != NULL)`, and the end of the loop: text[writeLen++] is
\* the NUL, and *len the size of the text with it.
ScanSlot ==
  /\ fpc = "slot"
  /\ \/ /\ slot \in Slots /\ tagServices[slot] = NULL
        /\ slot' = slot + 1
        /\ UNCHANGED <<fpc, writeLen>>
     \/ /\ slot \in Slots /\ tagServices[slot] # NULL
        /\ fpc' = "load"
        /\ UNCHANGED <<slot, writeLen>>
     \/ /\ slot \notin Slots
        /\ fpc' = "open"
        /\ writeLen' = writeLen + 1
        /\ slot' = 0
  /\ UNCHANGED <<vars, line, ptr, readVars, removing, astray>>

\* Every line loads tagServices[i] again.
LoadedPointer == tagServices[slot]

LoadService ==
  /\ fpc = "load"
  /\ ptr' = LoadedPointer
  /\ fpc' = "print"
  /\ UNCHANGED <<vars, slot, line, writeLen, readVars, removing, astray>>

BadPointer == ptr \notin alloc

\* A line, or the line and the empty one after the last level.  NULL and wild
\* pointers fault; freed memory is printed.
PrintLine ==
  /\ fpc = "print"
  /\ astray' = (astray \/ BadPointer)
  /\ \/ /\ ptr \in {NULL, Wild}
        /\ fpc' = "oopsed"
        /\ UNCHANGED <<slot, line, writeLen>>
     \/ /\ ptr \in Svc /\ line < levelDeep - 1
        /\ fpc' = "load"
        /\ line' = line + 1
        /\ writeLen' = Printed(LineLength)
        /\ UNCHANGED slot
     \/ /\ ptr \in Svc /\ line = levelDeep - 1
        /\ fpc' = "slot"
        /\ line' = 0 /\ slot' = slot + 1
        /\ writeLen' = Printed(LineLength + 1)
  /\ ptr' = NULL
  /\ UNCHANGED <<vars, readVars, removing>>

-----------------------------------------------------------------------------
(* read *)

Busy == {d \in DevReaders : dpc[d] = "copy"}

\* A device has no lock of the position: the read works on a copy of it.
\* Past the end it returns 0 at once.
Clipped(n) == IF f_pos + n > writeLen THEN writeLen - f_pos ELSE n

ReadBegin(d, n) ==
  /\ fpc = "open"
  /\ dpc[d] = "idle"
  /\ f_pos < writeLen
  /\ dpc' = [dpc EXCEPT ![d] = "copy"]
  /\ pos' = [pos EXCEPT ![d] = f_pos]
  /\ len' = [len EXCEPT ![d] = Clipped(n)]
  /\ offset' = [offset EXCEPT ![d] = 0]
  /\ overlapped' = (overlapped \/ Busy # {})
  /\ UNCHANGED <<vars, fpc, scanVars, f_pos, delivered, removing, astray>>

\* One turn of the loop: copy_to_user may stop anywhere, and is tried again.
NextOffset_Restart(d, n) == n
NextOffset(d, n) == offset[d] + n

CopyToUser(d) ==
  /\ dpc[d] = "copy"
  /\ offset[d] < len[d]
  /\ \E n \in 0 .. (len[d] - offset[d]) :
       /\ offset' = [offset EXCEPT ![d] = NextOffset(d, n)]
       /\ delivered' = [k \in Offsets |->
            IF k - pos[d] - offset[d] \in 0 .. (n - 1) /\ delivered[k] < 2
            THEN delivered[k] + 1 ELSE delivered[k]]
  /\ UNCHANGED <<vars, fpc, scanVars, f_pos, dpc, pos, len, overlapped,
                 removing, astray>>

\* `*f_pos += len`
NewPosition_Shared(d) == f_pos + len[d]
NewPosition(d) == pos[d] + len[d]

ReadReturn(d) ==
  /\ dpc[d] = "copy"
  /\ offset[d] >= len[d]
  /\ f_pos' = NewPosition(d)
  /\ dpc' = [dpc EXCEPT ![d] = "idle"]
  /\ pos' = [pos EXCEPT ![d] = 0]
  /\ len' = [len EXCEPT ![d] = 0]
  /\ offset' = [offset EXCEPT ![d] = 0]
  /\ UNCHANGED <<vars, fpc, scanVars, delivered, overlapped, removing, astray>>

\* The kernel calls release after the last read of the file.
DevRelease ==
  /\ fpc = "open" /\ Busy = {}
  /\ fpc' = "closed"
  /\ writeLen' = 0 /\ f_pos' = 0
  /\ delivered' = [k \in Offsets |-> 0]
  /\ overlapped' = FALSE /\ removing' = FALSE /\ astray' = FALSE
  /\ UNCHANGED <<vars, slot, line, ptr, dpc, pos, len, offset>>

-----------------------------------------------------------------------------
Scanning == fpc \in {"slot", "load", "print"}
ScanStep == ScanSlot \/ LoadService \/ PrintLine

RegistryStep ==
  /\ Next
  /\ removing' = (removing \/ (Scanning /\ \E t \in Threads : ClearSlot(t)))
  /\ UNCHANGED <<fpc, scanVars, readVars, astray>>

DevNext ==
  \/ RegistryStep
  \/ DevOpen \/ ScanStep \/ DevRelease
  \/ \E d \in DevReaders : \/ \E n \in Lens : ReadBegin(d, n)
                           \/ CopyToUser(d) \/ ReadReturn(d)

DevSpec == DevInit /\ [][DevNext]_allVars

(* A read goes on; copy_to_user makes progress on a buffer that is mapped. *)
DevFairSpec ==
  /\ DevSpec
  /\ \A d \in DevReaders \ Faulty : WF_allVars(CopyToUser(d) \/ ReadReturn(d))

-----------------------------------------------------------------------------
(* scan_Service asks for one byte less than the size it fills (113, 125):  *)
(* the last NUL is written, and read back, inside the pages of the buffer. *)
TextInsideMapping ==
  /\ Scanning => writeLen < Mapped
  /\ fpc = "open" =>
       /\ writeLen <= Mapped
       /\ \A d \in Busy : pos[d] + len[d] <= writeLen

(* The scan takes no lock (115-122).  It dereferences NULL or freed memory *)
(* only if a REMOVE cleared a slot since the open began, a slot was dirty  *)
(* from the start, or a freed service was stored (an AWAKE_ALL unlocked a  *)
(* writer, or two REMOVEs freed one service): one that was removed before  *)
(* is not seen.                                                            *)
ScanStraysOnlyDuringRemove ==
  astray => removing \/ ~Intact \/ DirtySlots # {}

(* Reads of the file, one after the other or overlapping, each in several  *)
(* turns of copy_to_user (37-42), skip no character, and deliver one twice *)
(* only if two of them overlapped.                                         *)
TextDelivered ==
  \A k \in Offsets :
    /\ k < f_pos => delivered[k] > 0
    /\ ~overlapped => delivered[k] < 2

(* A read ends, whatever the other reads, the calls and the failures of    *)
(* copy_to_user do, unless its own buffer stays unmapped (40).             *)
ReadReturns ==
  \A d \in DevReaders \ Faulty : dpc[d] = "copy" ~> dpc[d] = "idle"

=============================================================================
