------------------------------ MODULE BootHandoff ------------------------------
(***************************************************************************)
(* The UEFI loader of BootApp.c: EfiMain, InitializeFramebuffer,           *)
(* CollectPciDevices and ExitBootServicesForKernel, from the firmware's    *)
(* call of EfiMain to the first instruction of the kernel loop or to the   *)
(* return to the firmware.                                                 *)
(*                                                                         *)
(* One action per boot service the loader calls.  The firmware is          *)
(* external: it owns the memory map (a number of descriptors and a key     *)
(* that changes with every change of the map) and the pool, and its own    *)
(* timers and event handlers may change the map between any two calls of   *)
(* the loader (FirmwareEvent).  Pixels are not modelled here; Compositor   *)
(* has them.                                                               *)
(***************************************************************************)
EXTENDS Integers, Sequences, FiniteSets

CONSTANTS
  GopModes,         \* what LocateProtocol(GOP) may find, see GopMode
  HandleLists,      \* the PCI handle lists LocateHandleBuffer may return
  PciTableSize,     \* entries of KERNEL_BOOT_INFO.PciDevices (32)
  SlackDescriptors, \* descriptors added to the queried map size (8)
  DescriptorSize,   \* bytes of one EFI_MEMORY_DESCRIPTOR
  InitialMapLens,   \* descriptors in the firmware's map when EfiMain starts
  MaxMapLen,        \* bound: descriptors in the map
  MaxGrowth,        \* bound: descriptors one change adds to the map
  MaxEvents         \* bound: map changes the firmware makes on its own

\* What a PCI handle turns out to be: its protocol or its config space cannot
\* be read, it has vendor id FFFF, or it has some class code.
PciFunctions == {"unreadable", "absent", "other", "gpu", "audio"}

\* A graphics mode: whether the protocol was located, whether it has no linear
\* framebuffer, the product PixelsPerScanLine * ScreenHeight as UINT32 arithmetic
\* yields it, and the size of the framebuffer in bytes.
GopMode == [found : BOOLEAN, bltOnly : BOOLEAN, pixels : Nat, bytes : Nat]

ASSUME ModesAssumption == GopModes \subseteq GopMode

ASSUME HandlesAssumption == HandleLists \subseteq Seq(PciFunctions)

ASSUME SizesAssumption ==
  /\ PciTableSize \in Nat
  /\ SlackDescriptors \in Nat
  /\ DescriptorSize \in Nat \ {0}
  /\ InitialMapLens \subseteq Nat \ {0}
  /\ MaxMapLen \in Nat
  /\ MaxGrowth \in Nat
  /\ MaxEvents \in Nat
  /\ \A len \in InitialMapLens : len <= MaxMapLen

\* The bytes a map of len descriptors takes.
MapBytes(len) == len * DescriptorSize

VARIABLES
  pc,           \* the next step of EfiMain
  status,       \* the EFI_STATUS of the last call that decides a branch
  gop,          \* the graphics mode the firmware reports
  ShadowFramebuffer,  \* KERNEL_BOOT_INFO: the surface the scene is drawn on
  ComposeFramebuffer, \* KERNEL_BOOT_INFO: the surface the cursor is composed on
  mapInfo,      \* KERNEL_BOOT_INFO: its four fields about the memory map
  pciInfo,      \* KERNEL_BOOT_INFO: its counters and table of PCI functions
  handles,      \* CollectPciDevices: the handle list being walked
  HandleIndex,  \* CollectPciDevices: handles already walked
  mapLocals,    \* locals of ExitBootServicesForKernel, and the length of the
                \* map when its size was queried (queriedLen, history)
  fw,           \* firmware: the length and the key of its memory map
  pools,        \* firmware: live pool allocations, name -> bytes
  lastCall,     \* the last boot service called
  exitFailed,   \* an ExitBootServices call has already failed
  events        \* map changes the firmware has made on its own

surfaceVars == <<ShadowFramebuffer, ComposeFramebuffer>>
pciVars == <<pciInfo, handles, HandleIndex>>
mapVars == <<mapInfo, mapLocals>>
vars == <<pc, status, gop, ShadowFramebuffer, ComposeFramebuffer, mapInfo,
          pciInfo, handles, HandleIndex, mapLocals, fw, pools, lastCall,
          exitFailed, events>>

\* Pointers: the null pointer, a value a failed AllocatePool left behind, or
\* the name of a pool.
PoolNames == {"shadow", "compose", "handles", "map"}
Pointers == {"NULL", "garbage"} \cup PoolNames

Statuses == {"SUCCESS", "UNSUPPORTED", "NOT_FOUND", "OUT_OF_RESOURCES",
             "BUFFER_TOO_SMALL", "INVALID_PARAMETER", "OTHER"}

BootServices == {"none", "LocateProtocol", "Stall", "AllocatePool", "FreePool",
                 "LocateHandleBuffer", "PciIo", "GetMemoryMap",
                 "ExitBootServices"}

PCs == {"InitializeFramebuffer", "Prepare", "AllocShadow", "AllocCompose",
        "LocateHandles", "WalkHandles", "FreeHandles", "QueryMapSize",
        "AllocMap", "GetMap", "Exit", "kernel", "returned"}

EmptyMapInfo ==
  [MemoryMap |-> "NULL", MemoryMapSize |-> 0, MemoryMapKey |-> 0,
   MemoryDescriptorCount |-> 0]

EmptyPciInfo == [GpuCount |-> 0, AudioCount |-> 0, PciDevices |-> <<>>]

Init ==
  /\ pc = "InitializeFramebuffer"
  /\ status = "SUCCESS"
  /\ gop \in GopModes
  /\ ShadowFramebuffer = "NULL"
  /\ ComposeFramebuffer = "NULL"
  /\ mapInfo = EmptyMapInfo
  /\ pciInfo = EmptyPciInfo
  /\ handles = <<>>
  /\ HandleIndex = 0
  /\ mapLocals = [MemoryMapSize |-> 0, queriedLen |-> 0, MapKey |-> 0]
  /\ \E len \in InitialMapLens : fw = [len |-> len, key |-> 1]
  /\ pools = [p \in {} |-> 0]
  /\ lastCall = "none"
  /\ exitFailed = FALSE
  /\ events = 0

-----------------------------------------------------------------------------
(* The firmware.                                                           *)

\* Any allocation, release or event gives the map a new key and possibly a
\* different number of descriptors.
MapChanges ==
  \E len \in (IF fw.len > 1 THEN fw.len - 1 ELSE 1) .. (fw.len + MaxGrowth) :
    /\ len <= MaxMapLen
    /\ fw' = [len |-> len, key |-> fw.key + 1]

\* AllocatePool: the pool is entered under its name, or the call fails and
\* leaves in the caller's pointer whatever it likes.
AllocatePool(name, bytes, s, pointer) ==
  /\ lastCall' = "AllocatePool"
  /\ \/ /\ s = "SUCCESS" /\ pointer = name
        /\ pools' = [p \in DOMAIN pools \cup {name} |->
                       IF p = name THEN bytes ELSE pools[p]]
        /\ MapChanges
     \/ /\ s = "OUT_OF_RESOURCES" /\ pointer \in {"NULL", "garbage"}
        /\ UNCHANGED <<pools, fw>>

\* A timer tick, a hot plug or an event handler of the firmware touches the
\* map while the loader is between two calls.
FirmwareEvent ==
  /\ pc \notin {"kernel", "returned"}
  /\ events < MaxEvents
  /\ events' = events + 1
  /\ MapChanges
  /\ UNCHANGED <<pc, status, gop, surfaceVars, pciVars, mapVars, pools, lastCall,
                 exitFailed>>

-----------------------------------------------------------------------------
(* EfiMain up to the PCI scan.                                             *)

Return(s) == pc' = "returned" /\ status' = s

\* Whether InitializeFramebuffer accepts the mode: a linear framebuffer whose
\* scan lines fit into the size the firmware reports.
Accepted(mode) == ~mode.bltOnly /\ mode.pixels <= mode.bytes \div 4

InitializeFramebuffer ==
  /\ pc = "InitializeFramebuffer"
  /\ lastCall' = "LocateProtocol"
  /\ \/ ~gop.found /\ Return("NOT_FOUND")
     \/ gop.found /\ ~Accepted(gop) /\ Return("UNSUPPORTED")
     \/ /\ gop.found /\ Accepted(gop)
        /\ pc' = "Prepare" /\ status' = "SUCCESS"
  /\ UNCHANGED <<gop, surfaceVars, pciVars, mapVars, fw, pools, exitFailed, events>>

\* Splash, bootInfo reset and TSC calibration: Stall is the only service.
Prepare ==
  /\ pc = "Prepare"
  /\ ShadowFramebuffer' = "NULL"
  /\ ComposeFramebuffer' = "NULL"
  /\ mapInfo' = EmptyMapInfo
  /\ pciInfo' = EmptyPciInfo
  /\ lastCall' = "Stall"
  /\ pc' = "AllocShadow"
  /\ UNCHANGED <<status, gop, handles, HandleIndex, mapLocals, fw, pools,
                 exitFailed, events>>

\* Mutant: the pointer is taken as the failed call left it.
SurfacePointerUnchecked(s, pointer) == pointer

\* What EfiMain keeps of a surface allocation: the pointer of a successful one,
\* 0 otherwise.  (The copy of the screen into the surface is Compositor's.)
SurfacePointer(s, pointer) ==
  IF s = "SUCCESS" /\ pointer # "NULL" THEN pointer ELSE "NULL"

AllocShadow ==
  /\ pc = "AllocShadow"
  /\ \E s \in {"SUCCESS", "OUT_OF_RESOURCES"},
        pointer \in {"shadow", "NULL", "garbage"} :
       /\ AllocatePool("shadow", 4 * gop.pixels, s, pointer)
       /\ ShadowFramebuffer' = SurfacePointer(s, pointer)
       /\ status' = s
  /\ pc' = "AllocCompose"
  /\ UNCHANGED <<gop, ComposeFramebuffer, pciVars, mapVars, exitFailed, events>>

AllocCompose ==
  /\ pc = "AllocCompose"
  /\ \E s \in {"SUCCESS", "OUT_OF_RESOURCES"},
        pointer \in {"compose", "NULL", "garbage"} :
       /\ AllocatePool("compose", 4 * gop.pixels, s, pointer)
       /\ ComposeFramebuffer' = SurfacePointer(s, pointer)
       /\ status' = s
  /\ pc' = "LocateHandles"
  /\ UNCHANGED <<gop, ShadowFramebuffer, pciVars, mapVars, exitFailed, events>>

-----------------------------------------------------------------------------
(* CollectPciDevices.                                                      *)

\* The loader text and a Stall precede the scan; a failed LocateHandleBuffer
\* leaves CollectPciDevices at once and nothing is freed.
LocateHandles ==
  /\ pc = "LocateHandles"
  /\ lastCall' = "LocateHandleBuffer"
  /\ HandleIndex' = 0
  /\ \/ /\ handles' = <<>>
        /\ pc' = "QueryMapSize"
        /\ UNCHANGED <<fw, pools>>
     \/ \E list \in HandleLists :
          /\ handles' = list
          /\ pools' = [p \in DOMAIN pools \cup {"handles"} |->
                         IF p = "handles" THEN Len(list) ELSE pools[p]]
          /\ MapChanges
          /\ pc' = "WalkHandles"
  /\ UNCHANGED <<status, gop, surfaceVars, pciInfo, mapVars, exitFailed, events>>

\* Mutant: the bound of the table is off by one.
RecordFunctionOffByOne(info, index, function) ==
  [GpuCount |-> info.GpuCount + (IF function = "gpu" THEN 1 ELSE 0),
   AudioCount |-> info.AudioCount + (IF function = "gpu" THEN 0 ELSE 1),
   PciDevices |->
     IF Len(info.PciDevices) <= PciTableSize
     THEN Append(info.PciDevices, [handle |-> index, Kind |-> function])
     ELSE info.PciDevices]

\* Mutant: a function the table has no room for is not counted either.
RecordFunctionUncounted(info, index, function) ==
  IF Len(info.PciDevices) < PciTableSize
  THEN [GpuCount |-> info.GpuCount + (IF function = "gpu" THEN 1 ELSE 0),
        AudioCount |-> info.AudioCount + (IF function = "gpu" THEN 0 ELSE 1),
        PciDevices |->
          Append(info.PciDevices, [handle |-> index, Kind |-> function])]
  ELSE info

\* The PCI fields of KERNEL_BOOT_INFO after one display or audio function: the
\* counter of its kind always grows, the table only while it has room.
RecordFunction(info, index, function) ==
  [GpuCount |-> info.GpuCount + (IF function = "gpu" THEN 1 ELSE 0),
   AudioCount |-> info.AudioCount + (IF function = "gpu" THEN 0 ELSE 1),
   PciDevices |->
     IF Len(info.PciDevices) < PciTableSize
     THEN Append(info.PciDevices, [handle |-> index, Kind |-> function])
     ELSE info.PciDevices]

WalkHandle ==
  /\ pc = "WalkHandles"
  /\ HandleIndex < Len(handles)
  /\ LET function == handles[HandleIndex + 1]
     IN  pciInfo' = IF function \in {"gpu", "audio"}
                    THEN RecordFunction(pciInfo, HandleIndex + 1, function)
                    ELSE pciInfo
  /\ HandleIndex' = HandleIndex + 1
  /\ lastCall' = "PciIo"
  /\ UNCHANGED <<pc, status, gop, surfaceVars, handles, mapVars, fw, pools,
                 exitFailed, events>>

\* The loop is over: FreePool(Handles).
FreeHandles ==
  /\ pc = "WalkHandles"
  /\ HandleIndex = Len(handles)
  /\ pools' = [p \in DOMAIN pools \ {"handles"} |-> pools[p]]
  /\ MapChanges
  /\ lastCall' = "FreePool"
  /\ pc' = "QueryMapSize"
  /\ UNCHANGED <<status, gop, surfaceVars, pciVars, mapVars, exitFailed, events>>

-----------------------------------------------------------------------------
(* ExitBootServicesForKernel.                                              *)

\* GetMemoryMap with a zero size: BUFFER_TOO_SMALL and the size needed now.
\* Any other answer is returned to the caller as it is.
QueryMapSize ==
  /\ pc = "QueryMapSize"
  /\ lastCall' = "GetMemoryMap"
  /\ \/ /\ mapLocals' =
             [MemoryMapSize |-> MapBytes(fw.len) + MapBytes(SlackDescriptors),
              queriedLen |-> fw.len,
              MapKey |-> mapLocals.MapKey]
        /\ pc' = "AllocMap" /\ status' = "BUFFER_TOO_SMALL"
     \/ Return("OTHER") /\ UNCHANGED mapLocals
  /\ UNCHANGED <<gop, surfaceVars, pciVars, mapInfo, fw, pools, exitFailed,
                 events>>

\* Mutant: the slack is added to the size after the allocation, not before.
MapBufferBytesUnslacked(locals) == MapBytes(locals.queriedLen)

\* The bytes asked for the map's buffer.
MapBufferBytes(locals) == locals.MemoryMapSize

\* The buffer for the map; the allocation itself changes the map.
AllocMap ==
  /\ pc = "AllocMap"
  /\ \/ /\ AllocatePool("map", MapBufferBytes(mapLocals), "SUCCESS", "map")
        /\ pc' = "GetMap" /\ status' = "SUCCESS"
     \/ /\ AllocatePool("map", MapBufferBytes(mapLocals), "OUT_OF_RESOURCES", "NULL")
        /\ Return("OUT_OF_RESOURCES")
  /\ UNCHANGED <<gop, surfaceVars, pciVars, mapVars, exitFailed, events>>

\* Mutant: CurrentMapSize is initialised before the loop, so a later round
\* offers the size the previous round reported.
OfferedSizeReused(locals, info) ==
  IF info.MemoryMap = "map" THEN info.MemoryMapSize ELSE locals.MemoryMapSize

\* CurrentMapSize, the size offered to GetMemoryMap: the loop sets it to the
\* size of the buffer on every round.
OfferedSize(locals, info) == locals.MemoryMapSize

\* Mutant: the map is recorded by the first round only.
RecordMapOnce(info, size, key) ==
  IF info.MemoryMap = "map"
  THEN info
  ELSE [MemoryMap |-> "map", MemoryMapSize |-> size, MemoryMapKey |-> key,
        MemoryDescriptorCount |-> size \div DescriptorSize]

\* The fields of KERNEL_BOOT_INFO filled in from one successful GetMemoryMap.
RecordMap(info, size, key) ==
  [MemoryMap |-> "map", MemoryMapSize |-> size, MemoryMapKey |-> key,
   MemoryDescriptorCount |-> size \div DescriptorSize]

GetMap ==
  /\ pc = "GetMap"
  /\ lastCall' = "GetMemoryMap"
  /\ \/ /\ MapBytes(fw.len) <= OfferedSize(mapLocals, mapInfo)
        /\ mapInfo' = RecordMap(mapInfo, MapBytes(fw.len), fw.key)
        /\ mapLocals' = [MemoryMapSize |-> mapLocals.MemoryMapSize,
                         queriedLen |-> mapLocals.queriedLen,
                         MapKey |-> fw.key]
        /\ pc' = "Exit" /\ status' = "SUCCESS"
     \/ /\ MapBytes(fw.len) > OfferedSize(mapLocals, mapInfo)
        /\ Return("BUFFER_TOO_SMALL")
        /\ UNCHANGED mapVars
     \/ Return("OTHER") /\ UNCHANGED mapVars
  /\ UNCHANGED <<gop, surfaceVars, pciVars, fw, pools, exitFailed, events>>

\* Mutant: a retry allocates the buffer anew.
AfterExitFailureReallocates(s) ==
  IF s = "INVALID_PARAMETER" THEN pc' = "AllocMap" /\ status' = s
                             ELSE Return(s)

\* Mutant: every failure is retried.
AfterExitFailureAlways(s) == pc' = "GetMap" /\ status' = s

\* Where the loop goes after a failed ExitBootServices: round again on
\* INVALID_PARAMETER (the key was stale), back to the caller otherwise.
AfterExitFailure(s) ==
  IF s = "INVALID_PARAMETER" THEN pc' = "GetMap" /\ status' = s
                             ELSE Return(s)

Exit ==
  /\ pc = "Exit"
  /\ lastCall' = "ExitBootServices"
  /\ \/ /\ mapLocals.MapKey = fw.key
        /\ pc' = "kernel" /\ status' = "SUCCESS"
        /\ UNCHANGED exitFailed
     \/ /\ mapLocals.MapKey # fw.key
        /\ AfterExitFailure("INVALID_PARAMETER")
        /\ exitFailed' = TRUE
     \/ /\ AfterExitFailure("OTHER")
        /\ exitFailed' = TRUE
  /\ UNCHANGED <<gop, surfaceVars, pciVars, mapVars, fw, pools, events>>

-----------------------------------------------------------------------------
Loader ==
  \/ InitializeFramebuffer \/ Prepare
  \/ AllocShadow \/ AllocCompose
  \/ LocateHandles \/ WalkHandle \/ FreeHandles
  \/ QueryMapSize \/ AllocMap \/ GetMap \/ Exit

Next == Loader \/ FirmwareEvent

Spec == Init /\ [][Next]_vars

\* The loader is the only thread of the boot processor and calls boot services
\* that return, so it is never stopped for ever.  Nothing is assumed of the
\* firmware's own events beyond the bound MaxEvents.
FairSpec == Spec /\ WF_vars(Loader)

-----------------------------------------------------------------------------
(* Properties.                                                             *)

MapInfo ==
  [MemoryMap : Pointers, MemoryMapSize : Nat, MemoryMapKey : Nat,
   MemoryDescriptorCount : Nat]

PciEntry == [handle : Nat, Kind : PciFunctions]

PciInfo == [GpuCount : Nat, AudioCount : Nat, PciDevices : Seq(PciEntry)]

MapLocals == [MemoryMapSize : Nat, queriedLen : Nat, MapKey : Nat]

Firmware == [len : Nat \ {0}, key : Nat]

\* Types; the PCI table never holds more entries than the array
\* KERNEL_BOOT_INFO.PciDevices has.
TypeOK ==
  /\ pc \in PCs
  /\ status \in Statuses
  /\ gop \in GopModes
  /\ ShadowFramebuffer \in Pointers
  /\ ComposeFramebuffer \in Pointers
  /\ mapInfo \in MapInfo
  /\ pciInfo \in PciInfo
  /\ Len(pciInfo.PciDevices) <= PciTableSize
  /\ handles \in Seq(PciFunctions)
  /\ HandleIndex \in 0 .. Len(handles)
  /\ mapLocals \in MapLocals
  /\ fw \in Firmware
  /\ DOMAIN pools \subseteq PoolNames
  /\ pools \in [DOMAIN pools -> Nat]
  /\ lastCall \in BootServices
  /\ exitFailed \in BOOLEAN
  /\ events \in 0 .. MaxEvents

\* When the kernel loop starts, the pools still allocated are exactly the ones
\* KERNEL_BOOT_INFO points to: whichever allocations failed, no pointer of
\* bootInfo dangles and the handle buffer of the PCI scan was given back while
\* boot services were still up.
KernelOwnsItsPools ==
  pc = "kernel" =>
    DOMAIN pools = {ShadowFramebuffer, ComposeFramebuffer,
                    mapInfo.MemoryMap} \ {"NULL"}

\* The memory map handed to the kernel is the one the firmware had when boot
\* services ended, however often the map changed and the loop went round.
HandedMapIsCurrent ==
  pc = "kernel" =>
    /\ mapInfo.MemoryMapKey = fw.key
    /\ mapInfo.MemoryMapSize = MapBytes(fw.len)
    /\ mapInfo.MemoryDescriptorCount = fw.len

\* A recorded memory map lies within the pool allocated for it.
MapFitsItsBuffer ==
  mapInfo.MemoryMap = "map" =>
    /\ "map" \in DOMAIN pools
    /\ mapInfo.MemoryMapSize <= pools["map"]

\* ExitBootServicesForKernel gives up with BUFFER_TOO_SMALL only when the map
\* outgrew the slack since its size was queried; going round the loop costs
\* none of the slack.
TooSmallOnlyPastSlack ==
  (pc = "returned" /\ status = "BUFFER_TOO_SMALL") =>
    fw.len > mapLocals.queriedLen + SlackDescriptors

\* Once an ExitBootServices call has failed, the firmware is partly shut down
\* and the loader calls nothing but GetMemoryMap and ExitBootServices again.
OnlyMapServicesAfterFailedExit ==
  exitFailed => lastCall \in {"GetMemoryMap", "ExitBootServices"}

\* Among the handles walked so far: the counters are the numbers of readable
\* display and audio functions, and the table holds the first PciTableSize of
\* them in handle order.
PciTableIsPrefix ==
  LET walked(kind) == {i \in 1 .. HandleIndex : handles[i] = kind}
      relevant == walked("gpu") \cup walked("audio")
      table == pciInfo.PciDevices
      listed == {table[k].handle : k \in DOMAIN table}
  IN  pc # "InitializeFramebuffer" =>
        /\ pciInfo.GpuCount = Cardinality(walked("gpu"))
        /\ pciInfo.AudioCount = Cardinality(walked("audio"))
        /\ listed \subseteq relevant
        /\ \A k \in DOMAIN table : table[k].Kind = handles[table[k].handle]
        /\ \A j, k \in DOMAIN table : j < k => table[j].handle < table[k].handle
        /\ \A i \in relevant \ listed :
             /\ Len(table) = PciTableSize
             /\ \A h \in listed : h < i

\* The loader decides: it reaches the kernel or returns to the firmware.  A map
\* that keeps changing can send the loop round again, but only as often as the
\* firmware changes it.
HandoffDecided == <>(pc \in {"kernel", "returned"})

-----------------------------------------------------------------------------
(* What the proofs in BootHandoffProofs carry along to make the properties *)
(* inductive.                                                              *)

\* The steps at which the map's buffer is allocated and still in use.
HoldingMap == pc \in {"GetMap", "Exit", "kernel"}

\* The pools live at each step: the surfaces bootInfo points to, the handle
\* buffer during the walk, the map's buffer once allocated.
PoolInv ==
  /\ ShadowFramebuffer \in {"NULL", "shadow"}
  /\ ComposeFramebuffer \in {"NULL", "compose"}
  /\ mapInfo.MemoryMap \in {"NULL", "map"}
  /\ pc \in {"InitializeFramebuffer", "Prepare", "AllocShadow"} =>
       ShadowFramebuffer = "NULL"
  /\ pc \in {"InitializeFramebuffer", "Prepare", "AllocShadow", "AllocCompose"}
       => ComposeFramebuffer = "NULL"
  /\ ~HoldingMap /\ pc # "returned" => mapInfo.MemoryMap = "NULL"
  /\ pc \in {"Exit", "kernel"} => mapInfo.MemoryMap = "map"
  /\ pc # "returned" =>
       DOMAIN pools =
         ({ShadowFramebuffer, ComposeFramebuffer} \ {"NULL"})
         \cup (IF pc = "WalkHandles" THEN {"handles"} ELSE {})
         \cup (IF HoldingMap THEN {"map"} ELSE {})

\* The map's buffer has the queried size plus the slack, and what was recorded
\* in bootInfo is the map of its key: if the key is still current, so is the
\* size.
MapInv ==
  /\ pc = "AllocMap" \/ HoldingMap =>
       mapLocals.MemoryMapSize =
         MapBytes(mapLocals.queriedLen) + MapBytes(SlackDescriptors)
  /\ HoldingMap => pools["map"] = mapLocals.MemoryMapSize
  /\ pc \in {"Exit", "kernel"} =>
       /\ mapLocals.MapKey = mapInfo.MemoryMapKey
       /\ mapLocals.MapKey <= fw.key
       /\ mapLocals.MapKey = fw.key =>
            /\ mapInfo.MemoryMapSize = MapBytes(fw.len)
            /\ mapInfo.MemoryDescriptorCount = fw.len
  /\ pc = "kernel" => mapLocals.MapKey = fw.key

\* After a failed exit the loader is in the loop or has left it.
ExitInv == exitFailed => pc \in {"GetMap", "Exit", "kernel", "returned"}

IInv ==
  /\ TypeOK
  /\ PoolInv
  /\ MapInv
  /\ ExitInv
  /\ MapFitsItsBuffer
  /\ TooSmallOnlyPastSlack
  /\ OnlyMapServicesAfterFailedExit

=============================================================================
