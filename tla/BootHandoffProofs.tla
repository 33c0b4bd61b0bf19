-------------------------- MODULE BootHandoffProofs --------------------------
(***************************************************************************)
(* Proofs about BootHandoff for every graphics mode, handle list, table    *)
(* size, slack, descriptor size and number of firmware events.             *)
(***************************************************************************)
EXTENDS BootHandoff, FiniteSetTheorems, SequenceTheorems, TLAPS

\* n * d \div d = n: the descriptor count computed from the map's size.
LEMMA DivOfProduct ==
  ASSUME NEW n \in Nat, NEW d \in Nat \ {0}
  PROVE  (n * d) \div d = n
  BY Z3

\* Multiplication by a positive number is monotonic.
LEMMA ProductOrder ==
  ASSUME NEW a \in Nat, NEW b \in Nat, NEW d \in Nat \ {0}
  PROVE  a <= b <=> a * d <= b * d
  BY Z3

LEMMA MapBytesNat ==
  ASSUME NEW n \in Nat
  PROVE  MapBytes(n) \in Nat
  BY SizesAssumption DEF MapBytes

\* A change of the map leaves the firmware's state well typed, with a larger key.
LEMMA MapChangesType ==
  ASSUME TypeOK, MapChanges
  PROVE  /\ fw' \in Firmware
         /\ fw'.key = fw.key + 1
<1>1. PICK len \in (IF fw.len > 1 THEN fw.len - 1 ELSE 1) .. (fw.len + MaxGrowth) :
             fw' = [len |-> len, key |-> fw.key + 1]
  BY DEF MapChanges
<1>2. fw \in Firmware
  BY DEF TypeOK
<1>3. len \in Nat \ {0}
  BY <1>2, SizesAssumption DEF Firmware
<1> QED
  BY <1>1, <1>2, <1>3 DEF Firmware

\* Entering a pool keeps the pool table well typed.
LEMMA AllocateType ==
  ASSUME TypeOK, NEW name \in PoolNames, NEW bytes \in Nat, NEW s, NEW pointer,
         AllocatePool(name, bytes, s, pointer)
  PROVE  /\ DOMAIN pools' \subseteq PoolNames
         /\ pools' \in [DOMAIN pools' -> Nat]
         /\ lastCall' = "AllocatePool"
         /\ fw' \in Firmware
<1>1. CASE s = "SUCCESS"
  BY <1>1, MapChangesType DEF AllocatePool, TypeOK
<1>2. CASE s # "SUCCESS"
  BY <1>2 DEF AllocatePool, TypeOK
<1> QED
  BY <1>1, <1>2

\* Recording a PCI function keeps the PCI fields well typed and the table within
\* its bound.
LEMMA RecordFunctionType ==
  ASSUME NEW info \in PciInfo, Len(info.PciDevices) <= PciTableSize,
         NEW index \in Nat, NEW function \in {"gpu", "audio"}
  PROVE  /\ RecordFunction(info, index, function) \in PciInfo
         /\ Len(RecordFunction(info, index, function).PciDevices) <= PciTableSize
<1> DEFINE entry == [handle |-> index, Kind |-> function]
           table == IF Len(info.PciDevices) < PciTableSize
                    THEN Append(info.PciDevices, entry)
                    ELSE info.PciDevices
<1>1. entry \in PciEntry
  BY DEF PciEntry, PciFunctions
<1>2. info.PciDevices \in Seq(PciEntry) /\ info.GpuCount \in Nat
      /\ info.AudioCount \in Nat
  BY DEF PciInfo
<1> HIDE DEF entry
<1>3. table \in Seq(PciEntry) /\ Len(table) <= PciTableSize
  BY <1>1, <1>2, SizesAssumption
<1>4. RecordFunction(info, index, function) =
        [GpuCount |-> info.GpuCount + (IF function = "gpu" THEN 1 ELSE 0),
         AudioCount |-> info.AudioCount + (IF function = "gpu" THEN 0 ELSE 1),
         PciDevices |-> table]
  BY DEF RecordFunction, entry
<1> HIDE DEF table
<1> QED
  BY <1>2, <1>3, <1>4 DEF PciInfo

-----------------------------------------------------------------------------
(* Types.                                                                  *)

\* The firmware's call of EfiMain starts from well-typed state.
LEMMA InitType ==
  ASSUME Init
  PROVE  TypeOK
<1>1. mapInfo \in MapInfo /\ mapLocals \in MapLocals
  BY DEF Init, EmptyMapInfo, MapInfo, MapLocals, Pointers
<1>2. pciInfo \in PciInfo /\ Len(pciInfo.PciDevices) <= PciTableSize
  BY SizesAssumption DEF Init, EmptyPciInfo, PciInfo
<1>3. fw \in Firmware
  BY SizesAssumption DEF Init, Firmware
<1>4. DOMAIN pools \subseteq PoolNames /\ pools \in [DOMAIN pools -> Nat]
  BY DEF Init
<1>5. exitFailed \in BOOLEAN
  BY DEF Init
<1> QED
  BY <1>1, <1>2, <1>3, <1>4, <1>5, SizesAssumption
  DEF Init, TypeOK, PCs, Statuses, Pointers, BootServices

\* One step of any action keeps the types.
LEMMA StepType ==
  ASSUME TypeOK, [Next]_vars
  PROVE  TypeOK'
<1> USE SizesAssumption
    DEF Statuses, PCs, BootServices, Return, surfaceVars, pciVars, mapVars
<1>1. CASE InitializeFramebuffer
  BY <1>1 DEF InitializeFramebuffer, TypeOK
<1>2. CASE Prepare
  BY <1>2, SMTT(30) DEF Prepare, TypeOK, EmptyMapInfo, EmptyPciInfo, MapInfo, PciInfo,
         Pointers
<1>3. CASE AllocShadow
  <2>1. 4 * gop.pixels \in Nat
    BY ModesAssumption DEF TypeOK, GopMode
  <2>2. PICK s \in {"SUCCESS", "OUT_OF_RESOURCES"},
             pointer \in {"shadow", "NULL", "garbage"} :
               /\ AllocatePool("shadow", 4 * gop.pixels, s, pointer)
               /\ ShadowFramebuffer' = SurfacePointer(s, pointer)
               /\ status' = s
    BY <1>3 DEF AllocShadow
  <2>3. SurfacePointer(s, pointer) \in Pointers
    BY DEF SurfacePointer, Pointers, PoolNames
  <2> QED
    BY <1>3, <2>1, <2>2, <2>3, AllocateType
    DEF AllocShadow, TypeOK, PoolNames
<1>4. CASE AllocCompose
  <2>1. 4 * gop.pixels \in Nat
    BY ModesAssumption DEF TypeOK, GopMode
  <2>2. PICK s \in {"SUCCESS", "OUT_OF_RESOURCES"},
             pointer \in {"compose", "NULL", "garbage"} :
               /\ AllocatePool("compose", 4 * gop.pixels, s, pointer)
               /\ ComposeFramebuffer' = SurfacePointer(s, pointer)
               /\ status' = s
    BY <1>4 DEF AllocCompose
  <2>3. SurfacePointer(s, pointer) \in Pointers
    BY DEF SurfacePointer, Pointers, PoolNames
  <2> QED
    BY <1>4, <2>1, <2>2, <2>3, AllocateType
    DEF AllocCompose, TypeOK, PoolNames
<1>5. CASE LocateHandles
  <2>1. CASE handles' = <<>> /\ pc' = "QueryMapSize" /\ UNCHANGED <<fw, pools>>
    BY <1>5, <2>1 DEF LocateHandles, TypeOK
  <2>2. ASSUME NEW list \in HandleLists,
               handles' = list,
               pools' = [p \in DOMAIN pools \cup {"handles"} |->
                           IF p = "handles" THEN Len(list) ELSE pools[p]],
               MapChanges, pc' = "WalkHandles"
        PROVE  TypeOK'
    <3>1. list \in Seq(PciFunctions) /\ Len(list) \in Nat
      BY HandlesAssumption
    <3> QED
      BY <1>5, <2>2, <3>1, MapChangesType
      DEF LocateHandles, TypeOK, PoolNames
  <2> QED
    BY <1>5, <2>1, <2>2 DEF LocateHandles
<1>6. CASE WalkHandle
  <2>1. HandleIndex + 1 \in 1 .. Len(handles) /\ HandleIndex + 1 \in Nat
    BY <1>6 DEF WalkHandle, TypeOK
  <2>2. CASE handles[HandleIndex + 1] \in {"gpu", "audio"}
    <3>1. pciInfo' =
            RecordFunction(pciInfo, HandleIndex + 1, handles[HandleIndex + 1])
      BY <1>6, <2>2 DEF WalkHandle
    <3>2. pciInfo' \in PciInfo /\ Len(pciInfo'.PciDevices) <= PciTableSize
      BY <2>1, <2>2, <3>1, RecordFunctionType DEF TypeOK
    <3> QED
      BY <1>6, <2>1, <3>2 DEF WalkHandle, TypeOK
  <2>3. CASE handles[HandleIndex + 1] \notin {"gpu", "audio"}
    BY <1>6, <2>1, <2>3 DEF WalkHandle, TypeOK
  <2> QED
    BY <2>2, <2>3
<1>7. CASE FreeHandles
  BY <1>7, MapChangesType DEF FreeHandles, TypeOK
<1>8. CASE QueryMapSize
  <2>1. mapLocals \in MapLocals /\ fw \in Firmware
    BY DEF TypeOK
  <2>2. /\ fw.len \in Nat /\ MapBytes(fw.len) \in Nat
        /\ MapBytes(SlackDescriptors) \in Nat
    BY <2>1, MapBytesNat DEF Firmware
  <2>3. mapLocals' \in MapLocals
    BY <1>8, <2>1, <2>2 DEF QueryMapSize, MapLocals
  <2> QED
    BY <1>8, <2>3 DEF QueryMapSize, TypeOK
<1>9. CASE AllocMap
  <2>1. MapBufferBytes(mapLocals) \in Nat
    BY DEF TypeOK, MapLocals, MapBufferBytes
  <2>2. /\ DOMAIN pools' \subseteq PoolNames
        /\ pools' \in [DOMAIN pools' -> Nat]
        /\ lastCall' = "AllocatePool"
        /\ fw' \in Firmware
    BY <1>9, <2>1, AllocateType DEF AllocMap, PoolNames
  <2> QED
    BY <1>9, <2>2 DEF AllocMap, TypeOK
<1>10. CASE GetMap
  <2>1. fw \in Firmware /\ mapLocals \in MapLocals /\ mapInfo \in MapInfo
    BY DEF TypeOK
  <2>2. /\ fw.len \in Nat /\ fw.key \in Nat /\ MapBytes(fw.len) \in Nat
        /\ MapBytes(fw.len) \div DescriptorSize \in Nat
    BY <2>1, MapBytesNat, DivOfProduct DEF Firmware, MapBytes
  <2>3. mapInfo' \in MapInfo
    BY <1>10, <2>1, <2>2
    DEF GetMap, RecordMap, MapInfo, Pointers, PoolNames
  <2>4. mapLocals' \in MapLocals
    BY <1>10, <2>1, <2>2 DEF GetMap, MapLocals
  <2> QED
    BY <1>10, <2>3, <2>4 DEF GetMap, TypeOK
<1>11. CASE Exit
  <2>1. exitFailed' \in BOOLEAN
    BY <1>11, Zenon DEF Exit, TypeOK
  <2> QED
    BY <1>11, <2>1 DEF Exit, AfterExitFailure, TypeOK
<1>12. CASE FirmwareEvent
  <2>1. fw' \in Firmware
    BY <1>12, MapChangesType DEF FirmwareEvent
  <2>2. events' \in 0 .. MaxEvents
    BY <1>12 DEF FirmwareEvent, TypeOK
  <2> QED
    BY <1>12, <2>1, <2>2 DEF FirmwareEvent, TypeOK
<1>13. CASE UNCHANGED vars
  BY <1>13 DEF vars, TypeOK
<1> QED
  BY <1>1, <1>2, <1>3, <1>4, <1>5, <1>6, <1>7, <1>8, <1>9, <1>10, <1>11,
     <1>12, <1>13 DEF Next, Loader

\* Every state of the loader is well typed; in particular CollectPciDevices
\* never writes past the end of KERNEL_BOOT_INFO.PciDevices, whatever the number
\* of display and audio functions.
THEOREM TypeCorrect == Spec => []TypeOK
<1>1. Init => TypeOK
  BY InitType
<1>2. TypeOK /\ [Next]_vars => TypeOK'
  BY StepType
<1> QED
  BY <1>1, <1>2, PTL DEF Spec

-----------------------------------------------------------------------------
(* The pools.                                                              *)

\* What an allocation does to the set of live pools.
LEMMA AllocateDomain ==
  ASSUME NEW name \in PoolNames, NEW bytes, NEW s, NEW pointer,
         AllocatePool(name, bytes, s, pointer)
  PROVE  \/ /\ s = "SUCCESS" /\ pointer = name
            /\ DOMAIN pools' = DOMAIN pools \cup {name}
            /\ pools'[name] = bytes
            /\ \A p \in DOMAIN pools \ {name} : pools'[p] = pools[p]
         \/ /\ s = "OUT_OF_RESOURCES" /\ pointer \in {"NULL", "garbage"}
            /\ pools' = pools /\ fw' = fw
  BY DEF AllocatePool

\* The live pools are the ones the loader's pointers name, at every step.
LEMMA PoolStep ==
  ASSUME TypeOK, PoolInv, [Next]_vars
  PROVE  PoolInv'
<1> USE DEF Return, surfaceVars, pciVars, mapVars, HoldingMap
<1>1. CASE InitializeFramebuffer
  BY <1>1 DEF InitializeFramebuffer, PoolInv
<1>2. CASE Prepare
  BY <1>2 DEF Prepare, PoolInv, EmptyMapInfo
<1>3. CASE AllocShadow
  BY <1>3, AllocateDomain DEF AllocShadow, PoolInv, SurfacePointer, PoolNames
<1>4. CASE AllocCompose
  BY <1>4, AllocateDomain DEF AllocCompose, PoolInv, SurfacePointer, PoolNames
<1>5. CASE LocateHandles
  BY <1>5 DEF LocateHandles, PoolInv
<1>6. CASE WalkHandle
  BY <1>6 DEF WalkHandle, PoolInv
<1>7. CASE FreeHandles
  BY <1>7 DEF FreeHandles, PoolInv
<1>8. CASE QueryMapSize
  BY <1>8 DEF QueryMapSize, PoolInv
<1>9. CASE AllocMap
  BY <1>9, AllocateDomain DEF AllocMap, PoolInv, PoolNames
<1>10. CASE GetMap
  BY <1>10 DEF GetMap, PoolInv, RecordMap
<1>11. CASE Exit
  BY <1>11 DEF Exit, PoolInv, AfterExitFailure
<1>12. CASE FirmwareEvent
  BY <1>12 DEF FirmwareEvent, PoolInv
<1>13. CASE UNCHANGED vars
  BY <1>13 DEF vars, PoolInv
<1> QED
  BY <1>1, <1>2, <1>3, <1>4, <1>5, <1>6, <1>7, <1>8, <1>9, <1>10, <1>11, <1>12,
     <1>13 DEF Next, Loader

-----------------------------------------------------------------------------
(* The memory map.                                                         *)

\* The buffer keeps its size, and a recorded map with the current key is the
\* current map: any change of the map makes the recorded key stale.
LEMMA MapStep ==
  ASSUME TypeOK, PoolInv, MapInv, [Next]_vars
  PROVE  MapInv'
<1> USE DEF Return, surfaceVars, pciVars, mapVars, HoldingMap
<1>a. fw.len \in Nat /\ fw.key \in Nat
  BY DEF TypeOK, Firmware
<1>1. CASE InitializeFramebuffer
  BY <1>1 DEF InitializeFramebuffer, MapInv
<1>2. CASE Prepare
  BY <1>2 DEF Prepare, MapInv
<1>3. CASE AllocShadow
  BY <1>3 DEF AllocShadow, MapInv
<1>4. CASE AllocCompose
  BY <1>4 DEF AllocCompose, MapInv
<1>5. CASE LocateHandles
  BY <1>5 DEF LocateHandles, MapInv
<1>6. CASE WalkHandle
  BY <1>6 DEF WalkHandle, MapInv
<1>7. CASE FreeHandles
  BY <1>7 DEF FreeHandles, MapInv
<1>8. CASE QueryMapSize
  BY <1>8 DEF QueryMapSize, MapInv
<1>9. CASE AllocMap
  BY <1>9, AllocateDomain DEF AllocMap, MapInv, MapBufferBytes, PoolNames
<1>10. CASE GetMap
  <2>1. MapBytes(fw.len) \div DescriptorSize = fw.len
    BY <1>a, SizesAssumption, DivOfProduct DEF MapBytes
  <2> QED
    BY <1>10, <1>a, <2>1 DEF GetMap, MapInv, RecordMap
<1>11. CASE Exit
  BY <1>11, <1>a DEF Exit, MapInv, AfterExitFailure
<1>12. CASE FirmwareEvent
  <2>1. fw'.key = fw.key + 1
    BY <1>12, MapChangesType DEF FirmwareEvent
  <2>2. mapLocals.MapKey \in Nat
    BY DEF TypeOK, MapLocals
  <2> QED
    BY <1>12, <1>a, <2>1, <2>2 DEF FirmwareEvent, MapInv
<1>13. CASE UNCHANGED vars
  BY <1>13 DEF vars, MapInv
<1> QED
  BY <1>1, <1>2, <1>3, <1>4, <1>5, <1>6, <1>7, <1>8, <1>9, <1>10, <1>11, <1>12,
     <1>13 DEF Next, Loader

-----------------------------------------------------------------------------
(* What the loop promises.                                                 *)

\* A recorded map stays within its buffer.
LEMMA FitStep ==
  ASSUME TypeOK, PoolInv, MapInv, MapFitsItsBuffer, [Next]_vars
  PROVE  MapFitsItsBuffer'
<1> USE DEF Return, surfaceVars, pciVars, mapVars, HoldingMap
<1>1. CASE InitializeFramebuffer
  BY <1>1 DEF InitializeFramebuffer, MapFitsItsBuffer
<1>2. CASE Prepare
  BY <1>2 DEF Prepare, MapFitsItsBuffer, EmptyMapInfo
<1>3. CASE AllocShadow
  BY <1>3, AllocateDomain DEF AllocShadow, MapFitsItsBuffer, PoolNames
<1>4. CASE AllocCompose
  BY <1>4, AllocateDomain DEF AllocCompose, MapFitsItsBuffer, PoolNames
<1>5. CASE LocateHandles
  BY <1>5 DEF LocateHandles, MapFitsItsBuffer
<1>6. CASE WalkHandle
  BY <1>6 DEF WalkHandle, MapFitsItsBuffer
<1>7. CASE FreeHandles
  BY <1>7 DEF FreeHandles, MapFitsItsBuffer
<1>8. CASE QueryMapSize
  BY <1>8 DEF QueryMapSize, MapFitsItsBuffer
<1>9. CASE AllocMap
  BY <1>9, AllocateDomain DEF AllocMap, MapFitsItsBuffer, PoolNames, PoolInv
<1>10. CASE GetMap
  BY <1>10 DEF GetMap, MapFitsItsBuffer, RecordMap, OfferedSize, PoolInv, MapInv
<1>11. CASE Exit
  BY <1>11 DEF Exit, MapFitsItsBuffer
<1>12. CASE FirmwareEvent
  BY <1>12 DEF FirmwareEvent, MapFitsItsBuffer
<1>13. CASE UNCHANGED vars
  BY <1>13 DEF vars, MapFitsItsBuffer
<1> QED
  BY <1>1, <1>2, <1>3, <1>4, <1>5, <1>6, <1>7, <1>8, <1>9, <1>10, <1>11, <1>12,
     <1>13 DEF Next, Loader

\* GetMemoryMap refuses the buffer only when the map has outgrown the slack.
LEMMA TooSmallStep ==
  ASSUME TypeOK, MapInv, TooSmallOnlyPastSlack, [Next]_vars
  PROVE  TooSmallOnlyPastSlack'
<1> USE DEF Return, surfaceVars, pciVars, mapVars, HoldingMap
<1>1. CASE InitializeFramebuffer
  BY <1>1 DEF InitializeFramebuffer, TooSmallOnlyPastSlack
<1>2. CASE Prepare
  BY <1>2 DEF Prepare, TooSmallOnlyPastSlack
<1>3. CASE AllocShadow
  BY <1>3 DEF AllocShadow, TooSmallOnlyPastSlack
<1>4. CASE AllocCompose
  BY <1>4 DEF AllocCompose, TooSmallOnlyPastSlack
<1>5. CASE LocateHandles
  BY <1>5 DEF LocateHandles, TooSmallOnlyPastSlack
<1>6. CASE WalkHandle
  BY <1>6 DEF WalkHandle, TooSmallOnlyPastSlack
<1>7. CASE FreeHandles
  BY <1>7 DEF FreeHandles, TooSmallOnlyPastSlack
<1>8. CASE QueryMapSize
  BY <1>8 DEF QueryMapSize, TooSmallOnlyPastSlack
<1>9. CASE AllocMap
  BY <1>9 DEF AllocMap, AllocatePool, TooSmallOnlyPastSlack
<1>10. CASE GetMap
  <2>1. /\ fw.len \in Nat /\ mapLocals.queriedLen \in Nat
        /\ SlackDescriptors \in Nat /\ DescriptorSize \in Nat \ {0}
    BY SizesAssumption DEF TypeOK, Firmware, MapLocals
  <2>2. mapLocals.MemoryMapSize =
          MapBytes(mapLocals.queriedLen) + MapBytes(SlackDescriptors)
    BY <1>10 DEF GetMap, MapInv
  <2>3. mapLocals.MemoryMapSize =
          (mapLocals.queriedLen + SlackDescriptors) * DescriptorSize
    BY <2>1, <2>2 DEF MapBytes
  <2>4. ASSUME MapBytes(fw.len) > mapLocals.MemoryMapSize
        PROVE  fw.len > mapLocals.queriedLen + SlackDescriptors
    BY <2>1, <2>3, <2>4, ProductOrder DEF MapBytes
  <2> QED
    BY <1>10, <2>4 DEF GetMap, TooSmallOnlyPastSlack, OfferedSize
<1>11. CASE Exit
  BY <1>11 DEF Exit, AfterExitFailure, TooSmallOnlyPastSlack
<1>12. CASE FirmwareEvent
  BY <1>12 DEF FirmwareEvent, TooSmallOnlyPastSlack
<1>13. CASE UNCHANGED vars
  BY <1>13 DEF vars, TooSmallOnlyPastSlack
<1> QED
  BY <1>1, <1>2, <1>3, <1>4, <1>5, <1>6, <1>7, <1>8, <1>9, <1>10, <1>11, <1>12,
     <1>13 DEF Next, Loader

\* A retry goes back to GetMemoryMap and to nothing before it.
LEMMA ExitStep ==
  ASSUME ExitInv, OnlyMapServicesAfterFailedExit, [Next]_vars
  PROVE  ExitInv' /\ OnlyMapServicesAfterFailedExit'
<1> USE DEF Return, surfaceVars, pciVars, mapVars
<1>1. CASE InitializeFramebuffer
  BY <1>1 DEF InitializeFramebuffer, ExitInv, OnlyMapServicesAfterFailedExit
<1>2. CASE Prepare
  BY <1>2 DEF Prepare, ExitInv, OnlyMapServicesAfterFailedExit
<1>3. CASE AllocShadow
  BY <1>3 DEF AllocShadow, ExitInv, OnlyMapServicesAfterFailedExit
<1>4. CASE AllocCompose
  BY <1>4 DEF AllocCompose, ExitInv, OnlyMapServicesAfterFailedExit
<1>5. CASE LocateHandles
  BY <1>5 DEF LocateHandles, ExitInv, OnlyMapServicesAfterFailedExit
<1>6. CASE WalkHandle
  BY <1>6 DEF WalkHandle, ExitInv, OnlyMapServicesAfterFailedExit
<1>7. CASE FreeHandles
  BY <1>7 DEF FreeHandles, ExitInv, OnlyMapServicesAfterFailedExit
<1>8. CASE QueryMapSize
  BY <1>8 DEF QueryMapSize, ExitInv, OnlyMapServicesAfterFailedExit
<1>9. CASE AllocMap
  BY <1>9 DEF AllocMap, AllocatePool, ExitInv, OnlyMapServicesAfterFailedExit
<1>10. CASE GetMap
  BY <1>10 DEF GetMap, ExitInv, OnlyMapServicesAfterFailedExit
<1>11. CASE Exit
  BY <1>11 DEF Exit, AfterExitFailure, ExitInv,
         OnlyMapServicesAfterFailedExit
<1>12. CASE FirmwareEvent
  BY <1>12 DEF FirmwareEvent, ExitInv, OnlyMapServicesAfterFailedExit
<1>13. CASE UNCHANGED vars
  BY <1>13 DEF vars, ExitInv, OnlyMapServicesAfterFailedExit
<1> QED
  BY <1>1, <1>2, <1>3, <1>4, <1>5, <1>6, <1>7, <1>8, <1>9, <1>10, <1>11, <1>12,
     <1>13 DEF Next, Loader

\* The conjunction is inductive.
LEMMA Inductive == Spec => []IInv
<1>1. Init => IInv
  <2> SUFFICES ASSUME Init PROVE IInv
    OBVIOUS
  <2>1. PoolInv
    BY DEF Init, PoolInv, HoldingMap, EmptyMapInfo
  <2> QED
    BY <2>1, InitType
    DEF Init, IInv, MapInv, ExitInv, HoldingMap, EmptyMapInfo, MapFitsItsBuffer,
        TooSmallOnlyPastSlack, OnlyMapServicesAfterFailedExit
<1>2. IInv /\ [Next]_vars => IInv'
  BY StepType, PoolStep, MapStep, FitStep, TooSmallStep, ExitStep DEF IInv
<1> QED
  BY <1>1, <1>2, PTL DEF Spec

\* ExitBootServicesForKernel hands over the map the firmware had when boot
\* services ended: key, size and descriptor count, for every slack, descriptor
\* size and interleaving of the firmware's map changes with the retry loop.
THEOREM HandedMapCurrent == Spec => []HandedMapIsCurrent
<1>1. IInv => HandedMapIsCurrent
  BY DEF IInv, PoolInv, MapInv, HandedMapIsCurrent
<1> QED
  BY <1>1, Inductive, PTL

\* Whichever of EfiMain's allocations failed, the pools alive when the kernel
\* loop starts are exactly the ones KERNEL_BOOT_INFO points to.
THEOREM KernelOwnsPools == Spec => []KernelOwnsItsPools
<1>1. IInv => KernelOwnsItsPools
  BY DEF IInv, PoolInv, HoldingMap, KernelOwnsItsPools
<1> QED
  BY <1>1, Inductive, PTL

\* The map GetMemoryMap wrote never exceeds the pool AllocatePool gave for it, on
\* any round of the loop.
THEOREM MapWithinBuffer == Spec => []MapFitsItsBuffer
<1>1. IInv => MapFitsItsBuffer
  BY DEF IInv
<1> QED
  BY <1>1, Inductive, PTL

\* The loop fails with BUFFER_TOO_SMALL only after the map has grown by more than
\* the slack since its size was queried, for every slack and descriptor size.
THEOREM SlackIsEnough == Spec => []TooSmallOnlyPastSlack
<1>1. IInv => TooSmallOnlyPastSlack
  BY DEF IInv
<1> QED
  BY <1>1, Inductive, PTL

\* After a failed ExitBootServices the loader calls no boot service but the two
\* the UEFI specification still allows.
THEOREM RetryIsQuiet == Spec => []OnlyMapServicesAfterFailedExit
<1>1. IInv => OnlyMapServicesAfterFailedExit
  BY DEF IInv
<1> QED
  BY <1>1, Inductive, PTL

-----------------------------------------------------------------------------
(* The PCI scan.                                                           *)

\* The handles of a kind among the first n of a list.
Walked(list, n, kind) == {i \in 1 .. n : list[i] = kind}
Relevant(list, n) == Walked(list, n, "gpu") \cup Walked(list, n, "audio")

\* The handles a table lists.
Listed(table) == {table[k].handle : k \in DOMAIN table}

Counted(list, n, info) ==
  /\ info.GpuCount = Cardinality(Walked(list, n, "gpu"))
  /\ info.AudioCount = Cardinality(Walked(list, n, "audio"))

Tabled(list, n, table) ==
  /\ Listed(table) \subseteq Relevant(list, n)
  /\ \A k \in DOMAIN table : table[k].Kind = list[table[k].handle]
  /\ \A j, k \in DOMAIN table : j < k => table[j].handle < table[k].handle
  /\ \A i \in Relevant(list, n) \ Listed(table) :
       /\ Len(table) = PciTableSize
       /\ \A h \in Listed(table) : h < i

\* Before the scan nothing is counted, and after it nothing changes any more.
PciInv ==
  /\ pc \in {"InitializeFramebuffer", "Prepare", "AllocShadow", "AllocCompose",
             "LocateHandles"} => HandleIndex = 0 /\ pciInfo = EmptyPciInfo
  /\ Counted(handles, HandleIndex, pciInfo)
  /\ Tabled(handles, HandleIndex, pciInfo.PciDevices)

\* Nothing walked, nothing counted and nothing in the table.
LEMMA NothingWalked ==
  ASSUME NEW list
  PROVE  Counted(list, 0, EmptyPciInfo) /\ Tabled(list, 0, EmptyPciInfo.PciDevices)
<1>1. \A kind : Walked(list, 0, kind) = {}
  BY DEF Walked
<1>2. EmptyPciInfo.GpuCount = 0 /\ EmptyPciInfo.AudioCount = 0 /\ EmptyPciInfo.PciDevices = <<>>
  BY DEF EmptyPciInfo
<1>3. Counted(list, 0, EmptyPciInfo)
  BY <1>1, <1>2, FS_EmptySet DEF Counted
<1>4. Tabled(list, 0, <<>>)
  BY <1>1 DEF Tabled, Relevant, Listed
<1> QED
  BY <1>2, <1>3, <1>4

\* One more handle walked.
LEMMA WalkOne ==
  ASSUME NEW list, NEW n \in Nat, NEW kind
  PROVE  /\ IsFiniteSet(Walked(list, n, kind))
         /\ Walked(list, n + 1, kind) = IF list[n + 1] = kind
                                        THEN Walked(list, n, kind) \cup {n + 1}
                                        ELSE Walked(list, n, kind)
         /\ Cardinality(Walked(list, n + 1, kind)) =
              Cardinality(Walked(list, n, kind)) + (IF list[n + 1] = kind THEN 1 ELSE 0)
<1>1. IsFiniteSet(Walked(list, n, kind))
  <2>1. IsFiniteSet(1 .. n)
    BY FS_Interval
  <2>2. Walked(list, n, kind) \in SUBSET (1 .. n)
    BY DEF Walked
  <2> QED
    BY <2>1, <2>2, FS_Subset
<1>2. Walked(list, n + 1, kind) = IF list[n + 1] = kind
                                  THEN Walked(list, n, kind) \cup {n + 1}
                                  ELSE Walked(list, n, kind)
  <2>1. 1 .. n + 1 = (1 .. n) \cup {n + 1}
    OBVIOUS
  <2> QED
    BY <2>1 DEF Walked
<1>3. n + 1 \notin Walked(list, n, kind)
  BY DEF Walked
<1>4. Cardinality(Walked(list, n, kind)) \in Nat
  BY <1>1, FS_CardinalityType
<1>5. Cardinality(Walked(list, n, kind) \cup {n + 1}) = Cardinality(Walked(list, n, kind)) + 1
  BY <1>1, <1>3, FS_AddElement
<1> QED
  BY <1>1, <1>2, <1>4, <1>5

\* A handle that is neither display nor audio changes nothing.
LEMMA WalkOther ==
  ASSUME NEW list, NEW n \in Nat, NEW info, list[n + 1] \notin {"gpu", "audio"},
         Counted(list, n, info), Tabled(list, n, info.PciDevices)
  PROVE  Counted(list, n + 1, info) /\ Tabled(list, n + 1, info.PciDevices)
<1>1. /\ Walked(list, n + 1, "gpu") = Walked(list, n, "gpu")
      /\ Walked(list, n + 1, "audio") = Walked(list, n, "audio")
  BY WalkOne
<1> QED
  BY <1>1 DEF Counted, Tabled, Relevant

\* A display or audio function is counted, and listed while there is room.
LEMMA WalkFunction ==
  ASSUME NEW list, NEW n \in Nat, NEW info \in PciInfo,
         Len(info.PciDevices) <= PciTableSize, list[n + 1] \in {"gpu", "audio"},
         Counted(list, n, info), Tabled(list, n, info.PciDevices)
  PROVE  LET after == RecordFunction(info, n + 1, list[n + 1])
         IN  Counted(list, n + 1, after) /\ Tabled(list, n + 1, after.PciDevices)
<1> DEFINE after == RecordFunction(info, n + 1, list[n + 1])
           entry == [handle |-> n + 1, Kind |-> list[n + 1]]
           old == info.PciDevices
           new == after.PciDevices
<1>1. /\ after.GpuCount = info.GpuCount + (IF list[n + 1] = "gpu" THEN 1 ELSE 0)
      /\ after.AudioCount = info.AudioCount + (IF list[n + 1] = "gpu" THEN 0 ELSE 1)
      /\ new = IF Len(old) < PciTableSize THEN Append(old, entry) ELSE old
  BY DEF RecordFunction
<1>2. Counted(list, n + 1, after)
  <2>1. /\ Cardinality(Walked(list, n + 1, "gpu")) =
             Cardinality(Walked(list, n, "gpu")) + (IF list[n + 1] = "gpu" THEN 1 ELSE 0)
        /\ Cardinality(Walked(list, n + 1, "audio")) =
             Cardinality(Walked(list, n, "audio")) + (IF list[n + 1] = "audio" THEN 1 ELSE 0)
    BY WalkOne
  <2>2. list[n + 1] = "audio" <=> list[n + 1] # "gpu"
    OBVIOUS
  <2> HIDE DEF after
  <2> QED
    BY <1>1, <2>1, <2>2 DEF Counted
<1>3. Relevant(list, n + 1) = Relevant(list, n) \cup {n + 1}
  BY WalkOne, ZenonT(40) DEF Relevant
<1>4. \A i \in Relevant(list, n) : i \in 1 .. n
  BY DEF Relevant, Walked
<1>5. old \in Seq(PciEntry) /\ Len(old) \in Nat /\ DOMAIN old = 1 .. Len(old)
  BY LenProperties DEF PciInfo
<1>6. entry \in PciEntry /\ entry.handle = n + 1 /\ entry.Kind = list[n + 1]
  BY DEF PciEntry, PciFunctions
<1>7. /\ Listed(old) \subseteq Relevant(list, n)
      /\ \A h \in Listed(old) : h \in Nat /\ h < n + 1
      /\ \A k \in DOMAIN old : old[k].handle \in Listed(old)
  <2>1. Listed(old) \subseteq Relevant(list, n)
    BY DEF Tabled
  <2>2. \A h \in Listed(old) : h \in Nat /\ h < n + 1
    BY <1>4, <2>1
  <2>3. \A k \in DOMAIN old : old[k].handle \in Listed(old)
    BY DEF Listed
  <2> QED
    BY <2>1, <2>2, <2>3
<1> HIDE DEF after, entry, old
<1>8. CASE Len(old) < PciTableSize
  <2>1. new = Append(old, entry)
    BY <1>1, <1>8
  <2>2. /\ Len(new) = Len(old) + 1 /\ DOMAIN new = 1 .. Len(old) + 1
        /\ new[Len(old) + 1] = entry
        /\ \A k \in 1 .. Len(old) : new[k] = old[k]
    BY <1>5, <1>6, <2>1, AppendProperties, LenProperties
  <2>3. DOMAIN new = DOMAIN old \cup {Len(old) + 1} /\ \A k \in DOMAIN old : new[k] = old[k]
    BY <1>5, <2>2
  <2> HIDE DEF new
  <2>4. Listed(new) = Listed(old) \cup {n + 1}
    BY <1>6, <2>2, <2>3 DEF Listed
  <2>5. Relevant(list, n) \ Listed(old) = {}
    BY <1>5, <1>8, SizesAssumption DEF Tabled, old
  <2>6. Relevant(list, n + 1) \ Listed(new) = {}
    BY <1>3, <2>4, <2>5
  <2>7. Listed(new) \subseteq Relevant(list, n + 1)
    BY <1>3, <1>7, <2>4
  <2>8. \A k \in DOMAIN new : new[k].Kind = list[new[k].handle]
    BY <1>6, <2>2, <2>3 DEF Tabled, old
  <2>9. \A j, k \in DOMAIN new : j < k => new[j].handle < new[k].handle
    <3> SUFFICES ASSUME NEW j \in DOMAIN new, NEW k \in DOMAIN new, j < k
                 PROVE  new[j].handle < new[k].handle
      OBVIOUS
    <3>1. j \in DOMAIN old /\ new[j] = old[j]
      BY <1>5, <2>2
    <3>2. CASE k \in DOMAIN old
      BY <2>3, <3>1, <3>2 DEF Tabled, old
    <3>3. CASE k = Len(old) + 1
      BY <1>6, <1>7, <2>2, <3>1, <3>3
    <3> QED
      BY <2>3, <3>2, <3>3
  <2> QED
    BY <1>2, <2>6, <2>7, <2>8, <2>9 DEF Tabled, after, new
<1>9. CASE ~(Len(old) < PciTableSize)
  <2>1. new = old /\ Len(old) = PciTableSize
    BY <1>1, <1>5, <1>9, SizesAssumption DEF old
  <2>2. \A i \in Relevant(list, n + 1) \ Listed(old) : \A h \in Listed(old) : h < i
    BY <1>3, <1>7 DEF Tabled, old
  <2>3. Tabled(list, n + 1, old)
    BY <1>3, <2>1, <2>2 DEF Tabled, old
  <2> QED
    BY <1>2, <2>1, <2>3 DEF after, new
<1> QED
  BY <1>8, <1>9

LEMMA PciStep ==
  ASSUME TypeOK, PciInv, [Next]_vars
  PROVE  PciInv'
<1> USE DEF Return, surfaceVars, pciVars
<1>1. CASE Prepare
  <2>1. HandleIndex' = 0 /\ pciInfo' = EmptyPciInfo
    BY <1>1 DEF Prepare, PciInv
  <2> QED
    BY <2>1, NothingWalked DEF PciInv
<1>2. CASE LocateHandles
  <2>1. HandleIndex' = 0 /\ pciInfo' = EmptyPciInfo
    BY <1>2 DEF LocateHandles, PciInv
  <2> QED
    BY <2>1, NothingWalked DEF PciInv
<1>3. CASE WalkHandle
  <2> DEFINE n == HandleIndex
             function == handles[n + 1]
  <2>1. /\ n \in Nat /\ pciInfo \in PciInfo /\ Len(pciInfo.PciDevices) <= PciTableSize
        /\ HandleIndex' = n + 1 /\ handles' = handles /\ pc' = "WalkHandles"
    BY <1>3, LenProperties DEF WalkHandle, TypeOK
  <2>2. CASE function \in {"gpu", "audio"}
    <3>1. pciInfo' = RecordFunction(pciInfo, n + 1, function)
      BY <1>3, <2>2 DEF WalkHandle
    <3> QED
      BY <2>1, <2>2, <3>1, WalkFunction DEF PciInv
  <2>3. CASE function \notin {"gpu", "audio"}
    <3>1. pciInfo' = pciInfo
      BY <1>3, <2>3 DEF WalkHandle
    <3> QED
      BY <2>1, <2>3, <3>1, WalkOther DEF PciInv
  <2> QED
    BY <2>2, <2>3
<1>4. CASE ~Prepare /\ ~LocateHandles /\ ~WalkHandle
  <2>1. UNCHANGED pciVars
    BY <1>4 DEF Next, Loader, InitializeFramebuffer, AllocShadow, AllocCompose, FreeHandles,
       QueryMapSize, AllocMap, GetMap, Exit, FirmwareEvent, vars
  <2>2. pc' \in {"InitializeFramebuffer", "Prepare", "AllocShadow", "AllocCompose",
                 "LocateHandles"}
        => pc \in {"InitializeFramebuffer", "Prepare", "AllocShadow", "AllocCompose",
                   "LocateHandles"}
    BY <1>4 DEF Next, Loader, InitializeFramebuffer, AllocShadow, AllocCompose, FreeHandles,
       QueryMapSize, AllocMap, GetMap, Exit, AfterExitFailure, FirmwareEvent, vars
  <2> QED
    BY <2>1, <2>2 DEF PciInv
<1> QED
  BY <1>1, <1>2, <1>3, <1>4

\* CollectPciDevices counts every display and audio function and lists the first ones in
\* handle order, for every handle list and every table size.
THEOREM PciTablePrefix == Spec => []PciTableIsPrefix
<1>1. Init => PciInv
  BY NothingWalked DEF Init, PciInv
<1>2. PciInv /\ TypeOK /\ [Next]_vars => PciInv'
  BY PciStep
<1>3. PciInv => PciTableIsPrefix
  BY DEF PciInv, PciTableIsPrefix, Counted, Tabled, Relevant, Walked, Listed
<1> QED
  BY <1>1, <1>2, <1>3, TypeCorrect, PTL DEF Spec

=============================================================================
