# Dragon OS: a verification project

Dragon OS is a UEFI boot application (`BootApp.c`) that becomes its own small
kernel, and a build tool in C# that turns it into bootable images. This
directory holds TLA+ models of the boot application and of the build tool, TLC
configurations that check them on small instances, and TLAPS proofs of most of
the safety properties for every instance: of the boot handoff, the mouse from the
handshake to the cursor on the screen, the screens before it, the pixel copies,
the FAT12 image, the legacy floppy and the build tool.

`tlc -config X.cfg M` checks a run, `tlapm M.tla` checks the proofs of a module.

## 1. The system

| part | source | state | operations | hard because |
| --- | --- | --- | --- | --- |
| Boot handoff | `BootApp.c` `EfiMain`, `InitializeFramebuffer`, `CollectPciDevices`, `ExitBootServicesForKernel` | `KERNEL_BOOT_INFO`, pools, the map buffer | locate the display, allocate two surfaces, scan PCI, get the memory map, leave boot services | the firmware changes its memory map on its own; allocations fail one by one; a retry loop without a bound |
| PS/2 handshake | `InitializePs2Mouse`, `Ps2*` | controller configuration, `PS2_MOUSE_STATE.Enabled` | flush, write commands, poll for answers | three devices share one byte wide buffer; everything is polled with a limit |
| Packet decoder | `UpdateCursorFromPs2Mouse`, `ClampCursorX/Y`, `ApplyMouseAcceleration` | `PacketIndex`, `Packet[]`, the cursor's position and sub-pixel accumulators | read up to 96 bytes, assemble packets, move the cursor | packets split over calls, lost bytes, C's division and clamping |
| Kernel loop and compositor | `RunKernelMouseLoop`, `BlitCursorComposite`, `RefreshSetupButtons`, ... | framebuffer, shadow, compose surface, `SOFTWARE_CURSOR`, `HoveredButton` | erase, refresh hovered buttons, draw the cursor | partial copies between three surfaces, two of which may be missing |
| Setup layout | `InitializeSetupUiState` | three boxes | compute the panel and the buttons | unsigned arithmetic on small screens |
| Pixel formats and copies | `ComposePixel`, `DecomposePixel`, `AlphaBlendPixel`, `CopyPixels32`, ... | none | pure | mask loops, rounding, unrolled loops with tails |
| Screens before the loop | `PlaySplashSequence`, `DrawSetupScreen`, `DrawTextString*`, `DrawImageNearestAlpha`, ... | the framebuffer | clear, splash frames, loader text, setup scene | frames drawn over each other, independent formulas for what must not overlap, repeated blending |
| Build pipeline | `Program.cs` `Main` | files in `build/` | write images in order | a failed step leaves older files |
| Legacy image | `Program.cs` `BmpLoader`, `ImageTools`, `BuildDiskImage`, `BuildStage1/2` | a picture, a floppy image | load, resize and pack the picture, sector table, CHS | row order and stride, geometry edges |
| FAT12 image | `UefiSupport.cs` `BuildEfiSystemPartition` | cluster chains, directory tree | allocate, link, write 12 bit entries | limits, name collisions |
| Runtime package | `Program.cs` `DragonRuntimeBuilder` | virtual paths | collect files, make paths unique | collisions, which file types |
| MP4 metadata | `Program.cs` `Mp4MetadataParser` | the stream's position, calls under way | walk nested boxes | malformed sizes |
| Tool runner | `NativeUefiCompiler.cs` `RunProcess` | two pipes to `cl` or `link` | read both outputs, wait | pipes are bounded, the outputs are read one after the other |
| ISO builders, PE builder, assemblers, compiler driver | `Program.cs`, `UefiSupport.cs`, `ImapiIsoBuilder.cs`, `NativeUefiCompiler.cs` | none | write bytes at fixed places, run `cl` | formatting and I/O |
| Plugin API | `sdk/DragonOS.PluginApi` | `UiScene.Elements` | add, update, remove | duplicate ids |

The parts interact in one direction. `EfiMain` runs on the firmware's only
thread and calls boot services; `ExitBootServicesForKernel` ends them;
`RunKernelMouseLoop` then owns the machine with no interrupts of its own. Both
draw: the loader the splash and a line of text, the kernel the setup scene. It
calls `InitializePs2Mouse` once and then `UpdateCursorFromPs2Mouse` for ever;
each call that decoded a packet is followed by one redraw. The pointers in
`KERNEL_BOOT_INFO` decide which of the surfaces the redraw has. Concurrency
comes from outside: the firmware's events before the handoff, the keyboard, the
mouse and the 8042 controller after it.

The build tool is sequential, but what it works on is not its own: the user edits
files while it builds, any of its steps may throw and leave `build/` half
written, and the tools it runs block when their pipes are full. `edk2/` is
vendored and not referenced by the build.

What makes each part correct:

- handoff: the kernel gets the current map and owns exactly what it was given;
- handshake: a mouse is reported exactly when there is one, and the keyboard's
  configuration survives;
- decoder: no packet is lost, made up or shifted, the cursor stays on the screen
  and follows the mouse;
- compositor: partial redraws look like full ones;
- layout: no difference wraps around on a screen the setup is meant for, and
  nothing on it hides anything else;
- screens: no frame leaves a rim of the one before, scaled images are shown
  whole, blending stays between the two colours, and the setup scene appears;
- copies: exactly the range asked for, at every alignment;
- floppy and system partition: what is read is what was written;
- pipeline and package: an ISO is from one build, and the files in it are those
  in its manifest;
- MP4 parser: ends on any file and takes the size of a video track;
- tool runner: ends, with both outputs complete.

## 2. Modules

`BootHandoff` has one action per boot service call of the loader. `pc` is the
place in the code, the fields of `KERNEL_BOOT_INFO` are
`ShadowFramebuffer`, `ComposeFramebuffer`, `mapInfo` and `pciInfo`, and
`mapLocals` are the locals of `ExitBootServicesForKernel`. The firmware is
external: its memory map is a number of descriptors and a key (`fw`), its pool a
function from names to sizes (`pools`). Every allocation and release changes the
map, and so does `FirmwareEvent`, which may happen between any two calls. A
failed `AllocatePool` leaves any value in the caller's pointer. A PCI handle is
one of five things it may turn out to be; the fields of a table entry that are
copied from configuration space are left out, the handle and the kind stand for
them.

`Ps2Handshake` has one action per poll of the status port. A byte in the
controller's output buffer carries its source, of which the driver sees only the
auxiliary bit, and its role, which it does not see. `ProcessCommand`,
`ProcessData`, `AuxTransfer`, `KeyPress` and `MouseMove` are the devices; they
are external and written from what the driver sends to ports 0x60 and 0x64. A
wait loop is a counter against `Attempts` (100000 in the code).

`MousePackets` has one action per byte read by `UpdateCursorFromPs2Mouse`, and
one each for its start and its tail. `PacketIndex`, `Packet`, the accumulators
and the position live across calls as in the code. The mouse, the keyboard and
a link that may lose bytes are external. `sent`, `decoded`, `sync`, the number of
the packet a byte belongs to, and what the packets of a call meant are history. `CursorMotion` is the arithmetic alone, with C's division; `Bytes` has
the bit operations.

`Compositor` is a round of the loop that moved the cursor, built of operators
named after the functions. Surfaces are memory addressed as the code
does (row times `PixelsPerScanLine` plus column) and are named by pointers, so a
missing shadow is the pointer of the framebuffer itself. A pixel is a number
that says what it belongs to; text and icon are part of that value. The round is
atomic because nothing else writes to the surfaces. `CursorDisplay` is the
abstract specification: the scene for the button under the cursor with one
cursor over it, or, where no surface keeps the scene, the cursor alone.

`KernelLoop` composes the two: it extends `MousePackets` and instantiates
`Compositor`. The end of a call (`EndRound`) is followed by the compositor's round
at the position the call left when `UpdateCursorFromPs2Mouse` returns 1
(`UpdateReturns`), and by nothing otherwise. `KernelLoop!Display` is the
refinement mapping to `CursorDisplay`, with the position of the decoder.

`PixelCopy` is `FillPixels32` and `CopyPixels32`, one action per iteration of
their three loops. Memory is addressed in pixels, so an address is aligned when
it is even. The ranges of a call are equal or disjoint: the callers copy between
two surfaces, between a surface and the cursor's saved pixels, or, in
`BlitSurfaceRect` without a shadow, from a surface to the same place of itself.

`SetupLayout` is `InitializeSetupUiState`, one action, with every sum and
difference modulo 2^32.

`PixelFormat` has the conversions between colours and pixels. A pixel is the set
of its bits and so is a mask. `TextLayout` has the advances and the boxes of
glyphs in a font, an atlas with fallback advances as the build generates it.
`BootScreens` extends them and `SetupLayout` by what is drawn before the loop, one
action per clear, frame, text or pass: the splash sequence with its tween table and
its rectangles, the loader's text, the layout, and the setup scene with the title
drawn in outline passes and the icon scaled with fixed point sampling. The search of
`MaskShift` for the first bit of each channel's mask, which `DecomposePixel` needs at
the first blended glyph, is done bit by bit (`SearchOn`, `SearchEnds`); later ones
give the same. Over an empty mask it shifts by more than the width of the word: the
processor takes that modulo 32 and the search goes on, or the compiler leaves the
loop with any result. The scene is the boxes of what is drawn. One representative pixel is followed through all passes
with its exact bits; which glyph pixels it lies under is any choice of alpha.

`FatTable` is the part of `BuildEfiSystemPartition` that sees of a file or a
directory only its size: `Place` gives the next node the next clusters,
`CheckSpace` throws or allocates the table, `Link` is `LinkClusterChain` for one
node, `Pack` is one iteration of `WriteFat12Entries`. `FatImage` extends it by
the tree of short names before and the writing of directories and contents
after it, with one action per segment of a path (`EnterDirectory`,
`AddRuntimeFile`), per node that `CollectDirectories` and `CollectFiles` meet (two
passes in the code over the same tree in the same order, one here), and per node
that is written. A step of `Layout` is a step of `FatTable`, and
`FatImageProofs!ImageMakesTable` says that the builder makes no other. `Sanitize`
is given by two functions on names, which may map different names to one;
`NameAssumption` is what the code gives: no name is made of dots and blanks, and
a file has an extension. `FilesAssumption` says that the segments of a path are
names. `Main` hands only the manifest to this builder; the model gives it any list,
its declared input. A name on the disk is what stem and extension begin with and the
byte that fills them up: blanks in `WriteShortName`, zeros in the two entries of
`WriteSpecialDirectoryEntry`. `ReadChain`, `Lookup` and `ReadFile` are what a reader
of the image does, and `FatNameToStr` how it takes a name from its bytes: like the
FAT driver in `edk2/`, the only reader in the repository.

`LegacyPicture` has the way of the splash picture from a file to the packed image:
`BmpLoader.Load` on the bytes of the file, from which it takes the fields of the
headers, with every condition on which it throws, `ResizeNearest`, the palette,
`QuantizeTo332` and `PackMode13Asset`; and `Write24BitBmp`, which makes the file if
there is none. `LegacyBoot` extends it. It has one action per step of `Main` that makes
the floppy (loading, the two passes over stage 2, `BuildDiskImage`) and then one
per BIOS call of stage 1 and stage 2, which `BuildStage1` and `BuildStage2` emit,
and one for the palette and the copy to the screen. A sector holds the name of
what was put there; stage 2 takes its addresses from its table only where the
sectors of that table are in memory. The drive is external and may fail on any
read; it always fails on one that leaves its track.

`RuntimePackage` has the operators of `DragonRuntimeBuilder`: which file goes
into the package, under which virtual path, and what manifest and registry say.
Names are compared without regard to case, and `BuildRuntimeVirtualPath` tries
its candidates in the code's order. `BuildPipeline` extends it by `Main`,
`NativeUefiCompiler.Build` and `ImapiIsoBuilder.Build`, one action per directory that
is listed and per file that is read or written: the user may edit between any two
of them, and a directory has its files in any order. Every step may throw, and a write that throws leaves the
old file or a part of the new one; `Edit` and `StartBuild` are the user. An
artefact is a record of what it was made from.

`ToolProcess` is `RunProcess`: the tool writes lines to two pipes of bounded
capacity and exits (external), the builder reads one to its end and then the
other.

`Mp4Parser` is `Mp4MetadataParser`: `ParseBoxRange`, `ParseTrack` and
`ParseMedia` as a stack of frames. The file is not stored; a header is any size
and type when it is read, so the model covers every file of a given length.
Positions wrap around at `MaxLong` as unchecked additions of `long` do.

## 3. Runs

All bounds are in the configurations and named in the modules.

| run | question | instance |
| --- | --- | --- |
| `boot_handoff` | Is what the kernel gets current, in bounds and allocated, and does the loader always decide? | a PCI table of 2 with up to 4 functions, slack of 1 descriptor, maps of 1 to 4 descriptors, 3 changes by the firmware: the table overflows, the loop goes round up to three times, the map stays within the slack and outgrows it |
| `ps2_handshake` | Is a mouse reported exactly when it is there, whatever the keyboard and the mouse send in between? | 3 polls per wait, 3 reads per flush, a buffer of 3, 2 keys (one is 0xFA, one sets the clock bits of a configuration), 1 packet, 2 configurations |
| `mouse_packets` | Do the packets survive the calls, does the cursor follow them, and how soon is the decoder in step after a lost or a stray byte? | 4 reads and 2 packets per call, 3 packets of 3 kinds, 1 key, 1 loss |
| `kernel_loop` | Does the screen show the scene and one cursor where the decoded packets put it, and what still holds without a shadow? | 5 by 4 pixels, sprite 2 by 3 with holes, buttons of 2 by 1, with and without shadow and compose surface; 4 packets of 3 kinds, 4 reads and 2 packets per call |
| `pixel_copy` | Do the unrolled loops store exactly the range they are asked for? | bulks of 8 pairs as in the code, 0 to 35 pixels, every alignment |
| `boot_screens` | What do the screens before the loop look like on any display, and are they always reached? | the repository's splash, icon and texts, on screens around every size at which a rule changes, too small ones included, and a wider font; six more pixel formats (8, 5, 6, 10 and 1 bit fields, an empty mask, an unknown format) with alphas at the ends and in between, 2 outline passes over one pixel |
| `fat_image` | Does a reader of the system partition find every file with its bytes? | lists of up to 3 files, names that collide, sizes below, at and above a cluster, 14 clusters: some lists fill the disk, some do not fit; the root directory overflows |
| `legacy_boot` | Does the machine show the picture that is in the file? | eleven files (24 bit, top down, 32 bit, bit fields, two palettes, pixels that begin inside the header, refused and cut ones) of a few pixels, enlarged and reduced, channels of 1, 2 and 1 bits; a floppy of 2 cylinders with 2 heads and 4 sectors; stage 2 grows over a sector with its table, fills its track, does not fit |
| `build_pipeline` | What does a sequence of failing builds leave behind? | 2 builds, 2 edits, a file of one name in two directories, names that differ in case only |
| `tool_process` | Does the build get all a tool says, and does it go on? | pipes of 2 lines, tools that write more than that to either |
| `mp4_parser` | Does the parser end on every file, and whose size does it report? | files of 8, 32 and 60 bytes, 32 bit and 64 bit sizes that are zero, too small, too large or wrap around |
| `dlls_note` | Is what the note in `disabled_dlls` says of `dlls` so? (It is not.) | the files of `build_pipeline` and a picture in `dlls` |

`boot_handoff`, over 25 668 states:
`KernelOwnsItsPools` (the live pools are the ones `KERNEL_BOOT_INFO` points to),
`HandedMapIsCurrent` (key, size and count of the map are the firmware's when
boot services ended), `MapFitsItsBuffer`, `TooSmallOnlyPastSlack` (the loop
gives up only when the map outgrew the slack), `OnlyMapServicesAfterFailedExit`,
`PciTableIsPrefix` (counters count all functions, the table has the first ones
in order), `HandoffDecided`.

`ps2_handshake`, over 207 195 states: `NoMouseNoEnable`, `SilentMouseIsFound` (a
mouse the firmware left silent is missed only by a time-out),
`ConfigurationWritten` (the mouse's clock is on even when a key code was taken for
the configuration, and the rest of the configuration survives if no byte got in
the way; with one it may not), `PacketsStartAligned`, `HandshakeReturns`.

`mouse_packets`, over 196 666 states: `PacketsIntact` (without a loss the decoded
packets are the sent ones, and the button is that of the last one, a dropped one
included), `CursorOnScreen` (with less than a pixel carried over between calls),
`MovesWithMouse` (no call moves the cursor against the hand; for movements of
-128 to 127, since the sign bits of the packet head are ignored), `PacketsArrive`
(what the mouse sends is decoded in the end), and `ResyncWithinFour` (in step
after four bytes in order whose movements do not look like heads).

`kernel_loop`, over 165 912 states: `ShadowIsScene` (the partly refreshed shadow is
what a full redraw would give) and `ScreenFollowsMouse` (the refinement of
`CursorDisplay`, however the packets are spread over rounds).

`pixel_copy`: `CopyIsExact`.

`boot_screens`, over 45 302 states: `ButtonsOnPanel` (from 408 by 370 on; on
smaller screens the differences do wrap around), `SplashFramesNested` (the clear
before a frame does nothing, since it ignores black; each frame covers the
earlier ones only because the picture never shrinks), `SamplesSpanImage` (the
icon and the splash are read from edge to edge and not beyond),
`SceneUncluttered` (title, icon, prompt, buttons and note apart and on the panel,
on screens where the prompt fits its zone: with the repository's font it is 491
pixels wide, which takes a screen of about 1210; at 1024 it leaves its zone, and
at 800 by 600 the Install button hides a part of it), `BlendBetween` (a blend
leaves every channel between what was there and what is drawn, through any
number of passes and in every format) and `OnlyEmptyMaskStops` (the setup scene
appears, or the boot is for ever in the search for the first bit of one empty
channel mask; the run has a mode with one).

`fat_image`, over 61 622 states: `ImageReadsBack` (names and chains lead a reader
to every requested file, of files with one short name to the last; the first entry
of a directory has its own cluster, and `..` leads back), `RunsSound` (the runs of
clusters are disjoint and on the disk), `RunsLinked`, `TableHasRoom` (the table's
size, which no code checks, is enough whenever the clusters are) and
`PackedEntriesKept` (two entries share a byte).

`legacy_boot`, over 4 836 states: `PictureIsImage` (each channel on the screen is
within one step of its bits of the picture's, whatever the depth, order and
filling of the file's rows, through the resizing, the palette and the table in
stage 2) and `ErrorMeansFault` (the builder never asks for a read that leaves its
track or the disk).

`build_pipeline`, over some two and a half million states: `IsoIsWhole` (an ISO in
`build/` was made of the loader, the manifest and the runtime files of one build,
whatever failed and whenever files were edited) and `SuccessIsOneBuild` (when `Main`
returns 0, the other files are of that build, too; the alias `os.iso` may be an older
one). Neither says how much of the ISO's stream was read: `ReadAllBytes` takes a read
of no bytes for the end, and what it has by then is written as the ISO, with success
(*A short ISO* below).

`tool_process`: `OutputsComplete` (every line the tool wrote is read, once and in
order, by the time `RunProcess` returns or throws), and `RunEnds` as long as what goes to standard
error fits into a pipe. Beyond that both sides wait for each other: the tool for
room in the second pipe, the builder for the end of the first.

`mp4_parser`, over 218 515 states: `SizeOfVideoTrack` (a size that is reported stands
in a `trak` box whose last handler is a video's) and `ParserEnds`.

`dlls_note` is expected to fail: `src/disabled_dlls/Note.txt` sends DLL, MP4, MP3
and PNG files to `dlls` to be loaded, and `DragonRuntimeBuilder` takes only DLL
files from there.

Two more disagreements were met while modelling; the model has them, and the
properties are stated so that they say what still holds.

- *A short ISO.* `ImapiIsoBuilder.ReadAllBytes` leaves its loop when a read of the
  stream delivers nothing (`ImapiIsoBuilder.cs:89`), shortens its array (`98`) and
  returns it without an exception. `Main` writes it, returns 0, says `Dragon OS image
  built successfully.` and names a `Bootable ISO` (`Program.cs:94`, `99`), the one
  that `docs/DLL-Guide.md:173` tells to boot. In `build_pipeline` `CreateIso` makes
  an `"iso"` or a `"cut iso"`, and `SuccessIsOneBuild` holds of both.
- *The dot entries.* `WriteSpecialDirectoryEntry` leaves name bytes 2 to 10 of both
  zero (`UefiSupport.cs:433`), where all other names are filled up with blanks. The
  FAT driver in `edk2/` trims blanks at the very end only (`FileName.c:112`) and
  stops at a zero (`UnicodeCollationEng.c:371`), so it reads the first entry as a dot
  and a blank, which is not `.` for it (`DirectoryManage.c:150`): a directory cannot
  be deleted (`Delete.c:75`), nor moved without an error (`Info.c:421`). The second it
  reads as `..` (`DotIsNotSeen` in `MCFatImage`, which `fat_image` evaluates). A driver
  that compares the eleven bytes takes neither. Files are found and read all the
  same, and `ImageReadsBack` takes the first entry by its place.

Deadlock is not an error where the system really stops: the handoff ends in the
kernel or in the firmware, the handshake returns, builders, parser and copies
return, the boot screens end with the scene, and the tool runner may hang as said
above. The decoder and the kernel loop, which never end, are checked for it. Symmetry is not used: the values that matter are numbers.

Why the bounds are enough: each is chosen so that the limit it stands for is
reached and passed (table full and over-full, wait loops that time out, reads
and packets that end a call in the middle of a packet, all overlaps of sprite
and button). What does not depend on a bound is proved (section 5) or planned to
be.

## 4. Fairness

- `BootHandoff`: weak fairness of the loader's steps. It is the only thread and
  boot services return. The firmware's events need none; that they are finitely
  many is the bound `MaxEvents`, without which the loop could go round for ever.
- `Ps2Handshake`: weak fairness of the driver only. The controller and the mouse
  may never answer.
- `MousePackets`: weak fairness of the driver (the kernel loop never stops) and
  of the controller's transfer; the mouse and the keyboard need send nothing.
- `BootScreens`: weak fairness of its steps; the boot is one thread that nothing
  interrupts.
- `ToolProcess`: weak fairness of the builder's thread and of the tool. A tool that
  can write or exit does so; one that is blocked by a full pipe is not enabled.
- `Mp4Parser`: weak fairness of its steps, it runs alone in its thread.
- The other modules: safety only.

## 5. Proofs

`BootHandoffProofs` proves, for every set of graphics modes and handle lists,
every table size, slack, descriptor size, growth and number of events (the
ASSUMEs of `BootHandoff` are all that is used):

- `TypeCorrect`: `Spec => []TypeOK`, with the bound of the PCI table;
- `HandedMapCurrent`, `KernelOwnsPools`, `MapWithinBuffer`, `SlackIsEnough`,
  `RetryIsQuiet`: the invariants of the same run.

None of these is inductive alone. `IInv` adds three parts. `PoolInv` says which
pools are live at each place in the code, so that a failed allocation, the
handle buffer and the map buffer are accounted for. `MapInv` says that the
buffer has the queried size plus the slack, and that a recorded map whose key is
still current is the current map: a change of the map always changes the key, so
a stale record has a stale key and the loop goes round. `ExitInv` says that after
a failed exit the loader is inside the loop. `TooSmallOnlyPastSlack` needs
`ProductOrder`, since sizes are compared in bytes and stated in descriptors;
`HandedMapCurrent` needs `DivOfProduct`, since the count is a quotient. There is
one lemma per part and in it one step per action.

`FatImageProofs` proves of `FatTable`, for every disk geometry and every list of
node sizes, that runs are disjoint and on the disk (`RunsAreSound`) and linked
(`RunsAreLinked`), that the table never overflows (`TableNeverOverflows`) and
that packed entries read back (`PackedTableReadsBack`). The assumption is
`TableAssumption`, which the constants of the code satisfy (2045 clusters, a
table of 8192 bytes). `TableInv` has the runs in order (`LayoutInv`), entries of
12 bits with a free one behind the last cluster (`EntryInv`; it is why the one
entry that might lie outside the table is never set) and what the packed table
reads as, including zero for the entries still to come (`PackInv`). `SetThenGet`
is the lemma about `SetFat12Entry`: the entry set reads back and no other
changes; `QuotientBound` turns the space check, which multiplies, into the bound
on clusters, which divides.

It then proves of `FatImage`, for every list of files, every way of shortening
names and every geometry, `ReadersFindAll` (`ImageReadsBack`): a reader finds every
file with all its bytes, and `..` leads back (that `.` is seen is no part of it, see
*The dot entries* above). `ImageMakesTable` shows first that
the builder implements `TableSpec`, so that the invariants of the table can be used
(and `ImageTableSound` states them of the builder). `ImageInv` adds what
`ImageReadsBack`, which speaks only of the finished image, is silent about.
`TreeInv`: the children of a directory have different names, and every node is a
child of its directory. `RequestInv` and `FilesInv`: a file that was added is in
the tree until one of the same short path replaces it. `WalkInv`: nothing is met
twice and what is in a directory that was met is met or pending, so that in the end
every node is listed (`WalkComplete`: a missing one of least depth would be in a
directory that is not missing). `PlacedInv`: the runs have the sizes of the nodes.
`DiskInv`: the runs of the nodes written hold them; a later write cannot disturb
them, because runs are disjoint. What is written fits (`NodeFits`, by rounding up),
a run that is one chain reads back as the list it holds (`RunReadsBack`), a name is
found once (`FindChild`), and so is a path (`LookupFinds`). `ReadChain` and `Lookup`
are recursive functions. Their values are proved by giving the function explicitly,
showing that it satisfies the equation, and that two functions that do so agree:
there would be a least argument at which they differ (`ReadOnce`, `FollowOnce`).

`PixelCopyProofs` proves `CopyExact`: for every unrolling, memory and call that the
assumptions allow, `FillPixels32` and `CopyPixels32` store exactly their range.
Its `IInv` has two parts. `CounterInv` says where the counters are: a multiple of
the bulk until the bulks are done, never past the pairs, and the tail starts at
twice the pairs. `PrefixInv` says that memory is what it was with the first so
many pixels stored. `StoreExtends` extends a stored prefix by a range and needs
that the ranges are equal or disjoint, since a copy reads the memory it writes;
`BulkFits` says that a bulk that is started ends within the pairs.

`BootHandoffProofs` also proves `PciTablePrefix` (`PciTableIsPrefix`). `PciInv`
says what the loop of `CollectPciDevices` has counted of the handles before the
current one; the table is compared with the functions among them, not with
all.

`Ps2HandshakeProofs` proves, for every number of polls, keys and moves, every
buffer and every key code, `TypeCorrect`, `NoMouseReported`, `SilentMouseFound`,
`ConfigurationIsWritten` and `PacketsAreAligned`: the four invariants of its run.
`HandshakeInv` is the protocol, place by place in the driver. `ControllerInv`
says what the controller has in its input and what it takes the next data byte
for; `ConfigInv` where the configuration is on its way from the controller through
the driver and back, and that a buffer that was empty at the command 0x20 holds
nothing but the answer; `NoMouseInv` that without a mouse everything with the
auxiliary bit is the controller's own refusal; `SilentInv` where the mouse's
acknowledgement is (not asked for, queued, in the buffer in front of all packets,
read). The properties look at the end of the handshake only, and none of them is
inductive.

`KernelLoopProofs` has two parts. The first proves of the decoder, for every screen, every set of packets with bit 3 set
in the head, every limit on reads and packets, and any number of lost bytes,
`TypeCorrect`, `CursorStaysOnScreen`, `CallMovesWithMouse`, `DecoderResyncs` and
`PacketsStayIntact`. The position needs no more than the clamping and that an
accumulator keeps less than a pixel. `MovesWithMouse` needs `TotalsAreMeant`: the
sums of a call are what the packets meant as long as all were ordinary.
`ResyncWithinFour` follows from a `Distance`: the bytes the decoder still needs,
by its index and the place of the byte it has read, and the bytes read since one
was out of the ordinary are together at most four.
`IntactInvariant` puts the bytes of a packet in order from the device over the
controller's buffer into `Packet`, by the number and the place each byte carries.

The second part proves of the composition, on every screen with scan lines of
every length, every sprite and layout, with and without each extra surface:
`ReadsStayInside`, `ShadowStaysScene` and `LoopImplementsDisplay`, the refinement
`KernelSpec => ScreenFollowsMouse`. A step of the decoder is a stutter of
`CursorDisplay`; the end of a call that decoded a packet is one step of it, from
the picture at the old position to the one at the new. `ScreenInv` says what the
surfaces hold between rounds: with a shadow, that is the scene for the hovered
button, and the screen agrees with it outside the part of the sprite that is on
the screen. The lemmas follow the round: hover refresh,
restoring, composing and copying of rectangles as functions on cells. The proof
needs that the layout has the Install button above the Try button
(`Compositor!SurfaceAssumption`): drawn one over the other, a button refreshed
later would hide the other. That is what `ButtonsOnPanel` shows of the layout.
From the first part it takes that the position is on the screen.

`BootScreensProofs` proves `LayoutFits`: for every word size and screen,
`ButtonsOnPanel`, for the layout alone and, as `BootLayoutFits`, for the boot,
which implements it (`BootLaysOut`). `NoWrap` reduces the modular operations to
plain ones, `PanelFits` and `ButtonsFit` then give the bounds from the smallest
screen. `SplashNested` proves `SplashFramesNested` for every screen and image:
the tween grows with the frame (`TweenOrder`, by the order of cubes), a larger
scale gives a rectangle around the smaller one even where the screen cuts it and
halves are rounded (`RectOrder`), and `SplashInv` says that what is left on the
screen are pictures of earlier frames. `SamplesSpan` proves `SamplesSpanImage`
for images of every size. It needs `IconAssumption`: an icon so narrow that it is
scaled to a width of one pixel is not shown to its last column. The repository's,
1151 by 1500, is wide enough.

`SceneStaysUncluttered` proves `SceneUncluttered` for every screen of at least 1024
by 640 whose right zone the prompt fits, and for every font, text and icon within
`FontAssumption` and `AssetsAssumption`: the cells are not higher than the rows
kept for them, title, note and labels fit into the narrowest panel and button, and
the icon into the space beside the prompt. The fonts and pictures of the
repository satisfy them; TLC evaluates them on the run's. Each part of the scene is
shown to lie in a zone of the panel (`Zone`), and the zones are apart
(`ZonesApart`). That a line of text ends where `MeasureTextStringAtlas` says
(`GlyphsInLine`) is about a recursive function and done like the chains above, with
the pens of a line as the function.

`BuildPipelineProofs` proves `IsosAreWhole` and `SuccessLeavesOneBuild` for any
project, number of edits and number of builds. `FileNamesAssumption` says that
names are not empty and that no two files below `dragon_files` differ in case
only; the builder runs on Windows, whose file systems do not have such files.
`FreeNameFound` is that the search of `BuildRuntimeVirtualPath`, a loop without a
bound, ends: its numbered names are different, so one of the first
`Cardinality(registry) + 2` is free. `BuildInv` has what is needed between the
packaging and the ISO: no two packaged files have one name (`NamesInv`), every
artefact in memory or in `build/` is made of what this build packaged, from the
step that makes it on (`MadeInv`), the staging directory has exactly the first so
many of the files to be staged (`StagedInv`), and outputs written so far are of
this build (`OutputInv`). `IsoIsWhole` alone says nothing of a build under way.

The same module has the proofs about the two other parts of the build tool, whose
variables are their own. `OutputsAreComplete` proves `OutputsComplete` for every
program and pipe. `ToolInv` says that what was read from a stream, followed by what
is in its pipe, enumerates the lines written to it in order, and that a stream is
left only when it is empty and the tool has exited. `SizeIsOfVideoTrack` proves
`SizeOfVideoTrack` for every length of file, every nesting and every size of boxes,
those that wrap around included. `ParserInv` says that the loops under way are
nested in each other and in the boxes they read (`FramesNested`), that every
handler seen lies before the position (`HandlersPassed`), what the innermost
`trak` box has seen so far (`TracksUnderWay`), and that the box a size was taken
from can no longer get another handler (`SizeSettled`).

`LegacyBootProofs` proves `ErrorsAreFaults` (`ErrorMeansFault`) and `ImageIsLoaded`
for every geometry, every length of stage 2 and every size of the screen.
`StageAssumption` is what the code's constants give: 17 sectors of stage 2 on a
track of 18, and a floppy of 2880 sectors where registers count to 65535;
`TargetAssumption` that the image is less than a segment. `ChsIsSector` says that
`LbaToChs` gives an address the drive has and from which the same sector number
comes back. `SizeInv` carries the sizes from the two passes to the disk: the second
stage 2 is as large as the first, so the table's addresses are where
`BuildDiskImage` puts the image. `MachineInv` says what is in memory: stage 2 whole,
so that every table entry is read from its own bytes (`ByteInSectors`), and the
image up to the current entry. That each pixel of the screen has the picture's
colour (`PictureIsImage`) depends on the file formats and stays with TLC.

Only model-checked:

- liveness (`HandoffDecided`, `HandshakeReturns`, `PacketsArrive`, `RunEnds`,
  `OnlyEmptyMaskStops`, `ParserEnds`), which the prover cannot do;
- `BlendBetween`: the value of a field of a pixel is a sum over its bits, which
  needs induction over data;
- `PictureIsImage`: it compares channels of any number of bits through powers of two
  and quotients by them; `ImageIsLoaded` proves the part that is about the floppy.

## 6. Plan

1. Done: all modules of section 2; the proofs of section 5.
2. Left: from `ImageIsLoaded`, that the bytes of the segment are those of the packed
   image, for every image; and of `PictureIsImage` the part that does not depend on
   the number of bits of a channel.

## 7. Not modelled

- `edk2/`: the vendored TianoCore sources, two million lines of third party code
  that no build file of the project refers to. Everything else of the repository
  is small beside it, so the mapped lines are a tiny share of all lines; of the
  7200 lines of `BootApp.c` and the four C# files of the build tool they are some
  3200.
- The pixels inside a glyph, the corners of rounded boxes and the colours of the
  boxes: no control depends on them. What text and images cover and how one
  pixel's bits change are in `BootScreens`.
- `TryUpdateCursorFromSimplePointer`, `TryUpdateCursorFromAbsolutePointer`, the
  tween demo, `DrawKernelStatusScreen`, `DrawMouseDebug`,
  `RestoreCursorBackground` and `DrawGradientOutlinedTextScaled`: no call reaches
  them from `EfiMain`; some have their address taken in
  `PreserveUiSubsystemReferences`.
- The firmware, the 8042 and the devices beyond what the code uses of them.
- PNG decoding (done by a library), the sample picture and the default cursor
  (fixed drawings), the text of the generated header and the font atlases, PE and
  instruction encoding: bytes at fixed places and I/O.
- `IsoBuilder` and `UefiIsoBuilder`: no code calls them. The COM calls of IMAPI
  are one step of `BuildPipeline`.
- The plugin API: interfaces and a list of elements; no host calls them.
- Two things the models show and no document of the repository speaks about, so
  that no property is stated: a mouse report of 128 to 255 counts is read as a
  move the other way, because the sign bits of the packet head are not used
  (`BootApp.c:2498`); and without a shadow surface the cursor leaves a trail,
  because the screen is copied onto itself (`BootApp.c:3040`).
