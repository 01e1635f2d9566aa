# A verification model of the stm32 CAN logger

The firmware in `src/` records CAN frames on an SD card and over USB. This
directory models it in TLA+, checks the model with TLC on small instances, and
proves the main results for every instance with TLAPS. `PROJECT.json` relates
every definition to the lines it models and lists the runs, mutants, findings,
hazards and theorems.

## 1. The system

Three contexts share one processor, the statics of `main.cpp` and one SD card:

| context | code | priority |
|---|---|---|
| CAN1/CAN2 receive interrupts | `CanCallback1/2` -> `ProcessCanData` -> `WriteToFile`, `usb_Send` | 0xf, the lowest |
| TIM2 scheduler | `Ms10Task`, `Ms100Task` -> `UpdateCanStats`, `newSDFile` | 0xe, `nvic_setup` |
| `main()` | boot: tasks, `sdDrvInit`, `OpenFatInit`, `CreateDir`; then terminal and `usb_Poll` | none |

No lock protects anything: a task interrupts a callback anywhere, and both
interrupt `main()`.

| component | state | operations | hard behaviour | what makes it correct |
|---|---|---|---|---|
| `main.cpp` | `headerSent`, `newFile`, `timer1Sec`, `CAN1Active`, `CAN2Active`, `FrameCounter` | callbacks, tasks, boot | preemption between any two accesses; timeouts; changes of mode; boot while frames arrive | one header per log; a log ends after one second of silence and only then; displayed state follows the traffic |
| `stm32_SD` files | `FileID`, `fileHandle`, `volHandle` | `CreateDir`, `CreateFile`, `WriteToFile` | ignored results, restarts, 19 usable names | a new log does not damage an old one |
| openfat directory | directory entries, `vol->cwd` | `fat_open`, `_fat_dir_create_file`, `fat_mkdir`, `fat_unlink` | lookups that open what they find; failure half-way | names are unique; an entry is visible when it is complete |
| openfat volume | FAT, `last_cluster_alloc`, handles | `fat_write`, `fat_read`, `fat_lseek`, allocation | cluster boundaries, full card, several FATs | chains are disjoint and end; a file reads back what was written |
| sector cache | `_fat_cache`, `_fat_sector_buf` | `FAT_GET/PUT/FLUSH_SECTOR` | write-back order, crashes, I/O errors | the buffer is what its tag says; what a crash leaves can be read |
| `mbr.c`, `fat_vol_init` | partition offset, geometry | mounting | odd geometries | sector arithmetic stays inside the partition |
| SD driver | `cardType`, SPI | `sdDrvInit`, `sdDrvReadSector`, `sdDrvWriteSector` | timeouts, tokens, busy waits | each block goes to the sector asked for, in order, or nowhere; no transfer is left open; calls return if the card answers |
| `stm32_usb` | `usb_connected`, endpoint | `usb_Send`, `usb_Poll`, callbacks | busy endpoint, suspend | lines arrive whole and in order |
| terminal, parameters, `hwinit` | parameters, registers | set-up | - | - |

`sddriver.c`, `sdspi.c`, `logger.c` and `usb.cpp` are not linked by the Makefile;
`openfat/unix` runs on a PC; `unixlike.c` is linked but never called;
libopeninv and libopencm3 are empty submodules, known only through their calls.

## 2. Modules

| module | models | state and actions |
|---|---|---|
| `LogFiles` | `stm32_SD::CreateFile`, `WriteToFile`, and of openfat `fat_open`, `build_short_name`, `_fat_dir_create_file` | `cwd`: 8.3 name of each log file; `rows`: its lines; `handle`, `position`: `fileHandle`. `CreateFile` has the four ends `fat_create` has: `FileExists`, `NewEntry`, `NoShortName`, `EntryRefused` |
| `Logger` | `main.cpp`, over `LogFiles` | `pc` is the next access of the running CAN callback, one action per access; `Ms100Task` and `Ms10Task` are one action each, enabled at every `pc`; `main` is the phase of `main()`, which moves only when no callback runs |
| `FatVolume` | openfat below the names: allocation and chains (`write.c`), `fat_write`, `fat_read`, `fat_lseek` (`fat_core.c`), `_fat_dir_seek_empty`, `fat_create`, `fat_unlink` | `fat`, `entry`, `disk`: what is on the card; `file`, `cwd`: the two handles; `op`: the call in progress, with the locals its loop carries. One step per loop iteration; a call is a start (`fat_write`), its iterations (`WriteInCluster`, `WriteToNext`, `WriteToNew`, `WriteClipped`) and a return (`WriteReturns`, with `fat_file_sync`) |
| `FatFiles` | what `openfat.h` promises: a file is a sequence of units that keeps what was written to it | `content`, `open`, `position`; `FatVolume`'s `KeepsPromise` states that the volume implements it |
| `FatTable` | `bpb.h`, `fat_vol_init`, the FAT entries of `write.c` and `fat_core.c`, byte by byte, with `leaccess.h` | `bpb`: the boot sector; `vol`: the volume handle; `disk`: the bytes of the FAT area; `link`: what each cluster was last linked to. `Allocate` and `Relink` are the two ways in which the code changes entries |
| `SectorCache` | `FAT_GET_SECTOR`, `FAT_PUT_SECTOR`, `FAT_FLUSH_SECTOR` on a partition (`mbr.c`), and what a power cut leaves of the last write | `card`, `undo`; `buf`, `sector`, `dirty`: `_fat_sector_buf` and `_fat_cache`. Operators, each an access to one sector |
| `FatUpdates` | mounting, `CreateDir`, `CreateFile` and `WriteToFile` as sequences of accesses to sectors | EXTENDS `SectorCache`. `handle`: working directory, log file, `fat_mkdir`'s directory; `op`: the call, the stages it has left and its locals. One action per access; `PowerCut` at any moment, and mounting again |
| `SdCard` | `sdDrvInit`, `sdDrvReadSector`, `sdDrvWriteSector` and the card on the bus | `cardType`, `SDStatus`, `SDType`; `call`: the call and its place; `card`: kind, state, contents, the block it is programming. One action per exchange with the card |
| `BlockDevice` | what the file system is promised of `read_sectors` and `write_sectors` | `disk`, the block at risk, the request; `SdCard`'s `KeepsDevicePromise` states that the driver implements it |
| `MCLogFiles`, `MCLogger`, `MCFatVolume`, `MCFatTable`, `MCFatUpdates`, `MCSdCard` | bounds and small sets for TLC | |
| `LoggerProofs` | theorems about the log files, and about the logger around them | |
| `SdCardProofs` | theorems about the driver and the card | |
| `FatVolumeProofs`, `FatPromiseProofs` | theorems about the volume: who owns which cluster and where a position in a file lies; on top of that, what the files and the directory hold | |
| `FatTableProofs` | theorems about the bytes of the FAT and the geometry | |
| `FatUpdatesProofs` | theorems about the order of the accesses: the types of what is on the card, the buffer, and the copies of the FAT | |
| `FatChainsProofs` | on top of that, the chains that any power cut leaves, and the lines behind their entries | |
| `NatLemmas` | lemmas about division and least elements, used by the above | |

`Logger` EXTENDS `LogFiles` and uses its actions whole: `EndWrite` is
`WriteToFile`, the timeout is `CreateFile`, `Restart` is `PowerCycle`.
`LoggerImplementsLogFiles` proves that the logger refines `LogFiles`. `FatVolume`
stands beside them for the layer that `LogFiles` takes as ideal: `LogFiles`' `rows`
are the contents `KeepsPromise` speaks of, as long as its conditions hold.

Below, each module justifies what the one above it takes for granted. `FatVolume`
has the FAT as one function on clusters: `FatTable` shows that entries packed into
bytes, in several copies, behave so (`EntriesApart`, `CopiesAgree`). `FatVolume` has
sectors that are read and written directly: `FatUpdates` shows that the buffer always
holds the newest contents (`NeverStale`), and adds the crashes. `FatUpdates` has a card
whose blocks are written one by one with the last at risk: that is `BlockDevice`, which
`SdCard` implements. (An arrow reads "takes for granted what ... shows".)

    Logger -> LogFiles -> FatVolume (FatFiles) -> FatTable
                              |
                              v
                          FatUpdates on SectorCache -> BlockDevice, by SdCard

### Abstractions

- A line is `"header"` or `"row"`, tagged in the history with the log it belongs
  to; lines have one size, so `position` counts lines, and a line written over
  another replaces it exactly. The card's clusters do not run out in `LogFiles`; a
  directory entry may be refused (`EntryRefused`), which covers a full directory
  and an I/O error while writing it.
- `fat_create` leaves the handle wherever its last lookup put it. This is the one
  detail of openfat that decides what a later `WriteToFile` damages, and it is kept:
  `LeftByProbing`.
- `WriteToFile` takes effect at its return (`EndWrite`); the interval between
  `StartWrite` and `EndWrite` is where the sector buffer is torn if a file is
  created. Three more things have no defined outcome: writing through a handle
  nobody opened, creating a file on a volume that is not mounted, and creating one
  inside `fat_mkdir`. All four set `fault`, and a faulty state has no successor:
  the properties speak of executions up to the first fault. That is why the runs
  say `CHECK_DEADLOCK FALSE` (those of `LogFiles` because they end at their bounds).
- The 100 ms task is one step, because nothing preempts it that touches its state.
  `CAN1Stat` and `USBStat` are written before the timeout is tested, as in the code.
- `opened`, `refused`, `restarted`, `rx`, `boots`, `quiet`, `raced` and `steady` are
  history variables: no guard reads them.
- In `FatVolume` a unit is the size of a directory entry, `BPS` of them make a
  sector and `SPC` sectors a cluster. A name takes two entries: a long name entry,
  which `fat_unlink` never removes, and the short one. The directory is a cluster
  chain (FAT32; the fixed root directory of FAT12/16 is not modelled). The copies of
  the FAT are one function (`FatTable`). Sectors are read and written without errors
  and the cache is transparent (`FatUpdates`).
- A handle whose `cur_cluster` has run past the end of its chain reads or writes a
  sector beyond the volume, or inside the FATs for large clusters; the model does not
  take that step, to which a caller that heeds the free space never comes. `fat_lseek`
  goes no further than the end of the file. A file is not unlinked while it is open.
- `entry[f]` is what the unit of `f`'s short entry holds besides its name. The code
  reads it again from the directory at each lookup, and so `fat_open` and `fat_unlink`
  ask for a unit that is still in place (`InDirectory`), which `EntriesIntact` shows it
  to be in an aligned volume whose caller heeds the free space. Elsewhere data may land on
  the directory: what a lookup then reads out of an overwritten entry is not modelled, nor
  is a file that is created again because its entry has been overwritten. The theorems about `FatVolume` and the
  runs that pass therefore assume both conditions; the runs `fat_full` and `fat_misaligned`
  stop at the first unit of a file that is lost.
- Every lookup rewinds the directory handle before it uses it, so where a call
  leaves it is not modelled. Short names are distinct here: `LogFiles` has their
  rules.
- `chain` and `clipped` are history variables: the clusters each file has been
  given, in order, and whether a write has ended for want of a cluster.
- `FatTable` has the first directory sector or data sector at the end of `disk`, to
  see that nothing is written there. The limits of the FAT types and the length of a
  directory entry are constants, so that volumes of a few clusters are of all types.
- In `FatUpdates` clusters have one sector; a sector of data or of a directory has
  `Slots` items; one long name entry stands for those of a name; a copy of the FAT is
  one sector; every directory is a chain. The searches for a free 8.3 name, which read
  again what the first search has read, are left out. Free clusters never run out
  (`FatVolume` has the full card, and `CallsEnd` shows that no call is stuck for want of
  one). Before their first use clusters hold `Junk`. A file that has lines is not
  created again (`LogFiles`). A read beyond the chain of a directory fails (`PastEnd`),
  which is so for clusters of up to 8 sectors on FAT32, on a card addressed by blocks and in
  a partition that reaches to the end of the card: with byte addresses `sector*512` wraps, and
  `mbr.c` never looks at the size of the partition.
- A power cut in `FatUpdates` either keeps or undoes the sector written last: the
  driver reports a block when the card has taken it and waits at the next command
  until the card has programmed it, as `BlockDevice` says (`settling`). A sector is
  written whole or not at all.
- In `SdCard` the bytes of an exchange, the CRCs and the echo of CMD8 are part of the
  step. The card may answer any command of a transfer (CMD17, CMD18, CMD24, CMD25, ACMD23,
  CMD12), CMD16 and CMD58 with an error, and refuse any block; CMD12 ends a transfer
  whatever its answer. An error token in place of a block is left in the first byte of the
  caller's block: `WithToken` is the set of what a block may have become. While a card is
  being identified, its other answers depend on its kind alone. A reset of the processor alone happens only when no transfer is
  open: inside one the card would take the first command for data, which depends on its
  position in the block.
- The LED, watchdog, CPU load, RTC time stamps, the text of a line, and CAN3/CAN4
  (no callback ever sets their flags) are left out.

## 3. Runs

| run | shows | bounds |
|---|---|---|
| `log_files` | types, unique 8.3 names, newest lines first in every file, and the first `Direct + Slots` logs untouched on a fresh card | one own name, 2 tails, more FileIDs than names, so that restarts, wrap-around, exhausted tails and refused entries all occur |
| `log_files_reuse` | after a restart a log starts in a file that has lines, though the card refuses nothing (finding) | as above, but no more logs than names, so that restarts are the only cause |
| `logger` | types, well-formed logs, no split while frames arrive, a new file after a silence | `Timeout` 2, three frames per boot, one restart, one bus, modes 1 and 2 |
| `logger_live` | a silent bus closes the log; a frame is shown in its status | `Timeout` 1, two frames, both buses, modes 0, 3, 4 and USB on and off |
| `logger_no_file` | the first write may use an unopened handle (finding) | as `logger` |
| `logger_reentry` | the timeout may create a file inside `fat_write` (finding) | as `logger` |
| `fat_volume` | disjoint and complete chains, intact directory entries, a position that agrees with the sector, files that hold what was written to them | two files, a directory that grows by a cluster, clusters of two sectors of two units, three free clusters around an occupied one, calls of 3 units (across a sector or a cluster) from any position, files of up to 5 units, two values |
| `fat_updates` | the buffer is never stale; after a power cut an entry that is found is complete and no acknowledged call but the last is lost; chains are apart and end at every moment; the copies of the FAT differ in one entry at most, and one for each cut; directories are cleared; every call ends | three items to a sector, a root directory with two labels so that the first new entry crosses into a new cluster, two files (one of them in the directory or, if the timeout comes first, in the root), four lines in calls of one or two, so that a file grows into a second cluster, one cut, two copies of the FAT |
| `sd_card` | the driver implements the block device, knows its card, ends transfers and returns | all kinds of card; three sectors of two values, one of which begins with the error token, calls of one and two blocks, up to and beyond the end of the card |
| `fat_table` | packed entries do not disturb each other, the copies, or anything else; the geometry covers the volume; the search wastes two clusters and no more | sectors of four bytes, so that FAT12 entries lie across them; six to eight clusters, one to three sectors to a cluster, one or two copies, all three types |
| `fat_full` | writing on when the card is full destroys data (finding) | the same geometry, for any caller |
| `fat_misaligned` | a data area not aligned to clusters misplaces data (finding) | `first_data_sector` 1 with clusters of two sectors |

`fat_volume` assumes what the two findings say the code needs:
`first_data_sector` is a multiple of `sectors_per_cluster`, and the caller
(`CallerHeeds` in `HeedingSpec`, and so in the run's `MCHeedingSpec`) does not write after
a call has used up the card, nor create a file without a free cluster. openfat gives no such warning to its caller, and
`stm32_SD::WriteToFile` looks for none. Files and values are interchangeable, so the
runs use their permutations as symmetry. The bounds let a file leave a sector in
the middle and at its end, enter a new and an existing cluster, be freed and have its
clusters reused, and let a directory entry reuse a deleted place.

The code's 10 ticks, 10 own names, 9 tails and 256 FileIDs are the constants
`Timeout`, `Direct`, `Slots` and `IdMod`. Small values suffice for the interesting
cases: a countdown that is interrupted and one that expires, a name of each kind,
a tail taken and a tail free, an exhausted name space and a wrapped FileID. The
proofs remove the bounds.

Each property of a passing run has a mutant in `PROJECT.json`, one of the
definitions named `Bug_...`: an unchecked first tail, a position that is kept
when a file is reopened, a FileID that is not advanced or does not wrap, a `newFile`
that is never cleared or never set, a timer that is not reset or not
reloaded, activity flags cleared before they are copied; a cluster allocated
without looking at the FAT, the next cluster read after it is freed, a size that is
not synced, a seek that goes on from the current cluster; an entry of the FAT that
overwrites its neighbour's nybble, a copy that is forgotten, a root directory rounded
down; a link written before the end of chain behind it, a directory entry written past
the buffer and so ahead of its data, a size left in the buffer; a card taken to have
byte addresses, a block sent while the card is busy, a failed read that does not stop
the transfer.

### Fairness

`logger_live` assumes weak fairness of the steps of a callback (an interrupt
routine runs to its end), of `AddTasks` (the code before it waits for nothing) and of
the two tasks (the timer keeps ticking). It does not assume that the card ever
answers during boot, that frames arrive, that the terminal or USB do anything, or
that power holds. A callback that waits for the card for ever is outside the
assumption: the waits of the SD driver have no bound.

`sd_card` assumes that the driver's next exchange happens (the card answers every
command), that the card finishes programming, and that a card polled for ever by the
loops of `sdDrvInit` wakes up at last (strong fairness of `InitAwake`: it may be enabled
only between two errors). `CallsReturn` is about executions in which the processor does
not start over for ever. `fat_updates` assumes that a call that has begun takes its next
step, which is what `CallsReturn` shows; power cuts are under no fairness.

### Findings

- `NewLogStartsEmpty`: after a restart "create a new file" (`main.cpp`) reopens an
  existing file and writes over it.
- `WritesToOpenFile`: the first file is created by the first silence; frames that
  arrive earlier are written through a zeroed handle.
- `NoCreateInsideWrite`: the timeout is reset after the write, so a frame that
  arrives as the second ends can have its write interrupted by `fat_create`.
- `KeepsPromise` in `fat_full`: the write that fills the last cluster leaves
  `position` at its end and `cur_cluster` on it; the next `fat_write` goes to the
  first sector of that cluster and is reported as success.
- `KeepsPromise` in `fat_misaligned`: the end of a cluster is recognised by
  `sector % sectors_per_cluster`, on a sector number that counts from the start of the
  volume.

## 4. Theorems

What the theorems assume of the constants is named in the modules: `NamesAssumption` (at
least one own name and one tail, and no more of them than FileIDs), `TimeoutAssumption`
(`Timeout` is positive), `SdAssumption` (sizes are positive, a block with an error token
in it is a block, what a deaf card answers is no kind of answer), `VolumeAssumption` (a geometry with a root directory; the kinds of
directory entries are distinct). Two more are hypotheses of every theorem about the volume,
because the findings `fat_misaligned` and `fat_full` show what happens otherwise:
`Aligned`, and the caller of `HeedingSpec`. `TableAssumption` says what a
formatted volume is, in terms of the formatter and not of `bpb.h`: some number of sectors for
the root directory holds its entries with less than a sector to spare, some number of
clusters, at least one, fills the rest with less than a cluster to spare, and a FAT has bits for
all its entries (`Fits`). Any size of a sector, of a cluster and of an entry of the directory, any number of
copies and any limits between the types will do. `UpdatesAssumption` is a volume with a
cluster and names that differ; `TwoCopies` (more than one copy of the FAT, as every
formatter writes) is a hypothesis of the theorems about `FatUpdates` but `CopiesStayTogether`: with one copy, the
buffer that clearing a cluster fills keeps the tag of the FAT sector that is searched
next, and `NeverStale` is false (see the hazard at `write.c:182`).

| theorem | argument |
|---|---|
| `FilesTypeCorrect`, `LoggerTypeCorrect` | induction; `timer1Sec` is reloaded in the step that would wrap it |
| `UniqueNames` | a new entry takes a tail that `Wins`, which no file holds |
| `NewestLinesFirst` | `NewestFirst` alone is not inductive: a write in the middle of a file could leave an older line above. `WritingPoint` adds that all lines above the handle belong to the newest log and that no line is newer |
| `FirstLogsKeepTheirLines` | `OrderlyInv`: while a fresh card is used within its capacity, log n is in file n, under the next unused name; then no creation reopens a file and every write appends |
| `LoggerImplementsLogFiles`, `LoggerNamesUnique`, `LoggerNewestFirst`, `LoggerKeepsFirstLogs` | every step of `Logger` is a step of `LogFiles` or leaves `files` alone |
| `FilesStartAfterQuiet` | `QuietInv`: until the timeout fires, the timer and the silent ticks add up to `Timeout` |
| `SilenceStartsFile` | `FreshInv`: a file that is marked new, or whose silence is over, is unwritten, except between `WriteToFile` and `newFile=false`. A timeout in that interval does no harm: the callback that it interrupts writes no more, and resets the timer behind it |
| `LogsWellFormed` | `HeaderInv`: outside the carrying part of a callback, `headerSent` says whether the open file has its header; inside it, the carried line is the header exactly when the file is empty. It needs `NewestInv` for the position and `ModeInv` for the callback's copy of the mode |
| `SdTypeCorrect`, `TransfersEnd`, `CardIdentified` | `SdInv`: `Placed` says at each `call.at` whether the card has a transfer open and what has been counted, `Learnt` what `sdDrvInit` knows of the card by then, `InStep` that a card in a transfer is at the sector of the caller's next block |
| `DriverKeepsPromise` | every step of `SdCard` is one of `BlockDevice`, by `SdInv`: the card is where the driver counts, for byte and for sector addresses. A block of a write that is refused is counted (`MoveNothing`); a refused block of a read is spoilt, and counted if it is the only one (`Spoil`) |
| `FatTypeCorrect`, `NoClusterShared`, `NoClusterLost` | `VolumeInv`: disjoint chains whose links are the FAT are not inductive by themselves. Every handle must have its `cur_cluster` in its owner's chain (`Held`), the entry or the open handle know the head of the chain (`Heads`, `Synced`), and `op` be about a chain that is still there (`Whose`). The induction itself uses neither hypothesis, but without them an entry of the directory can be overwritten, and `entry` no longer stands for what the code reads: nothing is claimed there |
| `OthersUntouched` | by the same invariant, each action changes `fat` only at clusters of the call's own file, or free ones |
| `PositionsInPlace` | `Positions`: a handle is in the cluster of its position, the one behind the last being the end mark, except after a write that was cut short (`Stands`); a seek is as many clusters behind as it still counts; sector and offset follow the position through the pieces of a call. `Room`: the write of a name has a cluster to spare |
| `VolumeKeepsPromise` | `Named` adds that entries are units of the directory and that the open file has one; different positions have different places, so that a piece of a write changes just the units of its file that it covers, and each step is a step of `FatFiles` or a stutter |
| `EntriesStayIntact` | `Entered`: the place found by `EmptySlot` stays vacant until both entries are in it; while the short name is written, the long one is in front of it; and a directory that has ended does not begin again (`Listed`), which needs the clearing of its new clusters |
| `BufferNeverStale`, `UpdatesTypeCorrect` | `UpdatesInv`: the buffer and the card differ under a clean tag only behind `ClearCluster`, and then the tag is the last copy of the FAT (`StaleInv`), because the links were set, copy after copy, just before (`AtPlace`); that copy is only looked at to set a link, and setting one loads it first. To know which sector a step looks at, the invariant carries what every sector holds, on the card, in the buffer and in what a power cut may bring back (`CacheInv`), what is mounted (`Mounting`) and which stages a call has left (`InCall`). Sizes found after a power cut are at most the lines written, since every entry on the card is (`Sound`) |
| `TableTypeCorrect`, `EntriesReadBack`, `AllCopiesAgree`, `NothingElseWritten` | `TableInv` joins the four with `Layout`, that the handle is still that of its boot sector. `Geometry` and `LayoutShapes` derive from `TableAssumption` that every entry lies within its copy of the FAT; then a byte has one address (`PlacesApart`), one call changes the bytes of one entry in each copy, each as a function of what it was (`SetInFirst`, by induction on the copies), and only the two entries of FAT12 that make a pair share a byte (`TwelveOverlap`), of which each keeps its half |
| `ClustersCoverVolume`, `SearchMissesTwo` | `Geometry`: the quotients of `bpb.h` are the formatter's numbers; the least free cluster from `last_cluster_alloc` on, or else from 2 on, is what the search finds. `root_first_sector` has 16 bits, and is claimed to be right only if the sector number fits |
| `CopiesStayTogether` | `CopiesInv`, on top of `UpdatesInv`: the newest copies, the buffer's included, agree but for the entries that earlier power cuts broke off (at most one each) and the one that is being set; in the copies already done, that one has its new value (`Halfway`), and no entry is begun before the last copy has the one before (`InOrder`). Writing the buffer back puts the newest copies on the card and only the previous state of the card at risk (`Kept`), so a power cut leaves one of the two. With one copy there is nothing to compare, so no hypothesis is left |
| `ChainsStayApart` | `ChainsInv`, on top of `UpdatesInv`: in the newest state, the FAT is a forest whose roots are the entries' first clusters, one root to an entry, wherever on the card the entry is (`Rooted`). That says nothing of a cluster that is taken but not yet linked or entered, so `Claims` does: the first cluster of the open file, of the new directory and of a link to come are led to by nothing, are no other entry's, and get their end of chain before they are linked or entered. Only the newest contents of a sector are ever written to the card, so what a power cut leaves was the newest state at some time (`KeptImages`, `WrittenImages`), and is `Rooted` too; in a forest two paths that meet have one root, so a path repeats no cluster, and one as long as there are clusters has ended (`ChainEnds`) |
| `LinesBehindEntries` | `BackInv`, on top of both: every entry of a file has a path of clusters from its first one that hold its lines up to its size (`Backed`), and so has the open file up to its position, which stands in the last cluster of that path, or behind it while the next one is being linked (`Standing`); an entry that shares its first cluster is its own and says no more than the position (`OwnEntry`). The clusters of directories, and one that is about to follow them, are on no chain of a file (`Aside`, `Off`), so that neither a name nor a cleared cluster lands on lines; the log file is written only behind its position, since in a forest no other file has its cluster (`FileWritten`). What is waiting to be written are the next lines, in order (`Counted`). Again what a power cut leaves was the newest state at some time |

The conditions of `SilenceStartsFile` and `LogsWellFormed` are those under which the
code keeps its promise: no refused entry, and for `LogsWellFormed` also no timeout during a
callback (`~raced`) and a mode that always includes the card (`steady`). If either of these
two is dropped, TLC finds headers lost or doubled, because `headerSent` is consumed in every
mode and cleared by the timeout at any point: `LogWellFormed` says nothing of these cases.

Only model-checked: the liveness properties `TrafficEnds`, `ActivityShown`, `CallsEnd` and
`CallsReturn`, which need fairness; and of `FatUpdates` two properties that say that a
search does find something, or nothing old (`Durable`, `DirectoriesCleared`), for which
the contents of whole directories on the card would have to be followed.

## 5. Plan

Modelled: `LogFiles`, `Logger`; `FatVolume` with `FatFiles`; `FatTable`; `SectorCache` with
`FatUpdates`; `SdCard` with `BlockDevice`. Open, in this order:

1. `Durable` and `DirectoriesCleared` as theorems: they need, on top of the invariant of
   `LinesBehindEntries`, that an entry once written stays reachable from the root in every
   image, behind its long name and with no end of the directory before it.
2. The FAT12/16 root directory as a second kind of directory in `FatVolume`.

## 6. Not modelled

- `stm32_usb` below `usb_Send`: descriptors, control requests and the endpoint belong to
  libopencm3, an empty submodule; whether a line is dropped when the endpoint is busy
  is decided there.
- Errors of the device inside the card in `FatUpdates`: the driver hides most of them (a
  refused block is counted, `MoveNothing` and `Spoil`), and openfat takes `-EIO` for a cluster number
  where it does see one.
- The fixed root directory of FAT12/16, `O_ASYNC`, seeking past the end of a file, the
  conversion, comparison and checksum of names.
- `sddriver.c`, `sdspi.c`, `logger.c` and `usb.cpp`, which are not linked; `unixlike.c` and
  `SDTest1`, which nothing calls; `openfat/unix`, which runs on a PC.
- Register set-up, the text of lines and of the terminal, the bodies of libopeninv
  and libopencm3.
- What the findings would need beyond the code: a caller that looks at `fat_write`'s
  result, a file number that survives a restart.
