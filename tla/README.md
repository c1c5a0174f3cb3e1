# samdisk_plus, specified

samdisk_plus copies floppy and hard disks between devices and image files. What
makes it more than a copier is its patience: a disk that reads badly is read
again and again, sector by sector, revolution by revolution, run by run, and all
readings are merged into one image that should only ever get better. These TLA+
modules specify that patience - what a sector keeps of many readings, which
counters decide that it is read once more, which threads read it, how a track is
put together from pieces and how the result replaces the image file - and the
formats it passes through: flux, bits, sectors, and the images that hold them.

Paths below are relative to the repository (`src/src/Sector.cpp` is the file
`Sector.cpp` in its directory `src`); file names without a path are in `src/src`.

## How to run

In this directory: `tlc -config DiskCopy.cfg DiskCopyMC` for a run (the `module`
and `cfg` of every run are in `PROJECT.json`), `tlapm DiskCopyProofs.tla` for a
module of proofs. `PROJECT.json` also maps every definition to the lines of code
it models, lists the hazards the properties are for, and names for every property
a plausible bug that breaks it (the definitions commented as mutants).

## Inventory

| Component | State it keeps | Operations | Talks to | What is hard | What makes it correct |
|---|---|---|---|---|---|
| Sector (`Sector.cpp`) | copies of the data, a parallel list of read counts, CRC flags, address mark, attempts | add, merge, limit, remove gap, repair flags | Track, decoders, drivers | two lists and one flag kept in step by call order; copies of different lengths | lists aligned, counts are reads, flag honest, good and stable data never lost |
| Retry counters (`RetryPolicy.h`) | amount, count, change noted | ask, decrement, note a change | every loop below | asking changes the counter; negative amounts start over | every retry granted is made, loops end |
| DemandDisk (`DemandDisk.cpp`) | tracks, marks of loaded ones | read with rescans and retries, write, clear, forget, flip | Disk, its subclasses for devices and flux images | several threads; two counters decide together; loads throw | marked tracks are the right ones, the best load is kept, reads end |
| Floppy driver, plain mode (`types/fdrawsys_dev.cpp` 330-494) | one counter per sector | rounds of read commands | the driver, Sector, DemandDisk | each outcome handles counter and attempts differently | sectors take turns, amounts kept, loops end |
| Floppy driver, rescue mode (same file 496-1001) | tracks with headers and data not yet paired, policy, two counters | read headers, read data, merge physical tracks | OrphanDataCapableTrack, DeviceReadingPolicy | rounds of several kinds of reading with shared counters | rounds end, nothing found is lost |
| Reading policy (`DeviceReadingPolicy.h`) | wanted, skippable, possible sectors; a cached answer | change sets, ask | floppy driver, TransferTrack | stale cached answer | the answer is that of the sets |
| Thread pool, preload (`ThreadPool.h`, `Disk.cpp` 40-70) | queue, stop flag | enqueue, worker loop, destructor | Disk | condition variable, exceptions of tasks | no missed notification, nothing runs after |
| Copying (`cmd_copy.cpp`, `Disk.cpp` 390-487, `DiskUtil.cpp` RepairTrack) | destination disk, two levels of counters, cache of the source, two files | rounds over the disk, rounds over a track, repair, write, replace file | DemandDisk, Image, Sector | partial failures, stops, repeated use of a cached reading | the disk is always in a file, never worse, runs end |
| Summary disk (`RepairSummaryDisk.cpp`) | a second disk and the cache of the first | read with repair | DemandDisk, TransferTrack | writes into the cache of the disk it reads | a summary is not taken as a new reading |
| Track (`Track.cpp`, `TrackSectorIds.cpp`) | sectors ordered by offset, track length and time | add, merge, tune, synchronise, validate, guess numbers | Sector, TrackData, decoders | offsets with tolerance and wrap at the index; loops over lists that move | order, no sector twice, every sector at its place |
| Tracks with orphans (`OrphanDataCapableTrack.cpp`, `PhysicalTrackMFM.cpp`, `TimedAndPhysicalDualTrack.cpp`) | headers with data, data without headers | merge, fix offsets, join, split | rescue mode | pairing by distance | data only below its own header, nothing good lost |
| Track data (`TrackData.cpp`) | flux, bits, sectors; which are present, which is preferred | add, conversions on demand | decoders, encoders, Disk | scans that ask for what they make; a shared memory of the last encoding | scans end, formats are found, bits show the sectors |
| Decoders (`BitstreamDecoder.cpp`, `FluxDecoder.cpp`) | marks found, data deferred | scan for marks, match data, try views | BitBuffer, Track, Sector | data found before or without its header; views given up | data belongs to its header, no view forgotten |
| Encoders and builders (`TrackBuilder.cpp`, `BitstreamTrackBuilder.cpp`, `BitstreamEncoder.cpp`, `SpecialFormat.cpp`) | output buffer | gaps, sectors by offset, protections | TrackData | what does not fit; protections recognised by tests | what is written is scanned again |
| Bit buffers (`BitBuffer.cpp`) | bits, position, indexes | read, write, wrap | decoders, encoders | wrap at the index | positions |
| Image opening (`Image.cpp`, `types.cpp`, `MemFile.cpp`) | none | unpack, try all types, write by type | all types | the first type that claims a file decides | reader and writer agree on places |
| Sector images (`types/*.cpp`, `Format.cpp`) | none between calls | read, write | Track, Format | order of tracks, geometry by size, damage without a place for it | round trips, damage is marked |
| DSK, D88 and other images of sectors with flags | none between calls | read, write with copies, statistics, offsets | Sector, Track | shared size limits | what was written is read again |
| Images of bits and flux (SCP, MFI, HFE ...) | bytes, decoded on demand | read, write, load a track | DemandDisk, TrackData | carries in the words; loads repeated | times as the medium had them, loads repeatable |
| Built-in disks (`types/builtin.cpp`) | none | make tracks of protections | encoders | - | inputs of the encoders |
| Filesystems (`FileSystem.cpp`, `filesystems/*`) | a parameter block | approve, rebuild, list | ST images, copying | guesses from damaged FATs and directories | the rebuilt system is the one the disk had |
| Flux devices (`KryoFlux.cpp`, `SuperCardPro.cpp`) | device state | commands, answers | DemandDisk | protocol, timeouts | answers belong to commands |
| Driver interface (`FdrawcmdSys.cpp`, `VfdrawcmdSys.cpp`) | handle, virtual position | ioctls | floppy driver | errors | statuses |
| Block devices (`BlockDevice.cpp`, `HDD.cpp`) | handle, position, lock | seek, read, write, copy | copying of hard disks | bad blocks | each sector copied once, to its place |
| Network (`Trinity.cpp`) | sockets, device list | request, receive | types/trinload | datagrams lost, doubled, late | a sector consists of its own datagrams |
| Commands, options, utilities, third-party code | options | parse, print | all | none | - |

`PROJECT.json`, "components", gives the files of each one and its status.

## Modules

```
 RetryPolicy <- DemandDisk, FdrawReadSectors, RescueTrack, DiskCopy
 Sector                     (SectorMC, TracksMC)
 Preload <= ThreadPool, DemandDisk           (PreloadMC; <= is implemented by)
 FdrawReadSectors; ReadingPolicy <- RescueTrack                  (FdrawDiskMC)
 Track <- TrackScheme <- OrphanTrack <- TrackAssembly -> TrackSectorIds (TracksMC)
 TrackData                                   (TracksMC)
 BitEncoders <- BitDecoders, BuiltIns <- BitTracks, BitInputs           (ImagesMC)
 RegularFormats <- ImageFiles <- ImageWriters                           (ImagesMC)
 StoredTracks <- DskFiles, SectorFiles, FluxFiles <- TrackImages   (ContainersMC)
 Fat12                                                                  (ImagesMC)
```

A module `XProofs` extends `X` and holds its theorems; `PreloadProofs` holds those of
`ThreadPool` and of `DemandDisk`, which a preload works with together, `TrackProofs`
those of `TrackData` and of `TrackAssembly` with the lemmas about `Track`. Modules whose instances are
independent of each other share a run: a variable `unit` says which of them is at
work in a behaviour. A unit that is not at work stays as it begins, where its properties
hold, or (`ImagesMC`) a property is stated as an implication from the unit at work.
In `PreloadMC` the units follow each other, because `DemandDisk` is what a preload is
made for.

## What is modelled, module by module

### Sector

`Sector.tla` is one sector: its copies, the read counts, the CRC and id flags,
the address mark and the attempts. `AddOriginal` is `Sector::add_original`
(refusal, replacement of bad by good, the search for an agreeing copy, cutting
all copies to the shortest, the limit), `ProcessMergeResult` the bookkeeping of
counts behind it, `Add` the two together. The actions are what happens to a
sector in a run: a read delivers data (`AddData`), a read fails
(`AddReadAttempts`), another reading of the sector is merged (`BeginMerge`,
`MergeCopy` once per copy, `EndMerge`: the loop of `Sector::merge`, one turn per
step, because its early returns and its final count lie around the loop), and
the trims other passes make (`LimitOverlappingCopies`, `DropGapData`,
`MarkDataBad`). A byte is a small number and data a sequence of at most three of
them, because the code compares prefixes, cuts and pads.

- `sector_device`: a controller always returns the natural size, and an image file may
  hold rates instead of counts (`constantDisk`). Lists are aligned, of one size and
  limited (`CopiesInv`); good data is never replaced by bad (`GoodDataSurvives`); what
  is stable stays stable through reads, merges and trims (`StableStaysStable`).
- `tracks`, unit `sector`: a decoder returns short data and data with the gap behind
  it. The CRC flag is honest (`GoodFlagIsHonest`), and no copy is padded with data that
  was not read (`NoPhantomData`). The other properties do not hold here; see Observations.

Bounds: two copies (three for the decoder; the limit is reached with one version
more), three to five attempts (`MaxAttempts`), data of two bytes with one byte of
CRC. In `sector_device` the merged sectors are all counted or all rated (the
constraint `OneKind`), as those of one source are. A full list of copies, an
improvement of one of two copies, a good read after bad ones and a merge of two
copies into two are all reached.

### RetryPolicy

The counter of the options `retries`, `rescans`, `track-retries`,
`disk-retries`. `HasMoreRetry` in the code asks and changes; here `Asked` is the
change and `HasMoreRetry` the answer, and the users apply both.

### DemandDisk

`DemandDisk.tla` has any number of readers, the threads of `Disk::preload` and
afterwards the main one. The code reads a mark without the lock, loads without
it, and stores track and mark under it, so `Ask`, `FirstLoad`, `AskMore`,
`Rescan`, `Store` and `Fetch` are steps of their own and interleave. A load may
throw. `ClearCache`, `Write`, `Clear` and `FlipSides` are calls of the main
thread while nothing else reads. Every track carries the place it was read at,
so that a property can tell the right track from another one.

- `preload`, unit `disk` (two readers, rescans -1, retries 2): what is marked as loaded
  is there and was read at that place (`CachedIsLoaded`), the best of all loads is
  kept (`BestIsKept`), no granted rescan or retry is saved (`RescansAreMade`,
  `RetriesAreMade`), every read ends (`ReadEnds`). That it ends is not obvious: an
  amount below zero starts over after every improvement, and it ends only because
  an improvement is an increase in a finite order (more sectors, more good ones,
  more stable ones).
- `demand_flip`: after `Disk::flip_sides` the marks of the loaded tracks stay where
  they were. A comment says the tracks are moved; finding.

Bounds: one cylinder of two sides (the swap needs both, nothing relates
cylinders), two sectors, two kinds of loads in the larger run and three in
`demand_flip`.

Fairness: `WF` of `Proceed(r)`. A reader that is inside a read is a running thread.
There is none for `Ask` (up to the caller) and none for `LoadFails` (the medium).

### Preload and ThreadPool

`Preload.tla` is what `Disk::preload` promises: every track of the range is read
once in some order; when the call returns or throws, nothing is being read any
more; what it throws is the exception of the first failing track of the range.
`ThreadPool.tla` is how: the pool, its workers with mutex and condition variable,
and `preload` as their owner, which enqueues one task per cylinder and head, asks
the futures in order and runs the destructor when it leaves, also by an
exception. What the code does while it holds the mutex is one step; a worker that
waits may wake up unasked.

- `preload`, unit `pool` (three workers, four tasks, each of which may fail): no
  thread sleeps beside work (`NoSleepBesideWork`), tasks start in order and none is
  lost or run twice (`StartedInOrder`), nothing runs after the call
  (`NothingRunsAfter`), the call ends (`PreloadEnds`), and the pool implements
  `Preload`, its progress included (`ImplementsPreload`, with `outcome` defined from
  where the owner is).

Bounds: more tasks than workers and more workers than tasks left at the end both
occur; the pool is made again for the next disk (`Again`). The readers of the disk
start after a preload without an exception.

Fairness: weak fairness of the owner and of each worker's own steps: each is an
operating system thread, and the mutex is held for bounded work only. There is no
fairness of `WakeUp`: nothing may depend on wake-ups nobody sent.

### FdrawReadSectors

The loops of `FdrawSysDevDisk::ReadSectors`: rounds over the sectors, one read
command per sector and turn. Every `continue` of the code is an action of its own,
because each leaves the counter and the attempts differently while all go through
the decrement of the loop: `Skip`, `Leave`, `Missing`, `IdError`, `WrongSector`,
`GoodData`, `BadData`, and `ReadThrows` for those that end the loops. `RoundEnds` is
the outer loop. A sector keeps the good data it was given in up to `MaxCopies` copies
with their counts; further data is refused and not counted, as `Sector::add` does.

- `fdraw_disk`, unit `sectors` (amounts 1 and -2, paranoia, two versions of good data and
  one copy): of two sectors that may still be read neither is more than one read ahead
  (`SectorsTakeTurns`); the amount is used (`RetriesAreMade`); the loops end though good
  reads start an amount below zero over, because equal good reads make the sector stable
  (`LoopsEnd`). They need not end when the controller delivers data over the limit of
  copies again and again (`OverLimit`): such a read brings the sector no closer to
  stable, and restarts the counter. This is the stated exception of `LoopsEnd`.
- `fdraw_read_restart`: a read over the limit leaves the sector as it was and restarts its
  counter, against "when read data is improved" (`ReadMe.md:72`); finding.
- `fdraw_read_minus_one`: with amount -1 no sector is read at all, against the
  comment at the constructor call; finding.

Bounds: two sectors (the property relates pairs), two versions with one copy kept, the
least that has a read over the limit. No read is cut off: reads of the history are
counted up to `MaxReads`, above what any amount grants between two restarts, and then
stay; a counter that grants nothing is decremented down to `Floor`, from where more
decrements change no answer. Whether a sector was attempted is kept, not how often.

Fairness: `WF(ReadOn)`, the loops run. Which outcome a command has is free, also
for ever.

### ReadingPolicy and RescueTrack

`ReadingPolicy.tla` has the operators of `DeviceReadingPolicy`: the sets, the question
whether more sectors are wanted, and the remembered part of its answer.
`RescueTrack.tla` is `BlindReadHeaders112` with `RescueTrack`, seen as loops and
counters. The scanning loop is `Scan` and `ScanAgain` (its condition, which counts,
asks and may start the counter over). The reading loop is `RoundWithReading` or
`RoundWithoutReading`, and `Physical`; `ReadIds` is the reading of single sectors by
policy, which makes the result from the headers and from the physical track. After it
`Unhide` or `Finish` complete the result. A scan may detect nothing
(`ScanWithoutResult`), repeated headers throw everything away (`Repeated`, three
times), other exceptions end the load (`Throw`). Offsets are places on the track; a
sector of the neighbor cylinder may be among them.

- `fdraw_disk`, unit `rescue`: the remembered answer is the true one
  (`RememberedAnswerIsTrue`); scans and physical readings granted are made
  (`RescansAreMade`, `PhysicalReadsAreMade`); for every number found that the caller
  needs a sector was tried by a command of its own, in whichever round its header
  appeared (`FoundIsAsked`); every load ends
  although findings start counters over (`RescueEnds`).
- `rescue_restart`: the loop gives up right after a physical reading that improved the
  track although the amount is below zero; finding.

Bounds: three sectors, of which the second is a stray with the number of the third
(the least with a repeated number and a second one); the amounts make the larger
counter once a plain and once a negative one, on both sides; one good read is stable;
what the physical track has of a sector is good data (headers alone come from the
timed scans, data with errors from the commands). `MaxCount`, two more than the larger
amount, only stops the counts of the history.

Fairness: `WF(Proceed)`, the loops run. What they find is free.

### DiskCopy

Three nested loops and two files. The outer loop is `ImageToImage`: a round
copies, merges or repairs the range, writes the image and repeats while the
counter of `disk-retries` grants it; a copying round makes the next ones repairing.
The middle one is the range, the inner one `Disk::TransferTrack`: read, take in,
repeat while the counter of `track-retries` grants it. Of a sector only the
quality is kept: missing, bad, or the number of good readings, which
`RepairTrack` only lets grow. The source keeps a cache of readings per cylinder
of the medium (DemandDisk), of which the loop clears the range. Every reading
has a number other than that of the one before, so that a property can tell a new one
from a cached one. A run may
stop at every step (`Stop`), writing may fail (`WriteFails`), removing and renaming
may fail (`Remove`, `Rename`), a track may turn out to be of another cylinder
(`LeaveOut`), and the next run starts from what the files then hold.

- `copy` (double step, two cylinders, disk retries 1, track retries -1, paranoia
  with level two, stable sectors skipped or not): what the user had, or what an earlier round wrote, is complete
  in one of the two files wherever the run is stopped (`SomeCopySurvives`);
  repairing never makes a sector worse (`RepairNeverLoses`); a reading of a cylinder
  whose cache is cleared is taken in once (`ClearedCountsOnce`); a run ends
  (`RunEnds`), unless sectors that are stable and not skipped are read well again and
  again (`StableMatched`): each such reading counts as an improvement and restarts the
  retries. `RunEnds` without this exception fails, also on a medium that reads well.
- `copy_step`: the cache is cleared for the numbers of the range, the readings are
  cached under the numbers of the medium. With a double step the first reading of
  a repairing round is the cached one of the copying round; finding.

Bounds: two cylinders with step two, the least with a cylinder outside the cleared
range; one sector (sectors are repaired independently of each other, and only their
conjunction, `Improves` and `WantMoreSectors`, relates them). The number of readings is
not bounded: two numbers in turn are enough to tell a reading from the one before it,
and a count of good readings says nothing beyond the stability level.

Fairness: `WF(Proceed)`. A run that was started goes on; stops, failures and what a
reading finds are free.

### Track, TrackSectorIds, TrackScheme

`Track.tla` has the operations on a list of sectors that lie on a ring: `Add`
(merging into the first sector of the same header within the tolerance, insertion
by offset otherwise), `SetSectorOffsetAt` (which moves a sector within the list),
`TuneOffsetsToEachOtherByMin`, `CollectRepeatedSectorIds`,
`Validate`, `MergeRepeatedSectors`, `FindMatchingSectors`,
and the invisible first sector. `TrackScheme.tla` is what a normal disk allows to
guess: the distance of sectors, the holes that unread headers leave, the
adjustment of offsets that do not fit, the scheme of headers of a track.
`TrackSectorIds.tla` guesses the numbers of the holes by interleave and rotation.

A sector is its header (a number), its offset and at most two copies of data; the
rules of copies are those of `Sector`. Averages are fractions, because the code
computes with doubles where nothing is rounded.

### OrphanTrack and TrackAssembly

`OrphanTrack.tla` is a track with data whose header was not read. `DecodeTrack` is
the reading of a whole track as marks (`PhysicalTrackMFM.cpp`), in which a header
and the data behind it find each other, or do not. `MergeOrphansIntoParents` and
`MergeInto` are how they meet later; `SyncDemultiMergePhysicalUsingTimed` is
`TimedAndPhysicalDualTrack.cpp`: a reading that begins anywhere and lasts more than a
revolution is brought into one revolution by the headers that were timed.

`TrackAssembly.tla` composes them to `FdrawSysDevDisk::RescueTrack`, seen as sectors
and places (module `RescueTrack` has the same function's loops and counters). A scan
adds timed headers (`Scan`), the result is cleaned of other cylinders and adjusted
(`Prepare`), whole tracks and single sectors are read in any order (`ReadPhysical`,
`ReadSectors`), and `Finish` makes the invisible first sector visible, adjusts
offsets, guesses the headers of orphans and validates. `Again` is the new start
after headers were found at two places, with what was learned about them.

- `tracks`, unit `assembly`: sectors lie in the order of their offsets after every
  operation until the last one, those of scans and readings behind the index
  (`InOrder`); good data is never below the header of another sector, on
  whatever way it came there (`DataMeetsItsId`); what was read well is delivered
  (`NothingGoodIsLost`); every header is there once and where it lies on the disk, the
  delivered track is in order, and nothing was moved before the index (`Placed`). That
  nothing is lost and that each header is where it lies holds unless a header was seen
  at two places: of those the program drops one by intent. The order of the delivered
  track is apart from `InOrder`, because `EnsureNotAlmost0Offset`, the last operation, can
  pass a sector by the next one (see Observations); on this ring it does not.

Bounds: a ring of 90 bits with three sectors of 18 and one of another cylinder at
the same place as the first. Scans find headers exactly, early or late within the
tolerance, beyond it, not at all, at a second place, or of the other cylinder;
readings begin at three places, last 150 bits and lack one header or none. Three
scans, one reading, two tries (the code makes three, the second is the first with
`found` filled). One reading is enough for every pairing within it; several
readings are merged as the copies of `Sector` are. `ByteBits` is 8 instead of 16: the
overhead of a sector is added in bytes to a distance in bits (see Observations).

### TrackData

`TrackData.tla` is the three representations of a track and the conversions made
when one is asked for: `AskTrack`, `AskBitstream`, `AskFlux`, `AskPreferred`. A scan
tries the encodings in turn, beginning with the one that was found last; the memory
of it is a static variable, one for bits and one for flux. What a scan of one
encoding finds is a choice by the contents of the medium; a bitstream made of flux
fits the cells of one encoding. The loop over the encodings is stated by its end: `Finds`
has the tries after which the track has sectors, `Ended` is the first of them or the
last encoding, and what all tries up to there found is `Added`.

- `tracks`, unit `data`: what is there is found whatever was decoded before
  (`FormatsAreFound`); the bits kept of a flux track are those that show its sectors
  (`BitsShowTheSectors`).
- `scans_end`: sectors of a Victor disk without good data make a scan of the bits ask
  for the track, which is the scan of the bits; finding.

Bounds: two tracks one after the other (the least for a memory of the first), four
encodings, of which up to two are on a track, good or not.

### BitEncoders, BitDecoders, BuiltIns, BitTracks

`BitEncoders.tla` turns sectors into the marks of a track: the gap that makes a
track fit, the place of each sector by its offset, the cut at the end, and eleven
protections by the tests that recognise them and the tracks they get.
`BitDecoders.tla` is the nine scanners: headers and data fields are collected, then
every header looks for a data field at the right distance, whose length follows
from what comes next; and the flux scan over several views with its end condition.
`BuiltIns.tla` has the disks built into the program, tracks of sectors, bits and
flux, as inputs of both. Bits are abstracted to address marks with positions, what
follows them and the stretches that are not filler; a data field to whose it is,
how many bytes it has and where a valid CRC stands.

`BitTracks.tla` is a track on its way: `Encode`, `ScanBits`, `ScanMedium`, with
sectors that came from a scan encoded again. `BitInputs.tla` makes the media: three
sectors with a damaged header, data mark or CRC each, read from the index or from
the middle, with one turn or two; groups with data at several distances; views of the
flux in which marks are lost.

- `images`, unit `tracks`: good data is found with the header it was written for
  (`DataInTracks`); an ordinary track is scanned as it was written, and the weak
  sector of a protection comes back bad with different data (`TracksReadBack`);
  unless a scan ends with everything it found good, no view showed a valid sector
  that the result lacks (`ViewsOfTracks`).

Bounds: three sectors of 256 bytes on tracks with room for more (most relations are
between neighbours and with the index), the 18 and more of the protections where
the code tests for them, two generations of encoding.

### RegularFormats, ImageFiles, ImageWriters

`RegularFormats.tla` is the table of formats with the choice by size, the override by
options and the order of tracks in a file. `ImageFiles.tla` has a reader for each
of the types without sector flags: what it refuses, which geometry it takes and where
it looks for each track. `ImageWriters.tla` has their writers, the sign or loss of
damaged sectors, the layers of archives, and the operations: a device is read
(`ReadADevice`) or a file found (`FindAFile`), saved (`SaveAs`), opened (`Open`: every
reader is asked in the order of `types.cpp`). The data of a track is a token that says
which track it was.

- `images`, unit `files`: a disk saved completely is read back with every track in its
  place whenever its geometry is recognised, and in types that state it, it is
  (`FilesReadBack`; the two types whose reader expects another order of heads and
  the one that shifts its data are the stated exceptions); damaged data is not
  saved as good (`DamageIsMarked`); tracks of files of foreign origin lie where their
  types say (`FilesArePlaced`).

Bounds: twenty formats chosen so that sizes collide between types, with no, bad or
missing damage; fifteen types to save as; foreign files cut, with the sides exchanged
or with another extension; options that claim a geometry, and eight archives.

### StoredTracks, DskFiles, SectorFiles, FluxFiles, TrackImages

`StoredTracks.tla` is the vocabulary of images that keep tracks: sectors with
headers, flags and copies, and a file as the pieces put into it. `DskFiles.tla` is
DSK, EDSK and RDSK, whose writer tries with less and less (copies, read counts,
offsets, excess data) until a track fits, and whose reader divides what it finds by
the sizes in the list. `SectorFiles.tla` has D88 (both ways), TD0, IMD, FDI, SDF,
DSC, CQM, PDI, DMK and UDI; `FluxFiles.tla` has HFE and MFI (both ways), SCP, KryoFlux
streams, DFI, A2R, WOZ, CWTool and IPF, with the carries of their words.
`TrackImages.tla` is the operations: a disk of tracks is held (`HoldADisk`), saved
(`SaveAsTracks`), a file is met (`MeetAFile`), opened (`OpenTracks`), and a track of an
image that decodes on demand is loaded, also a second time (`LoadTrack`).

- `images`, unit `containers`: what is saved comes back but for what the format
  cannot keep, and saving it again makes the same file (`FilesReadBack`); sectors,
  marks, bits and times that a medium had are read from images of other programs,
  and a file that is not whole is refused (`FilesArePlaced`).

Bounds: tracks of up to fifteen sectors, as many as fill a track of an EDSK exactly,
beyond it by one, and far beyond it; disks of 43 and 84 cylinders where a limit lies;
a whole and a broken file of each type. A whole MFI track is 2 000 units and a DFI
minute 6 000 instead of 200 000 000 and 60 000 000, so that integers of TLC hold
them; the arithmetic is the code's.

### Fat12

`Fat12.tla` is a disk that is saved as an ST image. `SaveST` is `WriteST`: the disk is
approved by its boot sector or not, its format is taken from the filesystem or from
the sectors, a lost boot sector is made up, and if a new parameter block is needed it
is guessed: the sectors per FAT by the distance at which sectors match best
(`FatDistance`), the size of the root directory by the entries in use
(`DirSectorsIn`), the sectors per cluster by the chains of files (`PerClusterOf`).
`OpenST` reads the image again. A guess may hang (a chain that comes back to itself)
or throw.

- `images`, unit `filesystems`: the guessed block has the values the disk had as far as
  they can be told, so that files are listed where they are; every cluster of which
  an entry is left in one of the FATs has its successor, and a chain is followed for
  ever only if it does come back to itself (`FilesystemHolds`).

Bounds: disks of 16 and 18 sectors of twelve bytes, which hold four directory entries
each or the entries of eight clusters; one or two sectors per FAT, both usual sizes of
the directory, one or two sectors per cluster, a cyclic chain; the boot sector and up
to two more sectors are lost, unreadable or bad, every sector of the FATs among them.

## Runs

| Run | Modules at work | Properties | Kind |
|---|---|---|---|
| `sector_device` | Sector | `CopiesInv`, `GoodDataSurvives`, `StableStaysStable` | pass |
| `preload` | ThreadPool, Preload, DemandDisk | `BestIsKept`, `RetriesAreMade`, `RescansAreMade`, `CachedIsLoaded`, `NoSleepBesideWork`, `StartedInOrder`, `NothingRunsAfter`, `ReadEnds`, `PreloadEnds`, `ImplementsPreload` | pass |
| `fdraw_disk` | FdrawReadSectors; RescueTrack, ReadingPolicy | `SectorsTakeTurns`, `RetriesAreMade`, `LoopsEnd`; `RememberedAnswerIsTrue`, `RescansAreMade`, `PhysicalReadsAreMade`, `FoundIsAsked`, `RescueEnds` | pass |
| `copy` | DiskCopy | `SomeCopySurvives`, `ClearedCountsOnce`, `RepairNeverLoses`, `RunEnds` | pass |
| `tracks` | Track, TrackScheme, TrackSectorIds, OrphanTrack, TrackAssembly; TrackData; Sector | `InOrder`, `DataMeetsItsId`, `NothingGoodIsLost`, `Placed`; `FormatsAreFound`, `BitsShowTheSectors`; `NoPhantomData`, `GoodFlagIsHonest` | pass |
| `images` | image, bit, container and filesystem modules | `FilesReadBack`, `DamageIsMarked`, `FilesArePlaced`, `DataInTracks`, `TracksReadBack`, `ViewsOfTracks`, `FilesystemHolds` | pass |
| `demand_flip` | DemandDisk | `FlipMovesTracks` | finding |
| `fdraw_read_minus_one` | FdrawReadSectors | `FirstReadIsMade` | finding |
| `fdraw_read_restart` | FdrawReadSectors | `RestartsWhenReadBetter` | finding |
| `rescue_restart` | RescueTrack | `RestartsWhenImproved` | finding |
| `copy_step` | DiskCopy | `EveryReadingCountsOnce` | finding |
| `scans_end` | TrackData | `ScansEnd` | finding |

A finding is a run whose property says what a comment or the manual says of the
program; TLC shows a behaviour of the code that is otherwise. Deadlock is checked but
where a behaviour may end: a sector, a track or an image of which nothing more is asked.

## What is proved

The proofs hold for every value of the constants that the named assumptions of the
modules allow. Each is an invariance proof: an inductive invariant, a lemma for
the initial states, one for the steps with a case per action, and a last temporal
step.

- **Sector** (`SectorTypeOK`, `SectorCopiesInv`, `SectorNoPhantom`,
  `SectorGoodIsHonest`, `SectorGoodData`, `SectorStable`), from `SectorAssumption`. Alignment
  alone is not inductive: in the middle of `add_original` the lists differ in
  length, and a merge reads the lists of the other sector. The invariant says that
  the sector and the one being merged are both sound (`Sound`: typed and
  well-formed), and the lemmas carry "sound, with one count pending" from
  `AddOriginal` to `ProcessMergeResult`. One lemma per operation; any data, any
  sizes, any limit. Where copies come from is an invariant together with the sector being
  merged (`OriginInv`: its copies are sources too), and rests on what one read can do
  (`AddOriginalCases`): only cut, keep or drop copies. Good data survives if no reading is
  longer than its natural size (`NoGapRead`), as a controller returns it; good data with
  a gap behind it does not count as good, and may go. That stable data stays stable
  needs that every reading has the natural size (`NaturalSizes`, which the readings of
  `sector_device` meet: `DeviceIsNatural`), since a shorter copy cuts the others and
  `normal_disk` asks for the full size. It also needs that no count exceeds the
  attempts, as else combining two rates could lower one (`PercentCombinedBounds`); in
  the middle of a merge the attempts of the other sector are not counted yet, and
  the invariant says whose copies those are (`CountsInv`). Merges of rates into counts,
  which the run leaves out, are included.
- **DemandDisk** (`DemandDiskTypeOK`, `DemandDiskCache`, `DemandDiskBound`,
  `DemandDiskBest`, `DemandDiskRetries`, `DemandDiskRescans`), from
  `DemandDiskAssumption`, which has the sectors of a track finite. The cache needs that a
  reader about to store has kept something (`Consistent`); the bound needs that what a
  counter has lost is what the read has spent (`BoundInv`). That the best load is kept
  needs an order: `Better` compares three counts one after the other, and
  `BetterScores` shows that it is the order of one number (`Score`, for tracks of
  finitely many sectors), so that what no load was better than stays so when a better
  one replaces it (`BestInv`). That retries and rescans are made needs for each counter
  that what it has left and what was spent make up the amount, unless a counter below
  zero has just been told of a change (`RetriesInv`, `RescansInv`); the store step is
  reached only through a question both have denied. Any readers, tracks and amounts.
- **FdrawReadSectors** (`FdrawReadTypeOK`, `FdrawReadTurns`, `FdrawReadBound`,
  `FdrawReadRetries`), from `FdrawReadSectorsAssumption`. Turns are not inductive: within
  a round the sectors before `pos` are one read ahead. `TurnsInv` says that all sectors
  still granted a read have the same number of reads up to `pos` and from `pos` on. All
  outcomes of a command are brought into one shape first (`TurnHasShape`). That the
  retries are made (`MadeInv`) needs for every sector not settled that its reads and
  its counter make up the amount, and that in a round without a retry the
  counters of the sectors passed have nothing left. Any number of sectors.
- **ThreadPool** (`ThreadPoolTypeOK`, `ThreadPoolNoSleep`, `ThreadPoolOrder`,
  `ThreadPoolNothingAfter`, `ThreadPoolImplements`), from `ThreadPoolAssumption`.
  The invariant relates queue, started tasks and the owner's position
  (`QueueInv`), tasks, workers and futures (`RunInv`), the flag and the ends of
  workers (`StopInv`), and the futures already asked (`FuturesInv`). From it follows
  that every step is a step of `Preload` or a stutter: a task that ends is `Read`,
  the join is `Return` or `Throw` of the first failing track. Any number of threads
  and tasks.
- **RescueTrack** (`RescueRemembersTruth`, `RescueTypeOK`, `RescueRescans`,
  `RescuePhysicalReads`, `RescueResult`), from `RescueTrackAssumption` and
  `ReadingPolicyAssumption`. One lemma says that asking keeps a policy truthful, one
  that adding sectors does; the invariant adds that known headers are places of the
  track, so that what is built from them is a policy. The two loops need two
  invariants of different shape: the scans are counted by the condition of the loop,
  so that between the question and the body one more is counted (`ScansInv`, apart for
  plain counters and for those that start over); the physical readings leave what is at
  least the amount (`ReadsInv`), since the larger of two counters is used. The result is made
  anew in every round, so that its invariant (`EarnedInv`) only relates headers, physical
  reads and result of one round. Any sectors, callers, amounts and findings.
- **DiskCopy** (`DiskCopyTypeOK`, `DiskCopySurvives`, `DiskCopyNeverLoses`,
  `DiskCopyCountsOnce`), from `DiskCopyAssumption` and `DiskAssumption`. That the disk is in a file between
  remove and rename needs that the temporary file holds the disk in memory there
  (`FilesInv`), and that this one is at least as good as what was safe needs that the
  disk in memory and the track in work only got better since (`BetterInv`). That a
  reading of a cleared cylinder counts once needs that what was taken in or is cached was
  read before, that nothing is cached of a cylinder the round still has to read, and
  that a source which is not a device gets one round only (`FreshInv`). Any range, step,
  sectors and options.
- **TrackData** (`TrackDataFound`, `TrackDataShown`), without assumptions. The order of
  a scan is the encodings with one moved to the front, so that every encoding looked for
  is tried (`TriesAll`), and what one of them finds is in what the scan adds
  (`EndOfScan`). The invariant (`DataInv`) says that the remembered encodings are known
  ones, that sectors come with the track, and that a flux track has bits exactly when it
  has been scanned, whose bits then fit the encoding that ended the scan. Any contents,
  requests, options and number of tracks.
- **TrackAssembly** (`SectorsInOrder`), under `InputsFit`: lengths are positive, a scan
  is a sequence of headers at offsets from the index on and without data, a reading is
  a sequence of marks, and the data of a header is good content. TLC evaluates it for the
  instance (`ScansAndReadingsFit`). The invariant (`OrderInv`) gives each track its
  place: timed headers and readings are in order and behind the index, what is between
  them is in order anywhere (`AdjustSuspiciousOffsets` can move a sector before the
  index), and so is the result until it is delivered. One lemma for each operation on a
  track says that it keeps sectors and order: inserting (`Add`), moving one sector
  (`SetSectorOffsetAt`, which depends on the search stopping at its neighbors), tuning,
  adjusting, merging of repeated sectors, bringing a reading into one revolution,
  orphans and guessed headers. Loops of the code are folds here, which are defined by
  recursive functions over sequences; the induction they need is done by the least
  number that fails (`LeastElement`), once for the existence of such a function
  (`RecursionExists`) and once for what its steps keep. Any
  scans, readings, rounds, lengths and tolerances.
- **ImageWriters** (`DamageMarked`), under `DamageIsKnown`: no medium and no file found
  has damage whose mark was lost before (by an Apple image), as then nothing could show
  it; `MediaTellTheirDamage` has TLC evaluate that for the instance. Every reader but
  those that refuse takes the damage of the disk from the sign of the file, one lemma
  for each group of readers, whichever of the 26 takes the file (`ReadingReads`); every
  writer signs the file as the disk is damaged, SAP with a wrong checksum for bad data,
  only the writer of Apple disks does not (`WritersMark`). The invariant (`FileInv`) ties
  the sign of the file to the damage of the disk it was saved from and the damage of the
  disk that is open to the sign. Any formats, options, archives and extensions.
- **RetryPolicy**: the lemmas the others cite: what asking, counting down and telling of
  a change do to a counter, and what the constructor makes of an amount
  (`OptionFacts`: one less for amounts below zero).

Only model-checked: all liveness (`ReadEnds`, `LoopsEnd`, `PreloadEnds`, `RunEnds`,
`RescueEnds`, the progress part of `ImplementsPreload`), because the prover does not
handle fairness; and of the runs `tracks` and `images`:

- of the assembly of a track `DataMeetsItsId`, `NothingGoodIsLost` and `Placed`. That
  sectors keep their order holds for any readings; that data meets its header, is not
  dropped and stays near its place holds for readings as a disk of a certain geometry
  gives them (gaps larger than the tolerances, scans that agree up to those), and the
  instance is such a disk.
- what bits, containers and filesystems hold after being written, read and decoded as
  functions of whole files (`DataInTracks`, `TracksReadBack`, `ViewsOfTracks`,
  `FilesystemHolds`). A loop that keeps something can be proved about, as the order of
  sectors is; what a loop computes from every input needs induction with an operator as
  a parameter, which is out of the prover's reach.

That regular images are read back (`FilesReadBack`, `FilesArePlaced`) is a
fact about the table of formats and which of them have the same size, so that TLC's
search of the table is the argument.

## Observations

Six disagreements between the code and what it says of itself are runs that must
fail (see the table). While the models were written more of what follows from the code
showed itself; it is described here only. Where a property would be untrue because
of one of these, the property names the exception.

Sectors and reading:

- `Sector.cpp:370`: cutting all copies to a short read can make copies equal that
  differed behind the cut. The copies stay, equal, each with its own count; counts
  of the same contents then accumulate in the first one only.
- `Sector.cpp:326` and `341`: when a read agrees with a copy and has the better size,
  the copy is erased first. If then the address mark of the sector is preferred, or
  good data is not to be mixed, the read is refused and "Unchanged" is returned
  while a copy is gone. The comment at 233 says nothing changes then.
- `Sector.cpp:264`: good data that includes a gap does not count as good data, so a
  later bad read replaces what the comment at 263 wants kept.
- `Sector.cpp:297`: a copy of the natural size is replaced by one with gap data,
  because sizes are compared with the size of the new data; comments at 296 and 301
  describe the complete size.
- `Sector.cpp:443`: with no attempts on one side the rate is a division by zero; reads
  and merges alone never get there.
- `DemandDisk.cpp:49`: retries below zero are never told of a change and make one
  retry less than their amount; `ReadMe.md:72` describes them as retried since the
  last change.
- `types/fdrawsys_dev.cpp:448`: a read that ends with an error in the header alone is
  not counted as an attempt. A sector that only has such reads has zero attempts,
  which the comment at 949 takes as never read.
- `types/fdrawsys_dev.cpp:475`: a change is noted for every good read of a sector that
  is not stable, also when `Sector::add` ignored it because the copies were full; with
  paranoia and an amount below zero the loop need not end (the run `fdraw_read_restart`).
- `Disk.cpp:442`, `DiskUtil.cpp:700`: with paranoia and without `--skip-stable-sectors` every
  good reading of a sector that is stable already counts as an improvement and
  restarts track retries below zero: repairing a track that reads well does not end. The
  comment says that retrying stops "when repair could not improve the dst disk".
- `types/fdrawsys_dev.cpp:967`: when the sector that detects a hidden first one is read
  directly into the result, the physical track is merged into it a second time, so
  one good read of it can count as two towards a stable sector (`ReadMe.md:40`).
- `types/fdrawsys_dev.cpp:745`: the comment says that all data is stable; a stable
  sector misread from the neighbor cylinder counts for its number there, and is dropped
  at 812.
- `types/fdrawsys_dev.cpp:664`: the larger of two counters (marked "TODO wrong") is the
  one with more left, and the constructor takes one off amounts below zero: of -2 and 2
  the plain one is taken.
- `DeviceReadingPolicy.h:75`: removing a skippable sector does not forget the
  remembered answer; the only caller changes the wanted sectors next, which does.

Tracks:

- `Track.cpp:936`: the assertion compares with a sector moved from the line before,
  and the indices of measured distances are stale after the removal.
- `Track.cpp:1352`: the comment describes more than what is done, an offset of 0
  becoming 1.
- `Track.cpp:1221`: only sectors below 16 are shifted, by what the first one lacks, and not
  sorted again: offsets 1, 15 and 16 become 16, 30 and 16.
- `Track.cpp:243`: a track without sectors counts as all good, which ends the views of
  a flux (`BitstreamDecoder.cpp:1488`).
- `AdjustSuspiciousOffsets` can make offsets of 0 and below, or beyond the track.
- The checks of `Validate` for overlapped and repeated sectors only find a third place;
  `MergeRepeatedSectors` nearly always drops the duplicate.
- `OrphanDataCapableTrack.cpp:125`: an orphan is taken by the first parent that
  coheres with it, whether or not another orphan is closer.
- `PhysicalTrackMFM.cpp:221`: data before the first header leaves the search for its
  header at the end.
- `TimedAndPhysicalDualTrack.cpp:109` and `154`: the overhead of a sector is counted in bytes
  and compared with offsets in bits.
- `TimedAndPhysicalDualTrack.cpp`: orphans behind the last sector of the reference (or
  before the first, backwards) are not taken.
- `TrackData.cpp:58`: the track of a flux that was scanned scans its bits, too.
- `BitstreamDecoder.cpp:42` and `145`: the memory of the last encoding and rate is shared
  by the threads that preload.

Bits:

- `BitstreamTrackBuilder.cpp:43`: one bit is added instead of a gap, or the loop runs
  until a counter overflows (the variable `overflowed`).
- `BitstreamDecoder.cpp:1317`: the header of an RX02 sector keeps the enlarged size and
  grows with each generation (`TrackBuilder.cpp:394`); when the first data field is bad
  those of later turns are not tried (1296).
- `TrackBuilder.cpp`: RX02 and Amiga sectors are always written with a valid checksum, as
  are the sectors of the formats with one weak sector; an 8K sector becomes bad.
- `include/BitBuffer.h:46`: `BitBuffer::read` compares the bits that remain
  with the bytes asked for to call a read clean.
- `BitstreamDecoder.cpp`: the GCR and Victor scanners count bytes of ten bits as of
  eight; the table at 263 has AA as 8.
- `generate_simple`: the product for the time of a track overflows from about 1.07
  million bits on, and the test of the size passes.

Images:

- `types/adf.cpp:64`, `types/opd.cpp`: images of two sides are written head by head in
  turn and read side after side.
- `types/dti.cpp:68`: reader and writer are a byte apart.
- `DiskUtil.cpp:1043`: `WriteAppleDODisk` marks no damage.
- `types/raw.cpp`: the order of tracks (`--cylsfirst`) is ignored when reading; a file smaller
  than a track of the given geometry leads to a division by zero (50).
- `types/opd.cpp:46`: any sector of that place and size is taken for an Opus boot sector.
- `types/sap.cpp:270`: the detection of the fourth format is never reached.
- `types/fd.cpp`: 40 cylinders of two sides come back as 80 of one.
- `Util.cpp:476`, `MemFile.cpp:60`: a file in a zip archive whose extension is not known
  goes by the name of the archive; a zip in a gzip throws.
- `Image.cpp:72`: a raw image with a smaller valid parameter block takes its format.
- Most readers fill truncated images with good data.
- `types/dsk.cpp:828` and `868`: data is copied while it is less than the room, a track
  is saved when it equals the room: the last data of a track that is exactly full is not
  written, what the memory held before is saved in its place. `types/dsk.cpp:862`: sizes of RDSK tracks are cut to sixteen bits, the
  comment at 39 says otherwise. With paranoia the reader takes excess data of a good
  sector for further good copies.
- `types/d88.cpp:187`: the writer stores data behind sectors marked as having none,
  which its reader (311) does not pass over; a short read of data (196) goes unnoticed.
- `types/dfi.cpp:96`, `types/a2r.cpp:105`: a track loaded a second time is empty; the
  comment at `types/mfi.cpp:100` says that the same statement there "causes random
  crashes".
- `types/a2r.cpp:170`: the data starts at the header of the capture and ends ten bytes
  early.
- `types/mfi.cpp:266` and `292`: one word more than the times is stored, which the load
  refuses unless it is 0.
- `types/hfe.cpp`: a side shorter than the other is padded; the length of a track of
  the highest rate is cut to sixteen bits.
- `types/scp.cpp:194`: of an image with the second head only, the table is tested one
  entry off, and what is rebuilt is refused.
- `types/woz.cpp:153`: the second side of a 3.5" disk becomes cylinders 80 to 159.
- KryoFlux streams lose the first revolution when an index comes before any flux.
- `types/td0.cpp:194`: the test of the version cannot fail.
- `types/msa.cpp`: the loop over cylinders does not end for an end track of 255.

Filesystems:

- `filesystems/Fat12FileSystem.cpp:149`: the index of a logical sector may be one too
  large.
- `filesystems/Fat12FileSystem.cpp:325`: a chain that comes back to itself is followed for
  ever.
- If the FATs cannot be matched, 0 sectors per FAT are stored, and the number of sectors
  per cluster is a shift by the logarithm of 0 (204); the image is then opened
  without a filesystem.
- A root directory of the larger usual size with few entries is rebuilt as the
  smaller one, which moves all files.
- A boot sector that is bad but has data is never rebuilt; one that is made up stays
  bad and keeps its sign.
- The signs of lost sectors are not recognised when an ST image is read again: sectors
  of a lost FAT become good ones.
- An exception in the middle of `WriteST` leaves the made up boot sector on the disk.

## Not modelled, and why

- Formatting, logging, parsing of the command line, the listings: no behaviour to check.
- `RepairSummaryDisk.cpp`: the transfer it runs is `DiskCopy`'s and the cache it writes into
  is `DemandDisk`'s; their composition through a second cache is not modelled, and
  `DiskCopy` assumes that no detection of devices asks for it.
- `Trinity.cpp`: datagrams of a device whose side of the protocol is not in the
  repository; a model of it would be a guess.
- `KryoFlux.cpp`, `SuperCardPro.cpp` and their transports, `FdrawcmdSys.cpp`,
  `BlockDevice.cpp`, `HDD.cpp`: one outstanding call at a time to a device or an operating
  system; pure I/O.
- The phase lock that turns flux into bits (`FluxDecoder.cpp`): arithmetic on a long
  sequence; the decoders take the views it gives as they come.
- The single bits and nibbles of encodings, the packing of bytes (LZSS, Huffman, run
  lengths but those of PDI and TD0's blocks): transformations for tests on
  long inputs rather than for a model checker.
- In `DiskCopy`: destinations that are devices, metadata, the detection of the
  filesystem of a device between the rounds (`opt_detect_devfs`; assumed off), and
  the contents of sectors (two good readings of a sector agree; how disagreeing ones
  are kept is `Sector`).
- In `RescueTrack`: the choice of the larger of two counters when only one of them starts
  over (664), and the older `BlindReadHeaders`.
- In `FdrawReadSectors`: the synchronisation to a repeated sector before the command,
  and warnings.
- In `Track` and `OrphanTrack`: synchronising to offsets, cutting a track by revolutions and
  its best length, joining and splitting by the other track, fixing offsets by the timed
  track. No run or proof depended on them.
- In `BuiltIns`: the disk with 130 sectors on a track and the code under `#if 0`; in
  `BitEncoders` the Reussir protection and the recognition of Prehistorik.
- In `Fat12`: names, dates, subdirectories, and the tests of the medium byte and of the bytes
  per sector of a parameter block.
- Vendored libraries and headers (`ftd2xx.h`, minizip, 7z and others): not the program's.

## Plan

Modelled in the order of importance: what a sector keeps, the counters and loops of
reading, threads, copying, the assembly of tracks, then the formats. What is left:

1. `SummaryDisk`: `DemandDisk` and the transfer of `DiskCopy` with a second cache; the
   property is that every reading counts once.
2. The copying of blocks with bad ones (`HDD.cpp`).
