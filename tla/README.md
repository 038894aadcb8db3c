# A verification of the SDP Toolkit core behind the JOSFRA PGE

TLA+ models of the parts of this repository that keep state which several
threads, processes or successive calls share, the TLC runs that check them on
small instances, and TLAPS proofs of what matters most for instances of every
size. Each definition names the code it stands for in `PROJECT.json` (`map`).

## 1. The system

The repository packages one science job. `josfra_spdc.sh` and `josfra_pge.py`
run a PGE (product generation executive) in a container; the C code it stands on
is the SDP Toolkit in `TOOLKIT/`, about 1960 files. A PGE reads its *process
control file* (PCF), a table of the files it may use, through the PC tools; the
PGE shell loads the table into shared memory, so that every process of the PGE
works on one copy, and writes it back at the end. A program started without the
shell works on the PCF itself.

| part (under `TOOLKIT/src` unless said) | state it keeps | operations that change it |
|---|---|---|
| PC table in shared memory (`PC`) | image of file records in sections, header with offsets and space used | `PGS_PC_PutPCSData`, `PGS_PC_MarkRuntimeShm` |
| PC table in the ASCII file (`PC`) | the PCF and one temporary copy per process | the same calls, through copy and rename |
| temporary and intermediate files (`IO/GEN`) | the second of the last name, per thread | `Temp_Reference`, `Temp_Delete`, `Temp_Open` |
| dynamic memory (`MEM/PGS_MEM.c`) | doubly linked list of nodes, a counter | `Malloc`, `Calloc`, `Realloc`, `Free`, `FreeAll` |
| PC lifecycle (`PGS_PC_InitCom`, `TermCom`, `Shell`) | PCF, shared memory, runtime and temporary files | start-up, termination, purge |
| shared memory (`MEM/PGS_MEM1.c`) | two segments, their keys, the attach address per process | create, attach, detach, remove |
| thread support (`TSF`) | master structure, thread slots, named mutexes | `GetTSFMaster`, `LockIt`, `UnlockIt`, thread init and end |
| status messages (`SMF`) | message cache, logging switches, three log files | set, get, log |
| Level 0 access (`IO/L0`) | table of open data sets, packet position | open, get packet, set start, close |
| time (`TD`) | leap second table | load, UTC and TAI conversions |
| JOSFRA job (`josfra_pge.py`, `josfra_spdc.sh`) | configuration, inputs, NetCDF and CAS files | the steps of one job |
| geometry, ephemeris, celestial bodies, elevation (`CSC EPH CBP DEM`) | little: numerical code | queries |
| vendored libraries (`hdfeos`, libxml2, ODL, ...) | | |

How they interact. `Temp_Reference` searches the table (`PGS_PC_GetPCSData`) in
three sections, generates a name, and creates the record
(`PGS_PC_PutPCSData`), which searches again under the mutex PCLOCK;
`PGS_PC_MultiRuntimes` marks records as runtime files. Every PC call chooses
shared memory or the file by whether the shell exported a segment. PCLOCK and
MEMLOCK are mutexes of one process, from TSF, compiled in with
`_PGS_THREADSAFE`; nothing locks the segment or the PCF between processes.
`PGS_PC_InitCom` fills the segment through the MEM tools, `PGS_PC_TermCom`
writes it back and deletes what is marked.

What is hard here: threads of a process interleave between a search and the
write that relies on it; a record is copied out of shared memory and written
back later; an insertion moves other sections while their offset is kept
elsewhere; processes replace one file without a common lock and may be killed
at any point; blocks are freed through copies of pointers; a flag is tested before
the lock that guards it is taken; termination has many steps and the next run
starts from what it left; a job finds the files of the one before it. `PROJECT.json`
(`hazards`) lists each at its line, with the property that watches it.

What makes each part correct:

- *PC table*: a search has one answer, so an identifier has at most one live
  record in a section; a record put is found; a deletion is final; deletion and
  runtime mark survive each other; the header follows the image; the lock is
  exclusive and given back; the PCF is always a whole file.
- *Temporary files*: two identifiers never have the same file.
- *Dynamic memory*: the list is the exact set of recorded blocks, whatever order
  they are freed in; nothing is freed twice; `FreeAll` ends.
- *Lifecycle*: what a PGE deleted is removed and nothing that is live, and the
  table is saved without losing records or flags.
- *Shared memory*: all processes share one user segment, and none on record is
  left behind.
- *Thread support*: the master is initialised once; a slot belongs to one thread
  until it ends.
- *Level 0*: the packet position and the file agree across file boundaries.
- *Time*: UTC to TAI and back is the identity outside leap seconds.
- *JOSFRA job*: a CAS file implies a complete NetCDF file, which names the inputs
  of its own job.

## 2. Modules

| module | what it is |
|---|---|
| `PCRecords` | records, sections, flags and the searches, without constants or state |
| `PCTable` | what the PC tools promise: a table changed by `Put`, `Drop`, `MarkRuntime`, each at one instant |
| `PCShm` | the table in shared memory, one step per search, lock or write of each thread; implements `PCTable` |
| `PCAscii` | the table in the PCF, one step per system call, with kills and failing calls; implements `PCTable` |
| `MEMHeap` | what the memory tools promise: a set of blocks with sizes |
| `MEMDyn` | the node list of `PGS_MEM.c`; implements `MEMHeap` |
| `PCLife` | one PGE after another around one PCF: start-up, the calls of the PGE, termination; implements `PCTable` on the PCF |
| `MEMShm` | the two shared segments, with the kernel's rules for them |
| `TSFMaster` | the first call of each thread: the master, the lock and the slots |
| `L0Stream` | what the Level 0 tools promise: the packets of a data set in order of time, and a cursor that divides them in passed and to come |
| `L0Access` | the file table, the streams and the packet counts of `IO/L0`; implements `L0Stream` |
| `JosfraJob` | the two programs of the container, over several jobs in one directory |
| `PCRecordsProofs` `PCTableProofs` `PCShmProofs` `PCAsciiProofs` `PCLifeProofs` `L0AccessProofs` `JosfraJobProofs` | theorems and proofs |
| `ServicesProofs` | theorems and proofs about `MEMDyn`, `MEMShm` and `TSFMaster` |
| `MCPCTable` `MCPCShm` `MCPCAscii` `MCMEMDyn` `MCPCLife` `MCTSFMaster` `MCMEMShm` `MCL0Access` `MCJosfraJob` | constants for TLC |

A definition marked `mutated X` is a wrong form of `X` that no action uses: it
records a slip that the properties of the module catch.

### PCRecords and PCTable

A section is a sequence of records `[id, name, flag]`. The flag is one of the
four the code writes: none, DELETE (`D`), RUNTIME (`R`), DELNRUN (`B`). File
name, directory, attributes and universal reference are one `name`; no call
tells them apart. `Put` replaces the live record of an identifier or appends;
`Drop` marks the live record of the temporary section; `MarkRuntime` keeps a
DELETE flag. The table at the start is whatever intermediate input the PCF lists,
in any order, and nothing else (`PGS_PC_LoadPCSArea`). `MaxFiles` is the room a
section has, 0 for none to speak of: the PCF grows, the segment does not. (In the
segment the room is shared by the sections; `MaxFiles` bounds each by the whole.)

### PCShm

State: `sect` (the image), `hdr` (its header: where the temporary section
begins, space used), `pclock`, and per thread `pc`, `job` (locals of the call)
and `last` (the second of the last name). `torn` records that a record was
written off a record boundary, after which the image is undefined and nothing
steps. `now` is the clock.

| action | code |
|---|---|
| `Begin`, `Lookup` | `PGS_IO_Gen_Temp_Reference` up to and including its loop over three sections, one `GetPCSData` per step |
| `Name`, `Tick` | `PGS_IO_Gen_Temp_Name`: process id and second; waits until the second is not that of the thread's last name |
| `Lock`, `Unlock` | PCLOCK in `PGS_PC_PutPCSData` |
| `Scan` | `PGS_PC_PutDataInShm`: copy the header, find the record, choose overwrite or insert, fail if there is no room |
| `Write` | `PGS_PC_WriteNewToShm` (overwrite or shift and insert) or `PGS_PC_DeleteFileShm` |
| `Done` | the header written back |
| `Fetch`, `MarkScan`, `MarkWrite` | `PGS_PC_MultiRuntimes`, `PGS_PC_MarkRuntimeShm`: the record is copied, then the lock is taken, then the copy is written back, then the lock is given back |

`Shifted` is the insertion as it is written, with the buffer that the shifting
loop overwrites. The sections no call changes (input, output, support files,
user parameters) are not in the model; neither are dividers, whose effect is
the offset in `hdr`.

### PCAscii

State: `pcf`, the temporary file of each process in `disk`, `pclock`, the
threads, and `kills`. A file is a table, or `Cut` when it is not complete, or
`NoFile`. `Open` (the PCF for reading, the copy for writing), `Find` (a deletion
asks for the file name), `Copy` (the whole file with one line changed),
`Rename`, `Remove` (the clean-up), `Unlock` follow `PGS_PC_PutPCSData`;
`PGS_PC_MarkRuntimeAscii` takes the same steps. `Kill` ends a process between any
two steps; its copy stays on the disk and a process with its id takes its place.
`Faults` names the system calls that may fail, `PathLetters` the flag letters
that occur in paths: `CutAt` is the search for a flag letter from the front of
a line. If the disk is full the copy stays `Cut` and is renamed all the same, as
in the code; every behaviour stops there.

### MEMDyn

State: head, counter, the fields of each node, the size of each allocated block,
the caller's pointer variables, and `fault`, which records a block freed twice or
a NULL link followed. Every tool runs under MEMLOCK, so a call is one step;
`FreeAll` is one step per node. `malloc`, `calloc` and `realloc` may fail (a
failing `realloc` changes nothing and is a stuttering step). `Copy` and `Reset`
are the caller: copies are how stale addresses come back to the tools. The
contents of blocks are not modelled, so `Zero` and `Memset` are not either.

### PCLife

State: the PCF, the table in shared memory (or `NoTable`), the files on disk, and
where the shell is. `InitCom` loads the table, or fails and leaves the choice of
what runs next to the init string. A toolkit call of the PGE is one step
(`Create`, `Open`, `OpenFails`, `Delete`, `Mark`); `PCShm` and `PCAscii` have its
parts. `TermCom` is one step per replacement of the PCF or removal of a file:
`SavePut`, `SaveMark`, `SaveRemove` for each new or deleted record
(`PGS_PC_SavePCSData`), `MarkRuntime` (`UpdateRuntimeFiles`), `RemoveTemp` for the
files of a run without shared memory. `Killed` ends the run between any two steps,
`NextRun` starts the next one with the PCF and the files as they were left.

### TSFMaster

State: `initFlag`, the lock, what was created of the master, `threadUsed`, and the
thread-specific values `once` and `index`. One step per read of the flag, lock
operation, creation or probe of `threadUsed`, so that `Call` reads the flag
without the lock and `MutexInit` makes the lock anew, as the code does. `End` is
the destructor: it gives the slot back without the lock.

With `Failing`, the lock may fail to be made or taken (`NoMutex`, the call ends),
either of the two keys may fail to be created (`InitKeys`, which goes on), and so may
the mutexes and other keys (`InitLocks`, which creates no other key once something
has failed). `initFlag` stays set in each case. A key that was not created is the 0
it was linked as: not a key, or key 0 of another owner, or the other one of the two.
So a thread may read anything in it (`Once`), and no destructor gives a slot back.
`Overrun` is a search past the end of `threadUsed`: what it reads and marks there is
undefined, and the model ends (`Undefined`). `most` is a history variable, read by
`SearchInBounds` only. Not modelled: `pthread_setspecific` that fails for a key that
exists, an unlock that fails, the loss of the values of an earlier pair of keys when
the initialisation runs twice, and `PGS_TSF_GetMasterIndex`, which reads the key
without a check and so gives index 0 to every thread when the key is missing.

### MEMShm

State: the segments of the kernel with their keys and removal marks, what each
process has attached, the user part of the system segment (`mem`), and the flags
of the shell. The kernel's part (`Shmget`, `Kernel`, `Rmid`) is external: a key has
at most one segment that is not removed, a removed one goes with its last
attachment. `ShmCreate`, `UserGet`, `RecordId`, `RecordCreated` are the test, the
system call and the two assignments of `PGS_MEM_ShmCreate`, between which another
process may run; `TermAttach`, `RemoveUser`, `RemoveSys`, `TermExit` are
`PGS_MEM_ShmSysTerm`. System calls may fail and processes be killed (`Faults`).

### L0Access

State: `file_table` (for each handle the data set, the number `seq` of the file
that is open, its stream, and the packets read of each file), the streams of the
process with a position of their own, `returnStatus2` (the last header check, one
for all data sets), `given` (what the last call gave), the progress of
`SetStartCntPkts`, and `fault` (a null stream was used).

| action | code |
|---|---|
| `Open`, `OpenFails`, `OpenExcess` | `PGS_IO_L0_Open`; the last is the call for which the table has no entry left, after the stream was opened |
| `GetPacket`, `GetFooter`, `GetPastEnd` | `PGS_IO_L0_GetPacket` on a packet, on a footer, at the end of a file; each goes to the next file (`Reopen`, `PGS_IO_L0_NextPhysical`) when the count says so |
| `GetHeader` | `PGS_IO_L0_GetHeader` |
| `SetStart` | `PGS_IO_L0_SetStart` with `PGS_IO_L0_SeekPacket` |
| `SetStartCntPkts`, `SkipFile`, `CountEnds` | `PGS_IO_L0_SetStartCntPkts`, one step per file it opens |
| `Refused` | the early returns of all of them |

The table, and in a build with threads also the header check, belongs to one
thread, and a call has no effect that another can see; so a call is one step. The
times of a header are those of the first and last packet of its file. A footer
is taken to be as long as one packet. Packets have one length: EOS data sets count
bytes where the others count packets, which is then the same. A packet is known by
its time, which differs from that of every other packet of its data set; so the
cursor of `L0Stream` is a set of times, and no definition counts positions through
the files before one.

### JosfraJob

State: the arguments and place of the job, the local copy of the config (for each
scalar, where its value is from), the job that downloaded each file of
`./inputs`, and the outputs of every job. `Refuse`, `Copy`, `SetL1c`, `SetMocca`,
`Download`, `DownloadFails`, `SetForecast` follow `josfra_spdc.sh`; `Parse`,
`OpenNetcdf`, `FillNetcdf`, `OpenCas`, `FillCas` follow `josfra_pge.py`, where a
config can be wrong in ways that show at different steps. `Kill` may strike at any
step. Jobs of one directory are taken to be seconds apart (the name of the product
has the second in it).

## 3. Runs

| run | instance | states | what it shows |
|---|---|---|---|
| `pc_table` | 2 identifiers, one of them listed, 2 records a section | 78 k | one live record per identifier; deletions are final |
| `shm_threads` | 2 threads, 2 identifiers, temporary files created and deleted, 3 free records, 3 seconds, fair | 271 k | the lock excludes; records are found; header and image agree; the lock is given back; implements `PCTable` |
| `shm_marks` | 1 thread, 1 listed identifier, creations, deletions, marks | 40 k | searches never fail on an offset; implements `PCTable` |
| `ascii_threads` | 2 threads of 1 process, 1 kill, 3 seconds, `fopen` and `rename` may fail, symmetric threads | 1.6 M | the PCF is whole, no copy is left but a whole one whose rename failed, implements `PCTable` |
| `mem_dyn` | 3 addresses, 3 nodes, 2 variables, 2 sizes, fair | 28 k | list whole and exact, no fault, `FreeAll` ends, implements `MEMHeap` |
| `pc_life` | 2 identifiers, one listed, 4 names, 2 runs (the second without shared memory), every fault | 32 535 | the saved PCF is the table; what was deleted is gone and nothing live; saving implements `PCTable` |
| `tsf_slots` | 4 threads for 3 slots, main thread first, every creation may fail, fair | 100 k | slots are exclusive, the search leaves the array only with more threads at once than slots or without a key, the lock is given back |
| `mem_shm` | 2 processes, 3 segments, every fault, symmetric processes | 1.4 k | one user segment for all; nothing on record is left |
| `l0_access` | 2 handles, data sets of 3 files and of 1, 3 start times, opens may fail | 22 k | table, streams and counts agree; implements `L0Stream` |
| `l0_count` | 1 handle, 2 data sets (with footers and a header without a count; EOS), 4 start times, 4 streams, opens may fail | 167 k | the packets counted are those passed over |
| `josfra` | 2 jobs, 6 kinds of config, 3 kinds of level 1C input, 4 sets of forecasts, kills | 151 k | a CAS file has its product; a product names its own inputs |

One run expects a violation; it shows that the code does not do what a prolog of
it says. `PROJECT.json` (`findings`) quotes the line.

| run | what TLC shows |
|---|---|
| `shm_insert_lost` | create a temporary file, then an intermediate one: the insertion stores the following record twice and the new one never (`PGS_PC_WriteNewToShm.c:357`) |

Further defects are in the models and show when the constants let them occur. TLC
finds each within a few steps; the passing runs are instances in which they
cannot occur or whose properties do not depend on them:

- two threads whose first calls meet both go through the init phase, because one
  makes the lock anew that the other holds (`PGS_TSF_GetTSFMaster.c:156`, `InitOnce`
  of `TSFMaster` with `MainFirst = FALSE`); `tsf_slots` has the main thread first;
- a failure to create `keyTSFonce` or `keyTSFMasterIndex` does not stop the
  initialisation (`PGS_TSF_GetTSFMaster.c:183`, `:189`). Without the first every call may
  take another slot, without the second no slot comes back, and in both cases, as
  with more threads than slots, the search of `threadUsed` leaves the array (`:364`).
  `tsf_slots` reaches these states; `SearchInBounds` names them as its exceptions. The
  calls after the one that failed report success (`SuccessIsComplete`, which TLC
  finds violated in the instance of `tsf_slots`; no run checks it);
- loading clears the flags of the lines, so that in a second run a deleted file is
  found again in shared memory (`PGS_PC_InitCom.c:1050`, `LoadedActsTheSame` of
  `PCLife`); in `pc_life` the second run has no shared memory;
- an EOS header file that cannot be opened leaves the packet stream rewound
  (`PGS_IO_L0_GetHeader.c:438`, `KeepsPosition` of `L0Access`); skipping files with
  the count opens each and closes only the last (`PGS_IO_L0_SetStartCntPkts.c:341`,
  `NothingLost`); after an open failed, a start time in the file the table still
  names uses a null stream (`PGS_IO_L0_SetStart.c:300`, `NoNullStream`); two data
  sets read in turn share one header check, and the one without a packet count
  loses packets (`PGS_IO_L0_GetPacket.c:458`, `ZeroCountReadOn`, with the data sets
  `ZeroClaim` of `MCL0Access`);
- with runtime marks in two threads of `PCShm`, a mark writes back a copy read
  before PCLOCK was taken and revives a record deleted meanwhile
  (`PGS_PC_MarkRuntimeShm.c:294`, `DeleteIsFinal`), and a mark that meets a record
  with another name gives back a PCLOCK that another thread holds (`:347`,
  `LockExclusive`); `shm_marks` has one thread;
- two threads of a process can name a file in the same second and get one name
  (`PGS_IO_Gen_Temp_Reference.c:956`); the models let them;
- with a flag letter in a path (`PathLetters` of `PCAscii`), deleting a runtime
  file cuts its line at that letter (`PGS_PC_SkipCheck.c:301`, `ImplementsTable`);
- after the last packet of a data set that has a footer, `PGS_IO_L0_GetPacket` gives
  the footer as if it were a packet (`GetFooter`); `l0_access` has no footers, and
  its headers have the right count.

In `shm_threads` and `shm_marks` intermediate files are not mixed with temporary
ones (`Ops` in each cfg), as `shm_insert_lost` shows what happens then.

### Bounds

- *Two threads or two processes* (`PCShm`, `PCAscii`, `MEMShm`). Every race here is between one thread's read
  and write and one other thread; a third adds no new pair of steps. The proofs
  about these modules are for any number of threads or processes.
- *Two identifiers, three free records*: enough to overwrite, to append, to
  delete and create again, and to fill the segment. In `PCAscii` one identifier:
  its calls look at no other record. Three records per identifier fit in three
  seconds.
- *`MaxSec`*: the clock stops there, and no new call begins; calls under way end
  (`Rest` is the state in which all have). Each thread can create a file in each
  second, so 3 seconds let a file be created, deleted and created again while the
  other thread is inside a call.
- *`MaxKills`* = 1: a kill at any step, and any continuation.
- *Four threads for three slots* (`TSFMaster`): one that has a slot, one that ends
  and one that searches, in an array with no slot to spare; the fourth takes the
  place of one that ended, or is one more than the array has room for.
- *Three segments* (`MEMShm`): the system segment, the user segment, and one that
  would be made by mistake.
- *Two runs, two jobs*: what a run leaves matters to the next one only. Four file
  names in `PCLife` let one identifier be made, deleted and made again.
- *Three files in a data set, two handles* (`L0Access`): a file has one before it and
  one behind it, start times lead forwards and backwards over a file, and both
  handles may be on one data set. `MaxStreams` bounds the streams that are left
  open, `MaxRead` how often a rewound file is read again.
- *Three nodes*: a list has a head, a middle and a tail, which are the three
  cases of the unlinking code.

Deadlock is checked in every run but `shm_threads`, `josfra` and those of
`L0Access`. In `josfra` the last job ends and nothing more happens; in `L0Access` a
null stream ends the program. In `shm_threads` the run is about a
thread that waits for ever for PCLOCK, and a system in which all wait is to be
reported by `LockReleased`, not in its place.

### Fairness

`PCShm`: a thread inside a toolkit call keeps running (weak fairness of each
thread's step), because a call has no wait but PCLOCK and the wait for the next
second; time passes (weak fairness of `Tick`). Nothing makes a thread begin a
call. PCLOCK needs no strong fairness for `LockReleased`: it says that the holder
gives the lock back, not that a given thread gets it. `MEMDyn`: a thread inside
`FreeAll` runs its loop. `TSFMaster`: a thread that holds the lock goes on, as
nothing in that region waits. All other runs are of `Init /\ [][Next]_vars`.

## 4. Proofs

`tlapm` checks every leaf of `PCRecordsProofs`, `PCTableProofs`, `PCShmProofs`,
`PCAsciiProofs`, `PCLifeProofs`, `ServicesProofs`, `L0AccessProofs` and
`JosfraJobProofs`.

**PCTable** (`TypeCorrect`, `LiveIsUnique`, `DeletionIsFinal`, `RuntimeIsKept`).
For all identifiers, names and bounds. `TypeOK` alone is inductive;
`AtMostOneLive` needs it, since a search answers with a position. The invariant is
their conjunction, and the argument is local to a section: replacing the live
record by one of its identifier, appending where there is none, and changing a
flag without reviving a record each keep `SectionOK`. The action properties follow
from `NextEvolves`: what one step can make of the record at a position.

**PCShm** (`TypeCorrect`, `LockIsExclusive`, `CreatedIsFound`, `HeaderIsExact`,
`SearchesSucceed`, `PCShmImplementsPCTable`, `LiveIsUnique`, `DeletionIsFinal`). For
all threads, identifiers and free space, under `OneSection(s)`: one process, all
creations in section `s`, and runtime marks only if there is no more than one
thread. Without it the code breaks these properties, as `shm_insert_lost` and the list
in section 3 show. The invariant ties the three things PCLOCK protects together: what
a thread found in `Scan` and copied of the header still holds when it writes
(`FoundOK`), because only the thread in the region changes image or header
(`HeldOK`, lemma `Exclusive`); and the image is as long as the header says, but for
one record between `Write` and `Done` (`LayoutAt`). The last needs that insertions
happen at the end of the image (`InsertAtEnd`): there `InsertAt` is `Append`, and
the refinement follows from `WriteEffect`. `SearchesSucceed` is for `s = "temp"`
only: while an intermediate file is inserted, a search that takes no lock finds the
temporary section's offset one record behind.

Runtime marks need a second invariant, `Alone`, for the refinement. A mark searches
the section again, for the record whose file name it fetched, and writes back a copy
of that record with a new flag. That this copy is of a live record, so that the write
is a `MarkRuntime` of the table, is not because of PCLOCK but because the names of
one thread differ: each has a second of its own (`NameIsNew`, `Made`), so that no two
records of an identifier have one name (`FilesApart`) and the search ends at the
record that was fetched (`MarksLive`). `LiveIsUnique` and `DeletionIsFinal` of
`PCTableProofs` are then carried over: `PCShmProofs` has an instance of that module
on the image (`OfTable`), and `PCAsciiProofs` one on the PCF.

**PCAscii** (`TypeCorrect`, `AlwaysWhole`, `NothingLeft`,
`PCAsciiImplementsPCTable`, `LiveIsUnique`, `DeletionIsFinal`). For all threads, processes, identifiers and calls.
`FileWhole` is far from inductive: that the file a thread renames is complete
follows from where the thread is, and that no other thread wrote to the copy since
follows from PCLOCK and from the copy being named after the process. So the
invariant says of each thread that the call it makes belongs to its place
(`CallOK`), that its copy is `Cut` until it is the changed table (`CopyOK`), and
that PCLOCK is its own in the region (`HeldOK`); `ThreadStep` says once what a step
of a thread must establish. The refinement adds `FreshOK`: the copy was made of
the PCF as it still is.

| theorem | hypothesis |
|---|---|
| `AlwaysWhole` | writing the copy does not fail (`"disk" \notin Faults`) |
| `NothingLeft` | `rename` does not fail |
| `PCAsciiImplementsPCTable`, `LiveIsUnique`, `DeletionIsFinal` | one process, no flag letter in a path, writing does not fail |

Each hypothesis is needed: without it the code breaks the property, or, for
`LiveIsUnique`, the refinement it is taken from.

**MEMDyn**, in `ServicesProofs` (`TypeCorrect`, `ListStaysWhole`, `RecordsStayExact`, `NeverFaults`,
`AllStayFound`, `MEMDynImplementsMEMHeap`). For all addresses, nodes, variables
and sizes. The invariant is the conjunction of the checked ones: unlinking keeps
the list whole only if the counter is its length, and `NoFault` needs that recorded
blocks are allocated. `ListWhole` gives a sequence that the list follows; the
proofs build the sequence after each step.

**TSFMaster**, in `ServicesProofs` (`TsfTypeCorrect`, `SlotsAreExclusive`, `SearchStaysInBounds`,
`SlotIsKept`). For any number of threads and slots, and whichever creation
fails. `TsfTypeCorrect` has no hypothesis: what is marked or given is a slot of the
array, also where two threads initialise at once. The others are under `MainFirst`:
the main thread makes a call before it starts others. Without it a second
initialisation clears `threadUsed` while slots are in use. The invariant says that until the
keys exist the main thread is alone (`Alone`), that the lock has one holder
(`Held`), and that a thread that takes a slot takes a free one (`FreeAhead`); this
is enough for `SlotsExclusive`, as no step but `End` frees a slot. With both keys it
adds that used slots are those of threads (`UsedAreHeld`), that a thread has a
slot if and only if its `once` says so (`HasSlot`), and, if there never were more
threads than slots, that a thread that searches has a free slot before it. The last
is a pigeonhole argument (`OneIsFree`): slots below the counter were used when they
were passed, but their threads may have ended since, so that the invariant speaks of
slots ahead, and only one thread searches at a time. The exceptions of
`SearchInBounds` and the condition `created = SlotKeys` of `SlotKept` are where the
code fails, not hypotheses about it: the theorems cover the runs in which keys are
missing.

**MEMShm**, in `ServicesProofs` (`ShmTypeCorrect`, `SegmentIsShared`, `NothingIsLeft`, `StaysNamed`). For
any processes and segments and every fault. That all attach one segment rests on
the kernel giving one segment per key (`OneEach`) and on every number a process or
the record holds being that of a user segment (`Recorded`); what is left at the end
rests on no process being attached when termination starts (`Phases`), so that a
removal is immediate (`RmidGives`).

**PCLife** (`TypeCorrect`, `TableIsSaved`, `DeletedAreGone`, `OnlyDeletedRemoved`,
`SaveIsOfTable`, `LoadLosesOnlyDeletions`). For any identifiers, names, number of runs
and faults, and any point at which a run is killed. `TypeCorrect` and
`LoadLosesOnlyDeletions` have no hypothesis. The latter says how far loading a used PCF
goes wrong: `PGS_PC_InitCom` clears every flag, but a search then finds another file
only for an identifier with a deleted record in that section; that runtime marks are
cleared too changes no search. The other four are under `ShmFirst`: shared memory in
the first run only. A second run in shared memory loads a PCF that has deletions;
TLC, with `Modes` `<<{TRUE}, {TRUE}>>`, finds each of the four properties violated, and
`LoadedActsTheSame`. `SavedIsTable` speaks of the end only; its invariant has three parts:

- *which record a search finds* (`Orderly`): every record has a name the tools
  listed or generated, no two have one name, only the last record of an identifier
  in a section may be live, and only temporary files are deleted. Without it,
  nothing says that the line which `PGS_PC_MarkAtTerm` finds is the one just put,
  after a file was deleted and made again under one identifier;
- *how much of the table the PCF has* (`Saving`): while the loop of
  `PGS_PC_SavePCSData` is at a record, the PCF has exactly the records before it, of
  which those deleted have `D` alone; between `SavePut` and `SaveMark` one more
  (`InMark`); in the loop of `UpdateRuntimeFiles` the marks of the records before;
- *which deleted files are gone* (`Removed`), in the loop of saving and in that of
  a run without shared memory.

From the first two follows that the next record is never in the PCF already
(`NextIsNotCopied`), so that each put appends, and that the line marked is the only
one of its file (`MarkableIs`, `LastIsFound`), so that each step of saving is a step
of `PCTable`. A run that is killed on the way leaves a PCF that is `Orderly`, which
is all that the next one needs.

**L0Access** (`TypeCorrect`, `PositionsCorrect`, `OwnedCorrect`, `StreamsCorrect`,
`CountCorrect`, `StreamsImplement`). For any handles, data sets, files, packets
and start times, and whatever opens fail. The invariant says that the table is
well formed (`TableOK`): the file that an entry names is one of its data set, its
stream is its own and on that file; that the stream is where the count says
(`Counted`); that each stream is of one entry (`Kept`); and of a call to
`PGS_IO_L0_SetStartCntPkts` in progress, that its count is the number of packets
of the files it has passed (`CallOK`). For the refinement it adds that a stream at
the end of a file has a count to match (`Reads`); the cursor is then the packets
before the stream's.

| theorem | hypothesis | without it |
|---|---|---|
| `TypeCorrect`, `CountCorrect` | | |
| `PositionsCorrect` | no header file of its own, or opens succeed (`HeadersOpen`) | a header that cannot be opened leaves its stream rewound (`PGS_IO_L0_GetHeader.c:438`) |
| `OwnedCorrect` | no `PGS_IO_L0_SetStartCntPkts`, no open beyond the table (`AllClosed`) | streams stay open that no entry has (`PGS_IO_L0_SetStartCntPkts.c:341`) |
| `StreamsCorrect` | both | as above |
| `StreamsImplement` | headers have the right count, no footers, `HeadersOpen`, no `PGS_IO_L0_SetStartCntPkts` (`Plain`) | a footer is given as a packet; with a count that is too small a file is left with packets unread; while packets are counted, and after that fails, the stream is at the last packet of a file passed |

TLC finds a counterexample on a small instance for each hypothesis that is left out.

**JosfraJob** (`TypeCorrect`, `CasComesLast`, `InputsAreOwn`). For any arguments
and number of jobs. The invariant says how far the copy is edited at each place of
the script (`Edited`, `Set`) and which downloads are of this job (`Downloaded`).

Assumptions on constants are the named `ASSUME`s of the modules; TLC evaluates them in every run. They say that the processes and
identifiers are what they are declared to be, that a build without threads has one
thread per process, that there is a slot, and that the markers `Cut`
and `NoFile` are not tables.

Not proved: `PCShm` with runtime marks in several threads, and `PCLife` with a second
run in shared memory beyond its types and what is loaded, as the code breaks the properties there. Only
model-checked: the liveness properties `LockReleased`, `LockReturned` and `SweepEnds`, as TLAPS does not
prove properties that rest on fairness. Some results go beyond every run:
`RuntimeIsKept`, `SlotIsKept`, `StaysNamed` and `LoadLosesOnlyDeletions` are of properties
that no run checks, `AlwaysWhole` covers several processes on one PCF, and
`HeaderIsExact` covers the creation of intermediate files (`s = "interOut"`) and the
offset of the temporary section that it moves, where the passing runs of `PCShm` create
temporary files only.

## 5. Not modelled

- *Contents of streams, segments and blocks*, and the text of messages.
- *Sections no call changes* (input, output, support files, user parameters) and
  the dividers of the image, whose effect is the offset in `hdr`.
- *Two processes that write the table at once*: `PCShm` and `PCAscii` allow them,
  and updates are then lost; no document promises otherwise.
- *A full disk* while the PCF is copied: `PCAscii` has the fault, and the cut copy
  becomes the PCF; no run enables it. In `PCLife` a PCF can always be rewritten.
- *Process ids used again* by a later shell while a segment of the earlier one is
  left: the key of a segment is the process id (`PGS_MEM1.c:1277`).
- *Sending runtime data* and the log switches of `InitCom` and `TermCom`.
- *Keys and named locks* of `TSF` beyond PCLOCK and SHMMEMLOCK, which the modules of
  their users have.
- *Status messages* (`SMF`): the message cache and the three log files. Every
  component writes to them and none of the properties above depends on them.
- *Parsing of Level 0 headers* (`FileVersionInfo`), the bytes of packets, packets
  longer than the buffer, packets with unreadable times, `fclose` that fails, and
  the version arrays' memory.
- *Time* (`TD`): arithmetic on floating-point times.
- *Numerical code* (`CSC`, `EPH`, `CBP`, `DEM`, `AA`, `GCT`): floating point, which
  TLC and TLAPS do not have.
- *Vendored libraries* (`hdfeos`, libxml2, libxslt, ODL, UDUNITS, freeform): third-party
  code, and by far most of the lines of the repository.

## 6. Plan

1. `SMFLog`: logging switches, cache, and the log files several processes write.
2. `PCShmImage`: the image cell by cell with dividers, to justify `TempAt`, `Place`
   and `InsertAt`.
