------------------------------- MODULE PCShm -------------------------------
(***************************************************************************)
(* The process control table in shared memory, as the toolkit calls of a   *)
(* PGE use it: PGS_IO_Gen_Temp_Reference (create, read), Temp_Delete and   *)
(* MultiRuntimes (mark).  Threads of one or several processes run these    *)
(* calls one step at a time: every search of the table reads the shared    *)
(* image at one instant, every write writes it at one instant, and between *)
(* them another thread may run.  PCLOCK is a mutex of one process; a build *)
(* without _PGS_THREADSAFE has no lock and one thread per process.         *)
(*                                                                         *)
(* The image is three consecutive sections (intermediate input,            *)
(* intermediate output, temporary); the header in front of it holds the    *)
(* offset of each section and the space used.  Only the offset of the last *)
(* section can move, so "temp" below counts the records in front of it.    *)
(***************************************************************************)
EXTENDS PCRecords, FiniteSets

CONSTANTS
    Ids,         \* logical identifiers
    Threads,     \* the threads that call the toolkit
    Procs,       \* the processes of the PGE
    ProcOf,      \* the process of each thread
    ThreadSafe,  \* is the toolkit built with _PGS_THREADSAFE?
    InterIn,     \* the identifiers the PCF lists as intermediate input
    Spare,       \* how many more records fit in the segment
    MaxSec,      \* bound: the last second of the clock
    Ops,         \* the calls the application makes
    NoThread     \* the holder of a free lock

ASSUME ProcOfAssumption == ProcOf \in [Threads -> Procs]
ASSUME BuildAssumption ==
    /\ ThreadSafe \in BOOLEAN
    /\ ~ThreadSafe => \A t, u \in Threads : ProcOf[t] = ProcOf[u] => t = u
ASSUME BoundAssumption == Spare \in Nat /\ MaxSec \in Nat \ {0}
ASSUME IdAssumption ==
    /\ InterIn \subseteq Ids /\ IsFiniteSet(InterIn)
    /\ NoThread \notin Threads
ASSUME OpsAssumption ==
    Ops \subseteq [kind : {"create", "read", "delete", "mark"},
                   id : Ids, sec : {"interOut", "temp"}]

VARIABLES
    sect,    \* the image: the records of each section
    hdr,     \* the header: records in front of the temporary section, and
             \* records inserted so far (amountUsed)
    pclock,  \* the holder of each process's PCLOCK
    pc,      \* where each thread is
    job,     \* the local variables of each thread's call
    torn,    \* was a record written off a record boundary?
    last,    \* the second of each thread's last file name (lastTime)
    now      \* the clock, in seconds

vars == <<sect, hdr, pclock, pc, job, torn, last, now>>

----------------------------------------------------------------------------
(* Records and searches                                                    *)

Names == (Procs \X (1..MaxSec)) \cup {PcfName(id) : id \in InterIn}
Rec == [id : Ids, name : Names, flag : Flags]
NoRec == [id |-> "none", name |-> <<>>, flag |-> ""]

\* PGS_PC_SearchShm: in the temporary section a deleted record is skipped.
Search(sec, id) ==
    First(IF sec = "temp" THEN Live(sect[sec], id) ELSE With(sect[sec], id))

\* Where the divider in front of the temporary section really is.
TempAt(im) == Len(im["interIn"]) + Len(im["interOut"])

\* The section pointer of the header is on a divider.
DividerOK(sec) == sec = "temp" => hdr.temp = TempAt(sect)

----------------------------------------------------------------------------
(* PGS_PC_WriteNewToShm: what a new record does to the image.              *)

\* The shifting loop reads each following record into the structure that
\* tempStruct points to, the one that holds the new record: from the first
\* record on it writes what it has just read.
Shifted(new, rest) ==
    IF rest = <<>> THEN <<new>> ELSE rest \o <<rest[Len(rest)]>>

\* Insert at position p of section sec, the end of that section when it was
\* searched: the records from there to the end of the image are rewritten
\* and the section is one longer.
InsertAt(im, sec, p, new) ==
    LET front == SubSeq(im[sec], 1, p - 1)
        rest  == SubSeq(im[sec], p, Len(im[sec]))
        tail  == IF sec = "temp" THEN <<>> ELSE im["temp"]
        all   == front \o Shifted(new, rest \o tail)
        size  == Len(im[sec]) + 1
    IN  IF sec = "temp"
        THEN [im EXCEPT !["temp"] = all]
        ELSE [im EXCEPT !["interOut"] = SubSeq(all, 1, size),
                        !["temp"] = SubSeq(all, size + 1, Len(all))]

\* A record is written back at the address where it was read.  The address
\* does not follow a section that moved meanwhile: the record lands as many
\* positions earlier as records were inserted in front of the section.
\* Place 0 is in front of the section, where the write is not on a record
\* boundary: what the table holds after it is undefined.
Place(sec, base, p) ==
    IF sec = "temp" /\ base + p > TempAt(sect) THEN base + p - TempAt(sect)
    ELSE IF sec = "temp" THEN 0
    ELSE p

Overwrite(sec, p, r) ==
    IF p = 0 THEN torn' = TRUE /\ UNCHANGED sect
             ELSE sect' = [sect EXCEPT ![sec][p] = r] /\ UNCHANGED torn

Insert(sec, p, r) ==
    IF p = 0 THEN torn' = TRUE /\ UNCHANGED sect
             ELSE sect' = InsertAt(sect, sec, p, r) /\ UNCHANGED torn

----------------------------------------------------------------------------
NoJob == [op |-> [kind |-> "none", id |-> "none", sec |-> "temp"],
          sec |-> 1, name |-> <<>>, pos |-> 0, copy |-> NoRec,
          insert |-> FALSE, hdr |-> [temp |-> 0, used |-> 0]]

Init ==
    /\ \E l \in Listings(InterIn, Cardinality(InterIn)) : sect = Loaded(l)
    /\ hdr = [temp |-> Cardinality(InterIn), used |-> 0]
    /\ pclock = [p \in Procs |-> NoThread]
    /\ pc = [t \in Threads |-> "idle"]
    /\ job = [t \in Threads |-> NoJob]
    /\ torn = FALSE
    /\ last = [t \in Threads |-> 0]
    /\ now = 1

\* Thread t is at one of these places, and the table is still defined.
At(t, places) == pc[t] \in places /\ ~torn

Goto(t, where) == pc' = [pc EXCEPT ![t] = where]

\* The call returns; its status is not kept.
Return(t) ==
    /\ Goto(t, "idle")
    /\ job' = [job EXCEPT ![t] = NoJob]

Begin(t) ==
    /\ At(t, {"idle"})
    /\ now < MaxSec
    /\ \E op \in Ops :
          /\ job' = [job EXCEPT ![t] = [NoJob EXCEPT !.op = op]]
          /\ Goto(t, IF op.kind = "delete" THEN "lock" ELSE "lookup")
    /\ UNCHANGED <<sect, hdr, pclock, torn, last, now>>

\* One PGS_PC_GetPCSData of PGS_IO_Gen_Temp_Reference's loop, or of
\* PGS_PC_GetReferenceType for a mark: no lock is taken.
Lookup(t) ==
    /\ At(t, {"lookup"})
    /\ LET op  == job[t].op
           sec == Sections[job[t].sec]
           i   == Search(sec, op.id)
       IN \/ /\ ~DividerOK(sec)
             /\ Return(t)
          \/ /\ DividerOK(sec) /\ i # 0
             /\ IF op.kind = "mark"
                THEN Goto(t, "fetch") /\ UNCHANGED job
                ELSE Return(t)
          \/ /\ DividerOK(sec) /\ i = 0
             /\ job[t].sec < Len(Sections)
             /\ job' = [job EXCEPT ![t].sec = @ + 1]
             /\ UNCHANGED pc
          \/ /\ DividerOK(sec) /\ i = 0
             /\ job[t].sec = Len(Sections)
             /\ IF op.kind = "create"
                THEN Goto(t, "name") /\ UNCHANGED job
                ELSE Return(t)
    /\ UNCHANGED <<sect, hdr, pclock, torn, last, now>>

FileName(t) == <<ProcOf[t], now>>

\* PGS_IO_Gen_Temp_Name: process id and second, after waiting for a second
\* in which this thread has not named a file.
Name(t) ==
    /\ At(t, {"name"})
    /\ now # last[t]
    /\ last' = [last EXCEPT ![t] = now]
    /\ job' = [job EXCEPT ![t].name = FileName(t)]
    /\ Goto(t, "lock")
    /\ UNCHANGED <<sect, hdr, pclock, torn, now>>

Tick ==
    /\ ~torn /\ now < MaxSec
    /\ now' = now + 1
    /\ UNCHANGED <<sect, hdr, pclock, pc, job, torn, last>>

NoLock(t) ==                                      \* mutated Lock
    /\ At(t, {"lock", "marklock"})
    /\ Goto(t, IF pc[t] = "lock" THEN "scan" ELSE "markwrite")
    /\ UNCHANGED <<sect, hdr, pclock, job, torn, last, now>>

\* PGS_TSF_LockIt(PGSd_TSF_PCLOCK)
Lock(t) ==
    /\ At(t, {"lock", "marklock"})
    /\ IF ThreadSafe
       THEN /\ pclock[ProcOf[t]] = NoThread
            /\ pclock' = [pclock EXCEPT ![ProcOf[t]] = t]
       ELSE UNCHANGED pclock
    /\ Goto(t, IF pc[t] = "lock" THEN "scan" ELSE "markwrite")
    /\ UNCHANGED <<sect, hdr, job, torn, last, now>>

\* PGS_TSF_UnlockIt: the mutex is released whoever holds it.
Release(t) ==
    pclock' = IF ThreadSafe THEN [pclock EXCEPT ![ProcOf[t]] = NoThread] ELSE pclock

RoomForOneMore(used) == used <= Spare              \* mutated HasRoom
HasRoom(used) == used < Spare

\* PGS_PC_PutDataInShm: copy the header, find the section, then
\* DeleteFileShm or WriteNewToShm searches it for a live record.
Scan(t) ==
    /\ At(t, {"scan"})
    /\ LET op  == job[t].op
           sec == IF op.kind = "delete" THEN "temp" ELSE op.sec
           i   == First(Live(sect[sec], op.id))
           new == [id |-> op.id, name |-> job[t].name, flag |-> ""]
           Found(p, r, ins) ==
               /\ job' = [job EXCEPT ![t].pos = p, ![t].copy = r,
                                     ![t].insert = ins, ![t].hdr = hdr]
               /\ Goto(t, "write")
           Fail == Goto(t, "unlock") /\ UNCHANGED job
       IN \/ /\ ~DividerOK(sec)
             /\ Fail               \* E_INV_DIVPOINTER_SHM
          \/ /\ DividerOK(sec) /\ i # 0
             /\ Found(i, IF op.kind = "delete" THEN sect[sec][i] ELSE new, FALSE)
          \/ /\ DividerOK(sec) /\ i = 0 /\ op.kind = "delete"
             /\ Fail               \* W_NO_FILES_EXIST
          \/ /\ DividerOK(sec) /\ i = 0 /\ op.kind = "create"
             /\ IF HasRoom(hdr.used)
                THEN Found(Len(sect[sec]) + 1, new, TRUE)
                ELSE Fail          \* E_EXCEEDED_SHM
    /\ UNCHANGED <<sect, hdr, pclock, torn, last, now>>

ForgetsRuntime(r) == [r EXCEPT !.flag = "D"]       \* mutated DeleteFlag
\* The flag DeleteFileShm writes.
DeleteFlag(r) == [r EXCEPT !.flag = IF @ = "R" THEN "B" ELSE "D"]

Write(t) ==
    /\ At(t, {"write"})
    /\ LET j   == job[t]
           sec == IF j.op.kind = "delete" THEN "temp" ELSE j.op.sec
           p   == Place(sec, j.hdr.temp, j.pos)
       IN IF j.insert THEN Insert(sec, p, j.copy)
          ELSE Overwrite(sec, p, IF j.op.kind = "delete" THEN DeleteFlag(j.copy)
                                 ELSE j.copy)
    /\ Goto(t, "done")
    /\ UNCHANGED <<hdr, pclock, job, last, now>>

MovesAllOffsets(h, sec) ==                         \* mutated NewHeader
    [temp |-> h.temp + 1, used |-> h.used + 1]
NewHeader(h, sec) ==
    [temp |-> h.temp + (IF sec = "temp" THEN 0 ELSE 1), used |-> h.used + 1]

\* The header goes back with the offsets behind the section moved and the
\* space used one record larger; then the lock is released.
Done(t) ==
    /\ At(t, {"done"})
    /\ LET j == job[t]
       IN hdr' = IF j.insert THEN NewHeader(j.hdr, j.op.sec) ELSE hdr
    /\ Release(t)
    /\ Return(t)
    /\ UNCHANGED <<sect, torn, last, now>>

KeepsLock(t) ==                                    \* mutated Unlock
    /\ At(t, {"unlock"})
    /\ Return(t)
    /\ UNCHANGED <<sect, hdr, pclock, torn, last, now>>

\* The error exits of PutPCSData release the lock as well.
Unlock(t) ==
    /\ At(t, {"unlock"})
    /\ Release(t)
    /\ Return(t)
    /\ UNCHANGED <<sect, hdr, torn, last, now>>

\* PGS_PC_MultiRuntimes asks for the file's name in the section found, then
\* PGS_PC_MarkRuntimeShm starts at the head of that section.
Fetch(t) ==
    /\ At(t, {"fetch"})
    /\ LET sec == Sections[job[t].sec]
           i   == Search(sec, job[t].op.id)
       IN IF DividerOK(sec) /\ i # 0
          THEN /\ job' = [job EXCEPT ![t].name = sect[sec][i].name]
               /\ Goto(t, "mark")
          ELSE Return(t)
    /\ UNCHANGED <<sect, hdr, pclock, torn, last, now>>

\* The loop of MarkRuntimeShm up to the next record of this identifier.  A
\* record with another file name executes UnlockIt without a LockIt.
MarkScan(t) ==
    /\ At(t, {"mark"})
    /\ LET j    == job[t]
           sec  == Sections[j.sec]
           head == IF j.pos = 0 THEN hdr ELSE j.hdr
           i    == First({k \in With(sect[sec], j.op.id) :
                            k > Place(sec, head.temp, j.pos)})
       IN \/ /\ j.pos = 0 /\ ~DividerOK(sec)
             /\ Return(t) /\ UNCHANGED pclock
          \/ /\ j.pos = 0 => DividerOK(sec)
             /\ i = 0
             /\ Return(t) /\ UNCHANGED pclock
          \/ /\ j.pos = 0 => DividerOK(sec)
             /\ i # 0
             /\ job' = [job EXCEPT ![t].hdr = [head EXCEPT !.temp = TempAt(sect)],
                                   ![t].pos = i, ![t].copy = sect[sec][i]]
             /\ IF sect[sec][i].name = j.name
                THEN Goto(t, "marklock") /\ UNCHANGED pclock
                ELSE Release(t) /\ UNCHANGED pc
    /\ UNCHANGED <<sect, hdr, torn, last, now>>

\* The flag MarkRuntimeShm writes, on the copy it read before it locked.
RuntimeFlag(r) == [r EXCEPT !.flag = IF @ = "D" THEN "B" ELSE "R"]

MarkWrite(t) ==
    /\ At(t, {"markwrite"})
    /\ LET j   == job[t]
           sec == Sections[j.sec]
       IN Overwrite(sec, Place(sec, j.hdr.temp, j.pos), RuntimeFlag(j.copy))
    /\ Release(t)
    /\ Return(t)
    /\ UNCHANGED <<hdr, last, now>>

Step(t) ==
    \/ Lookup(t) \/ Name(t) \/ Lock(t) \/ Scan(t) \/ Write(t) \/ Done(t)
    \/ Unlock(t) \/ Fetch(t) \/ MarkScan(t) \/ MarkWrite(t)

\* The bound on the clock is reached and every call has returned.
Rest ==
    /\ now = MaxSec /\ \A t \in Threads : At(t, {"idle"})
    /\ UNCHANGED vars

Next ==
    \/ Tick
    \/ \E t \in Threads : Begin(t) \/ Step(t)
    \/ Rest

Spec == Init /\ [][Next]_vars

\* A thread inside a toolkit call keeps running; time passes.
Fairness == WF_vars(Tick) /\ \A t \in Threads : WF_vars(Step(t))
FairSpec == Spec /\ Fairness

----------------------------------------------------------------------------
(* Properties                                                              *)

Where == {"idle", "lookup", "name", "lock", "scan", "write", "done", "unlock",
          "fetch", "mark", "marklock", "markwrite"}

\* Types of the image, the header, the locks and the threads.
TypeOK ==
    /\ \A s \in SectionSet : sect[s] \in Seq(Rec)
    /\ hdr \in [temp : Nat, used : 0..Spare]
    /\ pclock \in [Procs -> Threads \cup {NoThread}]
    /\ pc \in [Threads -> Where]
    /\ last \in [Threads -> 0..MaxSec] /\ now \in 1..MaxSec
    /\ torn \in BOOLEAN

\* Two threads of one process are never both between LockIt and UnlockIt.
Inside(t) == pc[t] \in {"scan", "write", "done", "unlock", "markwrite"}
LockExclusive ==
    \A t, u \in Threads : Inside(t) /\ Inside(u) /\ ProcOf[t] = ProcOf[u] => t = u

\* When a create has written its record, the record is in its section under
\* its name and without flags: it was inserted or has replaced the live one.
PutIsFound ==
    \A t \in Threads : pc[t] = "done" /\ job[t].op.kind = "create" =>
        \E r \in {sect[job[t].op.sec][i] : i \in DOMAIN sect[job[t].op.sec]} :
            r = [id |-> job[t].op.id, name |-> job[t].name, flag |-> ""]

\* Outside an insertion the header agrees with the image: the offset of the
\* temporary section is that of its divider, and the space used is what was
\* inserted.
HeaderAgrees ==
    (\A t \in Threads : pc[t] # "done") =>
        /\ hdr.temp = TempAt(sect)
        /\ Cardinality(InterIn) + hdr.used = TempAt(sect) + Len(sect["temp"])

\* No call fails on a section pointer: whenever a thread is about to search
\* a section, the header it will copy points to that section's divider.
SearchNeverFails ==
    \A t \in Threads :
        /\ pc[t] \in {"lookup", "fetch"} => DividerOK(Sections[job[t].sec])
        /\ pc[t] = "scan" => DividerOK("temp")

\* What the tools promise about the table, kept in the image.
Table == INSTANCE PCTable WITH table <- sect, MaxFiles <- Spare

\* The image changes only as the table may: each call that changes it does so
\* in one step, the step that writes its record.  Two threads may both find no
\* live record and both go on to create one; the search under PCLOCK turns the
\* second insertion into an overwrite.
ImplementsTable == Table!Spec

\* A file marked for deletion stays in the table and stays marked, through
\* creations with the same identifier, insertions and runtime marks.
DeleteIsFinal == Table!DeleteIsFinal

\* Whoever takes PCLOCK gives it back, on every path out of the call.
LockReleased == \A p \in Procs : (pclock[p] # NoThread) ~> (pclock[p] = NoThread)
=============================================================================
