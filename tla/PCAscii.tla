------------------------------ MODULE PCAscii ------------------------------
(***************************************************************************)
(* The process control file when it is not loaded into shared memory,      *)
(* which is how a program runs that was not started by the PGE shell.      *)
(* Searches read the file without a lock.  A change copies the file, line  *)
(* by line and with the change made, to a temporary file named after the   *)
(* process, and renames that file over the PCF: PGS_PC_PutPCSData for a    *)
(* creation or a deletion, PGS_PC_MarkRuntimeAscii for a runtime mark,     *)
(* both under PCLOCK, which is a mutex of one process.                     *)
(*                                                                         *)
(* A file opened for reading stays as it was when it was opened, since     *)
(* writers replace it and never write into it.  A process may be killed    *)
(* between any two steps; its files stay, its lock goes with it.           *)
(***************************************************************************)
EXTENDS PCRecords, FiniteSets

CONSTANTS
    Ids, Threads, Procs, ProcOf, ThreadSafe, InterIn, MaxSec, Ops, NoThread,
                  \* as in PCShm
    PathLetters,  \* the flag letters that occur in file and directory names
    Faults,       \* the system calls that may fail: "open", "rename", "disk"
    MaxKills,     \* bound: how often a process is killed
    NoFile,       \* the content of a file that does not exist
    Cut           \* the content of a file that is not written completely,
                  \* and the file name in a line that is not

ASSUME ProcOfAssumption == ProcOf \in [Threads -> Procs]
ASSUME BuildAssumption ==
    /\ ThreadSafe \in BOOLEAN
    /\ ~ThreadSafe => \A t, u \in Threads : ProcOf[t] = ProcOf[u] => t = u
ASSUME BoundAssumption == MaxSec \in Nat \ {0} /\ MaxKills \in Nat
ASSUME IdAssumption ==
    /\ InterIn \subseteq Ids /\ IsFiniteSet(InterIn)
    /\ NoThread \notin Threads
ASSUME FaultAssumption ==
    /\ PathLetters \subseteq {"D", "R"}
    /\ Faults \subseteq {"open", "rename", "disk"}
ASSUME OpsAssumption ==
    Ops \subseteq [kind : {"create", "read", "delete", "mark"},
                   id : Ids, sec : {"interOut", "temp"}]

VARIABLES
    pcf,     \* the content of the process control file
    disk,    \* the content of the temporary file of each process
    pclock,  \* the holder of each process's PCLOCK
    pc,      \* where each thread is
    job,     \* the local variables of each thread's call
    last,    \* the second of each thread's last file name
    now,     \* the clock, in seconds
    kills    \* how many times a process was killed

vars == <<pcf, disk, pclock, pc, job, last, now, kills>>

----------------------------------------------------------------------------
Names == (Procs \X (1..MaxSec)) \cup {PcfName(id) : id \in InterIn}
Rec == [id : Ids, name : Names \cup {Cut}, flag : Flags]
Tables == [SectionSet -> Seq(Rec)]

ASSUME ContentAssumption == Cut # NoFile /\ {Cut, NoFile} \cap Tables = {}

NoJob == [op |-> [kind |-> "none", id |-> "none", sec |-> "temp"],
          sec |-> 1, name |-> <<>>, src |-> NoFile]

Init ==
    /\ \E l \in Listings(InterIn, Cardinality(InterIn)) : pcf = Loaded(l)
    /\ disk = [p \in Procs |-> NoFile]
    /\ pclock = [p \in Procs |-> NoThread]
    /\ pc = [t \in Threads |-> "idle"]
    /\ job = [t \in Threads |-> NoJob]
    /\ last = [t \in Threads |-> 0]
    /\ now = 1
    /\ kills = 0

\* Thread t is at one of these places, and there is a PCF to work on.
At(t, places) == pc[t] \in places /\ pcf # Cut

Goto(t, where) == pc' = [pc EXCEPT ![t] = where]

Return(t) ==
    /\ Goto(t, "idle")
    /\ job' = [job EXCEPT ![t] = NoJob]

----------------------------------------------------------------------------
(* Searching                                                               *)

\* PGS_PC_GetPCSDataGetIndex skips the records marked for deletion.
Search(tab, sec, id) == First(Live(tab[sec], id))

Begin(t) ==
    /\ At(t, {"idle"})
    /\ now < MaxSec
    /\ \E op \in Ops :
          /\ job' = [job EXCEPT ![t] = [NoJob EXCEPT !.op = op]]
          /\ Goto(t, IF op.kind = "delete" THEN "lock" ELSE "lookup")
    /\ UNCHANGED <<pcf, disk, pclock, last, now, kills>>

\* One GetPCSData of Temp_Reference's loop, or of GetReferenceType.
Lookup(t) ==
    /\ At(t, {"lookup"})
    /\ LET op    == job[t].op
           found == Search(pcf, Sections[job[t].sec], op.id) # 0
       IN \/ /\ found
             /\ IF op.kind = "mark"
                THEN Goto(t, "fetch") /\ UNCHANGED job
                ELSE Return(t)
          \/ /\ ~found /\ job[t].sec < Len(Sections)
             /\ job' = [job EXCEPT ![t].sec = @ + 1]
             /\ UNCHANGED pc
          \/ /\ ~found /\ job[t].sec = Len(Sections)
             /\ IF op.kind = "create"
                THEN Goto(t, "name") /\ UNCHANGED job
                ELSE Return(t)
    /\ UNCHANGED <<pcf, disk, pclock, last, now, kills>>

\* PGS_IO_Gen_Temp_Name
Name(t) ==
    /\ At(t, {"name"})
    /\ now # last[t]
    /\ last' = [last EXCEPT ![t] = now]
    /\ job' = [job EXCEPT ![t].name = <<ProcOf[t], now>>]
    /\ Goto(t, "lock")
    /\ UNCHANGED <<pcf, disk, pclock, now, kills>>

\* PGS_PC_MultiRuntimes asks for the name of the file it is to mark.
Fetch(t) ==
    /\ At(t, {"fetch"})
    /\ LET sec == Sections[job[t].sec]
           i   == Search(pcf, sec, job[t].op.id)
       IN IF i # 0
          THEN /\ job' = [job EXCEPT ![t].name = pcf[sec][i].name]
               /\ Goto(t, "lock")
          ELSE Return(t)
    /\ UNCHANGED <<pcf, disk, pclock, last, now, kills>>

----------------------------------------------------------------------------
(* Changing lines                                                          *)

\* strchr finds the first occurrence of the letter in the line, which is the
\* flag at its end only if no name in the line has the letter.
CutAt(r, letter) == IF letter \in PathLetters THEN [r EXCEPT !.name = Cut] ELSE r

DropsRuntime(r) == [r EXCEPT !.flag = "D"]         \* mutated SkipFlag
SkipFlag(r) ==
    IF r.flag = "R" THEN [CutAt(r, "R") EXCEPT !.flag = "B"]
                    ELSE [r EXCEPT !.flag = "D"]

AppendsFlag(r) == [r EXCEPT !.flag = @ \o "R"]     \* mutated MarkFlag
MarkFlag(r) ==
    IF r.flag = "D" THEN [CutAt(r, "D") EXCEPT !.flag = "B"]
                    ELSE [r EXCEPT !.flag = "R"]

\* The lines PGS_PC_MarkRuntimeAscii changes; it passes over those that are
\* marked as runtime files already.
Markable(s, id, name) ==
    {i \in With(s, id) : s[i].name = name /\ s[i].flag \in {"", "D"}}

\* The line a call changes (0: none) and what the section then is.
Line(j) ==
    CASE j.op.kind = "mark" ->
             First(Markable(j.src[Sections[j.sec]], j.op.id, j.name))
      [] j.op.kind = "delete" -> First(Live(j.src["temp"], j.op.id))
      [] j.op.kind = "create" -> First(Live(j.src[j.op.sec], j.op.id))

AreaOf(j) ==
    CASE j.op.kind = "mark" -> Sections[j.sec]
      [] j.op.kind = "delete" -> "temp"
      [] j.op.kind = "create" -> j.op.sec

\* PGS_PC_PutPCSDataInsertCheck, SkipCheck or the loop of MarkRuntimeAscii
NewArea(j) ==
    LET s == j.src[AreaOf(j)]
        i == Line(j)
        new == [id |-> j.op.id, name |-> j.name, flag |-> ""]
    IN  CASE j.op.kind = "create" /\ i = 0 -> Append(s, new)
          [] j.op.kind = "create" /\ i # 0 -> [s EXCEPT ![i] = new]
          [] j.op.kind = "delete" -> [s EXCEPT ![i] = SkipFlag(@)]
          [] j.op.kind = "mark" -> [s EXCEPT ![i] = MarkFlag(@)]

Changed(j) == [j.src EXCEPT ![AreaOf(j)] = NewArea(j)]
HasLine(j) == j.op.kind = "create" \/ Line(j) # 0

----------------------------------------------------------------------------
(* Replacing the file                                                      *)

NoLock(t) ==                                      \* mutated Lock
    /\ At(t, {"lock"})
    /\ Goto(t, "open")
    /\ UNCHANGED <<pcf, disk, pclock, job, last, now, kills>>

Lock(t) ==
    /\ At(t, {"lock"})
    /\ IF ThreadSafe
       THEN /\ pclock[ProcOf[t]] = NoThread
            /\ pclock' = [pclock EXCEPT ![ProcOf[t]] = t]
       ELSE UNCHANGED pclock
    /\ Goto(t, "open")
    /\ UNCHANGED <<pcf, disk, job, last, now, kills>>

\* PGS_PC_GetPCFTemp: the name ends in the process id.
TempFile(t) == ProcOf[t]

\* PGS_PC_PutPCSDataOpenFiles: the PCF for reading, the temporary file for
\* writing from its beginning.  A deletion then asks for the file's name.
Open(t) ==
    /\ At(t, {"open"})
    /\ job' = [job EXCEPT ![t].src = pcf]
    /\ \/ /\ disk' = [disk EXCEPT ![TempFile(t)] = Cut]
          /\ Goto(t, IF job[t].op.kind = "delete" THEN "find" ELSE "copy")
       \/ /\ "open" \in Faults
          /\ Goto(t, "remove")
          /\ UNCHANGED disk
    /\ UNCHANGED <<pcf, pclock, last, now, kills>>

\* PutInArea reads the PCF once more, by GetPCSData.
Find(t) ==
    /\ At(t, {"find"})
    /\ Goto(t, IF Search(pcf, "temp", job[t].op.id) # 0 THEN "copy" ELSE "remove")
    /\ UNCHANGED <<pcf, disk, pclock, job, last, now, kills>>

RenamesOpenFile(t) ==                              \* mutated Copy
    /\ At(t, {"copy"})
    /\ Goto(t, "rename")
    /\ UNCHANGED <<pcf, disk, pclock, job, last, now, kills>>

\* AdvanceToLoc, the change, the rest of the file, and FixBuffer: the file
\* is complete when it is closed, if there was room; no one looks.
Copy(t) ==
    /\ At(t, {"copy"})
    /\ IF HasLine(job[t])
       THEN /\ \/ disk' = [disk EXCEPT ![TempFile(t)] = Changed(job[t])]
               \/ "disk" \in Faults /\ UNCHANGED disk
            /\ Goto(t, "rename")
       ELSE Goto(t, "remove") /\ UNCHANGED disk
    /\ UNCHANGED <<pcf, pclock, job, last, now, kills>>

\* A deletion returns a warning when the file itself is not on disk; the
\* PCF is replaced all the same.
Rename(t) ==
    /\ At(t, {"rename"})
    /\ \/ /\ pcf' = disk[TempFile(t)]
          /\ disk' = [disk EXCEPT ![TempFile(t)] = NoFile]
       \/ "rename" \in Faults /\ UNCHANGED <<pcf, disk>>
    /\ Goto(t, "unlock")
    /\ UNCHANGED <<pclock, job, last, now, kills>>

LeavesTemp(t) ==                                   \* mutated Remove
    /\ At(t, {"remove"})
    /\ Goto(t, "unlock")
    /\ UNCHANGED <<pcf, disk, pclock, job, last, now, kills>>

Remove(t) ==
    /\ At(t, {"remove"})
    /\ disk' = [disk EXCEPT ![TempFile(t)] = NoFile]
    /\ Goto(t, "unlock")
    /\ UNCHANGED <<pcf, pclock, job, last, now, kills>>

Unlock(t) ==
    /\ At(t, {"unlock"})
    /\ pclock' = IF ThreadSafe THEN [pclock EXCEPT ![ProcOf[t]] = NoThread] ELSE pclock
    /\ Return(t)
    /\ UNCHANGED <<pcf, disk, last, now, kills>>

----------------------------------------------------------------------------
Tick ==
    /\ pcf # Cut /\ now < MaxSec
    /\ now' = now + 1
    /\ UNCHANGED <<pcf, disk, pclock, pc, job, last, kills>>

\* Process p is killed, and a new one with its process id takes its place.
Kill(p) ==
    /\ pcf # Cut /\ kills < MaxKills
    /\ kills' = kills + 1
    /\ pc' = [t \in Threads |-> IF ProcOf[t] = p THEN "idle" ELSE pc[t]]
    /\ job' = [t \in Threads |-> IF ProcOf[t] = p THEN NoJob ELSE job[t]]
    /\ last' = [t \in Threads |-> IF ProcOf[t] = p THEN 0 ELSE last[t]]
    /\ pclock' = [pclock EXCEPT ![p] = NoThread]
    /\ UNCHANGED <<pcf, disk, now>>

Step(t) ==
    \/ Lookup(t) \/ Name(t) \/ Fetch(t) \/ Lock(t) \/ Open(t) \/ Find(t)
    \/ Copy(t) \/ Rename(t) \/ Remove(t) \/ Unlock(t)

\* The bound on the clock is reached and every call has returned.
Rest ==
    /\ now = MaxSec /\ \A t \in Threads : At(t, {"idle"})
    /\ UNCHANGED vars

Next ==
    \/ Tick
    \/ \E t \in Threads : Begin(t) \/ Step(t)
    \/ \E p \in Procs : Kill(p)
    \/ Rest

Spec == Init /\ [][Next]_vars

----------------------------------------------------------------------------
(* Properties                                                              *)

Where == {"idle", "lookup", "name", "fetch", "lock", "open", "find", "copy",
          "rename", "remove", "unlock"}

\* Types of the files, the locks and the threads.
TypeOK ==
    /\ pcf \in Tables \cup {Cut}
    /\ disk \in [Procs -> Tables \cup {Cut, NoFile}]
    /\ pclock \in [Procs -> Threads \cup {NoThread}]
    /\ pc \in [Threads -> Where]
    /\ last \in [Threads -> 0..MaxSec] /\ now \in 1..MaxSec
    /\ kills \in 0..MaxKills

\* The PCF is always a complete file, whoever is killed and whichever
\* processes replace it at once.
FileWhole == pcf # Cut

\* What the tools promise about the table, kept in the PCF.
Table == INSTANCE PCTable WITH table <- pcf, MaxFiles <- 0

\* The threads of one process, killed at any point, leave a PCF that only
\* whole calls have changed: renaming is the one step that changes it, and it
\* installs what the call makes of the table as it is, never as it was.
ImplementsTable == Table!Spec

\* While nobody is changing the PCF no temporary file of the toolkit is left,
\* on any path out of a call, unless a process was killed; what a rename that
\* failed leaves is a whole file, not a half of one.
Changing(t) == pc[t] \in {"open", "find", "copy", "rename", "remove"}
NoTempLeft ==
    kills = 0 =>
        \A p \in Procs : disk[p] # NoFile =>
            \/ \E t \in Threads : ProcOf[t] = p /\ Changing(t)
            \/ "rename" \in Faults /\ disk[p] # Cut
=============================================================================
