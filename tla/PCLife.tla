------------------------------- MODULE PCLife -------------------------------
(***************************************************************************)
(* The life of a PGE: PGS_PC_Shell.sh runs PGS_PC_InitCom, the PGE itself  *)
(* and PGS_PC_TermCom one after the other with one process control file.   *)
(* With shared memory the PGE works on a table loaded from the PCF, which  *)
(* TermCom saves back; without it the PGE works on the PCF, and TermCom    *)
(* only deletes the files that are marked.                                 *)
(*                                                                         *)
(* A toolkit call of the PGE is one step here (PCShm and PCAscii have its  *)
(* parts); a step of TermCom is one replacement of the PCF or one file     *)
(* removed.  The shell, and with it the run, may be killed between any two *)
(* steps; the next run starts from the PCF and the files that were left.   *)
(***************************************************************************)
EXTENDS PCRecords, FiniteSets

CONSTANTS
    Ids,       \* logical identifiers
    InterIn,   \* the identifiers the PCF lists as intermediate input
    Spare,     \* how many more records fit in the segment
    MaxNew,    \* bound: how many file names are generated
    Modes,     \* the first fields the init string of each run may have: is
               \* shared memory used?  It bounds how often the shell is started.
    Faults,    \* what may fail: "memory", "load", "log" (in InitCom),
               \* "open" (fopen of a new file), "kill"
    NoTable    \* shared memory has no table

ASSUME LifeAssumption ==
    /\ InterIn \subseteq Ids /\ IsFiniteSet(InterIn)
    /\ Spare \in Nat /\ MaxNew \in Nat
    /\ Modes \in Seq(SUBSET BOOLEAN) /\ Modes # <<>>
    /\ Faults \subseteq {"memory", "load", "log", "open", "kill"}

NewName(n) == <<"new", n>>
Names == {PcfName(id) : id \in InterIn} \cup {NewName(n) : n \in 1..MaxNew}
Rec == [id : Ids, name : Names, flag : Flags]
Tables == [SectionSet -> Seq(Rec)]

ASSUME NoTableAssumption == NoTable \notin Tables

VARIABLES
    pcf,     \* the lines of the process control file
    shm,     \* the table in shared memory
    disk,    \* the intermediate and temporary files that exist
    phase,   \* what is running
    useShm,  \* MEMFLAG is ShmOn and PGSMEM_USESHM is YES
    opening, \* the file PGS_IO_Gen_Temp_Open has made a record of: <<id, name>>
    sec,     \* the section TermCom is at, and
    at,      \* the record of it
    made,    \* how many names were generated
    runs     \* how often the shell was started

vars == <<pcf, shm, disk, phase, useShm, opening, sec, at, made, runs>>

Init ==
    /\ \E l \in Listings(InterIn, Cardinality(InterIn)) : pcf = Loaded(l)
    /\ shm = NoTable
    /\ disk = {PcfName(id) : id \in InterIn}
    /\ phase = "init"
    /\ useShm \in Modes[1]
    /\ opening = <<>>
    /\ sec = 1 /\ at = 1
    /\ made = 0
    /\ runs = 1

----------------------------------------------------------------------------
(* PGS_PC_InitCom, and what the shell makes of its return value            *)

\* PGS_PC_PutDataInArea: a loaded record has no flag, whatever its line had.
InMemory(tab) ==
    [s \in SectionSet |-> [i \in DOMAIN tab[s] |-> [tab[s][i] EXCEPT !.flag = ""]]]

\* The shell runs TermCom whether or not it ran the PGE.
FirstOfTerm == IF useShm' THEN "save" ELSE "temps"

\* The shell carries on according to the second or fourth field of the init
\* string when the memory or the log failed, and skips the PGE otherwise.
InitCom ==
    /\ phase = "init"
    /\ \/ /\ useShm /\ shm' = InMemory(pcf) /\ phase' = "pge"
          /\ UNCHANGED useShm
       \/ /\ ~useShm /\ phase' = "pge"
          /\ UNCHANGED <<shm, useShm>>
       \/ /\ "memory" \in Faults /\ useShm
          /\ useShm' = FALSE /\ phase' \in {"pge", FirstOfTerm}
          /\ UNCHANGED shm
       \/ /\ "load" \in Faults /\ useShm
          /\ UNCHANGED <<shm, useShm>> /\ phase' = FirstOfTerm
       \/ /\ "log" \in Faults
          /\ UNCHANGED useShm
          /\ shm' = IF useShm THEN InMemory(pcf) ELSE shm
          /\ phase' = FirstOfTerm
    /\ UNCHANGED <<pcf, disk, opening, sec, at, made, runs>>

----------------------------------------------------------------------------
(* The calls of the PGE                                                    *)

\* The table a call works on.
Table == IF useShm THEN shm ELSE pcf
SetTable(tab) ==
    IF useShm THEN shm' = tab /\ UNCHANGED pcf ELSE pcf' = tab /\ UNCHANGED shm

Put(tab, s, id, name) ==
    LET new == [id |-> id, name |-> name, flag |-> ""]
        i   == First(Live(tab[s], id))
    IN  IF i = 0 THEN [tab EXCEPT ![s] = Append(@, new)]
                 ELSE [tab EXCEPT ![s][i] = new]

\* How many records the segment has for files the PGE makes.
Size(tab) == Len(tab["interOut"]) + Len(tab["temp"])

RoomForOneMore == useShm => Size(shm) <= Size(pcf) + Spare    \* mutated HasRoom
HasRoom == useShm => Size(shm) < Size(pcf) + Spare

\* A record inserted in front of others is not kept as it should be (the
\* finding of PCShm); here intermediate files are made before temporary ones.
InsertsAtEnd(s) == useShm /\ s = "interOut" => shm["temp"] = <<>>

\* PGS_IO_Gen_Temp_Open of a file that none of the sections has: the record
\* is made first, then the file.
Create(s, id) ==
    /\ phase = "pge" /\ opening = <<>>
    /\ \A t \in SectionSet : Live(Table[t], id) = {}
    /\ made < MaxNew /\ HasRoom /\ InsertsAtEnd(s)
    /\ made' = made + 1
    /\ SetTable(Put(Table, s, id, NewName(made + 1)))
    /\ opening' = <<id, NewName(made + 1)>>
    /\ UNCHANGED <<disk, phase, useShm, sec, at, runs>>

Open ==
    /\ opening # <<>>
    /\ disk' = disk \cup {opening[2]}
    /\ opening' = <<>>
    /\ UNCHANGED <<pcf, shm, phase, useShm, sec, at, made, runs>>

DeleteMark(r) == [r EXCEPT !.flag = IF @ = "R" THEN "B" ELSE "D"]

\* PGS_IO_Gen_Temp_Delete marks the record and leaves the file; it looks at
\* the temporary section only.
Drop(tab, id) ==
    LET i == First(Live(tab["temp"], id))
    IN  IF i = 0 THEN tab ELSE [tab EXCEPT !["temp"][i] = DeleteMark(@)]

\* fopen fails: the new record is given to PGS_IO_Gen_Temp_Delete.
OpenFails ==
    /\ "open" \in Faults /\ opening # <<>>
    /\ SetTable(Drop(Table, opening[1]))
    /\ opening' = <<>>
    /\ UNCHANGED <<disk, phase, useShm, sec, at, made, runs>>

Delete(id) ==
    /\ phase = "pge" /\ opening = <<>>
    /\ Live(Table["temp"], id) # {}
    /\ SetTable(Drop(Table, id))
    /\ UNCHANGED <<disk, phase, useShm, opening, sec, at, made, runs>>

AlwaysRuntime(r) == [r EXCEPT !.flag = "R"]        \* mutated Runtime
Runtime(r) == [r EXCEPT !.flag = IF @ \in {"D", "B"} THEN "B" ELSE "R"]

\* PGS_PC_MultiRuntimes marks the live file of the identifier.
Mark(s, id) ==
    /\ phase = "pge" /\ opening = <<>>
    /\ LET i == First(Live(Table[s], id))
       IN  i # 0 /\ SetTable([Table EXCEPT ![s][i] = Runtime(@)])
    /\ UNCHANGED <<disk, phase, useShm, opening, sec, at, made, runs>>

\* The PGE ends, in whatever way: also between the record of a new file and
\* the file.
PgeEnds ==
    /\ phase = "pge"
    /\ opening' = <<>>
    /\ UNCHANGED <<pcf, shm, disk, useShm, sec, at, made, runs>>
    /\ phase' = FirstOfTerm

----------------------------------------------------------------------------
(* PGS_PC_TermCom with shared memory: PGS_PC_SavePCSData for the files the *)
(* PGE may have made, then PGS_PC_UpdateRuntimeFiles for every section     *)

SavedSections == <<"interOut", "temp">>

\* The loop is at a record of the section (there is none without a table).
Loops(ph, sections) ==
    /\ phase = ph /\ shm # NoTable /\ sec <= Len(sections)
    /\ at <= Len(shm[sections[sec]])

Advance == at' = at + 1 /\ UNCHANGED sec

\* The end of a section, and after the last one the next phase.
EndOfSection(ph, sections, next) ==
    /\ phase = ph /\ ~Loops(ph, sections)
    /\ at' = 1
    /\ IF sec < Len(sections) THEN sec' = sec + 1 /\ UNCHANGED phase
                              ELSE sec' = 1 /\ phase' = next
    /\ UNCHANGED <<pcf, shm, disk, useShm, opening, made, runs>>

SaveSection == EndOfSection("save", SavedSections, "marks")
MarkSection == EndOfSection("marks", Sections, "done")

\* PGS_PC_GetPCSData, called with the caller identity of the SMF tools,
\* gives the first line of an identifier, marked for deletion or not.
FirstLine(s, id) == First(With(pcf[s], id))

\* A record is put unless the first line of its identifier has its file.
SavePut ==
    /\ Loops("save", SavedSections)
    /\ LET s == SavedSections[sec]
           r == shm[s][at]
           i == FirstLine(s, r.id)
       IN  /\ pcf' = IF i # 0 /\ pcf[s][i].name = r.name THEN pcf
                     ELSE Put(pcf, s, r.id, r.name)
           /\ IF Deleted(r) THEN phase' = "mark" /\ UNCHANGED <<sec, at>>
                            ELSE Advance /\ UNCHANGED phase
    /\ UNCHANGED <<shm, disk, useShm, opening, made, runs>>

AnyLineOf(s, r) == First(With(pcf[s], r.id))       \* mutated LineOf
\* PGS_PC_PutPCSDataMarkAtTerm: the first line of this identifier and file.
LineOf(s, r) == First({i \in With(pcf[s], r.id) : pcf[s][i].name = r.name})

RemoveFirst ==                                     \* mutated SaveMark
    /\ phase = "mark"
    /\ disk' = disk \ {shm[SavedSections[sec]][at].name}
    /\ phase' = "remove"
    /\ UNCHANGED <<pcf, shm, useShm, opening, sec, at, made, runs>>
\* It writes the DELETE flag in place of whatever flag the line has.
SaveMark ==
    /\ phase = "mark"
    /\ LET s == SavedSections[sec]
           i == LineOf(s, shm[s][at])
       IN  pcf' = IF i = 0 THEN pcf ELSE [pcf EXCEPT ![s][i].flag = "D"]
    /\ phase' = "remove"
    /\ UNCHANGED <<shm, disk, useShm, opening, sec, at, made, runs>>

SaveRemove ==
    /\ phase = "remove"
    /\ disk' = disk \ {shm[SavedSections[sec]][at].name}
    /\ phase' = "save" /\ Advance
    /\ UNCHANGED <<pcf, shm, useShm, opening, made, runs>>

\* PGS_PC_MarkRuntimeAscii passes over the lines that have the mark already.
Markable(s, r) ==
    {i \in With(pcf[s], r.id) : pcf[s][i].name = r.name /\ pcf[s][i].flag \in {"", "D"}}

MarkRuntime ==
    /\ Loops("marks", Sections)
    /\ LET s == Sections[sec]
           r == shm[s][at]
           i == First(Markable(s, r))
       IN  pcf' = IF r.flag \in {"R", "B"} /\ i # 0
                  THEN [pcf EXCEPT ![s][i] = Runtime(@)] ELSE pcf
    /\ Advance
    /\ UNCHANGED <<shm, disk, phase, useShm, opening, made, runs>>

----------------------------------------------------------------------------
(* PGS_PC_TermCom without shared memory: PGS_PC_DeleteTemps                *)

OnlyDelete(r) == r.flag = "D"                      \* mutated ToRemove
ToRemove(r) == r.flag \in {"D", "B"}

RemoveTemp ==
    /\ phase = "temps" /\ at <= Len(pcf["temp"])
    /\ disk' = IF ToRemove(pcf["temp"][at]) THEN disk \ {pcf["temp"][at].name} ELSE disk
    /\ Advance
    /\ UNCHANGED <<pcf, shm, phase, useShm, opening, made, runs>>

TempsRemoved ==
    /\ phase = "temps" /\ at > Len(pcf["temp"])
    /\ phase' = "done" /\ at' = 1
    /\ UNCHANGED <<pcf, shm, disk, useShm, opening, sec, made, runs>>

----------------------------------------------------------------------------
(* Runs                                                                    *)

\* The shell is killed with what it runs.  Its segment is not used again:
\* its key is the number of a process.
Killed ==
    /\ "kill" \in Faults /\ phase \notin {"done", "killed"}
    /\ phase' = "killed" /\ opening' = <<>>
    /\ UNCHANGED <<pcf, shm, disk, useShm, sec, at, made, runs>>

NextRun ==
    /\ phase \in {"done", "killed"} /\ runs < Len(Modes)
    /\ runs' = runs + 1
    /\ phase' = "init" /\ shm' = NoTable /\ useShm' \in Modes[runs + 1]
    /\ sec' = 1 /\ at' = 1
    /\ UNCHANGED <<pcf, disk, opening, made>>

\* The bound on the runs is reached.
Rest ==
    /\ phase \in {"done", "killed"} /\ runs = Len(Modes)
    /\ UNCHANGED vars

Pge ==
    \/ \E s \in {"interOut", "temp"}, id \in Ids : Create(s, id)
    \/ Open \/ OpenFails
    \/ \E id \in Ids : Delete(id)
    \/ \E s \in SectionSet, id \in Ids : Mark(s, id)
    \/ PgeEnds

TermCom ==
    \/ SavePut \/ SaveMark \/ SaveRemove \/ SaveSection
    \/ MarkRuntime \/ MarkSection
    \/ RemoveTemp \/ TempsRemoved

Next == InitCom \/ Pge \/ TermCom \/ Killed \/ NextRun \/ Rest

Spec == Init /\ [][Next]_vars

----------------------------------------------------------------------------
(* Properties                                                              *)

\* Types of the PCF, the table, the files and the run.
TypeOK ==
    /\ pcf \in Tables
    /\ shm \in Tables \cup {NoTable}
    /\ phase = "pge" /\ shm # NoTable => Size(shm) <= Size(pcf) + Spare
    /\ disk \subseteq Names
    /\ phase \in {"init", "pge", "save", "mark", "remove", "marks", "temps", "done", "killed"}
    /\ useShm \in BOOLEAN
    /\ opening \in {<<>>} \cup (Ids \X Names)
    /\ sec \in 1..3 /\ at \in Nat \ {0}
    /\ made \in 0..MaxNew /\ runs \in 1..Len(Modes)

\* PGS_PC_SavePCSData and UpdateRuntimeFiles make the PCF match the table:
\* when TermCom is done, every file is in it under its identifier and with
\* its two marks, and nothing else is.
SavedIsTable == phase = "done" /\ shm # NoTable => pcf = shm

\* A temporary file that was deleted is gone from the disk when TermCom is
\* done, with a runtime mark or without, with shared memory or without.
DeletedGone ==
    phase = "done" =>
        \A i \in DOMAIN pcf["temp"] :
            Deleted(pcf["temp"][i]) => pcf["temp"][i].name \notin disk

RemovedIsDeleted ==
    \A f \in disk \ disk' :
        /\ \E i \in DOMAIN pcf["temp"] : pcf["temp"][i].name = f /\ Deleted(pcf["temp"][i])
        /\ \A s \in SectionSet : \A i \in DOMAIN pcf[s] :
               pcf[s][i].name = f => Deleted(pcf[s][i])

\* No file is removed before the PCF says that it is deleted: wherever the run
\* is killed, the PCF lists no file as live that TermCom has removed.
RemovesOnlyDeleted == [][RemovedIsDeleted]_vars

\* The file a search of the PGE finds.
Finds(tab, s, id) ==
    LET i == First(Live(tab[s], id)) IN IF i = 0 THEN <<>> ELSE tab[s][i].name

\* "the PC tools act the same" on the table as on the PCF that it is loaded
\* from: a search finds the same file.  The code breaks this when a second run
\* loads a PCF that has deletions (Modes with shared memory in run 2), as
\* InitCom clears the flags; no run checks it.
LoadedActsTheSame ==
    [][phase = "init" /\ shm' # NoTable =>
           \A s \in SectionSet, id \in Ids : Finds(shm', s, id) = Finds(pcf, s, id)]_vars

\* Nothing else is lost on the way: whatever earlier runs, faults and kills
\* left in the PCF, a search of the loaded table finds another file than one
\* of the PCF only for an identifier that was deleted in that section, the
\* runtime marks of its records being no matter.
LoadedButForDeletions ==
    [][phase = "init" /\ shm' # NoTable =>
           \A s \in SectionSet, id \in Ids :
               Live(pcf[s], id) = With(pcf[s], id) =>
                   Finds(shm', s, id) = Finds(pcf, s, id)]_vars

\* The PCF as a table of the process control tools; it has no size limit.
Saved == INSTANCE PCTable WITH table <- pcf, MaxFiles <- 0

\* Also while TermCom saves, the PCF changes only as the tools may change it:
\* one file is put, deleted or marked at a time, and no mark is lost.
SaveImplementsTable == Saved!Spec
=============================================================================
