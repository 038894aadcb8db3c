------------------------------- MODULE MEMShm -------------------------------
(***************************************************************************)
(* The shared memory tools (PGS_MEM1.c).  A run of a PGE has two segments: *)
(* the system segment, made by PGS_PC_InitCom under the process id of the  *)
(* shell, holds the tables of the toolkit and a record of the user segment;*)
(* the user segment is made by whichever process of the PGE asks first,    *)
(* and the other processes attach to it.  PGS_PC_TermCom removes both.     *)
(*                                                                         *)
(* The calls of one process are serialised by SHMMEMLOCK; those of two     *)
(* processes are not.                                                      *)
(***************************************************************************)
EXTENDS Naturals, FiniteSets

CONSTANTS
    Procs,     \* the processes of the PGE
    TermCom,   \* the process that terminates shared memory
    MaxSegs,   \* bound: how many segments the kernel makes
    Faults     \* what may fail: "shmget", "shmat", "remove" (IPC_RMID), "kill"

ASSUME ShmAssumption ==
    /\ IsFiniteSet(Procs) /\ TermCom \notin Procs
    /\ MaxSegs \in Nat \ {0}
    /\ Faults \subseteq {"shmget", "shmat", "remove", "kill"}

All == Procs \cup {TermCom}
Ids == 1..MaxSegs
NoId == 0

\* Keys of segments; 0 is IPC_PRIVATE.
Keys == {"sys", "user", "private"}

VARIABLES
    segs,     \* the segments of the kernel: their key, and are they removed?
    att,      \* the segments each process has attached
    mem,      \* the user part of the system segment: key, shmid, created
    phase,    \* what the shell runs
    shmOn,    \* MEMFLAG is ShmOn
    failed,   \* the exit status of TermCom is not 0
    pc,       \* where a process is in PGS_MEM_ShmCreate or ShmAttach
    shmid,    \* its local variable
    usr       \* glb_usrAddr: the user segment the process has attached

shmVars == <<segs, att, mem, phase, shmOn, failed, pc, shmid, usr>>

ShmInit ==
    /\ segs = [i \in {} |-> [key |-> "sys", removed |-> FALSE]]
    /\ att = [p \in All |-> {}]
    /\ mem = [key |-> "private", shmid |-> NoId, created |-> FALSE]
    /\ phase = "sysGet"
    /\ shmOn = TRUE /\ failed = FALSE
    /\ pc = [p \in Procs |-> "idle"]
    /\ shmid = [p \in Procs |-> NoId]
    /\ usr = [p \in Procs |-> NoId]

----------------------------------------------------------------------------
(* The kernel                                                              *)

\* shmget finds no segment that is removed or has the key IPC_PRIVATE.
WithKey(k) == {i \in DOMAIN segs : k # "private" /\ segs[i].key = k /\ ~segs[i].removed}

\* shmget with IPC_CREAT gives the segment of the key, or a new one.
Shmget(k, id) ==
    IF WithKey(k) # {}
    THEN id \in WithKey(k) /\ UNCHANGED segs
    ELSE /\ id \in Ids \ DOMAIN segs
         /\ segs' = [i \in DOMAIN segs \cup {id} |->
                        IF i = id THEN [key |-> k, removed |-> FALSE] ELSE segs[i]]

\* A removed segment goes when no process has it attached.
Present(s, a) == {i \in DOMAIN s : s[i].removed => \E p \in All : i \in a[p]}
Kernel(s, a) == att' = a /\ segs' = [i \in Present(s, a) |-> s[i]]

Rmid(id) == Kernel([segs EXCEPT ![id].removed = TRUE], att)

----------------------------------------------------------------------------
(* PGS_MEM_ShmSysInit, called by PGS_PC_InitCom                            *)

\* The shell goes on without shared memory, with the PGE or straight to
\* TermCom, as the init string says.
WithoutShm == shmOn' = FALSE /\ phase' \in {"pge", "term"}

SysGet ==
    /\ phase = "sysGet"
    /\ \/ \E id \in Ids : Shmget("sys", id) /\ phase' = "sysAttach" /\ UNCHANGED shmOn
       \/ "shmget" \in Faults /\ WithoutShm /\ UNCHANGED segs
    /\ UNCHANGED <<att, mem, failed, pc, shmid, usr>>

\* InitCom fills the segment and exits; the PGE is skipped where it fails later.
SysAttach ==
    /\ phase = "sysAttach"
    /\ \/ /\ mem' = [key |-> "user", shmid |-> NoId, created |-> FALSE]
          /\ phase' \in {"pge", "term"} /\ UNCHANGED shmOn
       \/ "shmat" \in Faults /\ WithoutShm /\ UNCHANGED mem
    /\ UNCHANGED <<segs, att, failed, pc, shmid, usr>>

----------------------------------------------------------------------------
(* The calls of a process of the PGE                                       *)

\* PGS_MEM_ShmGlbVarUsr attaches the system segment in the first call.
GlbVar(p) ==
    /\ phase = "pge" /\ pc[p] = "idle"
    /\ WithKey("sys") # {}
    /\ att' = [att EXCEPT ![p] = @ \cup WithKey("sys")]

Goes(p, from, to) == pc[p] = from /\ pc' = [pc EXCEPT ![p] = to]

\* PGS_MEM_ShmCreate tests a flag that every process of the PGE can set.
ShmCreate(p) ==
    /\ GlbVar(p)
    /\ Goes(p, "idle", IF mem.created THEN "idle" ELSE "shmget")
    /\ UNCHANGED <<segs, mem, phase, shmOn, failed, shmid, usr>>

OwnKey(p) ==                                       \* mutated UserGet
    /\ Goes(p, "shmget", "shmid")
    /\ \E id \in Ids : Shmget("private", id) /\ shmid' = [shmid EXCEPT ![p] = id]
    /\ UNCHANGED <<att, mem, phase, shmOn, failed, usr>>
\* All processes use one key.
UserGet(p) ==
    /\ \/ /\ Goes(p, "shmget", "shmid")
          /\ \E id \in Ids : Shmget(mem.key, id) /\ shmid' = [shmid EXCEPT ![p] = id]
       \/ /\ Goes(p, "shmget", "idle")
          /\ "shmget" \in Faults /\ UNCHANGED <<segs, shmid>>
    /\ UNCHANGED <<att, mem, phase, shmOn, failed, usr>>

FlagFirst(p) ==                                    \* mutated RecordId
    /\ Goes(p, "shmid", "created")
    /\ mem' = [mem EXCEPT !.created = TRUE]
    /\ UNCHANGED <<segs, att, phase, shmOn, failed, shmid, usr>>
RecordId(p) ==
    /\ Goes(p, "shmid", "created")
    /\ mem' = [mem EXCEPT !.shmid = shmid[p]]
    /\ UNCHANGED <<segs, att, phase, shmOn, failed, shmid, usr>>

RecordCreated(p) ==
    /\ Goes(p, "created", "idle")
    /\ mem' = [mem EXCEPT !.created = TRUE]
    /\ UNCHANGED <<segs, att, phase, shmOn, failed, shmid, usr>>

ShmAttach(p) ==
    /\ GlbVar(p)
    /\ Goes(p, "idle", IF mem.created /\ usr[p] = NoId THEN "shmat" ELSE "idle")
    /\ UNCHANGED <<segs, mem, phase, shmOn, failed, shmid, usr>>

UserAttach(p) ==
    /\ Goes(p, "shmat", "idle")
    /\ \/ /\ mem.shmid \in DOMAIN segs
          /\ att' = [att EXCEPT ![p] = @ \cup {mem.shmid}]
          /\ usr' = [usr EXCEPT ![p] = mem.shmid]
       \/ "shmat" \in Faults /\ UNCHANGED <<att, usr>>
    /\ UNCHANGED <<segs, mem, phase, shmOn, failed, shmid>>

ShmDetach(p) ==
    /\ phase = "pge" /\ pc[p] = "idle" /\ usr[p] # NoId
    /\ Kernel(segs, [att EXCEPT ![p] = @ \ {usr[p]}])
    /\ usr' = [usr EXCEPT ![p] = NoId]
    /\ UNCHANGED <<mem, phase, shmOn, failed, pc, shmid>>

\* A process ends between its calls, or is killed anywhere.
Ends(p) ==
    /\ phase = "pge" /\ pc[p] # "ended"
    /\ pc[p] = "idle" \/ "kill" \in Faults
    /\ pc' = [pc EXCEPT ![p] = "ended"]
    /\ Kernel(segs, [att EXCEPT ![p] = {}])
    /\ usr' = [usr EXCEPT ![p] = NoId]
    /\ UNCHANGED <<mem, phase, shmOn, failed, shmid>>

\* The PGE waits for its processes.
PgeEnds ==
    /\ phase = "pge" /\ \A p \in Procs : pc[p] = "ended"
    /\ phase' = "term"
    /\ UNCHANGED <<segs, att, mem, shmOn, failed, pc, shmid, usr>>

----------------------------------------------------------------------------
(* PGS_MEM_ShmSysTerm, called by PGS_PC_TermCom if the flag is ShmOn       *)

TermAttach ==
    /\ phase = "term"
    /\ \/ /\ shmOn /\ phase' = "rmUser"
          /\ att' = [att EXCEPT ![TermCom] = WithKey("sys")]
          /\ UNCHANGED failed
       \/ shmOn /\ "shmat" \in Faults /\ failed' = TRUE /\ phase' = "exit" /\ UNCHANGED att
       \/ ~shmOn /\ phase' = "exit" /\ UNCHANGED <<att, failed>>
    /\ UNCHANGED <<segs, mem, shmOn, pc, shmid, usr>>

GoesOn ==                                          \* mutated RemoveFails
    /\ "remove" \in Faults
    /\ phase' = "rmSys" /\ UNCHANGED <<segs, att, failed>>
RemoveFails ==
    /\ "remove" \in Faults
    /\ failed' = TRUE /\ phase' = "exit" /\ UNCHANGED <<segs, att>>

\* The system segment is kept if the user segment could not be removed.
RemoveUser ==
    /\ phase = "rmUser"
    /\ \/ /\ mem.created /\ Rmid(mem.shmid)
          /\ phase' = "rmSys" /\ UNCHANGED failed
       \/ mem.created /\ RemoveFails
       \/ ~mem.created /\ phase' = "rmSys" /\ UNCHANGED <<segs, att, failed>>
    /\ UNCHANGED <<mem, shmOn, pc, shmid, usr>>

RemoveSys ==
    /\ phase = "rmSys"
    /\ \/ /\ \E id \in WithKey("sys") : Rmid(id)
          /\ phase' = "exit" /\ UNCHANGED failed
       \/ RemoveFails
    /\ UNCHANGED <<mem, shmOn, pc, shmid, usr>>

TermExit ==
    /\ phase = "exit" /\ phase' = "done"
    /\ Kernel(segs, [att EXCEPT ![TermCom] = {}])
    /\ UNCHANGED <<mem, shmOn, failed, pc, shmid, usr>>

Process(p) ==
    \/ ShmCreate(p) \/ UserGet(p) \/ RecordId(p) \/ RecordCreated(p)
    \/ ShmAttach(p) \/ UserAttach(p)
    \/ ShmDetach(p)
    \/ Ends(p)

Rest == phase = "done" /\ UNCHANGED shmVars

ShmNext ==
    \/ SysGet \/ SysAttach
    \/ \E p \in Procs : Process(p)
    \/ PgeEnds
    \/ TermAttach \/ RemoveUser \/ RemoveSys \/ TermExit
    \/ Rest

ShmSpec == ShmInit /\ [][ShmNext]_shmVars

----------------------------------------------------------------------------
(* Properties                                                              *)

\* Types of the segments, the processes and the run; a segment that is said
\* to be created has a number.
ShmTypeOK ==
    /\ DOMAIN segs \subseteq Ids
    /\ \A i \in DOMAIN segs : segs[i] \in [key : Keys, removed : BOOLEAN]
    /\ att \in [All -> SUBSET DOMAIN segs]
    /\ mem \in [key : Keys \ {"sys"}, shmid : Ids \cup {NoId}, created : BOOLEAN]
    /\ mem.created => mem.shmid # NoId
    /\ phase \in {"sysGet", "sysAttach", "pge", "term", "rmUser", "rmSys", "exit", "done"}
    /\ shmOn \in BOOLEAN /\ failed \in BOOLEAN
    /\ pc \in [Procs -> {"idle", "shmget", "shmid", "created", "shmat", "ended"}]
    /\ shmid \in [Procs -> Ids \cup {NoId}]
    /\ usr \in [Procs -> Ids \cup {NoId}]

\* Though two processes can both find that there is no user segment and both
\* go on to make it, all that attach share one segment, the one on record.
UserSegmentShared ==
    shmOn => \A p \in Procs : usr[p] # NoId => usr[p] = mem.shmid /\ usr[p] \in att[p]

\* TermCom reports success only when no segment is left that it knows of: all
\* that can be left is a user segment whose maker was killed before it was on
\* record.
NothingLeft ==
    phase = "done" /\ shmOn /\ ~failed =>
        \A i \in DOMAIN segs : segs[i].key = "user" /\ ~mem.created

\* Whatever fails, a user segment that was recorded is left only together with
\* the system segment that has its number.
StillNamed ==
    shmOn /\ mem.created /\ mem.shmid \in DOMAIN segs => WithKey("sys") # {}
=============================================================================
