--------------------------- MODULE PCAsciiProofs ---------------------------
(***************************************************************************)
(* Proofs about PCAscii.  For any number of processes that replace the PCF *)
(* at once, it is always a complete table and no temporary file is left;   *)
(* with one process, PCAscii implements PCTable.                           *)
(*                                                                         *)
(* Every step but a kill is a step of one thread, so the invariant is what *)
(* holds of each thread by itself (CallOK, CopyOK, FreshOK), and the lemma *)
(* ThreadStep says once and for all what such a step must establish.       *)
(***************************************************************************)
EXTENDS PCAscii, PCRecordsProofs, FiniteSetTheorems, TLAPS

Region == {"open", "find", "copy", "rename", "remove", "unlock"}
ChangingAt == Region \ {"unlock"}
JobType == [op : Ops \cup {NoJob.op}, sec : 1..3,
            name : Names \cup {Cut, <<>>}, src : Tables \cup {NoFile}]

(* A thread at w has the call j that belongs there. *)
CallOK(w, j) ==
    /\ w # "idle" => j.op \in Ops
    /\ w = "lookup" => j.op.kind # "delete"
    /\ w = "name" => j.op.kind = "create"
    /\ w = "fetch" => j.op.kind = "mark"
    /\ w \in Region \cup {"lock"} =>
          j.op.kind # "read" /\ (j.op.kind = "create" => j.name \in Names)
    /\ w = "find" => j.op.kind = "delete"

(* Its temporary file has the content d that belongs there: nothing that    *)
(* could be taken for a file until the changed copy is complete.            *)
CopyOK(w, j, d) ==
    /\ w \in {"find", "copy", "rename"} => j.src \in Tables
    /\ w \in {"find", "copy"} => d = Cut
    /\ w = "rename" =>
          /\ HasLine(j)
          /\ d = Changed(j) \/ (d = Cut /\ "disk" \in Faults)

(* The copy was made of the PCF as it is. *)
OneProc == \A p, q \in Procs : p = q
FreshOK(w, j, f) == OneProc /\ w \in {"find", "copy", "rename"} => j.src = f

HeldOK == ThreadSafe => \A t \in Threads : pc[t] \in Region => pclock[ProcOf[t]] = t
Whole == "disk" \notin Faults => FileWhole
NoneLeft == "rename" \notin Faults => NoTempLeft

IInv ==
    /\ TypeOK
    /\ job \in [Threads -> JobType]
    /\ HeldOK
    /\ \A t \in Threads :
          /\ CallOK(pc[t], job[t])
          /\ CopyOK(pc[t], job[t], disk[ProcOf[t]])
          /\ FreshOK(pc[t], job[t], pcf)
    /\ Whole
    /\ NoneLeft

----------------------------------------------------------------------------
(* No two threads of a process are in the region PCLOCK protects. *)
LEMMA Exclusive ==
    ASSUME IInv, NEW t \in Threads, NEW u \in Threads,
           pc[t] \in Region, pc[u] \in Region, ProcOf[t] = ProcOf[u]
    PROVE  t = u
BY BuildAssumption DEF IInv, HeldOK

LEMMA SectionOfIndex == \A n \in 1..3 : Sections[n] \in SectionSet
BY DEF Sections, SectionSet

(* What a step of thread t that takes it to w with the call j must          *)
(* establish for the invariant to hold after it.                            *)
LEMMA ThreadStep ==
    ASSUME IInv, NEW t \in Threads, NEW w \in Where, NEW j \in JobType,
           pc' = [pc EXCEPT ![t] = w], job' = [job EXCEPT ![t] = j],
           \/ pclock' = pclock /\ (w \in Region => pc[t] \in Region)
           \/ ThreadSafe /\ pclock[ProcOf[t]] = NoThread
              /\ pclock' = [pclock EXCEPT ![ProcOf[t]] = t]
           \/ ~ThreadSafe /\ pclock' = pclock
           \/ /\ pc[t] = "unlock" /\ w \notin Region
              /\ pclock' = [pclock EXCEPT ![ProcOf[t]] = NoThread],
           pcf' \in Tables \cup {Cut},
           pcf' = pcf \/ pc[t] \in Region,
           "disk" \notin Faults => pcf' # Cut,
           NEW d \in Tables \cup {Cut, NoFile},
           disk' = [disk EXCEPT ![ProcOf[t]] = d],
           d = disk[ProcOf[t]] \/ pc[t] \in Region,
           CallOK(w, j), CopyOK(w, j, d), FreshOK(w, j, pcf'),
           \/ "rename" \in Faults
           \/ d # NoFile => w \in ChangingAt
           \/ d = disk[ProcOf[t]] /\ pc[t] \notin ChangingAt,
           last' \in [Threads -> 0..MaxSec], now' = now, kills' = kills
    PROVE  IInv'
<1>1. /\ TypeOK /\ job \in [Threads -> JobType] /\ HeldOK /\ Whole /\ NoneLeft
      /\ \A u \in Threads : /\ CallOK(pc[u], job[u])
                            /\ CopyOK(pc[u], job[u], disk[ProcOf[u]])
                            /\ FreshOK(pc[u], job[u], pcf)
  BY DEF IInv
<1>2. ProcOf \in [Threads -> Procs] /\ NoThread \notin Threads
  BY ProcOfAssumption, IdAssumption
<1>3. \A u \in Threads : u # t => pc'[u] = pc[u] /\ job'[u] = job[u]
  BY <1>1 DEF TypeOK
<1>4. pc'[t] = w /\ job'[t] = j
  BY <1>1 DEF TypeOK
<1>5. /\ disk'[ProcOf[t]] = d
      /\ \A p \in Procs : p # ProcOf[t] => disk'[p] = disk[p]
  BY <1>1, <1>2 DEF TypeOK
<1>6. TypeOK'
  BY <1>1, <1>2 DEF TypeOK
<1>7. job' \in [Threads -> JobType]
  BY <1>1
<1>8. HeldOK'
  <2> SUFFICES ASSUME ThreadSafe, NEW u \in Threads, pc'[u] \in Region
               PROVE  pclock'[ProcOf[u]] = u
    BY DEF HeldOK
  <2>1. CASE u = t
    BY <1>1, <1>2, <1>4, <2>1 DEF TypeOK, HeldOK
  <2>2. CASE u # t
    <3>1. pc[u] \in Region /\ pclock[ProcOf[u]] = u
      BY <1>1, <1>3, <2>2 DEF HeldOK
    <3>2. pc[t] = "unlock" => ProcOf[u] # ProcOf[t]
      BY <3>1, <2>2, Exclusive DEF Region
    <3> QED BY <1>1, <1>2, <2>2, <3>1, <3>2 DEF TypeOK
  <2> QED BY <2>1, <2>2
<1>9. ASSUME NEW u \in Threads
      PROVE  /\ CallOK(pc'[u], job'[u])
             /\ CopyOK(pc'[u], job'[u], disk'[ProcOf[u]])
             /\ FreshOK(pc'[u], job'[u], pcf')
  <2>1. CASE u = t
    BY <1>4, <1>5, <2>1
  <2>2. CASE u # t
    <3>1. CallOK(pc'[u], job'[u])
      BY <1>1, <1>3, <2>2
    <3>2. CASE pc[u] \notin Region
      <4>1. pc'[u] \notin {"find", "copy", "rename"}
        BY <1>3, <2>2, <3>2 DEF Region
      <4> QED BY <3>1, <4>1 DEF CopyOK, FreshOK
    <3>3. CASE pc[u] \in Region
      <4>1. ProcOf[u] = ProcOf[t] => pc[t] \notin Region
        BY <2>2, <3>3, Exclusive
      <4>2. disk'[ProcOf[u]] = disk[ProcOf[u]]
        BY <1>2, <1>5, <4>1
      <4>3. OneProc => pcf' = pcf
        BY <1>2, <4>1 DEF OneProc
      <4> QED BY <1>1, <1>3, <2>2, <3>1, <4>2, <4>3 DEF FreshOK
    <3> QED BY <3>2, <3>3
  <2> QED BY <2>1, <2>2
<1>10. Whole'
  BY DEF Whole, FileWhole
<1>11. NoneLeft'
  <2> SUFFICES ASSUME "rename" \notin Faults, kills = 0, NEW p \in Procs,
                      disk'[p] # NoFile
               PROVE  \E u \in Threads : ProcOf[u] = p /\ pc'[u] \in ChangingAt
    BY DEF NoneLeft, NoTempLeft, Changing, ChangingAt, Region
  <2>1. disk[p] # NoFile =>
            \E u \in Threads : ProcOf[u] = p /\ pc[u] \in ChangingAt
    BY <1>1 DEF NoneLeft, NoTempLeft, Changing, ChangingAt, Region
  <2>2. CASE p = ProcOf[t]
    BY <1>3, <1>4, <1>5, <2>1, <2>2
  <2>3. CASE p # ProcOf[t]
    BY <1>3, <1>5, <2>1, <2>3
  <2> QED BY <2>2, <2>3
<1> QED BY <1>6, <1>7, <1>8, <1>9, <1>10, <1>11 DEF IInv

----------------------------------------------------------------------------
(* Changing a line leaves a table a table.                                  *)
LEMMA CutAtType ==
    ASSUME NEW r \in Rec, NEW letter PROVE CutAt(r, letter) \in Rec
BY DEF CutAt, Rec

LEMMA FlagTypes ==
    ASSUME NEW r \in Rec PROVE SkipFlag(r) \in Rec /\ MarkFlag(r) \in Rec
<1>1. \A q \in Rec, f \in Flags : [q EXCEPT !.flag = f] \in Rec
  BY DEF Rec
<1> QED BY <1>1, CutAtType DEF SkipFlag, MarkFlag, Flags

LEMMA MarkableFinds ==
    ASSUME NEW q \in Seq(Rec), NEW id, NEW name, First(Markable(q, id, name)) # 0
    PROVE  LET i == First(Markable(q, id, name))
           IN  i \in DOMAIN q /\ q[i].flag \in {"", "D"}
<1> DEFINE I == Markable(q, id, name)
<1>1. DOMAIN q = 1..Len(q) /\ Len(q) \in Nat
  OBVIOUS
<1>2. \A i \in I : i \in 1..Len(q)
  BY <1>1 DEF Markable, With
<1>3. I \in SUBSET (Nat \ {0})
  BY <1>1, <1>2
<1>4. First(I) \in I
  BY <1>3, FirstFinds
<1> QED BY <1>4 DEF Markable, With

(* The line a call changes is a line of the section, and the one the        *)
(* abstract table changes.                                                  *)
LEMMA LineIsThere ==
    ASSUME NEW j \in JobType, j.src \in Tables, j.op \in Ops, j.op.kind # "read",
           Line(j) # 0
    PROVE  /\ AreaOf(j) \in SectionSet
           /\ Line(j) \in DOMAIN j.src[AreaOf(j)]
           /\ j.op.kind = "mark" =>
                  j.src[AreaOf(j)][Line(j)].flag \in {"", "D"}
<1>1. /\ j.op.kind \in {"create", "delete", "mark"}
      /\ j.op.sec \in {"interOut", "temp"}
  BY OpsAssumption
<1>2. \A s \in SectionSet : j.src[s] \in Seq(Rec)
  BY DEF Tables
<1>3. CASE j.op.kind = "mark"
  <2> DEFINE q == j.src[Sections[j.sec]]
  <2>1. AreaOf(j) = Sections[j.sec] /\ Sections[j.sec] \in SectionSet
    BY <1>3, SectionOfIndex DEF AreaOf, JobType
  <2>2. Line(j) = First(Markable(q, j.op.id, j.name))
    BY <1>3 DEF Line
  <2>3. q \in Seq(Rec)
    BY <1>2, <2>1
  <2> HIDE DEF q
  <2>4. Line(j) \in DOMAIN q /\ q[Line(j)].flag \in {"", "D"}
    BY <2>2, <2>3, MarkableFinds
  <2> QED BY <1>3, <2>1, <2>4 DEF q
<1>4. CASE j.op.kind = "delete"
  <2>1. AreaOf(j) = "temp" /\ Line(j) = First(Live(j.src["temp"], j.op.id))
    BY <1>4 DEF AreaOf, Line
  <2> QED BY <1>2, <1>4, <2>1, SearchFinds DEF SectionSet
<1>5. CASE j.op.kind = "create"
  <2>1. AreaOf(j) = j.op.sec /\ Line(j) = First(Live(j.src[j.op.sec], j.op.id))
    BY <1>5 DEF AreaOf, Line
  <2> QED BY <1>1, <1>2, <1>5, <2>1, SearchFinds DEF SectionSet
<1> QED BY <1>1, <1>3, <1>4, <1>5

LEMMA ChangedType ==
    ASSUME NEW j \in JobType, j.src \in Tables, j.op \in Ops, j.op.kind # "read",
           j.op.kind = "create" => j.name \in Names, HasLine(j)
    PROVE  Changed(j) \in Tables
<1> DEFINE a == AreaOf(j)
           s == j.src[a]
           i == Line(j)
           new == [id |-> j.op.id, name |-> j.name, flag |-> ""]
<1>1. /\ j.op.kind \in {"create", "delete", "mark"}
      /\ j.op.sec \in {"interOut", "temp"} /\ j.op.id \in Ids
  BY OpsAssumption
<1>2. a \in SectionSet
  BY <1>1, SectionOfIndex DEF AreaOf, JobType, SectionSet
<1>3. s \in Seq(Rec)
  BY <1>2 DEF Tables
<1>4. i # 0 => i \in DOMAIN s
  BY LineIsThere
<1>5. NewArea(j) \in Seq(Rec)
  <2>1. CASE j.op.kind = "create"
    <3>1. new \in Rec
      BY <1>1, <2>1, SMT DEF Rec, Flags
    <3>2. NewArea(j) = IF i = 0 THEN Append(s, new) ELSE [s EXCEPT ![i] = new]
      BY <2>1 DEF NewArea
    <3> HIDE DEF s, i, new
    <3> QED BY <1>3, <1>4, <3>1, <3>2
  <2>2. CASE j.op.kind = "delete"
    <3>1. i \in DOMAIN s
      BY <1>4, <2>2 DEF HasLine
    <3>2. NewArea(j) = [s EXCEPT ![i] = SkipFlag(s[i])]
      BY <2>2 DEF NewArea
    <3> HIDE DEF s, i
    <3> QED BY <1>3, <3>1, <3>2, FlagTypes
  <2>3. CASE j.op.kind = "mark"
    <3>1. i \in DOMAIN s
      BY <1>4, <2>3 DEF HasLine
    <3>2. NewArea(j) = [s EXCEPT ![i] = MarkFlag(s[i])]
      BY <2>3 DEF NewArea
    <3> HIDE DEF s, i
    <3> QED BY <1>3, <3>1, <3>2, FlagTypes
  <2> QED BY <1>1, <2>1, <2>2, <2>3
<1> QED BY <1>2, <1>5 DEF Changed, Tables

----------------------------------------------------------------------------
(* The steps of a thread.                                                   *)
LEMMA Before ==
    ASSUME IInv, NEW t \in Threads
    PROVE  /\ job = [job EXCEPT ![t] = job[t]] /\ job[t] \in JobType
           /\ disk = [disk EXCEPT ![ProcOf[t]] = disk[ProcOf[t]]]
           /\ disk[ProcOf[t]] \in Tables \cup {Cut, NoFile}
           /\ CallOK(pc[t], job[t]) /\ CopyOK(pc[t], job[t], disk[ProcOf[t]])
           /\ FreshOK(pc[t], job[t], pcf)
           /\ pcf \in Tables \cup {Cut} /\ last \in [Threads -> 0..MaxSec]
           /\ "disk" \notin Faults => pcf # Cut
           /\ now \in 1..MaxSec /\ NoJob \in JobType
<1>1. /\ job \in [Threads -> JobType] /\ TypeOK /\ Whole
      /\ ProcOf[t] \in Procs
  BY ProcOfAssumption DEF IInv
<1>2. NoJob \in JobType
  <2>1. NoJob.op \in Ops \cup {NoJob.op}
    OBVIOUS
  <2> QED BY <2>1 DEF NoJob, JobType
<1> QED BY <1>1, <1>2 DEF IInv, TypeOK, Whole, FileWhole

(* A step outside the region that changes only the call and the place.      *)
LEMMA Outside ==
    ASSUME IInv, NEW t \in Threads, NEW w \in {"idle", "lookup", "name", "fetch", "lock"},
           NEW j \in JobType, CallOK(w, j), pc[t] \notin Region,
           pc' = [pc EXCEPT ![t] = w], job' = [job EXCEPT ![t] = j],
           UNCHANGED <<pcf, disk, pclock, now, kills>>,
           last' \in [Threads -> 0..MaxSec]
    PROVE  IInv'
<1>1. w \in Where /\ w \notin Region /\ pc[t] \notin ChangingAt
  BY DEF Where, Region, ChangingAt
<1>2. CopyOK(w, j, disk[ProcOf[t]]) /\ FreshOK(w, j, pcf')
  BY DEF CopyOK, FreshOK
<1> QED BY <1>1, <1>2, Before, ThreadStep, ZenonT(60)

LEMMA BeginKeeps ==
    ASSUME IInv, NEW t \in Threads, Begin(t) PROVE IInv'
<1>1. PICK op \in Ops :
        /\ job' = [job EXCEPT ![t] = [NoJob EXCEPT !.op = op]]
        /\ pc' = [pc EXCEPT ![t] = IF op.kind = "delete" THEN "lock" ELSE "lookup"]
  BY DEF Begin, Goto
<1> DEFINE j == [NoJob EXCEPT !.op = op]
           w == IF op.kind = "delete" THEN "lock" ELSE "lookup"
<1>2. pc[t] = "idle" /\ UNCHANGED <<pcf, disk, pclock, last, now, kills>>
  BY DEF Begin, At
<1>3. j \in JobType /\ j.op = op /\ w \in {"lock", "lookup"}
  BY DEF NoJob, JobType
<1>4. CallOK(w, j)
  BY <1>3 DEF CallOK, Region
<1>5. pc[t] \notin Region /\ last' \in [Threads -> 0..MaxSec]
  BY <1>2, Before DEF Region
<1>6. job' = [job EXCEPT ![t] = j] /\ pc' = [pc EXCEPT ![t] = w]
  BY <1>1
<1> HIDE DEF j, w
<1> QED BY <1>2, <1>3, <1>4, <1>5, <1>6, Outside

LEMMA LookupKeeps ==
    ASSUME IInv, NEW t \in Threads, Lookup(t) PROVE IInv'
<1>1. /\ pc[t] = "lookup" /\ CallOK("lookup", job[t])
      /\ UNCHANGED <<pcf, disk, pclock, last, now, kills>>
  BY Before DEF Lookup, At
<1>2. /\ pc[t] \notin Region
      /\ job[t].op \in Ops /\ job[t].op.kind # "delete"
  BY <1>1 DEF Region, CallOK
<1>3. CASE pc' = [pc EXCEPT ![t] = "fetch"] /\ UNCHANGED job /\ job[t].op.kind = "mark"
  <2>1. CallOK("fetch", job[t])
    BY <1>2, <1>3 DEF CallOK, Region
  <2> QED BY <1>1, <1>2, <1>3, <2>1, Before, Outside
<1>4. CASE Return(t)
  <2>1. CallOK("idle", NoJob)
    BY DEF CallOK, Region
  <2> QED BY <1>1, <1>2, <1>4, <2>1, Before, Outside DEF Return, Goto
<1>5. CASE /\ job[t].sec < Len(Sections)
           /\ job' = [job EXCEPT ![t].sec = @ + 1] /\ UNCHANGED pc
  <2> DEFINE j == [job[t] EXCEPT !.sec = @ + 1]
  <2>1. Len(Sections) = 3
    BY DEF Sections
  <2>2. j \in JobType /\ j.op = job[t].op
    BY <1>5, <2>1, Before DEF JobType
  <2>3. CallOK("lookup", j)
    BY <1>2, <2>2 DEF CallOK, Region
  <2>4. job' = [job EXCEPT ![t] = j] /\ pc' = [pc EXCEPT ![t] = "lookup"]
    BY <1>1, <1>5 DEF IInv, TypeOK
  <2> HIDE DEF j
  <2> QED BY <1>1, <1>2, <2>2, <2>3, <2>4, Before, Outside
<1>6. CASE pc' = [pc EXCEPT ![t] = "name"] /\ UNCHANGED job /\ job[t].op.kind = "create"
  <2>1. CallOK("name", job[t])
    BY <1>2, <1>6 DEF CallOK, Region
  <2> QED BY <1>1, <1>2, <1>6, <2>1, Before, Outside
<1> QED BY <1>3, <1>4, <1>5, <1>6 DEF Lookup, Goto

LEMMA NameKeeps ==
    ASSUME IInv, NEW t \in Threads, Name(t) PROVE IInv'
<1> DEFINE j == [job[t] EXCEPT !.name = <<ProcOf[t], now>>]
<1>1. /\ pc[t] = "name" /\ CallOK("name", job[t])
      /\ UNCHANGED <<pcf, disk, pclock, now, kills>>
      /\ last' = [last EXCEPT ![t] = now]
      /\ job' = [job EXCEPT ![t] = j]
      /\ pc' = [pc EXCEPT ![t] = "lock"]
  BY Before DEF Name, At, Goto
<1>2. <<ProcOf[t], now>> \in Names
  BY Before, ProcOfAssumption DEF Names
<1>3. j \in JobType /\ j.op = job[t].op /\ j.name \in Names
  BY <1>2, Before DEF JobType
<1>4. CallOK("lock", j)
  BY <1>1, <1>3 DEF CallOK, Region
<1>5. pc[t] \notin Region /\ last' \in [Threads -> 0..MaxSec]
  BY <1>1, Before, BoundAssumption DEF Region
<1> HIDE DEF j
<1> QED BY <1>1, <1>3, <1>4, <1>5, Outside

LEMMA FetchKeeps ==
    ASSUME IInv, NEW t \in Threads, Fetch(t) PROVE IInv'
<1> DEFINE sec == Sections[job[t].sec]
           i   == Search(pcf, sec, job[t].op.id)
           j   == [job[t] EXCEPT !.name = pcf[sec][i].name]
<1>1. /\ pc[t] = "fetch" /\ CallOK("fetch", job[t]) /\ pcf \in Tables
      /\ UNCHANGED <<pcf, disk, pclock, last, now, kills>>
      /\ \/ /\ i # 0 /\ job' = [job EXCEPT ![t] = j]
            /\ pc' = [pc EXCEPT ![t] = "lock"]
         \/ Return(t)
  BY Before DEF Fetch, At, Goto
<1>2. pc[t] \notin Region
  BY <1>1 DEF Region
<1>3. CASE Return(t)
  <2>1. CallOK("idle", NoJob)
    BY DEF CallOK, Region
  <2> QED BY <1>1, <1>2, <1>3, <2>1, Before, Outside DEF Return, Goto
<1>4. CASE i # 0 /\ job' = [job EXCEPT ![t] = j] /\ pc' = [pc EXCEPT ![t] = "lock"]
  <2>1. sec \in SectionSet
    BY Before, SectionOfIndex DEF JobType
  <2>2. pcf[sec] \in Seq(Rec)
    BY <1>1, <2>1 DEF Tables
  <2>3. i \in DOMAIN pcf[sec]
    BY <1>4, <2>2, SearchFinds DEF Search
  <2>4. pcf[sec][i] \in Rec
    BY <2>2, <2>3
  <2>5. pcf[sec][i].name \in Names \cup {Cut}
    BY <2>4 DEF Rec
  <2> HIDE DEF sec, i
  <2>6. j \in JobType /\ j.op = job[t].op
    BY <2>5, Before DEF JobType
  <2>7. CallOK("lock", j)
    BY <1>1, <2>6 DEF CallOK, Region
  <2> HIDE DEF j
  <2> QED BY <1>1, <1>2, <1>4, <2>6, <2>7, Before, Outside
<1> QED BY <1>1, <1>3, <1>4

LEMMA LockKeeps ==
    ASSUME IInv, NEW t \in Threads, Lock(t) PROVE IInv'
<1>1. /\ pc[t] = "lock" /\ CallOK("lock", job[t])
      /\ UNCHANGED <<pcf, disk, job, last, now, kills>>
      /\ pc' = [pc EXCEPT ![t] = "open"]
      /\ \/ ThreadSafe /\ pclock[ProcOf[t]] = NoThread
            /\ pclock' = [pclock EXCEPT ![ProcOf[t]] = t]
         \/ ~ThreadSafe /\ pclock' = pclock
  BY Before DEF Lock, At, Goto
<1>2. CallOK("open", job[t])
  BY <1>1 DEF CallOK, Region
<1>3. CopyOK("open", job[t], disk[ProcOf[t]]) /\ FreshOK("open", job[t], pcf')
  BY DEF CopyOK, FreshOK
<1>4. "open" \in Where /\ "open" \in Region /\ "open" \in ChangingAt
  BY <1>1 DEF Where, Region, ChangingAt
<1>5. /\ job' = [job EXCEPT ![t] = job[t]] /\ job[t] \in JobType
      /\ disk' = [disk EXCEPT ![ProcOf[t]] = disk[ProcOf[t]]]
      /\ disk[ProcOf[t]] \in Tables \cup {Cut, NoFile}
      /\ pcf' \in Tables \cup {Cut} /\ ("disk" \notin Faults => pcf' # Cut)
      /\ pcf' = pcf /\ last' \in [Threads -> 0..MaxSec]
      /\ now' = now /\ kills' = kills
  BY <1>1, Before
<1> QED BY <1>1, <1>2, <1>3, <1>4, <1>5, ThreadStep

(* A step inside the region that leaves the PCF alone.                      *)
LEMMA Inside ==
    ASSUME IInv, NEW t \in Threads, NEW w \in Region, NEW j \in JobType,
           NEW d \in Tables \cup {Cut, NoFile},
           pc[t] \in Region, d # NoFile => w \in ChangingAt,
           CallOK(w, j), CopyOK(w, j, d), FreshOK(w, j, pcf),
           pc' = [pc EXCEPT ![t] = w], job' = [job EXCEPT ![t] = j],
           disk' = [disk EXCEPT ![ProcOf[t]] = d],
           UNCHANGED <<pcf, pclock, last, now, kills>>
    PROVE  IInv'
<1>1. w \in Where
  BY DEF Where, Region
<1> QED BY <1>1, Before, ThreadStep

LEMMA OpenKeeps ==
    ASSUME IInv, NEW t \in Threads, Open(t) PROVE IInv'
<1> DEFINE j == [job[t] EXCEPT !.src = pcf]
           w == IF job[t].op.kind = "delete" THEN "find" ELSE "copy"
<1>1. /\ pc[t] = "open" /\ CallOK("open", job[t]) /\ pcf \in Tables
      /\ UNCHANGED <<pcf, pclock, last, now, kills>>
      /\ job' = [job EXCEPT ![t] = j]
      /\ \/ /\ disk' = [disk EXCEPT ![ProcOf[t]] = Cut]
            /\ pc' = [pc EXCEPT ![t] = w]
         \/ pc' = [pc EXCEPT ![t] = "remove"] /\ UNCHANGED disk
  BY Before DEF Open, At, Goto, TempFile
<1>2. j \in JobType /\ j.op = job[t].op /\ j.name = job[t].name /\ j.src = pcf
  BY <1>1, Before DEF JobType
<1>3. "open" \in Region /\ "remove" \in ChangingAt /\ w \in ChangingAt /\ w \in Region
      /\ "remove" \in Region
  BY DEF Region, ChangingAt
<1>4. CallOK(w, j) /\ CallOK("remove", j)
  BY <1>1, <1>2 DEF CallOK, Region
<1>5. CopyOK(w, j, Cut) /\ FreshOK(w, j, pcf)
      /\ CopyOK("remove", j, disk[ProcOf[t]]) /\ FreshOK("remove", j, pcf)
  BY <1>1, <1>2 DEF CopyOK, FreshOK
<1> HIDE DEF j, w
<1>6. disk = [disk EXCEPT ![ProcOf[t]] = disk[ProcOf[t]]]
      /\ disk[ProcOf[t]] \in Tables \cup {Cut, NoFile}
  BY Before
<1>7. CASE disk' = [disk EXCEPT ![ProcOf[t]] = Cut] /\ pc' = [pc EXCEPT ![t] = w]
  BY <1>1, <1>2, <1>3, <1>4, <1>5, <1>7, Inside
<1>8. CASE pc' = [pc EXCEPT ![t] = "remove"] /\ UNCHANGED disk
  BY <1>1, <1>2, <1>3, <1>4, <1>5, <1>6, <1>8, Inside
<1> QED BY <1>1, <1>7, <1>8

LEMMA FindKeeps ==
    ASSUME IInv, NEW t \in Threads, Find(t) PROVE IInv'
<1>1. /\ pc[t] = "find" /\ CallOK("find", job[t])
      /\ CopyOK("find", job[t], disk[ProcOf[t]]) /\ FreshOK("find", job[t], pcf)
      /\ UNCHANGED <<pcf, disk, pclock, job, last, now, kills>>
      /\ pc' = [pc EXCEPT ![t] = "copy"] \/ pc' = [pc EXCEPT ![t] = "remove"]
  BY Before DEF Find, At, Goto
<1>2. CallOK("copy", job[t]) /\ CallOK("remove", job[t])
  BY <1>1 DEF CallOK, Region
<1>3. /\ CopyOK("copy", job[t], disk[ProcOf[t]]) /\ FreshOK("copy", job[t], pcf)
      /\ CopyOK("remove", job[t], disk[ProcOf[t]]) /\ FreshOK("remove", job[t], pcf)
  BY <1>1 DEF CopyOK, FreshOK
<1>4. {"find", "copy", "remove"} \subseteq ChangingAt /\ ChangingAt \subseteq Region
  BY DEF Region, ChangingAt
<1> QED BY <1>1, <1>2, <1>3, <1>4, Before, Inside

LEMMA CopyKeeps ==
    ASSUME IInv, NEW t \in Threads, Copy(t) PROVE IInv'
<1> DEFINE j == job[t]
<1>1. /\ pc[t] = "copy" /\ CallOK("copy", j)
      /\ CopyOK("copy", j, disk[ProcOf[t]]) /\ FreshOK("copy", j, pcf)
      /\ UNCHANGED <<pcf, pclock, job, last, now, kills>>
      /\ \/ /\ HasLine(j)
            /\ \/ disk' = [disk EXCEPT ![ProcOf[t]] = Changed(j)]
               \/ "disk" \in Faults /\ UNCHANGED disk
            /\ pc' = [pc EXCEPT ![t] = "rename"]
         \/ pc' = [pc EXCEPT ![t] = "remove"] /\ UNCHANGED disk
  BY Before DEF Copy, At, Goto, TempFile
<1>2. CallOK("rename", j) /\ CallOK("remove", j)
  BY <1>1 DEF CallOK, Region
<1>3. /\ j \in JobType /\ j.op \in Ops /\ j.op.kind # "read"
      /\ j.op.kind = "create" => j.name \in Names
      /\ j.src \in Tables /\ disk[ProcOf[t]] = Cut
  BY <1>1, Before DEF CallOK, CopyOK, Region
<1>4. CopyOK("remove", j, disk[ProcOf[t]]) /\ FreshOK("remove", j, pcf)
      /\ FreshOK("rename", j, pcf)
  BY <1>1 DEF CopyOK, FreshOK
<1>5. {"copy", "rename", "remove"} \subseteq ChangingAt /\ ChangingAt \subseteq Region
  BY DEF Region, ChangingAt
<1> HIDE DEF j
<1>6. HasLine(j) => Changed(j) \in Tables
  BY <1>3, ChangedType
<1>7. HasLine(j) => CopyOK("rename", j, Changed(j))
                    /\ ("disk" \in Faults => CopyOK("rename", j, disk[ProcOf[t]]))
  BY <1>3 DEF CopyOK
<1> QED BY <1>1, <1>2, <1>3, <1>4, <1>5, <1>6, <1>7, Before, Inside DEF j

LEMMA RenameKeeps ==
    ASSUME IInv, NEW t \in Threads, Rename(t) PROVE IInv'
<1> DEFINE j == job[t]
           d == disk[ProcOf[t]]
<1>1. /\ pc[t] = "rename" /\ CallOK("rename", j) /\ CopyOK("rename", j, d)
      /\ UNCHANGED <<pclock, job, last, now, kills>>
      /\ pc' = [pc EXCEPT ![t] = "unlock"]
      /\ \/ pcf' = d /\ disk' = [disk EXCEPT ![ProcOf[t]] = NoFile]
         \/ "rename" \in Faults /\ UNCHANGED <<pcf, disk>>
  BY Before DEF Rename, At, Goto, TempFile
<1>2. /\ j \in JobType /\ j.op \in Ops /\ j.op.kind # "read"
      /\ j.op.kind = "create" => j.name \in Names
      /\ j.src \in Tables /\ HasLine(j)
      /\ d = Changed(j) \/ (d = Cut /\ "disk" \in Faults)
  BY <1>1, Before DEF CallOK, CopyOK, Region
<1>3. CallOK("unlock", j)
  BY <1>1 DEF CallOK, Region
<1>4. CopyOK("unlock", j, NoFile) /\ CopyOK("unlock", j, d) /\ FreshOK("unlock", j, pcf')
  BY DEF CopyOK, FreshOK
<1>5. "unlock" \in Where /\ "unlock" \in Region /\ "rename" \in Region
  BY DEF Region, Where
<1>6. job' = [job EXCEPT ![t] = j] /\ d \in Tables \cup {Cut, NoFile}
      /\ disk = [disk EXCEPT ![ProcOf[t]] = d]
  BY <1>1, Before
<1> HIDE DEF j, d
<1>7. Changed(j) \in Tables
  BY <1>2, ChangedType
<1>8. d \in Tables \cup {Cut} /\ ("disk" \notin Faults => d # Cut)
  BY <1>2, <1>7, ContentAssumption
<1>9. /\ pc[t] \in Region /\ UNCHANGED <<pclock, now, kills>>
      /\ pcf \in Tables \cup {Cut} /\ ("disk" \notin Faults => pcf # Cut)
      /\ last' \in [Threads -> 0..MaxSec]
  BY <1>1, <1>5, Before
<1>10. CASE pcf' = d /\ disk' = [disk EXCEPT ![ProcOf[t]] = NoFile]
  BY <1>1, <1>2, <1>3, <1>4, <1>5, <1>6, <1>8, <1>9, <1>10, ThreadStep
<1>11. CASE "rename" \in Faults /\ UNCHANGED <<pcf, disk>>
  <2>1. d = disk[ProcOf[t]] /\ disk' = [disk EXCEPT ![ProcOf[t]] = d] /\ pcf' = pcf
    BY <1>6, <1>11 DEF d
  <2> QED BY <1>1, <1>2, <1>3, <1>4, <1>5, <1>6, <1>9, <1>11, <2>1, ThreadStep, ZenonT(60)
<1> QED BY <1>1, <1>10, <1>11

LEMMA RemoveKeeps ==
    ASSUME IInv, NEW t \in Threads, Remove(t) PROVE IInv'
<1>1. /\ pc[t] = "remove" /\ CallOK("remove", job[t])
      /\ UNCHANGED <<pcf, pclock, job, last, now, kills>>
      /\ disk' = [disk EXCEPT ![ProcOf[t]] = NoFile]
      /\ pc' = [pc EXCEPT ![t] = "unlock"]
  BY Before DEF Remove, At, Goto, TempFile
<1>2. CallOK("unlock", job[t])
  BY <1>1 DEF CallOK, Region
<1>3. CopyOK("unlock", job[t], NoFile) /\ FreshOK("unlock", job[t], pcf)
  BY DEF CopyOK, FreshOK
<1>4. "unlock" \in Region /\ "remove" \in Region
  BY DEF Region
<1> QED BY <1>1, <1>2, <1>3, <1>4, Before, Inside, ZenonT(60)

LEMMA UnlockKeeps ==
    ASSUME IInv, NEW t \in Threads, Unlock(t) PROVE IInv'
<1>1. /\ pc[t] = "unlock"
      /\ UNCHANGED <<pcf, disk, last, now, kills>>
      /\ pc' = [pc EXCEPT ![t] = "idle"] /\ job' = [job EXCEPT ![t] = NoJob]
      /\ \/ pclock' = [pclock EXCEPT ![ProcOf[t]] = NoThread]
         \/ ~ThreadSafe /\ pclock' = pclock
  BY DEF Unlock, At, Goto, Return
<1>2. CallOK("idle", NoJob)
  BY DEF CallOK, Region
<1>3. CopyOK("idle", NoJob, disk[ProcOf[t]]) /\ FreshOK("idle", NoJob, pcf')
  BY DEF CopyOK, FreshOK
<1>4. "idle" \in Where /\ "idle" \notin Region /\ pc[t] \notin ChangingAt
  BY <1>1 DEF Where, Region, ChangingAt
<1> QED BY <1>1, <1>2, <1>3, <1>4, Before, ThreadStep, ZenonT(60)

----------------------------------------------------------------------------
LEMMA InitIInv == Init => IInv
<1> SUFFICES ASSUME Init PROVE IInv
  OBVIOUS
<1>1. pcf \in Tables
  <2>1. Cardinality(InterIn) \in Nat
    BY IdAssumption, FS_CardinalityType
  <2>2. PICK l \in Listings(InterIn, Cardinality(InterIn)) : pcf = Loaded(l)
    BY DEF Init
  <2>3. \A d \in InterIn : [id |-> d, name |-> PcfName(d), flag |-> ""] \in Rec
    <3> TAKE d \in InterIn
    <3>1. d \in Ids /\ PcfName(d) \in Names
      BY IdAssumption DEF Names
    <3> QED BY <3>1, SMT DEF Rec, Flags
  <2> QED BY <2>1, <2>2, <2>3, LoadedType DEF Tables
<1>2. NoJob \in JobType
  <2>1. NoJob.op \in Ops \cup {NoJob.op}
    OBVIOUS
  <2> QED BY <2>1 DEF NoJob, JobType
<1>3. TypeOK
  BY <1>1, BoundAssumption DEF Init, TypeOK, Where
<1>4. job \in [Threads -> JobType] /\ HeldOK
  BY <1>2 DEF Init, HeldOK, Region
<1>5. ASSUME NEW t \in Threads
      PROVE  /\ CallOK(pc[t], job[t]) /\ CopyOK(pc[t], job[t], disk[ProcOf[t]])
             /\ FreshOK(pc[t], job[t], pcf)
  BY DEF Init, CallOK, CopyOK, FreshOK, Region
<1>6. Whole /\ NoneLeft
  BY <1>1, ContentAssumption DEF Init, Whole, FileWhole, NoneLeft, NoTempLeft
<1> QED BY <1>3, <1>4, <1>5, <1>6 DEF IInv

LEMMA TickKeeps == ASSUME IInv, Tick PROVE IInv'
<1>1. UNCHANGED <<pcf, disk, pclock, pc, job, last, kills>> /\ now' \in 1..MaxSec
  BY BoundAssumption DEF Tick, IInv, TypeOK
<1> QED BY <1>1 DEF IInv, TypeOK, HeldOK, Whole, FileWhole, NoneLeft, NoTempLeft, Changing

(* A process that is killed leaves its files; its threads and its lock go.  *)
LEMMA KillKeeps == ASSUME IInv, NEW p \in Procs, Kill(p) PROVE IInv'
<1>1. /\ UNCHANGED <<pcf, disk, now>> /\ kills < MaxKills /\ kills' = kills + 1
      /\ pc' = [t \in Threads |-> IF ProcOf[t] = p THEN "idle" ELSE pc[t]]
      /\ job' = [t \in Threads |-> IF ProcOf[t] = p THEN NoJob ELSE job[t]]
      /\ last' = [t \in Threads |-> IF ProcOf[t] = p THEN 0 ELSE last[t]]
      /\ pclock' = [pclock EXCEPT ![p] = NoThread]
  BY DEF Kill
<1>2. TypeOK /\ job \in [Threads -> JobType] /\ HeldOK /\ Whole
  BY DEF IInv
<1>3. TypeOK'
  BY <1>1, <1>2, BoundAssumption DEF TypeOK, Where
<1>4. job' \in [Threads -> JobType]
  <2>1. \A t \in Threads : NoJob \in JobType
    BY Before
  <2> QED BY <1>1, <1>2, <2>1
<1>5. HeldOK'
  BY <1>1, <1>2, ProcOfAssumption DEF HeldOK, TypeOK, Region
<1>6. ASSUME NEW t \in Threads
      PROVE  /\ CallOK(pc'[t], job'[t])
             /\ CopyOK(pc'[t], job'[t], disk'[ProcOf[t]])
             /\ FreshOK(pc'[t], job'[t], pcf')
  <2>1. CASE ProcOf[t] = p
    <3>1. pc'[t] = "idle"
      BY <1>1, <2>1
    <3> QED BY <3>1 DEF CallOK, CopyOK, FreshOK, Region
  <2>2. CASE ProcOf[t] # p
    <3>1. pc'[t] = pc[t] /\ job'[t] = job[t]
      BY <1>1, <2>2
    <3> QED BY <1>1, <3>1 DEF IInv
  <2> QED BY <2>1, <2>2
<1>7. Whole' /\ NoneLeft'
  BY <1>1, <1>2 DEF Whole, FileWhole, NoneLeft, NoTempLeft, TypeOK
<1> QED BY <1>3, <1>4, <1>5, <1>6, <1>7 DEF IInv

LEMMA NextIInv == IInv /\ [Next]_vars => IInv'
<1> SUFFICES ASSUME IInv, [Next]_vars PROVE IInv'
  OBVIOUS
<1>1. CASE UNCHANGED vars
  BY <1>1 DEF vars, IInv, TypeOK, HeldOK, Whole, FileWhole, NoneLeft, NoTempLeft, Changing
<1>2. ASSUME NEW t \in Threads, Begin(t) \/ Step(t) PROVE IInv'
  BY <1>2, BeginKeeps, LookupKeeps, NameKeeps, FetchKeeps, LockKeeps, OpenKeeps,
     FindKeeps, CopyKeeps, RenameKeeps, RemoveKeeps, UnlockKeeps DEF Step
<1> QED BY <1>1, <1>2, TickKeeps, KillKeeps DEF Next, Rest

\* Whatever threads do and wherever they are killed, the invariant holds: calls
\* fit the places of their threads, and copies and PCLOCK belong to them.
THEOREM AlwaysIInv == Spec => []IInv
<1> QED BY InitIInv, NextIInv, PTL DEF Spec

(* Types of the files, the locks and the threads. *)
THEOREM TypeCorrect == Spec => []TypeOK
<1>1. IInv => TypeOK
  BY DEF IInv
<1> QED BY AlwaysIInv, <1>1, PTL

(* However many processes and threads replace the PCF at once, and          *)
(* whichever of them are killed, it is a complete file as long as the disk  *)
(* has room: PGS_PC_PutPCSData and PGS_PC_MarkRuntimeAscii only ever rename *)
(* a copy that is complete.                                                 *)
THEOREM AlwaysWhole == "disk" \notin Faults => (Spec => []FileWhole)
<1> SUFFICES ASSUME "disk" \notin Faults PROVE Spec => []FileWhole
  OBVIOUS
<1>1. IInv => FileWhole
  BY DEF IInv, Whole
<1> QED BY AlwaysIInv, <1>1, PTL

(* No path out of a call leaves a temporary file behind but a rename that   *)
(* fails.                                                                   *)
THEOREM NothingLeft == "rename" \notin Faults => (Spec => []NoTempLeft)
<1> SUFFICES ASSUME "rename" \notin Faults PROVE Spec => []NoTempLeft
  OBVIOUS
<1>1. IInv => NoTempLeft
  BY DEF IInv, NoneLeft
<1> QED BY AlwaysIInv, <1>1, PTL

----------------------------------------------------------------------------
(* One process, on whose paths the flag letters do not occur. *)
OneWriter == OneProc /\ PathLetters = {} /\ "disk" \notin Faults

(* The abstract table is read by the searches the file is read by. *)
LEMMA SameRecords ==
    /\ \A q, id : Table!First(Table!Live(q, id)) = First(Live(q, id))
    /\ \A l : Table!Loaded(l) = Loaded(l)
    /\ \A S, n : Table!Listings(S, n) = Listings(S, n)
    /\ Table!SectionSet = SectionSet
BY DEF Table!First, First, Table!Live, Live, Table!With, With, Table!Deleted, Deleted,
       Table!Loaded, Loaded, Table!PcfName, PcfName, Table!Listings, Listings,
       Table!SectionSet, SectionSet

LEMMA SameCount == \A S : Table!Cardinality(S) = Cardinality(S)
BY DEF Table!Cardinality, Cardinality

(* The rename is the step that changes the abstract table, and it does to   *)
(* the table as it is what the call was made for.                           *)
LEMMA RenameImplements ==
    ASSUME IInv, OneWriter, NEW t \in Threads, Rename(t)
    PROVE  [Table!Next]_pcf
<1> DEFINE j == job[t]
           i == Line(j)
<1>1. /\ pc[t] = "rename" /\ CallOK("rename", j)
      /\ CopyOK("rename", j, disk[ProcOf[t]]) /\ FreshOK("rename", j, pcf)
      /\ pcf' = disk[ProcOf[t]] \/ pcf' = pcf
  BY Before DEF Rename, At, TempFile
<1>2. /\ j \in JobType /\ j.op \in Ops /\ j.op.kind # "read"
      /\ j.op.kind = "create" => j.name \in Names
      /\ j.src = pcf /\ pcf \in Tables /\ HasLine(j)
      /\ pcf' = Changed(j) \/ pcf' = pcf
  BY <1>1, Before DEF CallOK, CopyOK, FreshOK, Region, OneWriter
<1> HIDE DEF j
<1>3. /\ j.op.kind \in {"create", "delete", "mark"}
      /\ j.op.sec \in {"interOut", "temp"} /\ j.op.id \in Ids
  BY <1>2, OpsAssumption
<1>4. \A r, letter : CutAt(r, letter) = r
  BY DEF CutAt, OneWriter
<1>5. CASE pcf' = Changed(j) /\ j.op.kind = "create"
  <2> DEFINE id == j.op.id
             s  == j.op.sec
             new == [id |-> id, name |-> j.name, flag |-> ""]
  <2>1. i = First(Live(pcf[s], id)) /\ AreaOf(j) = s
    BY <1>2, <1>5 DEF Line, AreaOf
  <2>2. pcf' = [pcf EXCEPT ![s] = IF i = 0 THEN Append(pcf[s], new)
                                          ELSE [pcf[s] EXCEPT ![i] = new]]
    BY <1>2, <1>5, <2>1 DEF Changed, NewArea
  <2>3. Table!Put(s, id, j.name)
    BY <2>1, <2>2, SameRecords DEF Table!Put, Table!HasRoom
  <2> QED BY <1>2, <1>3, <1>5, <2>3 DEF Table!Next
<1>6. CASE pcf' = Changed(j) /\ j.op.kind = "delete"
  <2>1. i = First(Live(pcf["temp"], j.op.id)) /\ AreaOf(j) = "temp" /\ i # 0
    BY <1>2, <1>6 DEF Line, AreaOf, HasLine
  <2>2. pcf' = [pcf EXCEPT !["temp"] = [pcf["temp"] EXCEPT ![i] = SkipFlag(pcf["temp"][i])]]
    BY <1>2, <1>6, <2>1 DEF Changed, NewArea
  <2>3. \A r : SkipFlag(r) = [r EXCEPT !.flag = IF r.flag = "R" THEN "B" ELSE "D"]
    BY <1>4 DEF SkipFlag
  <2>4. Table!Drop(j.op.id)
    BY <2>1, <2>2, <2>3, SameRecords DEF Table!Drop
  <2> QED BY <1>3, <2>4 DEF Table!Next
<1>7. CASE pcf' = Changed(j) /\ j.op.kind = "mark"
  <2> DEFINE s == AreaOf(j)
  <2>1. i # 0
    BY <1>7, <1>2 DEF HasLine
  <2>2. s \in SectionSet /\ i \in DOMAIN pcf[s] /\ pcf[s][i].flag \in {"", "D"}
    BY <1>2, <1>7, <2>1, LineIsThere
  <2>3. pcf' = [pcf EXCEPT ![s] = [pcf[s] EXCEPT ![i] = MarkFlag(pcf[s][i])]]
    BY <1>2, <1>7 DEF Changed, NewArea
  <2> HIDE DEF s, i
  <2>4. MarkFlag(pcf[s][i]) =
            [pcf[s][i] EXCEPT !.flag = IF @ \in {"D", "B"} THEN "B" ELSE "R"]
    BY <1>4, <2>2 DEF MarkFlag
  <2>5. Table!MarkRuntime(s, i)
    BY <2>3, <2>4 DEF Table!MarkRuntime
  <2> QED BY <2>2, <2>5, SameRecords DEF Table!Next
<1> QED BY <1>2, <1>3, <1>5, <1>6, <1>7

(* The threads of one process change the PCF as PCTable may change its      *)
(* table, wherever the process is killed.                                   *)
THEOREM PCAsciiImplementsPCTable == OneWriter => (Spec => ImplementsTable)
<1> SUFFICES ASSUME OneWriter PROVE Spec => ImplementsTable
  OBVIOUS
<1>1. Init => Table!Init
  BY SameRecords, SameCount DEF Init, Table!Init
<1>2. IInv /\ [Next]_vars => [Table!Next]_pcf
  <2> SUFFICES ASSUME IInv, [Next]_vars PROVE [Table!Next]_pcf
    OBVIOUS
  <2>1. ASSUME NEW t \in Threads, Begin(t) \/ Step(t) PROVE [Table!Next]_pcf
    BY <2>1, RenameImplements
       DEF Begin, Step, Lookup, Name, Fetch, Lock, Open, Find, Copy, Remove, Unlock
  <2>2. ASSUME Tick \/ (\E p \in Procs : Kill(p)) \/ Rest \/ UNCHANGED vars PROVE UNCHANGED pcf
    BY <2>2 DEF Tick, Kill, Rest, vars
  <2> QED BY <2>1, <2>2 DEF Next
<1> QED BY <1>1, <1>2, AlwaysIInv, PTL DEF Spec, ImplementsTable, Table!Spec

----------------------------------------------------------------------------
(* What is proved of the table holds of the PCF.                            *)
OfTable == INSTANCE PCTableProofs WITH table <- pcf, MaxFiles <- 0

LEMMA SameFinite == \A S : OfTable!IsFiniteSet(S) <=> IsFiniteSet(S)
BY DEF OfTable!IsFiniteSet, IsFiniteSet

LEMMA TableFits ==
    /\ InterIn \subseteq Ids /\ OfTable!IsFiniteSet(InterIn)
    /\ \A id \in InterIn : OfTable!PcfName(id) \in Names
    /\ 0 \in Nat
BY IdAssumption, BoundAssumption, SameFinite DEF OfTable!PcfName, PcfName, Names

LEMMA SameInit == Table!Init => OfTable!Init
BY DEF Table!Init, OfTable!Init, Table!Listings, OfTable!Listings, Table!Cardinality,
       OfTable!Cardinality, Table!Loaded, OfTable!Loaded, Table!SectionSet,
       OfTable!SectionSet, Table!PcfName, OfTable!PcfName

LEMMA SameNext == [Table!Next]_pcf => [OfTable!Next]_pcf
BY DEF Table!Next, OfTable!Next, Table!Put, OfTable!Put, Table!Drop, OfTable!Drop,
       Table!MarkRuntime, OfTable!MarkRuntime, Table!HasRoom, OfTable!HasRoom,
       Table!SectionSet, OfTable!SectionSet, Table!First, OfTable!First,
       Table!Live, OfTable!Live, Table!With, OfTable!With, Table!Deleted, OfTable!Deleted

LEMMA SameSpec == Table!Spec => OfTable!Spec
BY SameInit, SameNext, PTL DEF Table!Spec, OfTable!Spec

(* The PCF never has two lines in force for one identifier in a section,    *)
(* although every thread searches it before it locks.                       *)
THEOREM LiveIsUnique ==
    ASSUME OneWriter PROVE Spec => []Table!AtMostOneLive
<1>1. Spec => Table!Spec
  BY PCAsciiImplementsPCTable DEF ImplementsTable
<1>2. OfTable!Spec => []OfTable!AtMostOneLive
  BY TableFits, OfTable!LiveIsUnique
<1>3. OfTable!AtMostOneLive => Table!AtMostOneLive
  BY DEF OfTable!AtMostOneLive, Table!AtMostOneLive, Table!Live, OfTable!Live,
         Table!With, OfTable!With, Table!Deleted, OfTable!Deleted,
         Table!SectionSet, OfTable!SectionSet
<1> QED BY <1>1, <1>2, <1>3, SameSpec, PTL

(* A file marked for deletion stays in the PCF, and marked, although each   *)
(* change rewrites the PCF from a copy.                                     *)
THEOREM DeletionIsFinal ==
    ASSUME OneWriter PROVE Spec => Table!DeleteIsFinal
<1>1. Spec => Table!Spec
  BY PCAsciiImplementsPCTable DEF ImplementsTable
<1>2. OfTable!Spec => OfTable!DeleteIsFinal
  BY TableFits, OfTable!DeletionIsFinal
<1>3. [OfTable!KeepsDeleted]_pcf => [Table!KeepsDeleted]_pcf
  BY DEF OfTable!KeepsDeleted, Table!KeepsDeleted, Table!Deleted, OfTable!Deleted
<1> QED BY <1>1, <1>2, <1>3, SameSpec, PTL DEF OfTable!DeleteIsFinal, Table!DeleteIsFinal
=============================================================================
