---------------------------- MODULE PCShmProofs ----------------------------
(***************************************************************************)
(* Proofs about PCShm where its three defects cannot occur: one process,   *)
(* all creations in one section, so that a record is only ever inserted at *)
(* the end of the image, and runtime marks only if there is no more than   *)
(* one thread.  For any number of threads and identifiers, and any room,   *)
(* PCShm then implements PCTable.                                          *)
(*                                                                         *)
(* Only the thread between Lock and Unlock changes the image or the        *)
(* header, and what it has read in Scan still holds when it writes.  The   *)
(* lemma ThreadStep says what a step of a thread must establish.           *)
(***************************************************************************)
EXTENDS PCShm, PCRecordsProofs, FiniteSetTheorems, TLAPS

OneProc == \A p, q \in Procs : p = q
OneThread == \A t, u \in Threads : t = u
(* All creations are in section s, and a thread that marks is the only one. *)
CallsIn(s) ==
    \A op \in Ops : /\ op.kind = "create" => op.sec = s
                    /\ op.kind = "mark" => OneThread

MarkPlaces == {"fetch", "mark", "marklock", "markwrite"}
Region == {"scan", "write", "done", "unlock"}
Tables == [SectionSet -> Seq(Rec)]
Header == [temp : Nat, used : 0..Spare]
JobType == [op : Ops \cup {NoJob.op}, sec : 1..3, name : Names \cup {<<>>},
            pos : Nat, copy : Rec \cup {NoRec}, insert : BOOLEAN, hdr : Header]

(* The section a call writes, and the record it creates. *)
Target(j) == IF j.op.kind = "delete" THEN "temp" ELSE j.op.sec
NewRec(j) == [id |-> j.op.id, name |-> j.name, flag |-> ""]

(* A thread at w has the call j that belongs there. *)
CallOK(w, j) ==
    /\ w # "idle" => j.op \in Ops
    /\ w \in MarkPlaces => j.op.kind = "mark" /\ OneThread
    /\ w = "lookup" => j.op.kind # "delete"
    /\ w = "name" => j.op.kind = "create"
    /\ w \in Region \cup {"lock"} =>
          /\ j.op.kind \in {"create", "delete"}
          /\ j.op.kind = "create" => j.name \in Names

(* What it has found in the image im and the header h is still there; and   *)
(* what it has written is.                                                  *)
FoundOK(w, j, im, h) ==
    /\ w = "write" =>
          LET q == im[Target(j)]
              i == First(Live(q, j.op.id))
          IN  /\ j.hdr = h
              /\ \/ /\ j.insert /\ j.op.kind = "create" /\ i = 0
                    /\ h.used < Spare
                    /\ j.pos = Len(q) + 1 /\ j.copy = NewRec(j)
                 \/ /\ ~j.insert /\ i # 0 /\ j.pos = i
                    /\ j.copy = IF j.op.kind = "delete" THEN q[i] ELSE NewRec(j)
    /\ w = "done" =>
          /\ j.hdr = h
          /\ j.insert => j.op.kind = "create" /\ h.used < Spare
          /\ j.op.kind = "create" =>
                \E i \in DOMAIN im[Target(j)] : im[Target(j)][i] = NewRec(j)
    /\ w \in {"marklock", "markwrite"} =>
          LET q == im[Sections[j.sec]]
          IN  j.hdr.temp = TempAt(im) /\ j.pos \in DOMAIN q /\ j.copy = q[j.pos]

(* A record is in the image that the header does not count yet. *)
Pends(w, j) == w = "done" /\ j.insert
Pending == \E t \in Threads : Pends(pc[t], job[t])

(* The image is as long as the header says, but for a pending record.       *)
LayoutAt(s, im, h, pends) ==
    /\ Len(im["interIn"]) = Cardinality(InterIn)
    /\ \A u \in {"interOut", "temp"} : u # s => im[u] = <<>>
    /\ Len(im[s]) = h.used + (IF pends THEN 1 ELSE 0)
    /\ h.temp = Cardinality(InterIn) + (IF s = "interOut" THEN h.used ELSE 0)

HeldOK == ThreadSafe => \A t \in Threads : pc[t] \in Region => pclock[ProcOf[t]] = t

IInv(s) ==
    /\ TypeOK /\ ~torn
    /\ sect \in Tables
    /\ job \in [Threads -> JobType]
    /\ HeldOK
    /\ \A t \in Threads : CallOK(pc[t], job[t]) /\ FoundOK(pc[t], job[t], sect, hdr)
    /\ LayoutAt(s, sect, hdr, Pending)

----------------------------------------------------------------------------
(* No two threads are in the region PCLOCK protects. *)
LEMMA Exclusive ==
    ASSUME NEW s, IInv(s), OneProc, NEW t \in Threads, NEW u \in Threads,
           pc[t] \in Region, pc[u] \in Region
    PROVE  t = u
<1>1. ProcOf[t] = ProcOf[u]
  BY ProcOfAssumption DEF OneProc
<1> QED BY <1>1, BuildAssumption DEF IInv, HeldOK

LEMMA SectionOfIndex == \A n \in 1..3 : Sections[n] \in SectionSet
BY DEF Sections, SectionSet

(* What a step of thread t that takes it to w with the call j must          *)
(* establish for the invariant to hold after it.                            *)
LEMMA ThreadStep ==
    ASSUME NEW s, IInv(s), OneProc, NEW t \in Threads, NEW w \in Where, NEW j \in JobType,
           pc' = [pc EXCEPT ![t] = w], job' = [job EXCEPT ![t] = j],
           \/ pclock' = pclock /\ (w \in Region => pc[t] \in Region)
           \/ ThreadSafe /\ pclock[ProcOf[t]] = NoThread
              /\ pclock' = [pclock EXCEPT ![ProcOf[t]] = t]
           \/ ~ThreadSafe /\ pclock' = pclock
           \/ OneThread /\ w \notin Region /\ pclock' \in [Procs -> Threads \cup {NoThread}]
           \/ /\ pc[t] \in Region /\ w \notin Region
              /\ pclock' = [pclock EXCEPT ![ProcOf[t]] = NoThread],
           sect' \in Tables, hdr' \in Header, torn' = FALSE,
           \/ (pc[t] \in Region \/ OneThread) /\ LayoutAt(s, sect', hdr', Pends(w, j))
           \/ UNCHANGED <<sect, hdr>> /\ w # "done" /\ pc[t] # "done",
           CallOK(w, j), FoundOK(w, j, sect', hdr'),
           last' \in [Threads -> 0..MaxSec], now' = now
    PROVE  IInv(s)'
<1>1. /\ TypeOK /\ ~torn /\ sect \in Tables /\ job \in [Threads -> JobType] /\ HeldOK
      /\ \A u \in Threads : CallOK(pc[u], job[u]) /\ FoundOK(pc[u], job[u], sect, hdr)
      /\ LayoutAt(s, sect, hdr, Pending)
  BY DEF IInv
<1>2. ProcOf \in [Threads -> Procs] /\ NoThread \notin Threads
  BY ProcOfAssumption, IdAssumption
<1>3. \A u \in Threads : u # t => pc'[u] = pc[u] /\ job'[u] = job[u]
  BY <1>1 DEF TypeOK
<1>4. pc'[t] = w /\ job'[t] = j
  BY <1>1 DEF TypeOK
<1>5. TypeOK' /\ ~torn'
  BY <1>1, <1>2 DEF TypeOK, Tables, Header
<1>6. job' \in [Threads -> JobType]
  BY <1>1
<1>7. HeldOK'
  <2> SUFFICES ASSUME ThreadSafe, NEW u \in Threads, pc'[u] \in Region
               PROVE  pclock'[ProcOf[u]] = u
    BY DEF HeldOK
  <2>1. CASE u = t
    BY <1>1, <1>2, <1>4, <2>1 DEF TypeOK, HeldOK
  <2>2. CASE u # t
    <3>0. ~OneThread
      BY <2>2 DEF OneThread
    <3>1. pc[u] \in Region /\ pclock[ProcOf[u]] = u
      BY <1>1, <1>3, <2>2 DEF HeldOK
    <3>2. pc[t] \notin Region
      BY <3>1, <2>2, Exclusive
    <3> QED BY <1>1, <1>2, <2>2, <3>0, <3>1, <3>2 DEF TypeOK
  <2> QED BY <2>1, <2>2
<1>8. ASSUME NEW u \in Threads
      PROVE  CallOK(pc'[u], job'[u]) /\ FoundOK(pc'[u], job'[u], sect', hdr')
  <2>1. CASE u = t
    BY <1>4, <2>1
  <2>2. CASE u # t
    <3>1. CallOK(pc'[u], job'[u])
      BY <1>1, <1>3, <2>2
    <3>2. CASE pc[u] \notin Region
      <4>1. pc'[u] \notin {"write", "done"} \cup MarkPlaces
        BY <1>1, <1>3, <2>2, <3>2 DEF Region, CallOK, OneThread
      <4> QED BY <3>1, <4>1 DEF FoundOK, MarkPlaces
    <3>3. CASE pc[u] \in Region
      <4>1. UNCHANGED <<sect, hdr>>
        BY <2>2, <3>3, Exclusive DEF OneThread
      <4> QED BY <1>1, <1>3, <2>2, <3>1, <4>1
    <3> QED BY <3>2, <3>3
  <2> QED BY <2>1, <2>2
<1>9. LayoutAt(s, sect', hdr', Pending')
  <2>1. CASE (pc[t] \in Region \/ OneThread) /\ LayoutAt(s, sect', hdr', Pends(w, j))
    <3>1. \A u \in Threads : u # t => pc'[u] \notin Region
      BY <1>3, <2>1, Exclusive DEF OneThread
    <3>2. \A u \in Threads : u # t => ~Pends(pc'[u], job'[u])
      BY <3>1 DEF Pends, Region
    <3>3. Pending' <=> Pends(w, j)
      BY <1>4, <3>2 DEF Pending
    <3> QED BY <2>1, <3>3 DEF LayoutAt
  <2>2. CASE UNCHANGED <<sect, hdr>> /\ w # "done" /\ pc[t] # "done"
    <3>1. Pending' <=> Pending
      BY <1>3, <1>4, <2>2 DEF Pending, Pends
    <3> QED BY <1>1, <2>2, <3>1 DEF LayoutAt
  <2> QED BY <2>1, <2>2
<1> QED BY <1>5, <1>6, <1>7, <1>8, <1>9 DEF IInv

----------------------------------------------------------------------------
(* The steps of a thread.                                                   *)
LEMMA Before ==
    ASSUME NEW s, IInv(s), NEW t \in Threads
    PROVE  /\ job = [job EXCEPT ![t] = job[t]] /\ job[t] \in JobType
           /\ CallOK(pc[t], job[t]) /\ FoundOK(pc[t], job[t], sect, hdr)
           /\ sect \in Tables /\ hdr \in Header /\ torn = FALSE
           /\ last \in [Threads -> 0..MaxSec] /\ now \in 1..MaxSec
           /\ NoJob \in JobType /\ CallOK("idle", NoJob)
           /\ ThreadSafe \in BOOLEAN
<1>1. /\ job \in [Threads -> JobType] /\ TypeOK /\ torn = FALSE
  BY DEF IInv, TypeOK
<1>2. NoJob \in JobType
  <2>1. NoJob.op \in Ops \cup {NoJob.op} /\ [temp |-> 0, used |-> 0] \in Header
    BY BoundAssumption DEF Header
  <2> QED BY <2>1 DEF NoJob, JobType
<1>3. CallOK("idle", NoJob)
  BY DEF CallOK, MarkPlaces, Region, MarkPlaces
<1> QED BY <1>1, <1>2, <1>3, BuildAssumption DEF IInv, TypeOK, Header

LEMMA OpKinds ==
    ASSUME NEW s, CallsIn(s), NEW op \in Ops
    PROVE  /\ op.kind \in {"create", "read", "delete", "mark"} /\ op.id \in Ids
           /\ op.kind = "mark" => OneThread
           /\ op.sec \in {"interOut", "temp"}
           /\ op.kind = "create" => op.sec = s
BY OpsAssumption DEF CallsIn

(* While a thread is in the region, and before it has inserted, the header  *)
(* agrees with the image.                                                   *)
LEMMA HeaderRight ==
    ASSUME NEW s \in {"interOut", "temp"}, IInv(s), ~Pending
    PROVE  /\ hdr.temp = TempAt(sect) /\ Len(sect[s]) = hdr.used
           /\ \A sec \in SectionSet : DividerOK(sec)
<1>1. hdr.used \in Nat /\ Cardinality(InterIn) \in Nat
  BY BoundAssumption, IdAssumption, FS_CardinalityType DEF IInv, TypeOK
<1>2. LayoutAt(s, sect, hdr, Pending)
  BY DEF IInv
<1>3. /\ \A u \in {"interOut", "temp"} : u # s => sect[u] = <<>>
      /\ Len(sect["interIn"]) = Cardinality(InterIn)
      /\ Len(sect[s]) = hdr.used
      /\ hdr.temp = Cardinality(InterIn) + (IF s = "interOut" THEN hdr.used ELSE 0)
  <2> HIDE DEF Pending
  <2> QED BY <1>1, <1>2 DEF LayoutAt
<1>4. hdr.temp = TempAt(sect)
  <2>1. CASE s = "interOut"
    BY <1>3, <2>1 DEF TempAt
  <2>2. CASE s = "temp"
    <3>1. Len(sect["interOut"]) = 0
      BY <1>3, <2>2
    <3> QED BY <1>1, <1>3, <2>2, <3>1 DEF TempAt
  <2> QED BY <2>1, <2>2
<1> QED BY <1>3, <1>4 DEF DividerOK

LEMMA NothingPends ==
    ASSUME NEW s, IInv(s), OneProc, NEW t \in Threads, pc[t] \in Region \ {"done"}
    PROVE  ~Pending
<1> SUFFICES ASSUME NEW u \in Threads, pc[u] = "done" PROVE FALSE
  BY DEF Pending, Pends
<1>1. u = t
  BY Exclusive DEF Region
<1> QED BY <1>1

(* A step outside the region that changes only the call and the place.      *)
LEMMA Outside ==
    ASSUME NEW s, IInv(s), OneProc, NEW t \in Threads,
           NEW w \in {"idle", "lookup", "name", "lock", "fetch", "mark"},
           NEW j \in JobType, CallOK(w, j), pc[t] \notin Region,
           pc' = [pc EXCEPT ![t] = w], job' = [job EXCEPT ![t] = j],
           UNCHANGED <<sect, hdr, pclock, torn, now>>,
           last' \in [Threads -> 0..MaxSec]
    PROVE  IInv(s)'
<1>1. w \in Where /\ w \notin Region /\ w # "done" /\ pc[t] # "done"
  BY DEF Where, Region
<1>2. FoundOK(w, j, sect', hdr')
  BY DEF FoundOK
<1>3. sect' \in Tables /\ hdr' \in Header /\ torn' = FALSE
  BY Before
<1> QED BY <1>1, <1>2, <1>3, ThreadStep

LEMMA BeginKeeps ==
    ASSUME NEW s, IInv(s), OneProc, CallsIn(s), NEW t \in Threads, Begin(t)
    PROVE  IInv(s)'
<1>1. PICK op \in Ops :
        /\ job' = [job EXCEPT ![t] = [NoJob EXCEPT !.op = op]]
        /\ pc' = [pc EXCEPT ![t] = IF op.kind = "delete" THEN "lock" ELSE "lookup"]
  BY DEF Begin, Goto
<1> DEFINE j == [NoJob EXCEPT !.op = op]
           w == IF op.kind = "delete" THEN "lock" ELSE "lookup"
<1>2. pc[t] = "idle" /\ UNCHANGED <<sect, hdr, pclock, torn, last, now>>
  BY DEF Begin, At
<1>3. j \in JobType /\ j.op = op /\ w \in {"lock", "lookup"}
  <2>1. j.op = op
    BY DEF NoJob
  <2>2. NoJob \in JobType
    BY Before
  <2>3. j \in JobType
    BY <2>2 DEF JobType
  <2> QED BY <2>1, <2>3
<1>4. CallOK(w, j)
  BY <1>3 DEF CallOK, MarkPlaces, Region
<1>5. pc[t] \notin Region /\ last' \in [Threads -> 0..MaxSec]
  BY <1>2, Before DEF Region
<1>6. job' = [job EXCEPT ![t] = j] /\ pc' = [pc EXCEPT ![t] = w]
  BY <1>1
<1> HIDE DEF j, w
<1> QED BY <1>2, <1>3, <1>4, <1>5, <1>6, Outside

LEMMA LookupKeeps ==
    ASSUME NEW s, IInv(s), OneProc, CallsIn(s), NEW t \in Threads, Lookup(t)
    PROVE  IInv(s)'
<1>1. /\ pc[t] = "lookup" /\ CallOK("lookup", job[t])
      /\ UNCHANGED <<sect, hdr, pclock, torn, last, now>>
  BY Before DEF Lookup, At
<1>2. /\ pc[t] \notin Region /\ last' \in [Threads -> 0..MaxSec]
      /\ job[t].op \in Ops /\ job[t].op.kind # "delete"
  BY <1>1, Before, OpKinds DEF Region, CallOK, MarkPlaces
<1>3. CASE Return(t)
  BY <1>1, <1>2, <1>3, Before, Outside DEF Return, Goto
<1>4. CASE /\ job[t].sec < Len(Sections)
           /\ job' = [job EXCEPT ![t].sec = @ + 1] /\ UNCHANGED pc
  <2> DEFINE j == [job[t] EXCEPT !.sec = @ + 1]
  <2>1. Len(Sections) = 3
    BY DEF Sections
  <2>2. j \in JobType /\ j.op = job[t].op
    <3>1. job[t] \in JobType
      BY Before
    <3> QED BY <1>4, <2>1, <3>1 DEF JobType
  <2>3. CallOK("lookup", j)
    BY <1>2, <2>2 DEF CallOK, MarkPlaces, Region
  <2>4. job' = [job EXCEPT ![t] = j] /\ pc' = [pc EXCEPT ![t] = "lookup"]
    BY <1>1, <1>4 DEF IInv, TypeOK
  <2> HIDE DEF j
  <2> QED BY <1>1, <1>2, <2>2, <2>3, <2>4, Outside
<1>5. CASE pc' = [pc EXCEPT ![t] = "name"] /\ UNCHANGED job /\ job[t].op.kind = "create"
  <2>1. CallOK("name", job[t])
    BY <1>2, <1>5 DEF CallOK, MarkPlaces, Region
  <2>2. job' = [job EXCEPT ![t] = job[t]] /\ job[t] \in JobType
    BY <1>5, Before
  <2> QED BY <1>1, <1>2, <1>5, <2>1, <2>2, Outside
<1>6. CASE pc' = [pc EXCEPT ![t] = "fetch"] /\ UNCHANGED job /\ job[t].op.kind = "mark"
  <2>1. CallOK("fetch", job[t])
    BY <1>2, <1>6, OpKinds DEF CallOK, MarkPlaces, Region
  <2>2. job' = [job EXCEPT ![t] = job[t]] /\ job[t] \in JobType
    BY <1>6, Before
  <2> QED BY <1>1, <1>2, <1>6, <2>1, <2>2, Outside
<1> QED BY <1>2, <1>3, <1>4, <1>5, <1>6 DEF Lookup, Goto

LEMMA NameKeeps ==
    ASSUME NEW s, IInv(s), OneProc, NEW t \in Threads, Name(t) PROVE IInv(s)'
<1> DEFINE j == [job[t] EXCEPT !.name = <<ProcOf[t], now>>]
<1>1. /\ pc[t] = "name" /\ CallOK("name", job[t])
      /\ UNCHANGED <<sect, hdr, pclock, torn, now>>
      /\ last' = [last EXCEPT ![t] = now]
      /\ job' = [job EXCEPT ![t] = j]
      /\ pc' = [pc EXCEPT ![t] = "lock"]
  BY Before DEF Name, At, Goto, FileName
<1>2. <<ProcOf[t], now>> \in Names
  BY Before, ProcOfAssumption DEF Names
<1>3. j \in JobType /\ j.op = job[t].op /\ j.name \in Names
  BY <1>2, Before DEF JobType
<1>4. CallOK("lock", j)
  BY <1>1, <1>3 DEF CallOK, MarkPlaces, Region
<1>5. pc[t] \notin Region /\ last' \in [Threads -> 0..MaxSec]
  <2>1. now \in 0..MaxSec /\ last \in [Threads -> 0..MaxSec]
    BY BoundAssumption DEF IInv, TypeOK
  <2> QED BY <1>1, <2>1 DEF Region
<1> HIDE DEF j
<1> QED BY <1>1, <1>3, <1>4, <1>5, Outside

(* What a search without a lock finds, and what the loop of a mark finds.   *)
LEMMA SearchIsIn ==
    ASSUME sect \in Tables, NEW sec \in SectionSet, NEW id, Search(sec, id) # 0
    PROVE  LET i == Search(sec, id)
           IN  /\ i \in DOMAIN sect[sec] /\ sect[sec][i].id = id
               /\ sec = "temp" => ~Deleted(sect[sec][i])
<1> DEFINE q == sect[sec]
           I == IF sec = "temp" THEN Live(q, id) ELSE With(q, id)
<1>1. DOMAIN q \subseteq Nat \ {0}
  <2>1. q \in Seq(Rec)
    BY DEF Tables
  <2> HIDE DEF q
  <2> QED BY <2>1
<1>2. I \in SUBSET (Nat \ {0}) /\ First(I) # 0
  BY <1>1 DEF Search, Live, With
<1>3. First(I) \in I
  <2> HIDE DEF I
  <2> QED BY <1>2, FirstFinds
<1> QED BY <1>3 DEF Search, Live, With

LEMMA MarkScanFinds ==
    ASSUME NEW t \in Threads, MarkScan(t), ~(Return(t) /\ UNCHANGED pclock),
           sect \in Tables, hdr \in Header, job \in [Threads -> JobType],
           pc \in [Threads -> Where]
    PROVE  \E p \in Nat, h \in Header :
             LET sec == Sections[job[t].sec]
                 j == [job[t] EXCEPT !.hdr = h, !.pos = p, !.copy = sect[sec][p]]
             IN  /\ h.temp = TempAt(sect) /\ p \in DOMAIN sect[sec]
                 /\ sect[sec][p].id = job[t].op.id
                 /\ job' = [job EXCEPT ![t] = j]
                 /\ \/ /\ pc' = [pc EXCEPT ![t] = "marklock"] /\ UNCHANGED pclock
                       /\ sect[sec][p].name = job[t].name
                    \/ pc' = [pc EXCEPT ![t] = "mark"] /\ Release(t)
<1> DEFINE sec == Sections[job[t].sec]
           q == sect[sec]
           head == IF job[t].pos = 0 THEN hdr ELSE job[t].hdr
           I == {k \in With(q, job[t].op.id) : k > Place(sec, head.temp, job[t].pos)}
           p == First(I)
           h == [head EXCEPT !.temp = TempAt(sect)]
           j == [job[t] EXCEPT !.hdr = h, !.pos = p, !.copy = q[p]]
<1>1. job[t] \in JobType /\ sec \in SectionSet
  BY SectionOfIndex DEF JobType
<1>2. h \in Header /\ h.temp = TempAt(sect)
  <2>1. head \in Header
    BY <1>1 DEF JobType
  <2>2. TempAt(sect) \in Nat
    BY DEF TempAt, Tables, SectionSet
  <2> HIDE DEF head
  <2> QED BY <2>1, <2>2 DEF Header
<1>3. /\ p # 0
      /\ job' = [job EXCEPT ![t] = [job[t] EXCEPT !.hdr = h, !.pos = p, !.copy = q[p]]]
      /\ \/ /\ pc' = [pc EXCEPT ![t] = "marklock"] /\ UNCHANGED pclock
            /\ q[p].name = job[t].name
         \/ /\ UNCHANGED pc /\ Release(t)
  <2>1. job' = [job EXCEPT ![t].hdr = h, ![t].pos = p, ![t].copy = q[p]]
        => job' = [job EXCEPT ![t] = [job[t] EXCEPT !.hdr = h, !.pos = p, !.copy = q[p]]]
    <3> HIDE DEF h, p, q
    <3> QED OBVIOUS
  <2> QED BY <2>1 DEF MarkScan, Goto
<1>4. p \in DOMAIN q /\ p \in Nat /\ q[p].id = job[t].op.id
  <2>1. q \in Seq(Rec)
    BY <1>1 DEF Tables
  <2>2. I \in SUBSET (Nat \ {0})
    <3> HIDE DEF q
    <3> QED BY <2>1 DEF With
  <2>3. p \in I
    <3> HIDE DEF I
    <3> QED BY <1>3, <2>2, FirstFinds
  <2> QED BY <2>1, <2>2, <2>3 DEF With
<1>5. pc = [pc EXCEPT ![t] = "mark"]
  BY DEF MarkScan, At
<1> HIDE DEF p, h
<1> USE <1>2, <1>3, <1>4, <1>5
<1> WITNESS p \in Nat, h \in Header
<1> QED OBVIOUS

(* A mark finds the file's name and copies its record, alone as it is.      *)
LEMMA FetchKeeps ==
    ASSUME NEW s, IInv(s), OneProc, NEW t \in Threads, Fetch(t) PROVE IInv(s)'
<1> DEFINE sec == Sections[job[t].sec]
           i == Search(sec, job[t].op.id)
           j == [job[t] EXCEPT !.name = sect[sec][i].name]
<1>1. /\ pc[t] = "fetch" /\ CallOK("fetch", job[t]) /\ pc[t] \notin Region
      /\ UNCHANGED <<sect, hdr, pclock, torn, last, now>>
      /\ last' \in [Threads -> 0..MaxSec]
  BY Before DEF Fetch, At, Region
<1>2. CASE Return(t)
  BY <1>1, <1>2, Before, Outside DEF Return, Goto
<1>3. CASE i # 0 /\ job' = [job EXCEPT ![t] = j] /\ pc' = [pc EXCEPT ![t] = "mark"]
  <2>1. j \in JobType /\ j.op = job[t].op
    <3>1. /\ sect[sec] \in Seq(Rec) /\ job[t] \in JobType
          /\ sect \in Tables /\ sec \in SectionSet
      BY Before, SectionOfIndex DEF Tables, JobType
    <3>2. i \in DOMAIN sect[sec]
      BY <1>3, <3>1, SearchIsIn
    <3>3. sect[sec][i].name \in Names
      <4>1. sect[sec][i] \in Rec
        <5> HIDE DEF sec, i
        <5> QED BY <3>1, <3>2
      <4> QED BY <4>1 DEF Rec
    <3> HIDE DEF sec, i
    <3> QED BY <3>1, <3>3 DEF JobType
  <2>2. CallOK("mark", j)
    BY <1>1, <2>1 DEF CallOK, MarkPlaces, Region
  <2> HIDE DEF j
  <2> QED BY <1>1, <1>3, <2>1, <2>2, Outside
<1> QED BY <1>2, <1>3 DEF Fetch, Goto

LEMMA MarkScanKeeps ==
    ASSUME NEW s, IInv(s), OneProc, NEW t \in Threads, MarkScan(t) PROVE IInv(s)'
<1>1. /\ pc[t] = "mark" /\ CallOK("mark", job[t]) /\ job[t] \in JobType
      /\ pc[t] \notin Region /\ pc[t] # "done" /\ OneThread
      /\ UNCHANGED <<sect, hdr, torn, last, now>>
      /\ sect' \in Tables /\ hdr' \in Header /\ torn' = FALSE
      /\ last' \in [Threads -> 0..MaxSec]
      /\ NoJob \in JobType /\ CallOK("idle", NoJob)
  BY Before DEF MarkScan, At, Region, CallOK, MarkPlaces
<1>2. Release(t) \/ UNCHANGED pclock => pclock' \in [Procs -> Threads \cup {NoThread}]
  BY DEF Release, IInv, TypeOK
<1>3. CASE Return(t) /\ UNCHANGED pclock
  <2>1. FoundOK("idle", NoJob, sect', hdr') /\ "idle" \in Where /\ "idle" \notin Region
    BY DEF FoundOK, Where, Region
  <2> QED BY <1>1, <1>3, <2>1, ThreadStep DEF Return, Goto
<1>4. CASE ~(Return(t) /\ UNCHANGED pclock)
  <2>1. PICK p \in Nat, h \in Header :
          LET sec == Sections[job[t].sec]
              j == [job[t] EXCEPT !.hdr = h, !.pos = p, !.copy = sect[sec][p]]
          IN  /\ h.temp = TempAt(sect) /\ p \in DOMAIN sect[sec]
              /\ job' = [job EXCEPT ![t] = j]
              /\ \/ pc' = [pc EXCEPT ![t] = "marklock"] /\ UNCHANGED pclock
                 \/ pc' = [pc EXCEPT ![t] = "mark"] /\ Release(t)
    <3>1. /\ sect \in Tables /\ hdr \in Header
          /\ job \in [Threads -> JobType] /\ pc \in [Threads -> Where]
      BY Before DEF IInv, TypeOK
    <3> QED BY <1>4, <3>1, MarkScanFinds
  <2> DEFINE sec == Sections[job[t].sec]
             r == sect[sec][p]
             j == [job[t] EXCEPT !.hdr = h, !.pos = p, !.copy = r]
  <2>2. r \in Rec
    <3>1. sec \in SectionSet /\ p \in DOMAIN sect[sec]
      BY <1>1, <2>1, SectionOfIndex DEF JobType
    <3>2. sect[sec] \in Seq(Rec)
      BY <3>1, Before DEF Tables
    <3> HIDE DEF sec
    <3> QED BY <3>1, <3>2
  <2>3. /\ j \in JobType /\ j.op = job[t].op /\ j.sec = job[t].sec
        /\ j.hdr = h /\ j.pos = p /\ j.copy = r
    <3> HIDE DEF r
    <3> QED BY <1>1, <2>2 DEF JobType
  <2>4. \A w \in {"mark", "marklock"} :
          /\ CallOK(w, j) /\ FoundOK(w, j, sect, hdr)
          /\ w \in Where /\ w \notin Region /\ w # "done"
    BY <1>1, <2>1, <2>3 DEF CallOK, MarkPlaces, Region, FoundOK, Where
  <2>5. PICK w \in {"mark", "marklock"} :
          pc' = [pc EXCEPT ![t] = w] /\ pclock' \in [Procs -> Threads \cup {NoThread}]
    BY <1>2, <2>1
  <2>6. job' = [job EXCEPT ![t] = j]
    BY <2>1
  <2>7. FoundOK(w, j, sect', hdr')
    BY <1>1, <2>4, <2>5
  <2> HIDE DEF j
  <2> QED BY <1>1, <2>3, <2>4, <2>5, <2>6, <2>7, ThreadStep
<1> QED BY <1>3, <1>4

LEMMA LockKeeps ==
    ASSUME NEW s, IInv(s), OneProc, NEW t \in Threads, Lock(t) PROVE IInv(s)'
<1>1. PICK w \in {"scan", "markwrite"} :
        /\ w = IF pc[t] = "lock" THEN "scan" ELSE "markwrite"
        /\ pc' = [pc EXCEPT ![t] = w]
  BY DEF Lock, Goto
<1>2. /\ pc[t] \in {"lock", "marklock"} /\ job' = [job EXCEPT ![t] = job[t]]
      /\ UNCHANGED <<sect, hdr, torn, last, now>>
      /\ \/ ThreadSafe /\ pclock[ProcOf[t]] = NoThread
            /\ pclock' = [pclock EXCEPT ![ProcOf[t]] = t]
         \/ ~ThreadSafe /\ pclock' = pclock
  BY Before DEF Lock, At
<1>3. CallOK(w, job[t]) /\ FoundOK(w, job[t], sect', hdr')
  <2>1. CASE pc[t] = "lock"
    BY <1>1, <1>2, <2>1, Before DEF CallOK, MarkPlaces, FoundOK, Region
  <2>2. CASE pc[t] = "marklock"
    BY <1>1, <1>2, <2>2, Before DEF CallOK, MarkPlaces, FoundOK, Region, TempAt
  <2> QED BY <1>2, <2>1, <2>2
<1>4. w \in Where /\ w # "done" /\ pc[t] # "done"
  BY <1>1, <1>2 DEF Where
<1>5. /\ sect' \in Tables /\ hdr' \in Header /\ torn' = FALSE
      /\ last' \in [Threads -> 0..MaxSec] /\ job[t] \in JobType
  BY <1>2, Before
<1> QED BY <1>1, <1>2, <1>3, <1>4, <1>5, ThreadStep

(* The record that a mark writes back is the one it copied.                 *)
LEMMA MarkWriteEffect ==
    ASSUME NEW s, IInv(s), NEW t \in Threads, MarkWrite(t)
    PROVE  LET sec == Sections[job[t].sec]
               p == job[t].pos
           IN  /\ sec \in SectionSet /\ p \in DOMAIN sect[sec]
               /\ sect[sec][p] \in Rec /\ torn' = FALSE /\ OneThread
               /\ sect' = [sect EXCEPT ![sec][p] = RuntimeFlag(sect[sec][p])]
<1> DEFINE sec == Sections[job[t].sec]
           p == job[t].pos
           q == sect[sec]
<1>1. /\ pc[t] = "markwrite" /\ CallOK("markwrite", job[t]) /\ job[t] \in JobType
      /\ FoundOK("markwrite", job[t], sect, hdr) /\ sect \in Tables /\ torn = FALSE
  BY Before DEF MarkWrite, At
<1>2. /\ OneThread /\ sec \in SectionSet /\ q \in Seq(Rec)
      /\ job[t].hdr.temp = TempAt(sect) /\ p \in DOMAIN q /\ job[t].copy = q[p]
  BY <1>1, SectionOfIndex DEF CallOK, MarkPlaces, FoundOK, JobType, Tables
<1>3. p \in Nat /\ p # 0 /\ q[p] \in Rec
  <2> HIDE DEF q
  <2> QED BY <1>2
<1>4. Place(sec, job[t].hdr.temp, p) = p
  <2>1. TempAt(sect) \in Nat
    BY <1>1 DEF TempAt, Tables, SectionSet
  <2> HIDE DEF p, sec
  <2> QED BY <1>2, <1>3, <2>1 DEF Place
<1>5. Overwrite(sec, p, RuntimeFlag(q[p]))
  BY <1>2, <1>4 DEF MarkWrite
<1> QED BY <1>1, <1>2, <1>3, <1>5 DEF Overwrite

LEMMA RuntimeFlagType == ASSUME NEW r \in Rec PROVE RuntimeFlag(r) \in Rec
BY DEF RuntimeFlag, Rec, Flags

LEMMA MarkWriteKeeps ==
    ASSUME NEW s \in {"interOut", "temp"}, IInv(s), OneProc, NEW t \in Threads, MarkWrite(t)
    PROVE  IInv(s)'
<1> DEFINE sec == Sections[job[t].sec]
           p == job[t].pos
           q == [sect[sec] EXCEPT ![p] = RuntimeFlag(@)]
<1>1. /\ sec \in SectionSet /\ p \in DOMAIN sect[sec] /\ sect[sec][p] \in Rec
      /\ torn' = FALSE /\ OneThread /\ sect \in Tables
      /\ sect' = [sect EXCEPT ![sec] = q]
  BY MarkWriteEffect, Before
<1>2. q \in Seq(Rec) /\ Len(q) = Len(sect[sec])
  BY <1>1, RuntimeFlagType DEF Tables
<1> HIDE DEF q
<1>3. /\ pc[t] = "markwrite" /\ UNCHANGED <<hdr, last, now>>
      /\ pc' = [pc EXCEPT ![t] = "idle"] /\ job' = [job EXCEPT ![t] = NoJob]
      /\ pclock' \in [Procs -> Threads \cup {NoThread}]
  BY DEF MarkWrite, At, Return, Goto, Release, IInv, TypeOK
<1>4. /\ sect' \in Tables /\ \A u \in SectionSet : Len(sect'[u]) = Len(sect[u])
  <2> HIDE DEF sec
  <2> QED BY <1>1, <1>2 DEF Tables
<1>5. /\ FoundOK("idle", NoJob, sect', hdr') /\ ~Pends("idle", NoJob)
      /\ "idle" \in Where /\ "idle" \notin Region
  BY DEF FoundOK, Pends, Where, Region
<1>6. LayoutAt(s, sect', hdr', FALSE)
  <2>1. ~Pending
    BY <1>1, <1>3 DEF Pending, Pends, OneThread
  <2>2. LayoutAt(s, sect, hdr, FALSE)
    <3> HIDE DEF Pending
    <3> QED BY <2>1 DEF IInv, LayoutAt
  <2>3. \A u \in {"interOut", "temp"} : u # s => sect'[u] = <<>>
    <3> TAKE u \in {"interOut", "temp"}
    <3> HAVE u # s
    <3>1. sect[u] = <<>> /\ u \in SectionSet
      BY <2>2 DEF LayoutAt, SectionSet
    <3>2. u # sec
      BY <1>1, <3>1
    <3> QED BY <1>1, <3>1, <3>2
  <2> QED BY <1>3, <1>4, <2>2, <2>3 DEF LayoutAt, SectionSet
<1>7. LayoutAt(s, sect', hdr', Pends("idle", NoJob))
  BY <1>5, <1>6 DEF LayoutAt
<1>8. /\ hdr' \in Header /\ last' \in [Threads -> 0..MaxSec]
      /\ NoJob \in JobType /\ CallOK("idle", NoJob)
  BY <1>3, Before
<1> QED BY <1>1, <1>3, <1>4, <1>5, <1>7, <1>8, ThreadStep

LEMMA ScanKeeps ==
    ASSUME NEW s \in {"interOut", "temp"}, IInv(s), OneProc, CallsIn(s),
           NEW t \in Threads, Scan(t)
    PROVE  IInv(s)'
<1> DEFINE op  == job[t].op
           sec == Target(job[t])
           q   == sect[sec]
           i   == First(Live(q, op.id))
           new == NewRec(job[t])
           J(p, r, ins) == [job[t] EXCEPT !.pos = p, !.copy = r,
                                          !.insert = ins, !.hdr = hdr]
           Found(p, r, ins) == /\ job' = [job EXCEPT ![t] = J(p, r, ins)]
                               /\ pc' = [pc EXCEPT ![t] = "write"]
           old == IF op.kind = "delete" THEN q[i] ELSE new
<1>1. /\ pc[t] = "scan" /\ CallOK("scan", job[t]) /\ job[t] \in JobType
      /\ UNCHANGED <<sect, hdr, pclock, torn, last, now>>
  BY Before DEF Scan, At
<1>2. /\ op \in Ops /\ op.kind \in {"create", "delete"} /\ op.id \in Ids
      /\ op.sec \in {"interOut", "temp"} /\ sec \in {"interOut", "temp"}
      /\ op.kind = "create" => job[t].name \in Names
  BY <1>1, OpKinds DEF CallOK, MarkPlaces, Region, Target
<1>3. q \in Seq(Rec) /\ (i # 0 => i \in DOMAIN q) /\ Len(q) \in Nat
  <2>1. q \in Seq(Rec)
    BY <1>2, Before DEF Tables, SectionSet
  <2> HIDE DEF q
  <2> QED BY <2>1, SearchFinds
<1>4. op.kind = "create" => new \in Rec
  BY <1>2, SMT DEF NewRec, Rec, Flags
<1>5. DividerOK(sec)
  BY <1>1, <1>2, NothingPends, HeaderRight DEF Region, SectionSet
<1>6. /\ sect' \in Tables /\ hdr' \in Header /\ torn' = FALSE
      /\ hdr \in Header /\ last' \in [Threads -> 0..MaxSec]
  BY <1>1, Before
<1>7. pc[t] \in Region /\ pc[t] # "done" /\ {"write", "unlock"} \subseteq Where
  BY <1>1 DEF Region, Where
<1>8. \/ pc' = [pc EXCEPT ![t] = "unlock"] /\ UNCHANGED job
      \/ i # 0 /\ Found(i, old, FALSE)
      \/ i = 0 /\ op.kind = "create" /\ hdr.used < Spare /\ Found(Len(q) + 1, new, TRUE)
  BY <1>2, <1>5 DEF Scan, Goto, Target, NewRec, HasRoom
<1>9. CASE pc' = [pc EXCEPT ![t] = "unlock"] /\ UNCHANGED job
  <2>1. CallOK("unlock", job[t]) /\ FoundOK("unlock", job[t], sect', hdr')
    BY <1>1 DEF CallOK, MarkPlaces, Region, FoundOK
  <2>2. job' = [job EXCEPT ![t] = job[t]]
    BY <1>9, Before
  <2> QED BY <1>1, <1>6, <1>7, <1>9, <2>1, <2>2, ThreadStep
<1>10. ASSUME NEW p \in Nat, NEW r \in Rec, NEW ins \in BOOLEAN, Found(p, r, ins),
              \/ ins /\ op.kind = "create" /\ i = 0 /\ hdr.used < Spare
                 /\ p = Len(q) + 1 /\ r = new
              \/ ~ins /\ i # 0 /\ p = i /\ r = old
       PROVE  IInv(s)'
  <2> DEFINE j == J(p, r, ins)
  <2>1. /\ j \in JobType /\ j.op = op /\ j.name = job[t].name
        /\ j.pos = p /\ j.copy = r /\ j.insert = ins /\ j.hdr = hdr
    BY <1>1, <1>6 DEF JobType
  <2>2. Target(j) = sec /\ NewRec(j) = new
    BY <2>1 DEF Target, NewRec
  <2>3. CallOK("write", j)
    BY <1>1, <2>1 DEF CallOK, MarkPlaces, Region
  <2>4. job' = [job EXCEPT ![t] = j] /\ pc' = [pc EXCEPT ![t] = "write"]
    BY <1>10
  <2> HIDE DEF j
  <2>5. FoundOK("write", j, sect, hdr)
    BY <1>10, <2>1, <2>2 DEF FoundOK
  <2>6. FoundOK("write", j, sect', hdr')
    BY <1>1, <2>5
  <2> QED BY <1>1, <1>6, <1>7, <2>1, <2>3, <2>4, <2>6, ThreadStep
<1>11. CASE i # 0 /\ Found(i, old, FALSE)
  <2>1. i \in Nat /\ old \in Rec
    BY <1>2, <1>3, <1>4, <1>11
  <2> HIDE DEF i, old, Found
  <2> QED BY <1>10, <1>11, <2>1
<1>12. CASE i = 0 /\ op.kind = "create" /\ hdr.used < Spare /\ Found(Len(q) + 1, new, TRUE)
  <2>1. Len(q) + 1 \in Nat /\ new \in Rec
    BY <1>3, <1>4, <1>12
  <2> HIDE DEF i, new, q, Found
  <2> QED BY <1>10, <1>12, <2>1
<1> QED BY <1>8, <1>9, <1>11, <1>12

----------------------------------------------------------------------------
(* A record inserted at the end of the image is appended to its section.    *)
LEMMA InsertAtEnd ==
    ASSUME NEW im \in Tables, NEW sec \in {"interOut", "temp"}, NEW new \in Rec,
           sec = "interOut" => im["temp"] = <<>>
    PROVE  InsertAt(im, sec, Len(im[sec]) + 1, new)
               = [im EXCEPT ![sec] = Append(im[sec], new)]
<1> DEFINE q == im[sec]
           n == Len(q)
           q1 == Append(q, new)
           nothing == <<>>
           front == SubSeq(q, 1, n + 1 - 1)
           rest == SubSeq(q, n + 1, n)
           tail == IF sec = "temp" THEN <<>> ELSE im["temp"]
           all == front \o Shifted(new, rest \o tail)
           behind == SubSeq(all, n + 1 + 1, Len(all))
<1> SUFFICES InsertAt(im, sec, n + 1, new) = [im EXCEPT ![sec] = q1]
  OBVIOUS
<1>1. q \in Seq(Rec) /\ n \in Nat
  BY DEF Tables, SectionSet
<1>2. InsertAt(im, sec, n + 1, new) =
         IF sec = "temp" THEN [im EXCEPT !["temp"] = all]
         ELSE [im EXCEPT !["interOut"] = SubSeq(all, 1, n + 1), !["temp"] = behind]
  BY DEF InsertAt
<1>3. front = q /\ rest = nothing
  <2> HIDE DEF q
  <2> QED BY <1>1
<1>4. tail = nothing
  OBVIOUS
<1>5. q \o <<new>> = q1 /\ q1 \in Seq(Rec) /\ Len(q1) = n + 1
  <2> HIDE DEF q
  <2> QED BY <1>1
<1>6. all = q1
  <2>1. nothing \o nothing = nothing
    OBVIOUS
  <2>2. Shifted(new, nothing) = <<new>>
    BY DEF Shifted
  <2> HIDE DEF front, rest, tail, nothing, q, q1
  <2> QED BY <1>3, <1>4, <1>5, <2>1, <2>2
<1>7. SubSeq(all, 1, n + 1) = q1 /\ behind = nothing
  <2> HIDE DEF all, q1, q
  <2> QED BY <1>1, <1>5, <1>6
<1>8. CASE sec = "temp"
  <2> HIDE DEF all, q1
  <2> QED BY <1>2, <1>6, <1>8
<1>9. CASE sec = "interOut"
  <2>1. im["temp"] = nothing
    BY <1>9
  <2>2. InsertAt(im, sec, n + 1, new) = [im EXCEPT !["interOut"] = q1, !["temp"] = nothing]
    <3> HIDE DEF all, q1, behind, nothing
    <3> QED BY <1>2, <1>7, <1>9
  <2> HIDE DEF q1, nothing
  <2> QED BY <1>9, <2>1, <2>2 DEF Tables, SectionSet
<1> QED BY <1>8, <1>9

(* What Write does to the image: the insertion at the end of its section,   *)
(* or the replacement of the record that Scan found, which is still there.  *)
LEMMA WriteEffect ==
    ASSUME NEW s \in {"interOut", "temp"}, IInv(s), OneProc, CallsIn(s),
           NEW t \in Threads, Write(t)
    PROVE  LET j   == job[t]
               sec == Target(j)
               q   == sect[sec]
               i   == First(Live(q, j.op.id))
           IN  /\ torn' = FALSE /\ j.op \in Ops
               /\ \/ /\ j.insert /\ j.op.kind = "create" /\ i = 0 /\ hdr.used < Spare
                     /\ sec = s /\ NewRec(j) \in Rec
                     /\ sect' = [sect EXCEPT ![s] = Append(sect[s], NewRec(j))]
                  \/ /\ ~j.insert /\ i \in DOMAIN q /\ j.op.kind = "create"
                     /\ sec = s /\ NewRec(j) \in Rec
                     /\ sect' = [sect EXCEPT ![s][i] = NewRec(j)]
                  \/ /\ ~j.insert /\ i \in DOMAIN q /\ j.op.kind = "delete"
                     /\ sec = "temp"
                     /\ sect' = [sect EXCEPT !["temp"][i] = DeleteFlag(q[i])]
<1> DEFINE j   == job[t]
           sec == Target(j)
           q   == sect[sec]
           i   == First(Live(q, j.op.id))
<1>1. /\ pc[t] = "write" /\ CallOK("write", j) /\ FoundOK("write", j, sect, hdr)
      /\ j \in JobType /\ sect \in Tables /\ hdr \in Header /\ torn = FALSE
  BY Before DEF Write, At
<1>2. /\ j.op \in Ops /\ j.op.kind \in {"create", "delete"} /\ j.op.id \in Ids
      /\ sec \in {"interOut", "temp"}
      /\ j.op.kind = "create" => j.name \in Names /\ sec = s
      /\ j.op.kind = "delete" => sec = "temp"
  BY <1>1, OpKinds DEF CallOK, MarkPlaces, Region, Target
<1>3. q \in Seq(Rec) /\ (i # 0 => i \in DOMAIN q) /\ Len(q) \in Nat
  <2>1. q \in Seq(Rec)
    BY <1>1, <1>2 DEF Tables, SectionSet
  <2> HIDE DEF q
  <2> QED BY <2>1, SearchFinds
<1>4. j.op.kind = "create" => NewRec(j) \in Rec
  BY <1>2, SMT DEF NewRec, Rec, Flags
<1>5. hdr.temp = TempAt(sect) /\ hdr.temp \in Nat
  BY <1>1, NothingPends, HeaderRight DEF Region, Header
<1>6. ASSUME NEW p \in Nat \ {0} PROVE Place(sec, hdr.temp, p) = p
  BY <1>5, <1>6 DEF Place
<1>7. /\ j.hdr = hdr
      /\ \/ /\ j.insert /\ j.op.kind = "create" /\ i = 0
            /\ hdr.used < Spare
            /\ j.pos = Len(q) + 1 /\ j.copy = NewRec(j)
         \/ /\ ~j.insert /\ i # 0 /\ j.pos = i
            /\ j.copy = IF j.op.kind = "delete" THEN q[i] ELSE NewRec(j)
  BY <1>1 DEF FoundOK
<1>8. j.pos \in Nat \ {0}
  <2> HIDE DEF q, i, j
  <2> QED BY <1>3, <1>7
<1>9. IF j.insert THEN Insert(sec, j.pos, j.copy)
      ELSE Overwrite(sec, j.pos, IF j.op.kind = "delete" THEN DeleteFlag(j.copy)
                                 ELSE j.copy)
  <2>1. Place(sec, j.hdr.temp, j.pos) = j.pos
    BY <1>6, <1>7, <1>8
  <2> QED BY <2>1 DEF Write, Target
<1>10. CASE j.insert
  <2>1. /\ j.op.kind = "create" /\ i = 0 /\ hdr.used < Spare /\ sec = s
        /\ j.pos = Len(q) + 1 /\ j.copy = NewRec(j) /\ NewRec(j) \in Rec
    BY <1>2, <1>4, <1>7, <1>10
  <2>2. s = "interOut" => sect["temp"] = <<>>
    BY DEF IInv, LayoutAt
  <2>3. sect' = InsertAt(sect, s, Len(sect[s]) + 1, NewRec(j)) /\ torn' = torn
    BY <1>8, <1>9, <1>10, <2>1 DEF Insert
  <2>4. ASSUME NEW r \in Rec
        PROVE  InsertAt(sect, s, Len(sect[s]) + 1, r)
                   = [sect EXCEPT ![s] = Append(sect[s], r)]
    <3>1. sect \in Tables /\ s \in {"interOut", "temp"}
      BY <1>1
    <3> QED BY <2>2, <3>1, InsertAtEnd
  <2>5. sect' = [sect EXCEPT ![s] = Append(sect[s], NewRec(j))]
    BY <2>1, <2>3, <2>4
  <2> QED BY <1>1, <1>2, <1>10, <2>1, <2>3, <2>5
<1>11. CASE ~j.insert
  <2>1. i \in DOMAIN q /\ j.pos = i /\ i # 0
        /\ j.copy = IF j.op.kind = "delete" THEN q[i] ELSE NewRec(j)
    BY <1>3, <1>7, <1>11
  <2>2. /\ torn' = torn
        /\ sect' = [sect EXCEPT ![sec][i] = IF j.op.kind = "delete" THEN DeleteFlag(q[i])
                                             ELSE NewRec(j)]
    BY <1>9, <1>11, <2>1 DEF Overwrite
  <2> QED BY <1>1, <1>2, <1>4, <1>11, <2>1, <2>2
<1> QED BY <1>10, <1>11

LEMMA DeleteFlagType == ASSUME NEW r \in Rec PROVE DeleteFlag(r) \in Rec
BY DEF DeleteFlag, Rec, Flags

LEMMA WriteKeeps ==
    ASSUME NEW s \in {"interOut", "temp"}, IInv(s), OneProc, CallsIn(s),
           NEW t \in Threads, Write(t)
    PROVE  IInv(s)'
<1> DEFINE j   == job[t]
           sec == Target(j)
           q   == sect[sec]
           i   == First(Live(q, j.op.id))
           new == NewRec(j)
<1>1. /\ pc[t] = "write" /\ CallOK("write", j) /\ j \in JobType
      /\ sect \in Tables /\ hdr \in Header /\ last \in [Threads -> 0..MaxSec]
      /\ FoundOK("write", j, sect, hdr)
  BY Before DEF Write, At
<1>2. /\ pc' = [pc EXCEPT ![t] = "done"] /\ job' = [job EXCEPT ![t] = j]
      /\ UNCHANGED <<hdr, pclock, last, now>>
  BY Before DEF Write, Goto
<1>3. torn' = FALSE /\ j.op \in Ops
  BY WriteEffect
<1>4. CallOK("done", j) /\ j.hdr = hdr
  BY <1>1 DEF CallOK, MarkPlaces, Region, FoundOK
<1>5. /\ Len(sect["interIn"]) = Cardinality(InterIn)
      /\ \A u \in {"interOut", "temp"} : u # s => sect[u] = <<>>
      /\ hdr.temp = Cardinality(InterIn) + (IF s = "interOut" THEN hdr.used ELSE 0)
  BY DEF IInv, LayoutAt
<1>6. Len(sect[s]) = hdr.used /\ hdr.used \in Nat
  <2>1. ~Pending
    BY <1>1, NothingPends DEF Region
  <2> QED BY <1>1, <2>1, HeaderRight, BoundAssumption DEF Header
<1>7. /\ sect' \in Tables /\ LayoutAt(s, sect', hdr', Pends("done", j))
      /\ FoundOK("done", j, sect', hdr')
  <2> DEFINE p == sect[s]
  <2>0. p \in Seq(Rec)
    BY <1>1 DEF Tables, SectionSet
  <2>1. CASE /\ j.insert /\ j.op.kind = "create" /\ hdr.used < Spare
             /\ sec = s /\ new \in Rec
             /\ sect' = [sect EXCEPT ![s] = Append(p, new)]
    <3> DEFINE q1 == Append(p, new)
    <3>1. /\ q1 \in Seq(Rec) /\ Len(q1) = hdr.used + 1
          /\ hdr.used + 1 \in DOMAIN q1 /\ q1[hdr.used + 1] = new
      <4> HIDE DEF new
      <4> QED BY <1>6, <2>0, <2>1
    <3>2. sect' = [sect EXCEPT ![s] = q1]
      BY <2>1
    <3> HIDE DEF q1, new
    <3>3. sect' \in Tables /\ sect'[s] = q1 /\ \A u \in SectionSet \ {s} : sect'[u] = sect[u]
      BY <1>1, <3>1, <3>2 DEF Tables, SectionSet
    <3>4. LayoutAt(s, sect', hdr', Pends("done", j))
      <4>1. Pends("done", j)
        BY <2>1 DEF Pends
      <4> QED BY <1>2, <1>5, <1>6, <3>1, <3>3, <4>1 DEF LayoutAt, SectionSet
    <3>5. FoundOK("done", j, sect', hdr')
      BY <1>2, <1>4, <2>1, <3>1, <3>3 DEF FoundOK, new
    <3> QED BY <3>3, <3>4, <3>5
  <2>2. ASSUME ~j.insert, i \in DOMAIN q, NEW r \in Rec,
               sec = s \/ (sec = "temp" /\ j.op.kind = "delete"),
               j.op.kind = "create" => r = new,
               sect' = [sect EXCEPT ![sec][i] = r]
        PROVE  /\ sect' \in Tables /\ LayoutAt(s, sect', hdr', Pends("done", j))
               /\ FoundOK("done", j, sect', hdr')
    <3> DEFINE q1 == [q EXCEPT ![i] = r]
    <3>0. sec \in {"interOut", "temp"} /\ q \in Seq(Rec)
      BY <1>1, <2>2 DEF Tables, SectionSet
    <3>1. q1 \in Seq(Rec) /\ Len(q1) = Len(q) /\ i \in DOMAIN q1 /\ q1[i] = r
      <4> HIDE DEF q, i
      <4> QED BY <2>2, <3>0
    <3>2. sect' = [sect EXCEPT ![sec] = q1]
      BY <2>2
    <3>2a. sec = s
      <4>1. sect["temp"] = <<>> => DOMAIN sect["temp"] = {}
        OBVIOUS
      <4> QED BY <1>5, <2>2, <4>1
    <3> HIDE DEF q1, i
    <3>3. sect' \in Tables /\ sect'[s] = q1 /\ \A u \in SectionSet \ {s} : sect'[u] = sect[u]
      BY <1>1, <3>0, <3>1, <3>2, <3>2a DEF Tables, SectionSet
    <3>4. LayoutAt(s, sect', hdr', Pends("done", j))
      <4>1. ~Pends("done", j)
        BY <2>2 DEF Pends
      <4> QED BY <1>2, <1>5, <1>6, <3>1, <3>2a, <3>3, <4>1 DEF LayoutAt, SectionSet
    <3>5. FoundOK("done", j, sect', hdr')
      BY <1>2, <1>4, <2>2, <3>1, <3>2a, <3>3 DEF FoundOK
    <3> QED BY <3>3, <3>4, <3>5
  <2>3. CASE /\ ~j.insert /\ i \in DOMAIN q /\ j.op.kind = "create"
             /\ sec = s /\ new \in Rec
             /\ sect' = [sect EXCEPT ![s][i] = new]
    <3> HIDE DEF q, i, new
    <3> QED BY <2>2, <2>3
  <2>4. CASE /\ ~j.insert /\ i \in DOMAIN q /\ j.op.kind = "delete" /\ sec = "temp"
             /\ sect' = [sect EXCEPT !["temp"][i] = DeleteFlag(q[i])]
    <3>1. q[i] \in Rec
      BY <1>1, <2>4 DEF Tables, SectionSet
    <3>2. DeleteFlag(q[i]) \in Rec /\ j.op.kind # "create"
      BY <2>4, <3>1, DeleteFlagType
    <3> HIDE DEF q, i, new, sec
    <3> QED BY <2>2, <2>4, <3>2
  <2> QED BY <2>1, <2>3, <2>4, WriteEffect
<1>8. pc[t] \in Region /\ "done" \in Where /\ hdr' \in Header
      /\ last' \in [Threads -> 0..MaxSec]
  BY <1>1, <1>2 DEF Region, Where
<1> HIDE DEF j
<1> QED BY <1>1, <1>2, <1>3, <1>4, <1>7, <1>8, ThreadStep

LEMMA DoneKeeps ==
    ASSUME NEW s \in {"interOut", "temp"}, IInv(s), OneProc, CallsIn(s),
           NEW t \in Threads, Done(t)
    PROVE  IInv(s)'
<1> DEFINE j == job[t]
<1>1. /\ pc[t] = "done" /\ CallOK("done", j) /\ FoundOK("done", j, sect, hdr)
      /\ sect \in Tables /\ hdr \in Header /\ last \in [Threads -> 0..MaxSec]
      /\ torn = FALSE /\ NoJob \in JobType /\ CallOK("idle", NoJob)
  BY Before DEF Done, At
<1>2. /\ pc' = [pc EXCEPT ![t] = "idle"] /\ job' = [job EXCEPT ![t] = NoJob]
      /\ hdr' = IF j.insert THEN NewHeader(j.hdr, j.op.sec) ELSE hdr
      /\ pclock' = IF ThreadSafe THEN [pclock EXCEPT ![ProcOf[t]] = NoThread] ELSE pclock
      /\ UNCHANGED <<sect, torn, last, now>>
  BY DEF Done, Return, Goto, Release
<1>3. /\ j.op \in Ops /\ j.hdr = hdr
      /\ j.insert => j.op.sec = s /\ hdr.used < Spare
  BY <1>1, OpKinds DEF CallOK, MarkPlaces, FoundOK
<1>4. LayoutAt(s, sect, hdr, j.insert)
  <2>1. Pending <=> j.insert
    <3>1. \A u \in Threads : pc[u] = "done" => u = t
      BY <1>1, Exclusive DEF Region
    <3> QED BY <1>1, <3>1 DEF Pending, Pends
  <2>2. LayoutAt(s, sect, hdr, Pending)
    BY DEF IInv
  <2> HIDE DEF Pending
  <2> QED BY <2>1, <2>2 DEF LayoutAt
<1>5. hdr.used \in Nat /\ hdr.temp \in Nat /\ Cardinality(InterIn) \in Nat /\ Spare \in Nat
  BY <1>1, BoundAssumption, IdAssumption, FS_CardinalityType DEF Header
<1>6. hdr' \in Header /\ LayoutAt(s, sect', hdr', FALSE)
  <2>1. CASE j.insert
    <3>1. hdr' = [temp |-> hdr.temp + (IF s = "temp" THEN 0 ELSE 1), used |-> hdr.used + 1]
      BY <1>2, <1>3, <2>1 DEF NewHeader
    <3>2. hdr' \in Header
      BY <1>3, <1>5, <2>1, <3>1 DEF Header
    <3>3. /\ hdr'.used = hdr.used + 1 /\ sect' = sect
          /\ hdr'.temp = hdr.temp + (IF s = "temp" THEN 0 ELSE 1)
      BY <1>2, <3>1
    <3>4. /\ Len(sect["interIn"]) = Cardinality(InterIn)
          /\ \A u \in {"interOut", "temp"} : u # s => sect[u] = <<>>
          /\ Len(sect[s]) = hdr.used + 1
          /\ hdr.temp = Cardinality(InterIn) + (IF s = "interOut" THEN hdr.used ELSE 0)
      BY <1>4, <2>1 DEF LayoutAt
    <3>5. Len(sect[s]) = hdr'.used + 0
      BY <1>5, <3>3, <3>4
    <3>6. hdr'.temp = Cardinality(InterIn) + (IF s = "interOut" THEN hdr'.used ELSE 0)
      BY <1>5, <3>3, <3>4
    <3>7. LayoutAt(s, sect', hdr', FALSE)
      BY <3>3, <3>4, <3>5, <3>6 DEF LayoutAt
    <3> QED BY <3>2, <3>7
  <2>2. CASE ~j.insert
    BY <1>1, <1>2, <1>4, <2>2 DEF LayoutAt
  <2> QED BY <2>1, <2>2
<1>7. ~Pends("idle", NoJob) /\ FoundOK("idle", NoJob, sect', hdr')
  BY DEF Pends, FoundOK
<1>8. LayoutAt(s, sect', hdr', Pends("idle", NoJob))
  BY <1>6, <1>7 DEF LayoutAt
<1>9. /\ pc[t] \in Region /\ "idle" \notin Region /\ "idle" \in Where
      /\ sect' \in Tables /\ torn' = FALSE /\ last' \in [Threads -> 0..MaxSec]
  BY <1>1, <1>2 DEF Region, Where
<1> HIDE DEF j
<1> QED BY <1>1, <1>2, <1>6, <1>7, <1>8, <1>9, ThreadStep

LEMMA UnlockKeeps ==
    ASSUME NEW s, IInv(s), OneProc, NEW t \in Threads, Unlock(t) PROVE IInv(s)'
<1>1. /\ pc[t] = "unlock" /\ NoJob \in JobType /\ CallOK("idle", NoJob)
      /\ pc' = [pc EXCEPT ![t] = "idle"] /\ job' = [job EXCEPT ![t] = NoJob]
      /\ pclock' = IF ThreadSafe THEN [pclock EXCEPT ![ProcOf[t]] = NoThread] ELSE pclock
      /\ UNCHANGED <<sect, hdr, torn, last, now>>
  BY Before DEF Unlock, At, Return, Goto, Release
<1>2. /\ sect' \in Tables /\ hdr' \in Header /\ torn' = FALSE
      /\ last' \in [Threads -> 0..MaxSec]
  BY <1>1, Before
<1>3. FoundOK("idle", NoJob, sect', hdr')
  BY DEF FoundOK
<1>4. pc[t] \in Region /\ "idle" \notin Region /\ "idle" \in Where /\ pc[t] # "done"
  BY <1>1 DEF Region, Where
<1> QED BY <1>1, <1>2, <1>3, <1>4, ThreadStep

LEMMA InitIInv == ASSUME NEW s \in {"interOut", "temp"}, Init PROVE IInv(s)
<1>1. PICK l \in Listings(InterIn, Cardinality(InterIn)) : sect = Loaded(l)
  BY DEF Init
<1>2. /\ hdr = [temp |-> Cardinality(InterIn), used |-> 0]
      /\ pclock = [p \in Procs |-> NoThread] /\ pc = [t \in Threads |-> "idle"]
      /\ job = [t \in Threads |-> NoJob] /\ torn = FALSE
      /\ last = [t \in Threads |-> 0] /\ now = 1
  BY DEF Init
<1>3. Cardinality(InterIn) \in Nat
  BY IdAssumption, FS_CardinalityType
<1>4. sect \in [SectionSet -> Seq(Rec)]
  <2>1. \A d \in InterIn : [id |-> d, name |-> PcfName(d), flag |-> ""] \in Rec
    BY IdAssumption DEF Rec, Names, Flags
  <2> QED BY <1>1, <1>3, <2>1, LoadedType
<1>5. NoJob \in JobType /\ hdr \in Header
  <2>1. NoJob.op \in Ops \cup {NoJob.op} /\ [temp |-> 0, used |-> 0] \in Header
    BY BoundAssumption DEF Header
  <2> QED BY <1>2, <1>3, <2>1, BoundAssumption DEF NoJob, JobType, Header
<1>6. TypeOK /\ ~torn /\ sect \in Tables /\ job \in [Threads -> JobType]
  <2>1. \A u \in SectionSet : sect[u] \in Seq(Rec)
    BY <1>4
  <2>2. hdr \in [temp : Nat, used : 0..Spare]
    BY <1>5 DEF Header
  <2>3. /\ pclock \in [Procs -> Threads \cup {NoThread}]
        /\ pc \in [Threads -> Where] /\ job \in [Threads -> JobType]
    BY <1>2, <1>5 DEF Where
  <2>4. last \in [Threads -> 0..MaxSec] /\ now \in 1..MaxSec
    BY <1>2, BoundAssumption
  <2> QED BY <1>2, <1>4, <2>1, <2>2, <2>3, <2>4 DEF TypeOK, Tables
<1>7. /\ HeldOK /\ ~Pending
      /\ \A t \in Threads : CallOK(pc[t], job[t]) /\ FoundOK(pc[t], job[t], sect, hdr)
  BY <1>2 DEF HeldOK, CallOK, MarkPlaces, FoundOK, Pending, Pends, Region
<1>8. LayoutAt(s, sect, hdr, Pending)
  <2>1. DOMAIN l = 1..Cardinality(InterIn)
    BY DEF Listings
  <2>2. /\ DOMAIN sect["interIn"] = 1..Cardinality(InterIn)
        /\ sect["interOut"] = <<>> /\ sect["temp"] = <<>>
    BY <1>1, <2>1 DEF Loaded, SectionSet
  <2>3. Len(sect["interIn"]) = Cardinality(InterIn)
    BY <1>3, <1>4, <2>2 DEF SectionSet
  <2>4. Len(sect[s]) = 0
    BY <2>2
  <2> HIDE DEF Pending
  <2> QED BY <1>2, <1>3, <1>7, <2>2, <2>3, <2>4 DEF LayoutAt
<1> QED BY <1>6, <1>7, <1>8 DEF IInv

LEMMA NextIInv ==
    ASSUME NEW s \in {"interOut", "temp"}, IInv(s), OneProc, CallsIn(s), [Next]_vars
    PROVE  IInv(s)'
<1>1. CASE Tick
  <2>1. now' \in 1..MaxSec
    BY <1>1, BoundAssumption DEF Tick, IInv, TypeOK
  <2> QED BY <1>1, <2>1 DEF Tick, IInv, TypeOK, HeldOK, LayoutAt, Pending
<1>2. CASE Rest \/ UNCHANGED vars
  BY <1>2, SMTT(60) DEF Rest, vars, IInv, TypeOK, HeldOK, LayoutAt, Pending
<1>3. ASSUME NEW t \in Threads, Step(t) PROVE IInv(s)'
  BY <1>3, LookupKeeps, NameKeeps, LockKeeps, ScanKeeps, WriteKeeps, DoneKeeps,
     UnlockKeeps, FetchKeeps, MarkScanKeeps, MarkWriteKeeps DEF Step
<1> QED BY <1>1, <1>2, <1>3, BeginKeeps DEF Next

----------------------------------------------------------------------------
(* One process, all creations in one section, and marks by a thread alone. *)
OneSection(s) == s \in {"interOut", "temp"} /\ OneProc /\ CallsIn(s)

LEMMA AlwaysIInv == ASSUME NEW s, OneSection(s) PROVE Spec => []IInv(s)
<1>1. Init => IInv(s)
  BY InitIInv DEF OneSection
<1>2. IInv(s) /\ [Next]_vars => IInv(s)'
  BY NextIInv DEF OneSection
<1> QED BY <1>1, <1>2, PTL DEF Spec

(* The variables keep their types.                                          *)
THEOREM TypeCorrect == ASSUME NEW s, OneSection(s) PROVE Spec => []TypeOK
<1>1. IInv(s) => TypeOK
  BY DEF IInv
<1> QED BY AlwaysIInv, <1>1, PTL

(* Two threads are never both between LockIt and UnlockIt.                  *)
THEOREM LockIsExclusive == ASSUME NEW s, OneSection(s) PROVE Spec => []LockExclusive
<1>1. IInv(s) => LockExclusive
  <2> SUFFICES ASSUME IInv(s), NEW t \in Threads, NEW u \in Threads, Inside(t), Inside(u)
               PROVE  t = u
    BY DEF LockExclusive
  <2>1. OneThread \/ (pc[t] \in Region /\ pc[u] \in Region)
    BY DEF IInv, CallOK, MarkPlaces, Inside, Region
  <2> QED BY <2>1, Exclusive DEF OneSection, OneThread
<1> QED BY AlwaysIInv, <1>1, PTL

(* What a create has written is in the table when the create returns.       *)
THEOREM CreatedIsFound == ASSUME NEW s, OneSection(s) PROVE Spec => []PutIsFound
<1>1. IInv(s) => PutIsFound
  <2> SUFFICES ASSUME IInv(s), NEW t \in Threads, pc[t] = "done",
                      job[t].op.kind = "create"
               PROVE  \E r \in {sect[job[t].op.sec][i] : i \in DOMAIN sect[job[t].op.sec]} :
                        r = [id |-> job[t].op.id, name |-> job[t].name, flag |-> ""]
    BY DEF PutIsFound
  <2>1. \E i \in DOMAIN sect[Target(job[t])] : sect[Target(job[t])][i] = NewRec(job[t])
    BY DEF IInv, FoundOK
  <2> QED BY <2>1 DEF Target, NewRec
<1> QED BY AlwaysIInv, <1>1, PTL

(* Outside an insertion the header says where the sections are and how much *)
(* of the segment is used.                                                  *)
THEOREM HeaderIsExact == ASSUME NEW s, OneSection(s) PROVE Spec => []HeaderAgrees
<1>1. IInv(s) => HeaderAgrees
  <2> SUFFICES ASSUME IInv(s), \A t \in Threads : pc[t] # "done"
               PROVE  /\ hdr.temp = TempAt(sect)
                      /\ Cardinality(InterIn) + hdr.used = TempAt(sect) + Len(sect["temp"])
    BY DEF HeaderAgrees
  <2>1. ~Pending
    BY DEF Pending, Pends
  <2>2. s \in {"interOut", "temp"}
    BY DEF OneSection
  <2>3. hdr.temp = TempAt(sect) /\ Len(sect[s]) = hdr.used
    BY <2>1, <2>2, HeaderRight
  <2>4. /\ Len(sect["interIn"]) = Cardinality(InterIn)
        /\ \A u \in {"interOut", "temp"} : u # s => sect[u] = <<>>
    BY DEF IInv, LayoutAt
  <2>5. hdr.used \in Nat /\ Cardinality(InterIn) \in Nat
    BY BoundAssumption, IdAssumption, FS_CardinalityType DEF IInv, TypeOK
  <2>6. CASE s = "interOut"
    <3>1. Len(sect["temp"]) = 0
      BY <2>4, <2>6
    <3> QED BY <2>3, <2>4, <2>5, <2>6, <3>1 DEF TempAt
  <2>7. CASE s = "temp"
    <3>1. Len(sect["interOut"]) = 0
      BY <2>4, <2>7
    <3> QED BY <2>3, <2>4, <2>5, <2>7, <3>1 DEF TempAt
  <2> QED BY <2>2, <2>6, <2>7
<1> QED BY AlwaysIInv, <1>1, PTL

(* With creations in the last section only, a search never fails on a       *)
(* section pointer: no offset ever moves.                                   *)
THEOREM SearchesSucceed ==
    ASSUME NEW s, OneSection(s), s = "temp" PROVE Spec => []SearchNeverFails
<1>1. IInv(s) => SearchNeverFails
  <2> SUFFICES ASSUME IInv(s), NEW t \in Threads PROVE \A sec : DividerOK(sec)
    BY DEF SearchNeverFails
  <2>1. /\ Len(sect["interIn"]) = Cardinality(InterIn) /\ sect["interOut"] = <<>>
        /\ hdr.temp = Cardinality(InterIn) + 0
    <3> HIDE DEF Pending
    <3> QED BY DEF IInv, LayoutAt
  <2>2. Len(sect["interOut"]) = 0 /\ Cardinality(InterIn) \in Nat
    BY <2>1, IdAssumption, FS_CardinalityType
  <2>3. hdr.temp = TempAt(sect)
    BY <2>1, <2>2 DEF TempAt
  <2> QED BY <2>3 DEF DividerOK
<1> QED BY AlwaysIInv, <1>1, PTL

----------------------------------------------------------------------------
(* A thread that marks is alone.  The files it names are then different,    *)
(* as each has a second of its own, so that the record it copies is the one *)
(* whose name it fetched, and that record is live.                          *)

FilesApart(im) ==
    /\ \A sec \in SectionSet : \A i, k \in DOMAIN im[sec] :
          im[sec][i].id = im[sec][k].id /\ im[sec][i].name = im[sec][k].name => i = k
    /\ \A sec \in {"interIn", "interOut"} : \A i \in DOMAIN im[sec] : ~Deleted(im[sec][i])

(* The files that were made until second n.                                 *)
MadeBy(n) == Procs \X (1..n)
Made(im, n) ==
    \A sec \in {"interOut", "temp"} : \A i \in DOMAIN im[sec] : im[sec][i].name \in MadeBy(n)

(* A name that is not in the table yet, made in second n.                   *)
NameIsNew(w, j, im, n) ==
    w \in {"lock", "scan", "write"} /\ j.op.kind = "create" =>
        j.name \in MadeBy(n) /\ Made(im, n - 1) /\ j.name \notin MadeBy(n - 1)

(* The record that is to be marked is live.                                 *)
MarksLive(w, j, im) ==
    LET q == im[Sections[j.sec]]
    IN  /\ w = "mark" => \E i \in DOMAIN q :
              q[i].id = j.op.id /\ q[i].name = j.name /\ ~Deleted(q[i])
        /\ w \in {"marklock", "markwrite"} => ~Deleted(q[j.pos])

Alone(t) ==
    /\ last[t] <= now /\ FilesApart(sect) /\ Made(sect, last[t])
    /\ NameIsNew(pc[t], job[t], sect, last[t]) /\ MarksLive(pc[t], job[t], sect)

(* A step of the thread that leaves the image.                              *)
LEMMA AloneStays ==
    ASSUME NEW s, IInv(s), NEW t \in Threads, Alone(t), NEW w, NEW j,
           UNCHANGED <<sect, last, now>>,
           pc' = [pc EXCEPT ![t] = w], job' = [job EXCEPT ![t] = j],
           w \in {"scan", "write"} => pc[t] \in {"lock", "scan"},
           w \in {"lock", "scan", "write"} /\ j.op.kind = "create" =>
               w # "lock" /\ j.op = job[t].op /\ j.name = job[t].name,
           MarksLive(w, j, sect)
    PROVE  Alone(t)'
<1>1. pc'[t] = w /\ job'[t] = j
  BY DEF IInv, TypeOK
<1>2. NameIsNew(w, j, sect, last[t])
  BY DEF Alone, NameIsNew
<1>3. Made(sect', last'[t]) /\ FilesApart(sect') /\ NameIsNew(w, j, sect', last'[t])
      /\ MarksLive(w, j, sect') /\ last'[t] <= now'
  BY <1>2 DEF Alone, Made, FilesApart, NameIsNew, MarksLive
<1> QED BY <1>1, <1>3 DEF Alone

(* A record with another flag, and a record with a new name.                *)
LEMMA ReflagApart ==
    ASSUME NEW im \in Tables, NEW sec \in SectionSet, NEW i \in DOMAIN im[sec], NEW r \in Rec,
           r.id = im[sec][i].id, r.name = im[sec][i].name,
           sec = "temp" \/ ~Deleted(r), FilesApart(im), NEW n, Made(im, n)
    PROVE  LET new == [im EXCEPT ![sec][i] = r]
           IN  FilesApart(new) /\ Made(new, n)
<1> DEFINE new == [im EXCEPT ![sec][i] = r]
<1>1. /\ \A u \in SectionSet : DOMAIN new[u] = DOMAIN im[u]
      /\ \A u \in SectionSet : \A k \in DOMAIN im[u] :
            new[u][k] = IF u = sec /\ k = i THEN r ELSE im[u][k]
  BY DEF Tables
<1> HIDE DEF new
<1>2. \A u \in SectionSet : \A k \in DOMAIN im[u] :
         new[u][k].id = im[u][k].id /\ new[u][k].name = im[u][k].name
  BY <1>1
<1>3. {"interIn", "interOut", "temp"} = SectionSet
  BY DEF SectionSet
<1>4. FilesApart(new)
  <2>1. \A u \in SectionSet : \A k, l \in DOMAIN new[u] :
          new[u][k].id = new[u][l].id /\ new[u][k].name = new[u][l].name => k = l
    BY <1>1, <1>2 DEF FilesApart
  <2>2. \A u \in {"interIn", "interOut"} : \A k \in DOMAIN new[u] : ~Deleted(new[u][k])
    BY <1>1, <1>3 DEF FilesApart
  <2> QED BY <2>1, <2>2 DEF FilesApart
<1>5. Made(new, n)
  BY <1>1, <1>2, <1>3 DEF Made
<1> QED BY <1>4, <1>5 DEF new

LEMMA ReplacedApart ==
    ASSUME NEW im \in Tables, NEW sec \in {"interOut", "temp"}, NEW i \in DOMAIN im[sec],
           NEW r, ~Deleted(r), FilesApart(im), NEW n \in Nat,
           Made(im, n - 1), r.name \in MadeBy(n), r.name \notin MadeBy(n - 1)
    PROVE  LET new == [im EXCEPT ![sec][i] = r]
           IN  FilesApart(new) /\ Made(new, n)
<1> DEFINE new == [im EXCEPT ![sec][i] = r]
<1>0. {"interIn", "interOut", "temp"} = SectionSet /\ sec \in SectionSet
  BY DEF SectionSet
<1>1. /\ \A u \in SectionSet : DOMAIN new[u] = DOMAIN im[u]
      /\ \A u \in SectionSet : \A k \in DOMAIN im[u] :
            new[u][k] = IF u = sec /\ k = i THEN r ELSE im[u][k]
  BY <1>0 DEF Tables
<1> HIDE DEF new
<1>2. \A k \in DOMAIN im[sec] : im[sec][k].name # r.name
  BY DEF Made
<1>3. \A u \in SectionSet : \A k, l \in DOMAIN new[u] :
        new[u][k].id = new[u][l].id /\ new[u][k].name = new[u][l].name => k = l
  BY <1>1, <1>2 DEF FilesApart
<1>4. \A u \in {"interIn", "interOut"} : \A k \in DOMAIN new[u] : ~Deleted(new[u][k])
  BY <1>0, <1>1 DEF FilesApart
<1>5. MadeBy(n - 1) \subseteq MadeBy(n)
  BY DEF MadeBy
<1>6. Made(new, n)
  BY <1>0, <1>1, <1>5 DEF Made
<1> QED BY <1>3, <1>4, <1>6 DEF new, FilesApart

LEMMA AppendedApart ==
    ASSUME NEW im \in Tables, NEW sec \in {"interOut", "temp"},
           NEW r \in Rec, ~Deleted(r), FilesApart(im), NEW n \in Nat,
           Made(im, n - 1), r.name \in MadeBy(n), r.name \notin MadeBy(n - 1)
    PROVE  LET new == [im EXCEPT ![sec] = Append(im[sec], r)]
           IN  FilesApart(new) /\ Made(new, n)
<1> DEFINE q == Append(im[sec], r)
           new == [im EXCEPT ![sec] = q]
<1>0. {"interIn", "interOut", "temp"} = SectionSet /\ sec \in SectionSet
  BY DEF SectionSet
<1> PICK e : e = Len(im[sec]) + 1
  OBVIOUS
<1>1. /\ DOMAIN q = DOMAIN im[sec] \cup {e} /\ e \notin DOMAIN im[sec]
      /\ q[e] = r /\ \A k \in DOMAIN im[sec] : q[k] = im[sec][k]
  <2>1. im[sec] \in Seq(Rec)
    BY <1>0 DEF Tables
  <2> QED BY <2>1
<1> HIDE DEF q
<1>2. new[sec] = q /\ \A u \in SectionSet : u # sec => new[u] = im[u]
  BY <1>0 DEF Tables
<1> HIDE DEF new
<1>3. \A k \in DOMAIN im[sec] : im[sec][k].name # r.name
  BY DEF Made
<1>4. \A u \in SectionSet : \A k, l \in DOMAIN new[u] :
        new[u][k].id = new[u][l].id /\ new[u][k].name = new[u][l].name => k = l
  <2> TAKE u \in SectionSet
  <2>1. CASE u = sec
    BY <1>0, <1>1, <1>2, <1>3, <2>1 DEF FilesApart
  <2>2. CASE u # sec
    BY <1>2, <2>2 DEF FilesApart
  <2> QED BY <2>1, <2>2
<1>5. \A u \in {"interIn", "interOut"} : \A k \in DOMAIN new[u] : ~Deleted(new[u][k])
  <2> TAKE u \in {"interIn", "interOut"}
  <2>1. CASE u = sec
    BY <1>1, <1>2, <2>1 DEF FilesApart
  <2>2. CASE u # sec
    BY <1>0, <1>2, <2>2 DEF FilesApart
  <2> QED BY <2>1, <2>2
<1>6. MadeBy(n - 1) \subseteq MadeBy(n)
  BY DEF MadeBy
<1>7. Made(new, n)
  <2> SUFFICES ASSUME NEW u \in {"interOut", "temp"}
               PROVE  \A k \in DOMAIN new[u] : new[u][k].name \in MadeBy(n)
    BY DEF Made
  <2>1. CASE u = sec
    BY <1>1, <1>2, <1>6, <2>1 DEF Made
  <2>2. CASE u # sec
    BY <1>0, <1>2, <1>6, <2>2 DEF Made
  <2> QED BY <2>1, <2>2
<1> QED BY <1>4, <1>5, <1>7 DEF new, q, FilesApart

LEMMA AloneLooks ==
    ASSUME NEW s, OneSection(s), IInv(s), NEW t \in Threads, Alone(t),
           Begin(t) \/ Lookup(t) \/ Lock(t) \/ Scan(t) \/ Done(t) \/ Unlock(t)
    PROVE  Alone(t)'
<1>1. UNCHANGED <<sect, last, now>>
  BY DEF Begin, Lookup, Lock, Scan, Done, Unlock
<1>2. MarksLive(pc[t], job[t], sect)
  BY DEF Alone
<1>3. \A w, j : w \notin {"mark", "marklock", "markwrite"} => MarksLive(w, j, sect)
  BY DEF MarksLive
<1>4. CASE Return(t)
  <2>1. MarksLive("idle", NoJob, sect)
    BY <1>3
  <2> HIDE DEF NoJob
  <2> QED BY <1>1, <1>4, <2>1, AloneStays DEF Return, Goto
<1>5. CASE Begin(t)
  <2>1. PICK op \in Ops, w \in {"lock", "lookup"} :
          /\ job' = [job EXCEPT ![t] = [NoJob EXCEPT !.op = op]]
          /\ pc' = [pc EXCEPT ![t] = w] /\ (w = "lock" => op.kind = "delete")
    BY <1>5 DEF Begin, Goto
  <2> PICK j : j = [NoJob EXCEPT !.op = op]
    OBVIOUS
  <2>2. j.op = op
    BY DEF NoJob
  <2>3. MarksLive(w, j, sect)
    BY <1>3
  <2> QED BY <1>1, <2>1, <2>2, <2>3, AloneStays
<1>6. CASE Lookup(t) /\ ~Return(t)
  <2>1. job = [job EXCEPT ![t] = job[t]] /\ pc = [pc EXCEPT ![t] = "lookup"]
    BY <1>6, Before DEF Lookup, At, IInv, TypeOK
  <2>2. /\ UNCHANGED pc \/ pc' = [pc EXCEPT ![t] = "name"] \/ pc' = [pc EXCEPT ![t] = "fetch"]
        /\ UNCHANGED job \/ job' = [job EXCEPT ![t].sec = @ + 1]
    BY <1>6 DEF Lookup, Goto
  <2>3. PICK w \in {"lookup", "name", "fetch"} : pc' = [pc EXCEPT ![t] = w]
    BY <2>1, <2>2
  <2>4. PICK j : job' = [job EXCEPT ![t] = j]
    BY <2>1, <2>2
  <2>5. MarksLive(w, j, sect)
    BY <1>3
  <2> QED BY <1>1, <2>3, <2>4, <2>5, AloneStays
<1>7. CASE Lock(t)
  <2>1. PICK w \in {"scan", "markwrite"} :
          /\ w = IF pc[t] = "lock" THEN "scan" ELSE "markwrite"
          /\ pc' = [pc EXCEPT ![t] = w]
    BY <1>7 DEF Lock, Goto
  <2>2. pc[t] \in {"lock", "marklock"} /\ job' = [job EXCEPT ![t] = job[t]]
    BY <1>7, Before DEF Lock, At
  <2>3. MarksLive(w, job[t], sect)
    BY <1>2, <2>1, <2>2 DEF MarksLive
  <2> QED BY <1>1, <2>1, <2>2, <2>3, AloneStays
<1>8. CASE Scan(t)
  <2> DEFINE q   == sect[Target(job[t])]
             i   == First(Live(q, job[t].op.id))
             new == NewRec(job[t])
             old == IF job[t].op.kind = "delete" THEN q[i] ELSE new
             J(p, r, ins) == [job[t] EXCEPT !.pos = p, !.copy = r,
                                            !.insert = ins, !.hdr = hdr]
             Found(p, r, ins) == /\ job' = [job EXCEPT ![t] = J(p, r, ins)]
                                 /\ pc' = [pc EXCEPT ![t] = "write"]
  <2>1. job[t] \in JobType /\ job = [job EXCEPT ![t] = job[t]]
    BY Before
  <2>2. \/ pc' = [pc EXCEPT ![t] = "unlock"] /\ UNCHANGED job
        \/ Found(i, old, FALSE)
        \/ Found(Len(q) + 1, new, TRUE)
    BY <1>8, ZenonT(40) DEF Scan, Goto, Target, NewRec
  <2>3. \A p, r, ins : J(p, r, ins).op = job[t].op /\ J(p, r, ins).name = job[t].name
    BY <2>1 DEF JobType
  <2> HIDE DEF J, i, old, q, new
  <2>4. PICK j : job' = [job EXCEPT ![t] = j] /\ j.op = job[t].op /\ j.name = job[t].name
    <3>1. ASSUME NEW p, NEW r, NEW ins, Found(p, r, ins)
          PROVE  \E j : job' = [job EXCEPT ![t] = j] /\ j.op = job[t].op /\ j.name = job[t].name
      BY <2>3, <3>1
    <3>2. CASE UNCHANGED job
      BY <2>1, <3>2
    <3> HIDE DEF Found
    <3> QED BY <2>2, <3>1, <3>2
  <2>5. PICK w \in {"write", "unlock"} : pc' = [pc EXCEPT ![t] = w]
    BY <2>2
  <2>6. MarksLive(w, j, sect) /\ pc[t] = "scan"
    BY <1>3, <1>8 DEF Scan, At
  <2> QED BY <1>1, <2>4, <2>5, <2>6, AloneStays
<1>9. CASE Done(t) \/ Unlock(t)
  BY <1>4, <1>9 DEF Done, Unlock
<1> QED BY <1>4, <1>5, <1>6, <1>7, <1>8, <1>9

LEMMA AloneNames ==
    ASSUME NEW s, OneSection(s), IInv(s), NEW t \in Threads, Alone(t), Name(t)
    PROVE  Alone(t)'
<1> DEFINE j == [job[t] EXCEPT !.name = <<ProcOf[t], now>>]
<1>1. /\ UNCHANGED <<sect, now>> /\ last' = [last EXCEPT ![t] = now] /\ now # last[t]
      /\ job' = [job EXCEPT ![t] = j] /\ pc' = [pc EXCEPT ![t] = "lock"]
  BY DEF Name, Goto, FileName
<1>2. /\ last'[t] = now /\ job'[t] = j /\ pc'[t] = "lock"
      /\ last[t] \in Nat /\ now \in Nat \ {0} /\ last[t] <= now
  BY <1>1, BoundAssumption DEF IInv, TypeOK, Alone
<1>3. j.name = <<ProcOf[t], now>>
  BY Before DEF JobType
<1>4. MadeBy(last[t]) \subseteq MadeBy(now - 1) /\ MadeBy(now - 1) \subseteq MadeBy(now)
  BY <1>1, <1>2 DEF MadeBy
<1>5. Made(sect, now - 1) /\ Made(sect, now)
  BY <1>4 DEF Alone, Made
<1>6. j.name \in MadeBy(now) /\ j.name \notin MadeBy(now - 1)
  BY <1>2, <1>3, ProcOfAssumption DEF MadeBy
<1> HIDE DEF j
<1>7. NameIsNew("lock", j, sect, now) /\ MarksLive("lock", j, sect)
  BY <1>5, <1>6 DEF NameIsNew, MarksLive
<1>8. Made(sect', last'[t]) /\ NameIsNew("lock", j, sect', last'[t])
      /\ MarksLive("lock", j, sect') /\ FilesApart(sect')
  BY <1>1, <1>2, <1>5, <1>7 DEF Alone, Made, NameIsNew, MarksLive, FilesApart
<1>9. last'[t] <= now'
  BY <1>1, <1>2
<1> QED BY <1>2, <1>8, <1>9 DEF Alone

(* What a step that changes the image must establish.                       *)
LEMMA AloneWrites ==
    ASSUME NEW s, IInv(s), NEW t \in Threads, Alone(t),
           NEW w \in {"idle", "done"}, pc' = [pc EXCEPT ![t] = w],
           UNCHANGED <<last, now>>, FilesApart(sect'), Made(sect', last[t])
    PROVE  Alone(t)'
<1>1. pc'[t] = w
  BY DEF IInv, TypeOK
<1>2. NameIsNew(pc'[t], job'[t], sect', last'[t]) /\ MarksLive(pc'[t], job'[t], sect')
  BY <1>1 DEF NameIsNew, MarksLive
<1>3. last'[t] <= now' /\ Made(sect', last'[t])
  BY DEF Alone
<1> QED BY <1>2, <1>3 DEF Alone

LEMMA AloneWrite ==
    ASSUME NEW s, OneSection(s), IInv(s), NEW t \in Threads, Alone(t), Write(t)
    PROVE  Alone(t)'
<1> DEFINE j   == job[t]
           sec == Target(j)
           q   == sect[sec]
           i   == First(Live(q, j.op.id))
<1>1. /\ pc' = [pc EXCEPT ![t] = "done"] /\ UNCHANGED <<last, now>> /\ pc[t] = "write"
      /\ sect \in Tables /\ last[t] \in Nat
  BY Before DEF Write, Goto, At, IInv, TypeOK
<1>2. \/ /\ j.op.kind = "create" /\ sec = s /\ NewRec(j) \in Rec
         /\ sect' = [sect EXCEPT ![s] = Append(sect[s], NewRec(j))]
      \/ /\ i \in DOMAIN q /\ j.op.kind = "create" /\ sec = s /\ NewRec(j) \in Rec
         /\ sect' = [sect EXCEPT ![s][i] = NewRec(j)]
      \/ /\ i \in DOMAIN q /\ j.op.kind = "delete" /\ sec = "temp"
         /\ sect' = [sect EXCEPT !["temp"][i] = DeleteFlag(q[i])]
  BY WriteEffect DEF OneSection
<1>3. j.op.kind = "create" => /\ Made(sect, last[t] - 1) /\ NewRec(j).name = j.name
                              /\ j.name \in MadeBy(last[t]) /\ j.name \notin MadeBy(last[t] - 1)
  BY <1>1, Zenon DEF Alone, NameIsNew, NewRec
<1>4. ~Deleted(NewRec(j))
  BY Zenon DEF Deleted, NewRec
<1>5. s \in {"interOut", "temp"} /\ FilesApart(sect) /\ Made(sect, last[t])
  BY DEF OneSection, Alone
<1>6. FilesApart(sect') /\ Made(sect', last[t])
  <2>1. CASE /\ j.op.kind = "create" /\ sec = s /\ NewRec(j) \in Rec
             /\ sect' = [sect EXCEPT ![s] = Append(sect[s], NewRec(j))]
    BY <1>1, <1>3, <1>4, <1>5, <2>1, AppendedApart
  <2>2. CASE /\ i \in DOMAIN q /\ j.op.kind = "create" /\ sec = s /\ NewRec(j) \in Rec
             /\ sect' = [sect EXCEPT ![s][i] = NewRec(j)]
    <3>1. i \in DOMAIN sect[s]
      BY <2>2
    <3> HIDE DEF i, sec
    <3> QED BY <1>1, <1>3, <1>4, <1>5, <2>2, <3>1, ReplacedApart
  <2>3. CASE /\ i \in DOMAIN q /\ j.op.kind = "delete" /\ sec = "temp"
             /\ sect' = [sect EXCEPT !["temp"][i] = DeleteFlag(q[i])]
    <3>1. i \in DOMAIN sect["temp"] /\ q[i] = sect["temp"][i] /\ "temp" \in SectionSet
      BY <2>3 DEF SectionSet
    <3>2. sect["temp"][i] \in Rec
      BY <1>1, <3>1 DEF Tables
    <3> PICK r : r = DeleteFlag(sect["temp"][i])
      OBVIOUS
    <3>3. r \in Rec /\ r.id = sect["temp"][i].id /\ r.name = sect["temp"][i].name
      BY <3>2, DeleteFlagType DEF DeleteFlag, Rec
    <3>4. sect' = [sect EXCEPT !["temp"][i] = r]
      BY <2>3, <3>1
    <3> HIDE DEF i, sec, q
    <3> QED BY <1>1, <1>5, <3>1, <3>3, <3>4, ReflagApart
  <2> QED BY <1>2, <2>1, <2>2, <2>3
<1> QED BY <1>1, <1>6, AloneWrites

LEMMA AloneMarks ==
    ASSUME NEW s, OneSection(s), IInv(s), NEW t \in Threads, Alone(t), MarkWrite(t)
    PROVE  LET sec == Sections[job[t].sec]
               p == job[t].pos
           IN  /\ Alone(t)' /\ sec \in SectionSet /\ p \in DOMAIN sect[sec]
               /\ sect[sec][p] \in Rec /\ ~Deleted(sect[sec][p])
               /\ sect' = [sect EXCEPT ![sec][p] = RuntimeFlag(sect[sec][p])]
<1> DEFINE sec == Sections[job[t].sec]
           p == job[t].pos
<1>1. /\ sec \in SectionSet /\ p \in DOMAIN sect[sec] /\ sect[sec][p] \in Rec
      /\ sect' = [sect EXCEPT ![sec][p] = RuntimeFlag(sect[sec][p])]
  BY MarkWriteEffect
<1>2. /\ pc' = [pc EXCEPT ![t] = "idle"] /\ UNCHANGED <<last, now>> /\ pc[t] = "markwrite"
      /\ sect \in Tables
  BY Before DEF MarkWrite, Return, Goto, At
<1>3. ~Deleted(sect[sec][p])
  BY <1>2 DEF Alone, MarksLive
<1> PICK r : r = RuntimeFlag(sect[sec][p])
  OBVIOUS
<1>4. /\ r \in Rec /\ r.id = sect[sec][p].id /\ r.name = sect[sec][p].name /\ ~Deleted(r)
  <2> HIDE DEF sec, p
  <2> QED BY <1>1, <1>3, RuntimeFlagType DEF RuntimeFlag, Rec, Deleted
<1>5. FilesApart(sect') /\ Made(sect', last[t])
  <2>1. FilesApart(sect) /\ Made(sect, last[t])
    BY DEF Alone
  <2> HIDE DEF sec, p
  <2> QED BY <1>1, <1>2, <1>4, <2>1, ReflagApart
<1>6. Alone(t)'
  BY <1>2, <1>5, AloneWrites
<1> QED BY <1>1, <1>3, <1>6

LEMMA AloneFetches ==
    ASSUME NEW s, OneSection(s), IInv(s), NEW t \in Threads, Alone(t), Fetch(t) \/ MarkScan(t)
    PROVE  Alone(t)'
<1>1. UNCHANGED <<sect, last, now>> /\ job[t] \in JobType /\ sect \in Tables
  BY Before DEF Fetch, MarkScan
<1>2. CASE Return(t)
  <2>1. MarksLive("idle", NoJob, sect)
    BY DEF MarksLive
  <2> HIDE DEF NoJob
  <2> QED BY <1>1, <1>2, <2>1, AloneStays DEF Return, Goto
<1> DEFINE sec == Sections[job[t].sec]
           q == sect[sec]
<1>3. sec \in SectionSet
  BY <1>1, SectionOfIndex DEF JobType
<1>4. CASE Fetch(t) /\ ~Return(t)
  <2> DEFINE i == Search(sec, job[t].op.id)
             j == [job[t] EXCEPT !.name = q[i].name]
  <2>1. i # 0 /\ job' = [job EXCEPT ![t] = j] /\ pc' = [pc EXCEPT ![t] = "mark"]
    BY <1>4 DEF Fetch, Goto
  <2>2. i \in DOMAIN q /\ q[i].id = job[t].op.id /\ (sec = "temp" => ~Deleted(q[i]))
    BY <1>1, <1>3, <2>1, SearchIsIn
  <2>3. ~Deleted(q[i])
    BY <1>3, <2>2 DEF Alone, FilesApart, SectionSet
  <2>4. j.op = job[t].op /\ j.sec = job[t].sec /\ j.name = q[i].name
    <3> HIDE DEF i, q
    <3> QED BY <1>1 DEF JobType
  <2> HIDE DEF j, i
  <2>5. MarksLive("mark", j, sect)
    BY <2>2, <2>3, <2>4 DEF MarksLive
  <2> QED BY <1>1, <2>1, <2>5, AloneStays
<1>5. CASE MarkScan(t) /\ ~(Return(t) /\ UNCHANGED pclock)
  <2>0. /\ hdr \in Header /\ job \in [Threads -> JobType] /\ pc \in [Threads -> Where]
    BY Before DEF IInv, TypeOK
  <2>1. PICK p \in Nat, h \in Header :
          LET sc == Sections[job[t].sec]
              jj == [job[t] EXCEPT !.hdr = h, !.pos = p, !.copy = sect[sc][p]]
          IN  /\ h.temp = TempAt(sect) /\ p \in DOMAIN sect[sc]
              /\ sect[sc][p].id = job[t].op.id
              /\ job' = [job EXCEPT ![t] = jj]
              /\ \/ /\ pc' = [pc EXCEPT ![t] = "marklock"] /\ UNCHANGED pclock
                    /\ sect[sc][p].name = job[t].name
                 \/ pc' = [pc EXCEPT ![t] = "mark"] /\ Release(t)
    <3> HIDE DEF sec, q
    <3> QED BY <1>1, <1>5, <2>0, MarkScanFinds
  <2> DEFINE j == [job[t] EXCEPT !.hdr = h, !.pos = p, !.copy = q[p]]
  <2>2. /\ j.op = job[t].op /\ j.sec = job[t].sec /\ j.name = job[t].name /\ j.pos = p
    <3> HIDE DEF q
    <3> QED BY <1>1 DEF JobType
  <2>3. job' = [job EXCEPT ![t] = j]
    BY <2>1
  <2> HIDE DEF j
  <2>4. PICK i \in DOMAIN q : q[i].id = job[t].op.id /\ q[i].name = job[t].name /\ ~Deleted(q[i])
    BY <1>5 DEF Alone, MarksLive, MarkScan, At
  <2>5. CASE pc' = [pc EXCEPT ![t] = "marklock"] /\ q[p].name = job[t].name
    <3>1. i = p
      BY <1>3, <2>1, <2>4, <2>5 DEF Alone, FilesApart
    <3>2. MarksLive("marklock", j, sect)
      BY <2>2, <2>4, <3>1 DEF MarksLive
    <3> QED BY <1>1, <2>3, <2>5, <3>2, AloneStays
  <2>6. CASE pc' = [pc EXCEPT ![t] = "mark"]
    <3>1. MarksLive("mark", j, sect)
      BY <2>2, <2>4 DEF MarksLive
    <3> QED BY <1>1, <2>3, <2>6, <3>1, AloneStays
  <2> QED BY <2>1, <2>5, <2>6
<1> QED BY <1>2, <1>4, <1>5

(* Every step of a system of one thread.                                    *)
LEMMA AloneKept ==
    ASSUME NEW s, OneSection(s), OneThread, IInv(s), NEW t \in Threads, Alone(t), [Next]_vars
    PROVE  Alone(t)'
<1>1. CASE UNCHANGED <<sect, pc, job, last>> /\ now' \in Nat /\ now <= now'
  <2>1. FilesApart(sect') /\ Made(sect', last'[t]) /\ NameIsNew(pc'[t], job'[t], sect', last'[t])
        /\ MarksLive(pc'[t], job'[t], sect')
    BY <1>1 DEF Alone, FilesApart, Made, NameIsNew, MarksLive
  <2>2. last'[t] <= now'
    BY <1>1, BoundAssumption DEF Alone, IInv, TypeOK
  <2> QED BY <2>1, <2>2 DEF Alone
<1>2. CASE Tick \/ Rest \/ UNCHANGED vars
  <2>1. now \in Nat
    BY BoundAssumption DEF IInv, TypeOK
  <2> QED BY <1>1, <1>2, <2>1 DEF Tick, Rest, vars
<1>3. ASSUME NEW u \in Threads, Begin(u) \/ Step(u) PROVE Alone(t)'
  <2>1. Begin(t) \/ Step(t)
    BY <1>3 DEF OneThread
  <2> QED BY <2>1, AloneLooks, AloneNames, AloneWrite, AloneMarks, AloneFetches DEF Step
<1> QED BY <1>2, <1>3 DEF Next

LEMMA AloneAtFirst == ASSUME Init, NEW t \in Threads PROVE Alone(t)
<1>1. PICK l \in Listings(InterIn, Cardinality(InterIn)) : sect = Loaded(l)
  BY DEF Init
<1>2. last[t] = 0 /\ now = 1 /\ pc[t] = "idle"
  BY DEF Init
<1>3. /\ DOMAIN sect["interOut"] = {} /\ DOMAIN sect["temp"] = {}
      /\ DOMAIN sect["interIn"] = DOMAIN l
      /\ \A i \in DOMAIN l : sect["interIn"][i].id = l[i] /\ ~Deleted(sect["interIn"][i])
  <2> DEFINE rec(i) == [id |-> l[i], name |-> PcfName(l[i]), flag |-> ""]
  <2>1. /\ sect["interOut"] = <<>> /\ sect["temp"] = <<>>
        /\ sect["interIn"] = [i \in DOMAIN l |-> rec(i)]
    BY <1>1, Zenon DEF Loaded, SectionSet
  <2>2. \A i : rec(i).id = l[i] /\ ~Deleted(rec(i))
    BY Zenon DEF Deleted
  <2> HIDE DEF rec
  <2>3. \A i \in DOMAIN l : sect["interIn"][i].id = l[i] /\ ~Deleted(sect["interIn"][i])
    BY <2>1, <2>2
  <2>4. DOMAIN sect["interIn"] = DOMAIN l
    BY <2>1
  <2>5. DOMAIN sect["interOut"] = {} /\ DOMAIN sect["temp"] = {}
    <3>1. sect["interOut"] = <<>> /\ sect["temp"] = <<>>
      BY <2>1
    <3> HIDE <2>1
    <3> QED BY <3>1
  <2> QED BY <2>3, <2>4, <2>5
<1>4. \A i, k \in DOMAIN l : l[i] = l[k] => i = k
  BY DEF Listings
<1>5. FilesApart(sect) /\ Made(sect, 0)
  BY <1>3, <1>4 DEF FilesApart, SectionSet, Made
<1> QED BY <1>2, <1>5 DEF Alone, NameIsNew, MarksLive

----------------------------------------------------------------------------
(* The abstract table is read by the searches the image is read by.         *)
LEMMA SameRecords ==
    /\ \A q, id : Table!First(Table!Live(q, id)) = First(Live(q, id))
    /\ \A l : Table!Loaded(l) = Loaded(l)
    /\ \A S, n : Table!Listings(S, n) = Listings(S, n)
    /\ Table!SectionSet = SectionSet
BY DEF Table!First, First, Table!Live, Live, Table!With, With, Table!Deleted, Deleted,
       Table!Loaded, Loaded, Table!PcfName, PcfName, Table!Listings, Listings,
       Table!SectionSet, SectionSet

LEMMA SameCount == \A S : Table!Cardinality(S) = Cardinality(S)
BY DEF Table!Cardinality, Cardinality

(* The write is the step that changes the abstract table.                   *)
LEMMA WriteImplements ==
    ASSUME NEW s, OneSection(s), IInv(s), NEW t \in Threads, Write(t)
    PROVE  Table!Next
<1> DEFINE j   == job[t]
           sec == Target(j)
           q   == sect[sec]
           i   == First(Live(q, j.op.id))
           new == [id |-> j.op.id, name |-> j.name, flag |-> ""]
<1>1. /\ j.op \in Ops /\ NewRec(j) = new /\ s \in {"interOut", "temp"}
      /\ \/ /\ j.op.kind = "create" /\ i = 0 /\ hdr.used < Spare /\ sec = s
            /\ sect' = [sect EXCEPT ![s] = Append(sect[s], new)]
         \/ /\ i \in DOMAIN q /\ j.op.kind = "create" /\ sec = s
            /\ sect' = [sect EXCEPT ![s][i] = new]
         \/ /\ i \in DOMAIN q /\ j.op.kind = "delete" /\ sec = "temp"
            /\ sect' = [sect EXCEPT !["temp"][i] = DeleteFlag(q[i])]
  BY WriteEffect DEF OneSection, NewRec
<1>2. pc[t] = "write" /\ CallOK("write", j) /\ sect \in Tables
  BY Before DEF Write, At
<1>3. j.op.id \in Ids /\ (j.op.kind = "create" => j.name \in Names)
  BY <1>1, <1>2, OpKinds DEF OneSection, CallOK, MarkPlaces, Region
<1>4. i \in DOMAIN q => i # 0
  <2>1. q \in Seq(Rec)
    BY <1>1, <1>2 DEF Tables, SectionSet
  <2> HIDE DEF q, i
  <2> QED BY <2>1
<1>5. CASE /\ j.op.kind = "create" /\ i = 0 /\ hdr.used < Spare /\ sec = s
           /\ sect' = [sect EXCEPT ![s] = Append(sect[s], new)]
  <2>1. Len(sect[s]) = hdr.used
    BY <1>1, <1>2, NothingPends, HeaderRight DEF OneSection, Region
  <2>2. Table!HasRoom(s)
    BY <1>5, <2>1 DEF Table!HasRoom
  <2>3. Table!Put(s, j.op.id, j.name)
    BY <1>5, <2>2, SameRecords DEF Table!Put
  <2> QED BY <1>1, <1>3, <1>5, <2>3 DEF Table!Next
<1>6. CASE /\ i \in DOMAIN q /\ j.op.kind = "create" /\ sec = s
           /\ sect' = [sect EXCEPT ![s][i] = new]
  <2>1. Table!Put(s, j.op.id, j.name)
    BY <1>4, <1>6, SameRecords DEF Table!Put
  <2> QED BY <1>1, <1>3, <1>6, <2>1 DEF Table!Next
<1>7. CASE /\ i \in DOMAIN q /\ j.op.kind = "delete" /\ sec = "temp"
           /\ sect' = [sect EXCEPT !["temp"][i] = DeleteFlag(q[i])]
  <2>1. Table!Drop(j.op.id)
    BY <1>4, <1>7, SameRecords DEF Table!Drop, DeleteFlag
  <2> QED BY <1>3, <2>1 DEF Table!Next
<1> QED BY <1>1, <1>5, <1>6, <1>7

LEMMA MarkImplements ==
    ASSUME NEW s, OneSection(s), IInv(s), NEW t \in Threads, Alone(t), MarkWrite(t)
    PROVE  Table!Next
<1> DEFINE sec == Sections[job[t].sec]
           p == job[t].pos
<1>1. /\ sec \in SectionSet /\ p \in DOMAIN sect[sec]
      /\ sect[sec][p] \in Rec /\ ~Deleted(sect[sec][p])
      /\ sect' = [sect EXCEPT ![sec][p] = RuntimeFlag(sect[sec][p])]
  BY AloneMarks
<1> HIDE DEF sec, p
<1>2. Table!MarkRuntime(sec, p)
  BY <1>1 DEF Table!MarkRuntime, RuntimeFlag, Rec, Deleted
<1> QED BY <1>1, <1>2, SameRecords DEF Table!Next

(* The threads of one process change the image as PCTable may change its    *)
(* table: the search under PCLOCK that precedes a write makes a second      *)
(* creation of an identifier an overwrite, and a mark writes back the live  *)
(* record that it fetched, if no other thread runs meanwhile.               *)
THEOREM PCShmImplementsPCTable ==
    ASSUME NEW s, OneSection(s) PROVE Spec => ImplementsTable
<1> DEFINE Inv == IInv(s) /\ (OneThread => \A t \in Threads : Alone(t))
<1>1. Init => Table!Init
  BY SameRecords, SameCount DEF Init, Table!Init
<1>2. Inv /\ [Next]_vars => [Table!Next]_sect
  <2> SUFFICES ASSUME Inv, [Next]_vars PROVE [Table!Next]_sect
    OBVIOUS
  <2>1. ASSUME NEW t \in Threads, Begin(t) \/ Step(t) PROVE [Table!Next]_sect
    <3>1. MarkWrite(t) => OneThread
      BY MarkWriteEffect
    <3>2. MarkWrite(t) => Table!Next
      BY <3>1, MarkImplements
    <3> QED BY <2>1, <3>2, WriteImplements
         DEF Begin, Step, Lookup, Name, Lock, Scan, Done, Unlock, Fetch, MarkScan
  <2>2. ASSUME Tick \/ Rest \/ UNCHANGED vars PROVE UNCHANGED sect
    BY <2>2 DEF Tick, Rest, vars
  <2> QED BY <2>1, <2>2 DEF Next
<1>3. Init => Inv
  BY InitIInv, AloneAtFirst DEF OneSection
<1>4. Inv /\ [Next]_vars => Inv'
  <2> SUFFICES ASSUME Inv, [Next]_vars PROVE Inv'
    OBVIOUS
  <2>1. IInv(s)'
    BY NextIInv DEF OneSection
  <2>2. OneThread => \A t \in Threads : Alone(t)'
    BY AloneKept
  <2> QED BY <2>1, <2>2 DEF OneThread
<1> HIDE DEF Inv
<1> QED BY <1>1, <1>2, <1>3, <1>4, PTL DEF Spec, ImplementsTable, Table!Spec

----------------------------------------------------------------------------
(* What is proved of the table holds of the image.                          *)
OfTable == INSTANCE PCTableProofs WITH table <- sect, MaxFiles <- Spare

LEMMA SameFinite == \A S : OfTable!IsFiniteSet(S) <=> IsFiniteSet(S)
BY DEF OfTable!IsFiniteSet, IsFiniteSet

LEMMA TableFits ==
    /\ InterIn \subseteq Ids /\ OfTable!IsFiniteSet(InterIn)
    /\ \A id \in InterIn : OfTable!PcfName(id) \in Names
    /\ Spare \in Nat
BY IdAssumption, BoundAssumption, SameFinite DEF OfTable!PcfName, PcfName, Names

LEMMA SameInit == Table!Init => OfTable!Init
BY DEF Table!Init, OfTable!Init, Table!Listings, OfTable!Listings, Table!Cardinality,
       OfTable!Cardinality, Table!Loaded, OfTable!Loaded, Table!SectionSet,
       OfTable!SectionSet, Table!PcfName, OfTable!PcfName

LEMMA SameNext == [Table!Next]_sect => [OfTable!Next]_sect
BY DEF Table!Next, OfTable!Next, Table!Put, OfTable!Put, Table!Drop, OfTable!Drop,
       Table!MarkRuntime, OfTable!MarkRuntime, Table!HasRoom, OfTable!HasRoom,
       Table!SectionSet, OfTable!SectionSet, Table!First, OfTable!First,
       Table!Live, OfTable!Live, Table!With, OfTable!With, Table!Deleted, OfTable!Deleted

LEMMA SameSpec == Table!Spec => OfTable!Spec
BY SameInit, SameNext, PTL DEF Table!Spec, OfTable!Spec

(* The image never has two live records of one identifier in a section,     *)
(* although every thread searches before it locks.                          *)
THEOREM LiveIsUnique ==
    ASSUME NEW s, OneSection(s) PROVE Spec => []Table!AtMostOneLive
<1>1. Spec => Table!Spec
  BY PCShmImplementsPCTable DEF ImplementsTable
<1>2. OfTable!Spec => []OfTable!AtMostOneLive
  BY TableFits, OfTable!LiveIsUnique
<1>3. OfTable!AtMostOneLive => Table!AtMostOneLive
  BY DEF OfTable!AtMostOneLive, Table!AtMostOneLive, Table!Live, OfTable!Live,
         Table!With, OfTable!With, Table!Deleted, OfTable!Deleted,
         Table!SectionSet, OfTable!SectionSet
<1> QED BY <1>1, <1>2, <1>3, SameSpec, PTL

(* A file marked for deletion stays in the image, and marked.               *)
THEOREM DeletionIsFinal ==
    ASSUME NEW s, OneSection(s) PROVE Spec => DeleteIsFinal
<1>1. Spec => Table!Spec
  BY PCShmImplementsPCTable DEF ImplementsTable
<1>2. OfTable!Spec => OfTable!DeleteIsFinal
  BY TableFits, OfTable!DeletionIsFinal
<1>3. [OfTable!KeepsDeleted]_sect => [Table!KeepsDeleted]_sect
  BY DEF OfTable!KeepsDeleted, Table!KeepsDeleted, Table!Deleted, OfTable!Deleted
<1> QED BY <1>1, <1>2, <1>3, SameSpec, PTL DEF DeleteIsFinal, OfTable!DeleteIsFinal, Table!DeleteIsFinal
=============================================================================
