---------------------------- MODULE PCLifeProofs ----------------------------
(***************************************************************************)
(* Proofs about PCLife, for every set of identifiers and every number of   *)
(* runs, wherever runs fail or are killed.  The state is well typed in any *)
(* case.  Where shared memory is used in the first run only (ShmFirst),    *)
(* termination saves the table exactly, removes what was deleted and       *)
(* nothing else, and changes the PCF only as the tools may change it.      *)
(***************************************************************************)
EXTENDS PCLife, PCRecordsProofs, FiniteSetTheorems

----------------------------------------------------------------------------
(* Where a run may be                                                      *)

\* What is running tells whether there is a table in shared memory, and where
\* a loop of TermCom is.
Place ==
    /\ shm # NoTable => useShm
    /\ phase = "pge" /\ useShm => shm # NoTable
    /\ phase = "init" => shm = NoTable
    /\ phase = "temps" => ~useShm
    /\ phase \in {"save", "mark", "remove", "marks"} => useShm
    /\ phase \in {"save", "mark", "remove"} => sec \in 1..2
    /\ phase \in {"mark", "remove"} =>
         shm # NoTable /\ at \in DOMAIN shm[SavedSections[sec]]
    /\ phase \in {"init", "pge"} => sec = 1 /\ at = 1
    /\ opening # <<>> => phase = "pge"

Types == TypeOK /\ Place

----------------------------------------------------------------------------
(* Tables                                                                  *)

\* The flag of a record that has no mark.
NoFlag == ""
LEMMA NoFlagIs ==
    /\ Flags = {NoFlag, "D", "R", "B"} /\ {"", "D"} = {NoFlag, "D"}
    /\ NoFlag \notin {"D", "R", "B"}
BY Zenon DEF NoFlag, Flags

\* The sections of a table.
LEMMA SectionFacts ==
    ASSUME NEW tab \in Tables, NEW s \in SectionSet
    PROVE  /\ tab[s] \in Seq(Rec) /\ Len(tab[s]) \in Nat /\ DOMAIN tab[s] = 1..Len(tab[s])
           /\ \A i \in DOMAIN tab[s] : tab[s][i] \in Rec
<1>1. tab[s] \in Seq(Rec)
  BY DEF Tables
<1>2. Len(tab[s]) \in Nat /\ DOMAIN tab[s] = 1..Len(tab[s])
  BY <1>1, LenProperties
<1> QED BY <1>1, <1>2, ElementOfSeq

\* A record of a table with another flag.
Reflag(tab, s, i, f) == [tab EXCEPT ![s][i].flag = f]

\* Only the flag of one record is another.
LEMMA ReflagIs ==
    ASSUME NEW tab \in Tables, NEW s \in SectionSet, NEW i \in DOMAIN tab[s], NEW f \in Flags,
           NEW q, q = [tab[s] EXCEPT ![i] = [tab[s][i] EXCEPT !.flag = f]]
    PROVE  /\ Reflag(tab, s, i, f) \in Tables
           /\ q \in Seq(Rec) /\ Len(q) = Len(tab[s]) /\ DOMAIN q = DOMAIN tab[s]
           /\ Reflag(tab, s, i, f)[s] = q
           /\ \A t \in SectionSet : t # s => Reflag(tab, s, i, f)[t] = tab[t]
<1>1. tab[s] \in Seq(Rec) /\ tab[s][i] \in Rec
  BY DEF Tables
<1>2. [tab[s][i] EXCEPT !.flag = f] \in Rec
  BY <1>1 DEF Rec
<1>3. q \in Seq(Rec) /\ Len(q) = Len(tab[s]) /\ DOMAIN q = DOMAIN tab[s]
  BY <1>1, <1>2
<1>4. Reflag(tab, s, i, f) = [tab EXCEPT ![s] = q]
  BY DEF Reflag, Tables
<1>5. /\ [tab EXCEPT ![s] = q] \in Tables /\ [tab EXCEPT ![s] = q][s] = q
      /\ \A t \in SectionSet : t # s => [tab EXCEPT ![s] = q][t] = tab[t]
  BY <1>3 DEF Tables
<1> QED BY <1>3, <1>4, <1>5

\* Sections and records keep their places.
LEMMA ReflagShape ==
    ASSUME NEW tab \in Tables, NEW s \in SectionSet, NEW i \in DOMAIN tab[s], NEW f \in Flags,
           NEW t \in SectionSet
    PROVE  /\ Reflag(tab, s, i, f) \in Tables
           /\ DOMAIN Reflag(tab, s, i, f)[t] = DOMAIN tab[t]
           /\ Len(Reflag(tab, s, i, f)[t]) = Len(tab[t])
           /\ t # s => Reflag(tab, s, i, f)[t] = tab[t]
<1> PICK q : q = [tab[s] EXCEPT ![i] = [tab[s][i] EXCEPT !.flag = f]]
  OBVIOUS
<1>1. CASE t = s
  BY <1>1, ReflagIs
<1>2. CASE t # s
  BY <1>2, ReflagIs
<1> QED BY <1>1, <1>2

\* Each record keeps its identifier and its file.
LEMMA ReflagRecord ==
    ASSUME NEW tab \in Tables, NEW s \in SectionSet, NEW i \in DOMAIN tab[s], NEW f \in Flags,
           NEW t \in SectionSet, NEW j \in DOMAIN tab[t],
           NEW r, r = Reflag(tab, s, i, f)[t][j]
    PROVE  /\ r.id = tab[t][j].id /\ r.name = tab[t][j].name
           /\ t # s \/ j # i => r = tab[t][j]
           /\ t = s /\ j = i => r = [tab[s][i] EXCEPT !.flag = f] /\ r.flag = f
<1> PICK q : q = [tab[s] EXCEPT ![i] = [tab[s][i] EXCEPT !.flag = f]]
  OBVIOUS
<1>1. tab[s] \in Seq(Rec) /\ tab[s][i] \in Rec /\ tab[t] \in Seq(Rec)
  BY DEF Tables
<1>2. CASE t = s
  <2>1. r = q[j]
    BY <1>2, ReflagIs
  <2>2. CASE j = i
    <3>1. r = [tab[s][i] EXCEPT !.flag = f]
      BY <1>1, <2>1, <2>2
    <3> QED BY <1>1, <1>2, <2>2, <3>1 DEF Rec
  <2>3. CASE j # i
    BY <1>1, <1>2, <2>1, <2>3
  <2> QED BY <2>2, <2>3
<1>3. CASE t # s
  BY <1>3, ReflagIs
<1> QED BY <1>2, <1>3

\* A record of a table with the runtime mark.
Marked(tab, s, i) == [tab EXCEPT ![s][i] = Runtime(@)]

\* A record with one flag or another is marked with either.
LEMMA RuntimeIsReflag ==
    ASSUME NEW tab \in Tables, NEW s \in SectionSet, NEW i \in DOMAIN tab[s]
    PROVE  \E f \in Flags : /\ Marked(tab, s, i) = Reflag(tab, s, i, f)
                            /\ f = IF Deleted(tab[s][i]) THEN "B" ELSE "R"
<1> DEFINE f == IF Deleted(tab[s][i]) THEN "B" ELSE "R"
<1>1. f \in Flags
  BY DEF Flags
<1>2. Marked(tab, s, i) = Reflag(tab, s, i, f)
  BY DEF Marked, Runtime, Reflag, Deleted, Tables
<1> QED BY <1>1, <1>2

\* Dropping an identifier marks its first live record, if it has one.
LEMMA DropIsReflag ==
    ASSUME NEW tab \in Tables, NEW id
    PROVE  \/ Drop(tab, id) = tab
           \/ \E f \in {"D", "B"}, i \in DOMAIN tab["temp"] : Drop(tab, id) = Reflag(tab, "temp", i, f)
<1> DEFINE i == First(Live(tab["temp"], id))
<1>1. tab["temp"] \in Seq(Rec) /\ "temp" \in SectionSet
  BY DEF Tables, SectionSet
<1>2. CASE i = 0
  BY <1>2 DEF Drop
<1>3. CASE i # 0
  <2> DEFINE f == IF tab["temp"][i].flag = "R" THEN "B" ELSE "D"
  <2>1. i \in DOMAIN tab["temp"]
    BY <1>1, <1>3, SearchFinds
  <2>2. Drop(tab, id) = Reflag(tab, "temp", i, f)
    BY <1>3 DEF Drop, Reflag, DeleteMark, Tables
  <2> QED BY <2>1, <2>2
<1> QED BY <1>2, <1>3

\* The record of a file that is put.
NewRec(id, name) == [id |-> id, name |-> name, flag |-> NoFlag]

\* A put replaces the file of the live record, or appends a record.
LEMMA PutIs ==
    \A tab, s, id, name :
        Put(tab, s, id, name) =
            IF First(Live(tab[s], id)) = 0
            THEN [tab EXCEPT ![s] = Append(@, NewRec(id, name))]
            ELSE [tab EXCEPT ![s][First(Live(tab[s], id))] = NewRec(id, name)]
BY Zenon DEF Put, NewRec, NoFlag

\* A table with one more record, at the end of a section.
Extended(tab, new, s, r) ==
    new[s] = Append(tab[s], r) /\ \A t \in SectionSet : t # s => new[t] = tab[t]

\* A record put where none is live is one more, at the end.
LEMMA PutAppends ==
    ASSUME NEW tab \in Tables, NEW s \in SectionSet, NEW id \in Ids, NEW name \in Names,
           NEW r, r = NewRec(id, name),
           Live(tab[s], id) = {},
           NEW new, new = Put(tab, s, id, name)
    PROVE  r \in Rec /\ new \in Tables /\ Extended(tab, new, s, r)
<1>1. tab[s] \in Seq(Rec) /\ r \in Rec
  BY NoFlagIs DEF Tables, Rec, NewRec
<1>2. First(Live(tab[s], id)) = 0
  BY DEF First
<1>3. new = [tab EXCEPT ![s] = Append(@, r)]
  BY <1>2, PutIs
<1>4. Append(tab[s], r) \in Seq(Rec)
  BY <1>1, AppendProperties
<1> QED BY <1>1, <1>3, <1>4 DEF Tables, Extended

\* The room a table takes in the segment is a number.
LEMMA SizeIsNat == ASSUME NEW tab \in Tables PROVE Size(tab) \in Nat
<1>1. "interOut" \in SectionSet /\ "temp" \in SectionSet
  BY DEF SectionSet
<1> DEFINE m == Len(tab["interOut"])
           n == Len(tab["temp"])
<1>2. m \in Nat /\ n \in Nat
  BY <1>1, SectionFacts
<1>3. Size(tab) = m + n
  BY DEF Size
<1> HIDE DEF m, n
<1> QED BY <1>2, <1>3

\* A record more is one more in the size of the table.
LEMMA AppendSize ==
    ASSUME NEW tab \in Tables, NEW s \in {"interOut", "temp"}, NEW r \in Rec, NEW new \in Tables,
           Extended(tab, new, s, r)
    PROVE  Size(new) = Size(tab) + 1
<1> DEFINE m == Len(tab["interOut"])
           n == Len(tab["temp"])
<1>1. "interOut" \in SectionSet /\ "temp" \in SectionSet
  BY DEF SectionSet
<1>2. tab["interOut"] \in Seq(Rec) /\ m \in Nat /\ tab["temp"] \in Seq(Rec) /\ n \in Nat
  BY <1>1, SectionFacts
<1>3. Len(Append(tab["interOut"], r)) = m + 1 /\ Len(Append(tab["temp"], r)) = n + 1
  BY <1>2, AppendProperties
<1>4. Size(tab) = m + n
  BY DEF Size
<1>5. CASE s = "interOut"
  <2>1. new["interOut"] = Append(tab["interOut"], r) /\ new["temp"] = tab["temp"]
    BY <1>1, <1>5 DEF Extended
  <2>2. Size(new) = (m + 1) + n
    BY <1>3, <2>1 DEF Size
  <2> HIDE DEF m, n
  <2> QED BY <1>2, <1>4, <2>2
<1>6. CASE s = "temp"
  <2>1. new["temp"] = Append(tab["temp"], r) /\ new["interOut"] = tab["interOut"]
    BY <1>1, <1>6 DEF Extended
  <2>2. Size(new) = m + (n + 1)
    BY <1>3, <2>1 DEF Size
  <2> HIDE DEF m, n
  <2> QED BY <1>2, <1>4, <2>2
<1> QED BY <1>5, <1>6

\* Whatever is put, the table is a table.
LEMMA PutType ==
    ASSUME NEW tab \in Tables, NEW s \in SectionSet, NEW id \in Ids, NEW name \in Names
    PROVE  Put(tab, s, id, name) \in Tables
<1> DEFINE r == NewRec(id, name)
           i == First(Live(tab[s], id))
<1>1. tab[s] \in Seq(Rec) /\ r \in Rec
  BY NoFlagIs DEF Tables, Rec, NewRec
<1>2. CASE Live(tab[s], id) = {}
  BY <1>2, PutAppends
<1>3. CASE Live(tab[s], id) # {}
  <2>1. i \in DOMAIN tab[s] /\ i # 0
    <3>1. Live(tab[s], id) \in SUBSET (Nat \ {0})
      BY <1>1, LiveIsPosition
    <3>2. i # 0
      BY <1>3, <3>1, FirstFinds
    <3> QED BY <1>1, <3>2, SearchFinds
  <2> HIDE DEF i, r
  <2>2. [tab[s] EXCEPT ![i] = r] \in Seq(Rec)
    BY <1>1, <2>1
  <2>3. Put(tab, s, id, name) = [tab EXCEPT ![s] = [tab[s] EXCEPT ![i] = r]]
    BY <2>1, PutIs DEF Tables, i, r
  <2> QED BY <2>2, <2>3 DEF Tables
<1> QED BY <1>2, <1>3

\* Loading takes the flags away and nothing else.
LEMMA InMemoryIs ==
    ASSUME NEW tab \in Tables
    PROVE  LET new == InMemory(tab)
           IN  /\ new \in Tables
               /\ \A s \in SectionSet :
                    /\ DOMAIN new[s] = DOMAIN tab[s] /\ Len(new[s]) = Len(tab[s])
                    /\ \A i \in DOMAIN tab[s] : new[s][i] = [tab[s][i] EXCEPT !.flag = NoFlag]
<1> DEFINE q(s) == [i \in DOMAIN tab[s] |-> [tab[s][i] EXCEPT !.flag = NoFlag]]
<1>1. ASSUME NEW s \in SectionSet
      PROVE  /\ q(s) \in Seq(Rec) /\ DOMAIN q(s) = DOMAIN tab[s] /\ Len(q(s)) = Len(tab[s])
             /\ \A i \in DOMAIN tab[s] : q(s)[i] = [tab[s][i] EXCEPT !.flag = NoFlag]
  <2>1. tab[s] \in Seq(Rec) /\ DOMAIN tab[s] = 1..Len(tab[s]) /\ Len(tab[s]) \in Nat
    BY DEF Tables
  <2>2. ASSUME NEW i \in DOMAIN tab[s] PROVE [tab[s][i] EXCEPT !.flag = NoFlag] \in Rec
    <3>1. tab[s][i] \in Rec
      BY <2>1
    <3> QED BY <3>1, NoFlagIs DEF Rec
  <2>3. q(s) \in [1..Len(tab[s]) -> Rec]
    BY <2>1, <2>2
  <2>4. q(s) \in Seq(Rec)
    <3> HIDE DEF q
    <3> QED BY <2>1, <2>3, SeqDef
  <2>5. Len(q(s)) = Len(tab[s])
    <3>1. DOMAIN q(s) = 1..Len(tab[s])
      BY <2>1
    <3>2. Len(q(s)) \in Nat /\ DOMAIN q(s) = 1..Len(q(s))
      BY <2>4, LenProperties
    <3> HIDE DEF q
    <3> QED BY <2>1, <3>1, <3>2
  <2> QED BY <2>4, <2>5
<1>2. InMemory(tab) = [s \in SectionSet |-> q(s)]
  BY Zenon DEF InMemory, NoFlag
<1> HIDE DEF q
<1>3. InMemory(tab) \in Tables /\ \A s \in SectionSet : InMemory(tab)[s] = q(s)
  BY <1>1, <1>2 DEF Tables
<1> QED BY <1>1, <1>3

\* The PCF of a new PGE is a table of intermediate input.
LEMMA LoadedIs ==
    ASSUME NEW l \in Listings(InterIn, Cardinality(InterIn))
    PROVE  Loaded(l) \in Tables
<1>1. Cardinality(InterIn) \in Nat
  BY LifeAssumption, FS_CardinalityType
<1>2. \A id \in InterIn : [id |-> id, name |-> PcfName(id), flag |-> ""] \in Rec
  BY LifeAssumption DEF Rec, Names, Flags
<1> QED BY <1>1, <1>2, LoadedType DEF Tables

----------------------------------------------------------------------------
(* Types                                                                   *)

\* The table that a call works on is a table.
LEMMA TableIs ==
    ASSUME Types, phase = "pge"
    PROVE  Table \in Tables /\ (useShm => Table = shm) /\ (~useShm => Table = pcf)
BY DEF Types, TypeOK, Place, Table

\* A call that sets the table sets one of the two, within its room.
LEMMA SetTableIs ==
    ASSUME Types, phase = "pge", NEW tab \in Tables, SetTable(tab),
           useShm => Size(tab) <= Size(pcf) + Spare
    PROVE  /\ useShm => shm' = tab /\ pcf' = pcf
           /\ ~useShm => shm = NoTable /\ shm' = NoTable /\ pcf' = tab
           /\ pcf' \in Tables /\ shm' \in Tables \cup {NoTable}
           /\ shm' # NoTable <=> useShm
           /\ shm' # NoTable => Size(shm') <= Size(pcf') + Spare
BY NoTableAssumption DEF Types, TypeOK, Place, SetTable, Size

\* The first run starts well typed.
LEMMA InitTypes == Init => Types
<1> SUFFICES ASSUME Init PROVE Types
  OBVIOUS
<1>1. pcf \in Tables
  BY LoadedIs DEF Init
<1>2. 1 \in 1..Len(Modes) /\ Modes[1] \in SUBSET BOOLEAN
  BY LifeAssumption
<1>3. disk \subseteq Names
  BY DEF Init, Names
<1> QED BY <1>1, <1>2, <1>3, LifeAssumption, NoTableAssumption DEF Init, Types, TypeOK, Place

\* The record of a new file is in its section, at the end.
LEMMA CreateIs ==
    ASSUME Types, NEW s \in {"interOut", "temp"}, NEW id \in Ids, Create(s, id),
           NEW n, n = NewName(made + 1), NEW old, old = Table, NEW new, new = Put(old, s, id, n),
           NEW r, r = NewRec(id, n)
    PROVE  /\ old \in Tables /\ new \in Tables /\ n \in Names
           /\ s \in SectionSet /\ r \in Rec
           /\ Extended(old, new, s, r)
           /\ useShm => Size(new) <= Size(pcf) + Spare
<1>1. old \in Tables /\ (useShm => old = shm) /\ pcf \in Tables
  BY TableIs DEF Create, Types, TypeOK
<1>2. s \in SectionSet
  BY DEF SectionSet
<1>3. n \in Names
  <2>1. made < MaxNew /\ made \in Nat /\ MaxNew \in Nat
    BY LifeAssumption DEF Create, Types, TypeOK
  <2>2. made + 1 \in 1..MaxNew
    BY <2>1
  <2> QED BY <2>2 DEF Names
<1>4. Live(old[s], id) = {}
  BY <1>2 DEF Create
<1>5. r \in Rec /\ new \in Tables /\ Extended(old, new, s, r)
  BY <1>1, <1>2, <1>3, <1>4, PutAppends
<1>6. ASSUME useShm PROVE Size(new) <= Size(pcf) + Spare
  <2>1. Size(shm) < Size(pcf) + Spare
    BY <1>6 DEF Create, HasRoom
  <2>2. Size(new) = Size(old) + 1
    BY <1>1, <1>5, AppendSize
  <2>3. Size(pcf) \in Nat /\ Size(old) \in Nat
    BY <1>1, SizeIsNat
  <2>4. Size(old) < Size(pcf) + Spare /\ Spare \in Nat
    BY <1>1, <1>6, <2>1, LifeAssumption
  <2> QED BY <2>2, <2>3, <2>4
<1> QED BY <1>1, <1>2, <1>3, <1>5, <1>6

\* A flag does not change the size of a table.
LEMMA ReflagSize ==
    ASSUME NEW tab \in Tables, NEW s \in SectionSet, NEW i \in DOMAIN tab[s], NEW f \in Flags
    PROVE  Size(Reflag(tab, s, i, f)) = Size(tab)
<1> DEFINE new == Reflag(tab, s, i, f)
<1>1. \A t \in SectionSet : Len(new[t]) = Len(tab[t])
  BY ReflagShape
<1> HIDE DEF new
<1>2. Size(new) = Size(tab)
  BY <1>1 DEF Size, SectionSet
<1> QED BY <1>2 DEF new

\* A call that drops an identifier, or marks its file, keeps the size.
LEMMA DropType ==
    ASSUME NEW tab \in Tables, NEW id
    PROVE  Drop(tab, id) \in Tables /\ Size(Drop(tab, id)) = Size(tab)
<1>1. CASE Drop(tab, id) = tab
  BY <1>1
<1>2. ASSUME NEW f \in {"D", "B"}, NEW i \in DOMAIN tab["temp"],
             Drop(tab, id) = Reflag(tab, "temp", i, f)
      PROVE  Drop(tab, id) \in Tables /\ Size(Drop(tab, id)) = Size(tab)
  <2>1. "temp" \in SectionSet /\ f \in Flags
    BY DEF SectionSet, Flags
  <2>2. Reflag(tab, "temp", i, f) \in Tables
    BY <2>1, ReflagIs
  <2>3. Size(Reflag(tab, "temp", i, f)) = Size(tab)
    BY <2>1, ReflagSize
  <2> QED BY <1>2, <2>2, <2>3
<1> QED BY <1>1, <1>2, DropIsReflag

\* A mark leaves a table a table of the same size.
LEMMA RuntimeType ==
    ASSUME NEW tab \in Tables, NEW s \in SectionSet, NEW i \in DOMAIN tab[s]
    PROVE  Marked(tab, s, i) \in Tables /\ Size(Marked(tab, s, i)) = Size(tab)
<1>1. PICK f \in Flags : Marked(tab, s, i) = Reflag(tab, s, i, f)
  BY RuntimeIsReflag
<1>2. Reflag(tab, s, i, f) \in Tables
  BY ReflagIs
<1>3. Size(Reflag(tab, s, i, f)) = Size(tab)
  BY ReflagSize
<1> QED BY <1>1, <1>2, <1>3

\* What every step of the PGE that leaves opening to itself has to show.
LEMMA CallTypes ==
    ASSUME Types, phase = "pge", NEW tab \in Tables, SetTable(tab),
           useShm => Size(tab) <= Size(pcf) + Spare,
           opening' \in {<<>>} \cup (Ids \X Names), made' \in 0..MaxNew,
           UNCHANGED <<disk, phase, useShm, sec, at, runs>>
    PROVE  Types'
<1>1. /\ pcf' \in Tables /\ shm' \in Tables \cup {NoTable}
      /\ shm' # NoTable <=> useShm
      /\ shm' # NoTable => Size(shm') <= Size(pcf') + Spare
  BY SetTableIs
<1>2. TypeOK'
  BY <1>1 DEF Types, TypeOK
<1>3. Place'
  BY <1>1 DEF Types, Place
<1> QED BY <1>2, <1>3 DEF Types

\* Start-up, the calls of the PGE and termination keep the types.
LEMMA InitComTypes == ASSUME Types, InitCom PROVE Types'
<1>1. pcf \in Tables /\ shm = NoTable /\ sec = 1 /\ at = 1 /\ opening = <<>> /\ useShm \in BOOLEAN
  BY DEF Types, TypeOK, Place, InitCom
<1> DEFINE m == InMemory(pcf)
<1>2. m \in Tables /\ \A s \in SectionSet : Len(m[s]) = Len(pcf[s])
  BY <1>1, InMemoryIs
<1>3. Size(m) <= Size(pcf) + Spare
  <2>1. Size(m) = Size(pcf)
    <3>1. Len(m["interOut"]) = Len(pcf["interOut"]) /\ Len(m["temp"]) = Len(pcf["temp"])
      BY <1>2 DEF SectionSet
    <3> HIDE DEF m
    <3> QED BY <3>1 DEF Size
  <2>2. Size(pcf) \in Nat
    BY <1>1, SizeIsNat
  <2> HIDE DEF m
  <2> QED BY <2>1, <2>2, LifeAssumption
<1>4. m # NoTable
  BY <1>2, NoTableAssumption
<1>5. /\ useShm' \in BOOLEAN /\ pcf' = pcf /\ disk' = disk /\ opening' = <<>>
      /\ sec' = 1 /\ at' = 1 /\ made' = made /\ runs' = runs
  BY <1>1 DEF InitCom
<1>6. \/ useShm' /\ shm' = m /\ phase' = "pge"
      \/ ~useShm' /\ shm' = NoTable /\ phase' \in {"pge", "temps"}
      \/ useShm' /\ shm' \in {m, NoTable} /\ phase' = "save"
  BY <1>1 DEF InitCom, FirstOfTerm
<1> HIDE DEF m
<1>7. TypeOK'
  BY <1>2, <1>3, <1>5, <1>6 DEF Types, TypeOK
<1>8. Place'
  BY <1>2, <1>4, <1>5, <1>6 DEF Place
<1> QED BY <1>7, <1>8 DEF Types

LEMMA PgeTypes == ASSUME Types, Pge PROVE Types'
<1>0. pcf \in Tables /\ Spare \in Nat /\ made \in 0..MaxNew /\ MaxNew \in Nat
      /\ opening \in {<<>>} \cup (Ids \X Names)
  BY LifeAssumption DEF Types, TypeOK
<1>1. ASSUME NEW s \in {"interOut", "temp"}, NEW id \in Ids, Create(s, id) PROVE Types'
  <2> PICK n : n = NewName(made + 1)
    OBVIOUS
  <2> PICK old : old = Table
    OBVIOUS
  <2> PICK new : new = Put(old, s, id, n)
    OBVIOUS
  <2> PICK r : r = NewRec(id, n)
    OBVIOUS
  <2>1. new \in Tables /\ n \in Names /\ (useShm => Size(new) <= Size(pcf) + Spare)
    BY <1>1, CreateIs
  <2>2. /\ phase = "pge" /\ made < MaxNew /\ made' = made + 1 /\ SetTable(new) /\ opening' = <<id, n>>
        /\ UNCHANGED <<disk, phase, useShm, sec, at, runs>>
    BY <1>1 DEF Create
  <2>3. made' \in 0..MaxNew
    BY <1>0, <2>2
  <2> QED BY <2>1, <2>2, <2>3, CallTypes
<1>2. CASE Open
  <2>1. opening[2] \in Names
    BY <1>0, <1>2 DEF Open
  <2>2. TypeOK'
    BY <1>2, <2>1 DEF Types, TypeOK, Open
  <2>3. Place'
    BY <1>2 DEF Types, Place, Open
  <2> QED BY <2>2, <2>3 DEF Types
<1>3. ASSUME NEW id, phase = "pge", SetTable(Drop(Table, id)), opening' = <<>>,
             UNCHANGED <<disk, phase, useShm, sec, at, made, runs>>
      PROVE  Types'
  <2>1. Table \in Tables /\ (useShm => Table = shm)
    BY <1>3, TableIs
  <2>2. Drop(Table, id) \in Tables /\ Size(Drop(Table, id)) = Size(Table)
    BY <2>1, DropType
  <2>3. useShm => Size(Table) <= Size(pcf) + Spare
    BY <1>3, <2>1 DEF Types, TypeOK, Place
  <2> QED BY <1>0, <1>3, <2>2, <2>3, CallTypes
<1>4. CASE OpenFails
  <2>1. phase = "pge"
    BY <1>4 DEF OpenFails, Types, Place
  <2> QED BY <1>3, <1>4, <2>1 DEF OpenFails
<1>5. ASSUME NEW id \in Ids, Delete(id) PROVE Types'
  BY <1>3, <1>5 DEF Delete
<1>6. ASSUME NEW s \in SectionSet, NEW id \in Ids, Mark(s, id) PROVE Types'
  <2> PICK i : i = First(Live(Table[s], id))
    OBVIOUS
  <2> PICK old : old = Table
    OBVIOUS
  <2>1. phase = "pge" /\ i # 0 /\ SetTable(Marked(old, s, i))
        /\ UNCHANGED <<disk, phase, useShm, opening, sec, at, made, runs>>
    BY <1>6 DEF Mark, Marked
  <2>2. old \in Tables /\ (useShm => old = shm)
    BY <2>1, TableIs
  <2>3. i \in DOMAIN old[s]
    BY <2>1, <2>2, SectionFacts, SearchFinds
  <2> PICK new : new = Marked(old, s, i)
    OBVIOUS
  <2>4. new \in Tables /\ Size(new) = Size(old)
    BY <2>2, <2>3, RuntimeType
  <2>5. useShm => Size(old) <= Size(pcf) + Spare
    BY <2>1, <2>2 DEF Types, TypeOK, Place
  <2> QED BY <1>0, <2>1, <2>4, <2>5, CallTypes
<1>7. CASE PgeEnds
  <2>1. TypeOK'
    BY <1>7 DEF Types, TypeOK, PgeEnds, FirstOfTerm
  <2>2. Place'
    BY <1>7 DEF Types, Place, PgeEnds, FirstOfTerm
  <2> QED BY <2>1, <2>2 DEF Types
<1> QED BY <1>1, <1>2, <1>4, <1>5, <1>6, <1>7 DEF Pge

\* The sections in the order of the PCF.
LEMMA SectionsAre ==
    /\ Len(SavedSections) = 2 /\ SavedSections[1] = "interOut" /\ SavedSections[2] = "temp"
    /\ \A k \in 1..2 : SavedSections[k] \in SectionSet
    /\ Len(Sections) = 3
    /\ Sections[1] = "interIn" /\ Sections[2] = "interOut" /\ Sections[3] = "temp"
    /\ \A k \in 1..3 : Sections[k] \in SectionSet
    /\ \A s \in SectionSet : \E k \in 1..3 : s = Sections[k]
BY DEF SavedSections, Sections, SectionSet

\* The record at which the saving loop is.
LEMMA SavePutAt ==
    ASSUME Types, SavePut,
           NEW s, s = SavedSections[sec], NEW r, r = shm[s][at]
    PROVE  /\ phase = "save" /\ useShm /\ sec \in 1..2 /\ s \in SectionSet
           /\ shm \in Tables /\ pcf \in Tables
           /\ at \in DOMAIN shm[s] /\ r \in Rec /\ r.id \in Ids /\ r.name \in Names
           /\ \/ /\ FirstLine(s, r.id) # 0 /\ pcf[s][FirstLine(s, r.id)].name = r.name
                 /\ pcf' = pcf
              \/ /\ ~(FirstLine(s, r.id) # 0 /\ pcf[s][FirstLine(s, r.id)].name = r.name)
                 /\ pcf' = Put(pcf, s, r.id, r.name)
           /\ \/ Deleted(r) /\ phase' = "mark" /\ UNCHANGED <<sec, at>>
              \/ ~Deleted(r) /\ Advance /\ UNCHANGED phase
           /\ UNCHANGED <<shm, disk, useShm, opening, made, runs>>
<1>1. /\ phase = "save" /\ shm # NoTable /\ sec <= Len(SavedSections)
      /\ at <= Len(shm[SavedSections[sec]])
  BY DEF SavePut, Loops
<1>2. useShm /\ sec \in 1..2 /\ shm \in Tables /\ pcf \in Tables /\ at \in Nat \ {0}
  BY <1>1 DEF Types, TypeOK, Place
<1>3. s \in SectionSet
  BY <1>2, SectionsAre
<1>4. at \in DOMAIN shm[s] /\ r \in Rec
  BY <1>1, <1>2, <1>3, SectionFacts
<1>5. r.id \in Ids /\ r.name \in Names
  BY <1>4 DEF Rec
<1>6. /\ pcf' = IF FirstLine(s, r.id) # 0 /\ pcf[s][FirstLine(s, r.id)].name = r.name
                THEN pcf ELSE Put(pcf, s, r.id, r.name)
      /\ IF Deleted(r) THEN phase' = "mark" /\ UNCHANGED <<sec, at>>
                       ELSE Advance /\ UNCHANGED phase
      /\ UNCHANGED <<shm, disk, useShm, opening, made, runs>>
  BY DEF SavePut
<1> QED BY <1>1, <1>2, <1>3, <1>4, <1>5, <1>6

\* A search answers with a place in its section.
LEMMA FirstIsPlace ==
    ASSUME NEW tab \in Tables, NEW s \in SectionSet, NEW I \in SUBSET (DOMAIN tab[s]), I # {}
    PROVE  First(I) \in I /\ First(I) \in DOMAIN tab[s] /\ First(I) # 0
<1>1. I \in SUBSET (Nat \ {0})
  BY SectionFacts
<1> QED BY <1>1, FirstFinds

\* First answers 0 when there is nothing to find.
LEMMA FirstOfNone == First({}) = 0
BY DEF First

LEMMA TermComTypes == ASSUME Types, TermCom PROVE Types'
<1>0. pcf \in Tables /\ at \in Nat \ {0} /\ sec \in 1..3
  BY DEF Types, TypeOK
<1>1. CASE SavePut
  <2> PICK s : s = SavedSections[sec]
    OBVIOUS
  <2> PICK r : r = shm[s][at]
    OBVIOUS
  <2>1. s \in SectionSet /\ at \in DOMAIN shm[s] /\ shm \in Tables /\ sec \in 1..2 /\ useShm
        /\ r.id \in Ids /\ r.name \in Names /\ shm' = shm /\ phase = "save"
    BY <1>1, SavePutAt
  <2>2. pcf' = pcf \/ pcf' = Put(pcf, s, r.id, r.name)
    BY <1>1, SavePutAt
  <2>3. pcf' \in Tables
    BY <1>0, <2>1, <2>2, PutType
  <2>4. /\ \/ phase' = "mark" /\ UNCHANGED <<sec, at>>
           \/ phase' = "save" /\ at' = at + 1 /\ sec' = sec
        /\ UNCHANGED <<shm, disk, useShm, opening, made, runs>>
    BY <1>1, <2>1, SavePutAt DEF Advance
  <2>5. shm # NoTable
    BY <1>1 DEF SavePut, Loops
  <2>6. TypeOK'
    BY <1>0, <2>1, <2>3, <2>4 DEF Types, TypeOK
  <2>7. Place'
    BY <2>1, <2>4, <2>5 DEF Types, Place
  <2> QED BY <2>6, <2>7 DEF Types
<1>2. CASE SaveMark
  <2> PICK s : s = SavedSections[sec]
    OBVIOUS
  <2> PICK i : i = LineOf(s, shm[s][at])
    OBVIOUS
  <2>1. phase = "mark" /\ s \in SectionSet /\ shm # NoTable /\ sec \in 1..2 /\ useShm
        /\ at \in DOMAIN shm[s] /\ opening = <<>>
    BY <1>2, SectionsAre DEF SaveMark, Types, Place
  <2>2. i = 0 \/ i \in DOMAIN pcf[s]
    BY <1>0, <2>1, FirstIsPlace, FirstOfNone DEF LineOf, With
  <2>3. pcf' = pcf \/ (i \in DOMAIN pcf[s] /\ pcf' = Reflag(pcf, s, i, "D"))
    BY <1>2, <2>2 DEF SaveMark, Reflag
  <2>4. pcf' \in Tables
    <3>1. "D" \in Flags
      BY DEF Flags
    <3>2. ASSUME i \in DOMAIN pcf[s] PROVE Reflag(pcf, s, i, "D") \in Tables
      BY <1>0, <2>1, <3>1, <3>2, ReflagShape
    <3> QED BY <1>0, <2>3, <3>2
  <2>5. phase' = "remove" /\ UNCHANGED <<shm, disk, useShm, opening, sec, at, made, runs>>
    BY <1>2 DEF SaveMark
  <2>6. TypeOK'
    BY <2>4, <2>5 DEF Types, TypeOK
  <2>7. Place'
    BY <2>1, <2>5 DEF Place
  <2> QED BY <2>6, <2>7 DEF Types
<1>3. CASE SaveRemove
  <2>1. phase = "remove" /\ phase' = "save" /\ at' = at + 1 /\ sec' = sec
        /\ disk' \subseteq disk /\ UNCHANGED <<pcf, shm, useShm, opening, made, runs>>
    BY <1>3 DEF SaveRemove, Advance
  <2>2. TypeOK'
    BY <1>0, <2>1 DEF Types, TypeOK
  <2>3. Place'
    BY <2>1 DEF Types, Place
  <2> QED BY <2>2, <2>3 DEF Types
<1>4. CASE SaveSection
  <2>1. /\ phase = "save" /\ at' = 1 /\ UNCHANGED <<pcf, shm, disk, useShm, opening, made, runs>>
        /\ \/ sec < 2 /\ sec' = sec + 1 /\ phase' = "save"
           \/ sec' = 1 /\ phase' = "marks"
    BY <1>4, SectionsAre DEF SaveSection, EndOfSection
  <2>2. useShm /\ sec \in 1..2 /\ opening = <<>>
    BY <2>1 DEF Types, Place
  <2>3. TypeOK'
    BY <2>1, <2>2 DEF Types, TypeOK
  <2>4. Place'
    BY <2>1, <2>2 DEF Types, Place
  <2> QED BY <2>3, <2>4 DEF Types
<1>5. CASE MarkRuntime
  <2> PICK s : s = Sections[sec]
    OBVIOUS
  <2> PICK i : i = First(Markable(s, shm[s][at]))
    OBVIOUS
  <2>1. phase = "marks" /\ s \in SectionSet
    BY <1>0, <1>5, SectionsAre DEF MarkRuntime, Loops
  <2>2. i = 0 \/ i \in DOMAIN pcf[s]
    BY <1>0, <2>1, FirstIsPlace, FirstOfNone DEF Markable, With
  <2>3. pcf' = pcf \/ (i \in DOMAIN pcf[s] /\ pcf' = Marked(pcf, s, i))
    BY <1>5, <2>2 DEF MarkRuntime, Marked
  <2>4. pcf' \in Tables
    BY <1>0, <2>1, <2>3, RuntimeType
  <2>5. at' = at + 1 /\ sec' = sec /\ UNCHANGED <<shm, disk, phase, useShm, opening, made, runs>>
    BY <1>5 DEF MarkRuntime, Advance
  <2>6. TypeOK'
    BY <1>0, <2>1, <2>4, <2>5 DEF Types, TypeOK
  <2>7. Place'
    BY <2>1, <2>5 DEF Types, Place
  <2> QED BY <2>6, <2>7 DEF Types
<1>6. CASE MarkSection
  <2>1. /\ phase = "marks" /\ at' = 1 /\ UNCHANGED <<pcf, shm, disk, useShm, opening, made, runs>>
        /\ \/ sec < 3 /\ sec' = sec + 1 /\ phase' = "marks"
           \/ sec' = 1 /\ phase' = "done"
    BY <1>6, SectionsAre DEF MarkSection, EndOfSection
  <2>2. TypeOK'
    BY <1>0, <2>1 DEF Types, TypeOK
  <2>3. Place'
    BY <2>1 DEF Types, Place
  <2> QED BY <2>2, <2>3 DEF Types
<1>7. CASE RemoveTemp
  <2>1. phase = "temps" /\ at' = at + 1 /\ sec' = sec /\ disk' \subseteq disk
        /\ UNCHANGED <<pcf, shm, phase, useShm, opening, made, runs>>
    BY <1>7 DEF RemoveTemp, Advance
  <2>2. TypeOK'
    BY <1>0, <2>1 DEF Types, TypeOK
  <2>3. Place'
    BY <2>1 DEF Types, Place
  <2> QED BY <2>2, <2>3 DEF Types
<1>8. CASE TempsRemoved
  <2>1. phase = "temps" /\ phase' = "done" /\ at' = 1
        /\ UNCHANGED <<pcf, shm, disk, useShm, opening, sec, made, runs>>
    BY <1>8 DEF TempsRemoved
  <2>2. TypeOK'
    BY <2>1 DEF Types, TypeOK
  <2>3. Place'
    BY <2>1 DEF Types, Place
  <2> QED BY <2>2, <2>3 DEF Types
<1> QED BY <1>1, <1>2, <1>3, <1>4, <1>5, <1>6, <1>7, <1>8 DEF TermCom

\* Every step keeps the types.
LEMMA TypesKept == ASSUME Types, [Next]_vars PROVE Types'
<1>1. CASE InitCom
  BY <1>1, InitComTypes
<1>2. CASE Pge
  BY <1>2, PgeTypes
<1>3. CASE TermCom
  BY <1>3, TermComTypes
<1>4. CASE Killed
  BY <1>4 DEF Types, TypeOK, Place, Killed
<1>5. CASE NextRun
  <2>1. Modes[runs + 1] \in SUBSET BOOLEAN /\ runs + 1 \in 1..Len(Modes)
    BY <1>5, LifeAssumption DEF Types, TypeOK, NextRun
  <2> QED BY <1>5, <2>1, NoTableAssumption DEF Types, TypeOK, Place, NextRun
<1>6. CASE UNCHANGED vars
  BY <1>6 DEF Types, TypeOK, Place, vars
<1> QED BY <1>1, <1>2, <1>3, <1>4, <1>5, <1>6 DEF Next, Rest

\* The PCF and the table are tables at every step of every run, the files on
\* the disk are the listed and the generated ones, and the segment holds what
\* the PGE puts in it: for all constants.
THEOREM TypeCorrect == Spec => []TypeOK
<1>1. Init => Types
  BY InitTypes
<1>2. Types /\ [Next]_vars => Types'
  BY TypesKept
<1>3. Types => TypeOK
  BY DEF Types
<1> QED BY <1>1, <1>2, <1>3, PTL DEF Spec

----------------------------------------------------------------------------
(* Orderly tables, and the PCF as a copy of the table that is saved        *)

\* The files that were listed, or generated when n names were.
Known(n) == {PcfName(id) : id \in InterIn} \cup {NewName(k) : k \in 1..n}

\* Every file is in a table once.  Of the records of an identifier in a
\* section only the last may be live, and only temporary files are deleted.
NamesKnown(tab, n) == \A s \in SectionSet : \A i \in DOMAIN tab[s] : tab[s][i].name \in Known(n)
NamesDiffer(tab) ==
    \A s, t \in SectionSet : \A i \in DOMAIN tab[s], j \in DOMAIN tab[t] :
        tab[s][i].name = tab[t][j].name => s = t /\ i = j
LastIsLive(tab) ==
    \A s \in SectionSet : \A i, j \in DOMAIN tab[s] :
        i < j /\ tab[s][i].id = tab[s][j].id => Deleted(tab[s][i])
DeletedIsTemp(tab) ==
    \A s \in SectionSet : \A i \in DOMAIN tab[s] : Deleted(tab[s][i]) => s = "temp"
Orderly(tab, n) ==
    NamesKnown(tab, n) /\ NamesDiffer(tab) /\ LastIsLive(tab) /\ DeletedIsTemp(tab)

SameFile(p, r) == p.id = r.id /\ p.name = r.name
\* The flag of a line that is saved and does not have its runtime mark yet.
Unmarked(r) == IF Deleted(r) THEN "D" ELSE NoFlag

\* The PCF has the first n records of a section of the table, the first m of
\* them with their runtime marks.
Copied(tab, img, s, n, m) ==
    /\ n \in 0..Len(tab[s]) /\ Len(img[s]) = n
    /\ \A i \in 1..n :
          /\ SameFile(img[s][i], tab[s][i])
          /\ img[s][i].flag = IF i <= m THEN tab[s][i].flag ELSE Unmarked(tab[s][i])
All(tab, img, s, m) == Copied(tab, img, s, Len(tab[s]), m)

\* The record at position n was put, and its DELETE flag was not yet.
InMark(tab, img, n) ==
    /\ n \in DOMAIN tab["temp"] /\ Len(img["temp"]) = n
    /\ \A i \in 1..n :
          /\ SameFile(img["temp"][i], tab["temp"][i])
          /\ img["temp"][i].flag = IF i < n THEN Unmarked(tab["temp"][i]) ELSE NoFlag

\* How far the records of section k have their marks, when the loop is at
\* record a of section sc.
MarkedTo(tab, k, sc, a) == 
    IF k < sc THEN Len(tab[Sections[k]]) ELSE IF k = sc THEN a - 1 ELSE 0

\* How much of a table the PCF has, by what is running.
Saving(tab, img, ph, sc, a) ==
    /\ ph \in {"pge", "save", "mark", "remove"} => All(tab, img, "interIn", 0)
    /\ ph = "pge" => Copied(tab, img, "interOut", 0, 0) /\ Copied(tab, img, "temp", 0, 0)
    /\ ph = "save" /\ sc = 1 => Copied(tab, img, "interOut", a - 1, 0) /\ Copied(tab, img, "temp", 0, 0)
    /\ ph = "save" /\ sc = 2 => All(tab, img, "interOut", 0) /\ Copied(tab, img, "temp", a - 1, 0)
    /\ ph \in {"mark", "remove"} => sc = 2 /\ All(tab, img, "interOut", 0) /\ Deleted(tab["temp"][a])
    /\ ph = "mark" => InMark(tab, img, a)
    /\ ph = "remove" => Copied(tab, img, "temp", a, 0)
    /\ ph = "marks" => \A k \in 1..3 :
           /\ MarkedTo(tab, k, sc, a) \in 0..Len(tab[Sections[k]])
           /\ All(tab, img, Sections[k], MarkedTo(tab, k, sc, a))
    /\ ph = "done" => img = tab

\* The PCF of a PGE that was not run yet.
Fresh(tab) ==
    /\ Len(tab["interOut"]) = 0 /\ Len(tab["temp"]) = 0
    /\ \A i \in DOMAIN tab["interIn"] : tab["interIn"][i].flag = NoFlag

\* The deleted files of the first n - 1 records are gone.
Gone(q, n, d) == \A i \in DOMAIN q : i < n /\ Deleted(q[i]) => q[i].name \notin d

Removed ==
    /\ phase = "temps" => Gone(pcf["temp"], at, disk)
    /\ phase \in {"save", "mark", "remove"} /\ sec = 2 /\ shm # NoTable =>
          Gone(shm["temp"], at, disk)
    /\ phase = "marks" /\ shm # NoTable => Gone(shm["temp"], Len(shm["temp"]) + 1, disk)
    /\ phase = "done" => Gone(pcf["temp"], Len(pcf["temp"]) + 1, disk)

Inv ==
    /\ Types
    /\ Orderly(pcf, made)
    /\ shm # NoTable => Orderly(shm, made) /\ Saving(shm, pcf, phase, sec, at)
    /\ useShm /\ shm = NoTable => Fresh(pcf)
    /\ Removed

\* A generated name is a new one.
LEMMA NewNameIsNew == ASSUME NEW n \in Nat PROVE NewName(n + 1) \notin Known(n)
BY DEF NewName, Known, PcfName

LEMMA KnownGrows ==
    ASSUME NEW n \in Nat
    PROVE  Known(n) \subseteq Known(n + 1) /\ NewName(n + 1) \in Known(n + 1)
<1>1. 1..n \subseteq 1..(n + 1) /\ n + 1 \in 1..(n + 1)
  OBVIOUS
<1> QED BY <1>1 DEF Known

LEMMA OrderlyGrows ==
    ASSUME NEW n \in Nat, NEW tab, Orderly(tab, n)
    PROVE  Orderly(tab, n + 1)
BY KnownGrows DEF Orderly, NamesKnown

\* A table stays orderly with another flag, as long as what is deleted stays
\* deleted and only temporary files are.
LEMMA ReflagOrderly ==
    ASSUME NEW tab \in Tables, NEW n, Orderly(tab, n),
           NEW s \in SectionSet, NEW i \in DOMAIN tab[s], NEW f \in Flags,
           Deleted(tab[s][i]) => f \in {"D", "B"}, f \in {"D", "B"} => s = "temp",
           NEW new, new = Reflag(tab, s, i, f)
    PROVE  Orderly(new, n)
<1>1. new \in Tables /\ \A t \in SectionSet : DOMAIN new[t] = DOMAIN tab[t]
  BY ReflagShape
<1>2. ASSUME NEW t \in SectionSet, NEW j \in DOMAIN tab[t]
      PROVE  /\ new[t][j].id = tab[t][j].id /\ new[t][j].name = tab[t][j].name
             /\ Deleted(tab[t][j]) => Deleted(new[t][j])
             /\ Deleted(new[t][j]) => t = "temp"
  <2> PICK r : r = new[t][j]
    OBVIOUS
  <2>1. /\ r.id = tab[t][j].id /\ r.name = tab[t][j].name
        /\ t # s \/ j # i => r = tab[t][j]
        /\ t = s /\ j = i => r.flag = f
    BY ReflagRecord
  <2>2. Deleted(tab[t][j]) => t = "temp"
    BY DEF Orderly, DeletedIsTemp
  <2> QED BY <2>1, <2>2 DEF Deleted
<1>3. NamesKnown(new, n)
  BY <1>1, <1>2 DEF Orderly, NamesKnown
<1>4. NamesDiffer(new)
  BY <1>1, <1>2 DEF Orderly, NamesDiffer
<1>5. LastIsLive(new)
  BY <1>1, <1>2 DEF Orderly, LastIsLive
<1>6. DeletedIsTemp(new)
  BY <1>1, <1>2 DEF DeletedIsTemp
<1> QED BY <1>3, <1>4, <1>5, <1>6 DEF Orderly

\* The records of an extended table.
LEMMA ExtendedRecords ==
    ASSUME NEW tab \in Tables, NEW s \in SectionSet, NEW r \in Rec, NEW new \in Tables,
           Extended(tab, new, s, r), NEW t \in SectionSet, NEW j \in DOMAIN new[t]
    PROVE  \/ t = s /\ j = Len(tab[s]) + 1 /\ new[t][j] = r /\ j \notin DOMAIN tab[t]
           \/ j \in DOMAIN tab[t] /\ new[t][j] = tab[t][j]
<1>1. CASE t = s
  <2> PICK q : q = tab[s]
    OBVIOUS
  <2> PICK p : p = new[s]
    OBVIOUS
  <2>1. q \in Seq(Rec) /\ DOMAIN q = 1..Len(q) /\ Len(q) \in Nat /\ p = Append(q, r)
    BY SectionFacts DEF Extended
  <2>2. Len(p) = Len(q) + 1 /\ p[Len(q) + 1] = r /\ \A k \in 1..Len(q) : p[k] = q[k]
    BY <2>1, AppendProperties
  <2>3. DOMAIN p = 1..Len(p)
    BY SectionFacts
  <2>4. j \in 1..(Len(q) + 1)
    BY <1>1, <2>2, <2>3
  <2>5. j = Len(q) + 1 \/ j \in 1..Len(q)
    BY <2>1, <2>4
  <2>6. Len(q) + 1 \notin DOMAIN q
    BY <2>1
  <2> QED BY <1>1, <2>1, <2>2, <2>5, <2>6
<1>2. CASE t # s
  BY <1>2 DEF Extended
<1> QED BY <1>1, <1>2

\* ... and with one more record of a file it has not, under an identifier
\* that is not live in the section.
LEMMA AppendOrderly ==
    ASSUME NEW tab \in Tables, NEW n, NEW m, Orderly(tab, n), Known(n) \subseteq Known(m),
           NEW s \in SectionSet, NEW r \in Rec, NEW new \in Tables,
           Extended(tab, new, s, r), Live(tab[s], r.id) = {}, ~Deleted(r), r.name \in Known(m),
           \A t \in SectionSet : \A j \in DOMAIN tab[t] : tab[t][j].name # r.name
    PROVE  Orderly(new, m)
<1>1. ASSUME NEW t \in SectionSet, NEW j \in DOMAIN new[t]
      PROVE  \/ t = s /\ j = Len(tab[s]) + 1 /\ new[t][j] = r /\ j \notin DOMAIN tab[t]
             \/ j \in DOMAIN tab[t] /\ new[t][j] = tab[t][j]
  BY ExtendedRecords
<1>2. NamesKnown(new, m)
  BY <1>1 DEF Orderly, NamesKnown
<1>3. NamesDiffer(new)
  BY <1>1 DEF Orderly, NamesDiffer
<1>4. LastIsLive(new)
  <2> SUFFICES ASSUME NEW t \in SectionSet, NEW i \in DOMAIN new[t], NEW j \in DOMAIN new[t],
                      i < j, new[t][i].id = new[t][j].id
               PROVE  Deleted(new[t][i])
    BY DEF LastIsLive
  <2>1. CASE j \in DOMAIN tab[t] /\ i \in DOMAIN tab[t]
    <3>1. new[t][i] = tab[t][i] /\ new[t][j] = tab[t][j]
      BY <1>1, <2>1
    <3> QED BY <2>1, <3>1 DEF Orderly, LastIsLive
  <2>2. CASE j \notin DOMAIN tab[t]
    <3>1. t = s /\ new[t][j] = r /\ j = Len(tab[s]) + 1
      BY <1>1, <2>2
    <3>2. i # Len(tab[s]) + 1
      BY <3>1, SectionFacts
    <3>3. i \in DOMAIN tab[s] /\ new[t][i] = tab[s][i]
      BY <1>1, <3>1, <3>2
    <3> QED BY <3>1, <3>3 DEF Live, With
  <2>3. CASE j \in DOMAIN tab[t] /\ i \notin DOMAIN tab[t]
    <3>1. t = s /\ i = Len(tab[s]) + 1
      BY <1>1, <2>3
    <3>2. j \in 1..Len(tab[s]) /\ Len(tab[s]) \in Nat
      BY <2>3, <3>1, SectionFacts
    <3> QED BY <3>1, <3>2
  <2> QED BY <2>1, <2>2, <2>3
<1>5. DeletedIsTemp(new)
  BY <1>1 DEF Orderly, DeletedIsTemp
<1> QED BY <1>2, <1>3, <1>4, <1>5 DEF Orderly

\* The PCF of a PGE that was not run is orderly.
LEMMA LoadedOrderly ==
    ASSUME NEW l \in Listings(InterIn, Cardinality(InterIn)), NEW tab, tab = Loaded(l)
    PROVE  Orderly(tab, 0) /\ Fresh(tab)
<1>1. l \in [1..Cardinality(InterIn) -> InterIn]
      /\ \A i, j \in 1..Cardinality(InterIn) : l[i] = l[j] => i = j
  BY DEF Listings
<1>2. /\ DOMAIN tab["interIn"] = 1..Cardinality(InterIn)
      /\ \A s \in SectionSet : s # "interIn" => tab[s] = <<>>
      /\ "interIn" \in SectionSet
  BY <1>1 DEF Loaded, SectionSet
<1>3. ASSUME NEW i \in 1..Cardinality(InterIn), NEW r, r = tab["interIn"][i]
      PROVE  r.id = l[i] /\ r.name = PcfName(l[i]) /\ r.flag = NoFlag
  BY <1>1, <1>3 DEF Loaded, SectionSet, NoFlag
<1>4. ASSUME NEW s \in SectionSet, NEW i \in DOMAIN tab[s]
      PROVE  s = "interIn" /\ i \in 1..Cardinality(InterIn)
  <2>1. s = "interIn"
    <3>1. DOMAIN <<>> = {}
      OBVIOUS
    <3> QED BY <1>2, <1>4, <3>1
  <2> QED BY <1>2, <1>4, <2>1
<1>5. ASSUME NEW s \in SectionSet, NEW i \in DOMAIN tab[s]
      PROVE  tab[s][i].id = l[i] /\ tab[s][i].name = PcfName(l[i]) /\ tab[s][i].flag = NoFlag
  <2> PICK r : r = tab[s][i]
    OBVIOUS
  <2>1. s = "interIn" /\ i \in 1..Cardinality(InterIn)
    BY <1>4
  <2> QED BY <1>3, <2>1
<1>6. ASSUME NEW i \in 1..Cardinality(InterIn), NEW j \in 1..Cardinality(InterIn),
             PcfName(l[i]) = PcfName(l[j])
      PROVE  i = j
  BY <1>1, <1>6 DEF PcfName
<1>7. NamesKnown(tab, 0)
  <2> SUFFICES ASSUME NEW s \in SectionSet, NEW i \in DOMAIN tab[s]
               PROVE  tab[s][i].name \in Known(0)
    BY DEF NamesKnown
  <2>1. tab[s][i].name = PcfName(l[i]) /\ l[i] \in InterIn
    BY <1>1, <1>4, <1>5
  <2> QED BY <2>1 DEF Known
<1>8. NamesDiffer(tab)
  <2> SUFFICES ASSUME NEW s \in SectionSet, NEW t \in SectionSet,
                      NEW i \in DOMAIN tab[s], NEW j \in DOMAIN tab[t],
                      tab[s][i].name = tab[t][j].name
               PROVE  s = t /\ i = j
    BY DEF NamesDiffer
  <2>1. /\ s = "interIn" /\ i \in 1..Cardinality(InterIn)
        /\ t = "interIn" /\ j \in 1..Cardinality(InterIn)
    BY <1>4
  <2>2. tab[s][i].name = PcfName(l[i]) /\ tab[t][j].name = PcfName(l[j])
    BY <1>5
  <2> QED BY <1>6, <2>1, <2>2
<1>9. LastIsLive(tab)
  <2> SUFFICES ASSUME NEW t \in SectionSet, NEW i \in DOMAIN tab[t], NEW j \in DOMAIN tab[t],
                      i < j, tab[t][i].id = tab[t][j].id
               PROVE  FALSE
    BY DEF LastIsLive
  <2>1. i \in 1..Cardinality(InterIn) /\ j \in 1..Cardinality(InterIn)
    BY <1>4
  <2>2. l[i] = l[j]
    BY <1>5
  <2>3. i = j
    BY <1>1, <2>1, <2>2
  <2> QED BY <2>1, <2>3
<1>10. DeletedIsTemp(tab)
  BY <1>5, NoFlagIs DEF DeletedIsTemp, Deleted
<1>11. Fresh(tab)
  BY <1>2, <1>5, EmptySeq DEF Fresh, SectionSet
<1> QED BY <1>7, <1>8, <1>9, <1>10, <1>11 DEF Orderly

\* Nothing is copied of no records.
LEMMA NoneCopied ==
    ASSUME NEW tab \in Tables, NEW img \in Tables, NEW s \in SectionSet
    PROVE  Copied(tab, img, s, 0, 0) <=> Len(img[s]) = 0
<1>1. Len(tab[s]) \in Nat
  BY SectionFacts
<1> QED BY <1>1 DEF Copied

\* A line that is copied is the record at its place.
LEMMA CopiedLine ==
    ASSUME NEW tab \in Tables, NEW img \in Tables, NEW s \in SectionSet, NEW n, NEW m,
           Copied(tab, img, s, n, m), NEW i \in DOMAIN img[s]
    PROVE  i \in 1..n /\ n \in Nat /\ i \in DOMAIN tab[s] /\ SameFile(img[s][i], tab[s][i])
<1>1. DOMAIN img[s] = 1..Len(img[s]) /\ DOMAIN tab[s] = 1..Len(tab[s]) /\ Len(tab[s]) \in Nat
  BY SectionFacts
<1> QED BY <1>1 DEF Copied

\* The PCF has neither the file of the next record, in any section, nor a live
\* line of its identifier.
LEMMA NextIsNotCopied ==
    ASSUME NEW tab \in Tables, NEW img \in Tables, NEW n, Orderly(tab, n),
           NEW s \in SectionSet, NEW a \in DOMAIN tab[s], NEW r, r = tab[s][a],
           Copied(tab, img, s, a - 1, 0),
           \A t \in SectionSet : \E k, m : Copied(tab, img, t, k, m)
    PROVE  /\ Live(img[s], r.id) = {}
           /\ \A t \in SectionSet : \A j \in DOMAIN img[t] : img[t][j].name # r.name
<1>0. a \in Nat /\ \A j \in 1..(a - 1) : j # a /\ j < a /\ ~(j <= 0)
  BY SectionFacts
<1>1. ASSUME NEW t \in SectionSet, NEW j \in DOMAIN img[t], img[t][j].name = r.name
      PROVE  FALSE
  <2>1. j \in DOMAIN tab[t] /\ tab[t][j].name = tab[s][a].name
    BY <1>1, CopiedLine DEF SameFile
  <2>2. t = s /\ j = a
    BY <2>1 DEF Orderly, NamesDiffer
  <2>3. j \in 1..(a - 1)
    BY <2>2, CopiedLine
  <2> QED BY <1>0, <2>2, <2>3
<1>2. ASSUME NEW j \in Live(img[s], r.id) PROVE FALSE
  <2>1. j \in DOMAIN img[s] /\ img[s][j].id = r.id /\ ~Deleted(img[s][j])
    BY DEF Live, With
  <2>2. j \in 1..(a - 1) /\ j \in DOMAIN tab[s] /\ tab[s][j].id = tab[s][a].id
    BY <2>1, CopiedLine DEF SameFile
  <2>3. Deleted(tab[s][j])
    BY <1>0, <2>2 DEF Orderly, LastIsLive
  <2>4. img[s][j].flag = "D"
    BY <1>0, <2>2, <2>3 DEF Copied, Unmarked
  <2> QED BY <2>1, <2>4 DEF Deleted
<1> QED BY <1>1, <1>2

\* A line is put for a record: its file, without a flag.
PutFor(p, r) == SameFile(p, r) /\ p.flag = NoFlag

\* A record that is put is the next of the copy, but for its DELETE flag.
LEMMA AppendCopied ==
    ASSUME NEW tab \in Tables, NEW img \in Tables, NEW new \in Tables,
           NEW s \in SectionSet, NEW a \in DOMAIN tab[s], Copied(tab, img, s, a - 1, 0),
           NEW p \in Rec, Extended(img, new, s, p), PutFor(p, tab[s][a])
    PROVE  /\ ~Deleted(tab[s][a]) => Copied(tab, new, s, a, 0)
           /\ s = "temp" => InMark(tab, new, a)
<1> PICK q : q = img[s]
  OBVIOUS
<1> PICK u : u = new[s]
  OBVIOUS
<1> PICK len : len = Len(tab[s])
  OBVIOUS
<1>1. a \in 1..len /\ len \in Nat
  BY SectionFacts
<1>2. q \in Seq(Rec) /\ u = Append(q, p)
  BY SectionFacts DEF Extended
<1>3. Len(u) = Len(q) + 1 /\ u[Len(q) + 1] = p /\ \A k \in 1..Len(q) : u[k] = q[k]
  BY <1>2, AppendProperties
<1> PICK n : n = Len(q)
  OBVIOUS
<1>4. Len(u) = a /\ u[a] = p /\ \A k \in 1..(a - 1) : u[k] = q[k]
  <2>1. n = a - 1
    BY DEF Copied
  <2>2. Len(u) = n + 1 /\ u[n + 1] = p /\ \A k \in 1..n : u[k] = q[k]
    BY <1>3
  <2>3. n + 1 = a
    BY <1>1, <2>1
  <2> QED BY <2>1, <2>2, <2>3
<1>5. \A i \in 1..a : i = a \/ (i < a /\ i \in 1..(a - 1) /\ ~(i <= 0))
  BY <1>1
<1>6. ASSUME NEW i \in 1..a
      PROVE  SameFile(u[i], tab[s][i]) /\ u[i].flag = IF i < a THEN Unmarked(tab[s][i]) ELSE NoFlag
  <2>1. CASE i = a
    <3>1. ~(i < a)
      BY <1>1, <2>1
    <3> QED BY <1>4, <2>1, <3>1 DEF PutFor
  <2>2. CASE i < a
    <3>1. i \in 1..(a - 1) /\ ~(i <= 0)
      BY <1>1, <1>5, <2>2
    <3>2. SameFile(q[i], tab[s][i]) /\ q[i].flag = Unmarked(tab[s][i])
      BY <3>1 DEF Copied
    <3> QED BY <1>4, <2>2, <3>1, <3>2
  <2> QED BY <1>5, <2>1, <2>2
<1>7. ASSUME ~Deleted(tab[s][a]) PROVE Copied(tab, new, s, a, 0)
  <2>1. a \in 0..len /\ \A i \in 1..a : ~(i <= 0)
    BY <1>1
  <2>2. ASSUME NEW i \in 1..a PROVE u[i].flag = Unmarked(tab[s][i])
    BY <1>5, <1>6, <1>7 DEF Unmarked
  <2> QED BY <1>4, <1>6, <2>1, <2>2 DEF Copied
<1>8. ASSUME s = "temp" PROVE InMark(tab, new, a)
  BY <1>4, <1>6, <1>8 DEF InMark
<1> QED BY <1>7, <1>8

\* Of one position First gives that one.
LEMMA FirstOfOne == ASSUME NEW i \in Nat PROVE First({i}) = i
BY DEF First

\* The lines of the file of a record.
LinesOf(q, r) == {i \in With(q, r.id) : q[i].name = r.name}

\* The line that was put last gets its DELETE flag: it is the only line of its
\* file, and the only live one of its identifier.
LEMMA LastIsFound ==
    ASSUME NEW tab \in Tables, NEW img \in Tables, NEW n, Orderly(tab, n),
           NEW a \in Nat, InMark(tab, img, a)
    PROVE  /\ a \in DOMAIN img["temp"] /\ a \in Nat \ {0}
           /\ First(LinesOf(img["temp"], tab["temp"][a])) = a
           /\ First(Live(img["temp"], tab["temp"][a].id)) = a
           /\ img["temp"][a].flag = NoFlag
<1> PICK r : r = tab["temp"][a]
  OBVIOUS
<1>0. "temp" \in SectionSet
  BY DEF SectionSet
<1> PICK len : len = Len(tab["temp"])
  OBVIOUS
<1>1. a \in 1..len /\ len \in Nat /\ DOMAIN tab["temp"] = 1..len /\ DOMAIN img["temp"] = 1..a
  BY <1>0, SectionFacts DEF InMark
<1>2. /\ a \in DOMAIN img["temp"] /\ a # 0 /\ ~(a < a)
      /\ \A i \in 1..a : (i = a \/ i < a) /\ i \in DOMAIN tab["temp"]
  BY <1>1
<1>3. img["temp"][a].flag = NoFlag /\ img["temp"][a].id = r.id /\ img["temp"][a].name = r.name
  BY <1>1, <1>2 DEF InMark, SameFile
<1>4. ASSUME NEW i \in DOMAIN img["temp"], img["temp"][i].name = r.name PROVE i = a
  <2>1. i \in DOMAIN tab["temp"] /\ tab["temp"][i].name = tab["temp"][a].name
    BY <1>1, <1>2, <1>4 DEF InMark, SameFile
  <2> QED BY <1>0, <1>1, <2>1 DEF Orderly, NamesDiffer
<1>5. ASSUME NEW i \in DOMAIN img["temp"], img["temp"][i].id = r.id, ~Deleted(img["temp"][i]) PROVE i = a
  <2> SUFFICES ASSUME i < a PROVE FALSE
    BY <1>1, <1>2
  <2>1. i \in DOMAIN tab["temp"] /\ tab["temp"][i].id = tab["temp"][a].id
    BY <1>1, <1>2, <1>5 DEF InMark, SameFile
  <2>2. Deleted(tab["temp"][i])
    BY <1>0, <1>1, <2>1 DEF Orderly, LastIsLive
  <2>3. img["temp"][i].flag = "D"
    BY <1>1, <2>2 DEF InMark, Unmarked
  <2> QED BY <1>5, <2>3 DEF Deleted
<1>6. LinesOf(img["temp"], r) = {a}
  BY <1>2, <1>3, <1>4 DEF LinesOf, With
<1>7. Live(img["temp"], r.id) = {a}
  BY <1>2, <1>3, <1>5, NoFlagIs DEF Live, With, Deleted
<1>8. a \in Nat \ {0}
  BY <1>1
<1> QED BY <1>2, <1>3, <1>6, <1>7, <1>8, FirstOfOne

\* ... and then the record is copied.
LEMMA FlagCopied ==
    ASSUME NEW tab \in Tables, NEW img \in Tables, NEW a, InMark(tab, img, a),
           Deleted(tab["temp"][a]), NEW new, new = Reflag(img, "temp", a, "D")
    PROVE  Copied(tab, new, "temp", a, 0)
<1>0. "temp" \in SectionSet /\ "D" \in Flags
  BY DEF SectionSet, Flags
<1> PICK len : len = Len(tab["temp"])
  OBVIOUS
<1>1. a \in 1..len /\ len \in Nat /\ DOMAIN img["temp"] = 1..a
  BY <1>0, SectionFacts DEF InMark
<1>2. /\ a \in DOMAIN img["temp"] /\ a \in 0..len
      /\ \A i \in 1..a : (i = a \/ i < a) /\ ~(i <= 0) /\ ~(a < a)
  BY <1>1
<1>3. Len(new["temp"]) = a
  <2>1. Len(img["temp"]) = a
    BY DEF InMark
  <2>2. Len(new["temp"]) = Len(img["temp"])
    BY <1>0, <1>2, ReflagShape
  <2> QED BY <2>1, <2>2
<1>4. ASSUME NEW i \in 1..a
      PROVE  SameFile(new["temp"][i], tab["temp"][i]) /\ new["temp"][i].flag = Unmarked(tab["temp"][i]) /\ ~(i <= 0)
  <2> PICK r : r = new["temp"][i]
    OBVIOUS
  <2>1. /\ r.id = img["temp"][i].id /\ r.name = img["temp"][i].name
        /\ i # a => r = img["temp"][i]
        /\ i = a => r.flag = "D"
    <3>1. i \in DOMAIN img["temp"]
      BY <1>1
    <3> QED BY <1>0, <1>2, <3>1, ReflagRecord
  <2>2. /\ SameFile(img["temp"][i], tab["temp"][i])
        /\ img["temp"][i].flag = IF i < a THEN Unmarked(tab["temp"][i]) ELSE NoFlag
    BY DEF InMark
  <2> QED BY <1>2, <2>1, <2>2 DEF SameFile, Unmarked
<1> QED BY <1>2, <1>3, <1>4 DEF Copied

\* Those of them that a runtime mark may be due on.
DueOf(q, r) == {i \in With(q, r.id) : q[i].name = r.name /\ q[i].flag \in {NoFlag, "D"}}

\* The line of a record whose runtime mark is due is the only one of its file.
LEMMA MarkableIs ==
    ASSUME NEW tab \in Tables, NEW img \in Tables, NEW n, Orderly(tab, n),
           NEW s \in SectionSet, NEW a \in DOMAIN tab[s], All(tab, img, s, a - 1)
    PROVE  /\ a \in DOMAIN img[s] /\ img[s][a].flag = Unmarked(tab[s][a])
           /\ First(DueOf(img[s], tab[s][a])) = a
<1> PICK r : r = tab[s][a]
  OBVIOUS
<1> PICK len : len = Len(tab[s])
  OBVIOUS
<1>1. a \in 1..len /\ len \in Nat /\ DOMAIN tab[s] = 1..len /\ DOMAIN img[s] = 1..len /\ ~(a <= a - 1)
  BY SectionFacts DEF All, Copied
<1>2. /\ a \in DOMAIN img[s] /\ SameFile(img[s][a], r)
      /\ img[s][a].flag = Unmarked(r)
  BY <1>1 DEF All, Copied
<1>3. ASSUME NEW i \in DOMAIN img[s], img[s][i].name = r.name PROVE i = a
  <2>1. i \in DOMAIN tab[s] /\ tab[s][i].name = tab[s][a].name
    BY <1>1, <1>3 DEF All, Copied, SameFile
  <2> QED BY <2>1 DEF Orderly, NamesDiffer
<1>4. DueOf(img[s], r) = {a}
  BY <1>2, <1>3 DEF DueOf, With, SameFile, Unmarked
<1> QED BY <1>1, <1>2, <1>4, FirstOfOne

\* A record and its line have the same flag when the line has been marked.
LEMMA MarkCopied ==
    ASSUME NEW tab \in Tables, NEW img \in Tables, NEW s \in SectionSet, NEW a \in DOMAIN tab[s],
           All(tab, img, s, a - 1), NEW new,
           new = IF tab[s][a].flag \in {"R", "B"} THEN Marked(img, s, a) ELSE img
    PROVE  new \in Tables /\ All(tab, new, s, a) /\ \A t \in SectionSet : t # s => new[t] = img[t]
<1> PICK len : len = Len(tab[s])
  OBVIOUS
<1>1. /\ a \in 1..len /\ len \in Nat /\ DOMAIN tab[s] = 1..len /\ DOMAIN img[s] = 1..len
      /\ ~(a <= a - 1)
      /\ \A i \in 1..len : i # a => (i <= a <=> i <= a - 1)
  BY SectionFacts DEF All, Copied
<1>2. Len(img[s]) = len /\ len \in 0..len /\ a \in DOMAIN img[s]
  BY <1>1 DEF All, Copied
<1>3. ASSUME NEW i \in 1..len
      PROVE  /\ SameFile(img[s][i], tab[s][i])
             /\ img[s][i].flag = IF i <= a - 1 THEN tab[s][i].flag ELSE Unmarked(tab[s][i])
  BY DEF All, Copied
<1>4. tab[s][a].flag \in Flags
  BY SectionFacts DEF Rec
<1>5. /\ new \in Tables /\ Len(new[s]) = len
      /\ \A t \in SectionSet : t # s => new[t] = img[t]
      /\ \A i \in 1..len : /\ SameFile(new[s][i], tab[s][i])
                           /\ i # a => new[s][i].flag = img[s][i].flag
                           /\ i = a => new[s][i].flag = tab[s][a].flag
  <2>1. CASE tab[s][a].flag \in {"R", "B"}
    <3>1. PICK f \in Flags : /\ new = Reflag(img, s, a, f)
                             /\ f = IF Deleted(img[s][a]) THEN "B" ELSE "R"
      BY <1>2, <2>1, RuntimeIsReflag
    <3>2. f = tab[s][a].flag
      BY <1>1, <1>3, <2>1, <3>1, NoFlagIs DEF Unmarked, Deleted
    <3>3. new \in Tables
      BY <1>2, <3>1, ReflagShape
    <3>4. Len(new[s]) = Len(img[s])
      BY <1>2, <3>1, ReflagShape
    <3>5. \A t \in SectionSet : t # s => new[t] = img[t]
      BY <1>2, <3>1, ReflagShape
    <3>6. ASSUME NEW i \in 1..len
          PROVE  /\ SameFile(new[s][i], tab[s][i])
                 /\ i # a => new[s][i].flag = img[s][i].flag
                 /\ i = a => new[s][i].flag = f
      <4> PICK q : q = new[s][i]
        OBVIOUS
      <4>1. i \in DOMAIN img[s]
        BY <1>1
      <4>2. /\ q.id = img[s][i].id /\ q.name = img[s][i].name
            /\ i # a => q = img[s][i]
            /\ i = a => q.flag = f
        BY <1>2, <3>1, <4>1, ReflagRecord
      <4> QED BY <1>3, <4>2 DEF SameFile
    <3> QED BY <1>2, <3>2, <3>3, <3>4, <3>5, <3>6
  <2>2. CASE tab[s][a].flag \notin {"R", "B"}
    <3>1. new = img
      BY <2>2
    <3>2. img[s][a].flag = tab[s][a].flag
      BY <1>1, <1>3, <1>4, <2>2, NoFlagIs DEF Unmarked, Deleted
    <3> QED BY <1>2, <1>3, <3>1, <3>2
  <2> QED BY <2>1, <2>2
<1>6. ASSUME NEW i \in 1..len
      PROVE new[s][i].flag = IF i <= a THEN tab[s][i].flag ELSE Unmarked(tab[s][i])
  <2>1. CASE i = a
    <3>1. a <= a
      BY <1>1
    <3> QED BY <1>5, <2>1, <3>1
  <2>2. CASE i # a
    BY <1>1, <1>3, <1>5, <2>2
  <2> QED BY <2>1, <2>2
<1>7. All(tab, new, s, a)
  BY <1>2, <1>5, <1>6 DEF All, Copied
<1> QED BY <1>5, <1>7

\* The PCF is the table when all records have their marks.
LEMMA AllMarkedIsTable ==
    ASSUME NEW tab \in Tables, NEW img \in Tables,
           \A s \in SectionSet : All(tab, img, s, Len(tab[s]))
    PROVE  img = tab
<1>1. ASSUME NEW s \in SectionSet PROVE img[s] = tab[s]
  <2> PICK len : len = Len(tab[s])
    OBVIOUS
  <2>1. /\ img[s] \in Seq(Rec) /\ tab[s] \in Seq(Rec) /\ Len(img[s]) = len /\ len \in Nat
        /\ DOMAIN img[s] = 1..len /\ DOMAIN tab[s] = 1..len
    BY SectionFacts DEF All, Copied
  <2>2. ASSUME NEW i \in 1..len PROVE img[s][i] = tab[s][i]
    <3>1. img[s][i] \in Rec /\ tab[s][i] \in Rec
      BY <2>1, SectionFacts
    <3>2. i <= len
      BY <2>1
    <3>3. SameFile(img[s][i], tab[s][i]) /\ img[s][i].flag = tab[s][i].flag
      BY <3>2 DEF All, Copied
    <3> QED BY <3>1, <3>3 DEF SameFile, Rec
  <2>3. Len(tab[s]) = len
    OBVIOUS
  <2> QED BY <2>1, <2>2, <2>3, SeqEqual
<1> QED BY <1>1 DEF Tables

\* An identifier without deleted records is found in the loaded table as in the
\* PCF: the flags that are cleared are runtime marks.
LEMMA LoadedFinds ==
    ASSUME NEW tab \in Tables, NEW s \in SectionSet, NEW id \in Ids,
           Live(tab[s], id) = With(tab[s], id)
    PROVE  Finds(InMemory(tab), s, id) = Finds(tab, s, id)
<1> DEFINE new == InMemory(tab)
<1>1. /\ tab[s] \in Seq(Rec)
      /\ \A i \in DOMAIN tab[s] : tab[s][i] \in Rec
  BY DEF Tables
<1>2. /\ DOMAIN new[s] = DOMAIN tab[s]
      /\ \A i \in DOMAIN tab[s] : new[s][i] = [tab[s][i] EXCEPT !.flag = NoFlag]
  BY InMemoryIs
<1> HIDE DEF new
<1>3. \A i \in DOMAIN tab[s] : /\ new[s][i].id = tab[s][i].id
                              /\ new[s][i].name = tab[s][i].name
                              /\ new[s][i].flag = NoFlag
  BY <1>1, <1>2 DEF Rec
<1>4. With(new[s], id) = With(tab[s], id)
  BY <1>2, <1>3 DEF With
<1>5. Live(new[s], id) = With(new[s], id)
  BY <1>2, <1>3, NoFlagIs, Zenon DEF Live, With, Deleted
<1>6. \A i \in Live(tab[s], id) : i \in DOMAIN tab[s]
  BY DEF Live, With
<1>7. Live(tab[s], id) \in SUBSET (Nat \ {0})
  BY <1>1, LiveIsPosition
<1> QED BY <1>3, <1>4, <1>5, <1>6, <1>7, FirstFinds DEF Finds, new

\* A PCF without flags is loaded as it is,
LEMMA FreshIsLoaded ==
    ASSUME NEW tab \in Tables, Fresh(tab), NEW new, new = InMemory(tab)
    PROVE  new = tab
<1>1. new \in Tables
  BY InMemoryIs
<1>2. ASSUME NEW s \in SectionSet PROVE new[s] = tab[s]
  <2> PICK len : len = Len(tab[s])
    OBVIOUS
  <2>1. Len(new[s]) = len
    BY InMemoryIs
  <2>2. /\ new[s] \in Seq(Rec) /\ tab[s] \in Seq(Rec) /\ len \in Nat
        /\ DOMAIN new[s] = 1..len /\ DOMAIN tab[s] = 1..len
    BY <1>1, <2>1, SectionFacts
  <2>3. ASSUME NEW i \in 1..len PROVE new[s][i] = tab[s][i]
    <3>1. tab[s][i] \in Rec /\ i # 0 /\ len # 0
      BY <2>2, SectionFacts
    <3>2. tab[s][i].flag = NoFlag
      BY <2>2, <3>1 DEF Fresh, SectionSet
    <3>3. new[s][i] = [tab[s][i] EXCEPT !.flag = NoFlag]
      <4>1. \A j \in DOMAIN tab[s] : InMemory(tab)[s][j] = [tab[s][j] EXCEPT !.flag = NoFlag]
        BY InMemoryIs
      <4> QED BY <2>2, <4>1
    <3> QED BY <3>1, <3>2, <3>3 DEF Rec
  <2> QED BY <2>1, <2>2, <2>3, SeqEqual
<1> QED BY <1>1, <1>2 DEF Tables

\* and is the copy of the table that saving starts from.
LEMMA FreshIsCopied ==
    ASSUME NEW tab \in Tables, Fresh(tab)
    PROVE  /\ All(tab, tab, "interIn", 0)
           /\ Copied(tab, tab, "interOut", 0, 0) /\ Copied(tab, tab, "temp", 0, 0)
<1>1. "interIn" \in SectionSet /\ "interOut" \in SectionSet /\ "temp" \in SectionSet
  BY DEF SectionSet
<1> PICK len : len = Len(tab["interIn"])
  OBVIOUS
<1>2. len \in Nat /\ len \in 0..len /\ \A i \in 1..len : i \in DOMAIN tab["interIn"] /\ ~(i <= 0)
  BY <1>1, SectionFacts
<1>3. All(tab, tab, "interIn", 0)
  BY <1>2, NoFlagIs DEF All, Copied, SameFile, Fresh, Unmarked, Deleted
<1> QED BY <1>1, <1>3, NoneCopied DEF Fresh

----------------------------------------------------------------------------
(* The invariant                                                           *)

\* Shared memory is used in the first run only.
ShmFirst == \A n \in 2..Len(Modes) : Modes[n] \subseteq {FALSE}

\* What a reader of the invariant starts from.
LEMMA InvGives ==
    ASSUME Inv
    PROVE  /\ Types /\ TypeOK /\ Place /\ pcf \in Tables /\ made \in Nat /\ Orderly(pcf, made)
           /\ shm # NoTable => shm \in Tables /\ Orderly(shm, made) /\ Saving(shm, pcf, phase, sec, at)
           /\ useShm /\ shm = NoTable => Fresh(pcf)
           /\ Removed
BY LifeAssumption DEF Inv, Types, TypeOK

\* The PCF of the first run is orderly and fresh.
LEMMA InitInv == Init => Inv
<1> SUFFICES ASSUME Init PROVE Inv
  OBVIOUS
<1> PICK l \in Listings(InterIn, Cardinality(InterIn)) : pcf = Loaded(l)
  BY DEF Init
<1>1. Types /\ shm = NoTable /\ phase = "init" /\ made = 0
  BY InitTypes DEF Init
<1>2. Orderly(pcf, 0) /\ Fresh(pcf)
  BY LoadedOrderly
<1> QED BY <1>1, <1>2 DEF Inv, Removed

\* Nothing has to be gone before the first record.
LEMMA NoneGone ==
    ASSUME NEW tab \in Tables, NEW d
    PROVE  Gone(tab["temp"], 1, d)
<1>1. \A i \in DOMAIN tab["temp"] : ~(i < 1)
  BY SectionFacts DEF SectionSet
<1> QED BY <1>1 DEF Gone

LEMMA InitComInv == ASSUME Inv, InitCom PROVE Inv'
<1>1. /\ pcf \in Tables /\ shm = NoTable /\ sec = 1 /\ at = 1 /\ useShm \in BOOLEAN
      /\ Orderly(pcf, made) /\ (useShm => Fresh(pcf)) /\ Types
  BY InvGives DEF TypeOK, Place, InitCom
<1>2. Types'
  BY <1>1, InitComTypes
<1>3. pcf' = pcf /\ disk' = disk /\ sec' = 1 /\ at' = 1 /\ made' = made
  BY <1>1 DEF InitCom
<1>4. useShm => InMemory(pcf) = pcf
  BY <1>1, FreshIsLoaded
<1>5. \/ useShm' /\ useShm /\ shm' = pcf /\ phase' = "pge"
      \/ ~useShm' /\ shm' = NoTable /\ phase' \in {"pge", "temps"}
      \/ useShm' /\ useShm /\ shm' \in {pcf, NoTable} /\ phase' = "save"
  BY <1>1, <1>4 DEF InitCom, FirstOfTerm
<1>6. ASSUME shm' # NoTable
      PROVE  Orderly(shm', made') /\ Saving(shm', pcf', phase', sec', at')
  <2>1. /\ All(pcf, pcf, "interIn", 0)
        /\ Copied(pcf, pcf, "interOut", 0, 0) /\ Copied(pcf, pcf, "temp", 0, 0)
    BY <1>1, <1>5, <1>6, FreshIsCopied
  <2>2. shm' = pcf /\ phase' \in {"pge", "save"} /\ 1 - 1 = 0
    BY <1>5, <1>6
  <2> QED BY <1>1, <1>3, <2>1, <2>2 DEF Saving
<1>7. Removed'
  <2>1. Gone(pcf["temp"], 1, disk)
    BY <1>1, NoneGone
  <2> QED BY <1>3, <1>5, <2>1 DEF Removed
<1> QED BY <1>1, <1>2, <1>3, <1>5, <1>6, <1>7 DEF Inv

\* A call of the PGE that leaves an orderly table, and the files of
\* intermediate input in their places.
LEMMA CallInv ==
    ASSUME Inv, Types', phase = "pge", NEW old, old = Table, NEW new \in Tables, SetTable(new),
           UNCHANGED <<disk, phase, useShm, sec, at>>, made' \in {made, made + 1},
           Orderly(new, made'), Len(new["interIn"]) = Len(old["interIn"]),
           \A i \in DOMAIN old["interIn"] : SameFile(new["interIn"][i], old["interIn"][i])
    PROVE  Inv'
<1>1. /\ pcf \in Tables /\ made \in Nat /\ Orderly(pcf, made) /\ Types /\ Place
      /\ old \in Tables /\ (useShm => old = shm) /\ (~useShm => old = pcf)
      /\ (shm # NoTable <=> useShm)
  BY InvGives, TableIs DEF Place
<1>2. Orderly(pcf, made')
  BY <1>1, OrderlyGrows
<1>3. CASE useShm
  <2>1. shm' = new /\ pcf' = pcf /\ shm' # NoTable
    BY <1>3, NoTableAssumption DEF SetTable
  <2>2. Orderly(old, made) /\ Saving(old, pcf, "pge", sec, at)
    BY <1>1, <1>3, InvGives
  <2>3. /\ All(old, pcf, "interIn", 0)
        /\ Copied(old, pcf, "interOut", 0, 0) /\ Copied(old, pcf, "temp", 0, 0)
    BY <2>2 DEF Saving
  <2>4. All(new, pcf, "interIn", 0)
    <3> PICK len : len = Len(old["interIn"])
      OBVIOUS
    <3>1. "interIn" \in SectionSet /\ len \in Nat /\ DOMAIN old["interIn"] = 1..len
          /\ DOMAIN new["interIn"] = 1..len
      BY <1>1, SectionFacts DEF SectionSet
    <3>2. \A i \in 1..len : ~(i <= 0)
      BY <3>1
    <3>3. \A i \in 1..len : ~Deleted(old["interIn"][i]) /\ ~Deleted(new["interIn"][i])
      BY <2>2, <3>1 DEF Orderly, DeletedIsTemp
    <3>4. /\ len \in 0..len /\ Len(new["interIn"]) = len /\ Len(pcf["interIn"]) = len
          /\ \A i \in 1..len : /\ SameFile(pcf["interIn"][i], old["interIn"][i])
                              /\ pcf["interIn"][i].flag = NoFlag
      BY <2>3, <3>1, <3>2, <3>3 DEF All, Copied, Unmarked
    <3>5. \A i \in 1..len : SameFile(pcf["interIn"][i], new["interIn"][i])
      BY <3>1, <3>4 DEF SameFile
    <3> QED BY <3>2, <3>3, <3>4, <3>5 DEF All, Copied, Unmarked
  <2>5. Copied(new, pcf, "interOut", 0, 0) /\ Copied(new, pcf, "temp", 0, 0)
    BY <1>1, <2>3, NoneCopied DEF SectionSet
  <2>6. Saving(new, pcf, "pge", sec, at)
    BY <2>4, <2>5 DEF Saving
  <2>7. Removed'
    BY DEF Removed
  <2> QED BY <1>2, <2>1, <2>6, <2>7 DEF Inv
<1>4. CASE ~useShm
  <2>1. pcf' = new /\ shm' = NoTable
    BY <1>1, <1>4 DEF SetTable
  <2> QED BY <1>4, <2>1 DEF Inv, Removed
<1> QED BY <1>3, <1>4

\* A call that gives a record another flag.
LEMMA ReflagInv ==
    ASSUME Inv, Types', phase = "pge", NEW old, old = Table,
           NEW s \in SectionSet, NEW i \in DOMAIN old[s], NEW f \in Flags,
           Deleted(old[s][i]) => f \in {"D", "B"}, f \in {"D", "B"} => s = "temp",
           SetTable(Reflag(old, s, i, f)), UNCHANGED <<disk, phase, useShm, sec, at, made>>
    PROVE  Inv'
<1> PICK new : new = Reflag(old, s, i, f)
  OBVIOUS
<1>1. old \in Tables /\ Orderly(old, made) /\ "interIn" \in SectionSet
  BY InvGives, TableIs DEF Place, SectionSet
<1>2. new \in Tables
  BY <1>1, ReflagShape
<1>3. Len(new["interIn"]) = Len(old["interIn"])
  BY <1>1, ReflagShape
<1>4. Orderly(new, made)
  BY <1>1, ReflagOrderly
<1>5. ASSUME NEW j \in DOMAIN old["interIn"]
      PROVE  SameFile(new["interIn"][j], old["interIn"][j])
  <2> PICK r : r = new["interIn"][j]
    OBVIOUS
  <2>1. r.id = old["interIn"][j].id /\ r.name = old["interIn"][j].name
    BY <1>1, ReflagRecord
  <2> QED BY <2>1 DEF SameFile
<1>6. SetTable(new)
  OBVIOUS
<1>7. made' = made /\ UNCHANGED <<disk, phase, useShm, sec, at>>
  OBVIOUS
<1> QED BY <1>2, <1>3, <1>4, <1>5, <1>6, <1>7, CallInv

\* A call that drops an identifier, or that changes nothing.
LEMMA DropInv ==
    ASSUME Inv, Types', phase = "pge", NEW id, SetTable(Drop(Table, id)),
           UNCHANGED <<disk, phase, useShm, sec, at, made>>
    PROVE  Inv'
<1> PICK old : old = Table
  OBVIOUS
<1>1. old \in Tables /\ Orderly(old, made)
  BY InvGives, TableIs DEF Place
<1>2. CASE Drop(old, id) = old
  <2>1. SetTable(old)
    BY <1>2
  <2>2. \A i \in DOMAIN old["interIn"] : SameFile(old["interIn"][i], old["interIn"][i])
    BY DEF SameFile
  <2> QED BY <1>1, <2>1, <2>2, CallInv
<1>3. ASSUME NEW f \in {"D", "B"}, NEW i \in DOMAIN old["temp"],
             Drop(old, id) = Reflag(old, "temp", i, f)
      PROVE  Inv'
  <2>1. "temp" \in SectionSet /\ f \in Flags
    BY DEF SectionSet, Flags
  <2>2. SetTable(Reflag(old, "temp", i, f))
    BY <1>3
  <2> QED BY <2>1, <2>2, ReflagInv
<1> QED BY <1>1, <1>2, <1>3, DropIsReflag

\* A creation adds a record with a new name.
LEMMA CreateInv ==
    ASSUME Inv, Types', NEW s \in {"interOut", "temp"}, NEW id \in Ids, Create(s, id)
    PROVE  Inv'
<1> PICK n : n = NewName(made + 1)
  OBVIOUS
<1> PICK old : old = Table
  OBVIOUS
<1> PICK new : new = Put(old, s, id, n)
  OBVIOUS
<1> PICK r : r = NewRec(id, n)
  OBVIOUS
<1>1. /\ phase = "pge" /\ SetTable(new) /\ made' = made + 1
      /\ UNCHANGED <<disk, phase, useShm, sec, at>>
  BY DEF Create
<1>2. Types /\ made \in Nat /\ "interIn" \in SectionSet
  BY InvGives DEF SectionSet
<1>3. /\ old \in Tables /\ new \in Tables /\ s \in SectionSet /\ r \in Rec
      /\ Extended(old, new, s, r)
  BY <1>2, CreateIs
<1>4. Orderly(old, made)
  BY <1>1, <1>2, InvGives, TableIs DEF Place
<1>5. Live(old[s], r.id) = {} /\ ~Deleted(r) /\ r.name = n
  BY <1>3, NoFlagIs DEF Create, NewRec, Deleted
<1>6. n \in Known(made + 1) /\ n \notin Known(made) /\ Known(made) \subseteq Known(made + 1)
  BY <1>2, KnownGrows, NewNameIsNew
<1>7. \A t \in SectionSet : \A j \in DOMAIN old[t] : old[t][j].name # r.name
  BY <1>4, <1>5, <1>6 DEF Orderly, NamesKnown
<1>8. Orderly(new, made')
  <2>1. r.name \in Known(made')
    BY <1>1, <1>5, <1>6
  <2>2. Known(made) \subseteq Known(made')
    BY <1>1, <1>6
  <2> QED BY <1>3, <1>4, <1>5, <1>7, <2>1, <2>2, AppendOrderly
<1>9. new["interIn"] = old["interIn"]
  BY <1>2, <1>3 DEF Extended
<1>10. \A i \in DOMAIN old["interIn"] : SameFile(new["interIn"][i], old["interIn"][i])
  BY <1>9 DEF SameFile
<1> QED BY <1>1, <1>3, <1>8, <1>9, <1>10, CallInv

\* The calls of a PGE keep the invariant, in shared memory or in the PCF.
LEMMA PgeInv == ASSUME Inv, Pge PROVE Inv'
<1>0. Types /\ Types' /\ Place
  BY InvGives, PgeTypes
<1>1. ASSUME NEW s \in {"interOut", "temp"}, NEW id \in Ids, Create(s, id) PROVE Inv'
  BY <1>0, <1>1, CreateInv
<1>2. CASE Open
  <2>1. phase = "pge"
    BY <1>0, <1>2 DEF Open, Place
  <2>2. UNCHANGED <<pcf, shm, phase, useShm, sec, at, made>>
    BY <1>2 DEF Open
  <2> QED BY <1>0, <2>1, <2>2 DEF Inv, Removed
<1>3. CASE OpenFails
  <2>1. phase = "pge"
    BY <1>0, <1>3 DEF OpenFails, Place
  <2> QED BY <1>0, <1>3, <2>1, DropInv DEF OpenFails
<1>4. ASSUME NEW id \in Ids, Delete(id) PROVE Inv'
  BY <1>0, <1>4, DropInv DEF Delete
<1>5. ASSUME NEW s \in SectionSet, NEW id \in Ids, Mark(s, id) PROVE Inv'
  <2> PICK i : i = First(Live(Table[s], id))
    OBVIOUS
  <2> PICK old : old = Table
    OBVIOUS
  <2>1. phase = "pge" /\ i # 0 /\ SetTable(Marked(old, s, i))
        /\ UNCHANGED <<disk, phase, useShm, sec, at, made>>
    BY <1>5 DEF Mark, Marked
  <2>2. old \in Tables
    BY <1>0, <2>1, TableIs
  <2>3. i \in DOMAIN old[s] /\ ~Deleted(old[s][i])
    BY <2>1, <2>2, SectionFacts, SearchFinds
  <2>4. PICK f \in Flags : Marked(old, s, i) = Reflag(old, s, i, f) /\ f = "R"
    BY <2>2, <2>3, RuntimeIsReflag
  <2>5. SetTable(Reflag(old, s, i, f)) /\ f \notin {"D", "B"}
    BY <2>1, <2>4
  <2> QED BY <1>0, <2>1, <2>3, <2>5, ReflagInv
<1>6. CASE PgeEnds
  <2>1. /\ phase = "pge" /\ sec = 1 /\ at = 1 /\ (shm # NoTable <=> useShm)
        /\ UNCHANGED <<pcf, shm, disk, useShm, sec, at, made>>
        /\ phase' = IF useShm THEN "save" ELSE "temps"
    BY <1>0, <1>6 DEF PgeEnds, FirstOfTerm, Place
  <2>2. shm # NoTable => Saving(shm, pcf, "save", 1, 1)
    <3> SUFFICES ASSUME shm # NoTable PROVE Saving(shm, pcf, "save", 1, 1)
      OBVIOUS
    <3>1. Saving(shm, pcf, "pge", 1, 1) /\ 1 - 1 = 0
      BY <2>1, InvGives
    <3> QED BY <3>1 DEF Saving
  <2>3. Removed'
    <3>1. Gone(pcf["temp"], 1, disk)
      BY InvGives, NoneGone
    <3> QED BY <2>1, <3>1 DEF Removed
  <2>4. shm' # NoTable => Saving(shm', pcf', phase', sec', at')
    BY <2>1, <2>2
  <2> QED BY <1>0, <2>1, <2>3, <2>4 DEF Inv
<1> QED BY <1>1, <1>2, <1>3, <1>4, <1>5, <1>6 DEF Pge

\* While the loop of the save is at a record, the PCF has those before it and
\* no other.
LEMMA SavePutIs ==
    ASSUME Inv, SavePut,
           NEW s, s = SavedSections[sec], NEW r, r = shm[s][at], NEW p, p = NewRec(r.id, r.name)
    PROVE  /\ s \in {"interOut", "temp"} /\ r.id \in Ids /\ r.name \in Names
           /\ pcf' = Put(pcf, s, r.id, r.name) /\ Orderly(pcf', made)
           /\ p \in Rec /\ pcf' \in Tables /\ Extended(pcf, pcf', s, p)
           /\ PutFor(p, r) /\ Copied(shm, pcf, s, at - 1, 0)
<1>1. /\ Types /\ pcf \in Tables /\ shm \in Tables /\ Orderly(pcf, made) /\ Orderly(shm, made)
      /\ Saving(shm, pcf, "save", sec, at)
      /\ phase = "save" /\ sec \in 1..2 /\ s \in SectionSet /\ at \in DOMAIN shm[s]
      /\ r \in Rec /\ r.id \in Ids /\ r.name \in Names
  BY InvGives, SavePutAt, NoTableAssumption
<1>2. /\ "interIn" \in SectionSet /\ "interOut" \in SectionSet /\ "temp" \in SectionSet
      /\ \A t \in SectionSet : t = "interIn" \/ t = "interOut" \/ t = "temp"
  BY DEF SectionSet
<1>3. (s = "interOut" /\ sec = 1) \/ (s = "temp" /\ sec = 2)
  BY <1>1, SectionsAre
<1>4. Copied(shm, pcf, s, at - 1, 0)
  BY <1>1, <1>3 DEF Saving
<1>5. \A t \in SectionSet : \E k, m : Copied(shm, pcf, t, k, m)
  <2>1. \E k, m : Copied(shm, pcf, "interIn", k, m)
    BY <1>1 DEF Saving, All
  <2>2. \E k, m : Copied(shm, pcf, "interOut", k, m)
    BY <1>1, <1>3 DEF Saving, All
  <2>3. \E k, m : Copied(shm, pcf, "temp", k, m)
    BY <1>1, <1>3 DEF Saving
  <2> QED BY <1>2, <2>1, <2>2, <2>3
<1>6. /\ Live(pcf[s], r.id) = {}
      /\ \A t \in SectionSet : \A j \in DOMAIN pcf[t] : pcf[t][j].name # r.name
  <2>1. /\ shm \in Tables /\ pcf \in Tables /\ Orderly(shm, made)
        /\ s \in SectionSet /\ at \in DOMAIN shm[s] /\ r = shm[s][at]
    BY <1>1
  <2>2. Live(pcf[s], r.id) = {}
    BY <1>4, <1>5, <2>1, NextIsNotCopied
  <2>3. \A t \in SectionSet : \A j \in DOMAIN pcf[t] : pcf[t][j].name # r.name
    BY <1>4, <1>5, <2>1, NextIsNotCopied
  <2> QED BY <2>2, <2>3
<1>7. pcf' = Put(pcf, s, r.id, r.name)
  <2> PICK i : i = FirstLine(s, r.id)
    OBVIOUS
  <2>1. i = 0 \/ i \in DOMAIN pcf[s]
    BY <1>1, FirstIsPlace, FirstOfNone DEF FirstLine, With
  <2>2. ~(i # 0 /\ pcf[s][i].name = r.name)
    BY <1>1, <1>6, <2>1
  <2> QED BY <1>1, <2>2, SavePutAt
<1>8. p \in Rec /\ pcf' \in Tables /\ Extended(pcf, pcf', s, p)
  <2> PICK id : id = r.id
    OBVIOUS
  <2> PICK name : name = r.name
    OBVIOUS
  <2> PICK new : new = Put(pcf, s, id, name)
    OBVIOUS
  <2>0. /\ pcf \in Tables /\ s \in SectionSet /\ id \in Ids /\ name \in Names
        /\ p = NewRec(id, name) /\ Live(pcf[s], id) = {}
    BY <1>1, <1>6
  <2>1. p \in Rec /\ new \in Tables /\ Extended(pcf, new, s, p)
    BY <2>0, PutAppends
  <2> QED BY <1>7, <2>1
<1>9. PutFor(p, r) /\ p.id = r.id /\ p.name = r.name /\ ~Deleted(p)
  BY NoFlagIs DEF PutFor, SameFile, NewRec, Deleted
<1>10. Orderly(pcf', made)
  <2>1. r.name \in Known(made)
    BY <1>1 DEF Orderly, NamesKnown
  <2>2. Live(pcf[s], p.id) = {} /\ p.name \in Known(made)
        /\ \A t \in SectionSet : \A j \in DOMAIN pcf[t] : pcf[t][j].name # p.name
    BY <1>6, <1>9, <2>1
  <2> QED BY <1>1, <1>8, <1>9, <2>2, AppendOrderly
<1> QED BY <1>1, <1>3, <1>4, <1>7, <1>8, <1>9, <1>10

\* The PCF then has one record more of the section.
LEMMA SavePutInv == ASSUME Inv, SavePut, Types' PROVE Inv'
<1> PICK s : s = SavedSections[sec]
  OBVIOUS
<1> PICK r : r = shm[s][at]
  OBVIOUS
<1> PICK p : p = NewRec(r.id, r.name)
  OBVIOUS
<1> PICK new : new = pcf'
  OBVIOUS
<1>1. /\ Types /\ pcf \in Tables /\ shm \in Tables /\ Orderly(shm, made) /\ shm # NoTable
      /\ Saving(shm, pcf, "save", sec, at) /\ phase = "save" /\ useShm
      /\ sec \in 1..2 /\ s \in SectionSet /\ at \in DOMAIN shm[s]
      /\ Removed
  BY InvGives, SavePutAt, NoTableAssumption
<1>2. /\ s \in {"interOut", "temp"} /\ Orderly(new, made) /\ new \in Tables /\ p \in Rec
      /\ Extended(pcf, new, s, p) /\ PutFor(p, r) /\ Copied(shm, pcf, s, at - 1, 0)
  BY SavePutIs
<1>3. (s = "interOut" /\ sec = 1) \/ (s = "temp" /\ sec = 2)
  BY <1>1, SectionsAre
<1>4. /\ ~Deleted(r) => Copied(shm, new, s, at, 0)
      /\ s = "temp" => InMark(shm, new, at)
  BY <1>1, <1>2, AppendCopied
<1>5. \A t \in SectionSet : t # s => new[t] = pcf[t]
  BY <1>2 DEF Extended
<1>6. All(shm, new, "interIn", 0)
  BY <1>1, <1>2, <1>5 DEF Saving, All, Copied, SectionSet
<1>7. sec = 1 => Copied(shm, new, "temp", 0, 0)
  BY <1>1, <1>3, <1>5 DEF Saving, Copied, SectionSet
<1>8. sec = 2 => All(shm, new, "interOut", 0)
  BY <1>1, <1>3, <1>5 DEF Saving, All, Copied, SectionSet
<1>9. UNCHANGED <<shm, disk, useShm, made>>
  BY <1>1, SavePutAt
<1>10. CASE ~Deleted(r)
  <2>1. phase' = "save" /\ sec' = sec /\ at' = at + 1
    BY <1>1, <1>10, SavePutAt DEF Advance
  <2>2. at + 1 - 1 = at /\ at \in Nat
    BY <1>1 DEF Types, TypeOK
  <2>3. Saving(shm, new, "save", sec, at + 1)
    BY <1>3, <1>4, <1>6, <1>7, <1>8, <1>10, <2>2 DEF Saving
  <2>4. sec = 2 => Gone(shm["temp"], at + 1, disk)
    <3> SUFFICES ASSUME sec = 2, NEW i \in DOMAIN shm["temp"], i < at + 1, Deleted(shm["temp"][i])
                 PROVE  shm["temp"][i].name \notin disk
      BY DEF Gone
    <3>1. i # at
      BY <1>3, <1>10
    <3>2. i < at
      <4>1. i \in Nat
        BY <1>1, SectionFacts DEF SectionSet
      <4> QED BY <2>2, <3>1, <4>1
    <3> QED BY <1>1, <3>2 DEF Removed, Gone
  <2>5. Removed'
    BY <1>9, <2>1, <2>4 DEF Removed
  <2> QED BY <1>1, <1>2, <1>9, <2>1, <2>3, <2>5 DEF Inv
<1>11. CASE Deleted(r)
  <2>1. phase' = "mark" /\ sec' = sec /\ at' = at
    BY <1>1, <1>11, SavePutAt
  <2>2. s = "temp" /\ sec = 2
    BY <1>1, <1>3, <1>11 DEF Orderly, DeletedIsTemp
  <2>3. Saving(shm, new, "mark", sec, at)
    BY <1>4, <1>6, <1>8, <1>11, <2>2 DEF Saving
  <2>4. Removed'
    BY <1>1, <1>9, <2>1, <2>2 DEF Removed
  <2> QED BY <1>1, <1>2, <1>9, <2>1, <2>3, <2>4 DEF Inv
<1> QED BY <1>10, <1>11

\* The state while a deleted record is saved.
LEMMA AtDeleted ==
    ASSUME Inv, phase \in {"mark", "remove"}
    PROVE  /\ sec = 2 /\ SavedSections[sec] = "temp" /\ "temp" \in SectionSet
           /\ shm # NoTable /\ shm \in Tables /\ pcf \in Tables /\ useShm
           /\ at \in DOMAIN shm["temp"] /\ at \in Nat /\ Deleted(shm["temp"][at])
           /\ Orderly(shm, made) /\ Orderly(pcf, made)
           /\ All(shm, pcf, "interIn", 0) /\ All(shm, pcf, "interOut", 0)
           /\ phase = "mark" => InMark(shm, pcf, at)
           /\ phase = "remove" => Copied(shm, pcf, "temp", at, 0)
           /\ Gone(shm["temp"], at, disk)
<1>1. /\ shm # NoTable /\ shm \in Tables /\ pcf \in Tables /\ useShm /\ Saving(shm, pcf, phase, sec, at)
      /\ Orderly(shm, made) /\ Orderly(pcf, made) /\ Removed
      /\ at \in DOMAIN shm[SavedSections[sec]] /\ at \in Nat
  BY InvGives DEF Place, TypeOK
<1>2. sec = 2 /\ Deleted(shm["temp"][at]) /\ All(shm, pcf, "interIn", 0) /\ All(shm, pcf, "interOut", 0)
      /\ (phase = "mark" => InMark(shm, pcf, at)) /\ (phase = "remove" => Copied(shm, pcf, "temp", at, 0))
  BY <1>1 DEF Saving
<1> QED BY <1>1, <1>2, SectionsAre DEF Removed, SectionSet

\* The line that is marked is the one that was put, and it is the line that a
\* search finds.
LEMMA SaveMarkIs ==
    ASSUME Inv, SaveMark, NEW r, r = shm["temp"][at]
    PROVE  /\ at \in DOMAIN pcf["temp"] /\ at # 0 /\ pcf["temp"][at].flag = NoFlag
           /\ First(Live(pcf["temp"], r.id)) = at
           /\ pcf' = Reflag(pcf, "temp", at, "D")
<1>1. /\ phase = "mark" /\ SavedSections[sec] = "temp" /\ shm \in Tables /\ pcf \in Tables
      /\ at \in Nat /\ InMark(shm, pcf, at) /\ Orderly(shm, made)
  BY AtDeleted DEF SaveMark
<1>2. at \in DOMAIN pcf["temp"] /\ at # 0 /\ pcf["temp"][at].flag = NoFlag
  BY <1>1, LastIsFound
<1>3. First(LinesOf(pcf["temp"], r)) = at /\ First(Live(pcf["temp"], r.id)) = at
  BY <1>1, LastIsFound
<1>4. LineOf("temp", r) = at
  BY <1>3 DEF LineOf, LinesOf
<1> QED BY <1>1, <1>2, <1>3, <1>4 DEF SaveMark, Reflag

\* The DELETE flag is put on the line of the record that was put.
LEMMA SaveMarkInv == ASSUME Inv, SaveMark, Types' PROVE Inv'
<1> PICK r : r = shm["temp"][at]
  OBVIOUS
<1> PICK new : new = pcf'
  OBVIOUS
<1>1. /\ phase = "mark" /\ phase' = "remove" /\ UNCHANGED <<shm, disk, useShm, opening, sec, at, made, runs>>
  BY DEF SaveMark
<1>2. new = Reflag(pcf, "temp", at, "D") /\ at \in DOMAIN pcf["temp"]
  BY SaveMarkIs
<1>3. /\ sec = 2 /\ "temp" \in SectionSet
      /\ shm # NoTable /\ shm \in Tables /\ pcf \in Tables /\ useShm
      /\ Deleted(shm["temp"][at])
      /\ Orderly(shm, made) /\ Orderly(pcf, made)
      /\ All(shm, pcf, "interIn", 0) /\ All(shm, pcf, "interOut", 0)
      /\ InMark(shm, pcf, at) /\ Gone(shm["temp"], at, disk)
  BY <1>1, AtDeleted
<1>4. Copied(shm, new, "temp", at, 0)
  BY <1>2, <1>3, FlagCopied
<1>5. "D" \in Flags /\ "D" \in {"D", "B"}
  BY DEF Flags
<1>6. \A t \in SectionSet : t # "temp" => new[t] = pcf[t]
  BY <1>2, <1>3, <1>5, ReflagShape
<1>7. All(shm, new, "interIn", 0) /\ All(shm, new, "interOut", 0)
  BY <1>3, <1>6 DEF All, Copied, SectionSet
<1>8. Orderly(new, made)
  BY <1>2, <1>3, <1>5, ReflagOrderly
<1>9. Saving(shm, new, "remove", sec, at)
  BY <1>3, <1>4, <1>7 DEF Saving
<1>10. Removed'
  BY <1>1, <1>3 DEF Removed
<1> QED BY <1>1, <1>3, <1>8, <1>9, <1>10 DEF Inv

\* The file of a record that is marked goes.
LEMMA SaveRemoveInv == ASSUME Inv, SaveRemove, Types' PROVE Inv'
<1>1. /\ phase = "remove" /\ phase' = "save" /\ at' = at + 1 /\ sec' = sec
      /\ UNCHANGED <<pcf, shm, useShm, opening, made, runs>>
      /\ disk' = disk \ {shm[SavedSections[sec]][at].name}
  BY DEF SaveRemove, Advance
<1>2. /\ sec = 2 /\ SavedSections[sec] = "temp" /\ "temp" \in SectionSet
      /\ shm # NoTable /\ shm \in Tables /\ pcf \in Tables /\ useShm
      /\ at \in Nat /\ Orderly(shm, made) /\ Orderly(pcf, made)
      /\ All(shm, pcf, "interIn", 0) /\ All(shm, pcf, "interOut", 0)
      /\ Copied(shm, pcf, "temp", at, 0) /\ Gone(shm["temp"], at, disk)
  BY <1>1, AtDeleted
<1>3. at + 1 - 1 = at
  BY <1>2
<1>4. Saving(shm, pcf, "save", sec, at + 1)
  BY <1>2, <1>3 DEF Saving
<1>5. Gone(shm["temp"], at + 1, disk')
  <2> SUFFICES ASSUME NEW i \in DOMAIN shm["temp"], i < at + 1, Deleted(shm["temp"][i])
               PROVE  shm["temp"][i].name \notin disk'
    BY DEF Gone
  <2>1. i \in Nat
    BY <1>2, SectionFacts
  <2>2. i = at \/ i < at
    BY <1>2, <2>1
  <2> QED BY <1>1, <1>2, <2>2 DEF Gone
<1>6. Removed'
  BY <1>1, <1>2, <1>5 DEF Removed
<1> QED BY <1>1, <1>2, <1>4, <1>6 DEF Inv

\* At the end of a section the PCF has all of it.
LEMMA SaveSectionInv == ASSUME Inv, SaveSection, Types' PROVE Inv'
<1>1. /\ phase = "save" /\ ~Loops("save", SavedSections) /\ at' = 1
      /\ UNCHANGED <<pcf, shm, disk, useShm, opening, made, runs>>
      /\ \/ sec < 2 /\ sec' = sec + 1 /\ phase' = "save"
         \/ ~(sec < 2) /\ sec' = 1 /\ phase' = "marks"
  BY SectionsAre DEF SaveSection, EndOfSection
<1>2. sec \in 1..2 /\ at \in Nat /\ pcf \in Tables /\ useShm /\ Orderly(pcf, made) /\ Removed
  BY <1>1, InvGives DEF Place, TypeOK
<1>3. CASE shm = NoTable
  <2>1. Removed'
    BY <1>1, <1>3 DEF Removed
  <2> QED BY <1>1, <1>2, <1>3, <2>1 DEF Inv
<1>4. CASE shm # NoTable
  <2>1. shm \in Tables /\ Orderly(shm, made) /\ Saving(shm, pcf, "save", sec, at)
    BY <1>1, <1>4, InvGives
  <2>2. All(shm, pcf, "interIn", 0)
    BY <2>1 DEF Saving
  <2>3. "interIn" \in SectionSet /\ "interOut" \in SectionSet /\ "temp" \in SectionSet
    BY DEF SectionSet
  <2>4. ASSUME NEW s \in SectionSet, s = SavedSections[sec], Copied(shm, pcf, s, at - 1, 0)
        PROVE  at - 1 = Len(shm[s]) /\ All(shm, pcf, s, 0)
    <3> PICK len : len = Len(shm[s])
      OBVIOUS
    <3>1. len \in Nat /\ at - 1 \in 0..len
      BY <2>1, <2>4, SectionFacts DEF Copied
    <3>2. ~(at <= len)
      BY <1>1, <1>2, <1>4, <2>4, SectionsAre DEF Loops
    <3>3. at - 1 = len
      BY <1>2, <3>1, <3>2
    <3> QED BY <2>4, <3>3 DEF All
  <2>5. CASE sec = 1
    <3>1. Copied(shm, pcf, "interOut", at - 1, 0) /\ Copied(shm, pcf, "temp", 0, 0)
      BY <2>1, <2>5 DEF Saving
    <3>2. All(shm, pcf, "interOut", 0)
      BY <2>3, <2>4, <2>5, <3>1, SectionsAre
    <3>3. sec' = 2 /\ phase' = "save" /\ 1 - 1 = 0
      BY <1>1, <2>5
    <3>4. Saving(shm, pcf, "save", 2, 1)
      BY <2>2, <3>1, <3>2, <3>3 DEF Saving
    <3>5. Gone(shm["temp"], 1, disk)
      BY <2>1, NoneGone
    <3>6. Removed'
      BY <1>1, <3>3, <3>5 DEF Removed
    <3> QED BY <1>1, <1>2, <1>4, <2>1, <3>3, <3>4, <3>6 DEF Inv
  <2>6. CASE sec = 2
    <3>1. All(shm, pcf, "interOut", 0) /\ Copied(shm, pcf, "temp", at - 1, 0)
      BY <2>1, <2>6 DEF Saving
    <3>2. All(shm, pcf, "temp", 0) /\ at - 1 = Len(shm["temp"])
      BY <2>3, <2>4, <2>6, <3>1, SectionsAre
    <3>3. sec' = 1 /\ phase' = "marks"
      BY <1>1, <2>6
    <3>4. Saving(shm, pcf, "marks", 1, 1)
      <4>1. ASSUME NEW k \in 1..3
            PROVE  MarkedTo(shm, k, 1, 1) = 0 /\ 0 \in 0..Len(shm[Sections[k]]) /\ All(shm, pcf, Sections[k], 0)
        <5>1. MarkedTo(shm, k, 1, 1) = 0
          BY DEF MarkedTo
        <5>2. Sections[k] \in SectionSet /\ All(shm, pcf, Sections[k], 0)
          BY <2>2, <2>3, <3>1, <3>2, SectionsAre
        <5>3. Len(shm[Sections[k]]) \in Nat
          BY <2>1, <5>2, SectionFacts
        <5> QED BY <5>1, <5>2, <5>3
      <4> QED BY <4>1 DEF Saving
    <3>5. Gone(shm["temp"], Len(shm["temp"]) + 1, disk)
      <4>1. Gone(shm["temp"], at, disk)
        BY <1>1, <1>2, <1>4, <2>6 DEF Removed
      <4> PICK len : len = Len(shm["temp"])
        OBVIOUS
      <4>2. len + 1 = at
        BY <1>2, <3>2
      <4> QED BY <4>1, <4>2
    <3>6. Removed'
      BY <1>1, <3>3, <3>5 DEF Removed
    <3> QED BY <1>1, <1>2, <1>4, <2>1, <3>3, <3>4, <3>6 DEF Inv
  <2> QED BY <1>2, <2>5, <2>6
<1> QED BY <1>3, <1>4

\* The line whose runtime mark is made is that of the record the loop is at.
LEMMA MarkRuntimeIs ==
    ASSUME Inv, MarkRuntime, NEW s, s = Sections[sec]
    PROVE  /\ sec \in 1..3 /\ s \in SectionSet /\ shm # NoTable /\ shm \in Tables /\ pcf \in Tables
           /\ Orderly(shm, made) /\ Orderly(pcf, made) /\ Saving(shm, pcf, "marks", sec, at)
           /\ at \in DOMAIN shm[s] /\ at \in DOMAIN pcf[s] /\ All(shm, pcf, s, at - 1)
           /\ pcf' = IF shm[s][at].flag \in {"R", "B"} THEN Marked(pcf, s, at) ELSE pcf
           /\ Deleted(pcf[s][at]) => s = "temp"
<1> PICK r : r = shm[s][at]
  OBVIOUS
<1>1. /\ phase = "marks" /\ shm # NoTable /\ sec \in 1..3 /\ at \in Nat /\ at \in Nat \ {0}
      /\ at <= Len(shm[s])
      /\ pcf \in Tables /\ shm \in Tables /\ Orderly(pcf, made) /\ Orderly(shm, made)
      /\ Saving(shm, pcf, phase, sec, at)
  BY InvGives DEF MarkRuntime, Loops, TypeOK
<1>2. s \in SectionSet
  BY <1>1, SectionsAre
<1>3. at \in DOMAIN shm[s]
  BY <1>1, <1>2, SectionFacts
<1>4. All(shm, pcf, s, at - 1)
  <2>1. MarkedTo(shm, sec, sec, at) = at - 1
    BY <1>1 DEF MarkedTo
  <2> QED BY <1>1, <2>1 DEF Saving
<1>5. at \in DOMAIN pcf[s] /\ First(DueOf(pcf[s], r)) = at
  <2>1. at \in DOMAIN pcf[s]
    BY <1>1, <1>2, <1>3, <1>4, MarkableIs
  <2>2. First(DueOf(pcf[s], shm[s][at])) = at
    BY <1>1, <1>2, <1>3, <1>4, MarkableIs
  <2> QED BY <2>1, <2>2
<1>6. Markable(s, r) = DueOf(pcf[s], r)
  BY Zenon, NoFlagIs DEF Markable, DueOf
<1>7. pcf' = IF r.flag \in {"R", "B"} /\ First(Markable(s, r)) # 0
             THEN Marked(pcf, s, First(Markable(s, r))) ELSE pcf
  BY DEF MarkRuntime, Marked
<1>8. pcf' = IF r.flag \in {"R", "B"} THEN Marked(pcf, s, at) ELSE pcf
  BY <1>1, <1>5, <1>6, <1>7
<1>9. Deleted(pcf[s][at]) => s = "temp"
  BY <1>1, <1>2, <1>5 DEF Orderly, DeletedIsTemp
<1> QED BY <1>1, <1>2, <1>3, <1>4, <1>5, <1>8, <1>9

\* One line more has its runtime mark.
LEMMA MarkRuntimeInv == ASSUME Inv, MarkRuntime, Types' PROVE Inv'
<1> PICK s : s = Sections[sec]
  OBVIOUS
<1> PICK new : new = pcf'
  OBVIOUS
<1>1. /\ sec \in 1..3 /\ s \in SectionSet /\ shm # NoTable /\ shm \in Tables /\ pcf \in Tables
      /\ Orderly(shm, made) /\ Orderly(pcf, made) /\ Saving(shm, pcf, "marks", sec, at)
      /\ at \in DOMAIN shm[s] /\ at \in DOMAIN pcf[s] /\ All(shm, pcf, s, at - 1)
      /\ new = IF shm[s][at].flag \in {"R", "B"} THEN Marked(pcf, s, at) ELSE pcf
      /\ Deleted(pcf[s][at]) => s = "temp"
  BY MarkRuntimeIs
<1>2. /\ phase = "marks" /\ at' = at + 1 /\ sec' = sec
      /\ UNCHANGED <<shm, disk, phase, useShm, opening, made, runs>>
  BY DEF MarkRuntime, Loops, Advance
<1>3. Removed /\ useShm /\ at \in Nat
  BY <1>2, InvGives DEF Place, TypeOK
<1>4. new \in Tables /\ All(shm, new, s, at) /\ \A t \in SectionSet : t # s => new[t] = pcf[t]
  BY <1>1, MarkCopied
<1>5. Orderly(new, made)
  <2>1. CASE shm[s][at].flag \in {"R", "B"}
    <3>1. PICK f \in Flags : new = Reflag(pcf, s, at, f) /\ f = IF Deleted(pcf[s][at]) THEN "B" ELSE "R"
      BY <1>1, <2>1, RuntimeIsReflag
    <3>2. /\ Deleted(pcf[s][at]) => f \in {"D", "B"}
          /\ f \in {"D", "B"} => s = "temp"
      BY <1>1, <3>1
    <3> QED BY <1>1, <3>1, <3>2, ReflagOrderly
  <2>2. CASE shm[s][at].flag \notin {"R", "B"}
    BY <1>1, <2>2
  <2> QED BY <2>1, <2>2
<1>6. Saving(shm, new, "marks", sec, at + 1)
  <2>1. ASSUME NEW k \in 1..3
        PROVE  /\ MarkedTo(shm, k, sec, at + 1) \in 0..Len(shm[Sections[k]])
               /\ All(shm, new, Sections[k], MarkedTo(shm, k, sec, at + 1))
    <3>1. CASE k = sec
      <4> PICK len : len = Len(shm[s])
        OBVIOUS
      <4>1. MarkedTo(shm, k, sec, at + 1) = at
        BY <1>1, <1>3, <3>1 DEF MarkedTo
      <4>2. at \in 0..len
        BY <1>1, <1>3, SectionFacts
      <4> QED BY <1>4, <3>1, <4>1, <4>2
    <3>2. CASE k # sec
      <4>1. MarkedTo(shm, k, sec, at + 1) = MarkedTo(shm, k, sec, at)
        BY <3>2 DEF MarkedTo
      <4>2. Sections[k] \in SectionSet /\ Sections[k] # s
        BY <1>1, <3>2, SectionsAre
      <4>3. /\ MarkedTo(shm, k, sec, at) \in 0..Len(shm[Sections[k]])
            /\ All(shm, pcf, Sections[k], MarkedTo(shm, k, sec, at))
        BY <1>1 DEF Saving
      <4>4. new[Sections[k]] = pcf[Sections[k]]
        BY <1>4, <4>2
      <4> QED BY <4>1, <4>3, <4>4 DEF All, Copied
    <3> QED BY <3>1, <3>2
  <2> QED BY <2>1 DEF Saving
<1>7. Removed'
  BY <1>2, <1>3 DEF Removed
<1> QED BY <1>1, <1>2, <1>5, <1>6, <1>7 DEF Inv

\* At the end of the last section the PCF is the table.
LEMMA MarkSectionInv == ASSUME Inv, MarkSection, Types' PROVE Inv'
<1>1. /\ phase = "marks" /\ ~Loops("marks", Sections) /\ at' = 1
      /\ UNCHANGED <<pcf, shm, disk, useShm, opening, made, runs>>
      /\ \/ sec < 3 /\ sec' = sec + 1 /\ phase' = "marks"
         \/ ~(sec < 3) /\ sec' = 1 /\ phase' = "done"
  BY SectionsAre DEF MarkSection, EndOfSection
<1>2. sec \in 1..3 /\ at \in Nat /\ pcf \in Tables /\ useShm /\ Orderly(pcf, made) /\ Removed
      /\ (shm = NoTable => Fresh(pcf))
  BY <1>1, InvGives DEF Place, TypeOK
<1>3. CASE shm = NoTable
  <2>1. Gone(pcf["temp"], Len(pcf["temp"]) + 1, disk)
    <3>1. DOMAIN pcf["temp"] = {}
      BY <1>2, <1>3, SectionFacts DEF Fresh, SectionSet
    <3> QED BY <3>1 DEF Gone
  <2>2. Removed'
    BY <1>1, <1>3, <2>1 DEF Removed
  <2> QED BY <1>1, <1>2, <1>3, <2>2 DEF Inv
<1>4. CASE shm # NoTable
  <2>1. shm \in Tables /\ Orderly(shm, made) /\ Saving(shm, pcf, "marks", sec, at)
    BY <1>1, <1>4, InvGives
  <2>2. Sections[sec] \in SectionSet
    BY <1>2, SectionsAre
  <2> PICK len : len = Len(shm[Sections[sec]])
    OBVIOUS
  <2>3. at - 1 = len /\ len \in Nat
    <3>1. MarkedTo(shm, sec, sec, at) = at - 1
      BY <1>2 DEF MarkedTo
    <3>2. MarkedTo(shm, sec, sec, at) \in 0..len
      BY <1>2, <2>1 DEF Saving
    <3>3. ~(at <= len)
      BY <1>1, <1>2, <1>4, SectionsAre DEF Loops
    <3>4. len \in Nat
      BY <2>1, <2>2, SectionFacts
    <3> QED BY <1>2, <3>1, <3>2, <3>3, <3>4
  <2>4. ASSUME NEW k \in 1..3
        PROVE  /\ k <= sec => All(shm, pcf, Sections[k], Len(shm[Sections[k]]))
               /\ MarkedTo(shm, k, sec + 1, 1) \in 0..Len(shm[Sections[k]])
               /\ All(shm, pcf, Sections[k], MarkedTo(shm, k, sec + 1, 1))
    <3> PICK n : n = Len(shm[Sections[k]])
      OBVIOUS
    <3>1. Sections[k] \in SectionSet
      BY SectionsAre
    <3>2. n \in Nat /\ 0 \in 0..n /\ n \in 0..n
      BY <2>1, <3>1, SectionFacts
    <3>3. All(shm, pcf, Sections[k], MarkedTo(shm, k, sec, at))
      BY <2>1 DEF Saving
    <3>4. CASE k <= sec
      <4>1. MarkedTo(shm, k, sec, at) = n
        <5>1. CASE k = sec
          BY <1>2, <2>3, <5>1 DEF MarkedTo
        <5>2. CASE k < sec
          BY <5>2 DEF MarkedTo
        <5> QED BY <1>2, <3>4, <5>1, <5>2
      <4>2. k < sec + 1
        BY <1>2, <3>4
      <4>3. MarkedTo(shm, k, sec + 1, 1) = n
        BY <4>2 DEF MarkedTo
      <4> QED BY <3>2, <3>3, <4>1, <4>3
    <3>5. CASE ~(k <= sec)
      <4>1. k = sec + 1 \/ k > sec + 1
        BY <1>2, <3>5
      <4>2. ~(k < sec) /\ k # sec /\ ~(k < sec + 1) /\ 1 - 1 = 0
        BY <1>2, <3>5, <4>1
      <4>3. MarkedTo(shm, k, sec, at) = 0 /\ MarkedTo(shm, k, sec + 1, 1) = 0
        BY <4>2 DEF MarkedTo
      <4> QED BY <3>2, <3>3, <3>5, <4>3
    <3> QED BY <3>4, <3>5
  <2>5. CASE sec < 3
    <3>1. sec' = sec + 1 /\ phase' = "marks"
      BY <1>1, <2>5
    <3>2. Saving(shm, pcf, "marks", sec + 1, 1)
      BY <2>4 DEF Saving
    <3>3. Removed'
      BY <1>1, <1>2, <3>1 DEF Removed
    <3> QED BY <1>1, <1>2, <1>4, <2>1, <3>1, <3>2, <3>3 DEF Inv
  <2>6. CASE ~(sec < 3)
    <3>1. sec' = 1 /\ phase' = "done" /\ sec = 3
      BY <1>1, <1>2, <2>6
    <3>2. ASSUME NEW s \in SectionSet PROVE All(shm, pcf, s, Len(shm[s]))
      <4>1. PICK k \in 1..3 : s = Sections[k]
        BY SectionsAre
      <4>2. k <= sec
        BY <3>1
      <4> QED BY <2>4, <4>1, <4>2
    <3>3. pcf = shm
      BY <1>2, <2>1, <3>2, AllMarkedIsTable
    <3>4. Saving(shm, pcf, "done", 1, 1)
      BY <3>3 DEF Saving
    <3>5. Gone(pcf["temp"], Len(pcf["temp"]) + 1, disk)
      BY <1>1, <1>2, <1>4, <3>3 DEF Removed
    <3>6. Removed'
      BY <1>1, <3>1, <3>3, <3>5 DEF Removed
    <3> QED BY <1>1, <1>2, <1>4, <2>1, <3>1, <3>4, <3>6 DEF Inv
  <2> QED BY <2>5, <2>6
<1> QED BY <1>3, <1>4

\* PGS_PC_DeleteTemps works on the PCF alone.
LEMMA RemoveTempInv == ASSUME Inv, RemoveTemp, Types' PROVE Inv'
<1>1. /\ phase = "temps" /\ at' = at + 1 /\ sec' = sec
      /\ disk' = IF ToRemove(pcf["temp"][at]) THEN disk \ {pcf["temp"][at].name} ELSE disk
      /\ UNCHANGED <<pcf, shm, phase, useShm, opening, made, runs>>
  BY DEF RemoveTemp, Advance
<1>2. /\ at \in Nat /\ pcf \in Tables /\ shm = NoTable /\ ~useShm /\ Orderly(pcf, made)
      /\ Gone(pcf["temp"], at, disk)
  BY <1>1, InvGives DEF Place, TypeOK, Removed
<1>3. Gone(pcf["temp"], at + 1, disk')
  <2> SUFFICES ASSUME NEW i \in DOMAIN pcf["temp"], i < at + 1, Deleted(pcf["temp"][i])
               PROVE  pcf["temp"][i].name \notin disk'
    BY DEF Gone
  <2>1. i \in Nat
    BY <1>2, SectionFacts DEF SectionSet
  <2>2. i = at \/ i < at
    BY <1>2, <2>1
  <2> QED BY <1>1, <1>2, <2>2 DEF Gone, ToRemove, Deleted
<1>4. Removed'
  BY <1>1, <1>3 DEF Removed
<1> QED BY <1>1, <1>2, <1>4 DEF Inv

\* At the end of the loop every deleted file of the PCF is gone.
LEMMA TempsRemovedInv == ASSUME Inv, TempsRemoved, Types' PROVE Inv'
<1>1. /\ phase = "temps" /\ at > Len(pcf["temp"]) /\ phase' = "done"
      /\ UNCHANGED <<pcf, shm, disk, useShm, opening, sec, made, runs>>
  BY DEF TempsRemoved
<1>2. /\ at \in Nat /\ pcf \in Tables /\ shm = NoTable /\ ~useShm /\ Orderly(pcf, made)
      /\ Gone(pcf["temp"], at, disk)
  BY <1>1, InvGives DEF Place, TypeOK, Removed
<1> PICK len : len = Len(pcf["temp"])
  OBVIOUS
<1>3. len \in Nat /\ DOMAIN pcf["temp"] = 1..len
  BY <1>2, SectionFacts DEF SectionSet
<1>4. \A i \in 1..len : i < at
  BY <1>1, <1>2, <1>3
<1>5. Gone(pcf["temp"], len + 1, disk)
  BY <1>2, <1>3, <1>4 DEF Gone
<1>6. Removed'
  BY <1>1, <1>5 DEF Removed
<1> QED BY <1>1, <1>2, <1>6 DEF Inv

\* The next run has no shared memory: it starts from an orderly PCF.
LEMMA NextRunInv == ASSUME ShmFirst, Inv, NextRun, Types' PROVE Inv'
<1>1. /\ shm' = NoTable /\ phase' = "init" /\ UNCHANGED <<pcf, made>>
      /\ useShm' \in Modes[runs + 1] /\ runs < Len(Modes)
  BY DEF NextRun
<1>2. runs \in Nat /\ runs >= 1 /\ Len(Modes) \in Nat
  BY InvGives, LifeAssumption, LenProperties DEF TypeOK
<1>3. runs + 1 \in 2..Len(Modes)
  BY <1>1, <1>2
<1>4. ~useShm'
  BY <1>1, <1>3 DEF ShmFirst
<1> QED BY <1>1, <1>4, InvGives DEF Inv, Removed

\* Every step keeps the invariant.
LEMMA InvKept == ASSUME ShmFirst, Inv, [Next]_vars PROVE Inv'
<1>0. Types'
  BY InvGives, TypesKept
<1>1. CASE InitCom
  BY <1>1, InitComInv
<1>2. CASE Pge
  BY <1>2, PgeInv
<1>3. CASE TermCom
  BY <1>0, <1>3, SavePutInv, SaveMarkInv, SaveRemoveInv, SaveSectionInv, MarkRuntimeInv,
     MarkSectionInv, RemoveTempInv, TempsRemovedInv DEF TermCom
<1>4. CASE Killed
  BY <1>0, <1>4 DEF Inv, Removed, Saving, Killed
<1>5. CASE NextRun
  BY <1>0, <1>5, NextRunInv
<1>6. CASE UNCHANGED vars
  BY <1>0, <1>6 DEF Inv, Removed, vars
<1> QED BY <1>1, <1>2, <1>3, <1>4, <1>5, <1>6 DEF Next, Rest

\* The invariant holds in every state.
LEMMA AlwaysInv == ASSUME ShmFirst PROVE Spec => []Inv
<1>1. Inv /\ [Next]_vars => Inv'
  BY InvKept
<1> QED BY InitInv, <1>1, PTL DEF Spec

----------------------------------------------------------------------------
(* What a run leaves                                                       *)

\* PGS_PC_SavePCSData and UpdateRuntimeFiles leave in the PCF the table that
\* the PGE worked on: every file, its identifier, its flags, their order.
THEOREM TableIsSaved == ShmFirst => (Spec => []SavedIsTable)
<1> SUFFICES ASSUME ShmFirst PROVE Spec => []SavedIsTable
  OBVIOUS
<1>1. Inv => SavedIsTable
  BY DEF Inv, SavedIsTable, Saving
<1> QED BY AlwaysInv, <1>1, PTL

\* No temporary file that was deleted is left when TermCom is done.
THEOREM DeletedAreGone == ShmFirst => (Spec => []DeletedGone)
<1> SUFFICES ASSUME ShmFirst PROVE Spec => []DeletedGone
  OBVIOUS
<1>1. Inv => DeletedGone
  <2> SUFFICES ASSUME Inv, phase = "done", NEW i \in DOMAIN pcf["temp"], Deleted(pcf["temp"][i])
               PROVE  pcf["temp"][i].name \notin disk
    BY DEF DeletedGone
  <2> PICK len : len = Len(pcf["temp"])
    OBVIOUS
  <2>1. Gone(pcf["temp"], len + 1, disk) /\ pcf \in Tables
    BY InvGives DEF Removed
  <2>2. i \in 1..len /\ len \in Nat
    BY <2>1, SectionFacts DEF SectionSet
  <2>3. i < len + 1
    BY <2>2
  <2> QED BY <2>1, <2>3 DEF Gone
<1> QED BY AlwaysInv, <1>1, PTL

\* A file that a step removes has one line in the PCF, and that line says it
\* is deleted.
LEMMA StepRemovesDeleted == ASSUME Inv, [Next]_vars PROVE [RemovedIsDeleted]_vars
<1>1. ASSUME NEW a \in DOMAIN pcf["temp"], Deleted(pcf["temp"][a]),
             disk' = disk \ {pcf["temp"][a].name}
      PROVE  RemovedIsDeleted
  <2> SUFFICES ASSUME NEW f \in disk \ disk'
               PROVE  /\ \E i \in DOMAIN pcf["temp"] : pcf["temp"][i].name = f /\ Deleted(pcf["temp"][i])
                      /\ \A s \in SectionSet : \A i \in DOMAIN pcf[s] :
                             pcf[s][i].name = f => Deleted(pcf[s][i])
    BY DEF RemovedIsDeleted
  <2>1. f = pcf["temp"][a].name /\ "temp" \in SectionSet
    BY <1>1 DEF SectionSet
  <2>2. \A s \in SectionSet : \A i \in DOMAIN pcf[s] :
            pcf[s][i].name = pcf["temp"][a].name => s = "temp" /\ i = a
    BY <2>1, InvGives DEF Orderly, NamesDiffer
  <2> QED BY <1>1, <2>1, <2>2
<1>2. CASE disk \subseteq disk'
  BY <1>2 DEF RemovedIsDeleted
<1>3. CASE SaveRemove
  <2>1. phase = "remove" /\ disk' = disk \ {shm[SavedSections[sec]][at].name}
    BY <1>3 DEF SaveRemove
  <2>2. /\ SavedSections[sec] = "temp" /\ "temp" \in SectionSet /\ shm \in Tables /\ pcf \in Tables
        /\ at \in DOMAIN shm["temp"] /\ Copied(shm, pcf, "temp", at, 0) /\ Deleted(shm["temp"][at])
    BY <2>1, AtDeleted
  <2>3. at \in Nat \ {0} /\ at \in 1..at /\ DOMAIN pcf["temp"] = 1..at /\ ~(at <= 0)
    <3> PICK len : len = Len(shm["temp"])
      OBVIOUS
    <3>1. at \in 1..len /\ len \in Nat
      BY <2>2, SectionFacts
    <3>2. DOMAIN pcf["temp"] = 1..at
      BY <2>2, SectionFacts DEF Copied
    <3> QED BY <3>1, <3>2
  <2>4. pcf["temp"][at].name = shm["temp"][at].name /\ pcf["temp"][at].flag = "D"
    BY <2>2, <2>3 DEF Copied, SameFile, Unmarked
  <2>5. at \in DOMAIN pcf["temp"] /\ Deleted(pcf["temp"][at]) /\ disk' = disk \ {pcf["temp"][at].name}
    BY <2>1, <2>2, <2>3, <2>4 DEF Deleted
  <2> QED BY <1>1, <2>5
<1>4. CASE RemoveTemp
  <2>1. /\ at <= Len(pcf["temp"])
        /\ \/ Deleted(pcf["temp"][at]) /\ disk' = disk \ {pcf["temp"][at].name}
           \/ disk' = disk
    BY <1>4 DEF RemoveTemp, ToRemove, Deleted
  <2> PICK len : len = Len(pcf["temp"])
    OBVIOUS
  <2>2. pcf \in Tables /\ at \in Nat \ {0}
    BY InvGives DEF TypeOK
  <2>3. len \in Nat /\ DOMAIN pcf["temp"] = 1..len
    BY <2>2, SectionFacts DEF SectionSet
  <2>4. at \in DOMAIN pcf["temp"]
    BY <2>1, <2>2, <2>3
  <2> QED BY <1>1, <1>2, <2>1, <2>4
<1>5. ASSUME InitCom \/ Pge \/ Killed \/ NextRun \/ UNCHANGED vars PROVE disk \subseteq disk'
  BY <1>5 DEF InitCom, Pge, Create, Open, OpenFails, Delete, Mark, PgeEnds, Killed, NextRun, vars
<1>6. ASSUME SavePut \/ SaveMark \/ SaveSection \/ MarkRuntime \/ MarkSection \/ TempsRemoved
      PROVE  disk \subseteq disk'
  BY <1>6 DEF SavePut, SaveMark, SaveSection, MarkRuntime, MarkSection, EndOfSection, TempsRemoved
<1> QED BY <1>2, <1>3, <1>4, <1>5, <1>6 DEF Next, TermCom, Rest

\* TermCom removes no file before the PCF says that it is deleted, wherever
\* the run is killed.
THEOREM OnlyDeletedRemoved == ShmFirst => (Spec => RemovesOnlyDeleted)
<1> SUFFICES ASSUME ShmFirst PROVE Spec => RemovesOnlyDeleted
  OBVIOUS
<1>1. Inv /\ [Next]_vars => [RemovedIsDeleted]_vars
  BY StepRemovesDeleted
<1> QED BY AlwaysInv, <1>1, PTL DEF Spec, RemovesOnlyDeleted

\* Whatever the runs before left in the PCF, a search of the table that is
\* loaded finds what it would find in the PCF, if the identifier has no deleted
\* record there.
THEOREM LoadLosesOnlyDeletions == Spec => LoadedButForDeletions
<1> DEFINE Same == phase = "init" /\ shm' # NoTable =>
                       \A s \in SectionSet, id \in Ids :
                           Live(pcf[s], id) = With(pcf[s], id) =>
                               Finds(shm', s, id) = Finds(pcf, s, id)
<1>1. Types /\ [Next]_vars => [Same]_vars
  <2> SUFFICES ASSUME Types, [Next]_vars, phase = "init", shm' # NoTable PROVE Same
    OBVIOUS
  <2>1. shm = NoTable /\ pcf \in Tables /\ opening = <<>>
    BY DEF Types, TypeOK, Place
  <2>2. CASE Pge
    BY <2>1, <2>2 DEF Pge, Create, Open, OpenFails, Delete, Mark, PgeEnds
  <2>3. ASSUME TermCom \/ Killed \/ NextRun \/ Rest \/ UNCHANGED vars PROVE FALSE
    BY <2>1, <2>3 DEF TermCom, SavePut, SaveMark, SaveRemove, SaveSection, MarkRuntime,
       MarkSection, EndOfSection, RemoveTemp, TempsRemoved, Killed, NextRun, Rest, vars
  <2>4. shm' = InMemory(pcf)
    BY <2>1, <2>2, <2>3 DEF Next, InitCom, Pge, Create, Open, OpenFails, Delete, Mark, PgeEnds
  <2> SUFFICES ASSUME NEW s \in SectionSet, NEW id \in Ids, Live(pcf[s], id) = With(pcf[s], id)
               PROVE  Finds(InMemory(pcf), s, id) = Finds(pcf, s, id)
    BY <2>4
  <2> QED BY <2>1, LoadedFinds
<1>2. Init => Types
  BY InitTypes
<1>3. Types /\ [Next]_vars => Types'
  BY TypesKept
<1> QED BY <1>1, <1>2, <1>3, PTL DEF Spec, LoadedButForDeletions

----------------------------------------------------------------------------
(* The refinement of PCTable                                               *)

\* The abstract table is read by the searches that the PCF is read by.
LEMMA SavedReads ==
    /\ \A q, id : Saved!First(Saved!Live(q, id)) = First(Live(q, id))
    /\ \A l : Saved!Loaded(l) = Loaded(l)
    /\ \A S, n : Saved!Listings(S, n) = Listings(S, n)
    /\ Saved!SectionSet = SectionSet
BY DEF Saved!First, First, Saved!Live, Live, Saved!With, With, Saved!Deleted, Deleted,
       Saved!Loaded, Loaded, Saved!PcfName, PcfName, Saved!Listings, Listings,
       Saved!SectionSet, SectionSet

\* Numbers of records are the same in the instance of PCTable.
LEMMA SavedCounts == \A S : Saved!Cardinality(S) = Cardinality(S)
BY DEF Saved!Cardinality, Cardinality

\* A file that is put, an identifier that is dropped and a record that is
\* marked are so in the abstract table.
LEMMA PutIsSaved ==
    ASSUME NEW s \in {"interOut", "temp"}, NEW id \in Ids, NEW name \in Names,
           pcf' = Put(pcf, s, id, name)
    PROVE  Saved!Next
<1>1. Saved!Put(s, id, name)
  BY SavedReads DEF Saved!Put, Put, Saved!HasRoom
<1> QED BY <1>1 DEF Saved!Next

\* So are the deletion of a file and its mark.
LEMMA DropIsSaved ==
    ASSUME pcf \in Tables, NEW id \in Ids, pcf' = Drop(pcf, id)
    PROVE  [Saved!Next]_pcf
<1> DEFINE i == First(Live(pcf["temp"], id))
<1>1. CASE i = 0
  BY <1>1 DEF Drop
<1>2. CASE i # 0
  <2>1. pcf' = [pcf EXCEPT !["temp"][i] = DeleteMark(@)]
    BY <1>2 DEF Drop
  <2>2. pcf' = [pcf EXCEPT !["temp"][i].flag = IF @ = "R" THEN "B" ELSE "D"]
    BY <2>1 DEF DeleteMark
  <2>3. Saved!Drop(id)
    BY <1>2, <2>2, SavedReads DEF Saved!Drop
  <2> QED BY <2>3 DEF Saved!Next
<1> QED BY <1>1, <1>2

LEMMA MarkIsSaved ==
    ASSUME pcf \in Tables, NEW s \in SectionSet, NEW i \in DOMAIN pcf[s], pcf' = Marked(pcf, s, i)
    PROVE  Saved!Next
<1>1. pcf' = [pcf EXCEPT ![s][i].flag = IF @ \in {"D", "B"} THEN "B" ELSE "R"]
  BY DEF Marked, Runtime
<1>2. Saved!MarkRuntime(s, i)
  BY <1>1 DEF Saved!MarkRuntime
<1> QED BY <1>2, SavedReads DEF Saved!Next

\* Every step changes the PCF by one operation of PCTable, or not at all.
LEMMA StepSaved == ASSUME Inv, [Next]_vars PROVE [Saved!Next]_pcf
<1>0. pcf \in Tables /\ Types
  BY InvGives
<1>1. ASSUME NEW tab, SetTable(tab) PROVE pcf' = pcf \/ (pcf' = tab /\ ~useShm)
  BY <1>1 DEF SetTable
<1>2. ASSUME NEW s \in {"interOut", "temp"}, NEW id \in Ids, Create(s, id) PROVE [Saved!Next]_pcf
  <2> PICK n : n = NewName(made + 1)
    OBVIOUS
  <2>1. SetTable(Put(Table, s, id, n))
    BY <1>2 DEF Create
  <2>2. n \in Names
    <3> PICK old : old = Table
      OBVIOUS
    <3> PICK new : new = Put(old, s, id, n)
      OBVIOUS
    <3> PICK r : r = NewRec(id, n)
      OBVIOUS
    <3> QED BY <1>0, <1>2, CreateIs
  <2>3. pcf' = pcf \/ pcf' = Put(pcf, s, id, n)
    BY <1>1, <2>1 DEF Table
  <2> QED BY <2>2, <2>3, PutIsSaved
<1>3. ASSUME NEW id \in Ids, SetTable(Drop(Table, id)) PROVE [Saved!Next]_pcf
  <2>1. pcf' = pcf \/ pcf' = Drop(pcf, id)
    BY <1>1, <1>3 DEF Table
  <2> QED BY <1>0, <2>1, DropIsSaved
<1>4. CASE OpenFails
  <2>1. opening[1] \in Ids /\ SetTable(Drop(Table, opening[1]))
    BY <1>4, InvGives DEF OpenFails, TypeOK
  <2> QED BY <1>3, <2>1
<1>5. ASSUME NEW id \in Ids, Delete(id) PROVE [Saved!Next]_pcf
  BY <1>3, <1>5 DEF Delete
<1>6. ASSUME NEW s \in SectionSet, NEW id \in Ids, Mark(s, id) PROVE [Saved!Next]_pcf
  <2> PICK i : i = First(Live(Table[s], id))
    OBVIOUS
  <2>1. i # 0 /\ SetTable(Marked(Table, s, i))
    BY <1>6 DEF Mark, Marked
  <2>2. CASE pcf' = pcf
    BY <2>2
  <2>3. CASE ~useShm /\ pcf' = Marked(pcf, s, i)
    <3>1. i = First(Live(pcf[s], id))
      BY <2>3 DEF Table
    <3>2. i \in DOMAIN pcf[s]
      BY <1>0, <2>1, <3>1, SectionFacts, SearchFinds
    <3> QED BY <1>0, <2>3, <3>2, MarkIsSaved
  <2> QED BY <1>1, <2>1, <2>2, <2>3 DEF Table
<1>7. CASE SavePut
  <2> PICK s : s = SavedSections[sec]
    OBVIOUS
  <2> PICK r : r = shm[s][at]
    OBVIOUS
  <2> PICK p : p = NewRec(r.id, r.name)
    OBVIOUS
  <2>1. /\ s \in {"interOut", "temp"} /\ r.id \in Ids /\ r.name \in Names
        /\ pcf' = Put(pcf, s, r.id, r.name)
    BY <1>7, SavePutIs
  <2> QED BY <2>1, PutIsSaved
<1>8. CASE SaveMark
  <2> PICK r : r = shm["temp"][at]
    OBVIOUS
  <2>1. /\ at \in DOMAIN pcf["temp"] /\ at # 0 /\ pcf["temp"][at].flag = NoFlag
        /\ First(Live(pcf["temp"], r.id)) = at
        /\ pcf' = Reflag(pcf, "temp", at, "D")
    BY <1>8, SaveMarkIs
  <2>2. pcf["temp"][at].flag # "R"
    BY <2>1, NoFlagIs
  <2>3. pcf' = Drop(pcf, r.id)
    BY <2>1, <2>2 DEF Drop, Reflag, DeleteMark
  <2>4. r.id \in Ids
    <3>1. shm \in Tables /\ "temp" \in SectionSet /\ at \in DOMAIN shm["temp"]
      BY <1>8, AtDeleted DEF SaveMark
    <3>2. r \in Rec
      BY <3>1, SectionFacts
    <3> QED BY <3>2 DEF Rec
  <2> QED BY <1>0, <2>3, <2>4, DropIsSaved
<1>9. CASE MarkRuntime
  <2> PICK s : s = Sections[sec]
    OBVIOUS
  <2>1. s \in SectionSet /\ at \in DOMAIN pcf[s] /\ (pcf' = Marked(pcf, s, at) \/ pcf' = pcf)
    BY <1>9, MarkRuntimeIs
  <2> QED BY <1>0, <2>1, MarkIsSaved
<1>10. ASSUME InitCom \/ Open \/ PgeEnds \/ SaveRemove \/ SaveSection \/ MarkSection \/ RemoveTemp
              \/ TempsRemoved \/ Killed \/ NextRun \/ UNCHANGED vars
       PROVE  pcf' = pcf
  BY <1>10 DEF InitCom, Open, PgeEnds, SaveRemove, SaveSection, MarkSection, EndOfSection,
               RemoveTemp, TempsRemoved, Killed, NextRun, vars
<1> QED BY <1>2, <1>4, <1>5, <1>6, <1>7, <1>8, <1>9, <1>10 DEF Next, Pge, TermCom, Rest

\* Runs and TermCom change the PCF as PCTable may change its table, wherever
\* they are killed.
THEOREM SaveIsOfTable == ShmFirst => (Spec => SaveImplementsTable)
<1> SUFFICES ASSUME ShmFirst PROVE Spec => SaveImplementsTable
  OBVIOUS
<1>1. Init => Saved!Init
  BY SavedReads, SavedCounts DEF Init, Saved!Init
<1>2. Inv /\ [Next]_vars => [Saved!Next]_pcf
  BY StepSaved
<1> QED BY <1>1, <1>2, AlwaysInv, PTL DEF Spec, SaveImplementsTable, Saved!Spec
=============================================================================
