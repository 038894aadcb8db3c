--------------------------- MODULE PCTableProofs ---------------------------
(***************************************************************************)
(* Proofs about PCTable: its types, that searches have one answer, and     *)
(* that neither of the two marks undoes the other.  The argument is local  *)
(* to a section: SectionOK says of one section what the invariant says of  *)
(* all, the three lemmas Replaced, Appended and Marked say that each way   *)
(* of changing a section keeps it.                                         *)
(***************************************************************************)
EXTENDS PCTable, PCRecordsProofs, FiniteSetTheorems, TLAPS

(* What the invariant says of one section. *)
SectionOK(q) ==
    /\ q \in Seq(Rec)
    /\ \A id \in Ids : \A i, j \in Live(q, id) : i = j

(* A live record may be replaced by one of the same identifier. *)
LEMMA Replaced ==
    ASSUME NEW q, SectionOK(q), NEW id \in Ids, NEW i \in Live(q, id),
           NEW r \in Rec, r.id = id
    PROVE  SectionOK([q EXCEPT ![i] = r]) /\ Len([q EXCEPT ![i] = r]) = Len(q)
<1> DEFINE z == [q EXCEPT ![i] = r]
<1>1. q \in Seq(Rec) /\ i \in 1..Len(q) /\ q[i].id = id
  BY DEF SectionOK, Live, With
<1>2. z \in Seq(Rec) /\ Len(z) = Len(q)
  BY <1>1
<1>3. \A k \in 1..Len(q) : z[k] = IF k = i THEN r ELSE q[k]
  BY <1>1
<1>4. \A d \in Ids : Live(z, d) \subseteq Live(q, d)
  BY <1>1, <1>2, <1>3 DEF Live, With
<1> HIDE DEF z
<1>5. \A d \in Ids : \A k, j \in Live(z, d) : k = j
  BY <1>4 DEF SectionOK
<1>6. SectionOK(z)
  BY <1>2, <1>5 DEF SectionOK
<1> QED BY <1>2, <1>6 DEF z

(* A record may be added at the end if its identifier has no live one. *)
LEMMA Appended ==
    ASSUME NEW q, SectionOK(q), NEW id \in Ids, Live(q, id) = {},
           NEW r \in Rec, r.id = id
    PROVE  SectionOK(Append(q, r)) /\ Len(Append(q, r)) = Len(q) + 1
<1> DEFINE z == Append(q, r)
<1>1. q \in Seq(Rec)
  BY DEF SectionOK
<1>2. z \in Seq(Rec) /\ Len(z) = Len(q) + 1
  BY <1>1
<1>3. /\ \A k \in 1..Len(q) : z[k] = q[k]
      /\ z[Len(q) + 1] = r
  BY <1>1
<1>4. \A d \in Ids \ {id} : Live(z, d) \subseteq Live(q, d)
  BY <1>1, <1>2, <1>3 DEF Live, With
<1>5. Live(z, id) \subseteq {Len(q) + 1}
  BY <1>1, <1>2, <1>3 DEF Live, With
<1> HIDE DEF z
<1>6. \A d \in Ids : \A k, j \in Live(z, d) : k = j
  BY <1>4, <1>5 DEF SectionOK
<1>7. SectionOK(z)
  BY <1>2, <1>6 DEF SectionOK
<1> QED BY <1>2, <1>7 DEF z

(* The records in front stay where they are. *)
LEMMA AppendKeeps ==
    ASSUME NEW q \in Seq(Rec), NEW r \in Rec, NEW i \in DOMAIN q
    PROVE  i \in DOMAIN Append(q, r) /\ Append(q, r)[i] = q[i]
<1>1. i \in 1..Len(q) /\ Len(Append(q, r)) = Len(q) + 1
  OBVIOUS
<1>2. DOMAIN Append(q, r) = 1..(Len(q) + 1)
  BY <1>1
<1> QED BY <1>1, <1>2

(* A flag may be changed if a deleted record stays deleted. *)
LEMMA Marked ==
    ASSUME NEW q, SectionOK(q), NEW i \in DOMAIN q, NEW f \in Flags,
           Deleted(q[i]) => f \in {"D", "B"}
    PROVE  /\ SectionOK([q EXCEPT ![i].flag = f])
           /\ Len([q EXCEPT ![i].flag = f]) = Len(q)
<1> DEFINE z == [q EXCEPT ![i].flag = f]
<1>1. q \in Seq(Rec) /\ i \in 1..Len(q) /\ q[i] \in Rec
  BY DEF SectionOK
<1>2. [q[i] EXCEPT !.flag = f] \in Rec
  BY <1>1 DEF Rec
<1>3. z \in Seq(Rec) /\ Len(z) = Len(q)
  BY <1>1, <1>2
<1>4. /\ \A k \in 1..Len(q) : k # i => z[k] = q[k]
      /\ z[i].id = q[i].id /\ z[i].flag = f
  BY <1>1 DEF Rec
<1>5. \A d \in Ids : Live(z, d) \subseteq Live(q, d)
  BY <1>1, <1>3, <1>4 DEF Live, With, Deleted
<1> HIDE DEF z
<1>6. \A d \in Ids : \A k, j \in Live(z, d) : k = j
  BY <1>5 DEF SectionOK
<1>7. SectionOK(z)
  BY <1>3, <1>6 DEF SectionOK
<1> QED BY <1>3, <1>7 DEF z

----------------------------------------------------------------------------
(* The inductive invariant: the type invariant and the uniqueness of live   *)
(* records, which hold together since a search answers by position.         *)
IInv == TypeOK /\ AtMostOneLive

LEMMA IInvBySection ==
    IInv <=> /\ DOMAIN table = SectionSet
             /\ \A s \in SectionSet : SectionOK(table[s])
             /\ MaxFiles # 0 => \A s \in {"interOut", "temp"} : Len(table[s]) <= MaxFiles
BY DEF IInv, TypeOK, AtMostOneLive, SectionOK

LEMMA InitIInv == Init => IInv
<1> SUFFICES ASSUME Init PROVE IInv
  OBVIOUS
<1> DEFINE n == Cardinality(InterIn)
<1>1. PICK l \in Listings(InterIn, n) : table = Loaded(l)
  BY DEF Init
<1>2. n \in Nat
  BY TableAssumption, FS_CardinalityType
<1> HIDE DEF n
<1>3. /\ l \in [1..n -> InterIn]
      /\ \A i, j \in 1..n : l[i] = l[j] => i = j
  BY <1>1 DEF Listings
<1>4. table["interOut"] = <<>> /\ table["temp"] = <<>> /\ DOMAIN table = SectionSet
  BY <1>1 DEF Loaded, SectionSet
<1>5. SectionOK(table["interIn"])
  <2> DEFINE R(i) == [id |-> l[i], name |-> PcfName(l[i]), flag |-> ""]
  <2>1. table["interIn"] = [i \in 1..n |-> R(i)]
    BY <1>1, <1>3 DEF Loaded, SectionSet
  <2>2. \A i \in 1..n : R(i) \in Rec /\ R(i).id = l[i]
    <3> SUFFICES ASSUME NEW i \in 1..n PROVE R(i) \in Rec /\ R(i).id = l[i]
      OBVIOUS
    <3>1. l[i] \in Ids /\ PcfName(l[i]) \in Names
      BY <1>3, TableAssumption
    <3> QED BY <3>1, SMT DEF Rec, Flags
  <2> HIDE DEF R
  <2>3. table["interIn"] \in Seq(Rec) /\ Len(table["interIn"]) = n
    BY <2>1, <2>2, <1>2
  <2>4. \A id \in Ids : Live(table["interIn"], id) \subseteq {i \in 1..n : l[i] = id}
    BY <2>1, <2>2 DEF Live, With
  <2> QED BY <2>3, <2>4, <1>3 DEF SectionOK
<1>6. SectionOK(<<>>)
  BY DEF SectionOK, Live, With
<1> QED BY <1>4, <1>5, <1>6, TableAssumption, IInvBySection DEF SectionSet

LEMMA NextIInv == IInv /\ [Next]_table => IInv'
<1> SUFFICES ASSUME IInv, [Next]_table PROVE IInv'
  OBVIOUS
<1> USE DEF SectionSet
<1>1. /\ DOMAIN table = SectionSet
      /\ \A s \in SectionSet : SectionOK(table[s])
      /\ MaxFiles # 0 => \A s \in {"interOut", "temp"} : Len(table[s]) <= MaxFiles
  BY IInvBySection
<1>2. SUFFICES /\ DOMAIN table' = SectionSet
               /\ \A s \in SectionSet : SectionOK(table'[s])
               /\ MaxFiles # 0 => \A s \in {"interOut", "temp"} : Len(table'[s]) <= MaxFiles
  BY DEF IInv, TypeOK, AtMostOneLive, SectionOK
<1>3. CASE UNCHANGED table
  BY <1>1, <1>3
<1>4. ASSUME NEW s \in {"interOut", "temp"}, NEW id \in Ids, NEW name \in Names,
             Put(s, id, name)
      PROVE  /\ DOMAIN table' = SectionSet
             /\ \A u \in SectionSet : SectionOK(table'[u])
             /\ MaxFiles # 0 => \A u \in {"interOut", "temp"} : Len(table'[u]) <= MaxFiles
  <2> DEFINE new == [id |-> id, name |-> name, flag |-> ""]
             i   == First(Live(table[s], id))
  <2>1. new \in Rec /\ new.id = id
    BY DEF Rec, Flags
  <2>2. table[s] \in Seq(Rec) /\ Len(table[s]) \in Nat
    BY <1>1 DEF SectionOK
  <2>3. /\ Live(table[s], id) = {} => i = 0
        /\ Live(table[s], id) # {} => i \in Live(table[s], id) /\ i # 0
    BY <2>2, LiveIsPosition, FirstFinds
  <2>4. \/ /\ i # 0
           /\ table' = [table EXCEPT ![s] = [table[s] EXCEPT ![i] = new]]
        \/ /\ i = 0 /\ HasRoom(s)
           /\ table' = [table EXCEPT ![s] = Append(table[s], new)]
    BY <1>4 DEF Put
  <2> HIDE DEF new, i
  <2>5. CASE i # 0
    BY <1>1, <2>1, <2>3, <2>4, <2>5, Replaced
  <2>6. CASE i = 0
    <3>1. table' = [table EXCEPT ![s] = Append(table[s], new)] /\ HasRoom(s)
      BY <2>4, <2>6
    <3>2. SectionOK(Append(table[s], new)) /\ Len(Append(table[s], new)) = Len(table[s]) + 1
      BY <1>1, <2>1, <2>3, <2>6, Appended
    <3>3. MaxFiles # 0 => Len(table[s]) + 1 <= MaxFiles
      BY <3>1, <2>2, TableAssumption DEF HasRoom
    <3> QED BY <1>1, <3>1, <3>2, <3>3
  <2> QED BY <2>5, <2>6
<1>5. ASSUME NEW id \in Ids, Drop(id)
      PROVE  /\ DOMAIN table' = SectionSet
             /\ \A u \in SectionSet : SectionOK(table'[u])
             /\ MaxFiles # 0 => \A u \in {"interOut", "temp"} : Len(table'[u]) <= MaxFiles
  <2> DEFINE i == First(Live(table["temp"], id))
             f == IF table["temp"][i].flag = "R" THEN "B" ELSE "D"
  <2>1. table["temp"] \in Seq(Rec) /\ i # 0
    BY <1>1, <1>5 DEF SectionOK, Drop
  <2>2. i \in DOMAIN table["temp"]
    BY <2>1, LiveIsPosition, FirstFinds DEF Live, With
  <2>3. table' = [table EXCEPT !["temp"] = [table["temp"] EXCEPT ![i].flag = f]]
    BY <1>5 DEF Drop
  <2>4. f \in Flags /\ f \in {"D", "B"}
    BY DEF Flags
  <2> HIDE DEF i, f
  <2>5. /\ SectionOK([table["temp"] EXCEPT ![i].flag = f])
        /\ Len([table["temp"] EXCEPT ![i].flag = f]) = Len(table["temp"])
    BY <1>1, <2>2, <2>4, Marked
  <2> QED BY <1>1, <2>3, <2>5
<1>6. ASSUME NEW s \in SectionSet, NEW i \in DOMAIN table[s], MarkRuntime(s, i)
      PROVE  /\ DOMAIN table' = SectionSet
             /\ \A u \in SectionSet : SectionOK(table'[u])
             /\ MaxFiles # 0 => \A u \in {"interOut", "temp"} : Len(table'[u]) <= MaxFiles
  <2> DEFINE f == IF table[s][i].flag \in {"D", "B"} THEN "B" ELSE "R"
  <2>1. table' = [table EXCEPT ![s] = [table[s] EXCEPT ![i].flag = f]]
    BY <1>6 DEF MarkRuntime
  <2>2. f \in Flags /\ (Deleted(table[s][i]) => f \in {"D", "B"})
    BY DEF Flags, Deleted
  <2> HIDE DEF f
  <2>3. /\ SectionOK([table[s] EXCEPT ![i].flag = f])
        /\ Len([table[s] EXCEPT ![i].flag = f]) = Len(table[s])
    BY <1>1, <2>2, Marked
  <2> QED BY <1>1, <2>1, <2>3
<1> QED BY <1>2, <1>3, <1>4, <1>5, <1>6 DEF Next

----------------------------------------------------------------------------
\* Whatever calls are made, every section stays well formed.
THEOREM AlwaysIInv == Spec => []IInv
<1> QED BY InitIInv, NextIInv, PTL DEF Spec

(* Every section is a sequence of records within its bound, for every set   *)
(* of identifiers and files: what the searches and the insertions of        *)
(* PGS_PC_PutPCSData rely on.                                               *)
THEOREM TypeCorrect == Spec => []TypeOK
<1>1. IInv => TypeOK
  BY DEF IInv
<1> QED BY AlwaysIInv, <1>1, PTL

(* An identifier never has two live records in a section: the search made   *)
(* before an insertion is what prevents a second one.                       *)
THEOREM LiveIsUnique == Spec => []AtMostOneLive
<1>1. IInv => AtMostOneLive
  BY DEF IInv
<1> QED BY AlwaysIInv, <1>1, PTL

(* What happens to the record at a position of the temporary section in one *)
(* step: it is left alone, its flag alone changes as one of the two marks   *)
(* changes it, or it was live and a new file takes its place.               *)
Evolves(r, q) ==
    \/ q = r
    \/ q = [r EXCEPT !.flag = IF @ = "R" THEN "B" ELSE "D"] /\ ~Deleted(r)
    \/ q = [r EXCEPT !.flag = IF Deleted(r) THEN "B" ELSE "R"]
    \/ ~Deleted(r) /\ q.flag = ""

LEMMA NextEvolves ==
    ASSUME IInv, [Next]_table, NEW i \in DOMAIN table["temp"]
    PROVE  /\ i \in DOMAIN table'["temp"]
           /\ Evolves(table["temp"][i], table'["temp"][i])
<1> USE DEF SectionSet
<1>1. /\ DOMAIN table = SectionSet
      /\ table["temp"] \in Seq(Rec)
      /\ \A s \in SectionSet : table[s] \in Seq(Rec)
  BY DEF IInv, TypeOK
<1>2. CASE UNCHANGED table
  BY <1>2 DEF Evolves
<1>3. ASSUME NEW s \in {"interOut", "temp"}, NEW id \in Ids, NEW name \in Names,
             Put(s, id, name)
      PROVE  /\ i \in DOMAIN table'["temp"]
             /\ Evolves(table["temp"][i], table'["temp"][i])
  <2> DEFINE new == [id |-> id, name |-> name, flag |-> ""]
             k   == First(Live(table[s], id))
  <2>1. new \in Rec /\ new.flag = ""
    BY DEF Rec, Flags
  <2>2. k # 0 => k \in Live(table[s], id)
    BY <1>1, LiveIsPosition, FirstFinds
  <2>3. k # 0 => k \in DOMAIN table[s] /\ ~Deleted(table[s][k])
    BY <2>2 DEF Live, With
  <2>4. \/ k # 0 /\ table' = [table EXCEPT ![s] = [table[s] EXCEPT ![k] = new]]
        \/ table' = [table EXCEPT ![s] = Append(table[s], new)]
    BY <1>3 DEF Put
  <2> HIDE DEF new, k
  <2>5. CASE k # 0 /\ table' = [table EXCEPT ![s] = [table[s] EXCEPT ![k] = new]]
    BY <1>1, <2>1, <2>3, <2>5 DEF Evolves
  <2>6. CASE table' = [table EXCEPT ![s] = Append(table[s], new)]
    <3>1. i \in DOMAIN Append(table["temp"], new)
          /\ Append(table["temp"], new)[i] = table["temp"][i]
      BY <1>1, <2>1, AppendKeeps
    <3>2. table'["temp"] = table["temp"] \/ table'["temp"] = Append(table["temp"], new)
      BY <1>1, <2>6
    <3> QED BY <3>1, <3>2 DEF Evolves
  <2> QED BY <2>4, <2>5, <2>6
<1>4. ASSUME NEW id \in Ids, Drop(id)
      PROVE  /\ i \in DOMAIN table'["temp"]
             /\ Evolves(table["temp"][i], table'["temp"][i])
  <2> DEFINE k == First(Live(table["temp"], id))
  <2>1. k # 0
    BY <1>4 DEF Drop
  <2>2. k \in DOMAIN table["temp"] /\ ~Deleted(table["temp"][k])
    BY <1>1, <2>1, LiveIsPosition, FirstFinds DEF Live, With
  <2>3. table' = [table EXCEPT !["temp"] = [table["temp"] EXCEPT ![k] =
            [table["temp"][k] EXCEPT !.flag = IF table["temp"][k].flag = "R" THEN "B" ELSE "D"]]]
    BY <1>4 DEF Drop
  <2> HIDE DEF k
  <2> QED BY <1>1, <2>2, <2>3 DEF Evolves
<1>5. ASSUME NEW s \in SectionSet, NEW k \in DOMAIN table[s], MarkRuntime(s, k)
      PROVE  /\ i \in DOMAIN table'["temp"]
             /\ Evolves(table["temp"][i], table'["temp"][i])
  <2>1. table' = [table EXCEPT ![s] = [table[s] EXCEPT ![k] =
            [table[s][k] EXCEPT !.flag = IF table[s][k].flag \in {"D", "B"} THEN "B" ELSE "R"]]]
    BY <1>5 DEF MarkRuntime
  <2> QED BY <1>1, <2>1 DEF Evolves, Deleted
<1> QED BY <1>2, <1>3, <1>4, <1>5 DEF Next

(* A file marked for deletion stays in the table, under its name and        *)
(* marked: nothing that a PGE calls brings it back.                         *)
THEOREM DeletionIsFinal == Spec => DeleteIsFinal
<1>1. IInv /\ [Next]_table => [KeepsDeleted]_table
  <2> SUFFICES ASSUME IInv, [Next]_table, NEW i \in DOMAIN table["temp"],
                      Deleted(table["temp"][i])
               PROVE  /\ i \in DOMAIN table'["temp"]
                      /\ table'["temp"][i].name = table["temp"][i].name
                      /\ Deleted(table'["temp"][i])
    BY DEF KeepsDeleted
  <2>1. table["temp"][i] \in Rec
    BY DEF IInv, TypeOK, SectionSet
  <2>2. i \in DOMAIN table'["temp"] /\ Evolves(table["temp"][i], table'["temp"][i])
    BY NextEvolves
  <2> QED BY <2>1, <2>2 DEF Evolves, Deleted, Rec
<1> QED BY AlwaysIInv, <1>1, PTL DEF Spec, DeleteIsFinal

(* A runtime file that is deleted is marked as both.                        *)
THEOREM RuntimeIsKept == Spec => RuntimeKept
<1>1. IInv /\ [Next]_table => [KeepsRuntime]_table
  <2> SUFFICES ASSUME IInv, [Next]_table, NEW i \in DOMAIN table["temp"],
                      table["temp"][i].flag \in {"R", "B"}, Deleted(table'["temp"][i])
               PROVE  table'["temp"][i].flag = "B"
    BY DEF KeepsRuntime
  <2>1. table["temp"][i] \in Rec
    BY DEF IInv, TypeOK, SectionSet
  <2>2. Evolves(table["temp"][i], table'["temp"][i])
    BY NextEvolves
  <2> QED BY <2>1, <2>2 DEF Evolves, Deleted, Rec
<1> QED BY AlwaysIInv, <1>1, PTL DEF Spec, RuntimeKept
=============================================================================
