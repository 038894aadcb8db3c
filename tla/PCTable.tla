------------------------------ MODULE PCTable ------------------------------
(***************************************************************************)
(* What the process control tools promise about the table, wherever it is *)
(* kept: each call that changes it changes it at one instant, by putting a *)
(* file under an identifier, by marking one for deletion, or by marking    *)
(* one as a runtime file.  PCShm (shared memory) and PCAscii (the file)    *)
(* implement it.                                                           *)
(***************************************************************************)
EXTENDS PCRecords, FiniteSets

CONSTANTS Ids,      \* logical identifiers
          Names,    \* files
          InterIn,  \* the identifiers the PCF lists as intermediate input
          MaxFiles  \* how many records a section may grow to; 0 if there is no limit

ASSUME TableAssumption ==
    /\ InterIn \subseteq Ids /\ IsFiniteSet(InterIn)
    /\ \A id \in InterIn : PcfName(id) \in Names
    /\ MaxFiles \in Nat

VARIABLE table

Rec == [id : Ids, name : Names, flag : Flags]

Init == \E l \in Listings(InterIn, Cardinality(InterIn)) : table = Loaded(l)

HasRoom(s) == MaxFiles = 0 \/ Len(table[s]) < MaxFiles

PutBlind(s, id, name) ==                           \* mutated Put
    table' = [table EXCEPT ![s] = Append(@, [id |-> id, name |-> name, flag |-> ""])]
\* A new file takes the place of the live one of its identifier, flag
\* included; if there is none it goes to the end of the section.
Put(s, id, name) ==
    LET new == [id |-> id, name |-> name, flag |-> ""]
        i   == First(Live(table[s], id))
    IN  \/ /\ i # 0
           /\ table' = [table EXCEPT ![s][i] = new]
        \/ /\ i = 0 /\ HasRoom(s)
           /\ table' = [table EXCEPT ![s] = Append(@, new)]

\* Deleting a temporary file marks its record; a runtime mark is kept.
Drop(id) ==
    LET i == First(Live(table["temp"], id))
    IN  /\ i # 0
        /\ table' = [table EXCEPT !["temp"][i].flag = IF @ = "R" THEN "B" ELSE "D"]

MarkAny(s, i) ==                                   \* mutated MarkRuntime
    table' = [table EXCEPT ![s][i].flag = "R"]
\* A runtime mark leaves a DELETE flag in force.
MarkRuntime(s, i) ==
    table' = [table EXCEPT ![s][i].flag = IF @ \in {"D", "B"} THEN "B" ELSE "R"]

Next ==
    \/ \E s \in {"interOut", "temp"}, id \in Ids, name \in Names : Put(s, id, name)
    \/ \E id \in Ids : Drop(id)
    \/ \E s \in SectionSet : \E i \in DOMAIN table[s] : MarkRuntime(s, i)

Spec == Init /\ [][Next]_table

----------------------------------------------------------------------------
\* Every section is a sequence of records, within its bound.
TypeOK ==
    /\ DOMAIN table = SectionSet
    /\ \A s \in SectionSet : table[s] \in Seq(Rec)
    /\ MaxFiles # 0 => \A s \in {"interOut", "temp"} : Len(table[s]) <= MaxFiles

\* An identifier has at most one live record in a section, so that which
\* file a search finds does not depend on the order of the records.
AtMostOneLive ==
    \A s \in SectionSet, id \in Ids :
        \A i, j \in Live(table[s], id) : i = j

KeepsDeleted ==
    \A i \in DOMAIN table["temp"] : Deleted(table["temp"][i]) =>
        /\ i \in DOMAIN table'["temp"]
        /\ table'["temp"][i].name = table["temp"][i].name
        /\ Deleted(table'["temp"][i])

\* A file marked for deletion stays in the table under its name and stays
\* marked, through creations with its identifier and runtime marks.
DeleteIsFinal == [][KeepsDeleted]_table

KeepsRuntime ==
    \A i \in DOMAIN table["temp"] :
        /\ table["temp"][i].flag \in {"R", "B"}
        /\ Deleted(table'["temp"][i])
        => table'["temp"][i].flag = "B"

\* A runtime file that is deleted is still known to be one (DELNRUN), in
\* whichever order the two marks are made.
RuntimeKept == [][KeepsRuntime]_table
=============================================================================
