----------------------------- MODULE PCRecords -----------------------------
(***************************************************************************)
(* File records of the process control table, and the searches every tool *)
(* makes.  A section is a sequence of records; a record is the identifier, *)
(* the file (its name and directory) and the flag of one line of the       *)
(* process control file or of one PGSt_PC_File_Shm.                        *)
(***************************************************************************)
EXTENDS Naturals, Sequences

\* The sections Temp_Reference searches, in that order.
Sections == <<"interIn", "interOut", "temp">>
SectionSet == {"interIn", "interOut", "temp"}
Flags == {"", "D", "R", "B"}       \* none, DELETE, RUNTIME, DELNRUN

\* The file the PCF lists for an intermediate input identifier.
PcfName(id) == <<"pcf", id>>
\* The orders in which a PCF may list the identifiers of a set.
Listings(ids, n) ==
    {s \in [1..n -> ids] : \A i, j \in 1..n : s[i] = s[j] => i = j}
\* The table when the PGE starts: nothing but intermediate input.
Loaded(listing) ==
    [s \in SectionSet |->
        IF s = "interIn"
        THEN [i \in DOMAIN listing |->
                 [id |-> listing[i], name |-> PcfName(listing[i]), flag |-> ""]]
        ELSE <<>>]

Deleted(r) == r.flag \in {"D", "B"}
With(s, id) == {i \in DOMAIN s : s[i].id = id}
AnyRecord(s, id) == With(s, id)                   \* mutated Live
Live(s, id) == {i \in With(s, id) : ~Deleted(s[i])}
First(I) == IF I = {} THEN 0 ELSE CHOOSE i \in I : \A j \in I : i <= j
=============================================================================
