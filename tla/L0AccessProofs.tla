--------------------------- MODULE L0AccessProofs ---------------------------
(***************************************************************************)
(* The Level 0 access tools, for all data sets, handles and times.         *)
(***************************************************************************)
EXTENDS L0Access, FiniteSetTheorems, SequenceTheorems, WellFoundedInduction, TLAPS

(* A set of naturals that is not empty has a least member, which is its Min. *)
LEMMA MinIsLeast ==
    ASSUME NEW S \in SUBSET Nat, S # {}
    PROVE  Min(S) \in S /\ \A x \in S : Min(S) <= x
<1>1. PICK i \in S : \A j \in S : ~(<<j, i>> \in OpToRel(<, Nat))
  BY NatLessThanWellFounded, WFMin, Zenon
<1>2. \A j \in S : ~(j < i)
  BY <1>1 DEF OpToRel
<1>3. \E x \in S : \A y \in S : x <= y
  BY <1>2
<1> QED BY <1>3 DEF Min

----------------------------------------------------------------------------
(* The files                                                               *)

(* What the assumption says of one file.                                    *)
LEMMA FileFacts ==
    ASSUME NEW d \in DataSets
    PROVE  /\ Len(Files[d]) \in Nat \ {0} /\ DOMAIN Files[d] = 1..Len(Files[d])
           /\ 1 \in DOMAIN Files[d] /\ LastFile(d) \in DOMAIN Files[d]
           /\ \A f \in DOMAIN Files[d] :
                /\ Times(d, f) \in Seq(Nat) /\ Claim(d, f) \in Nat
                /\ Count(d, f) \in Nat \ {0} /\ DOMAIN Times(d, f) = 1..Count(d, f)
                /\ \A i \in 1..Count(d, f) : Times(d, f)[i] \in Nat
                /\ Increasing(Times(d, f))
<1>1. Files[d] \in Seq([times : Seq(Nat), claim : Nat]) /\ Files[d] # <<>>
  BY L0Assumption
<1>2. Len(Files[d]) \in Nat \ {0} /\ DOMAIN Files[d] = 1..Len(Files[d])
  BY <1>1
<1>3. ASSUME NEW f \in DOMAIN Files[d]
      PROVE  /\ Times(d, f) \in Seq(Nat) /\ Claim(d, f) \in Nat
             /\ Times(d, f) # <<>> /\ Increasing(Times(d, f))
  <2>1. Files[d][f] \in [times : Seq(Nat), claim : Nat]
    BY <1>1, ElementOfSeq, f \in 1..Len(Files[d]), <1>2
  <2> QED BY <2>1, L0Assumption DEF Times, Claim
<1>4. ASSUME NEW f \in DOMAIN Files[d]
      PROVE  /\ Count(d, f) \in Nat \ {0} /\ DOMAIN Times(d, f) = 1..Count(d, f)
             /\ \A i \in 1..Count(d, f) : Times(d, f)[i] \in Nat
  BY <1>3 DEF Count
<1> QED BY <1>2, <1>3, <1>4 DEF LastFile

\* The files of a data set are numbered from 1.
LEMMA FilesAreNumbered ==
    ASSUME NEW d \in DataSets
    PROVE  /\ DOMAIN Files[d] \in SUBSET Nat
           /\ DOMAIN Files[d] = 1..LastFile(d) /\ LastFile(d) \in Nat \ {0}
BY FileFacts DEF LastFile

\* What FileFacts says of one file.
LEMMA OneFile ==
    ASSUME NEW d \in DataSets, NEW f \in DOMAIN Files[d]
    PROVE  /\ DOMAIN Times(d, f) = 1..Count(d, f) /\ Count(d, f) \in Nat \ {0}
           /\ Count(d, f) \in DOMAIN Times(d, f)
           /\ \A i \in 1..Count(d, f) : Times(d, f)[i] \in Nat
           /\ Times(d, f)[Count(d, f)] \in Nat
           /\ Increasing(Times(d, f))
<1>1. /\ DOMAIN Times(d, f) = 1..Count(d, f) /\ Count(d, f) \in Nat \ {0}
      /\ \A i \in 1..Count(d, f) : Times(d, f)[i] \in Nat
      /\ Increasing(Times(d, f))
  BY FileFacts
<1> QED BY <1>1

(* The file of a time that is in the data set is the first that has a       *)
(* packet at or after it.                                                   *)
LEMMA FileAtIs ==
    ASSUME NEW d \in DataSets, NEW t \in Nat, TimeFound(d, t)
    PROVE  /\ FileAt(d, t) \in DOMAIN Files[d]
           /\ t <= Times(d, FileAt(d, t))[Count(d, FileAt(d, t))]
           /\ \A f \in DOMAIN Files[d] : f < FileAt(d, t) => Times(d, f)[Count(d, f)] < t
<1> DEFINE S == {f \in DOMAIN Files[d] : t <= Times(d, f)[Count(d, f)]}
<1>0. DOMAIN Files[d] \in SUBSET Nat
  BY FilesAreNumbered
<1>1. S # {} /\ S \in SUBSET Nat
  BY <1>0 DEF TimeFound
<1>2. Min(S) \in S /\ \A f \in S : Min(S) <= f
  BY <1>1, MinIsLeast
<1>3. FileAt(d, t) = Min(S)
  BY DEF FileAt
<1>4. \A f \in DOMAIN Files[d] : f < Min(S) => Times(d, f)[Count(d, f)] < t
  <2> SUFFICES ASSUME NEW f \in DOMAIN Files[d], f < Min(S)
               PROVE  Times(d, f)[Count(d, f)] < t
    OBVIOUS
  <2>1. f \notin S
    BY <1>0, <1>1, <1>2
  <2>2. Times(d, f)[Count(d, f)] \in Nat
    BY OneFile
  <2> QED BY <2>1, <2>2
<1> QED BY <1>2, <1>3, <1>4

(* SeekPacket skips the packets before the time, and no others.             *)
LEMMA BeforeIs ==
    ASSUME NEW d \in DataSets, NEW f \in DOMAIN Files[d], NEW t \in Nat,
           t <= Times(d, f)[Count(d, f)]
    PROVE  /\ Before(d, f, t) \in Nat /\ Before(d, f, t) < Count(d, f)
           /\ \A i \in 1..Count(d, f) : i <= Before(d, f, t) <=> Times(d, f)[i] < t
<1> DEFINE S == {i \in 1..Count(d, f) : Times(d, f)[i] >= t}
           n == Count(d, f)
           T == Times(d, f)
<1>1. n \in Nat \ {0} /\ \A i \in 1..n : T[i] \in Nat
  BY FileFacts
<1>2. \A i, j \in 1..n : i < j => T[i] < T[j]
  BY FileFacts DEF Increasing
<1>3. S \in SUBSET Nat /\ n \in S
  BY <1>1
<1>4. Min(S) \in S /\ \A i \in S : Min(S) <= i
  BY <1>3, MinIsLeast
<1>5. Before(d, f, t) = Min(S) - 1
  BY DEF Before
<1> HIDE DEF n, T
<1>6. S = {i \in 1..n : T[i] >= t}
  BY DEF n, T
<1> HIDE DEF S
<1>7. ASSUME NEW i \in 1..n PROVE i <= Min(S) - 1 <=> T[i] < t
  <2>0. Min(S) \in 1..n /\ T[Min(S)] >= t /\ T[Min(S)] \in Nat /\ T[i] \in Nat
    BY <1>1, <1>4, <1>6
  <2>1. CASE i < Min(S)
    <3>1. i \notin S
      BY <2>0, <2>1, <1>4
    <3> QED BY <3>1, <2>0, <2>1, <1>6
  <2>2. CASE i = Min(S)
    BY <2>0, <2>2
  <2>3. CASE i > Min(S)
    <3>1. T[Min(S)] < T[i]
      BY <2>0, <2>3, <1>2
    <3> QED BY <3>1, <2>0, <2>3
  <2> QED BY <2>0, <2>1, <2>2, <2>3
<1>8. Min(S) - 1 \in Nat /\ Min(S) - 1 < n
  BY <1>1, <1>4, <1>6
<1> QED BY <1>5, <1>7, <1>8 DEF n, T

----------------------------------------------------------------------------
(* The table and the streams                                               *)

(* An entry is typed, and its stream is one that is in the file it names.   *)
EntryOK(e, ss) ==
    /\ \E d \in DataSets : e \in Entries(d)
    /\ e.stream # NoStream =>
         /\ e.stream \in DOMAIN ss
         /\ ss[e.stream].set = e.set /\ ss[e.stream].file = e.seq

StreamOK(s) == \E d \in DataSets : s \in [set : {d}, file : DOMAIN Files[d], at : Nat]

StreamsOK(ss) ==
    /\ IsFiniteSet(DOMAIN ss) /\ DOMAIN ss \subseteq Nat \ {0}
    /\ \A s \in DOMAIN ss : StreamOK(ss[s])

(* No stream serves two entries. *)
Apart(tab) ==
    \A g, h \in Handles :
        g # h /\ tab[g] # Unused /\ tab[h] # Unused /\ tab[h].stream # NoStream
            => tab[g].stream # tab[h].stream

TableOK(tab, ss) ==
    /\ tab = [h \in Handles |-> tab[h]]
    /\ \A h \in Handles : tab[h] # Unused => EntryOK(tab[h], ss)
    /\ StreamsOK(ss)
    /\ Apart(tab)

(* StreamsAgree, of any table and streams: counts and positions are the     *)
(* same, and each stream is that of an entry.                               *)
CountOK(e, ss) ==
    e.stream # NoStream /\ ss[e.stream].at < Count(e.set, e.seq)
        => e.read[e.seq] = ss[e.stream].at
CountsOK(tab, ss) == \A h \in Handles : tab[h] # Unused => CountOK(tab[h], ss)
Owned(tab, ss) ==
    \A s \in DOMAIN ss : \E h \in Handles : tab[h] # Unused /\ tab[h].stream = s

(* An entry is no empty sequence, and has these fields.                     *)
LEMMA EntryFields ==
    ASSUME NEW d \in DataSets, NEW e \in Entries(d)
    PROVE  /\ e # Unused /\ e.set = d /\ e.seq \in DOMAIN Files[d]
           /\ e.seq \in Nat \ {0} /\ e.stream \in Nat
           /\ e.read \in [DOMAIN Files[d] -> Nat]
<1>1. e.set = d /\ e.seq \in DOMAIN Files[d] /\ e.stream \in Nat
      /\ e.read \in [DOMAIN Files[d] -> Nat]
  BY DEF Entries
<1>2. e # Unused
  <2>1. "set" \in DOMAIN e
    BY DEF Entries
  <2>2. DOMAIN Unused = {}
    BY DEF Unused
  <2> QED BY <2>1, <2>2
<1>3. e.seq \in Nat \ {0}
  <2>1. e.seq \in 1..Len(Files[d]) /\ Len(Files[d]) \in Nat
    BY <1>1, FileFacts
  <2> QED BY <2>1
<1> QED BY <1>1, <1>2, <1>3

(* A new stream has a number that none has. *)
LEMMA NewStreamIsNew ==
    ASSUME NEW ss, StreamsOK(ss)
    PROVE  NewStream(ss) \in Nat \ {0} /\ NewStream(ss) \notin DOMAIN ss
<1> DEFINE D == DOMAIN ss
           n == Cardinality(D) + 1
           S == 1..n \ D
<1>1. IsFiniteSet(D) /\ Cardinality(D) \in Nat
  BY FS_CardinalityType DEF StreamsOK
<1>2. IsFiniteSet(1..n) /\ Cardinality(1..n) = n
  BY <1>1, FS_Interval
<1>3. S # {}
  <2> SUFFICES ASSUME 1..n \subseteq D PROVE FALSE
    OBVIOUS
  <2>1. Cardinality(1..n) <= Cardinality(D)
    BY <1>1, FS_Subset
  <2> QED BY <2>1, <1>1, <1>2
<1>4. S \in SUBSET Nat
  OBVIOUS
<1>5. Min(S) \in S
  BY <1>3, <1>4, MinIsLeast
<1> QED BY <1>5 DEF NewStream

(* Opening a file gives the table a new entry and the process a new stream. *)
LEMMA OpenKeeps ==
    ASSUME NEW tab, NEW ss, TableOK(tab, ss),
           NEW h \in Handles, NEW d \in DataSets, NEW f \in DOMAIN Files[d], NEW at \in Nat,
           NEW e \in Entries(d), e.seq = f, e.stream = NewStream(ss)
    PROVE  LET tab2 == [tab EXCEPT ![h] = e]
               ss2 == WithStream(ss, d, f, at)
           IN  /\ TableOK(tab2, ss2)
               /\ ss2[e.stream] = Stream(d, f, at)
               /\ CountsOK(tab, ss) /\ e.read[f] = at => CountsOK(tab2, ss2)
               /\ Owned(tab, ss) /\ (tab[h] = Unused \/ tab[h].stream = NoStream)
                    => Owned(tab2, ss2)
<1> DEFINE tab2 == [tab EXCEPT ![h] = e]
           ss2 == WithStream(ss, d, f, at)
           n == NewStream(ss)
<1>1. n \in Nat \ {0} /\ n \notin DOMAIN ss
  BY NewStreamIsNew DEF TableOK
<1>2. /\ DOMAIN ss2 = DOMAIN ss \cup {n}
      /\ ss2[n] = Stream(d, f, at)
      /\ \A s \in DOMAIN ss : ss2[s] = ss[s]
  BY <1>1 DEF WithStream
<1> HIDE DEF n, ss2
<1>3. StreamsOK(ss2)
  <2>1. StreamOK(Stream(d, f, at))
    BY DEF StreamOK, Stream
  <2>2. IsFiniteSet(DOMAIN ss2)
    BY <1>2, FS_AddElement DEF TableOK, StreamsOK
  <2> QED BY <1>1, <1>2, <2>1, <2>2 DEF TableOK, StreamsOK
<1>4. /\ tab2 = [g \in Handles |-> tab2[g]]
      /\ tab2[h] = e /\ \A g \in Handles \ {h} : tab2[g] = tab[g]
  BY DEF TableOK
<1>5. e.stream = n /\ e.set = d /\ e # Unused
  BY EntryFields DEF n
<1> HIDE DEF tab2
<1>6. EntryOK(e, ss2)
  BY <1>2, <1>5 DEF EntryOK, Stream
<1>7. \A g \in Handles \ {h} : tab[g] # Unused =>
         /\ EntryOK(tab[g], ss2)
         /\ tab[g].stream # n
         /\ CountOK(tab[g], ss) => CountOK(tab[g], ss2)
  BY <1>1, <1>2 DEF TableOK, EntryOK, CountOK, NoStream
<1>8. Apart(tab2)
  BY <1>1, <1>4, <1>5, <1>7 DEF Apart, TableOK
<1>9. CountOK(e, ss2) \/ e.read[f] # at
  BY <1>2, <1>5 DEF CountOK, Stream
<1>10. ASSUME Owned(tab, ss), tab[h] = Unused \/ tab[h].stream = NoStream
       PROVE  Owned(tab2, ss2)
  <2> SUFFICES ASSUME NEW s \in DOMAIN ss2
               PROVE  \E g \in Handles : tab2[g] # Unused /\ tab2[g].stream = s
    BY DEF Owned
  <2>1. CASE s = n
    BY <2>1, <1>4, <1>5
  <2>2. CASE s # n
    <3>1. s \in DOMAIN ss
      BY <2>2, <1>2
    <3>2. PICK g \in Handles : tab[g] # Unused /\ tab[g].stream = s
      BY <1>10, <3>1 DEF Owned
    <3>3. g # h
      BY <1>10, <3>1, <3>2 DEF TableOK, StreamsOK, NoStream
    <3> QED BY <3>2, <3>3, <1>4
  <2> QED BY <2>1, <2>2
<1>11. TableOK(tab2, ss2)
  BY <1>3, <1>4, <1>6, <1>7, <1>8 DEF TableOK
<1>12. CountsOK(tab, ss) /\ e.read[f] = at => CountsOK(tab2, ss2)
  BY <1>4, <1>7, <1>9 DEF CountsOK
<1> QED BY <1>2, <1>5, <1>10, <1>11, <1>12 DEF tab2, ss2

(* Closing the stream of an entry leaves those of all others.               *)
LEMMA CloseKeeps ==
    ASSUME NEW tab, NEW ss, TableOK(tab, ss),
           NEW h \in Handles, tab[h] # Unused,
           NEW e, e = Unused \/ (EntryOK(e, ss) /\ e.stream = NoStream)
    PROVE  LET tab2 == [tab EXCEPT ![h] = e]
               ss2 == WithoutStream(ss, tab[h].stream)
           IN  /\ TableOK(tab2, ss2)
               /\ CountsOK(tab, ss) => CountsOK(tab2, ss2)
               /\ Owned(tab, ss) => Owned(tab2, ss2)
<1> DEFINE tab2 == [tab EXCEPT ![h] = e]
           n == tab[h].stream
           ss2 == WithoutStream(ss, n)
<1>1. DOMAIN ss2 = DOMAIN ss \ {n} /\ \A s \in DOMAIN ss \ {n} : ss2[s] = ss[s]
  BY DEF WithoutStream
<1> HIDE DEF ss2
<1>2. StreamsOK(ss2)
  BY <1>1, FS_RemoveElement DEF TableOK, StreamsOK
<1>3. /\ tab2 = [g \in Handles |-> tab2[g]]
      /\ tab2[h] = e /\ \A g \in Handles \ {h} : tab2[g] = tab[g]
  BY DEF TableOK
<1> HIDE DEF tab2
<1>4. \A g \in Handles \ {h} : tab[g] # Unused =>
         /\ EntryOK(tab[g], ss2)
         /\ CountOK(tab[g], ss) => CountOK(tab[g], ss2)
  <2> SUFFICES ASSUME NEW g \in Handles \ {h}, tab[g] # Unused
               PROVE  /\ EntryOK(tab[g], ss2)
                      /\ CountOK(tab[g], ss) => CountOK(tab[g], ss2)
    OBVIOUS
  <2>1. EntryOK(tab[g], ss)
    BY DEF TableOK
  <2>2. tab[g].stream # NoStream => tab[g].stream # n
    BY DEF TableOK, Apart
  <2> QED BY <2>1, <2>2, <1>1 DEF EntryOK, CountOK
<1>5. e = Unused \/ (EntryOK(e, ss2) /\ CountOK(e, ss2) /\ e.stream = NoStream)
  BY DEF EntryOK, CountOK
<1>6. Apart(tab2)
  BY <1>3, <1>5 DEF Apart, TableOK
<1>7. TableOK(tab2, ss2)
  BY <1>2, <1>3, <1>4, <1>5, <1>6 DEF TableOK
<1>8. CountsOK(tab, ss) => CountsOK(tab2, ss2)
  BY <1>3, <1>4, <1>5 DEF CountsOK
<1>9. Owned(tab, ss) => Owned(tab2, ss2)
  <2> SUFFICES ASSUME Owned(tab, ss), NEW s \in DOMAIN ss2
               PROVE  \E g \in Handles : tab2[g] # Unused /\ tab2[g].stream = s
    BY DEF Owned
  <2>1. PICK g \in Handles : tab[g] # Unused /\ tab[g].stream = s
    BY <1>1 DEF Owned
  <2>2. g # h
    BY <1>1, <2>1
  <2> QED BY <2>1, <2>2, <1>3
<1> QED BY <1>7, <1>8, <1>9 DEF tab2, ss2

(* Reading on or seeking moves one stream in its file.                      *)
LEMMA MoveKeeps ==
    ASSUME NEW tab, NEW ss, TableOK(tab, ss),
           NEW h \in Handles, tab[h] # Unused, tab[h].stream # NoStream,
           NEW d \in DataSets, NEW e \in Entries(d), NEW at \in Nat,
           e.set = tab[h].set, e.seq = tab[h].seq, e.stream = tab[h].stream
    PROVE  LET tab2 == [tab EXCEPT ![h] = e]
               ss2 == [ss EXCEPT ![e.stream].at = at]
           IN  /\ TableOK(tab2, ss2)
               /\ ss2[e.stream] = Stream(d, e.seq, at)
               /\ CountsOK(tab, ss) /\ (at < Count(d, e.seq) => e.read[e.seq] = at)
                    => CountsOK(tab2, ss2)
               /\ Owned(tab, ss) => Owned(tab2, ss2)
<1> DEFINE tab2 == [tab EXCEPT ![h] = e]
           n == e.stream
           ss2 == [ss EXCEPT ![n].at = at]
<1>1. EntryOK(tab[h], ss) /\ e.set = d /\ e # Unused
  BY EntryFields DEF TableOK
<1>2. n \in DOMAIN ss /\ StreamOK(ss[n]) /\ ss[n].set = d /\ ss[n].file = e.seq
  BY <1>1 DEF EntryOK, TableOK, StreamsOK
<1>3. ss[n] \in [set : {d}, file : DOMAIN Files[d], at : Nat]
  BY <1>2 DEF StreamOK
<1>4. /\ DOMAIN ss2 = DOMAIN ss
      /\ ss2[n] = [ss[n] EXCEPT !.at = at]
      /\ \A s \in DOMAIN ss \ {n} : ss2[s] = ss[s]
  BY <1>2
<1> HIDE DEF ss2
<1>5. ss2[n] = Stream(d, e.seq, at) /\ StreamOK(ss2[n])
  BY <1>2, <1>3, <1>4 DEF StreamOK, Stream
<1>6. StreamsOK(ss2)
  BY <1>4, <1>5 DEF TableOK, StreamsOK
<1>7. /\ tab2 = [g \in Handles |-> tab2[g]]
      /\ tab2[h] = e /\ \A g \in Handles \ {h} : tab2[g] = tab[g]
  BY DEF TableOK
<1> HIDE DEF tab2
<1>8. \A g \in Handles \ {h} : tab[g] # Unused =>
         /\ EntryOK(tab[g], ss2)
         /\ CountOK(tab[g], ss) => CountOK(tab[g], ss2)
  <2> SUFFICES ASSUME NEW g \in Handles \ {h}, tab[g] # Unused
               PROVE  /\ EntryOK(tab[g], ss2)
                      /\ CountOK(tab[g], ss) => CountOK(tab[g], ss2)
    OBVIOUS
  <2>1. EntryOK(tab[g], ss)
    BY DEF TableOK
  <2>2. tab[g].stream # NoStream => tab[g].stream # n
    BY DEF TableOK, Apart
  <2> QED BY <2>1, <2>2, <1>4 DEF EntryOK, CountOK
<1>9. EntryOK(e, ss2)
  BY <1>1, <1>2, <1>4, <1>5 DEF EntryOK, Stream
<1>10. (at < Count(d, e.seq) => e.read[e.seq] = at) => CountOK(e, ss2)
  BY <1>1, <1>5 DEF CountOK, Stream
<1>11. Apart(tab2)
  BY <1>7 DEF Apart, TableOK
<1>12. TableOK(tab2, ss2)
  BY <1>6, <1>7, <1>8, <1>9, <1>11 DEF TableOK
<1>13. CountsOK(tab, ss) /\ (at < Count(d, e.seq) => e.read[e.seq] = at)
           => CountsOK(tab2, ss2)
  BY <1>7, <1>8, <1>10 DEF CountsOK
<1>14. Owned(tab, ss) => Owned(tab2, ss2)
  BY <1>1, <1>4, <1>7 DEF Owned
<1> QED BY <1>5, <1>12, <1>13, <1>14 DEF tab2, ss2

----------------------------------------------------------------------------
(* The invariant                                                           *)

Counted == CountsOK(file_table, streams)
Kept == Owned(file_table, streams)
KeepsAgree == (Counted => Counted') /\ (Kept => Kept')

Types ==
    /\ returnStatus2 \in {"success", "zero", "toolkit"}
    /\ given = Nothing \/ given \in DataSets \X Nat \X Nat \X BOOLEAN
    /\ skipped \in Int /\ fault \in BOOLEAN

(* All packets of a file of d, and of those from file f up to before g.     *)
PacketsOf(d, f) == {f} \X DOMAIN Times(d, f)
PacketsFrom(d, f, g) == UNION {PacketsOf(d, k) : k \in f..(g - 1)}

(* PGS_IO_L0_SetStartCntPkts goes from the file that was open to that of    *)
(* the time, and has counted the packets of the files it has left.          *)
CallOK ==
    call # Idle =>
        LET e == file_table[call.h]
        IN  /\ call \in Calls /\ Used(call.h)
            /\ TimeFound(e.set, call.t) /\ call.to = FileAt(e.set, call.t)
            /\ call.from \in DOMAIN Files[e.set]
            /\ call.from <= call.skip /\ (call.from < call.skip => call.skip <= call.to)
            /\ e.seq = (IF call.from = call.skip THEN call.from ELSE call.skip - 1)
            /\ IsFiniteSet(PacketsFrom(e.set, call.from, call.skip))
            /\ call.n = Cardinality(PacketsFrom(e.set, call.from, call.skip))
            /\ skipped = -1

Inv == TableOK(file_table, streams) /\ Types /\ CallOK

(* The invariant says what the type invariant says. *)
LEMMA InvTypes == Inv => TypeOK
<1> SUFFICES ASSUME Inv PROVE TypeOK
  OBVIOUS
<1>1. \A h \in Handles : Used(h) => \E d \in DataSets : file_table[h] \in Entries(d)
  BY DEF Inv, TableOK, EntryOK, Used
<1>2. \A s \in DOMAIN streams : \E d \in DataSets :
         streams[s] \in [set : {d}, file : DOMAIN Files[d], at : Nat]
  BY DEF Inv, TableOK, StreamsOK, StreamOK
<1>3. call = Idle \/ call \in Calls
  BY DEF Inv, CallOK
<1> QED BY <1>1, <1>2, <1>3 DEF Inv, TableOK, Types, TypeOK

(* An entry of the table is a record with these fields, and so is its       *)
(* stream.                                                                  *)
LEMMA UsedFacts ==
    ASSUME Inv, NEW h \in Handles, Used(h)
    PROVE  LET e == file_table[h]
           IN  /\ e.set \in DataSets /\ e \in Entries(e.set)
               /\ e.seq \in DOMAIN Files[e.set] /\ e.seq \in Nat \ {0}
               /\ e.stream \in Nat /\ e.read \in [DOMAIN Files[e.set] -> Nat]
               /\ IsOpen(h) => /\ e.stream \in DOMAIN streams
                               /\ streams[e.stream] = Stream(e.set, e.seq, At(h))
                               /\ At(h) \in Nat
<1> DEFINE e == file_table[h]
<1>1. EntryOK(e, streams)
  BY DEF Inv, TableOK, Used
<1>2. PICK d \in DataSets : e \in Entries(d)
  BY <1>1 DEF EntryOK
<1>3. e.set = d /\ e.seq \in DOMAIN Files[d] /\ e.seq \in Nat \ {0} /\ e.stream \in Nat
      /\ e.read \in [DOMAIN Files[d] -> Nat]
  BY <1>2, EntryFields
<1>4. ASSUME IsOpen(h)
      PROVE  /\ e.stream \in DOMAIN streams
             /\ streams[e.stream] = Stream(e.set, e.seq, At(h))
             /\ At(h) \in Nat
  <2>1. e.stream \in DOMAIN streams
        /\ streams[e.stream].set = e.set /\ streams[e.stream].file = e.seq
    BY <1>1, <1>4 DEF EntryOK, IsOpen
  <2>2. StreamOK(streams[e.stream])
    BY <2>1 DEF Inv, TableOK, StreamsOK
  <2> QED BY <2>1, <2>2 DEF StreamOK, Stream, At
<1> QED BY <1>2, <1>3, <1>4

(* Going to another file: the table and the streams stay in order, and      *)
(* either the file is open at the position or none is.                      *)
LEMMA ReopenKeeps ==
    ASSUME Inv, NEW h \in Handles, Used(h),
           NEW d \in DataSets, NEW e \in Entries(d),
           e.stream = file_table[h].stream, e.seq = file_table[h].seq,
           NEW f \in DOMAIN Files[d], NEW at \in Nat, Reopen(h, e, f, at)
    PROVE  /\ TableOK(file_table, streams)'
           /\ KeepsAgree
           /\ \A g \in Handles \ {h} : file_table'[g] = file_table[g]
           /\ \A g \in Handles \ {h} : IsOpen(g) =>
                streams'[file_table[g].stream] = streams[file_table[g].stream]
           /\ file_table'[h].set = d /\ Used(h)'
           /\ \/ /\ IsOpen(h)' /\ file_table'[h].seq = f
                 /\ streams'[file_table'[h].stream] = Stream(d, f, at)
                 /\ file_table'[h].read = [e.read EXCEPT ![f] = at]
              \/ "fopen" \in Faults /\ file_table'[h] = [e EXCEPT !.stream = NoStream]
<1> DEFINE shut == [e EXCEPT !.stream = NoStream]
           tab == [file_table EXCEPT ![h] = shut]
           closed == WithoutStream(streams, file_table[h].stream)
           n == NewStream(closed)
           open == [Sought(e, f, at) EXCEPT !.seq = f, !.stream = n]
<1>0. TableOK(file_table, streams) /\ DOMAIN file_table = Handles
  BY DEF Inv, TableOK
<1>1. shut \in Entries(d) /\ shut.stream = NoStream /\ shut.set = d
  BY DEF Entries, NoStream
<1>2. EntryOK(shut, streams)
  BY <1>1 DEF EntryOK
<1>3. /\ TableOK(tab, closed)
      /\ CountsOK(file_table, streams) => CountsOK(tab, closed)
      /\ Owned(file_table, streams) => Owned(tab, closed)
  BY <1>0, <1>2, <1>1, CloseKeeps DEF Used
<1>4. \A g \in Handles \ {h} : IsOpen(g) =>
        /\ file_table[g].stream \in DOMAIN closed
        /\ closed[file_table[g].stream] = streams[file_table[g].stream]
  <2> SUFFICES ASSUME NEW g \in Handles \ {h}, IsOpen(g)
               PROVE  /\ file_table[g].stream \in DOMAIN closed
                      /\ closed[file_table[g].stream] = streams[file_table[g].stream]
    OBVIOUS
  <2>1. file_table[g].stream \in DOMAIN streams
    BY UsedFacts DEF IsOpen
  <2>2. file_table[g].stream # file_table[h].stream
    BY <1>0 DEF TableOK, Apart, IsOpen, Used
  <2> QED BY <2>1, <2>2 DEF WithoutStream
<1>5. CASE file_table' = [file_table EXCEPT ![h] = open]
           /\ streams' = WithStream(closed, e.set, f, at)
  <2>0. n \in Nat \ {0} /\ n \notin DOMAIN closed
    BY <1>3, NewStreamIsNew DEF TableOK
  <2>1. open \in Entries(d) /\ open.seq = f /\ open.stream = n /\ open.set = d /\ e.set = d
        /\ open.read = [e.read EXCEPT ![f] = at] /\ open.read[f] = at
    BY <2>0 DEF Entries, Sought
  <2> HIDE DEF open, closed, n
  <2>2. tab[h].stream = NoStream
    BY <1>0, <1>1
  <2>3. [tab EXCEPT ![h] = open] = file_table'
    BY <1>5, <1>0
  <2> HIDE DEF tab
  <2> DEFINE ss2 == WithStream(closed, d, f, at)
             tab2 == [tab EXCEPT ![h] = open]
  <2>10. open \in Entries(d) /\ open.seq = f /\ open.stream = NewStream(closed)
    BY <2>1 DEF n
  <2>11. /\ TableOK(tab2, ss2)
         /\ ss2[open.stream] = Stream(d, f, at)
         /\ CountsOK(tab, closed) /\ open.read[f] = at => CountsOK(tab2, ss2)
         /\ Owned(tab, closed) /\ (tab[h] = Unused \/ tab[h].stream = NoStream)
              => Owned(tab2, ss2)
    BY <1>3, <2>10, OpenKeeps
  <2>12. file_table' = tab2 /\ streams' = ss2
    BY <1>5, <2>1, <2>3
  <2> HIDE DEF tab2, ss2
  <2>4. /\ TableOK(file_table, streams)'
        /\ streams'[n] = Stream(d, f, at)
        /\ CountsOK(tab, closed) => CountsOK(file_table, streams)'
        /\ Owned(tab, closed) => Owned(file_table, streams)'
    BY <2>1, <2>2, <2>11, <2>12
  <2>5. KeepsAgree
    BY <2>4, <1>3 DEF KeepsAgree, Counted, Kept
  <2>6. file_table'[h] = open /\ \A g \in Handles \ {h} : file_table'[g] = file_table[g]
    BY <1>5, <1>0
  <2>7. Used(h)' /\ IsOpen(h)'
    BY <2>0, <2>1, <2>6, EntryFields DEF Used, IsOpen, NoStream
  <2>8. \A s \in DOMAIN closed : streams'[s] = closed[s]
    BY <2>0, <2>12 DEF WithStream, ss2
  <2>9. \A g \in Handles \ {h} : IsOpen(g) =>
           streams'[file_table[g].stream] = streams[file_table[g].stream]
    BY <2>8, <1>4
  <2> QED BY <2>1, <2>4, <2>5, <2>6, <2>7, <2>9
<1>6. CASE "fopen" \in Faults /\ file_table' = tab /\ streams' = closed
  <2>1. TableOK(file_table, streams)' /\ KeepsAgree
    BY <1>3, <1>6 DEF KeepsAgree, Counted, Kept
  <2>2. file_table'[h] = shut /\ \A g \in Handles \ {h} : file_table'[g] = file_table[g]
    BY <1>6, <1>0
  <2>3. shut # Unused
    BY <1>1, EntryFields
  <2> QED BY <1>1, <1>4, <1>6, <2>1, <2>2, <2>3 DEF Used
<1> QED
  <2>1. e.stream = file_table[h].stream /\ e.set = d
    BY EntryFields
  <2> QED BY <1>5, <1>6, <2>1 DEF Reopen

----------------------------------------------------------------------------
(* The steps                                                               *)

(* Where no call of PGS_IO_L0_SetStartCntPkts is under way after a step,    *)
(* the invariant is that of the table.                                      *)
LEMMA InvWhenIdle ==
    ASSUME TableOK(file_table, streams)', Types', call' = Idle
    PROVE  Inv'
BY DEF Inv, CallOK

\* No data set is open at the start.
LEMMA InitHolds == Init => Inv /\ Counted /\ Kept
<1> SUFFICES ASSUME Init PROVE Inv /\ Counted /\ Kept
  OBVIOUS
<1>1. file_table = [h \in Handles |-> Unused] /\ streams = <<>> /\ call = Idle
  BY DEF Init
<1>2. DOMAIN streams = {}
  BY <1>1
<1>3. StreamsOK(streams)
  BY <1>2, FS_EmptySet DEF StreamsOK
<1>4. TableOK(file_table, streams)
  BY <1>1, <1>3 DEF TableOK, Apart
<1>5. Types
  <2>1. returnStatus2 = "success" /\ given = Nothing /\ skipped = -1
    BY DEF Init
  <2>2. fault \in BOOLEAN
    BY Zenon DEF Init
  <2> QED BY <2>1, <2>2 DEF Types
<1>6. Counted /\ Kept
  BY <1>1, <1>2 DEF KeepsAgree, Counted, Kept, CountsOK, Owned
<1> QED BY <1>1, <1>4, <1>5, <1>6 DEF Inv, CallOK

LEMMA OpenStep ==
    ASSUME Inv, NEW d \in DataSets, Open(d)
    PROVE  Inv' /\ KeepsAgree
<1> DEFINE n == NewStream(streams)
           h == Min(UnusedEntries)
           e == [set |-> d, seq |-> 1, stream |-> n, read |-> [f \in DOMAIN Files[d] |-> 0]]
<1>1. TableOK(file_table, streams)
  BY DEF Inv
<1>2. n \in Nat \ {0} /\ n \notin DOMAIN streams
  BY <1>1, NewStreamIsNew DEF TableOK
<1>3. h \in Handles /\ file_table[h] = Unused
  <2>1. UnusedEntries \in SUBSET Nat /\ UnusedEntries # {}
    BY L0Assumption DEF UnusedEntries, Handles, Open
  <2>2. Min(UnusedEntries) \in UnusedEntries
    BY <2>1, MinIsLeast
  <2> QED BY <2>2 DEF UnusedEntries, Used
<1>4. 1 \in DOMAIN Files[d]
  BY FileFacts
<1>5. e \in Entries(d) /\ e.seq = 1 /\ e.stream = NewStream(streams) /\ e.read[1] = 0
  BY <1>2, <1>4 DEF Entries
<1>6. file_table' = [file_table EXCEPT ![h] = e] /\ streams' = WithStream(streams, d, 1, 0)
  BY DEF Open
<1> HIDE DEF e, h
<1> DEFINE tab2 == [file_table EXCEPT ![h] = e]
           ss2 == WithStream(streams, d, 1, 0)
<1>7. /\ TableOK(tab2, ss2)
      /\ CountsOK(file_table, streams) => CountsOK(tab2, ss2)
      /\ Owned(file_table, streams) => Owned(tab2, ss2)
  BY <1>1, <1>3, <1>4, <1>5, OpenKeeps
<1> HIDE DEF tab2, ss2
<1>8. TableOK(file_table, streams)' /\ KeepsAgree
  BY <1>6, <1>7 DEF KeepsAgree, Counted, Kept, tab2, ss2
<1>9. Types' /\ call' = Idle
  BY DEF Inv, Types, Open, Ready
<1> QED BY <1>8, <1>9, InvWhenIdle

(* A stream that no entry has changes nothing for the entries.              *)
LEMMA ExcessKeeps ==
    ASSUME NEW tab, NEW ss, TableOK(tab, ss), NEW d \in DataSets
    PROVE  LET ss2 == WithStream(ss, d, 1, 0)
           IN  TableOK(tab, ss2) /\ (CountsOK(tab, ss) => CountsOK(tab, ss2))
<1> DEFINE n == NewStream(ss)
           ss2 == WithStream(ss, d, 1, 0)
<1>1. n \in Nat \ {0} /\ n \notin DOMAIN ss
  BY NewStreamIsNew DEF TableOK
<1>2. /\ DOMAIN ss2 = DOMAIN ss \cup {n}
      /\ ss2[n] = Stream(d, 1, 0)
      /\ \A s \in DOMAIN ss : ss2[s] = ss[s]
  BY <1>1 DEF WithStream
<1> HIDE DEF n, ss2
<1>3. StreamOK(Stream(d, 1, 0))
  BY FileFacts DEF StreamOK, Stream
<1>4. IsFiniteSet(DOMAIN ss2)
  BY <1>2, FS_AddElement DEF TableOK, StreamsOK
<1>5. StreamsOK(ss2)
  BY <1>1, <1>2, <1>3, <1>4 DEF TableOK, StreamsOK
<1>6. \A h \in Handles : tab[h] # Unused =>
        EntryOK(tab[h], ss2) /\ (CountOK(tab[h], ss) => CountOK(tab[h], ss2))
  BY <1>2 DEF TableOK, EntryOK, CountOK
<1> QED BY <1>5, <1>6 DEF TableOK, CountsOK, ss2

LEMMA ExcessStep ==
    ASSUME Inv, NEW d \in DataSets, OpenExcess(d)
    PROVE  Inv' /\ (Counted => Counted')
<1>1. TableOK(file_table, streams)' /\ (Counted => Counted')
  BY ExcessKeeps DEF Inv, OpenExcess, Counted
<1>2. Types' /\ call' = Idle
  BY DEF Inv, Types, OpenExcess, Ready
<1> QED BY <1>1, <1>2, InvWhenIdle

LEMMA CloseStep ==
    ASSUME Inv, NEW h \in Handles, Close(h)
    PROVE  Inv' /\ KeepsAgree
<1> DEFINE tab2 == [file_table EXCEPT ![h] = Unused]
           ss2 == WithoutStream(streams, file_table[h].stream)
<1>1. /\ TableOK(tab2, ss2)
      /\ CountsOK(file_table, streams) => CountsOK(tab2, ss2)
      /\ Owned(file_table, streams) => Owned(tab2, ss2)
  <2>1. TableOK(file_table, streams) /\ file_table[h] # Unused
    BY DEF Inv, Close, Used
  <2> QED BY <2>1, CloseKeeps
<1>2. file_table' = tab2 /\ streams' = ss2
  BY DEF Close
<1> HIDE DEF tab2, ss2
<1>3. TableOK(file_table, streams)' /\ KeepsAgree
  BY <1>1, <1>2 DEF KeepsAgree, Counted, Kept
<1>4. Types' /\ call' = Idle
  BY DEF Inv, Types, Close, Ready
<1> QED BY <1>3, <1>4, InvWhenIdle

(* Moving the stream of an entry in its file.                               *)
LEMMA StayKeeps ==
    ASSUME Inv, NEW h \in Handles, IsOpen(h),
           NEW e \in Entries(file_table[h].set), NEW at \in Nat,
           e.seq = file_table[h].seq, e.stream = file_table[h].stream,
           Stay(h, e, at)
    PROVE  /\ TableOK(file_table, streams)'
           /\ Counted /\ (at < Count(e.set, e.seq) => e.read[e.seq] = at) => Counted'
           /\ Kept => Kept'
           /\ \A g \in Handles \ {h} : file_table'[g] = file_table[g]
           /\ \A g \in Handles \ {h} : IsOpen(g) =>
                streams'[file_table[g].stream] = streams[file_table[g].stream]
           /\ file_table'[h] = e /\ IsOpen(h)'
           /\ streams'[e.stream] = Stream(file_table[h].set, e.seq, at)
<1> DEFINE d == file_table[h].set
           tab2 == [file_table EXCEPT ![h] = e]
           ss2 == [streams EXCEPT ![e.stream].at = at]
<1>1. d \in DataSets /\ e.set = d /\ e # Unused
  BY UsedFacts, EntryFields DEF IsOpen
<1>2. file_table[h] # Unused /\ file_table[h].stream # NoStream
  BY DEF IsOpen, Used
<1>3. /\ TableOK(tab2, ss2)
      /\ ss2[e.stream] = Stream(d, e.seq, at)
      /\ CountsOK(file_table, streams) /\ (at < Count(d, e.seq) => e.read[e.seq] = at)
           => CountsOK(tab2, ss2)
      /\ Owned(file_table, streams) => Owned(tab2, ss2)
  BY <1>1, <1>2, MoveKeeps DEF Inv
<1>4. file_table' = tab2 /\ streams' = ss2
  BY DEF Stay
<1>5. \A g \in Handles \ {h} : IsOpen(g) =>
        streams'[file_table[g].stream] = streams[file_table[g].stream]
  BY <1>2, <1>4 DEF Inv, TableOK, Apart, IsOpen, Used
<1>6. file_table'[h] = e /\ \A g \in Handles \ {h} : file_table'[g] = file_table[g]
  BY <1>4 DEF Inv, TableOK
<1> HIDE DEF tab2, ss2, d
<1>7. /\ TableOK(file_table, streams)'
      /\ Counted /\ (at < Count(d, e.seq) => e.read[e.seq] = at) => Counted'
      /\ Kept => Kept'
  BY <1>3, <1>4 DEF KeepsAgree, Counted, Kept
<1>8. IsOpen(h)'
  BY <1>1, <1>2, <1>6 DEF IsOpen, Used
<1> QED BY <1>1, <1>3, <1>4, <1>5, <1>6, <1>7, <1>8 DEF d

(* Going on after a read: in the file, or in the next one.                  *)
LEMMA ProceedKeeps ==
    ASSUME Inv, NEW h \in Handles, IsOpen(h),
           NEW e \in Entries(file_table[h].set), NEW at \in Nat, NEW status,
           e.seq = file_table[h].seq, e.stream = file_table[h].stream,
           Proceed(h, e, status, at)
    PROVE  /\ TableOK(file_table, streams)'
           /\ Counted /\ (at < Count(e.set, e.seq) => e.read[e.seq] = at) => Counted'
           /\ Kept => Kept'
<1> DEFINE d == file_table[h].set
<1>1. d \in DataSets /\ e.set = d /\ e.seq \in DOMAIN Files[d] /\ Used(h)
  BY UsedFacts, EntryFields DEF IsOpen
<1>2. CASE Stay(h, e, at)
  BY <1>2, StayKeeps
<1>3. CASE /\ e.seq # LastFile(e.set)
           /\ Reopen(h, Sought(e, e.seq + 1, 0), e.seq + 1, 0)
  <2> DEFINE x == Sought(e, e.seq + 1, 0)
  <2>1. e.seq + 1 \in DOMAIN Files[d]
    BY <1>1, <1>3, FilesAreNumbered DEF LastFile
  <2>2. x \in Entries(d) /\ x.stream = file_table[h].stream /\ x.seq = file_table[h].seq
    BY <1>1, <2>1 DEF Sought, Entries
  <2> HIDE DEF x, d
  <2>3. Reopen(h, x, e.seq + 1, 0)
    BY <1>3 DEF x
  <2> QED BY <1>1, <2>1, <2>2, <2>3, ReopenKeeps DEF KeepsAgree
<1> QED BY <1>2, <1>3 DEF Proceed

(* The three ways in which PGS_IO_L0_GetPacket reads: a packet, a footer,   *)
(* and nothing at the end of a file.                                        *)
LEMMA GetPacketStep ==
    ASSUME Inv, NEW h \in Handles, GetPacket(h)
    PROVE  Inv' /\ KeepsAgree
<1> DEFINE e == file_table[h]
           x == [e EXCEPT !.read[e.seq] = @ + 1]
           d == e.set
<1>1. IsOpen(h) /\ Used(h) /\ At(h) < Count(d, e.seq)
  BY DEF GetPacket, IsOpen
<1>2. /\ d \in DataSets /\ e \in Entries(d) /\ e.seq \in DOMAIN Files[d]
      /\ e.read \in [DOMAIN Files[d] -> Nat] /\ At(h) \in Nat /\ e.seq \in Nat
  BY <1>1, UsedFacts
<1>3. /\ x \in Entries(d) /\ x.seq = e.seq /\ x.stream = e.stream /\ x.set = d
      /\ x.read[e.seq] = e.read[e.seq] + 1
  BY <1>2 DEF Entries
<1>4. Proceed(h, x, Check(e), At(h) + 1)
  BY DEF GetPacket
<1>5. Counted => x.read[x.seq] = At(h) + 1
  BY <1>1, <1>3 DEF KeepsAgree, Counted, Kept, CountsOK, CountOK, IsOpen, Used, At
<1> HIDE DEF x
<1>6. TableOK(file_table, streams)' /\ KeepsAgree
  BY <1>1, <1>2, <1>3, <1>4, <1>5, ProceedKeeps DEF KeepsAgree
<1>7. call' = Idle /\ skipped' = skipped /\ fault' = fault
  BY DEF GetPacket, Ready
<1>8. returnStatus2' \in {"success", "zero", "toolkit"}
  BY <1>4 DEF Proceed, Check, VersionInfoCheck, Inv, Types
<1>9. given' \in DataSets \X Nat \X Nat \X BOOLEAN
  <2> DEFINE last == ~StaysInFile(x, Check(e), At(h) + 1) /\ e.seq = LastFile(d)
  <2>1. given' = <<d, e.seq, At(h) + 1, last>>
    BY DEF GetPacket, x
  <2>2. last \in BOOLEAN /\ At(h) + 1 \in Nat
    BY <1>2
  <2> HIDE DEF last
  <2> QED BY <2>1, <2>2, <1>2
<1>10. Types'
  BY <1>7, <1>8, <1>9 DEF Inv, Types
<1> QED BY <1>6, <1>7, <1>10, InvWhenIdle

LEMMA GetFooterStep ==
    ASSUME Inv, NEW h \in Handles, GetFooter(h)
    PROVE  Inv' /\ KeepsAgree
<1> DEFINE e == file_table[h]
           x == [e EXCEPT !.read[e.seq] = @ + 1]
           d == e.set
<1>1. IsOpen(h) /\ Used(h) /\ At(h) = Count(d, e.seq)
  BY DEF GetFooter, IsOpen
<1>2. /\ d \in DataSets /\ e \in Entries(d) /\ e.seq \in DOMAIN Files[d]
      /\ e.read \in [DOMAIN Files[d] -> Nat] /\ At(h) \in Nat /\ e.seq \in Nat
  BY <1>1, UsedFacts
<1>3. x \in Entries(d) /\ x.seq = e.seq /\ x.stream = e.stream /\ x.set = d
  BY <1>2 DEF Entries
<1>4. Proceed(h, x, Check(e), At(h) + 1)
  BY DEF GetFooter
<1> HIDE DEF x
<1>5. ~(At(h) + 1 < Count(x.set, x.seq))
  BY <1>1, <1>2, <1>3
<1>6. /\ TableOK(file_table, streams)' /\ (Kept => Kept')
      /\ Counted /\ (At(h) + 1 < Count(x.set, x.seq) => x.read[x.seq] = At(h) + 1) => Counted'
  BY <1>1, <1>2, <1>3, <1>4, ProceedKeeps
<1>7. call' = Idle /\ skipped' = skipped /\ fault' = fault
  BY DEF GetFooter, Ready
<1>8. returnStatus2' \in {"success", "zero", "toolkit"}
  BY <1>4 DEF Proceed, Check, VersionInfoCheck, Inv, Types
<1>9. given' \in DataSets \X Nat \X Nat \X BOOLEAN
  <2>1. given' = <<d, e.seq, At(h) + 1, TRUE>>
    BY DEF GetFooter
  <2>2. TRUE \in BOOLEAN /\ At(h) + 1 \in Nat
    BY <1>2
  <2> QED BY <2>1, <2>2, <1>2
<1>10. Types'
  BY <1>7, <1>8, <1>9 DEF Inv, Types
<1> QED BY <1>5, <1>6, <1>7, <1>10, InvWhenIdle DEF KeepsAgree

LEMMA GetPastEndStep ==
    ASSUME Inv, NEW h \in Handles, GetPastEnd(h)
    PROVE  Inv' /\ KeepsAgree
<1> DEFINE e == file_table[h]
           x == [e EXCEPT !.read[e.seq] = Claim(e.set, e.seq) + 1]
           d == e.set
           size == Count(d, e.seq) + (IF d \in Footed THEN 1 ELSE 0)
<1>1. IsOpen(h) /\ Used(h)
  BY DEF GetPastEnd, IsOpen
<1>2. /\ d \in DataSets /\ e \in Entries(d) /\ e.seq \in DOMAIN Files[d]
      /\ e.read \in [DOMAIN Files[d] -> Nat] /\ At(h) \in Nat
      /\ Claim(d, e.seq) \in Nat /\ Count(d, e.seq) \in Nat
  BY <1>1, UsedFacts, FileFacts
<1>3. x \in Entries(d) /\ x.seq = e.seq /\ x.stream = e.stream /\ x.set = d
  BY <1>2 DEF Entries
<1>4. Proceed(h, x, "toolkit", size) /\ size \in Nat
  BY <1>2 DEF GetPastEnd
<1>5. ~(size < Count(x.set, x.seq))
  BY <1>2, <1>3
<1> HIDE DEF x, size
<1>6. TableOK(file_table, streams)' /\ KeepsAgree
  BY <1>1, <1>2, <1>3, <1>4, <1>5, ProceedKeeps DEF KeepsAgree
<1>7. call' = Idle /\ skipped' = skipped /\ fault' = fault /\ given' = Nothing
  BY DEF GetPastEnd, Ready
<1>8. returnStatus2' = "toolkit"
  BY <1>4 DEF Proceed
<1>9. Types'
  BY <1>7, <1>8 DEF Inv, Types
<1> QED BY <1>6, <1>7, <1>9, InvWhenIdle

(* A null stream changes nothing but that it has been used.                 *)
LEMMA NullStreamStep ==
    ASSUME Inv, NEW h \in Handles, NullStream(h)
    PROVE  Inv' /\ KeepsAgree
<1>1. UNCHANGED <<file_table, streams>> /\ call' = Idle
  BY DEF NullStream
<1>2. TableOK(file_table, streams)' /\ KeepsAgree
  BY <1>1 DEF Inv, KeepsAgree, Counted, Kept
<1>3. Types'
  BY DEF NullStream, Inv, Types
<1> QED BY <1>1, <1>2, <1>3, InvWhenIdle

(* A header that cannot be read leaves the stream at its start; that is the *)
(* only step that breaks the agreement of the table and the streams.        *)
LEMMA GetHeaderStep ==
    ASSUME Inv, NEW h \in Handles, GetHeader(h)
    PROVE  /\ Inv' /\ (Kept => Kept')
           /\ (Single = {} \/ "fopen" \notin Faults) => KeepsAgree
<1>1. CASE NullStream(h)
  BY <1>1, NullStreamStep DEF KeepsAgree
<1>2. CASE IsOpen(h) /\ UNCHANGED <<file_table, streams, returnStatus2, call, skipped, fault>>
           /\ given' = Nothing
  <2>1. TableOK(file_table, streams)' /\ KeepsAgree /\ call' = Idle
    BY <1>2 DEF Inv, KeepsAgree, Counted, Kept, GetHeader, Ready
  <2>2. Types'
    BY <1>2 DEF Inv, Types
  <2> QED BY <2>1, <2>2, InvWhenIdle DEF KeepsAgree
<1>3. CASE /\ IsOpen(h) /\ "fopen" \in Faults /\ file_table[h].set \in Single
           /\ streams' = [streams EXCEPT ![file_table[h].stream].at = 0]
           /\ UNCHANGED <<file_table, returnStatus2, call, skipped, fault>>
           /\ given' = Nothing
  <2> DEFINE e == file_table[h]
  <2>1. e \in Entries(e.set) /\ Used(h)
    BY <1>3, UsedFacts DEF IsOpen
  <2>2. file_table = [file_table EXCEPT ![h] = e]
    BY DEF Inv, TableOK
  <2>3. Stay(h, e, 0)
    BY <1>3, <2>2 DEF Stay
  <2>4. TableOK(file_table, streams)' /\ (Kept => Kept')
    BY <1>3, <2>1, <2>3, StayKeeps
  <2>5. Types' /\ call' = Idle
    BY <1>3 DEF Inv, Types, GetHeader, Ready
  <2> QED BY <1>3, <2>4, <2>5, InvWhenIdle DEF KeepsAgree
<1> QED BY <1>1, <1>2, <1>3 DEF GetHeader

LEMMA RefusedStep ==
    ASSUME Inv, NEW h \in Handles, NEW t, Refused(h, t) \/ OpenFails
    PROVE  Inv' /\ KeepsAgree
<1>1. UNCHANGED <<file_table, streams, returnStatus2, call, skipped, fault>>
      /\ given' = Nothing /\ call = Idle
  BY DEF Refused, OpenFails, Ready
<1>2. TableOK(file_table, streams)' /\ KeepsAgree /\ Types'
  BY <1>1 DEF Inv, KeepsAgree, Counted, Kept, Types
<1> QED BY <1>1, <1>2, InvWhenIdle

(* Both tools that set a start time end by going to a file and a packet:    *)
(* the table and the streams stay in order, and the stream that is open     *)
(* after that is at the first packet at or after the time.                  *)
LEMMA GoToKeeps ==
    ASSUME Inv, NEW h \in Handles, Used(h), NEW t \in Nat,
           NEW f, TimeFound(file_table[h].set, t), f = FileAt(file_table[h].set, t),
           GoTo(h, f, t)
    PROVE  LET d == file_table[h].set
           IN  /\ TableOK(file_table, streams)'
               /\ KeepsAgree
               /\ \A g \in Handles \ {h} : file_table'[g] = file_table[g]
               /\ \A g \in Handles \ {h} : IsOpen(g) =>
                    streams'[file_table[g].stream] = streams[file_table[g].stream]
               /\ file_table'[h].set = d /\ Used(h)'
               /\ \/ /\ IsOpen(h)' /\ file_table'[h].seq = f
                     /\ streams'[file_table'[h].stream] = Stream(d, f, Before(d, f, t))
                  \/ /\ "fopen" \in Faults /\ ~IsOpen(h)'
                     /\ file_table'[h] = [file_table[h] EXCEPT !.stream = NoStream]
<1> DEFINE e == file_table[h]
           d == e.set
           at == Before(d, f, t)
<1>1. /\ d \in DataSets /\ e \in Entries(d) /\ e.seq \in DOMAIN Files[d]
      /\ e.read \in [DOMAIN Files[d] -> Nat]
  BY UsedFacts
<1>2. f \in DOMAIN Files[d] /\ at \in Nat
  BY <1>1, FileAtIs, BeforeIs
<1> HIDE DEF at
<1>3. CASE f # e.seq
  <2>1. Reopen(h, e, f, at)
    BY <1>3 DEF GoTo, at
  <2>2. file_table'[h] = [e EXCEPT !.stream = NoStream] => ~IsOpen(h)'
    BY <1>1 DEF IsOpen, Entries
  <2>4. e.stream = file_table[h].stream /\ e.seq = file_table[h].seq
    OBVIOUS
  <2> HIDE DEF d, e
  <2>3. /\ TableOK(file_table, streams)'
        /\ KeepsAgree
        /\ \A g \in Handles \ {h} : file_table'[g] = file_table[g]
        /\ \A g \in Handles \ {h} : IsOpen(g) =>
              streams'[file_table[g].stream] = streams[file_table[g].stream]
        /\ file_table'[h].set = d /\ Used(h)'
        /\ \/ /\ IsOpen(h)' /\ file_table'[h].seq = f
              /\ streams'[file_table'[h].stream] = Stream(d, f, at)
              /\ file_table'[h].read = [e.read EXCEPT ![f] = at]
           \/ "fopen" \in Faults /\ file_table'[h] = [e EXCEPT !.stream = NoStream]
    BY <1>1, <1>2, <2>1, <2>4, ReopenKeeps
  <2> QED BY <2>2, <2>3 DEF at, d, e
<1>4. CASE f = e.seq
  <2> DEFINE x == Sought(e, f, at)
  <2>1. IsOpen(h) /\ Stay(h, x, at)
    BY <1>4 DEF GoTo, at
  <2>2. /\ x \in Entries(d) /\ x.set = d /\ x.seq = f /\ x.stream = e.stream
        /\ x.read[x.seq] = at
    BY <1>1, <1>2, <1>4 DEF Entries, Sought
  <2> HIDE DEF x
  <2>3. /\ TableOK(file_table, streams)'
        /\ KeepsAgree
        /\ \A g \in Handles \ {h} : file_table'[g] = file_table[g]
        /\ \A g \in Handles \ {h} : IsOpen(g) =>
              streams'[file_table[g].stream] = streams[file_table[g].stream]
        /\ file_table'[h] = x /\ IsOpen(h)'
        /\ streams'[x.stream] = Stream(d, f, at)
    BY <1>2, <1>4, <2>1, <2>2, StayKeeps DEF KeepsAgree
  <2> QED BY <2>2, <2>3 DEF IsOpen, at
<1> QED BY <1>3, <1>4

LEMMA SetStartStep ==
    ASSUME Inv, NEW h \in Handles, NEW t \in StartTimes, SetStart(h, t)
    PROVE  Inv' /\ KeepsAgree
<1> DEFINE f == FileAt(file_table[h].set, t)
<1>1. Used(h) /\ TimeFound(file_table[h].set, t) /\ t \in Nat
  BY L0Assumption DEF SetStart
<1>2. CASE /\ GoTo(h, f, t) /\ given' = Nothing
           /\ UNCHANGED <<returnStatus2, call, skipped, fault>>
  <2>1. TableOK(file_table, streams)' /\ KeepsAgree
    BY <1>1, <1>2, GoToKeeps
  <2>2. Types' /\ call' = Idle
    BY <1>2 DEF Inv, Types, SetStart, Ready
  <2> QED BY <2>1, <2>2, InvWhenIdle
<1>3. CASE NullStream(h)
  BY <1>3, NullStreamStep
<1> QED BY <1>2, <1>3 DEF SetStart

(* The packets of one more file. *)
LEMMA OneMoreFile ==
    ASSUME NEW d \in DataSets, NEW a \in DOMAIN Files[d], NEW b \in DOMAIN Files[d], a <= b,
           IsFiniteSet(PacketsFrom(d, a, b))
    PROVE  /\ IsFiniteSet(PacketsFrom(d, a, b + 1))
           /\ Cardinality(PacketsFrom(d, a, b + 1))
                = Cardinality(PacketsFrom(d, a, b)) + Count(d, b)
<1> DEFINE A == PacketsFrom(d, a, b)
           B == PacketsOf(d, b)
<1>1. a \in Nat /\ b \in Nat /\ Count(d, b) \in Nat /\ DOMAIN Times(d, b) = 1..Count(d, b)
  <2>1. DOMAIN Files[d] = 1..Len(Files[d]) /\ Len(Files[d]) \in Nat
    BY FileFacts
  <2>2. a \in 1..Len(Files[d]) /\ b \in 1..Len(Files[d])
    BY <2>1
  <2>3. Count(d, b) \in Nat /\ DOMAIN Times(d, b) = 1..Count(d, b)
    BY FileFacts
  <2> QED BY <2>1, <2>2, <2>3
<1>2. IsFiniteSet(B) /\ Cardinality(B) = Count(d, b)
  <2>1. IsFiniteSet({b}) /\ Cardinality({b}) = 1
    BY FS_Singleton
  <2>2. IsFiniteSet(1..Count(d, b)) /\ Cardinality(1..Count(d, b)) = Count(d, b)
    BY <1>1, FS_Interval
  <2> DEFINE S == {b}
             T == 1..Count(d, b)
  <2>3. IsFiniteSet(S) /\ IsFiniteSet(T) /\ Cardinality(S) = 1 /\ Cardinality(T) = Count(d, b)
    BY <2>1, <2>2
  <2>4. PacketsOf(d, b) = S \X T
    BY <1>1 DEF PacketsOf
  <2> HIDE DEF S, T
  <2>5. IsFiniteSet(S \X T) /\ Cardinality(S \X T) = Cardinality(S) * Cardinality(T)
    BY <2>3, FS_Product
  <2>6. Cardinality(S \X T) = Count(d, b)
    BY <1>1, <2>3, <2>5
  <2> QED BY <2>4, <2>5, <2>6
<1>3. PacketsFrom(d, a, b + 1) = A \cup B
  <2>1. a..((b + 1) - 1) = (a..(b - 1)) \cup {b}
    BY <1>1
  <2> QED BY <2>1 DEF PacketsFrom
<1>4. A \cap B = {}
  <2>1. \A k \in a..(b - 1) : k # b
    BY <1>1
  <2> QED BY <2>1 DEF PacketsFrom, PacketsOf
<1> HIDE DEF A, B
<1>5. Cardinality(A) \in Nat /\ Cardinality(A \cap B) = 0
  BY <1>4, FS_CardinalityType, FS_EmptySet DEF A
<1>6. IsFiniteSet(A \cup B)
      /\ Cardinality(A \cup B) = Cardinality(A) + Cardinality(B) - Cardinality(A \cap B)
  BY <1>2, FS_Union DEF A
<1>7. Cardinality(A) + Cardinality(B) - Cardinality(A \cap B) = Cardinality(A) + Count(d, b)
  BY <1>1, <1>2, <1>5
<1> QED BY <1>3, <1>6, <1>7 DEF A

LEMMA SetStartCntPktsStep ==
    ASSUME Inv, NEW h \in Handles, NEW t \in StartTimes, SetStartCntPkts(h, t)
    PROVE  Inv' /\ KeepsAgree
<1> DEFINE e == file_table[h]
           d == e.set
           f == FileAt(d, t)
           c == [h |-> h, t |-> t, to |-> f, from |-> e.seq, skip |-> e.seq, n |-> 0]
<1>1. Used(h) /\ TimeFound(d, t) /\ t \in Nat
  BY L0Assumption DEF SetStartCntPkts
<1>2. d \in DataSets /\ e.seq \in DOMAIN Files[d] /\ e.seq \in Nat
  BY <1>1, UsedFacts
<1>3. f \in DOMAIN Files[d] /\ f \in Nat
  <2> HIDE DEF d
  <2>1. f \in DOMAIN Files[d]
    BY <1>1, <1>2, FileAtIs
  <2> QED BY <1>2, <2>1, FilesAreNumbered
<1>4. call' = c /\ skipped' = -1 /\ given' = Nothing
      /\ UNCHANGED <<file_table, streams, returnStatus2, fault>>
  BY DEF SetStartCntPkts
<1>5. TableOK(file_table, streams)' /\ KeepsAgree /\ Types'
  BY <1>4 DEF Inv, KeepsAgree, Counted, Kept, Types
<1>6. PacketsFrom(d, e.seq, e.seq) = {}
  <2>1. e.seq..(e.seq - 1) = {}
    BY <1>2
  <2> QED BY <2>1 DEF PacketsFrom
<1>7. IsFiniteSet({}) /\ Cardinality({}) = 0
  BY FS_EmptySet
<1>8. c \in Calls
  BY <1>2, <1>3 DEF Calls
<1>9. /\ c.h = h /\ c.t = t /\ c.to = f /\ c.from = e.seq /\ c.skip = e.seq /\ c.n = 0
  OBVIOUS
<1> HIDE DEF c
<1>10. Used(h)' /\ file_table' = file_table
  BY <1>1, <1>4 DEF Used
<1>11. CallOK'
  BY <1>1, <1>2, <1>4, <1>6, <1>7, <1>8, <1>9, <1>10 DEF CallOK
<1> QED BY <1>5, <1>11 DEF Inv

(* One turn of the loop.                                                    *)
LEMMA SkipFileStep ==
    ASSUME Inv, SkipFile
    PROVE  Inv' /\ (Counted => Counted')
<1> DEFINE h == call.h
           e == file_table[h]
           d == e.set
           k == call.skip
           n == Count(d, k)
<1>1. /\ call # Idle /\ k < call.to /\ call \in Calls /\ h \in Handles /\ Used(h)
      /\ call.t \in Nat
  BY L0Assumption DEF SkipFile, Inv, CallOK, Calls
<1>2. /\ d \in DataSets /\ e \in Entries(d) /\ e.seq \in DOMAIN Files[d]
      /\ e.read \in [DOMAIN Files[d] -> Nat]
  BY <1>1, UsedFacts
<1>3. /\ TimeFound(d, call.t) /\ call.to = FileAt(d, call.t)
      /\ call.from \in DOMAIN Files[d] /\ call.from <= k
      /\ IsFiniteSet(PacketsFrom(d, call.from, k))
      /\ call.n = Cardinality(PacketsFrom(d, call.from, k))
      /\ skipped = -1
  BY <1>1 DEF Inv, CallOK
<1>4. call.to \in DOMAIN Files[d]
  BY <1>1, <1>2, <1>3, FileAtIs
<1>5. k \in DOMAIN Files[d] /\ k \in Nat /\ call.from \in Nat /\ call.to \in Nat
  <2>1. DOMAIN Files[d] = 1..Len(Files[d]) /\ Len(Files[d]) \in Nat
    BY <1>2, FileFacts
  <2>2. call.from \in 1..Len(Files[d]) /\ call.to \in 1..Len(Files[d]) /\ k \in Nat
    BY <1>1, <1>3, <1>4, <2>1 DEF Calls
  <2> QED BY <2>1, <2>2, <1>1, <1>3
<1>6. n \in Nat \ {0}
  BY <1>2, <1>5, FileFacts
<1>7. CASE "fopen" \in Faults /\ call' = Idle /\ UNCHANGED <<file_table, streams>>
           /\ UNCHANGED <<returnStatus2, given, skipped, fault>>
  <2>1. TableOK(file_table, streams)' /\ (Counted => Counted') /\ Types'
    BY <1>7 DEF Inv, Counted, Types
  <2> QED BY <1>7, <2>1, InvWhenIdle
<1>8. CASE /\ file_table' = [file_table EXCEPT ![h] =
                  [Sought(e, k, n - 1) EXCEPT !.seq = k, !.stream = NewStream(streams)]]
           /\ streams' = WithStream(streams, d, k, n - 1)
           /\ call' = [call EXCEPT !.skip = @ + 1, !.n = @ + n]
           /\ UNCHANGED <<returnStatus2, given, skipped, fault>>
  <2> DEFINE x == [Sought(e, k, n - 1) EXCEPT !.seq = k, !.stream = NewStream(streams)]
             tab2 == [file_table EXCEPT ![h] = x]
             ss2 == WithStream(streams, d, k, n - 1)
  <2>1. NewStream(streams) \in Nat \ {0}
    BY NewStreamIsNew DEF Inv, TableOK
  <2>2. /\ x \in Entries(d) /\ x.seq = k /\ x.stream = NewStream(streams) /\ x.set = d
        /\ x.read[k] = n - 1 /\ n - 1 \in Nat
    <3> DEFINE y == Sought(e, k, n - 1)
    <3>1. n - 1 \in Nat
      BY <1>6
    <3> HIDE DEF n
    <3>2. y \in Entries(d) /\ y.set = d /\ y.read[k] = n - 1
      BY <1>2, <1>5, <3>1 DEF Entries, Sought
    <3> HIDE DEF y
    <3>3. x = [y EXCEPT !.seq = k, !.stream = NewStream(streams)]
      BY DEF y, n
    <3> QED BY <3>1, <3>2, <3>3, <1>5, <2>1 DEF Entries
  <2> HIDE DEF x
  <2>3. TableOK(tab2, ss2) /\ (CountsOK(file_table, streams) => CountsOK(tab2, ss2))
    BY <1>1, <1>2, <1>5, <2>2, OpenKeeps DEF Inv
  <2>4. file_table' = tab2 /\ streams' = ss2
    BY <1>8 DEF x
  <2>5. file_table'[h] = x
    BY <2>4, <1>1 DEF Inv, TableOK
  <2> HIDE DEF tab2, ss2
  <2>6. TableOK(file_table, streams)' /\ (Counted => Counted') /\ Types'
    BY <1>8, <2>3, <2>4 DEF Inv, Counted, Types
  <2>7. /\ call' \in Calls /\ call'.h = h /\ call'.t = call.t /\ call'.to = call.to
        /\ call'.from = call.from /\ call'.skip = k + 1 /\ call'.n = call.n + n
    <3>1. call' = [call EXCEPT !.skip = k + 1, !.n = call.n + n] /\ call.n \in Nat
      BY <1>1, <1>8 DEF Calls
    <3> HIDE DEF n
    <3>2. call.n + n \in Nat /\ k + 1 \in Nat
      BY <1>5, <1>6, <3>1
    <3> HIDE DEF h, k
    <3> QED BY <1>1, <3>1, <3>2 DEF Calls, h, k
  <2>8. /\ IsFiniteSet(PacketsFrom(d, call.from, k + 1))
        /\ call'.n = Cardinality(PacketsFrom(d, call.from, k + 1))
    BY <1>2, <1>3, <1>5, <2>7, OneMoreFile
  <2>9. file_table'[h] # Unused
    BY <2>2, <2>5, <1>2, EntryFields
  <2>10. skipped' = -1
    BY <1>3, <1>8
  <2>11. CallOK'
    BY <1>1, <1>3, <1>5, <2>2, <2>5, <2>7, <2>8, <2>9, <2>10 DEF CallOK, Used
  <2> QED BY <2>6, <2>11 DEF Inv
<1> QED BY <1>7, <1>8 DEF SkipFile

LEMMA CountEndsStep ==
    ASSUME Inv, CountEnds
    PROVE  Inv' /\ KeepsAgree
<1> DEFINE h == call.h
           d == file_table[h].set
<1>1. /\ call # Idle /\ call \in Calls /\ h \in Handles /\ Used(h) /\ call.t \in Nat
      /\ TimeFound(d, call.t) /\ call.to = FileAt(d, call.t) /\ call.n \in Nat
  BY L0Assumption DEF CountEnds, Inv, CallOK, Calls
<1>2. CASE NullStream(h)
  BY <1>1, <1>2, NullStreamStep
<1>3. CASE /\ GoTo(h, call.to, call.t)
           /\ skipped' = IF file_table'[h].stream = NoStream THEN -1
                         ELSE TotalSkip(call.n, Before(d, call.to, call.t))
           /\ call' = Idle
           /\ UNCHANGED <<returnStatus2, given, fault>>
  <2>1. TableOK(file_table, streams)' /\ KeepsAgree
    BY <1>1, <1>3, GoToKeeps
  <2>2. Before(d, call.to, call.t) \in Nat
    BY <1>1, UsedFacts, FileAtIs, BeforeIs
  <2>3. skipped' \in Int
    BY <1>1, <1>3, <2>2 DEF TotalSkip
  <2>4. Types'
    BY <1>3, <2>3 DEF Inv, Types
  <2> QED BY <1>3, <2>1, <2>4, InvWhenIdle
<1> QED BY <1>2, <1>3 DEF CountEnds

(* Every step keeps the invariant; what it keeps of the agreement of table  *)
(* and streams depends on the header files that fail and on the streams     *)
(* that PGS_IO_L0_SetStartCntPkts and an open without room leave behind.    *)
HeadersOpen == Single = {} \/ "fopen" \notin Faults
AllClosed == Ops \cap {"count", "excess"} = {}

LEMMA NextKeeps ==
    ASSUME Inv, Next
    PROVE  /\ Inv'
           /\ HeadersOpen => (Counted => Counted')
           /\ AllClosed /\ call = Idle => (Kept => Kept') /\ call' = Idle
<1> DEFINE Goal == /\ Inv'
                   /\ HeadersOpen => (Counted => Counted')
                   /\ AllClosed /\ call = Idle => (Kept => Kept') /\ call' = Idle
<1>1. ASSUME NEW d \in DataSets, Open(d) PROVE Goal
  BY <1>1, OpenStep DEF KeepsAgree, Open
<1>2. ASSUME NEW d \in DataSets, OpenExcess(d) PROVE Goal
  BY <1>2, ExcessStep DEF AllClosed, OpenExcess
<1>3. ASSUME OpenFails PROVE Goal
  <2>1. 0 \in Handles
    BY L0Assumption DEF Handles
  <2> QED BY <1>3, <2>1, RefusedStep DEF KeepsAgree, OpenFails
<1>4. ASSUME NEW h \in Handles, Close(h) PROVE Goal
  BY <1>4, CloseStep DEF KeepsAgree, Close
<1>5. ASSUME NEW h \in Handles, GetPacket(h) PROVE Goal
  BY <1>5, GetPacketStep DEF KeepsAgree, GetPacket
<1>6. ASSUME NEW h \in Handles, GetFooter(h) PROVE Goal
  BY <1>6, GetFooterStep DEF KeepsAgree, GetFooter
<1>7. ASSUME NEW h \in Handles, GetPastEnd(h) PROVE Goal
  BY <1>7, GetPastEndStep DEF KeepsAgree, GetPastEnd
<1>8. ASSUME NEW h \in Handles, GetHeader(h) PROVE Goal
  BY <1>8, GetHeaderStep DEF KeepsAgree, GetHeader, NullStream, HeadersOpen
<1>9. ASSUME NEW h \in Handles, NEW t \in StartTimes, Refused(h, t) PROVE Goal
  BY <1>9, RefusedStep DEF KeepsAgree, Refused
<1>10. ASSUME NEW h \in Handles, NEW t \in StartTimes, SetStart(h, t) PROVE Goal
  BY <1>10, SetStartStep DEF KeepsAgree, SetStart, NullStream
<1>11. ASSUME NEW h \in Handles, NEW t \in StartTimes, SetStartCntPkts(h, t) PROVE Goal
  BY <1>11, SetStartCntPktsStep DEF KeepsAgree, AllClosed, SetStartCntPkts
<1>12. ASSUME SkipFile PROVE Goal
  BY <1>12, SkipFileStep DEF SkipFile
<1>13. ASSUME CountEnds PROVE Goal
  BY <1>13, CountEndsStep DEF KeepsAgree, CountEnds
<1> HIDE DEF Goal
<1>14. ASSUME NEW h \in Handles,
              \/ Close(h)
              \/ GetPacket(h) \/ GetFooter(h) \/ GetPastEnd(h)
              \/ GetHeader(h)
              \/ \E t \in StartTimes : Refused(h, t) \/ SetStart(h, t) \/ SetStartCntPkts(h, t)
       PROVE  Goal
  BY <1>14, <1>4, <1>5, <1>6, <1>7, <1>8, <1>9, <1>10, <1>11
<1>15. Goal
  BY <1>1, <1>2, <1>3, <1>12, <1>13, <1>14 DEF Next
<1> QED BY <1>15 DEF Goal

LEMMA Stutters ==
    ASSUME UNCHANGED vars
    PROVE  (Inv => Inv') /\ (Counted => Counted') /\ (Kept => Kept') /\ call' = call
BY DEF vars, Inv, Counted, Kept, TableOK, Types, CallOK, Used

\* The invariant holds in every state.
LEMMA AlwaysInv == Spec => []Inv
<1>1. Init => Inv
  BY InitHolds
<1>2. Inv /\ [Next]_vars => Inv'
  BY NextKeeps, Stutters
<1> QED BY <1>1, <1>2, PTL DEF Spec

(* TypeOK: whatever data sets, handles, calls and failing opens there are,  *)
(* the table, the streams and the progress of PGS_IO_L0_SetStartCntPkts are *)
(* of the declared kinds.                                                   *)
THEOREM TypeCorrect == Spec => []TypeOK
BY AlwaysInv, InvTypes, PTL

(* PositionsAgree: the file and the packets read that the table has of a    *)
(* data set are those of its stream, in whatever order data sets are read,  *)
(* moved, counted and closed and whatever opens fail, but for that of a     *)
(* header in a file of its own.                                             *)
THEOREM PositionsCorrect == HeadersOpen => (Spec => []PositionsAgree)
<1> SUFFICES ASSUME HeadersOpen PROVE Spec => []PositionsAgree
  OBVIOUS
<1>1. Init => Inv /\ Counted
  BY InitHolds
<1>2. Inv /\ Counted /\ [Next]_vars => Inv' /\ Counted'
  BY NextKeeps, Stutters
<1>3. Inv /\ Counted => PositionsAgree
  <2> SUFFICES ASSUME Inv, Counted, NEW h \in Handles, IsOpen(h)
               PROVE  LET e == file_table[h]
                          s == streams[e.stream]
                      IN  /\ e.stream \in DOMAIN streams
                          /\ s.set = e.set /\ s.file = e.seq
                          /\ s.at < Count(e.set, e.seq) => e.read[e.seq] = s.at
    BY DEF PositionsAgree
  <2>1. EntryOK(file_table[h], streams) /\ CountOK(file_table[h], streams)
    BY DEF Inv, TableOK, Counted, CountsOK, IsOpen, Used
  <2> QED BY <2>1 DEF EntryOK, CountOK, IsOpen
<1> QED BY <1>1, <1>2, <1>3, PTL DEF Spec

(* StreamsOwned: where no stream is left by PGS_IO_L0_SetStartCntPkts or by *)
(* an open that finds no room, each stream is that of one data set that is  *)
(* open, whatever opens fail.                                               *)
THEOREM OwnedCorrect == AllClosed => (Spec => []StreamsOwned)
<1> SUFFICES ASSUME AllClosed PROVE Spec => []StreamsOwned
  OBVIOUS
<1> DEFINE Quiet == Inv /\ Kept /\ call = Idle
<1>1. Init => Quiet
  BY InitHolds DEF Init
<1>2. Quiet /\ [Next]_vars => Quiet'
  BY NextKeeps, Stutters
<1>3. Quiet => StreamsOwned
  <2> SUFFICES ASSUME Inv, Kept, NEW s \in DOMAIN streams
               PROVE  \E h \in Handles :
                        /\ Used(h) /\ file_table[h].stream = s
                        /\ \A g \in Handles \ {h} : Used(g) => file_table[g].stream # s
    BY DEF StreamsOwned
  <2>1. PICK h \in Handles : file_table[h] # Unused /\ file_table[h].stream = s
    BY DEF Kept, Owned
  <2>2. s # NoStream
    BY DEF Inv, TableOK, StreamsOK, NoStream
  <2> QED BY <2>1, <2>2 DEF Inv, TableOK, Apart, Used
<1> HIDE DEF Quiet
<1> QED BY <1>1, <1>2, <1>3, PTL DEF Spec

(* StreamsAgree, which says both. *)
THEOREM StreamsCorrect == HeadersOpen /\ AllClosed => (Spec => []StreamsAgree)
<1>1. PositionsAgree /\ StreamsOwned => StreamsAgree
  BY DEF StreamsAgree
<1>2. SUFFICES ASSUME HeadersOpen, AllClosed PROVE Spec => []StreamsAgree
  OBVIOUS
<1> QED BY <1>1, <1>2, PositionsCorrect, OwnedCorrect, PTL

----------------------------------------------------------------------------
(* The number of packets that PGS_IO_L0_SetStartCntPkts answers with        *)

(* The packets of a file that are before a time. *)
SkipsOf(d, f, t) == {<<f, i>> : i \in {j \in DOMAIN Times(d, f) : Times(d, f)[j] < t}}

(* In the file of the time they are those that SeekPacket skips, in the     *)
(* files before it all there are.                                           *)
LEMMA SkipsInFile ==
    ASSUME NEW d \in DataSets, NEW t \in Nat, TimeFound(d, t)
    PROVE  LET f == FileAt(d, t)
           IN  /\ IsFiniteSet(SkipsOf(d, f, t))
               /\ Cardinality(SkipsOf(d, f, t)) = Before(d, f, t)
<1> DEFINE f == FileAt(d, t)
           n == Before(d, f, t)
<1>1. f \in DOMAIN Files[d] /\ t <= Times(d, f)[Count(d, f)]
  BY FileAtIs
<1>2. /\ n \in Nat /\ n < Count(d, f)
      /\ \A i \in 1..Count(d, f) : i <= n <=> Times(d, f)[i] < t
  BY <1>1, BeforeIs
<1>3. DOMAIN Times(d, f) = 1..Count(d, f) /\ Count(d, f) \in Nat
  BY <1>1, FileFacts
<1> HIDE DEF f, n
<1>4. {j \in DOMAIN Times(d, f) : Times(d, f)[j] < t} = 1..n
  BY <1>2, <1>3
<1>5. SkipsOf(d, f, t) = {f} \X (1..n)
  BY <1>4 DEF SkipsOf
<1>6. IsFiniteSet({f}) /\ Cardinality({f}) = 1
  BY FS_Singleton
<1>7. IsFiniteSet(1..n) /\ Cardinality(1..n) = n
  BY <1>2, FS_Interval
<1>8. /\ IsFiniteSet({f} \X (1..n))
      /\ Cardinality({f} \X (1..n)) = Cardinality({f}) * Cardinality(1..n)
  BY <1>6, <1>7, FS_Product
<1> QED BY <1>2, <1>5, <1>6, <1>7, <1>8 DEF f, n

\* The packets passed over, file by file.
LEMMA SkipsBefore ==
    ASSUME NEW d \in DataSets, NEW t \in Nat, TimeFound(d, t),
           NEW f \in DOMAIN Files[d], f < FileAt(d, t)
    PROVE  SkipsOf(d, f, t) = PacketsOf(d, f)
<1> DEFINE n == Count(d, f)
           T == Times(d, f)
<1>1. T[n] < t
  BY FileAtIs
<1>2. /\ n \in Nat \ {0} /\ DOMAIN T = 1..n /\ \A i \in 1..n : T[i] \in Nat
      /\ Increasing(T)
  BY OneFile
<1> HIDE DEF n, T
<1>3. ASSUME NEW i \in 1..n PROVE T[i] <= T[n]
  <2>1. CASE i = n
    BY <1>2, <2>1
  <2>2. CASE i < n
    <3>1. i \in DOMAIN T /\ n \in DOMAIN T
      BY <1>2
    <3>2. T[i] < T[n]
      BY <1>2, <2>2, <3>1 DEF Increasing
    <3> QED BY <1>2, <3>2
  <2> QED BY <1>2, <2>1, <2>2
<1>4. {j \in DOMAIN T : T[j] < t} = DOMAIN T
  BY <1>1, <1>2, <1>3
<1> QED BY <1>4 DEF SkipsOf, PacketsOf, T

LEMMA SkipsFrom ==
    ASSUME NEW d \in DataSets, NEW t \in Nat, TimeFound(d, t),
           NEW a \in DOMAIN Files[d], a <= FileAt(d, t),
           IsFiniteSet(PacketsFrom(d, a, FileAt(d, t)))
    PROVE  Cardinality(UNION {SkipsOf(d, f, t) : f \in a..FileAt(d, t)})
             = Cardinality(PacketsFrom(d, a, FileAt(d, t))) + Before(d, FileAt(d, t), t)
<1> DEFINE to == FileAt(d, t)
           A == PacketsFrom(d, a, to)
           B == SkipsOf(d, to, t)
<1>0. DOMAIN Files[d] = 1..Len(Files[d]) /\ Len(Files[d]) \in Nat
  BY FileFacts
<1>1. to \in DOMAIN Files[d]
  BY FileAtIs
<1>2. a \in 1..Len(Files[d]) /\ to \in 1..Len(Files[d]) /\ a <= to
  BY <1>0, <1>1
<1>3. IsFiniteSet(B) /\ Cardinality(B) = Before(d, to, t)
  BY SkipsInFile
<1>4. \A f \in a..(to - 1) : SkipsOf(d, f, t) = PacketsOf(d, f)
  <2> SUFFICES ASSUME NEW f \in a..(to - 1) PROVE SkipsOf(d, f, t) = PacketsOf(d, f)
    OBVIOUS
  <2>1. f \in DOMAIN Files[d] /\ f < to
    BY <1>0, <1>2
  <2> QED BY <2>1, SkipsBefore
<1>5. IsFiniteSet(A)
  OBVIOUS
<1> HIDE DEF to
<1>6. UNION {SkipsOf(d, f, t) : f \in a..to} = A \cup B
  <2>1. a..to = (a..(to - 1)) \cup {to}
    BY <1>2
  <2> QED BY <2>1, <1>4 DEF PacketsFrom
<1>7. A \cap B = {}
  <2>1. \A k \in a..(to - 1) : k # to
    BY <1>2
  <2> QED BY <2>1 DEF PacketsFrom, PacketsOf, SkipsOf
<1> HIDE DEF A, B
<1>8. Cardinality(A) \in Nat /\ Cardinality(B) \in Nat /\ Cardinality(A \cap B) = 0
  BY <1>3, <1>5, <1>7, FS_CardinalityType, FS_EmptySet
<1>9. Cardinality(A \cup B) = Cardinality(A) + Cardinality(B) - Cardinality(A \cap B)
  BY <1>3, <1>5, FS_Union
<1>10. Cardinality(A \cup B) = Cardinality(A) + Cardinality(B)
  BY <1>8, <1>9
<1> QED BY <1>3, <1>6, <1>10 DEF to, A

LEMMA MinOfTwo ==
    ASSUME NEW a \in Nat, NEW b \in Nat
    PROVE  Min({a, b}) = IF a <= b THEN a ELSE b
<1>1. Min({a, b}) \in {a, b} /\ \A x \in {a, b} : Min({a, b}) <= x
  BY MinIsLeast
<1> QED BY <1>1

LEMMA GoToArrives ==
    ASSUME Inv, NEW h \in Handles, Used(h), NEW t \in Nat,
           NEW f, TimeFound(file_table[h].set, t), f = FileAt(file_table[h].set, t),
           GoTo(h, f, t), file_table'[h].stream # NoStream
    PROVE  streams'[file_table'[h].stream]
             = Stream(file_table[h].set, f, Before(file_table[h].set, f, t))
<1>1. ~IsOpen(h)' /\ Used(h)' => file_table'[h].stream = NoStream
  BY DEF IsOpen
<1> QED BY <1>1, GoToKeeps

(* What the step that ends the call does, for any call under way.           *)
LEMMA CountEndsCounts ==
    ASSUME Inv, CountEnds, skipped' >= 0
    PROVE  LET d == file_table[call.h].set
               s == streams'[file_table'[call.h].stream]
           IN  /\ skipped' = Cardinality(UNION {SkipsOf(d, f, call.t) :
                                                  f \in Min({call.from, call.to})..call.to})
               /\ s.file = call.to /\ s.at = Cardinality(SkipsOf(d, call.to, call.t))
<1> DEFINE h == call.h
           d == file_table[h].set
           to == call.to
           n == Before(d, to, call.t)
<1>1. /\ call \in Calls /\ h \in Handles /\ Used(h) /\ call.t \in Nat
      /\ TimeFound(d, call.t) /\ to = FileAt(d, call.t) /\ call.n \in Nat
      /\ call.from \in DOMAIN Files[d] /\ call.from \in Nat /\ call.skip \in Nat /\ to \in Nat
      /\ call.from <= call.skip /\ (call.from < call.skip => call.skip <= to)
      /\ call.skip >= to
      /\ IsFiniteSet(PacketsFrom(d, call.from, call.skip))
      /\ call.n = Cardinality(PacketsFrom(d, call.from, call.skip))
      /\ skipped = -1
  BY L0Assumption DEF CountEnds, Inv, CallOK, Calls
<1>2. d \in DataSets
  BY <1>1, UsedFacts
<1>3. /\ GoTo(h, to, call.t)
      /\ skipped' = IF file_table'[h].stream = NoStream THEN -1 ELSE TotalSkip(call.n, n)
  BY <1>1 DEF CountEnds, NullStream
<1>4. file_table'[h].stream # NoStream /\ skipped' = TotalSkip(call.n, n)
  BY <1>3
<1>5. n \in Nat
  BY <1>1, <1>2, FileAtIs, BeforeIs
<1>6. skipped' = call.n + n
  BY <1>1, <1>4, <1>5 DEF TotalSkip
<1>7. streams'[file_table'[h].stream] = Stream(d, to, n)
  BY <1>1, <1>3, <1>4, GoToArrives
<1>8. Cardinality(SkipsOf(d, to, call.t)) = n
  BY <1>1, <1>2, SkipsInFile
<1>9. /\ streams'[file_table'[h].stream].file = to
      /\ streams'[file_table'[h].stream].at = Cardinality(SkipsOf(d, to, call.t))
  BY <1>7, <1>8 DEF Stream
<1>10. CASE call.from <= to
  <2>1. call.skip = to /\ Min({call.from, to}) = call.from
    BY <1>1, <1>10, MinOfTwo
  <2>2. Cardinality(UNION {SkipsOf(d, f, call.t) : f \in call.from..to}) = call.n + n
    <3> HIDE DEF d
    <3>1. /\ TimeFound(d, call.t) /\ call.from \in DOMAIN Files[d]
          /\ call.from <= FileAt(d, call.t)
          /\ IsFiniteSet(PacketsFrom(d, call.from, FileAt(d, call.t)))
      BY <1>1, <1>10, <2>1
    <3>2. Cardinality(UNION {SkipsOf(d, f, call.t) : f \in call.from..FileAt(d, call.t)})
            = Cardinality(PacketsFrom(d, call.from, FileAt(d, call.t)))
                + Before(d, FileAt(d, call.t), call.t)
      BY <1>1, <1>2, <3>1, SkipsFrom
    <3> QED BY <1>1, <2>1, <3>2 DEF n, to
  <2> QED BY <1>6, <1>9, <2>1, <2>2
<1>11. CASE ~(call.from <= to)
  <2>1. call.skip = call.from /\ Min({call.from, to}) = to
    BY <1>1, <1>11, MinOfTwo
  <2>2. call.from..(call.from - 1) = {} /\ to..to = {to}
    BY <1>1
  <2>3. PacketsFrom(d, call.from, call.from) = {}
    BY <2>2 DEF PacketsFrom
  <2>4. call.n = 0
    BY <1>1, <2>1, <2>3, FS_EmptySet
  <2>5. UNION {SkipsOf(d, f, call.t) : f \in to..to} = SkipsOf(d, to, call.t)
    BY <2>2
  <2>6. skipped' = n
    BY <1>5, <1>6, <2>4
  <2> QED BY <1>8, <1>9, <2>1, <2>5, <2>6
<1> QED BY <1>10, <1>11

(* CountsSkipped: the answer is the number of packets passed over, from the *)
(* file that was open to the one of the time, be that one a later file, the *)
(* same or an earlier one, and the stream is at the packet that follows.    *)
THEOREM CountCorrect == Spec => CountsSkipped
<1> DEFINE Goal == call # Idle /\ skipped' >= 0 =>
             LET d == file_table[call.h].set
                 skips(f) == {<<f, i>> : i \in {j \in DOMAIN Times(d, f) : Times(d, f)[j] < call.t}}
                 s == streams'[file_table'[call.h].stream]
             IN  /\ skipped' = Cardinality(UNION {skips(f) : f \in Min({call.from, call.to})..call.to})
                 /\ s.file = call.to /\ s.at = Cardinality(skips(call.to))
<1>1. Inv /\ [Next]_vars => [Goal]_vars
  <2> SUFFICES ASSUME Inv, Next, call # Idle, skipped' >= 0 PROVE Goal
    OBVIOUS
  <2>1. SkipFile \/ CountEnds
    BY DEF Next, Open, OpenExcess, OpenFails, Close, GetPacket, GetFooter, GetPastEnd,
           GetHeader, Refused, SetStart, SetStartCntPkts, Ready
  <2>2. ~SkipFile
    BY DEF SkipFile, Inv, CallOK
  <2> QED BY <2>1, <2>2, CountEndsCounts DEF SkipsOf
<1>2. Spec => [][Goal]_vars
  BY <1>1, AlwaysInv, PTL DEF Spec
<1> QED BY <1>2, PTL DEF CountsSkipped

----------------------------------------------------------------------------
(* A virtual data set reads as one sequence of packets                      *)

(* The packets of a file are before those of the files after it.            *)
LEMMA InOrder ==
    ASSUME NEW d \in DataSets, NEW f \in DOMAIN Files[d], NEW g \in DOMAIN Files[d],
           NEW i \in DOMAIN Times(d, f), NEW j \in DOMAIN Times(d, g)
    PROVE  /\ Times(d, f)[i] \in Nat /\ i \in Nat /\ f \in Nat
           /\ f < g => Times(d, f)[i] < Times(d, g)[j]
           /\ f = g /\ i < j => Times(d, f)[i] < Times(d, g)[j]
<1>1. f < g => Times(d, f)[i] < Times(d, g)[j]
  BY L0Assumption DEF Times
<1>2. f = g /\ i < j => Times(d, f)[i] < Times(d, g)[j]
  BY FileFacts DEF Increasing
<1>3. Times(d, f)[i] \in Nat /\ i \in Nat
  <2>1. i \in 1..Count(d, f) /\ \A k \in 1..Count(d, f) : Times(d, f)[k] \in Nat
    BY FileFacts
  <2> QED BY <2>1
<1>4. f \in Nat
  <2>1. f \in 1..Len(Files[d])
    BY FileFacts
  <2> QED BY <2>1
<1> QED BY <1>1, <1>2, <1>3, <1>4

\* The first n packets of a file, and one more.
LEMMA FirstOfFacts ==
    ASSUME NEW d \in DataSets, NEW f \in DOMAIN Files[d]
    PROVE  /\ FirstOf(d, f, 0) = {}
           /\ \A n \in Nat : n >= Count(d, f) => FirstOf(d, f, n) = FirstOf(d, f, Count(d, f))
           /\ \A n \in Nat : n < Count(d, f) =>
                /\ n + 1 \in DOMAIN Times(d, f)
                /\ FirstOf(d, f, n + 1) = FirstOf(d, f, n) \cup {Times(d, f)[n + 1]}
<1> DEFINE c == Count(d, f)
           D == DOMAIN Times(d, f)
<1>1. c \in Nat /\ D = 1..c
  BY FileFacts
<1> HIDE DEF c, D
<1>2. {j \in D : j <= 0} = {}
  BY <1>1
<1>3. \A n \in Nat : n >= c => {j \in D : j <= n} = {j \in D : j <= c}
  BY <1>1
<1>4. \A n \in Nat : n < c => n + 1 \in D /\ {j \in D : j <= n + 1} = {j \in D : j <= n} \cup {n + 1}
  BY <1>1
<1>5. FirstOf(d, f, 0) = {}
  BY <1>2 DEF FirstOf, D
<1>6. \A n \in Nat : n >= c => FirstOf(d, f, n) = FirstOf(d, f, c)
  BY <1>3 DEF FirstOf, D
<1>7. ASSUME NEW n \in Nat, n < c
      PROVE  n + 1 \in D /\ FirstOf(d, f, n + 1) = FirstOf(d, f, n) \cup {Times(d, f)[n + 1]}
  <2>1. n + 1 \in D /\ {j \in D : j <= n + 1} = {j \in D : j <= n} \cup {n + 1}
    BY <1>4, <1>7
  <2>2. FirstOf(d, f, n + 1) = {Times(d, f)[i] : i \in {j \in D : j <= n} \cup {n + 1}}
    BY <2>1 DEF FirstOf, D
  <2>3. FirstOf(d, f, n) = {Times(d, f)[i] : i \in {j \in D : j <= n}}
    BY DEF FirstOf, D
  <2> QED BY <2>1, <2>2, <2>3
<1> QED BY <1>5, <1>6, <1>7 DEF c, D

LEMMA EarlierFacts ==
    ASSUME NEW d \in DataSets
    PROVE  /\ Earlier(d, 1) = {}
           /\ \A f \in DOMAIN Files[d] :
                Earlier(d, f + 1) = Earlier(d, f) \cup FirstOf(d, f, Count(d, f))
<1> DEFINE D == DOMAIN Files[d]
<1>1. D = 1..Len(Files[d]) /\ Len(Files[d]) \in Nat
  BY FileFacts
<1>2. {k \in D : k < 1} = {}
  BY <1>1
<1>3. Earlier(d, 1) = {}
  BY <1>2 DEF Earlier
<1>4. ASSUME NEW f \in D
      PROVE  Earlier(d, f + 1) = Earlier(d, f) \cup FirstOf(d, f, Count(d, f))
  <2>1. {k \in D : k < f + 1} = {k \in D : k < f} \cup {f}
    BY <1>1
  <2> HIDE DEF D
  <2>2. Earlier(d, f + 1)
          = UNION {FirstOf(d, g, Count(d, g)) : g \in {k \in D : k < f} \cup {f}}
    BY <2>1 DEF Earlier, D
  <2>3. Earlier(d, f) = UNION {FirstOf(d, g, Count(d, g)) : g \in {k \in D : k < f}}
    BY DEF Earlier, D
  <2> QED BY <2>2, <2>3
<1> QED BY <1>3, <1>4

(* What is passed at a position, and what is in the data set, packet by     *)
(* packet.                                                                  *)
LEMMA PassedAt ==
    ASSUME NEW d \in DataSets, NEW f \in DOMAIN Files[d], NEW n \in Nat
    PROVE  \A q : q \in Earlier(d, f) \cup FirstOf(d, f, n) <=>
             \E g \in DOMAIN Files[d] : \E j \in DOMAIN Times(d, g) :
               q = Times(d, g)[j] /\ (g < f \/ (g = f /\ j <= n))
<1>1. \A q : q \in FirstOf(d, f, n) <=>
        \E j \in DOMAIN Times(d, f) : j <= n /\ q = Times(d, f)[j]
  BY DEF FirstOf
<1>2. \A g \in DOMAIN Files[d] : \A q :
        q \in FirstOf(d, g, Count(d, g)) <=> \E j \in DOMAIN Times(d, g) : q = Times(d, g)[j]
  <2> SUFFICES ASSUME NEW g \in DOMAIN Files[d], NEW q
               PROVE  q \in FirstOf(d, g, Count(d, g)) <=>
                        \E j \in DOMAIN Times(d, g) : q = Times(d, g)[j]
    OBVIOUS
  <2>1. \A j \in DOMAIN Times(d, g) : j <= Count(d, g)
    BY OneFile
  <2> QED BY <2>1 DEF FirstOf
<1>3. \A q : q \in Earlier(d, f) <=>
        \E g \in DOMAIN Files[d] : g < f /\ q \in FirstOf(d, g, Count(d, g))
  BY DEF Earlier
<1> QED BY <1>1, <1>2, <1>3

\* The packets of a file are packets of its data set.
LEMMA InDataSet ==
    ASSUME NEW d \in DataSets
    PROVE  \A q : q \in Packets[d] <=>
             \E g \in DOMAIN Files[d] : \E j \in DOMAIN Times(d, g) : q = Times(d, g)[j]
<1> DEFINE l == Len(Files[d])
<1>1. l \in DOMAIN Files[d] /\ l \in Nat /\ DOMAIN Files[d] = 1..l
  BY FileFacts DEF LastFile
<1>2. Packets[d] = Earlier(d, l) \cup FirstOf(d, l, Count(d, l))
  BY <1>1, EarlierFacts DEF Packets
<1>3. Count(d, l) \in Nat /\ DOMAIN Times(d, l) = 1..Count(d, l)
  BY <1>1, FileFacts
<1>4. \A g \in DOMAIN Files[d] : \A j \in DOMAIN Times(d, g) :
        g < l \/ (g = l /\ j <= Count(d, l))
  BY <1>1, <1>3
<1> HIDE DEF l
<1>5. \A q : q \in Packets[d] <=>
        \E g \in DOMAIN Files[d] : \E j \in DOMAIN Times(d, g) :
          q = Times(d, g)[j] /\ (g < l \/ (g = l /\ j <= Count(d, l)))
  BY <1>1, <1>2, <1>3, PassedAt
<1> QED BY <1>4, <1>5

(* The packet at a position is the first of those to come, and it is the    *)
(* only one where it is the last of the last file.                          *)
LEMMA ToCome ==
    ASSUME NEW d \in DataSets, NEW f \in DOMAIN Files[d], NEW n \in Nat, n < Count(d, f)
    PROVE  LET p == Times(d, f)[n + 1]
               toCome == Packets[d] \ (Earlier(d, f) \cup FirstOf(d, f, n))
           IN  /\ p \in toCome /\ \A q \in toCome : p <= q
               /\ toCome = {p} <=> n + 1 = Count(d, f) /\ f = LastFile(d)
<1> DEFINE p == Times(d, f)[n + 1]
           toCome == Packets[d] \ (Earlier(d, f) \cup FirstOf(d, f, n))
           l == LastFile(d)
<1>1. /\ n + 1 \in DOMAIN Times(d, f) /\ DOMAIN Times(d, f) = 1..Count(d, f)
      /\ Count(d, f) \in Nat
  BY OneFile
<1>2. /\ DOMAIN Files[d] = 1..l /\ l \in DOMAIN Files[d] /\ l \in Nat /\ f \in Nat
      /\ 1 \in DOMAIN Times(d, l)
  <2>1. DOMAIN Files[d] = 1..l /\ l \in Nat \ {0}
    BY FileFacts DEF LastFile
  <2>2. l \in DOMAIN Files[d] /\ f \in Nat
    BY <2>1
  <2>3. Count(d, l) \in Nat \ {0} /\ DOMAIN Times(d, l) = 1..Count(d, l)
    BY <2>2, FileFacts
  <2> QED BY <2>1, <2>2, <2>3
<1>3. \A q : q \in toCome <=>
        \E g \in DOMAIN Files[d] : \E j \in DOMAIN Times(d, g) :
          q = Times(d, g)[j] /\ (f < g \/ (f = g /\ n + 1 <= j))
  <2> SUFFICES ASSUME NEW q
               PROVE  q \in toCome <=>
                        \E g \in DOMAIN Files[d] : \E j \in DOMAIN Times(d, g) :
                          q = Times(d, g)[j] /\ (f < g \/ (f = g /\ n + 1 <= j))
    OBVIOUS
  <2>1. ASSUME q \in toCome
        PROVE  \E g \in DOMAIN Files[d] : \E j \in DOMAIN Times(d, g) :
                 q = Times(d, g)[j] /\ (f < g \/ (f = g /\ n + 1 <= j))
    <3>1. PICK g \in DOMAIN Files[d] : \E j \in DOMAIN Times(d, g) : q = Times(d, g)[j]
      BY <2>1, InDataSet
    <3>2. PICK j \in DOMAIN Times(d, g) : q = Times(d, g)[j]
      BY <3>1
    <3>3. ~(g < f \/ (g = f /\ j <= n))
      BY <2>1, <3>2, PassedAt
    <3>4. g \in Nat /\ j \in Nat
      BY InOrder
    <3> QED BY <1>2, <3>2, <3>3, <3>4
  <2>2. ASSUME NEW g \in DOMAIN Files[d], NEW j \in DOMAIN Times(d, g),
               q = Times(d, g)[j], f < g \/ (f = g /\ n + 1 <= j)
        PROVE  q \in toCome
    <3>1. q \in Packets[d]
      BY <2>2, InDataSet
    <3>2. ASSUME NEW x \in DOMAIN Files[d], NEW i \in DOMAIN Times(d, x),
                 x < f \/ (x = f /\ i <= n)
          PROVE  Times(d, x)[i] # q
      <4>1. /\ x \in Nat /\ g \in Nat /\ i \in Nat /\ j \in Nat
            /\ Times(d, x)[i] \in Nat /\ Times(d, g)[j] \in Nat
        BY InOrder
      <4>2. x < g \/ (x = g /\ i < j)
        BY <1>2, <2>2, <3>2, <4>1
      <4>3. Times(d, x)[i] < Times(d, g)[j]
        BY <4>2, InOrder
      <4> QED BY <2>2, <4>1, <4>3
    <3> QED BY <3>1, <3>2, PassedAt
  <2> QED BY <2>1, <2>2
<1> HIDE DEF toCome
<1>4. p \in toCome
  BY <1>1, <1>2, <1>3
<1>5. ASSUME NEW q \in toCome PROVE p <= q
  <2>1. PICK g \in DOMAIN Files[d] : \E j \in DOMAIN Times(d, g) :
           q = Times(d, g)[j] /\ (f < g \/ (f = g /\ n + 1 <= j))
    BY <1>3
  <2>2. PICK j \in DOMAIN Times(d, g) :
           q = Times(d, g)[j] /\ (f < g \/ (f = g /\ n + 1 <= j))
    BY <2>1
  <2>3. p \in Nat /\ q \in Nat /\ j \in Nat
    BY <1>1, <2>2, InOrder
  <2>4. CASE f = g /\ n + 1 = j
    BY <2>2, <2>3, <2>4
  <2>5. CASE f < g \/ (f = g /\ n + 1 < j)
    <3>1. p < q
      BY <1>1, <2>2, <2>5, InOrder
    <3> QED BY <2>3, <3>1
  <2> QED BY <2>2, <2>3, <2>4, <2>5
<1>6. ASSUME n + 1 = Count(d, f), f = l PROVE toCome = {p}
  <2>1. ASSUME NEW q \in toCome PROVE q = p
    <3>1. PICK g \in DOMAIN Files[d] : \E j \in DOMAIN Times(d, g) :
             q = Times(d, g)[j] /\ (f < g \/ (f = g /\ n + 1 <= j))
      BY <1>3, <2>1
    <3>2. PICK j \in DOMAIN Times(d, g) :
             q = Times(d, g)[j] /\ (f < g \/ (f = g /\ n + 1 <= j))
      BY <3>1
    <3>3. g = f
      BY <1>2, <1>6, <3>2
    <3>4. j = n + 1
      <4>1. j \in 1..Count(d, f) /\ n + 1 <= j
        BY <1>1, <1>2, <3>2, <3>3
      <4> QED BY <1>1, <1>6, <4>1
    <3> QED BY <3>2, <3>3, <3>4
  <2> QED BY <1>4, <2>1
<1>7. ASSUME f # l PROVE toCome # {p}
  <2>1. f < l
    BY <1>2, <1>7
  <2>2. Times(d, l)[1] \in toCome
    BY <1>2, <1>3, <2>1
  <2>3. p < Times(d, l)[1] /\ p \in Nat /\ Times(d, l)[1] \in Nat
    BY <1>1, <1>2, <2>1, InOrder
  <2> QED BY <2>2, <2>3
<1>8. ASSUME n + 1 # Count(d, f) PROVE toCome # {p}
  <2>1. n + 2 \in DOMAIN Times(d, f) /\ n + 1 < n + 2
    BY <1>1, <1>8
  <2>2. Times(d, f)[n + 2] \in toCome
    BY <1>2, <1>3, <2>1
  <2>3. p < Times(d, f)[n + 2] /\ p \in Nat /\ Times(d, f)[n + 2] \in Nat
    BY <1>1, <2>1, InOrder
  <2> QED BY <2>2, <2>3
<1> QED BY <1>4, <1>5, <1>6, <1>7, <1>8 DEF toCome

(* The file and the position of a time have the packets before it passed.   *)
LEMMA BeforeTime ==
    ASSUME NEW d \in DataSets, NEW t \in Nat, TimeFound(d, t)
    PROVE  LET f == FileAt(d, t)
           IN  /\ Earlier(d, f) \cup FirstOf(d, f, Before(d, f, t)) = {p \in Packets[d] : p < t}
               /\ {p \in Packets[d] : p < t} # Packets[d]
<1> DEFINE f == FileAt(d, t)
           n == Before(d, f, t)
<1>1. /\ f \in DOMAIN Files[d] /\ t <= Times(d, f)[Count(d, f)]
      /\ \A g \in DOMAIN Files[d] : g < f => Times(d, g)[Count(d, g)] < t
  BY FileAtIs
<1>2. n \in Nat /\ n < Count(d, f) /\ \A i \in 1..Count(d, f) : i <= n <=> Times(d, f)[i] < t
  BY <1>1, BeforeIs
<1>3. \A g \in DOMAIN Files[d] :
        DOMAIN Times(d, g) = 1..Count(d, g) /\ Count(d, g) \in DOMAIN Times(d, g)
  BY <1>1, OneFile
<1> HIDE DEF f, n
<1>4. ASSUME NEW g \in DOMAIN Files[d], NEW j \in DOMAIN Times(d, g)
      PROVE  (g < f \/ (g = f /\ j <= n)) <=> Times(d, g)[j] < t
  <2>1. /\ g \in Nat /\ f \in Nat /\ j \in Nat /\ Times(d, g)[j] \in Nat
        /\ Times(d, g)[Count(d, g)] \in Nat /\ Times(d, f)[Count(d, f)] \in Nat
    BY <1>1, <1>3, InOrder
  <2>2. CASE g < f
    <3>1. j = Count(d, g) \/ j < Count(d, g)
      <4>1. j \in 1..Count(d, g) /\ Count(d, g) \in 1..Count(d, g)
        BY <1>3
      <4> QED BY <4>1
    <3>2. Times(d, g)[j] <= Times(d, g)[Count(d, g)]
      BY <1>3, <2>1, <3>1, InOrder
    <3> QED BY <1>1, <2>1, <2>2, <3>2
  <2>3. CASE g = f
    <3>1. j <= n <=> Times(d, g)[j] < t
      BY <1>2, <1>3, <2>3
    <3> QED BY <2>1, <2>3, <3>1
  <2>4. CASE f < g
    <3>1. Times(d, f)[Count(d, f)] < Times(d, g)[j]
      BY <1>1, <1>3, <2>4, InOrder
    <3> QED BY <1>1, <2>1, <2>4, <3>1
  <2> QED BY <2>1, <2>2, <2>3, <2>4
<1>5. \A q : q \in Earlier(d, f) \cup FirstOf(d, f, n) <=> q \in Packets[d] /\ q < t
  BY <1>1, <1>2, <1>4, PassedAt, InDataSet
<1>6. Times(d, f)[Count(d, f)] \in Packets[d] /\ ~(Times(d, f)[Count(d, f)] < t)
  <2>1. Times(d, f)[Count(d, f)] \in Nat
    BY <1>1, <1>3, InOrder
  <2> QED BY <1>1, <1>3, <2>1, InDataSet
<1>7. {p \in Packets[d] : p < t} # Packets[d]
  BY <1>6
<1> QED BY <1>5, <1>7 DEF f, n

(* The entry and the stream of a data set say the same of what is passed:   *)
(* where the stream is, or that it is at the end.                           *)
Reads(h) ==
    IsOpen(h) =>
        LET e == file_table[h]
            n == Count(e.set, e.seq)
        IN  IF At(h) < n THEN e.read[e.seq] = At(h) ELSE e.read[e.seq] >= n

(* The cursor of an entry that is closed where it is does not move.         *)
LEMMA CursorIs ==
    ASSUME Inv, NEW h \in Handles, Used(h), Reads(h)
    PROVE  LET e == file_table[h]
           IN  /\ Cursor(h) = <<e.set, Earlier(e.set, e.seq)
                                         \cup FirstOf(e.set, e.seq, e.read[e.seq])>>
               /\ IsOpen(h) => Cursor(h) = <<e.set, Earlier(e.set, e.seq)
                                                      \cup FirstOf(e.set, e.seq, At(h))>>
<1> DEFINE e == file_table[h]
           n == Count(e.set, e.seq)
<1>1. /\ e.set \in DataSets /\ e.seq \in DOMAIN Files[e.set]
      /\ e.read \in [DOMAIN Files[e.set] -> Nat] /\ (IsOpen(h) => At(h) \in Nat)
  BY UsedFacts
<1>2. e.read[e.seq] \in Nat /\ n \in Nat
  BY <1>1, FileFacts
<1>3. CASE ~IsOpen(h)
  BY <1>3 DEF Cursor, Passed
<1>4. CASE IsOpen(h)
  <2>1. Cursor(h) = <<e.set, Earlier(e.set, e.seq) \cup FirstOf(e.set, e.seq, At(h))>>
    BY <1>4 DEF Cursor, Passed
  <2>2. FirstOf(e.set, e.seq, At(h)) = FirstOf(e.set, e.seq, e.read[e.seq])
    <3>1. CASE At(h) < n
      BY <1>4, <3>1 DEF Reads
    <3>2. CASE ~(At(h) < n)
      <4>1. At(h) >= n /\ e.read[e.seq] >= n
        BY <1>1, <1>2, <1>4, <3>2 DEF Reads
      <4>2. /\ FirstOf(e.set, e.seq, At(h)) = FirstOf(e.set, e.seq, n)
            /\ FirstOf(e.set, e.seq, e.read[e.seq]) = FirstOf(e.set, e.seq, n)
        BY <1>1, <1>2, <1>4, <4>1, FirstOfFacts
      <4> QED BY <4>2
    <3> QED BY <3>1, <3>2
  <2> QED BY <2>1, <2>2
<1> QED BY <1>3, <1>4

(* A step that leaves an entry and its stream leaves its cursor.            *)
LEMMA OthersStay ==
    ASSUME NEW g \in Handles, file_table'[g] = file_table[g],
           IsOpen(g) => streams'[file_table[g].stream] = streams[file_table[g].stream]
    PROVE  Cursor(g)' = Cursor(g) /\ (Reads(g) => Reads(g)')
<1>1. Used(g)' <=> Used(g)
  BY DEF Used
<1>2. IsOpen(g)' <=> IsOpen(g)
  BY <1>1 DEF IsOpen
<1>3. IsOpen(g) => At(g)' = At(g)
  BY DEF At
<1>4. Passed(g)' = Passed(g)
  BY <1>2, <1>3 DEF Passed
<1> QED BY <1>1, <1>2, <1>3, <1>4 DEF Cursor, Reads

(* Reading or seeking in the file that is open.                             *)
LEMMA StayCursor ==
    ASSUME Inv, NEW h \in Handles, IsOpen(h), \A g \in Handles : Reads(g),
           NEW e \in Entries(file_table[h].set), NEW at \in Nat,
           e.seq = file_table[h].seq, e.stream = file_table[h].stream,
           Stay(h, e, at),
           IF at < Count(e.set, e.seq) THEN e.read[e.seq] = at
                                       ELSE e.read[e.seq] >= Count(e.set, e.seq)
    PROVE  /\ \A g \in Handles \ {h} : Cursor(g)' = Cursor(g)
           /\ Cursor(h)' = <<e.set, Earlier(e.set, e.seq) \cup FirstOf(e.set, e.seq, at)>>
           /\ \A g \in Handles : Reads(g)'
<1>1. /\ \A g \in Handles \ {h} : file_table'[g] = file_table[g]
      /\ \A g \in Handles \ {h} : IsOpen(g) =>
           streams'[file_table[g].stream] = streams[file_table[g].stream]
      /\ file_table'[h] = e /\ IsOpen(h)'
      /\ streams'[e.stream] = Stream(file_table[h].set, e.seq, at)
  BY StayKeeps
<1>2. \A g \in Handles \ {h} : Cursor(g)' = Cursor(g) /\ Reads(g)'
  BY <1>1, OthersStay
<1>3. At(h)' = at /\ Used(h)'
  BY <1>1 DEF At, Stream, IsOpen
<1>4. Cursor(h)' = <<e.set, Earlier(e.set, e.seq) \cup FirstOf(e.set, e.seq, at)>>
  BY <1>1, <1>3 DEF Cursor, Passed
<1>5. Reads(h)'
  BY <1>1, <1>3 DEF Reads
<1> QED BY <1>2, <1>4, <1>5

(* Going to another file: where that fails, what the entry counts of the    *)
(* file it was in is what has been passed.                                  *)
LEMMA ReopenCursor ==
    ASSUME Inv, NEW h \in Handles, Used(h), \A g \in Handles : Reads(g),
           NEW d \in DataSets, NEW e \in Entries(d),
           e.stream = file_table[h].stream, e.seq = file_table[h].seq,
           NEW f \in DOMAIN Files[d], NEW at \in Nat, at < Count(d, f), Reopen(h, e, f, at)
    PROVE  /\ \A g \in Handles \ {h} : Cursor(g)' = Cursor(g)
           /\ \/ Cursor(h)' = <<d, Earlier(d, f) \cup FirstOf(d, f, at)>>
              \/ Cursor(h)' = <<d, Earlier(d, e.seq) \cup FirstOf(d, e.seq, e.read[e.seq])>>
           /\ \A g \in Handles : Reads(g)'
<1>1. /\ \A g \in Handles \ {h} : file_table'[g] = file_table[g]
      /\ \A g \in Handles \ {h} : IsOpen(g) =>
           streams'[file_table[g].stream] = streams[file_table[g].stream]
      /\ file_table'[h].set = d /\ Used(h)'
      /\ \/ /\ IsOpen(h)' /\ file_table'[h].seq = f
            /\ streams'[file_table'[h].stream] = Stream(d, f, at)
            /\ file_table'[h].read = [e.read EXCEPT ![f] = at]
         \/ "fopen" \in Faults /\ file_table'[h] = [e EXCEPT !.stream = NoStream]
  BY ReopenKeeps
<1>2. \A g \in Handles \ {h} : Cursor(g)' = Cursor(g) /\ Reads(g)'
  BY <1>1, OthersStay
<1>3. CASE /\ IsOpen(h)' /\ file_table'[h].seq = f
           /\ streams'[file_table'[h].stream] = Stream(d, f, at)
           /\ file_table'[h].read = [e.read EXCEPT ![f] = at]
  <2>1. At(h)' = at
    BY <1>3 DEF At, Stream
  <2>2. Cursor(h)' = <<d, Earlier(d, f) \cup FirstOf(d, f, at)>>
    BY <1>1, <1>3, <2>1 DEF Cursor, Passed
  <2>3. file_table'[h].read[f] = at
    BY <1>3, EntryFields
  <2>4. Reads(h)'
    BY <1>1, <1>3, <2>1, <2>3 DEF Reads
  <2> QED BY <1>2, <2>2, <2>4
<1>4. CASE file_table'[h] = [e EXCEPT !.stream = NoStream]
  <2>1. /\ file_table'[h].stream = NoStream /\ file_table'[h].set = d
        /\ file_table'[h].seq = e.seq /\ file_table'[h].read = e.read
    BY <1>4 DEF Entries
  <2>2. ~IsOpen(h)'
    BY <2>1 DEF IsOpen
  <2>3. Cursor(h)' = <<d, Earlier(d, e.seq) \cup FirstOf(d, e.seq, e.read[e.seq])>>
    BY <1>1, <2>1, <2>2 DEF Cursor, Passed
  <2> QED BY <1>2, <2>2, <2>3 DEF Reads
<1> QED BY <1>1, <1>3, <1>4

----------------------------------------------------------------------------
(* The refinement: every step of the tools is one of L0Stream               *)

(* Files whose headers have the right count, without footers, and no call   *)
(* that leaves the file that is open before it has the one it seeks.        *)
Exact == \A d \in DataSets : \A f \in DOMAIN Files[d] : Claim(d, f) = Count(d, f)
Plain == Exact /\ Footed = {} /\ HeadersOpen /\ "count" \notin Ops

RInv == Inv /\ call = Idle /\ \A h \in Handles : Reads(h)

(* A step that is none of a cursor, and one that moves a cursor.            *)
LEMMA FailIs ==
    ASSUME given' = Nothing, \A g \in Handles : Cursor(g)' = Cursor(g)
    PROVE  L0!Next
<1>1. [g \in Handles |-> Cursor(g)]' = [g \in Handles |-> Cursor(g)]
  OBVIOUS
<1> QED BY <1>1 DEF L0!Next, L0!Fail, L0!Nothing, Nothing

\* A step that moves one cursor, by the calls of L0Stream.
LEMMA MovesOne ==
    ASSUME NEW h \in Handles, NEW c, \A g \in Handles \ {h} : Cursor(g)' = Cursor(g),
           Cursor(h)' = c
    PROVE  [g \in Handles |-> Cursor(g)]' = [[g \in Handles |-> Cursor(g)] EXCEPT ![h] = c]
OBVIOUS

LEMMA OpenStreams ==
    ASSUME RInv, NEW d \in DataSets, Open(d)
    PROVE  L0!Next /\ \A g \in Handles : Reads(g)'
<1> DEFINE n == NewStream(streams)
           h == Min(UnusedEntries)
           e == [set |-> d, seq |-> 1, stream |-> n, read |-> [f \in DOMAIN Files[d] |-> 0]]
<1>1. n \in Nat \ {0} /\ n \notin DOMAIN streams
  BY NewStreamIsNew DEF RInv, Inv, TableOK
<1>2. h \in Handles /\ ~Used(h)
  <2>1. UnusedEntries \in SUBSET Nat /\ UnusedEntries # {}
    BY L0Assumption DEF UnusedEntries, Handles, Open
  <2>2. Min(UnusedEntries) \in UnusedEntries
    BY <2>1, MinIsLeast
  <2> QED BY <2>2 DEF UnusedEntries
<1>3. file_table' = [file_table EXCEPT ![h] = e] /\ streams' = WithStream(streams, d, 1, 0)
      /\ given' = Nothing
  BY DEF Open
<1>4. 1 \in DOMAIN Files[d] /\ 0 < Count(d, 1)
  BY FileFacts
<1>5. e \in Entries(d) /\ e.set = d /\ e.seq = 1 /\ e.stream = n /\ e.read[1] = 0
  BY <1>1, <1>4 DEF Entries
<1> HIDE DEF e, h, n
<1>6. file_table'[h] = e /\ \A g \in Handles \ {h} : file_table'[g] = file_table[g]
  BY <1>2, <1>3 DEF RInv, Inv, TableOK
<1>7. /\ streams'[n] = Stream(d, 1, 0)
      /\ \A s \in DOMAIN streams : streams'[s] = streams[s]
  BY <1>1, <1>3 DEF WithStream, n
<1>8. ASSUME NEW g \in Handles \ {h}
      PROVE  Cursor(g)' = Cursor(g) /\ Reads(g)'
  <2>1. IsOpen(g) => streams'[file_table[g].stream] = streams[file_table[g].stream]
    BY <1>7, UsedFacts DEF RInv, IsOpen
  <2> QED BY <1>6, <1>8, <2>1, OthersStay DEF RInv
<1>9. file_table'[h] # Unused
  BY <1>5, <1>6, EntryFields
<1>10. /\ file_table'[h].stream # NoStream
       /\ streams'[file_table'[h].stream].at = 0
  BY <1>1, <1>5, <1>6, <1>7 DEF NoStream, Stream
<1>11. ASSUME NEW g, g = h
       PROVE  Reads(g)' /\ Cursor(g)' = <<d, {}>>
  <2>1. IsOpen(g)' /\ At(g)' = 0 /\ Used(g)'
    BY <1>9, <1>10, <1>11 DEF IsOpen, Used, At
  <2>2. Earlier(d, 1) \cup FirstOf(d, 1, 0) = {}
    BY <1>4, EarlierFacts, FirstOfFacts
  <2> QED BY <1>4, <1>5, <1>6, <1>11, <2>1, <2>2 DEF Reads, Cursor, Passed
<1>12. PICK g \in Handles : g = h
  BY <1>2
<1>13. [x \in Handles |-> Cursor(x)]' = [[x \in Handles |-> Cursor(x)] EXCEPT ![g] = <<d, {}>>]
  BY <1>8, <1>11, <1>12, MovesOne
<1>14. Cursor(g) = <<>>
  BY <1>2, <1>12 DEF Cursor
<1>15. L0!Open(g, d)
  BY <1>3, <1>13, <1>14 DEF L0!Open, L0!Closed, L0!Nothing, Nothing
<1>16. d \in DOMAIN Packets
  BY DEF Packets
<1> QED BY <1>8, <1>11, <1>12, <1>15, <1>16 DEF L0!Next

LEMMA ExcessStreams ==
    ASSUME RInv, NEW d \in DataSets, OpenExcess(d)
    PROVE  L0!Next /\ \A g \in Handles : Reads(g)'
<1>1. NewStream(streams) \notin DOMAIN streams
  BY NewStreamIsNew DEF RInv, Inv, TableOK
<1>2. file_table' = file_table /\ given' = Nothing
      /\ \A s \in DOMAIN streams : streams'[s] = streams[s]
  BY <1>1 DEF OpenExcess, WithStream
<1>3. ASSUME NEW g \in Handles
      PROVE  Cursor(g)' = Cursor(g) /\ Reads(g)'
  <2>1. IsOpen(g) => streams'[file_table[g].stream] = streams[file_table[g].stream]
    BY <1>2, UsedFacts DEF RInv, IsOpen
  <2> QED BY <1>2, <2>1, OthersStay DEF RInv
<1> QED BY <1>2, <1>3, FailIs

LEMMA CloseStreams ==
    ASSUME RInv, NEW h \in Handles, Close(h)
    PROVE  L0!Next /\ \A g \in Handles : Reads(g)'
<1>1. /\ file_table' = [file_table EXCEPT ![h] = Unused] /\ given' = Nothing /\ Used(h)
      /\ streams' = WithoutStream(streams, file_table[h].stream)
  BY DEF Close
<1>2. file_table'[h] = Unused /\ \A g \in Handles \ {h} : file_table'[g] = file_table[g]
  BY <1>1 DEF RInv, Inv, TableOK
<1>3. ASSUME NEW g \in Handles \ {h}
      PROVE  Cursor(g)' = Cursor(g) /\ Reads(g)'
  <2>1. ASSUME IsOpen(g)
        PROVE  streams'[file_table[g].stream] = streams[file_table[g].stream]
    <3>1. file_table[g].stream \in DOMAIN streams
      BY <2>1, UsedFacts DEF RInv, IsOpen
    <3>2. file_table[g].stream # file_table[h].stream
      BY <1>1, <2>1 DEF RInv, Inv, TableOK, Apart, IsOpen, Used
    <3> QED BY <1>1, <3>1, <3>2 DEF WithoutStream
  <2> QED BY <1>2, <2>1, OthersStay DEF RInv
<1>4. Cursor(h)' = <<>> /\ Reads(h)'
  BY <1>2 DEF Cursor, Reads, IsOpen, Used
<1>5. [x \in Handles |-> Cursor(x)]' = [[x \in Handles |-> Cursor(x)] EXCEPT ![h] = <<>>]
  BY <1>3, <1>4, MovesOne
<1>6. L0!Close(h)
  BY <1>1, <1>5 DEF L0!Close, L0!Closed, L0!Nothing, Nothing
<1> QED BY <1>3, <1>4, <1>6 DEF L0!Next

(* Going on after a read that has passed n packets of the file, all where   *)
(* the file is left.                                                        *)
LEMMA ProceedCursor ==
    ASSUME RInv, NEW h \in Handles, IsOpen(h), Exact,
           NEW e \in Entries(file_table[h].set), NEW n \in Nat, NEW status,
           e.seq = file_table[h].seq, e.stream = file_table[h].stream,
           n <= Count(e.set, e.seq),
           IF n < Count(e.set, e.seq) THEN e.read[e.seq] = n
                                      ELSE e.read[e.seq] >= Count(e.set, e.seq),
           Proceed(h, e, status, n)
    PROVE  /\ \A g \in Handles \ {h} : Cursor(g)' = Cursor(g)
           /\ Cursor(h)' = <<e.set, Earlier(e.set, e.seq) \cup FirstOf(e.set, e.seq, n)>>
           /\ \A g \in Handles : Reads(g)'
           /\ StaysInFile(e, status, n) <=> n < Count(e.set, e.seq)
<1> DEFINE d == file_table[h].set
           c == Count(d, e.seq)
<1>0. Used(h) /\ Inv
  BY DEF IsOpen, RInv
<1>1. /\ d \in DataSets /\ e.set = d /\ e.seq \in DOMAIN Files[d] /\ e.seq \in Nat
      /\ e.read \in [DOMAIN Files[d] -> Nat]
  BY <1>0, UsedFacts, EntryFields
<1>2. /\ c \in Nat /\ Claim(d, e.seq) = c /\ e.read[e.seq] \in Nat
  BY <1>1, FileFacts DEF Exact
<1>3. StaysInFile(e, status, n) <=> n < c
  BY <1>1, <1>2 DEF StaysInFile
<1>4. CASE Stay(h, e, n)
  BY <1>0, <1>1, <1>3, <1>4, StayCursor DEF RInv
<1>5. CASE /\ ~(n < c) /\ e.seq # LastFile(e.set)
           /\ Reopen(h, Sought(e, e.seq + 1, 0), e.seq + 1, 0)
  <2> DEFINE x == Sought(e, e.seq + 1, 0)
             f == e.seq + 1
  <2>1. f \in DOMAIN Files[d]
    <3>1. e.seq \in 1..Len(Files[d]) /\ Len(Files[d]) \in Nat
      BY <1>1, FileFacts
    <3>2. f \in 1..Len(Files[d])
      BY <1>1, <1>5, <3>1 DEF LastFile
    <3> QED BY <1>1, <3>2, FileFacts
  <2>2. /\ x \in Entries(d) /\ x.stream = file_table[h].stream /\ x.seq = file_table[h].seq
        /\ x.seq = e.seq /\ x.read[e.seq] = e.read[e.seq]
    BY <1>1, <2>1 DEF Sought, Entries
  <2>3. 0 < Count(d, f)
    <3>1. Count(d, f) \in Nat \ {0}
      BY <1>1, <2>1, FileFacts
    <3> QED BY <3>1
  <2>4. Earlier(d, f) \cup FirstOf(d, f, 0) = Earlier(d, e.seq) \cup FirstOf(d, e.seq, c)
    BY <1>1, <2>1, EarlierFacts, FirstOfFacts
  <2>5. n = c /\ e.read[e.seq] >= c
    BY <1>1, <1>2, <1>5
  <2>6. FirstOf(d, e.seq, e.read[e.seq]) = FirstOf(d, e.seq, c)
    BY <1>1, <1>2, <2>5, FirstOfFacts
  <2>7. Reopen(h, x, f, 0)
    BY <1>5
  <2> HIDE DEF x, f, d, c
  <2>8. /\ \A g \in Handles \ {h} : Cursor(g)' = Cursor(g)
        /\ \/ Cursor(h)' = <<d, Earlier(d, f) \cup FirstOf(d, f, 0)>>
           \/ Cursor(h)' = <<d, Earlier(d, x.seq) \cup FirstOf(d, x.seq, x.read[x.seq])>>
        /\ \A g \in Handles : Reads(g)'
    BY <1>0, <1>1, <2>1, <2>2, <2>3, <2>7, ReopenCursor DEF RInv
  <2>9. Cursor(h)' = <<d, Earlier(d, e.seq) \cup FirstOf(d, e.seq, n)>>
    BY <2>2, <2>4, <2>5, <2>6, <2>8
  <2> QED BY <1>1, <1>3, <2>8, <2>9 DEF c
<1> QED BY <1>1, <1>3, <1>4, <1>5 DEF Proceed

LEMMA GetPacketStreams ==
    ASSUME RInv, Plain, NEW h \in Handles, GetPacket(h)
    PROVE  L0!Next /\ \A g \in Handles : Reads(g)'
<1> DEFINE e == file_table[h]
           x == [e EXCEPT !.read[e.seq] = @ + 1]
           d == e.set
           c == Count(d, e.seq)
           n == At(h)
           p == Times(d, e.seq)[n + 1]
           passed == Earlier(d, e.seq) \cup FirstOf(d, e.seq, n)
           toCome == Packets[d] \ passed
           last == ~StaysInFile(x, Check(e), n + 1) /\ e.seq = LastFile(d)
<1>1. IsOpen(h) /\ Used(h) /\ n < c /\ Inv /\ Reads(h)
  BY DEF GetPacket, IsOpen, RInv
<1>2. /\ d \in DataSets /\ e \in Entries(d) /\ e.seq \in DOMAIN Files[d]
      /\ e.read \in [DOMAIN Files[d] -> Nat] /\ n \in Nat /\ e.seq \in Nat
  BY <1>1, UsedFacts
<1>3. /\ x \in Entries(d) /\ x.seq = e.seq /\ x.stream = e.stream /\ x.set = d
      /\ x.read[e.seq] = e.read[e.seq] + 1
  BY <1>2 DEF Entries
<1>4. Proceed(h, x, Check(e), n + 1) /\ given' = <<d, e.seq, n + 1, last>>
  BY DEF GetPacket
<1>5. e.read[e.seq] = n
  BY <1>1 DEF Reads
<1>6. c \in Nat /\ n + 1 <= c /\ n + 1 \in Nat
  <2>1. c \in Nat
    BY <1>2, FileFacts
  <2> QED BY <1>1, <1>2, <2>1
<1> HIDE DEF x
<1>7. IF n + 1 < Count(x.set, x.seq) THEN x.read[x.seq] = n + 1
                                     ELSE x.read[x.seq] >= Count(x.set, x.seq)
  BY <1>3, <1>5, <1>6
<1>8. /\ \A g \in Handles \ {h} : Cursor(g)' = Cursor(g)
      /\ Cursor(h)' = <<d, Earlier(d, e.seq) \cup FirstOf(d, e.seq, n + 1)>>
      /\ \A g \in Handles : Reads(g)'
      /\ StaysInFile(x, Check(e), n + 1) <=> n + 1 < c
  <2> HIDE DEF d, e, n
  <2>1. e.seq = file_table[h].seq /\ e.stream = file_table[h].stream /\ d = file_table[h].set
    BY DEF e, d
  <2> QED BY <1>1, <1>3, <1>4, <1>6, <1>7, <2>1, ProceedCursor DEF Plain
<1>9. Cursor(h)' = <<d, passed \cup {p}>>
  <2>1. FirstOf(d, e.seq, n + 1) = FirstOf(d, e.seq, n) \cup {p}
    BY <1>1, <1>2, FirstOfFacts
  <2> QED BY <1>8, <2>1
<1>10. Cursor(h) = <<d, passed>>
  BY <1>1, CursorIs
<1>11. /\ p \in toCome /\ \A q \in toCome : p <= q
       /\ toCome = {p} <=> n + 1 = c /\ e.seq = LastFile(d)
  BY <1>1, <1>2, ToCome
<1>12. last <=> toCome = {p}
  BY <1>6, <1>8, <1>11
<1> DEFINE cur == [g \in Handles |-> Cursor(g)]
<1>13. cur' = [cur EXCEPT ![h] = <<d, passed \cup {p}>>]
  BY <1>8, <1>9, MovesOne
<1>14. (IF given' = Nothing THEN Nothing
        ELSE <<given'[1], Times(given'[1], given'[2])[given'[3]], given'[4]>>)
         = <<d, p, toCome = {p}>>
  <2>1. given' # Nothing
    BY <1>4 DEF Nothing
  <2>2. last \in BOOLEAN /\ (toCome = {p}) \in BOOLEAN
    OBVIOUS
  <2>3. last = (toCome = {p})
    BY <1>12, <2>2
  <2> HIDE DEF last
  <2>4. given'[1] = d /\ given'[2] = e.seq /\ given'[3] = n + 1 /\ given'[4] = last
    BY <1>4
  <2> QED BY <2>1, <2>3, <2>4
<1>15. cur[h] = <<d, passed>> /\ cur[h] # <<>> /\ cur[h][1] = d /\ cur[h][2] = passed
  BY <1>10
<1> HIDE DEF cur, passed, toCome, d, p
<1>16. L0!GetPacket(h)
  BY <1>11, <1>13, <1>14, <1>15 DEF L0!GetPacket, L0!Closed, L0!Nothing, Nothing, cur, toCome
<1> QED BY <1>8, <1>16 DEF L0!Next

LEMMA GetPastEndStreams ==
    ASSUME RInv, Plain, NEW h \in Handles, GetPastEnd(h)
    PROVE  L0!Next /\ \A g \in Handles : Reads(g)'
<1> DEFINE e == file_table[h]
           x == [e EXCEPT !.read[e.seq] = Claim(e.set, e.seq) + 1]
           d == e.set
           c == Count(d, e.seq)
<1>1. IsOpen(h) /\ Used(h) /\ Inv /\ Reads(h)
  BY DEF GetPastEnd, IsOpen, RInv
<1>2. /\ d \in DataSets /\ e \in Entries(d) /\ e.seq \in DOMAIN Files[d]
      /\ e.read \in [DOMAIN Files[d] -> Nat] /\ c \in Nat /\ Claim(d, e.seq) = c
  BY <1>1, UsedFacts, FileFacts DEF Plain, Exact
<1>3. /\ x \in Entries(d) /\ x.seq = e.seq /\ x.stream = e.stream /\ x.set = d
      /\ x.read[e.seq] = c + 1
  BY <1>2 DEF Entries
<1>4. Proceed(h, x, "toolkit", c) /\ At(h) = c /\ given' = Nothing
  BY <1>2 DEF GetPastEnd, Plain
<1> HIDE DEF x
<1>5. IF c < Count(x.set, x.seq) THEN x.read[x.seq] = c ELSE x.read[x.seq] >= Count(x.set, x.seq)
  BY <1>2, <1>3
<1>6. /\ \A g \in Handles \ {h} : Cursor(g)' = Cursor(g)
      /\ Cursor(h)' = <<d, Earlier(d, e.seq) \cup FirstOf(d, e.seq, c)>>
      /\ \A g \in Handles : Reads(g)'
  <2> HIDE DEF d, e, c
  <2>1. e.seq = file_table[h].seq /\ e.stream = file_table[h].stream /\ d = file_table[h].set
        /\ c <= Count(x.set, x.seq)
    BY <1>2, <1>3 DEF e, d, c
  <2> QED BY <1>1, <1>2, <1>3, <1>4, <1>5, <2>1, ProceedCursor DEF Plain
<1>7. Cursor(h) = <<d, Earlier(d, e.seq) \cup FirstOf(d, e.seq, c)>>
  BY <1>1, <1>4, CursorIs
<1> QED BY <1>4, <1>6, <1>7, FailIs

(* Going to a start time: the cursor has the packets before it passed, or   *)
(* the file could not be opened and it is where it was.                     *)
LEMMA GoToCursor ==
    ASSUME RInv, NEW h \in Handles, Used(h), NEW t \in Nat,
           TimeFound(file_table[h].set, t), NEW f, f = FileAt(file_table[h].set, t),
           GoTo(h, f, t)
    PROVE  LET d == file_table[h].set
           IN  /\ \A g \in Handles \ {h} : Cursor(g)' = Cursor(g)
               /\ \/ Cursor(h)' = <<d, {p \in Packets[d] : p < t}>>
                  \/ Cursor(h)' = Cursor(h)
               /\ \A g \in Handles : Reads(g)'
<1> DEFINE e == file_table[h]
           d == e.set
           at == Before(d, f, t)
<1>1. /\ d \in DataSets /\ e \in Entries(d) /\ e.seq \in DOMAIN Files[d]
      /\ e.read \in [DOMAIN Files[d] -> Nat] /\ Inv /\ Reads(h)
  BY UsedFacts DEF RInv
<1>2. f \in DOMAIN Files[d] /\ at \in Nat /\ at < Count(d, f)
  BY <1>1, FileAtIs, BeforeIs
<1>3. Earlier(d, f) \cup FirstOf(d, f, at) = {p \in Packets[d] : p < t}
  BY <1>1, BeforeTime
<1>4. Cursor(h) = <<d, Earlier(d, e.seq) \cup FirstOf(d, e.seq, e.read[e.seq])>>
  BY <1>1, CursorIs
<1> HIDE DEF at
<1>5. CASE f # e.seq
  <2>1. Reopen(h, e, f, at)
    BY <1>5 DEF GoTo, at
  <2>2. e.stream = file_table[h].stream /\ e.seq = file_table[h].seq
    OBVIOUS
  <2> HIDE DEF d, e
  <2>3. /\ \A g \in Handles \ {h} : Cursor(g)' = Cursor(g)
        /\ \/ Cursor(h)' = <<d, Earlier(d, f) \cup FirstOf(d, f, at)>>
           \/ Cursor(h)' = <<d, Earlier(d, e.seq) \cup FirstOf(d, e.seq, e.read[e.seq])>>
        /\ \A g \in Handles : Reads(g)'
    BY <1>1, <1>2, <2>1, <2>2, ReopenCursor DEF RInv
  <2> QED BY <1>3, <1>4, <2>3 DEF d, e
<1>6. CASE f = e.seq
  <2> DEFINE x == Sought(e, f, at)
  <2>1. IsOpen(h) /\ Stay(h, x, at)
    BY <1>6 DEF GoTo, at
  <2>2. /\ x \in Entries(d) /\ x.set = d /\ x.seq = f /\ x.stream = e.stream
        /\ x.read[x.seq] = at
    BY <1>1, <1>2, <1>6 DEF Entries, Sought
  <2> HIDE DEF x
  <2>3. /\ \A g \in Handles \ {h} : Cursor(g)' = Cursor(g)
        /\ Cursor(h)' = <<x.set, Earlier(x.set, x.seq) \cup FirstOf(x.set, x.seq, at)>>
        /\ \A g \in Handles : Reads(g)'
    BY <1>1, <1>2, <1>6, <2>1, <2>2, StayCursor DEF RInv
  <2> QED BY <1>3, <2>2, <2>3
<1> QED BY <1>5, <1>6

LEMMA SetStartStreams ==
    ASSUME RInv, NEW h \in Handles, NEW t \in StartTimes, SetStart(h, t)
    PROVE  L0!Next /\ \A g \in Handles : Reads(g)'
<1> DEFINE d == file_table[h].set
           f == FileAt(d, t)
           before == {p \in Packets[d] : p < t}
<1>1. Used(h) /\ TimeFound(d, t) /\ t \in Nat
  BY L0Assumption DEF SetStart
<1>2. d \in DataSets
  BY <1>1, UsedFacts DEF RInv
<1>3. CASE NullStream(h)
  <2>1. given' = Nothing /\ UNCHANGED <<file_table, streams>>
    BY <1>3 DEF NullStream
  <2>2. \A g \in Handles : Cursor(g)' = Cursor(g) /\ Reads(g)'
    BY <2>1, OthersStay DEF RInv
  <2> QED BY <2>1, <2>2, FailIs
<1>4. CASE GoTo(h, f, t) /\ given' = Nothing
  <2>1. /\ \A g \in Handles \ {h} : Cursor(g)' = Cursor(g)
        /\ Cursor(h)' = <<d, before>> \/ Cursor(h)' = Cursor(h)
        /\ \A g \in Handles : Reads(g)'
    BY <1>1, <1>4, GoToCursor
  <2>2. CASE Cursor(h)' = Cursor(h)
    BY <1>4, <2>1, <2>2, FailIs
  <2>3. CASE Cursor(h)' = <<d, before>>
    <3> DEFINE cur == [g \in Handles |-> Cursor(g)]
    <3>1. cur' = [cur EXCEPT ![h] = <<d, before>>]
      BY <2>1, <2>3, MovesOne
    <3>2. cur[h] # <<>> /\ cur[h][1] = d
      BY <1>1 DEF Cursor
    <3>3. before # Packets[d]
      BY <1>1, <1>2, BeforeTime
    <3> HIDE DEF cur, d
    <3>4. L0!SetStart(h, t)
      BY <1>4, <3>1, <3>2, <3>3 DEF L0!SetStart, L0!Closed, L0!Nothing, Nothing, cur
    <3> QED BY <2>1, <3>4 DEF L0!Next
  <2> QED BY <2>1, <2>2, <2>3
<1> QED BY <1>3, <1>4 DEF SetStart

\* Every step moves the cursors as L0Stream does, or not at all.
LEMMA NextStreams ==
    ASSUME RInv, Plain, Next
    PROVE  L0!Next /\ RInv'
<1> DEFINE Goal == L0!Next /\ call' = Idle /\ \A g \in Handles : Reads(g)'
<1>1. ASSUME given' = Nothing, call' = Idle, UNCHANGED <<file_table, streams>>
      PROVE  Goal
  <2>1. \A g \in Handles : Cursor(g)' = Cursor(g) /\ Reads(g)'
    BY <1>1, OthersStay DEF RInv
  <2> QED BY <1>1, <2>1, FailIs
<1>2. ASSUME NEW d \in DataSets, Open(d) PROVE Goal
  BY <1>2, OpenStreams DEF RInv, Open
<1>3. ASSUME NEW d \in DataSets, OpenExcess(d) PROVE Goal
  BY <1>3, ExcessStreams DEF RInv, OpenExcess
<1>4. ASSUME OpenFails PROVE Goal
  BY <1>1, <1>4 DEF RInv, OpenFails
<1>5. ASSUME NEW h \in Handles, Close(h) PROVE Goal
  BY <1>5, CloseStreams DEF RInv, Close
<1>6. ASSUME NEW h \in Handles, GetPacket(h) PROVE Goal
  BY <1>6, GetPacketStreams DEF RInv, GetPacket
<1>7. ASSUME NEW h \in Handles, GetFooter(h) PROVE Goal
  BY <1>7 DEF GetFooter, Plain
<1>8. ASSUME NEW h \in Handles, GetPastEnd(h) PROVE Goal
  BY <1>8, GetPastEndStreams DEF RInv, GetPastEnd
<1>9. ASSUME NEW h \in Handles, GetHeader(h) PROVE Goal
  <2>1. given' = Nothing /\ call' = Idle /\ UNCHANGED <<file_table, streams>>
    BY <1>9 DEF RInv, GetHeader, NullStream, Plain, HeadersOpen
  <2> QED BY <1>1, <2>1
<1>10. ASSUME NEW h \in Handles, NEW t \in StartTimes, Refused(h, t) PROVE Goal
  BY <1>1, <1>10 DEF RInv, Refused
<1>11. ASSUME NEW h \in Handles, NEW t \in StartTimes, SetStart(h, t) PROVE Goal
  BY <1>11, SetStartStreams DEF RInv, SetStart, NullStream
<1>12. ASSUME NEW h \in Handles, NEW t \in StartTimes, SetStartCntPkts(h, t) PROVE Goal
  BY <1>12 DEF SetStartCntPkts, Plain
<1>13. ASSUME SkipFile \/ CountEnds PROVE Goal
  BY <1>13 DEF RInv, SkipFile, CountEnds
<1> HIDE DEF Goal
<1>14. ASSUME NEW h \in Handles,
              \/ Close(h)
              \/ GetPacket(h) \/ GetFooter(h) \/ GetPastEnd(h)
              \/ GetHeader(h)
              \/ \E t \in StartTimes : Refused(h, t) \/ SetStart(h, t) \/ SetStartCntPkts(h, t)
       PROVE  Goal
  BY <1>14, <1>5, <1>6, <1>7, <1>8, <1>9, <1>10, <1>11, <1>12
<1>15. Goal
  BY <1>2, <1>3, <1>4, <1>13, <1>14 DEF Next
<1>16. Inv'
  BY NextKeeps DEF RInv
<1> QED BY <1>15, <1>16 DEF Goal, RInv

(* ImplementsStream: data sets with the right counts in their headers and   *)
(* without footers read as one sequence of packets each, for any number of  *)
(* data sets, files, packets and handles and whatever opens fail.           *)
THEOREM StreamsImplement == Plain => (Spec => ImplementsStream)
<1> SUFFICES ASSUME Plain PROVE Spec => ImplementsStream
  OBVIOUS
<1>1. Init => RInv /\ L0!Init
  <2> SUFFICES ASSUME Init PROVE RInv /\ L0!Init
    OBVIOUS
  <2>1. Inv /\ call = Idle
    BY InitHolds DEF Init
  <2>2. \A h \in Handles : ~Used(h)
    BY DEF Init, Used
  <2>3. RInv
    BY <2>1, <2>2 DEF RInv, Reads, IsOpen
  <2>4. [h \in Handles |-> Cursor(h)] = [h \in Handles |-> <<>>]
    BY <2>2 DEF Cursor
  <2> QED BY <2>3, <2>4 DEF Init, L0!Init, L0!Closed, L0!Nothing, Nothing
<1>2. RInv /\ [Next]_vars => RInv' /\ [L0!Next]_(L0!svars)
  <2>1. ASSUME RInv, UNCHANGED vars PROVE RInv' /\ UNCHANGED L0!svars
    <3>1. file_table' = file_table /\ streams' = streams /\ given' = given
      BY <2>1 DEF vars
    <3>2. \A g \in Handles : Cursor(g)' = Cursor(g) /\ Reads(g)'
      BY <2>1, <3>1, OthersStay DEF RInv
    <3>3. RInv'
      BY <2>1, <3>2, Stutters DEF RInv
    <3>4. [g \in Handles |-> Cursor(g)]' = [g \in Handles |-> Cursor(g)]
      BY <3>2
    <3> QED BY <3>1, <3>3, <3>4 DEF L0!svars
  <2> QED BY <2>1, NextStreams
<1> QED BY <1>1, <1>2, PTL DEF Spec, ImplementsStream, L0!Spec
=============================================================================
