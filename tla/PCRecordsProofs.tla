-------------------------- MODULE PCRecordsProofs --------------------------
(* What the searches of PCRecords return, for every section.              *)
EXTENDS PCRecords, SequenceTheorems, WellFoundedInduction, TLAPS

(* A set of positions that is not empty has a least one. *)
LEMMA HasLeast ==
    ASSUME NEW I \in SUBSET Nat, I # {}
    PROVE  \E i \in I : \A j \in I : i <= j
<1>1. PICK i \in I : \A j \in I : ~(<<j, i>> \in OpToRel(<, Nat))
  BY NatLessThanWellFounded, WFMin, Zenon
<1>2. \A j \in I : ~(j < i)
  BY <1>1 DEF OpToRel
<1> QED BY <1>2

(* First finds a member of every set of positions that has one, and it is   *)
(* 0 exactly when there is none.                                            *)
LEMMA FirstFinds ==
    ASSUME NEW I \in SUBSET (Nat \ {0})
    PROVE  /\ I = {} => First(I) = 0
           /\ I # {} => First(I) \in I /\ First(I) # 0
<1>1. ASSUME I # {} PROVE First(I) \in I
  <2>1. \E i \in I : \A j \in I : i <= j
    BY <1>1, HasLeast
  <2> QED BY <1>1, <2>1 DEF First
<1> QED BY <1>1 DEF First

(* The live records of an identifier are positions of the section. *)
LEMMA LiveIsPosition ==
    ASSUME NEW R, NEW q \in Seq(R), NEW id
    PROVE  Live(q, id) \in SUBSET (1..Len(q)) /\ Live(q, id) \in SUBSET (Nat \ {0})
BY DEF Live, With

(* A search of the live records finds one, if there is one. *)
LEMMA SearchFinds ==
    ASSUME NEW R, NEW q \in Seq(R), NEW id, First(Live(q, id)) # 0
    PROVE  LET i == First(Live(q, id))
           IN  i \in DOMAIN q /\ i \in 1..Len(q) /\ ~Deleted(q[i])
<1> DEFINE i == First(Live(q, id))
<1>1. i \in Live(q, id)
  BY LiveIsPosition, FirstFinds
<1> QED BY <1>1 DEF Live, With

(* A PCF loads as a table of records of the kind its lines are.             *)
LEMMA LoadedType ==
    ASSUME NEW I, NEW n \in Nat, NEW l \in Listings(I, n), NEW R,
           \A d \in I : [id |-> d, name |-> PcfName(d), flag |-> ""] \in R
    PROVE  Loaded(l) \in [SectionSet -> Seq(R)]
<1> DEFINE rec(i) == [id |-> l[i], name |-> PcfName(l[i]), flag |-> ""]
<1>1. l \in [1..n -> I]
  BY DEF Listings
<1>2. \A i \in 1..n : rec(i) \in R
  BY <1>1
<1> DEFINE z == [i \in 1..n |-> rec(i)]
<1> HIDE DEF rec
<1>3. z \in [1..n -> R]
  BY <1>2
<1> HIDE DEF z
<1>4. z \in Seq(R) /\ <<>> \in Seq(R)
  BY <1>3, SeqDef, EmptySeq
<1>5. Loaded(l) = [s \in SectionSet |-> IF s = "interIn" THEN z ELSE <<>>]
  BY <1>1 DEF Loaded, z, rec
<1> QED BY <1>4, <1>5
=============================================================================
