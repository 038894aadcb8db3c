--------------------------- MODULE ServicesProofs ---------------------------
(***************************************************************************)
(* The services that the other tools stand on: memory (PGS_MEM), dynamic   *)
(* and shared, and threads (PGS_TSF).                                      *)
(*                                                                         *)
(* MEMDyn, for every set of addresses, nodes, variables and sizes: the     *)
(* node list stays whole and exact, and no call of the tools frees a block *)
(* twice or follows a NULL link.                                           *)
(*                                                                         *)
(* MEMShm, for any number of processes and whatever fails: the processes   *)
(* of a PGE share one user segment, and termination leaves nothing that it *)
(* knows of.                                                               *)
(*                                                                         *)
(* TSFMaster, for any number of threads and slots and whichever key or     *)
(* mutex cannot be created: the slots that are marked or given are those   *)
(* of the array.  Where the main thread makes the first call they are      *)
(* exclusive, stay with their threads while both keys exist, and the       *)
(* search for one leaves the array only if a key is missing or there were  *)
(* more threads at once than slots.                                        *)
(***************************************************************************)
EXTENDS MEMDyn, MEMShm, TSFMaster, FiniteSetTheorems, TLAPS

\* Linking a fresh node in front of the head keeps the list whole.
LEMMA AddKeepsList ==
    ASSUME NEW c \in Nat, NEW L \in SUBSET Node, NEW h,
           NEW nx \in [Node -> Node \cup {Null}],
           NEW pv \in [Node -> Node \cup {Null}],
           NEW s \in [1..c -> L], IsList(s, c, L, h, nx, pv),
           NEW n \in Node \ L
    PROVE  \E t \in [1..(c + 1) -> L \cup {n}] :
              IsList(t, c + 1, L \cup {n}, n, LinkAfter(n, h, nx),
                     [pv EXCEPT ![n] = h])
PROOF
<1> DEFINE t == [i \in 1..(c + 1) |-> IF i = c + 1 THEN n ELSE s[i]]
           nx2 == LinkAfter(n, h, nx)
           pv2 == [pv EXCEPT ![n] = h]
<1>1. t \in [1..(c + 1) -> L \cup {n}]
  OBVIOUS
<1>2. \A i, j \in 1..(c + 1) : t[i] = t[j] => i = j
  BY DEF IsList
<1>3. L \cup {n} = {t[i] : i \in 1..(c + 1)}
  <2>1. ASSUME NEW x \in L PROVE \E i \in 1..(c + 1) : x = t[i]
    <3>1. PICK i \in 1..c : x = s[i]
      BY DEF IsList
    <3>2. i \in 1..(c + 1) /\ i # c + 1
      OBVIOUS
    <3> QED BY <3>1, <3>2
  <2>2. n = t[c + 1] /\ c + 1 \in 1..(c + 1)
    OBVIOUS
  <2> QED BY <1>1, <2>1, <2>2
<1>4. n = IF c + 1 = 0 THEN Null ELSE t[c + 1]
  OBVIOUS
<1>5. \A i \in 1..(c + 1) : pv2[t[i]] = IF i = 1 THEN Null ELSE t[i - 1]
  <2> SUFFICES ASSUME NEW i \in 1..(c + 1)
               PROVE  pv2[t[i]] = IF i = 1 THEN Null ELSE t[i - 1]
    OBVIOUS
  <2>1. CASE i = c + 1
    BY <2>1 DEF IsList
  <2>2. CASE i # c + 1
    BY <2>2 DEF IsList
  <2> QED BY <2>1, <2>2
<1>6. \A i \in 1..(c + 1) : nx2[t[i]] = IF i = c + 1 THEN Null ELSE t[i + 1]
  <2> SUFFICES ASSUME NEW i \in 1..(c + 1)
               PROVE  nx2[t[i]] = IF i = c + 1 THEN Null ELSE t[i + 1]
    OBVIOUS
  <2>1. CASE i = c + 1
    BY <2>1 DEF LinkAfter
  <2>2. CASE i = c
    <3>1. t[i] = h /\ h \in Node /\ h # n /\ t[i + 1] = n /\ i # c + 1
      BY <2>2 DEF IsList
    <3> QED BY <3>1 DEF LinkAfter
  <2>3. CASE i # c + 1 /\ i # c
    <3>1. i \in 1..c /\ c \in 1..c /\ i + 1 # c + 1 /\ i + 1 \in 1..(c + 1)
      BY <2>3
    <3>2. t[i] = s[i] /\ s[i] \in Node /\ s[i] # n /\ t[i + 1] = s[i + 1]
      BY <3>1, <2>3
    <3>3. s[i] # h
      BY <3>1, <2>3 DEF IsList
    <3>4. nx[s[i]] = s[i + 1]
      BY <3>1, <2>3 DEF IsList
    <3> QED BY <2>3, <3>2, <3>3, <3>4 DEF LinkAfter
  <2> QED BY <2>1, <2>2, <2>3
<1> QED
  BY <1>1, <1>2, <1>3, <1>4, <1>5, <1>6 DEF IsList

\* Unlinking any node of a whole list, wherever it stands, leaves a whole
\* list of the others.
LEMMA CutKeepsList ==
    ASSUME NEW c \in Nat, NEW L \in SUBSET Node, NEW h,
           NEW nx \in [Node -> Node \cup {Null}],
           NEW pv \in [Node -> Node \cup {Null}],
           NEW s \in [1..c -> L], IsList(s, c, L, h, nx, pv),
           NEW n \in L
    PROVE  /\ c - 1 \in Nat
           /\ \E t \in [1..(c - 1) -> L \ {n}] :
                 IsList(t, c - 1, L \ {n}, CutHead(n, h, c, pv),
                        CutNext(n, h, nx, pv), CutPrev(n, h, nx, pv))
PROOF
<1> USE NullAssumption
<1>1. PICK k \in 1..c : n = s[k]
  BY DEF IsList
<1> DEFINE d == c - 1
           Of(i) == IF i < k THEN i ELSE i + 1
           t == [i \in 1..d |-> s[Of(i)]]
           nx2 == CutNext(n, h, nx, pv)
           pv2 == CutPrev(n, h, nx, pv)
           h2 == CutHead(n, h, c, pv)
<1>2. d \in Nat
  OBVIOUS
<1>3. \A i \in 1..d : Of(i) \in 1..c /\ Of(i) # k
  OBVIOUS
<1>4. \A i \in 1..d : t[i] = s[Of(i)] /\ t[i] \in L \ {n}
  BY <1>1, <1>3 DEF IsList
<1>5. \A i, j \in 1..d : t[i] = t[j] => i = j
  <2> SUFFICES ASSUME NEW i \in 1..d, NEW j \in 1..d, t[i] = t[j]
               PROVE  i = j
    OBVIOUS
  <2>1. Of(i) = Of(j)
    BY <1>3, <1>4 DEF IsList
  <2> QED BY <2>1
<1>6. L \ {n} = {t[i] : i \in 1..d}
  <2>1. ASSUME NEW x \in L \ {n} PROVE \E i \in 1..d : x = t[i]
    <3>1. PICK j \in 1..c : x = s[j]
      BY DEF IsList
    <3>2. j # k
      BY <1>1, <3>1
    <3>3. CASE j < k
      <4>1. j \in 1..d /\ Of(j) = j
        BY <3>3
      <4> QED BY <3>1, <4>1, <1>4
    <3>4. CASE j > k
      <4>1. j - 1 \in 1..d /\ Of(j - 1) = j
        BY <3>4
      <4> QED BY <3>1, <4>1, <1>4
    <3> QED BY <3>2, <3>3, <3>4
  <2> QED BY <1>4, <2>1
<1>7. h = s[c] /\ (n = h <=> k = c)
  BY <1>1 DEF IsList
<1>8. pv[n] = IF k = 1 THEN Null ELSE s[k - 1]
  BY <1>1 DEF IsList
<1>9. nx[n] = IF k = c THEN Null ELSE s[k + 1]
  BY <1>1 DEF IsList
<1>10. h2 = IF d = 0 THEN Null ELSE t[d]
  <2>1. CASE k = c
    BY <1>7, <1>8, <2>1 DEF CutHead
  <2>2. CASE k # c
    <3>1. d # 0 /\ Of(d) = c
      BY <2>2
    <3> QED BY <2>2, <3>1, <1>7 DEF CutHead
  <2> QED BY <2>1, <2>2
<1>11. \A i \in 1..d : pv2[t[i]] = IF i = 1 THEN Null ELSE t[i - 1]
  <2> SUFFICES ASSUME NEW i \in 1..d
               PROVE  pv2[t[i]] = IF i = 1 THEN Null ELSE t[i - 1]
    OBVIOUS
  <2>1. t[i] \in Node /\ t[i] # n
    BY <1>4
  <2>2. CASE Of(i) = k + 1
    <3>1. i = k /\ k # c /\ k + 1 \in 1..c
      BY <2>2
    <3>2. pv2[t[i]] = pv[n]
      BY <3>1, <2>1, <1>4, <1>7, <1>9 DEF CutPrev
    <3>3. i # 1 => k - 1 \in 1..d /\ t[i - 1] = s[k - 1]
      BY <3>1
    <3> QED BY <3>1, <3>2, <3>3, <1>8
  <2>3. CASE Of(i) # k + 1
    <3>1. n # h => t[i] # nx[n]
      <4>1. n # h => k + 1 \in 1..c /\ nx[n] = s[k + 1]
        BY <1>7, <1>9
      <4> QED BY <4>1, <2>3, <1>3, <1>4 DEF IsList
    <3>2. pv2[t[i]] = pv[s[Of(i)]]
      BY <3>1, <2>1, <1>4 DEF CutPrev
    <3>3. pv[s[Of(i)]] = IF Of(i) = 1 THEN Null ELSE s[Of(i) - 1]
      BY <1>3 DEF IsList
    <3>4. Of(i) = 1 <=> i = 1
      BY <2>3
    <3>5. i # 1 => i - 1 \in 1..d /\ Of(i - 1) = Of(i) - 1
      BY <2>3
    <3> QED BY <3>2, <3>3, <3>4, <3>5, <1>4
  <2> QED BY <2>2, <2>3
<1>12. \A i \in 1..d : nx2[t[i]] = IF i = d THEN Null ELSE t[i + 1]
  <2> SUFFICES ASSUME NEW i \in 1..d
               PROVE  nx2[t[i]] = IF i = d THEN Null ELSE t[i + 1]
    OBVIOUS
  <2>1. t[i] \in Node /\ t[i] # n
    BY <1>4
  <2>2. CASE Of(i) = k - 1
    <3>1. i = k - 1 /\ k # 1 /\ pv[n] = t[i]
      BY <2>2, <1>4, <1>8
    <3>2. nx2[t[i]] = IF n = h THEN Null ELSE nx[n]
      BY <3>1, <2>1 DEF CutNext
    <3>3. k # c => i # d /\ i + 1 \in 1..d /\ Of(i + 1) = k + 1
      BY <3>1
    <3>4. k = c => i = d
      BY <3>1
    <3> QED BY <3>2, <3>3, <3>4, <1>4, <1>7, <1>9
  <2>3. CASE Of(i) # k - 1
    <3>1. t[i] # pv[n]
      <4>1. k # 1 => k - 1 \in 1..c /\ pv[n] = s[k - 1]
        BY <1>8
      <4> QED BY <4>1, <2>1, <2>3, <1>3, <1>4, <1>8 DEF IsList
    <3>2. nx2[t[i]] = nx[s[Of(i)]]
      BY <3>1, <2>1, <1>4 DEF CutNext
    <3>3. nx[s[Of(i)]] = IF Of(i) = c THEN Null ELSE s[Of(i) + 1]
      BY <1>3 DEF IsList
    <3>4. Of(i) = c <=> i = d
      BY <2>3
    <3>5. i # d => i + 1 \in 1..d /\ Of(i + 1) = Of(i) + 1
      BY <2>3
    <3> QED BY <3>2, <3>3, <3>4, <3>5, <1>4
  <2> QED BY <2>2, <2>3
<1>13. t \in [1..d -> L \ {n}]
  BY <1>4
<1> QED
  BY <1>2, <1>5, <1>6, <1>10, <1>11, <1>12, <1>13 DEF IsList

----------------------------------------------------------------------------
(* The inductive invariant.  ListWhole alone is not inductive: that a      *)
(* freed block is allocated, and that a block handed out by malloc is not  *)
(* in the list already, needs RecordsExact.                                *)

IInv == TypeOK /\ ListWhole /\ RecordsExact /\ NoFault

\* The empty list is whole, and every call keeps the list and the records.
LEMMA InitIInv == Init => IInv
PROOF
<1> SUFFICES ASSUME Init PROVE IInv
  OBVIOUS
<1>1. TypeOK /\ RecordsExact /\ NoFault
  BY DEF Init, TypeOK, RecordsExact, NoFault
<1>2. ListWhole
  <2>1. [i \in 1..0 |-> Null] \in [1..cnt -> live]
    BY DEF Init
  <2>2. IsList([i \in 1..0 |-> Null], cnt, live, head, nNext, nPrev)
    BY DEF Init, IsList
  <2> QED BY <2>1, <2>2 DEF ListWhole
<1> QED BY <1>1, <1>2 DEF IInv

\* Recording a block that was not recorded, in a node that was not used.
LEMMA AddNodeIInv ==
    ASSUME IInv, NEW n \in Node \ live, NEW a \in Addr, NEW size \in Sizes,
           block[a] = 0, AddNode(n, a, size),
           block' = [block EXCEPT ![a] = size],
           ptr' \in [Var -> Addr \cup {Null}], UNCHANGED <<sweeping, fault>>
    PROVE  IInv'
PROOF
<1> USE SizesAssumption, NullAssumption
<1>1. TypeOK'
  BY DEF IInv, TypeOK, AddNode, LinkAfter
<1>2. ListWhole'
  <2>1. PICK s \in [1..cnt -> live] : IsList(s, cnt, live, head, nNext, nPrev)
    BY DEF IInv, ListWhole
  <2>2. \E t \in [1..(cnt + 1) -> live \cup {n}] :
           IsList(t, cnt + 1, live \cup {n}, n, LinkAfter(n, head, nNext),
                  [nPrev EXCEPT ![n] = head])
    BY <2>1, AddKeepsList DEF IInv, TypeOK
  <2> QED BY <2>2 DEF AddNode, ListWhole
<1>3. RecordsExact'
  BY DEF IInv, TypeOK, AddNode, RecordsExact
<1>4. NoFault'
  BY DEF IInv, NoFault
<1> QED BY <1>1, <1>2, <1>3, <1>4 DEF IInv

\* The node that LinkDelNode is given is in the list, so no pointer it
\* follows is NULL and the block it frees is allocated.
LEMMA DelNodeSafe ==
    ASSUME IInv, NEW n \in live
    PROVE  ~DelFaults(n)
PROOF
<1> USE SizesAssumption, NullAssumption
<1>1. PICK s \in [1..cnt -> live] : IsList(s, cnt, live, head, nNext, nPrev)
  BY DEF IInv, ListWhole
<1>2. PICK k \in 1..cnt : n = s[k]
  BY <1>1 DEF IsList
<1>3. cnt \in Nat /\ live \subseteq Node
  BY DEF IInv, TypeOK
<1>4. block[nAddr[n]] # 0
  BY DEF IInv, TypeOK, RecordsExact
<1>5. n = head /\ cnt # 1 => nPrev[n] # Null
  <2> SUFFICES ASSUME n = head, cnt # 1 PROVE nPrev[n] # Null
    OBVIOUS
  <2>1. k = cnt /\ k # 1 /\ k - 1 \in 1..cnt
    BY <1>1, <1>2, <1>3 DEF IsList
  <2>2. nPrev[n] = s[k - 1] /\ s[k - 1] \in Node
    BY <1>1, <1>2, <1>3, <2>1 DEF IsList
  <2> QED BY <2>2
<1>6. n # head => nNext[n] # Null
  <2> SUFFICES ASSUME n # head PROVE nNext[n] # Null
    OBVIOUS
  <2>1. k # cnt /\ k + 1 \in 1..cnt
    BY <1>1, <1>2, <1>3 DEF IsList
  <2>2. nNext[n] = s[k + 1] /\ s[k + 1] \in Node
    BY <1>1, <1>2, <1>3, <2>1 DEF IsList
  <2> QED BY <2>2
<1> QED BY <1>4, <1>5, <1>6 DEF DelFaults

\* Unlinking and freeing a node of the list.
LEMMA DelNodeIInv ==
    ASSUME IInv, NEW n \in live, DelNode(n), UNCHANGED ptr,
           sweeping' \in BOOLEAN
    PROVE  IInv'
PROOF
<1> USE SizesAssumption, NullAssumption
<1>1. PICK s \in [1..cnt -> live] : IsList(s, cnt, live, head, nNext, nPrev)
  BY DEF IInv, ListWhole
<1>2. /\ cnt - 1 \in Nat
      /\ \E t \in [1..(cnt - 1) -> live \ {n}] :
            IsList(t, cnt - 1, live \ {n}, CutHead(n, head, cnt, nPrev),
                   CutNext(n, head, nNext, nPrev), CutPrev(n, head, nNext, nPrev))
  BY <1>1, CutKeepsList DEF IInv, TypeOK
<1>3. ~DelFaults(n)
  BY DelNodeSafe
<1>4. ListWhole'
  BY <1>2 DEF DelNode, ListWhole
<1>5. NoFault'
  BY <1>3 DEF DelNode, IInv, NoFault
<1>6. RecordsExact'
  BY DEF IInv, TypeOK, DelNode, RecordsExact
<1>7. TypeOK'
  <2>1. head' \in Node \cup {Null} /\ cnt' \in Nat /\ live' \subseteq Node
    BY <1>2 DEF IInv, TypeOK, DelNode, CutHead
  <2>2. nNext' \in [Node -> Node \cup {Null}]
    BY DEF IInv, TypeOK, DelNode, CutNext
  <2>3. nPrev' \in [Node -> Node \cup {Null}]
    BY DEF IInv, TypeOK, DelNode, CutPrev
  <2>4. /\ nAddr' \in [Node -> Addr \cup {Null}]
        /\ nSize' \in [Node -> Sizes \cup {0}]
        /\ block' \in [Addr -> Sizes \cup {0}]
        /\ ptr' \in [Var -> Addr \cup {Null}]
    BY DEF IInv, TypeOK, DelNode
  <2>5. fault' \in BOOLEAN
    BY DEF DelNode
  <2> QED BY <2>1, <2>2, <2>3, <2>4, <2>5 DEF TypeOK
<1> QED BY <1>4, <1>5, <1>6, <1>7 DEF IInv

\* Recording that realloc moved or enlarged a block.
LEMMA ReallocIInv ==
    ASSUME IInv, NEW v \in Var, NEW size \in Sizes, Realloc(v, size)
    PROVE  IInv'
PROOF
<1> USE SizesAssumption, NullAssumption
<1>1. PICK n \in live :
         /\ nAddr[n] = ptr[v]
         /\ \E b \in {a \in Addr : block[a] = 0 \/ a = ptr[v]} :
               /\ block' = [a \in Addr |-> IF a = b THEN size
                                           ELSE IF a = ptr[v] THEN 0 ELSE block[a]]
               /\ ReplaceAddr(n, b, size)
               /\ ptr' = [ptr EXCEPT ![v] = b]
  BY DEF Realloc, Members
<1>2. PICK b \in Addr :
         /\ block[b] = 0 \/ b = ptr[v]
         /\ block' = [a \in Addr |-> IF a = b THEN size
                                     ELSE IF a = ptr[v] THEN 0 ELSE block[a]]
         /\ nAddr' = [nAddr EXCEPT ![n] = b]
         /\ nSize' = [nSize EXCEPT ![n] = size]
         /\ ptr' = [ptr EXCEPT ![v] = b]
  BY <1>1 DEF ReplaceAddr
<1>3. UNCHANGED <<head, cnt, live, nNext, nPrev, sweeping, fault>>
  BY DEF Realloc
<1>4. TypeOK'
  BY <1>2, <1>3 DEF IInv, TypeOK
<1>5. ListWhole' /\ NoFault'
  BY <1>3 DEF IInv, ListWhole, NoFault
<1>6. \A m \in live : m # n => nAddr[m] # ptr[v] /\ nAddr[m] # b
  BY <1>1, <1>2 DEF IInv, TypeOK, RecordsExact
<1>7. RecordsExact'
  BY <1>1, <1>2, <1>3, <1>6 DEF IInv, TypeOK, RecordsExact
<1> QED BY <1>4, <1>5, <1>7 DEF IInv

LEMMA NextIInv == IInv /\ [Next]_vars => IInv'
PROOF
<1> USE SizesAssumption, NullAssumption
<1> SUFFICES ASSUME IInv, [Next]_vars PROVE IInv'
  OBVIOUS
<1>1. ASSUME NEW v \in Var, NEW size \in Sizes, Malloc(v, size) PROVE IInv'
  <2>1. CASE ptr' = [ptr EXCEPT ![v] = Null] /\ UNCHANGED <<list, block>>
    BY <1>1, <2>1 DEF Malloc, IInv, TypeOK, ListWhole, RecordsExact, NoFault,
                      list, fields
  <2>2. ASSUME NEW a \in Addr, block[a] = 0,
               block' = [block EXCEPT ![a] = size],
               ptr' = [ptr EXCEPT ![v] = a],
               UNCHANGED list
        PROVE  IInv'
    BY <1>1, <2>2 DEF Malloc, IInv, TypeOK, ListWhole, RecordsExact, NoFault,
                      list, fields
  <2>3. ASSUME NEW a \in Addr, block[a] = 0,
               block' = [block EXCEPT ![a] = size],
               ptr' = [ptr EXCEPT ![v] = a],
               NEW n \in Node \ live, AddNode(n, a, size)
        PROVE  IInv'
    <3>1. ptr' \in [Var -> Addr \cup {Null}] /\ UNCHANGED <<sweeping, fault>>
      BY <1>1, <2>3 DEF Malloc, IInv, TypeOK
    <3> QED BY <2>3, <3>1, AddNodeIInv
  <2> QED BY <1>1, <2>1, <2>2, <2>3 DEF Malloc
<1>2. ASSUME NEW v \in Var, NEW size \in Sizes, Realloc(v, size) PROVE IInv'
  BY <1>2, ReallocIInv
<1>3. ASSUME NEW v \in Var, Free(v) PROVE IInv'
  <2>1. PICK n \in live : DelNode(n)
    BY <1>3 DEF Free, Members
  <2>2. UNCHANGED ptr /\ sweeping' \in BOOLEAN
    BY <1>3 DEF Free, IInv, TypeOK
  <2> QED BY <2>1, <2>2, DelNodeIInv
<1>4. CASE FreeHead
  <2>1. head \in live
    <3>1. PICK s \in [1..cnt -> live] :
             IsList(s, cnt, live, head, nNext, nPrev)
      BY DEF IInv, ListWhole
    <3>2. cnt # 0 /\ cnt \in 1..cnt
      BY <1>4, <3>1 DEF FreeHead, IsList, IInv, TypeOK
    <3> QED BY <3>1, <3>2 DEF IsList
  <2>2. UNCHANGED ptr /\ sweeping' \in BOOLEAN /\ DelNode(head)
    BY <1>4 DEF FreeHead, IInv, TypeOK
  <2> QED BY <2>1, <2>2, DelNodeIInv
<1>5. ASSUME UNCHANGED <<list, block, fault>>,
             ptr' \in [Var -> Addr \cup {Null}], sweeping' \in BOOLEAN
      PROVE  IInv'
  BY <1>5 DEF IInv, TypeOK, ListWhole, RecordsExact, NoFault, list, fields
<1>6. CASE FreeAll \/ FreeAllDone
  BY <1>5, <1>6 DEF FreeAll, FreeAllDone, IInv, TypeOK
<1>7. ASSUME NEW v \in Var, Reset(v) \/ \E w \in Var : Copy(v, w) PROVE IInv'
  BY <1>5, <1>7 DEF Reset, Copy, IInv, TypeOK
<1>8. CASE UNCHANGED vars
  BY <1>5, <1>8 DEF vars, IInv, TypeOK
<1> QED BY <1>1, <1>2, <1>3, <1>4, <1>6, <1>7, <1>8 DEF Next

----------------------------------------------------------------------------
(* Theorems                                                                *)

\* Whatever calls are made, the list, the records and the allocated blocks
\* agree: the conjunction that the unlinking code needs and keeps.
THEOREM AlwaysIInv == Spec => []IInv
PROOF
BY InitIInv, NextIInv, PTL DEF Spec

\* Nodes, blocks and variables are of the declared kinds, for any number.
THEOREM TypeCorrect == Spec => []TypeOK
PROOF
<1>1. IInv => TypeOK
  BY DEF IInv
<1> QED BY <1>1, AlwaysIInv, PTL

\* However blocks are allocated, moved and freed, no node is lost from the
\* list and the counter is its length.
THEOREM ListStaysWhole == Spec => []ListWhole
PROOF
<1>1. IInv => ListWhole
  BY DEF IInv
<1> QED BY <1>1, AlwaysIInv, PTL

\* No two nodes record one block, and what a node records is what malloc
\* or realloc returned.
THEOREM RecordsStayExact == Spec => []RecordsExact
PROOF
<1>1. IInv => RecordsExact
  BY DEF IInv
<1> QED BY <1>1, AlwaysIInv, PTL

\* No call frees a block twice or follows a NULL link.
THEOREM NeverFaults == Spec => []NoFault
PROOF
<1>1. IInv => NoFault
  BY DEF IInv
<1> QED BY <1>1, AlwaysIInv, PTL

\* Every recorded block is found by the search from the head: the node that
\* was linked k calls before the newest is reached in k steps.
LEMMA WholeListIsFound == TypeOK /\ ListWhole => AllFound
PROOF
<1> SUFFICES ASSUME TypeOK, ListWhole, NEW n \in live
             PROVE  \E k \in 0..cnt : Walk(k, n)
  BY DEF AllFound, Members
<1>1. PICK s \in [1..cnt -> live] : IsList(s, cnt, live, head, nNext, nPrev)
  BY DEF ListWhole
<1>2. PICK i \in 1..cnt : n = s[i]
  BY <1>1 DEF IsList
<1>3. cnt \in Nat
  BY DEF TypeOK
<1> DEFINE k == cnt - i
           p == [j \in 0..k |-> s[cnt - j]]
<1>4. k \in 0..cnt /\ \A j \in 0..k : cnt - j \in 1..cnt
  BY <1>3
<1>5. p \in [0..k -> live]
  BY <1>4
<1>6. p[0] = head /\ p[k] = n
  BY <1>1, <1>2, <1>3, <1>4 DEF IsList
<1>7. \A j \in 0..(k - 1) : nPrev[p[j]] = p[j + 1]
  <2> SUFFICES ASSUME NEW j \in 0..(k - 1) PROVE nPrev[p[j]] = p[j + 1]
    OBVIOUS
  <2>1. j \in 0..k /\ j + 1 \in 0..k /\ cnt - j # 1 /\ cnt - j \in 1..cnt
    BY <1>3, <1>4
  <2>2. nPrev[s[cnt - j]] = s[(cnt - j) - 1]
    BY <1>1, <2>1 DEF IsList
  <2>3. (cnt - j) - 1 = cnt - (j + 1)
    BY <1>3
  <2> QED BY <2>1, <2>2, <2>3
<1>8. Walk(k, n)
  BY <1>5, <1>6, <1>7 DEF Walk
<1> QED BY <1>4, <1>8

\* Every recorded block can be found, and so freed.
THEOREM AllStayFound == Spec => []AllFound
PROOF
<1>1. IInv => AllFound
  BY WholeListIsFound DEF IInv
<1> QED BY <1>1, AlwaysIInv, PTL

----------------------------------------------------------------------------
(* MEMDyn implements MEMHeap                                               *)

Tracked == {<<nAddr[n], nSize[n]>> : n \in live}

\* What the tools do to the recorded blocks, call by call.
LEMMA DelNodeReleases ==
    ASSUME IInv, NEW n \in live, DelNode(n)
    PROVE  Heap!Next
PROOF
<1>1. PICK a \in Addr, m \in Sizes : nAddr[n] = a /\ nSize[n] = m
  BY DEF IInv, TypeOK, RecordsExact
<1>2. Tracked' = Tracked \ {<<a, m>>}
  BY <1>1 DEF Tracked, DelNode, IInv, TypeOK, RecordsExact
<1>3. <<a, m>> \in Tracked
  BY <1>1 DEF Tracked
<1>4. Heap!Release(a, m)
  BY <1>2, <1>3 DEF Tracked, Heap!Release
<1> QED BY <1>4 DEF Heap!Next

LEMMA MallocAllocates ==
    ASSUME IInv, NEW a \in Addr, NEW size \in Sizes, NEW n \in Node \ live,
           block[a] = 0, AddNode(n, a, size)
    PROVE  Heap!Next
PROOF
<1>1. Tracked' = Tracked \cup {<<a, size>>}
  BY DEF Tracked, AddNode, IInv, TypeOK
<1>2. a \notin {t[1] : t \in Tracked}
  BY SizesAssumption DEF Tracked, IInv, TypeOK, RecordsExact
<1>3. Heap!Allocate(a, size)
  BY <1>1, <1>2 DEF Tracked, Heap!Allocate, Heap!InUse
<1> QED BY <1>3 DEF Heap!Next

LEMMA ReallocResizes ==
    ASSUME IInv, NEW v \in Var, NEW size \in Sizes, Realloc(v, size)
    PROVE  Heap!Next
PROOF
<1> USE SizesAssumption
<1>1. PICK n \in live :
         /\ nAddr[n] = ptr[v] /\ Grows(n, size)
         /\ \E b \in {a \in Addr : block[a] = 0 \/ a = ptr[v]} :
               ReplaceAddr(n, b, size)
  BY DEF Realloc, Members
<1>2. PICK b \in Addr :
         /\ block[b] = 0 \/ b = ptr[v]
         /\ nAddr' = [nAddr EXCEPT ![n] = b]
         /\ nSize' = [nSize EXCEPT ![n] = size]
  BY <1>1 DEF ReplaceAddr
<1>3. live' = live
  BY DEF Realloc
<1> DEFINE a == nAddr[n]
           m == nSize[n]
<1>4. a \in Addr /\ m \in Sizes /\ m < size
  BY <1>1 DEF IInv, TypeOK, RecordsExact, Grows
<1>5. Tracked' = (Tracked \ {<<a, m>>}) \cup {<<b, size>>}
  BY <1>2, <1>3 DEF Tracked, IInv, TypeOK, RecordsExact
<1>6. <<a, m>> \in Tracked
  BY DEF Tracked
<1>7. b \notin {t[1] : t \in Tracked} \ {a}
  BY <1>1, <1>2 DEF Tracked, IInv, TypeOK, RecordsExact
<1>8. Heap!Resize(a, b, size)
  BY <1>4, <1>5, <1>6, <1>7 DEF Tracked, Heap!Resize, Heap!InUse
<1> QED BY <1>4, <1>8 DEF Heap!Next

\* Every step is one of MEMHeap, or leaves the recorded blocks.
LEMMA StepImplements == IInv /\ [Next]_vars => [Heap!Next]_Tracked
PROOF
<1> SUFFICES ASSUME IInv, [Next]_vars PROVE [Heap!Next]_Tracked
  OBVIOUS
<1>1. ASSUME UNCHANGED list PROVE UNCHANGED Tracked
  BY <1>1 DEF Tracked, list, fields
<1>2. ASSUME NEW v \in Var, NEW size \in Sizes, Malloc(v, size)
      PROVE  UNCHANGED list \/ Heap!Next
  BY <1>2, MallocAllocates DEF Malloc, list, fields
<1>3. ASSUME NEW v \in Var, NEW size \in Sizes, Realloc(v, size)
      PROVE  Heap!Next
  BY <1>3, ReallocResizes
<1>4. ASSUME NEW v \in Var, Free(v) PROVE Heap!Next
  BY <1>4, DelNodeReleases DEF Free, Members
<1>5. CASE FreeHead
  <2>1. head \in live
    <3>1. PICK s \in [1..cnt -> live] :
             IsList(s, cnt, live, head, nNext, nPrev)
      BY DEF IInv, ListWhole
    <3>2. cnt # 0 /\ cnt \in 1..cnt
      BY <1>5, <3>1 DEF FreeHead, IsList, IInv, TypeOK
    <3> QED BY <3>1, <3>2 DEF IsList
  <2> QED BY <1>5, <2>1, DelNodeReleases DEF FreeHead
<1>6. FreeAll \/ FreeAllDone \/ UNCHANGED vars => UNCHANGED list
  BY DEF FreeAll, FreeAllDone, vars
<1>7. ASSUME NEW v \in Var, Reset(v) \/ \E w \in Var : Copy(v, w)
      PROVE  UNCHANGED list
  BY <1>7 DEF Reset, Copy
<1> QED BY <1>1, <1>2, <1>3, <1>4, <1>5, <1>6, <1>7 DEF Next

\* The tools do to the recorded blocks only what MEMHeap allows: a block is
\* recorded once, and leaves the record only when it is freed.
THEOREM MEMDynImplementsMEMHeap == Spec => ImplementsHeap
PROOF
<1>1. Init => Heap!Init
  BY DEF Init, Heap!Init
<1>2. IInv /\ [Next]_vars => [Heap!Next]_({<<nAddr[n], nSize[n]>> : n \in live})
  BY StepImplements DEF Tracked
<1> QED BY <1>1, <1>2, AlwaysIInv, PTL DEF Spec, ImplementsHeap, Heap!Spec

----------------------------------------------------------------------------
(* The shared memory tools                                                 *)

Starts == {"sysGet", "sysAttach"}

\* What each phase finds: processes run only in the PGE, segments are removed
\* only after it.
Phases ==
    /\ phase \in Starts => shmOn
    /\ phase # "pge" =>
           \A p \in Procs : pc[p] \in {"idle", "ended"} /\ usr[p] = NoId /\ att[p] = {}
    /\ \A p \in Procs : pc[p] = "ended" => usr[p] = NoId /\ att[p] = {}
    /\ phase \in Starts \cup {"pge", "term"} =>
           att[TermCom] = {} /\ \A i \in DOMAIN segs : ~segs[i].removed
    /\ phase \in {"rmUser", "rmSys"} => shmOn
    /\ \A i \in att[TermCom] : segs[i].key = "sys"
    /\ phase = "done" => att[TermCom] = {}
    /\ failed => phase \in {"exit", "done"}

\* With shared memory there is at most one segment of each kind.
OneEach ==
    shmOn =>
        /\ \A i, j \in DOMAIN segs : segs[i].key = segs[j].key => i = j
        /\ \A i \in DOMAIN segs : segs[i].key # "private"
        /\ phase = "sysGet" => DOMAIN segs = {}
        /\ phase = "sysAttach" => \A i \in DOMAIN segs : segs[i].key = "sys"
        /\ phase \notin Starts => mem.key = "user"

\* The system segment is there until it is the turn of its removal.
HasSys ==
    shmOn /\ (phase \in {"sysAttach", "pge", "term", "rmUser", "rmSys"} \/ failed) =>
        WithKey("sys") # {}

IsUser(i) == i \in DOMAIN segs /\ segs[i].key = "user"

\* The numbers that processes and the record have are those of segments.
Recorded ==
    /\ \A p \in Procs : pc[p] \in {"shmid", "created"} => shmid[p] # NoId
    /\ \A p \in Procs : pc[p] = "created" => mem.shmid # NoId
    /\ \A p \in Procs : pc[p] = "shmat" => mem.created
    /\ phase \in Starts => ~mem.created
    /\ shmOn =>
        /\ \A p \in Procs : pc[p] \in {"shmid", "created"} => IsUser(shmid[p])
        /\ \A p \in Procs : pc[p] = "created" => IsUser(mem.shmid)
        /\ mem.created /\ phase \in {"pge", "term", "rmUser"} => IsUser(mem.shmid)
        /\ mem.created /\ mem.shmid \in DOMAIN segs => IsUser(mem.shmid)
        /\ \A p \in Procs : usr[p] # NoId => IsUser(usr[p])

\* What termination has removed.
Removed ==
    shmOn /\ ~failed =>
        /\ mem.created /\ phase \in {"rmSys", "exit", "done"} =>
               \A i \in DOMAIN segs : segs[i].key # "user"
        /\ phase = "exit" => \A i \in DOMAIN segs : segs[i].key = "sys" => segs[i].removed
        /\ phase = "done" => \A i \in DOMAIN segs : segs[i].key # "sys"

ShmInv ==
    /\ ShmTypeOK /\ Phases /\ OneEach /\ HasSys /\ Recorded /\ Removed
    /\ UserSegmentShared

\* Part of ShmTypeOK: the segments.
SegsOK ==
    /\ DOMAIN segs \subseteq Ids
    /\ \A i \in DOMAIN segs : segs[i] \in [key : Keys, removed : BOOLEAN]

\* shmget gives the segment of the key or adds one, and changes no other.
LEMMA ShmgetGives ==
    ASSUME ShmTypeOK, NEW k \in Keys, NEW id \in Ids, Shmget(k, id)
    PROVE  /\ DOMAIN segs' = DOMAIN segs \cup {id}
           /\ \A i \in DOMAIN segs : segs'[i] = segs[i]
           /\ segs'[id] = [key |-> k, removed |-> FALSE]
           /\ id \in DOMAIN segs => k # "private"
           /\ id \notin DOMAIN segs => WithKey(k) = {}
           /\ SegsOK' /\ att \in [All -> SUBSET DOMAIN segs']
PROOF
<1> DEFINE new == [key |-> k, removed |-> FALSE]
<1>1. /\ DOMAIN segs' = DOMAIN segs \cup {id}
      /\ \A i \in DOMAIN segs : segs'[i] = segs[i]
      /\ segs'[id] = new
      /\ id \in DOMAIN segs => k # "private"
      /\ id \notin DOMAIN segs => WithKey(k) = {}
  <2>1. CASE WithKey(k) # {}
    <3>1. segs' = segs /\ id \in DOMAIN segs /\ segs[id].key = k /\ ~segs[id].removed /\ k # "private"
      BY <2>1 DEF Shmget, WithKey
    <3>2. segs[id] \in [key : Keys, removed : BOOLEAN]
      BY <3>1 DEF ShmTypeOK
    <3>3. segs[id] = new
      BY <3>1, <3>2
    <3> HIDE DEF new
    <3> QED BY <3>1, <3>3
  <2>2. CASE WithKey(k) = {}
    BY <2>2 DEF Shmget
  <2> QED BY <2>1, <2>2
<1>2. new \in [key : Keys, removed : BOOLEAN]
  OBVIOUS
<1> HIDE DEF new
<1>3. SegsOK'
  BY <1>1, <1>2 DEF ShmTypeOK, SegsOK
<1>4. att \in [All -> SUBSET DOMAIN segs']
  BY <1>1 DEF ShmTypeOK
<1> QED BY <1>1, <1>3, <1>4 DEF new

\* IPC_RMID removes a segment at once or when it is detached.
LEMMA RmidGives ==
    ASSUME ShmTypeOK, NEW id \in DOMAIN segs, Rmid(id)
    PROVE  /\ att' = att /\ att \in [All -> SUBSET DOMAIN segs']
           /\ DOMAIN segs' \subseteq DOMAIN segs
           /\ \A i \in DOMAIN segs' : segs'[i].key = segs[i].key
           /\ \A i \in DOMAIN segs' : IF i = id THEN segs'[i].removed ELSE segs'[i] = segs[i]
           /\ \A i \in DOMAIN segs \ {id} : ~segs[i].removed => i \in DOMAIN segs'
           /\ (\A p \in All : id \notin att[p]) => id \notin DOMAIN segs'
           /\ SegsOK'
PROOF
<1> DEFINE s == [segs EXCEPT ![id].removed = TRUE]
<1>1. segs[id] \in [key : Keys, removed : BOOLEAN]
  BY DEF ShmTypeOK
<1>2. /\ DOMAIN s = DOMAIN segs
      /\ \A i \in DOMAIN segs \ {id} : s[i] = segs[i]
      /\ s[id].removed /\ s[id].key = segs[id].key
      /\ s[id] \in [key : Keys, removed : BOOLEAN]
  BY <1>1 DEF ShmTypeOK
<1>3. att' = att /\ segs' = [i \in Present(s, att) |-> s[i]]
  BY DEF Rmid, Kernel
<1> HIDE DEF s
<1>4. DOMAIN segs' = Present(s, att) /\ \A i \in Present(s, att) : segs'[i] = s[i]
  BY <1>3
<1>5. \A i : i \in Present(s, att) <=>
          i \in DOMAIN segs /\ (s[i].removed => \E p \in All : i \in att[p])
  BY <1>2 DEF Present
<1>6. att \in [All -> SUBSET DOMAIN segs']
  BY <1>4, <1>5 DEF ShmTypeOK
<1>7. DOMAIN segs' \subseteq DOMAIN segs
  BY <1>4, <1>5
<1>8. /\ \A i \in DOMAIN segs' : segs'[i].key = segs[i].key
      /\ \A i \in DOMAIN segs' : IF i = id THEN segs'[i].removed ELSE segs'[i] = segs[i]
  BY <1>2, <1>4, <1>7
<1>10. \A i \in DOMAIN segs \ {id} : ~segs[i].removed => i \in DOMAIN segs'
  BY <1>2, <1>4, <1>5
<1>11. (\A p \in All : id \notin att[p]) => id \notin DOMAIN segs'
  BY <1>2, <1>4, <1>5
<1>12. SegsOK'
  BY <1>2, <1>4, <1>7 DEF SegsOK, ShmTypeOK
<1> QED BY <1>3, <1>6, <1>7, <1>8, <1>10, <1>11, <1>12

\* The invariant holds before the shell starts, and every step keeps it.
LEMMA ShmInitHolds == ShmInit => ShmInv
PROOF
<1> SUFFICES ASSUME ShmInit PROVE ShmInv
  OBVIOUS
<1> USE ShmAssumption DEF ShmInit
<1>1. ShmTypeOK
  BY DEF ShmTypeOK, All, Ids, NoId, Keys
<1>2. Phases /\ OneEach /\ HasSys
  BY DEF Phases, OneEach, HasSys, Starts, All
<1>3. Recorded /\ Removed /\ UserSegmentShared
  BY DEF Recorded, Removed, UserSegmentShared, IsUser
<1> QED BY <1>1, <1>2, <1>3 DEF ShmInv

LEMMA ShmStepKeeps == ASSUME ShmInv, [ShmNext]_shmVars PROVE ShmInv'
PROOF
<1> USE ShmAssumption DEF Goes, All, NoId, Starts
<1>1. ASSUME SysGet PROVE ShmInv'
  <2> USE DEF SysGet
  <2>1. CASE WithoutShm /\ UNCHANGED segs
    <3>1. ShmTypeOK'
      BY <1>1, <2>1 DEF ShmInv, WithoutShm, ShmTypeOK, Recorded
    <3>2. Phases'
      BY <1>1, <2>1 DEF ShmInv, WithoutShm, ShmTypeOK, Phases
    <3>3. OneEach'
      BY <1>1, <2>1 DEF ShmInv, WithoutShm, ShmTypeOK, Phases, OneEach, Recorded
    <3>4. HasSys'
      BY <1>1, <2>1 DEF ShmInv, WithoutShm, ShmTypeOK, Phases, OneEach, HasSys, WithKey
    <3>5. Recorded'
      BY <1>1, <2>1 DEF ShmInv, WithoutShm, ShmTypeOK, Phases, OneEach, Recorded, IsUser
    <3>6. Removed'
      BY <1>1, <2>1 DEF ShmInv, WithoutShm, ShmTypeOK, Phases, OneEach, Recorded, Removed, IsUser
    <3>7. UserSegmentShared'
      BY <1>1, <2>1 DEF ShmInv, WithoutShm, ShmTypeOK, Phases, OneEach, Recorded, IsUser, UserSegmentShared
    <3> QED BY <3>1, <3>2, <3>3, <3>4, <3>5, <3>6, <3>7 DEF ShmInv
  <2>2. ASSUME NEW id \in Ids, Shmget("sys", id), phase' = "sysAttach", UNCHANGED shmOn
        PROVE  ShmInv'
    <3>0. /\ DOMAIN segs' = DOMAIN segs \cup {id}
          /\ \A i \in DOMAIN segs : segs'[i] = segs[i]
          /\ segs'[id] = [key |-> "sys", removed |-> FALSE]
          /\ SegsOK' /\ att \in [All -> SUBSET DOMAIN segs']
      BY <2>2, ShmgetGives DEF ShmInv, Keys
    <3> HIDE DEF All
    <3>1. ShmTypeOK'
      BY <1>1, <2>2, <3>0 DEF ShmInv, ShmTypeOK, SegsOK
    <3> USE DEF All
    <3>2. Phases'
      BY <1>1, <2>2, <3>0 DEF ShmInv, ShmTypeOK, Phases
    <3>3. OneEach'
      BY <1>1, <2>2, <3>0 DEF ShmInv, ShmTypeOK, Phases, OneEach, Recorded
    <3>4. HasSys'
      BY <1>1, <2>2, <3>0 DEF ShmInv, ShmTypeOK, Phases, OneEach, HasSys, WithKey
    <3>5. Recorded'
      BY <1>1, <2>2, <3>0 DEF ShmInv, ShmTypeOK, Phases, OneEach, Recorded, IsUser
    <3>6. Removed'
      BY <1>1, <2>2, <3>0 DEF ShmInv, ShmTypeOK, Phases, OneEach, Recorded, Removed, IsUser
    <3>7. UserSegmentShared'
      BY <1>1, <2>2, <3>0 DEF ShmInv, ShmTypeOK, Phases, OneEach, Recorded, IsUser, UserSegmentShared
    <3> QED BY <3>1, <3>2, <3>3, <3>4, <3>5, <3>6, <3>7 DEF ShmInv
  <2> QED BY <1>1, <2>1, <2>2
<1>2. ASSUME SysAttach PROVE ShmInv'
  <2> DEFINE made == [key |-> "user", shmid |-> NoId, created |-> FALSE]
  <2>0. mem' = mem \/ mem' = made
    BY <1>2 DEF SysAttach
  <2>a. made \in [key : Keys \ {"sys"}, shmid : Ids \cup {NoId}, created : BOOLEAN] /\ ~made.created
    BY DEF Keys
  <2> HIDE DEF made, All
  <2>1. ShmTypeOK'
    BY <1>2, <2>0, <2>a DEF ShmInv, SysAttach, WithoutShm, ShmTypeOK
  <2>b. ~mem'.created
    BY <1>2, <2>0, <2>a DEF SysAttach, ShmInv, Recorded
  <2> USE DEF made, All
  <2>2. Phases'
    BY <1>2 DEF ShmInv, SysAttach, WithoutShm, ShmTypeOK, Phases
  <2>3. OneEach'
    BY <1>2 DEF ShmInv, SysAttach, WithoutShm, ShmTypeOK, Phases, OneEach, Recorded
  <2>4. HasSys'
    BY <1>2 DEF ShmInv, SysAttach, WithoutShm, ShmTypeOK, Phases, OneEach, HasSys, WithKey
  <2>5. Recorded'
    BY <1>2, <2>b DEF ShmInv, SysAttach, WithoutShm, ShmTypeOK, Ids, Phases, OneEach, Recorded, IsUser
  <2>6. Removed'
    BY <1>2 DEF ShmInv, SysAttach, WithoutShm, ShmTypeOK, Phases, OneEach, Recorded, Removed, IsUser
  <2>7. UserSegmentShared'
    BY <1>2 DEF ShmInv, SysAttach, WithoutShm, ShmTypeOK, Phases, OneEach, Recorded, IsUser, UserSegmentShared
  <2> QED BY <2>1, <2>2, <2>3, <2>4, <2>5, <2>6, <2>7 DEF ShmInv
<1>3. ASSUME NEW p \in Procs, ShmCreate(p) PROVE ShmInv'
  <2>1. ShmTypeOK'
    BY <1>3 DEF ShmInv, ShmCreate, GlbVar, WithKey, ShmTypeOK, Ids, Keys, Phases, Recorded
  <2>2. Phases'
    BY <1>3 DEF ShmInv, ShmCreate, GlbVar, WithKey, ShmTypeOK, Phases
  <2>3. OneEach'
    BY <1>3 DEF ShmInv, ShmCreate, GlbVar, WithKey, ShmTypeOK, Phases, OneEach, Recorded
  <2>4. HasSys'
    BY <1>3 DEF ShmInv, ShmCreate, GlbVar, WithKey, ShmTypeOK, Phases, OneEach, HasSys
  <2>5. Recorded'
    BY <1>3 DEF ShmInv, ShmCreate, GlbVar, WithKey, ShmTypeOK, Ids, Phases, OneEach, Recorded, IsUser
  <2>6. Removed'
    BY <1>3 DEF ShmInv, ShmCreate, GlbVar, WithKey, ShmTypeOK, Phases, OneEach, Recorded, Removed, IsUser
  <2>7. UserSegmentShared'
    BY <1>3 DEF ShmInv, ShmCreate, GlbVar, WithKey, ShmTypeOK, Phases, OneEach, Recorded, IsUser, UserSegmentShared
  <2> QED BY <2>1, <2>2, <2>3, <2>4, <2>5, <2>6, <2>7 DEF ShmInv
<1>4. ASSUME NEW p \in Procs, UserGet(p) PROVE ShmInv'
  <2> USE DEF UserGet
  <2>1. CASE Goes(p, "shmget", "idle") /\ UNCHANGED <<segs, shmid>>
    <3>1. ShmTypeOK'
      BY <1>4, <2>1 DEF ShmInv, ShmTypeOK, Recorded
    <3>2. Phases'
      BY <1>4, <2>1 DEF ShmInv, ShmTypeOK, Phases
    <3>3. OneEach'
      BY <1>4, <2>1 DEF ShmInv, ShmTypeOK, Phases, OneEach, Recorded
    <3>4. HasSys'
      BY <1>4, <2>1 DEF ShmInv, ShmTypeOK, Phases, OneEach, HasSys, WithKey
    <3>5. Recorded'
      BY <1>4, <2>1 DEF ShmInv, ShmTypeOK, Phases, OneEach, Recorded, IsUser
    <3>6. Removed'
      BY <1>4, <2>1 DEF ShmInv, ShmTypeOK, Phases, OneEach, Recorded, Removed, IsUser
    <3>7. UserSegmentShared'
      BY <1>4, <2>1 DEF ShmInv, ShmTypeOK, Phases, OneEach, Recorded, IsUser, UserSegmentShared
    <3> QED BY <3>1, <3>2, <3>3, <3>4, <3>5, <3>6, <3>7 DEF ShmInv
  <2>2. ASSUME NEW id \in Ids, Shmget(mem.key, id), Goes(p, "shmget", "shmid"),
               shmid' = [shmid EXCEPT ![p] = id]
        PROVE  ShmInv'
    <3>0. /\ DOMAIN segs' = DOMAIN segs \cup {id}
          /\ \A i \in DOMAIN segs : segs'[i] = segs[i]
          /\ segs'[id] = [key |-> mem.key, removed |-> FALSE]
          /\ id \notin DOMAIN segs => WithKey(mem.key) = {}
          /\ SegsOK' /\ att \in [All -> SUBSET DOMAIN segs']
      <4>1. mem.key \in Keys
        BY DEF ShmInv, ShmTypeOK
      <4> QED BY <2>2, <4>1, ShmgetGives DEF ShmInv
    <3> USE <1>4, <2>2, <3>0
    <3> HIDE DEF All
    <3>1. ShmTypeOK'
      BY DEF ShmInv, ShmTypeOK, SegsOK
    <3> USE DEF All
    <3>2. Phases'
      BY DEF ShmInv, ShmTypeOK, Phases
    <3>3. OneEach'
      BY DEF ShmInv, ShmTypeOK, Phases, OneEach, Recorded, WithKey
    <3>4. HasSys'
      BY DEF ShmInv, ShmTypeOK, Phases, OneEach, HasSys, WithKey
    <3>5. Recorded'
      BY DEF ShmInv, ShmTypeOK, Phases, OneEach, Recorded, IsUser, Ids
    <3>6. Removed'
      BY DEF ShmInv, ShmTypeOK, Phases, OneEach, Recorded, Removed, IsUser
    <3>7. UserSegmentShared'
      BY DEF ShmInv, ShmTypeOK, Phases, OneEach, Recorded, IsUser, UserSegmentShared
    <3> QED BY <3>1, <3>2, <3>3, <3>4, <3>5, <3>6, <3>7 DEF ShmInv
  <2> QED BY <1>4, <2>1, <2>2
<1>5. ASSUME NEW p \in Procs, RecordId(p) PROVE ShmInv'
  <2>1. ShmTypeOK'
    BY <1>5 DEF ShmInv, RecordId, ShmTypeOK, Ids, Keys, Phases, Recorded
  <2>2. Phases'
    BY <1>5 DEF ShmInv, RecordId, ShmTypeOK, Phases
  <2>3. OneEach'
    BY <1>5 DEF ShmInv, RecordId, ShmTypeOK, Phases, OneEach, Recorded
  <2>4. HasSys'
    BY <1>5 DEF ShmInv, RecordId, ShmTypeOK, Phases, OneEach, HasSys, WithKey
  <2>5. Recorded'
    BY <1>5 DEF ShmInv, RecordId, ShmTypeOK, Ids, Phases, OneEach, Recorded, IsUser
  <2>6. Removed'
    BY <1>5 DEF ShmInv, RecordId, ShmTypeOK, Phases, OneEach, Recorded, Removed, IsUser
  <2>7. UserSegmentShared'
    BY <1>5 DEF ShmInv, RecordId, ShmTypeOK, Phases, OneEach, Recorded, IsUser, UserSegmentShared
  <2> QED BY <2>1, <2>2, <2>3, <2>4, <2>5, <2>6, <2>7 DEF ShmInv
<1>6. ASSUME NEW p \in Procs, RecordCreated(p) PROVE ShmInv'
  <2>1. ShmTypeOK'
    BY <1>6 DEF ShmInv, RecordCreated, ShmTypeOK, Ids, Keys, Phases, Recorded
  <2>2. Phases'
    BY <1>6 DEF ShmInv, RecordCreated, ShmTypeOK, Phases
  <2>3. OneEach'
    BY <1>6 DEF ShmInv, RecordCreated, ShmTypeOK, Phases, OneEach, Recorded
  <2>4. HasSys'
    BY <1>6 DEF ShmInv, RecordCreated, ShmTypeOK, Phases, OneEach, HasSys, WithKey
  <2>5. Recorded'
    BY <1>6 DEF ShmInv, RecordCreated, ShmTypeOK, Ids, Phases, OneEach, Recorded, IsUser
  <2>6. Removed'
    BY <1>6 DEF ShmInv, RecordCreated, ShmTypeOK, Phases, OneEach, Recorded, Removed, IsUser
  <2>7. UserSegmentShared'
    BY <1>6 DEF ShmInv, RecordCreated, ShmTypeOK, Phases, OneEach, Recorded, IsUser, UserSegmentShared
  <2> QED BY <2>1, <2>2, <2>3, <2>4, <2>5, <2>6, <2>7 DEF ShmInv
<1>7. ASSUME NEW p \in Procs, ShmAttach(p) PROVE ShmInv'
  <2>1. ShmTypeOK'
    BY <1>7 DEF ShmInv, ShmAttach, GlbVar, WithKey, ShmTypeOK, Ids, Keys, Phases, Recorded
  <2>2. Phases'
    BY <1>7 DEF ShmInv, ShmAttach, GlbVar, WithKey, ShmTypeOK, Phases
  <2>3. OneEach'
    BY <1>7 DEF ShmInv, ShmAttach, GlbVar, WithKey, ShmTypeOK, Phases, OneEach, Recorded
  <2>4. HasSys'
    BY <1>7 DEF ShmInv, ShmAttach, GlbVar, WithKey, ShmTypeOK, Phases, OneEach, HasSys
  <2>5. Recorded'
    BY <1>7 DEF ShmInv, ShmAttach, GlbVar, WithKey, ShmTypeOK, Ids, Phases, OneEach, Recorded, IsUser
  <2>6. Removed'
    BY <1>7 DEF ShmInv, ShmAttach, GlbVar, WithKey, ShmTypeOK, Phases, OneEach, Recorded, Removed, IsUser
  <2>7. UserSegmentShared'
    BY <1>7 DEF ShmInv, ShmAttach, GlbVar, WithKey, ShmTypeOK, Phases, OneEach, Recorded, IsUser, UserSegmentShared
  <2> QED BY <2>1, <2>2, <2>3, <2>4, <2>5, <2>6, <2>7 DEF ShmInv
<1>8. ASSUME NEW p \in Procs, UserAttach(p) PROVE ShmInv'
  <2>1. ShmTypeOK'
    BY <1>8 DEF ShmInv, UserAttach, ShmTypeOK, Ids, Keys, Phases, Recorded
  <2>2. Phases'
    BY <1>8 DEF ShmInv, UserAttach, ShmTypeOK, Phases
  <2>3. OneEach'
    BY <1>8 DEF ShmInv, UserAttach, ShmTypeOK, Phases, OneEach, Recorded
  <2>4. HasSys'
    BY <1>8 DEF ShmInv, UserAttach, ShmTypeOK, Phases, OneEach, HasSys, WithKey
  <2>5. Recorded'
    BY <1>8 DEF ShmInv, UserAttach, ShmTypeOK, Ids, Phases, OneEach, Recorded, IsUser
  <2>6. Removed'
    BY <1>8 DEF ShmInv, UserAttach, ShmTypeOK, Phases, OneEach, Recorded, Removed, IsUser
  <2>7. UserSegmentShared'
    BY <1>8 DEF ShmInv, UserAttach, ShmTypeOK, Phases, OneEach, Recorded, IsUser, UserSegmentShared
  <2> QED BY <2>1, <2>2, <2>3, <2>4, <2>5, <2>6, <2>7 DEF ShmInv
<1>9. ASSUME NEW p \in Procs, ShmDetach(p) PROVE ShmInv'
  <2>1. ShmTypeOK'
    BY <1>9 DEF ShmInv, ShmDetach, Kernel, Present, ShmTypeOK, Ids, Keys, Phases, Recorded
  <2>2. Phases'
    BY <1>9 DEF ShmInv, ShmDetach, Kernel, Present, ShmTypeOK, Phases
  <2>3. OneEach'
    BY <1>9 DEF ShmInv, ShmDetach, Kernel, Present, ShmTypeOK, Phases, OneEach, Recorded
  <2>4. HasSys'
    BY <1>9 DEF ShmInv, ShmDetach, Kernel, Present, ShmTypeOK, Phases, OneEach, HasSys, WithKey
  <2>5. Recorded'
    BY <1>9 DEF ShmInv, ShmDetach, Kernel, Present, ShmTypeOK, Ids, Phases, OneEach, Recorded, IsUser
  <2>6. Removed'
    BY <1>9 DEF ShmInv, ShmDetach, Kernel, Present, ShmTypeOK, Phases, OneEach, Recorded, Removed, IsUser
  <2>7. UserSegmentShared'
    BY <1>9 DEF ShmInv, ShmDetach, Kernel, Present, ShmTypeOK, Phases, OneEach, Recorded, IsUser, UserSegmentShared
  <2> QED BY <2>1, <2>2, <2>3, <2>4, <2>5, <2>6, <2>7 DEF ShmInv
<1>10. ASSUME NEW p \in Procs, Ends(p) PROVE ShmInv'
  <2>1. ShmTypeOK'
    BY <1>10 DEF ShmInv, Ends, Kernel, Present, ShmTypeOK, Ids, Keys, Phases, Recorded
  <2>2. Phases'
    BY <1>10 DEF ShmInv, Ends, Kernel, Present, ShmTypeOK, Phases
  <2>3. OneEach'
    BY <1>10 DEF ShmInv, Ends, Kernel, Present, ShmTypeOK, Phases, OneEach, Recorded
  <2>4. HasSys'
    BY <1>10 DEF ShmInv, Ends, Kernel, Present, ShmTypeOK, Phases, OneEach, HasSys, WithKey
  <2>5. Recorded'
    BY <1>10 DEF ShmInv, Ends, Kernel, Present, ShmTypeOK, Ids, Phases, OneEach, Recorded, IsUser
  <2>6. Removed'
    BY <1>10 DEF ShmInv, Ends, Kernel, Present, ShmTypeOK, Phases, OneEach, Recorded, Removed, IsUser
  <2>7. UserSegmentShared'
    BY <1>10 DEF ShmInv, Ends, Kernel, Present, ShmTypeOK, Phases, OneEach, Recorded, IsUser, UserSegmentShared
  <2> QED BY <2>1, <2>2, <2>3, <2>4, <2>5, <2>6, <2>7 DEF ShmInv
<1>11. ASSUME PgeEnds PROVE ShmInv'
  <2>1. ShmTypeOK'
    BY <1>11 DEF ShmInv, PgeEnds, ShmTypeOK, Ids, Keys, Phases, Recorded
  <2>2. Phases'
    BY <1>11 DEF ShmInv, PgeEnds, ShmTypeOK, Phases
  <2>3. OneEach'
    BY <1>11 DEF ShmInv, PgeEnds, ShmTypeOK, Phases, OneEach, Recorded
  <2>4. HasSys'
    BY <1>11 DEF ShmInv, PgeEnds, ShmTypeOK, Phases, OneEach, HasSys, WithKey
  <2>5. Recorded'
    BY <1>11 DEF ShmInv, PgeEnds, ShmTypeOK, Ids, Phases, OneEach, Recorded, IsUser
  <2>6. Removed'
    BY <1>11 DEF ShmInv, PgeEnds, ShmTypeOK, Phases, OneEach, Recorded, Removed, IsUser
  <2>7. UserSegmentShared'
    BY <1>11 DEF ShmInv, PgeEnds, ShmTypeOK, Phases, OneEach, Recorded, IsUser, UserSegmentShared
  <2> QED BY <2>1, <2>2, <2>3, <2>4, <2>5, <2>6, <2>7 DEF ShmInv
<1>12. ASSUME TermAttach PROVE ShmInv'
  <2>a. WithKey("sys") \subseteq DOMAIN segs
    BY DEF WithKey
  <2>b. att' \in [Procs \cup {TermCom} -> SUBSET DOMAIN segs]
    BY <1>12, <2>a DEF TermAttach, ShmInv, ShmTypeOK
  <2>1. ShmTypeOK'
    BY <1>12, <2>b DEF ShmInv, TermAttach, ShmTypeOK
  <2>2. Phases'
    BY <1>12 DEF ShmInv, TermAttach, WithKey, ShmTypeOK, Phases
  <2>3. OneEach'
    BY <1>12 DEF ShmInv, TermAttach, WithKey, ShmTypeOK, Phases, OneEach, Recorded
  <2>4. HasSys'
    BY <1>12 DEF ShmInv, TermAttach, WithKey, ShmTypeOK, Phases, OneEach, HasSys
  <2>5. Recorded'
    BY <1>12 DEF ShmInv, TermAttach, WithKey, ShmTypeOK, Ids, Phases, OneEach, Recorded, IsUser
  <2>6. Removed'
    BY <1>12 DEF ShmInv, TermAttach, WithKey, ShmTypeOK, Phases, OneEach, Recorded, Removed, IsUser
  <2>7. UserSegmentShared'
    BY <1>12 DEF ShmInv, TermAttach, WithKey, ShmTypeOK, Phases, OneEach, Recorded, IsUser, UserSegmentShared
  <2> QED BY <2>1, <2>2, <2>3, <2>4, <2>5, <2>6, <2>7 DEF ShmInv
<1>13. ASSUME RemoveUser PROVE ShmInv'
  <2>1. CASE \/ mem.created /\ RemoveFails
             \/ ~mem.created /\ phase' = "rmSys" /\ UNCHANGED <<segs, att, failed>>
    <3>1. ShmTypeOK'
      BY <1>13, <2>1 DEF ShmInv, RemoveUser, RemoveFails, ShmTypeOK, Recorded, Keys, Ids
    <3>2. Phases'
      BY <1>13, <2>1 DEF ShmInv, RemoveUser, RemoveFails, ShmTypeOK, Phases
    <3>3. OneEach'
      BY <1>13, <2>1 DEF ShmInv, RemoveUser, RemoveFails, ShmTypeOK, Phases, OneEach, Recorded
    <3>4. HasSys'
      BY <1>13, <2>1 DEF ShmInv, RemoveUser, RemoveFails, ShmTypeOK, Phases, OneEach, HasSys, WithKey
    <3>5. Recorded'
      BY <1>13, <2>1 DEF ShmInv, RemoveUser, RemoveFails, ShmTypeOK, Phases, OneEach, Recorded, IsUser, Ids
    <3>6. Removed'
      BY <1>13, <2>1 DEF ShmInv, RemoveUser, RemoveFails, ShmTypeOK, Phases, OneEach, Recorded, Removed, IsUser
    <3>7. UserSegmentShared'
      BY <1>13, <2>1 DEF ShmInv, RemoveUser, RemoveFails, ShmTypeOK, Phases, OneEach, Recorded, IsUser, UserSegmentShared
    <3> QED BY <3>1, <3>2, <3>3, <3>4, <3>5, <3>6, <3>7 DEF ShmInv
  <2>2. ASSUME mem.created, Rmid(mem.shmid), phase' = "rmSys", UNCHANGED failed
        PROVE  ShmInv'
    <3>0. /\ mem.shmid \in DOMAIN segs /\ segs[mem.shmid].key = "user"
          /\ \A p \in All : mem.shmid \notin att[p]
      BY <1>13, <2>2 DEF RemoveUser, ShmInv, ShmTypeOK, Phases, Recorded, IsUser
    <3> HIDE DEF All
    <3>a. /\ att' = att /\ att \in [All -> SUBSET DOMAIN segs']
          /\ DOMAIN segs' \subseteq DOMAIN segs \ {mem.shmid}
          /\ \A i \in DOMAIN segs' : segs'[i].key = segs[i].key
          /\ \A i \in DOMAIN segs' : IF i = mem.shmid THEN segs'[i].removed ELSE segs'[i] = segs[i]
          /\ SegsOK'
          /\ \A i \in DOMAIN segs \ {mem.shmid} : ~segs[i].removed => i \in DOMAIN segs'
      BY <2>2, <3>0, RmidGives DEF ShmInv
    <3>b. shmOn /\ phase = "rmUser" /\ UNCHANGED <<mem, shmOn, pc, shmid, usr>>
      BY <1>13 DEF RemoveUser, ShmInv, Phases
    <3> USE <2>2, <3>0, <3>a, <3>b
    <3>1. ShmTypeOK'
      BY DEF ShmInv, ShmTypeOK, SegsOK
    <3> USE DEF All
    <3>2. Phases'
      BY DEF ShmInv, ShmTypeOK, Phases
    <3>3. OneEach'
      BY DEF ShmInv, ShmTypeOK, Phases, OneEach, Recorded
    <3>4. HasSys'
      BY DEF ShmInv, ShmTypeOK, Phases, OneEach, HasSys, WithKey
    <3>5. Recorded'
      BY DEF ShmInv, ShmTypeOK, Phases, OneEach, Recorded, IsUser, Ids
    <3>6. Removed'
      BY DEF ShmInv, ShmTypeOK, Phases, OneEach, Recorded, Removed, IsUser
    <3>7. UserSegmentShared'
      BY DEF ShmInv, ShmTypeOK, Phases, OneEach, Recorded, IsUser, UserSegmentShared
    <3> QED BY <3>1, <3>2, <3>3, <3>4, <3>5, <3>6, <3>7 DEF ShmInv
  <2> QED BY <1>13, <2>1, <2>2 DEF RemoveUser, RemoveFails
<1>14. ASSUME RemoveSys PROVE ShmInv'
  <2>1. CASE UNCHANGED <<segs, att>> /\ RemoveFails
    <3>1. ShmTypeOK'
      BY <1>14, <2>1 DEF ShmInv, RemoveSys, RemoveFails, ShmTypeOK, Recorded, Keys, Ids
    <3>2. Phases'
      BY <1>14, <2>1 DEF ShmInv, RemoveSys, RemoveFails, ShmTypeOK, Phases
    <3>3. OneEach'
      BY <1>14, <2>1 DEF ShmInv, RemoveSys, RemoveFails, ShmTypeOK, Phases, OneEach, Recorded
    <3>4. HasSys'
      BY <1>14, <2>1 DEF ShmInv, RemoveSys, RemoveFails, ShmTypeOK, Phases, OneEach, HasSys, WithKey
    <3>5. Recorded'
      BY <1>14, <2>1 DEF ShmInv, RemoveSys, RemoveFails, ShmTypeOK, Phases, OneEach, Recorded, IsUser, Ids
    <3>6. Removed'
      BY <1>14, <2>1 DEF ShmInv, RemoveSys, RemoveFails, ShmTypeOK, Phases, OneEach, Recorded, Removed, IsUser
    <3>7. UserSegmentShared'
      BY <1>14, <2>1 DEF ShmInv, RemoveSys, RemoveFails, ShmTypeOK, Phases, OneEach, Recorded, IsUser, UserSegmentShared
    <3> QED BY <3>1, <3>2, <3>3, <3>4, <3>5, <3>6, <3>7 DEF ShmInv
  <2>2. ASSUME NEW id \in WithKey("sys"), Rmid(id), phase' = "exit", UNCHANGED failed
        PROVE  ShmInv'
    <3>0. id \in DOMAIN segs /\ segs[id].key = "sys"
      BY DEF WithKey
    <3> HIDE DEF All
    <3>a. /\ att' = att /\ att \in [All -> SUBSET DOMAIN segs']
          /\ DOMAIN segs' \subseteq DOMAIN segs
          /\ \A i \in DOMAIN segs' : segs'[i].key = segs[i].key
          /\ \A i \in DOMAIN segs' : IF i = id THEN segs'[i].removed ELSE segs'[i] = segs[i]
          /\ SegsOK'
      BY <2>2, <3>0, RmidGives DEF ShmInv
    <3>b. shmOn /\ phase = "rmSys" /\ UNCHANGED <<mem, shmOn, pc, shmid, usr>>
      BY <1>14 DEF RemoveSys, ShmInv, Phases
    <3> USE <2>2, <3>0, <3>a, <3>b
    <3>1. ShmTypeOK'
      BY DEF ShmInv, ShmTypeOK, SegsOK
    <3> USE DEF All
    <3>2. Phases'
      BY DEF ShmInv, ShmTypeOK, Phases
    <3>3. OneEach'
      BY DEF ShmInv, ShmTypeOK, Phases, OneEach, Recorded
    <3>4. HasSys'
      BY DEF ShmInv, ShmTypeOK, Phases, OneEach, HasSys, WithKey
    <3>5. Recorded'
      BY DEF ShmInv, ShmTypeOK, Phases, OneEach, Recorded, IsUser, Ids
    <3>6. Removed'
      BY DEF ShmInv, ShmTypeOK, Phases, OneEach, Recorded, Removed, IsUser
    <3>7. UserSegmentShared'
      BY DEF ShmInv, ShmTypeOK, Phases, OneEach, Recorded, IsUser, UserSegmentShared
    <3> QED BY <3>1, <3>2, <3>3, <3>4, <3>5, <3>6, <3>7 DEF ShmInv
  <2> QED BY <1>14, <2>1, <2>2 DEF RemoveSys, RemoveFails
<1>15. ASSUME TermExit PROVE ShmInv'
  <2>1. ShmTypeOK'
    BY <1>15 DEF ShmInv, TermExit, Kernel, Present, ShmTypeOK, Ids, Keys, Phases, Recorded
  <2>2. Phases'
    BY <1>15 DEF ShmInv, TermExit, Kernel, Present, ShmTypeOK, Phases
  <2>3. OneEach'
    BY <1>15 DEF ShmInv, TermExit, Kernel, Present, ShmTypeOK, Phases, OneEach, Recorded
  <2>4. HasSys'
    BY <1>15 DEF ShmInv, TermExit, Kernel, Present, ShmTypeOK, Phases, OneEach, HasSys, WithKey
  <2>5. Recorded'
    BY <1>15 DEF ShmInv, TermExit, Kernel, Present, ShmTypeOK, Ids, Phases, OneEach, Recorded, IsUser
  <2>6. Removed'
    BY <1>15 DEF ShmInv, TermExit, Kernel, Present, ShmTypeOK, Phases, OneEach, Recorded, Removed, IsUser
  <2>7. UserSegmentShared'
    BY <1>15 DEF ShmInv, TermExit, Kernel, Present, ShmTypeOK, Phases, OneEach, Recorded, IsUser, UserSegmentShared
  <2> QED BY <2>1, <2>2, <2>3, <2>4, <2>5, <2>6, <2>7 DEF ShmInv
<1>16. CASE UNCHANGED shmVars
  BY <1>16 DEF shmVars, ShmInv, ShmTypeOK, Phases, OneEach, HasSys, WithKey, Recorded, IsUser,
     Removed, UserSegmentShared
<1> QED BY <1>1, <1>2, <1>3, <1>4, <1>5, <1>6, <1>7, <1>8, <1>9, <1>10, <1>11, <1>12, <1>13, <1>14, <1>15, <1>16 DEF ShmNext, Process, Rest

\* The invariant holds in every state.
THEOREM ShmInvariant == ShmSpec => []ShmInv
PROOF
<1>1. ShmInit => ShmInv
  BY ShmInitHolds
<1>2. ShmInv /\ [ShmNext]_shmVars => ShmInv'
  BY ShmStepKeeps
<1> QED BY <1>1, <1>2, PTL DEF ShmSpec

\* The variables are well typed, for any number of processes and segments.
THEOREM ShmTypeCorrect == ShmSpec => []ShmTypeOK
PROOF
<1>1. ShmInv => ShmTypeOK
  BY DEF ShmInv
<1> QED BY <1>1, ShmInvariant, PTL

\* PGS_MEM_ShmCreate and PGS_MEM_ShmAttach: however the calls of the processes
\* interleave, whatever fails and whoever is killed, all that have attached
\* the user segment have the same.
THEOREM SegmentIsShared == ShmSpec => []UserSegmentShared
PROOF
<1>1. ShmInv => UserSegmentShared
  BY DEF ShmInv
<1> QED BY <1>1, ShmInvariant, PTL

\* PGS_MEM_ShmSysTerm: success means that no segment on record is left.
THEOREM NothingIsLeft == ShmSpec => []NothingLeft
PROOF
<1>1. ShmInv => NothingLeft
  BY DEF ShmInv, ShmTypeOK, OneEach, Removed, NothingLeft, Keys
<1> QED BY <1>1, ShmInvariant, PTL

\* PGS_MEM_ShmSysTerm: when a removal fails, the record of the user segment is
\* kept as long as the segment.
THEOREM StaysNamed == ShmSpec => []StillNamed
PROOF
<1>1. ASSUME ShmInv, shmOn, mem.created, mem.shmid \in DOMAIN segs PROVE WithKey("sys") # {}
  <2>1. CASE phase \in {"sysAttach", "pge", "term", "rmUser", "rmSys"} \/ failed
    BY <1>1, <2>1 DEF ShmInv, HasSys
  <2>2. CASE phase \in {"exit", "done"} /\ ~failed
    BY <1>1, <2>2 DEF ShmInv, Removed, Recorded, IsUser
  <2>3. CASE phase = "sysGet"
    BY <1>1, <2>3 DEF ShmInv, Recorded, Starts
  <2> QED BY <1>1, <2>1, <2>2, <2>3 DEF ShmInv, ShmTypeOK
<1>2. ShmInv => StillNamed
  BY <1>1 DEF StillNamed
<1> QED BY <1>2, ShmInvariant, PTL

----------------------------------------------------------------------------
(* Thread support: TSFMaster                                               *)

\* threadUsed has a first slot.
LEMMA HasSlots == MaxThreads \in Nat /\ MaxThreads > 0 /\ 0 \in Slots /\ NoSlot \notin Slots
PROOF BY ThreadsAssumption DEF Slots, NoSlot

\* A thread takes only a slot of the array: the search that leaves it finds none.
Types == TsfTypeOK /\ \A t \in Threads : place[t] = "take" => countVar[t] \in Slots

\* Before the first call nothing of the master is there.
LEMMA TypesInit == TsfInit => Types
PROOF
<1> SUFFICES ASSUME TsfInit PROVE Types
  OBVIOUS
<1> USE DEF TsfInit
<1>1. alive \subseteq Threads /\ countVar \in [Threads -> 0..MaxThreads]
  BY HasSlots, ThreadsAssumption
<1> QED BY <1>1 DEF Types, TsfTypeOK

\* Every step keeps the types, whoever calls first and whatever fails.
LEMMA TypesKept == Types /\ [TsfNext]_tsfVars => Types'
PROOF
<1> SUFFICES ASSUME Types, [TsfNext]_tsfVars PROVE Types'
  OBVIOUS
<1> USE HasSlots, ThreadsAssumption
    DEF Types, TsfTypeOK, Moves, Fails, Inside, threadVars, masterVars, slotVars
<1>1. ASSUME NEW t \in Threads, Call(t) PROVE Types'
  BY <1>1 DEF Call
<1>2. ASSUME NEW t \in Threads, MutexInit(t) PROVE Types'
  BY <1>2 DEF MutexInit
<1>3. ASSUME NEW t \in Threads, NoMutex(t) PROVE Types'
  BY <1>3 DEF NoMutex
<1>4. ASSUME NEW t \in Threads, Lock(t) PROVE Types'
  BY <1>4 DEF Lock
<1>5. ASSUME NEW t \in Threads, Test(t) PROVE Types'
  BY <1>5 DEF Test
<1>6. ASSUME NEW t \in Threads, InitKeys(t) PROVE Types'
  BY <1>6 DEF InitKeys
<1>7. ASSUME NEW t \in Threads, InitLocks(t) PROVE Types'
  BY <1>7 DEF InitLocks
<1>8. ASSUME NEW t \in Threads, Once(t) PROVE Types'
  BY <1>8 DEF Once
<1>9. ASSUME NEW t \in Threads, Skip(t) PROVE Types'
  BY <1>9 DEF Skip, Slots
<1>10. ASSUME NEW t \in Threads, Found(t) PROVE Types'
  BY <1>10 DEF Found
<1>11. ASSUME NEW t \in Threads, Take(t) PROVE Types'
  BY <1>11 DEF Take
<1>12. ASSUME NEW t \in Threads, Unlock(t) PROVE Types'
  BY <1>12 DEF Unlock
<1>13. ASSUME NEW t \in Threads, Start(t) PROVE Types'
  <2>1. Cardinality(alive') \in Nat
    BY <1>13, FS_Subset, FS_CardinalityType DEF Start
  <2> QED BY <1>13, <2>1 DEF Start
<1>14. ASSUME NEW t \in Threads, End(t) PROVE Types'
  BY <1>14 DEF End, WithoutSlotOf
<1>15. CASE UNCHANGED tsfVars
  BY <1>15 DEF tsfVars
<1> QED BY <1>1, <1>2, <1>3, <1>4, <1>5, <1>6, <1>7, <1>8, <1>9, <1>10, <1>11, <1>12, <1>13,
   <1>14, <1>15 DEF TsfNext, Undefined, Holding, Other

\* The threads, the master and the slots are well typed: whoever makes the
\* first call, whatever fails and however many threads there are, a slot that
\* is marked or given to a thread is one of the array.
THEOREM TsfTypeCorrect == TsfSpec => []TsfTypeOK
PROOF
<1>1. Types => TsfTypeOK
  BY DEF Types
<1> QED BY TypesInit, TypesKept, <1>1, PTL DEF TsfSpec

----------------------------------------------------------------------------
(* The slots, where the main thread makes the first call.                  *)

\* getGlobalLock is held by at most one thread, which is alive.
Held ==
    /\ \A t, u \in Threads : place[t] \in Inside /\ place[u] \in Inside => t = u
    /\ \A t \in Threads : place[t] \in Inside => locked
    /\ \A t \in Threads : place[t] # "idle" => t \in alive

\* Until the keys exist there is the main thread only.
Alone ==
    /\ keys <= 1 /\ (initFlag <=> keys > 0)
    /\ keys = 0 => alive = {Main} /\ created = {} /\ threadUsed = {} /\ index[Main] = NoSlot
    /\ \A t \in Threads : place[t] \in {"mutexInit", "initKeys"} => keys = 0
    /\ \A t \in Threads :
           place[t] \in {"initLocks", "once", "search", "take", "unlock"} => keys > 0

\* The main thread is still alone while it looks for its slot, which is 0.
MainHasZero ==
    created = SlotKeys /\ keys > 0 =>
        \/ index[Main] = 0
        \/ /\ alive = {Main} /\ threadUsed = {}
           /\ \/ place[Main] \in {"initLocks", "once"} /\ ~once[Main]
              \/ place[Main] \in {"search", "take"} /\ countVar[Main] = 0

\* With both keys, a thread that was initialised has a slot or is about to get it.
HasSlot ==
    /\ \A t \in Threads : once[t] \/ index[t] # NoSlot => t \in alive
    /\ created = SlotKeys => \A t \in Threads :
           /\ index[t] # NoSlot <=> once[t] /\ place[t] \notin {"search", "take"}
           /\ place[t] \in {"search", "take"} => once[t]

\* With both keys, the used slots are those of the threads.
UsedAreHeld ==
    /\ \A t \in Threads : index[t] # NoSlot => index[t] \in threadUsed
    /\ created = SlotKeys =>
           /\ \A s \in threadUsed : \E t \in Threads : index[t] = s
           /\ \A t \in Threads : index[t] = 0 => t = Main

\* With both keys and a slot for each thread, the search has a free one before it.
FreeAhead ==
    \A t \in Threads :
        /\ place[t] = "search" /\ created = SlotKeys /\ most <= MaxThreads =>
               \E s \in Slots \ threadUsed : countVar[t] <= s
        /\ place[t] = "take" => countVar[t] \in Slots \ threadUsed
        /\ place[t] \notin {"search", "take"} => countVar[t] = 0

Inv ==
    /\ Types /\ Cardinality(alive) <= most
    /\ Held /\ Alone /\ MainHasZero /\ HasSlot /\ UsedAreHeld /\ FreeAhead /\ SlotsExclusive

----------------------------------------------------------------------------

\* While a thread has no slot, one is free: the others, which were never more
\* than the slots with it, cannot have them all.
LEMMA OneIsFree ==
    ASSUME Types, HasSlot, UsedAreHeld, Cardinality(alive) <= most, most <= MaxThreads,
           created = SlotKeys, NEW t \in alive, index[t] = NoSlot
    PROVE  \E s \in Slots : s \notin threadUsed
PROOF
<1> SUFFICES ASSUME Slots \subseteq threadUsed PROVE FALSE
  OBVIOUS
<1> DEFINE holder == [s \in Slots |-> CHOOSE u \in Threads : index[u] = s]
<1>1. \A s \in Slots : holder[s] \in alive \ {t} /\ index[holder[s]] = s
  BY HasSlots DEF UsedAreHeld, HasSlot
<1>2. IsFiniteSet(Slots) /\ Cardinality(Slots) = MaxThreads
  BY FS_Interval, HasSlots DEF Slots
<1>3. IsFiniteSet(alive)
  BY FS_Subset, ThreadsAssumption DEF Types, TsfTypeOK
<1>4. /\ IsFiniteSet(alive \ {t})
      /\ Cardinality(alive \ {t}) = Cardinality(alive) - 1
      /\ Cardinality(alive) \in Nat
  BY <1>3, FS_RemoveElement, FS_CardinalityType
<1>5. Cardinality(alive \ {t}) < Cardinality(Slots)
  BY <1>2, <1>4, HasSlots DEF Types, TsfTypeOK
<1>6. holder \in [Slots -> alive \ {t}]
  BY <1>1
<1> HIDE DEF holder
<1>7. \E x, y \in Slots : x # y /\ holder[x] = holder[y]
  BY <1>2, <1>4, <1>5, <1>6, FS_PigeonHole
<1> QED BY <1>1, <1>7

\* The number of threads that run is bounded by the most there ever were.
LEMMA MostIsMost ==
    ASSUME Types, Cardinality(alive) <= most, [TsfNext]_tsfVars
    PROVE  Cardinality(alive') <= most' /\ most <= most'
PROOF
<1> USE HasSlots, ThreadsAssumption DEF Types, TsfTypeOK, threadVars
<1>1. IsFiniteSet(alive) /\ Cardinality(alive) \in Nat
  BY FS_Subset, FS_CardinalityType
<1>2. CASE UNCHANGED threadVars
  BY <1>2
<1>3. CASE \E t \in Threads : Start(t)
  <2>1. Cardinality(alive') \in Nat
    BY <1>3, FS_Subset, FS_CardinalityType DEF Start
  <2> QED BY <1>3, <2>1 DEF Start
<1>4. ASSUME NEW t \in Threads, End(t) PROVE Cardinality(alive') <= most' /\ most <= most'
  <2>1. alive' = alive \ {t} /\ most' = most /\ t \in alive
    BY <1>4 DEF End
  <2>2. Cardinality(alive') = Cardinality(alive) - 1
    BY <1>1, <2>1, FS_RemoveElement
  <2> QED BY <1>1, <2>1, <2>2
<1> QED BY <1>2, <1>3, <1>4
    DEF TsfNext, Undefined, Holding, Other, tsfVars, Call, MutexInit, NoMutex, Lock, Test,
       InitKeys,
        InitLocks, Once, Skip, Found, Take, Unlock

\* Before the first call nothing of the master is there.
LEMMA InitHolds == TsfInit => Inv
PROOF
<1> SUFFICES ASSUME TsfInit PROVE Inv
  OBVIOUS
<1>1. Cardinality(alive) <= most
  BY FS_Singleton DEF TsfInit
<1> USE DEF TsfInit
<1>2. Held /\ Alone /\ MainHasZero /\ HasSlot
  BY ThreadsAssumption DEF Held, Alone, MainHasZero, HasSlot, Inside
<1>3. UsedAreHeld /\ FreeAhead /\ SlotsExclusive
  BY HasSlots DEF UsedAreHeld, FreeAhead, SlotsExclusive
<1> QED BY <1>1, <1>2, <1>3, TypesInit DEF Inv

\* Every step of a process whose main thread makes the first call keeps it.
LEMMA StepKeeps ==
    ASSUME MainFirst, Inv, [TsfNext]_tsfVars
    PROVE  Inv'
PROOF
<1> USE HasSlots, ThreadsAssumption DEF Moves, Inside, SlotKeys, threadVars, masterVars, slotVars
<1>a. Types' /\ Cardinality(alive') <= most' /\ most <= most'
  BY TypesKept, MostIsMost DEF Inv
<1>t. Types /\ most \in Nat /\ most' \in Nat
  BY <1>a DEF Inv, Types, TsfTypeOK
<1>1. ASSUME NEW t \in Threads, Call(t) PROVE Inv'
  <2>1. Held'
    BY <1>1 DEF Inv, Call, Types, TsfTypeOK, Held, Alone
  <2>2. Alone'
    BY <1>1 DEF Inv, Call, Types, TsfTypeOK, Alone, Held
  <2>3. MainHasZero'
    BY <1>1 DEF Inv, Call, Types, TsfTypeOK, Held, Alone, MainHasZero, HasSlot, UsedAreHeld,
       FreeAhead
  <2>4. HasSlot'
    BY <1>1 DEF Inv, Call, Types, TsfTypeOK, HasSlot, Held, Alone
  <2>5. UsedAreHeld'
    BY <1>1 DEF Inv, Call, Types, TsfTypeOK, UsedAreHeld, MainHasZero, HasSlot, Alone
  <2>6. FreeAhead'
    BY <1>a, <1>t, <1>1 DEF Inv, Call, Types, TsfTypeOK, FreeAhead, Held, Alone
  <2>7. SlotsExclusive'
    BY <1>1 DEF Inv, Call, Types, TsfTypeOK, SlotsExclusive, UsedAreHeld, FreeAhead, Held
  <2> QED BY <1>a, <2>1, <2>2, <2>3, <2>4, <2>5, <2>6, <2>7 DEF Inv
<1>2. ASSUME NEW t \in Threads, MutexInit(t) PROVE Inv'
  <2>1. Held'
    BY <1>2 DEF Inv, MutexInit, Types, TsfTypeOK, Held, Alone
  <2>2. Alone'
    BY <1>2 DEF Inv, MutexInit, Types, TsfTypeOK, Alone, Held
  <2>3. MainHasZero'
    BY <1>2 DEF Inv, MutexInit, Types, TsfTypeOK, Held, Alone, MainHasZero, HasSlot,
       UsedAreHeld, FreeAhead
  <2>4. HasSlot'
    BY <1>2 DEF Inv, MutexInit, Types, TsfTypeOK, HasSlot, Held, Alone
  <2>5. UsedAreHeld'
    BY <1>2 DEF Inv, MutexInit, Types, TsfTypeOK, UsedAreHeld, MainHasZero, HasSlot, Alone
  <2>6. FreeAhead'
    BY <1>a, <1>t, <1>2 DEF Inv, MutexInit, Types, TsfTypeOK, FreeAhead, Held, Alone
  <2>7. SlotsExclusive'
    BY <1>2 DEF Inv, MutexInit, Types, TsfTypeOK, SlotsExclusive, UsedAreHeld, FreeAhead, Held
  <2> QED BY <1>a, <2>1, <2>2, <2>3, <2>4, <2>5, <2>6, <2>7 DEF Inv
<1>3. ASSUME NEW t \in Threads, NoMutex(t) PROVE Inv'
  <2>1. Held'
    BY <1>3 DEF Inv, NoMutex, Types, TsfTypeOK, Held, Alone
  <2>2. Alone'
    BY <1>3 DEF Inv, NoMutex, Types, TsfTypeOK, Alone, Held
  <2>3. MainHasZero'
    BY <1>3 DEF Inv, NoMutex, Types, TsfTypeOK, Held, Alone, MainHasZero, HasSlot, UsedAreHeld,
       FreeAhead
  <2>4. HasSlot'
    BY <1>3 DEF Inv, NoMutex, Types, TsfTypeOK, HasSlot, Held, Alone
  <2>5. UsedAreHeld'
    BY <1>3 DEF Inv, NoMutex, Types, TsfTypeOK, UsedAreHeld, MainHasZero, HasSlot, Alone
  <2>6. FreeAhead'
    BY <1>a, <1>t, <1>3 DEF Inv, NoMutex, Types, TsfTypeOK, FreeAhead, Held, Alone
  <2>7. SlotsExclusive'
    BY <1>3 DEF Inv, NoMutex, Types, TsfTypeOK, SlotsExclusive, UsedAreHeld, FreeAhead, Held
  <2> QED BY <1>a, <2>1, <2>2, <2>3, <2>4, <2>5, <2>6, <2>7 DEF Inv
<1>4. ASSUME NEW t \in Threads, Lock(t) PROVE Inv'
  <2>1. Held'
    BY <1>4 DEF Inv, Lock, Types, TsfTypeOK, Held, Alone
  <2>2. Alone'
    BY <1>4 DEF Inv, Lock, Types, TsfTypeOK, Alone, Held
  <2>3. MainHasZero'
    BY <1>4 DEF Inv, Lock, Types, TsfTypeOK, Held, Alone, MainHasZero, HasSlot, UsedAreHeld,
       FreeAhead
  <2>4. HasSlot'
    BY <1>4 DEF Inv, Lock, Types, TsfTypeOK, HasSlot, Held, Alone
  <2>5. UsedAreHeld'
    BY <1>4 DEF Inv, Lock, Types, TsfTypeOK, UsedAreHeld, MainHasZero, HasSlot, Alone
  <2>6. FreeAhead'
    BY <1>a, <1>t, <1>4 DEF Inv, Lock, Types, TsfTypeOK, FreeAhead, Held, Alone
  <2>7. SlotsExclusive'
    BY <1>4 DEF Inv, Lock, Types, TsfTypeOK, SlotsExclusive, UsedAreHeld, FreeAhead, Held
  <2> QED BY <1>a, <2>1, <2>2, <2>3, <2>4, <2>5, <2>6, <2>7 DEF Inv
<1>5. ASSUME NEW t \in Threads, Test(t) PROVE Inv'
  <2>1. Held'
    BY <1>5 DEF Inv, Test, Types, TsfTypeOK, Held, Alone
  <2>2. Alone'
    BY <1>5 DEF Inv, Test, Types, TsfTypeOK, Alone, Held
  <2>3. MainHasZero'
    BY <1>5 DEF Inv, Test, Types, TsfTypeOK, Held, Alone, MainHasZero, HasSlot, UsedAreHeld,
       FreeAhead
  <2>4. HasSlot'
    BY <1>5 DEF Inv, Test, Types, TsfTypeOK, HasSlot, Held, Alone
  <2>5. UsedAreHeld'
    BY <1>5 DEF Inv, Test, Types, TsfTypeOK, UsedAreHeld, MainHasZero, HasSlot, Alone
  <2>6. FreeAhead'
    BY <1>a, <1>t, <1>5 DEF Inv, Test, Types, TsfTypeOK, FreeAhead, Held, Alone
  <2>7. SlotsExclusive'
    BY <1>5 DEF Inv, Test, Types, TsfTypeOK, SlotsExclusive, UsedAreHeld, FreeAhead, Held
  <2> QED BY <1>a, <2>1, <2>2, <2>3, <2>4, <2>5, <2>6, <2>7 DEF Inv
<1>6. ASSUME NEW t \in Threads, InitKeys(t) PROVE Inv'
  <2>1. Held'
    BY <1>6 DEF Inv, InitKeys, Types, TsfTypeOK, Held, Alone
  <2>2. Alone'
    BY <1>6 DEF Inv, InitKeys, Types, TsfTypeOK, Alone, Held
  <2>3. MainHasZero'
    BY <1>6 DEF Inv, InitKeys, Types, TsfTypeOK, Held, Alone, MainHasZero, HasSlot, UsedAreHeld,
       FreeAhead
  <2>4. HasSlot'
    BY <1>6 DEF Inv, InitKeys, Types, TsfTypeOK, HasSlot, Held, Alone
  <2>5. UsedAreHeld'
    BY <1>6 DEF Inv, InitKeys, Types, TsfTypeOK, UsedAreHeld, MainHasZero, HasSlot, Alone
  <2>6. FreeAhead'
    BY <1>a, <1>t, <1>6 DEF Inv, InitKeys, Types, TsfTypeOK, FreeAhead, Held, Alone
  <2>7. SlotsExclusive'
    BY <1>6 DEF Inv, InitKeys, Types, TsfTypeOK, SlotsExclusive, UsedAreHeld, FreeAhead, Held
  <2> QED BY <1>a, <2>1, <2>2, <2>3, <2>4, <2>5, <2>6, <2>7 DEF Inv
<1>7. ASSUME NEW t \in Threads, InitLocks(t) PROVE Inv'
  <2>1. Held'
    BY <1>7 DEF Inv, InitLocks, Types, TsfTypeOK, Held, Alone
  <2>2. Alone'
    BY <1>7 DEF Inv, InitLocks, Types, TsfTypeOK, Alone, Held
  <2>3. MainHasZero'
    BY <1>7 DEF Inv, InitLocks, Types, TsfTypeOK, Held, Alone, MainHasZero, HasSlot,
       UsedAreHeld, FreeAhead
  <2>4. HasSlot'
    BY <1>7 DEF Inv, InitLocks, Types, TsfTypeOK, HasSlot, Held, Alone
  <2>5. UsedAreHeld'
    BY <1>7 DEF Inv, InitLocks, Types, TsfTypeOK, UsedAreHeld, MainHasZero, HasSlot, Alone
  <2>6. FreeAhead'
    BY <1>a, <1>t, <1>7 DEF Inv, InitLocks, Types, TsfTypeOK, FreeAhead, Held, Alone
  <2>7. SlotsExclusive'
    BY <1>7 DEF Inv, InitLocks, Types, TsfTypeOK, SlotsExclusive, UsedAreHeld, FreeAhead, Held
  <2> QED BY <1>a, <2>1, <2>2, <2>3, <2>4, <2>5, <2>6, <2>7 DEF Inv
<1>8. ASSUME NEW t \in Threads, Once(t) PROVE Inv'
  <2>1. Held'
    BY <1>8 DEF Inv, Once, Types, TsfTypeOK, Held, Alone
  <2>2. Alone'
    BY <1>8 DEF Inv, Once, Types, TsfTypeOK, Alone, Held
  <2>3. MainHasZero'
    BY <1>8 DEF Inv, Once, Types, TsfTypeOK, Held, Alone, MainHasZero, HasSlot, UsedAreHeld,
       FreeAhead
  <2>4. HasSlot'
    BY <1>8 DEF Inv, Once, Types, TsfTypeOK, HasSlot, Held, Alone
  <2>5. UsedAreHeld'
    BY <1>8 DEF Inv, Once, Types, TsfTypeOK, UsedAreHeld, MainHasZero, HasSlot, Alone
  <2>6. FreeAhead'
    <3>1. created = SlotKeys /\ most <= MaxThreads /\ ~once[t] =>
              \E s \in Slots \ threadUsed : 0 <= s
      BY <1>8, OneIsFree DEF Inv, Once, Held, HasSlot, Slots
    <3> QED BY <1>a, <1>t, <1>8, <3>1 DEF Inv, Once, Types, TsfTypeOK, FreeAhead, Held
  <2>7. SlotsExclusive'
    BY <1>8 DEF Inv, Once, Types, TsfTypeOK, SlotsExclusive, UsedAreHeld, FreeAhead, Held
  <2> QED BY <1>a, <2>1, <2>2, <2>3, <2>4, <2>5, <2>6, <2>7 DEF Inv
<1>9. ASSUME NEW t \in Threads, Skip(t) PROVE Inv'
  <2>1. Held'
    BY <1>9 DEF Inv, Skip, Slots, Types, TsfTypeOK, Held, Alone
  <2>2. Alone'
    BY <1>9 DEF Inv, Skip, Slots, Types, TsfTypeOK, Alone, Held
  <2>3. MainHasZero'
    BY <1>9 DEF Inv, Skip, Slots, Types, TsfTypeOK, Held, Alone, MainHasZero, HasSlot,
       UsedAreHeld, FreeAhead
  <2>4. HasSlot'
    BY <1>9 DEF Inv, Skip, Slots, Types, TsfTypeOK, HasSlot, Held, Alone
  <2>5. UsedAreHeld'
    BY <1>9 DEF Inv, Skip, Slots, Types, TsfTypeOK, UsedAreHeld, MainHasZero, HasSlot, Alone
  <2>6. FreeAhead'
    BY <1>a, <1>t, <1>9 DEF Inv, Skip, Slots, Types, TsfTypeOK, FreeAhead, Held, Alone
  <2>7. SlotsExclusive'
    BY <1>9 DEF Inv, Skip, Slots, Types, TsfTypeOK, SlotsExclusive, UsedAreHeld, FreeAhead, Held
  <2> QED BY <1>a, <2>1, <2>2, <2>3, <2>4, <2>5, <2>6, <2>7 DEF Inv
<1>10. ASSUME NEW t \in Threads, Found(t) PROVE Inv'
  <2>1. Held'
    BY <1>10 DEF Inv, Found, Types, TsfTypeOK, Held, Alone
  <2>2. Alone'
    BY <1>10 DEF Inv, Found, Types, TsfTypeOK, Alone, Held
  <2>3. MainHasZero'
    BY <1>10 DEF Inv, Found, Types, TsfTypeOK, Held, Alone, MainHasZero, HasSlot, UsedAreHeld,
       FreeAhead
  <2>4. HasSlot'
    BY <1>10 DEF Inv, Found, Types, TsfTypeOK, HasSlot, Held, Alone
  <2>5. UsedAreHeld'
    BY <1>10 DEF Inv, Found, Types, TsfTypeOK, UsedAreHeld, MainHasZero, HasSlot, Alone
  <2>6. FreeAhead'
    BY <1>a, <1>t, <1>10 DEF Inv, Found, Types, TsfTypeOK, FreeAhead, Held, Alone
  <2>7. SlotsExclusive'
    BY <1>10 DEF Inv, Found, Types, TsfTypeOK, SlotsExclusive, UsedAreHeld, FreeAhead, Held
  <2> QED BY <1>a, <2>1, <2>2, <2>3, <2>4, <2>5, <2>6, <2>7 DEF Inv
<1>11. ASSUME NEW t \in Threads, Take(t) PROVE Inv'
  <2>1. Held'
    BY <1>11 DEF Inv, Take, Types, TsfTypeOK, Held, Alone
  <2>2. Alone'
    BY <1>11 DEF Inv, Take, Types, TsfTypeOK, Alone, Held
  <2>3. MainHasZero'
    BY <1>11 DEF Inv, Take, Types, TsfTypeOK, Held, Alone, MainHasZero, HasSlot, UsedAreHeld,
       FreeAhead
  <2>4. HasSlot'
    BY <1>11 DEF Inv, Take, Types, TsfTypeOK, HasSlot, Held, Alone
  <2>5. UsedAreHeld'
    <3>1. countVar[t] \in Slots \ threadUsed /\ t \in alive /\ keys > 0
      BY <1>11 DEF Inv, Take, FreeAhead, Held, Alone
    <3>2. created = SlotKeys /\ t # Main => 0 \in threadUsed
      BY <3>1 DEF Inv, MainHasZero, UsedAreHeld, Types, TsfTypeOK
    <3>3. created = SlotKeys => index[t] = NoSlot
      BY <1>11 DEF Inv, Take, HasSlot
    <3> QED BY <1>11, <3>1, <3>2, <3>3 DEF Inv, Take, Types, TsfTypeOK, UsedAreHeld
  <2>6. FreeAhead'
    BY <1>a, <1>t, <1>11 DEF Inv, Take, Types, TsfTypeOK, FreeAhead, Held, Alone
  <2>7. SlotsExclusive'
    BY <1>11 DEF Inv, Take, Types, TsfTypeOK, SlotsExclusive, UsedAreHeld, FreeAhead, Held
  <2> QED BY <1>a, <2>1, <2>2, <2>3, <2>4, <2>5, <2>6, <2>7 DEF Inv
<1>12. ASSUME NEW t \in Threads, Unlock(t) PROVE Inv'
  <2>1. Held'
    BY <1>12 DEF Inv, Unlock, Types, TsfTypeOK, Held, Alone
  <2>2. Alone'
    BY <1>12 DEF Inv, Unlock, Types, TsfTypeOK, Alone, Held
  <2>3. MainHasZero'
    BY <1>12 DEF Inv, Unlock, Types, TsfTypeOK, Held, Alone, MainHasZero, HasSlot, UsedAreHeld,
       FreeAhead
  <2>4. HasSlot'
    BY <1>12 DEF Inv, Unlock, Types, TsfTypeOK, HasSlot, Held, Alone
  <2>5. UsedAreHeld'
    BY <1>12 DEF Inv, Unlock, Types, TsfTypeOK, UsedAreHeld, MainHasZero, HasSlot, Alone
  <2>6. FreeAhead'
    BY <1>a, <1>t, <1>12 DEF Inv, Unlock, Types, TsfTypeOK, FreeAhead, Held, Alone
  <2>7. SlotsExclusive'
    BY <1>12 DEF Inv, Unlock, Types, TsfTypeOK, SlotsExclusive, UsedAreHeld, FreeAhead, Held
  <2> QED BY <1>a, <2>1, <2>2, <2>3, <2>4, <2>5, <2>6, <2>7 DEF Inv
<1>13. ASSUME NEW t \in Threads, Start(t) PROVE Inv'
  <2>1. Held'
    BY <1>13 DEF Inv, Start, Types, TsfTypeOK, Held, Alone
  <2>2. Alone'
    BY <1>13 DEF Inv, Start, Types, TsfTypeOK, Alone, Held
  <2>3. MainHasZero'
    BY <1>13 DEF Inv, Start, Types, TsfTypeOK, Held, Alone, MainHasZero, HasSlot, UsedAreHeld,
       FreeAhead
  <2>4. HasSlot'
    BY <1>13 DEF Inv, Start, Types, TsfTypeOK, HasSlot, Held, Alone
  <2>5. UsedAreHeld'
    BY <1>13 DEF Inv, Start, Types, TsfTypeOK, UsedAreHeld, MainHasZero, HasSlot, Alone
  <2>6. FreeAhead'
    BY <1>a, <1>t, <1>13 DEF Inv, Start, Types, TsfTypeOK, FreeAhead, Held, Alone
  <2>7. SlotsExclusive'
    BY <1>13 DEF Inv, Start, Types, TsfTypeOK, SlotsExclusive, UsedAreHeld, FreeAhead, Held
  <2> QED BY <1>a, <2>1, <2>2, <2>3, <2>4, <2>5, <2>6, <2>7 DEF Inv
<1>14. ASSUME NEW t \in Threads, End(t) PROVE Inv'
  <2>1. Held'
    BY <1>14 DEF Inv, End, WithoutSlotOf, Types, TsfTypeOK, Held, Alone
  <2>2. Alone'
    BY <1>14 DEF Inv, End, WithoutSlotOf, Types, TsfTypeOK, Alone, Held
  <2>3. MainHasZero'
    BY <1>14 DEF Inv, End, WithoutSlotOf, Types, TsfTypeOK, Held, Alone, MainHasZero, HasSlot,
       UsedAreHeld, FreeAhead
  <2>4. HasSlot'
    BY <1>14 DEF Inv, End, WithoutSlotOf, Types, TsfTypeOK, HasSlot, Held, Alone
  <2>5. UsedAreHeld'
    <3>1. created = SlotKeys => \A s \in threadUsed' : index[t] # s
      BY <1>14 DEF Inv, End, WithoutSlotOf, UsedAreHeld
    <3>2. \A u \in Threads : u # t /\ index[u] # NoSlot => index[u] \in threadUsed'
      BY <1>14 DEF Inv, End, WithoutSlotOf, UsedAreHeld, SlotsExclusive
    <3> QED BY <1>14, <3>1, <3>2 DEF Inv, End, WithoutSlotOf, Types, TsfTypeOK, UsedAreHeld
  <2>6. FreeAhead'
    BY <1>a, <1>t, <1>14 DEF Inv, End, WithoutSlotOf, Types, TsfTypeOK, FreeAhead, Held, Alone
  <2>7. SlotsExclusive'
    BY <1>14 DEF Inv, End, WithoutSlotOf, Types, TsfTypeOK, SlotsExclusive, UsedAreHeld,
       FreeAhead, Held
  <2> QED BY <1>a, <2>1, <2>2, <2>3, <2>4, <2>5, <2>6, <2>7 DEF Inv
<1>15. CASE UNCHANGED tsfVars
  BY <1>a, <1>15 DEF tsfVars, Inv, Held, Alone, MainHasZero, HasSlot, UsedAreHeld, FreeAhead,
     SlotsExclusive
<1> QED BY <1>1, <1>2, <1>3, <1>4, <1>5, <1>6, <1>7, <1>8, <1>9, <1>10, <1>11, <1>12, <1>13,
   <1>14, <1>15 DEF TsfNext, Undefined, Holding, Other

\* The invariant holds in every state.
LEMMA AlwaysInv == ASSUME MainFirst PROVE TsfSpec => []Inv
PROOF
<1>1. Inv /\ [TsfNext]_tsfVars => Inv'
  BY StepKeeps
<1> QED BY InitHolds, <1>1, PTL DEF TsfSpec

----------------------------------------------------------------------------

\* Where the main thread calls first, two threads never have one slot, though
\* the destructor of an ending thread gives slots back without the lock while
\* others search, and whichever key or mutex could not be created.
THEOREM SlotsAreExclusive == ASSUME MainFirst PROVE TsfSpec => []SlotsExclusive
PROOF
<1>1. Inv => SlotsExclusive
  BY DEF Inv
<1> QED BY AlwaysInv, <1>1, PTL

\* Where the main thread calls first, the search that has no bound leaves the
\* array only if there were more threads at once than slots or if a key is
\* missing: else a slot is free when it begins, and one stays free before it.
THEOREM SearchStaysInBounds == ASSUME MainFirst PROVE TsfSpec => []SearchInBounds
PROOF
<1>1. Inv => SearchInBounds
  BY HasSlots DEF Inv, Types, TsfTypeOK, FreeAhead, SearchInBounds, Overrun, Slots
<1> QED BY AlwaysInv, <1>1, PTL

\* Where the main thread calls first and both keys exist, a thread keeps its
\* slot as long as it runs.
THEOREM SlotIsKept == ASSUME MainFirst PROVE TsfSpec => SlotKept
PROOF
<1> DEFINE Keeps == \A t \in alive \cap alive' :
                       created = SlotKeys /\ index[t] # NoSlot =>
                           index'[t] = index[t] /\ index[t] \in threadUsed'
<1>1. ASSUME Inv, [TsfNext]_tsfVars PROVE Keeps
  <2> SUFFICES ASSUME NEW t \in alive \cap alive', created = SlotKeys, index[t] # NoSlot
               PROVE  index'[t] = index[t] /\ index[t] \in threadUsed'
    OBVIOUS
  <2>1. t \in Threads /\ index[t] \in threadUsed
    BY <1>1 DEF Inv, Types, TsfTypeOK, UsedAreHeld
  <2>2. CASE UNCHANGED <<index, threadUsed>>
    BY <2>1, <2>2
  <2>3. CASE \E u \in Threads : InitKeys(u)
    BY <1>1, <2>1, <2>3 DEF Inv, InitKeys, Moves, Alone
  <2>4. CASE \E u \in Threads : Take(u)
    BY <1>1, <2>1, <2>4 DEF Inv, Types, TsfTypeOK, HasSlot, Take, Moves
  <2>5. CASE \E u \in Threads : End(u)
    BY <1>1, <2>1, <2>5 DEF Inv, Types, TsfTypeOK, SlotsExclusive, End, WithoutSlotOf
  <2> QED
    BY <1>1, <2>2, <2>3, <2>4, <2>5
    DEF TsfNext, Undefined, Holding, Other, tsfVars, slotVars, Call, MutexInit, NoMutex, Lock,
       Test,
        InitLocks, Once, Skip, Found, Unlock, Start
<1>2. Inv /\ [TsfNext]_tsfVars => [Keeps]_tsfVars
  BY <1>1
<1> QED BY AlwaysInv, <1>2, PTL DEF TsfSpec, SlotKept
=============================================================================
