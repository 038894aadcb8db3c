------------------------------- MODULE MEMDyn -------------------------------
(***************************************************************************)
(* The dynamic memory tools of the toolkit (MEM/PGS_MEM.c).  Every block   *)
(* they hand out is recorded in a node of a doubly linked list; the head   *)
(* is the newest node, prev leads to older ones and next back to newer     *)
(* ones.  PGS_MEM_Free, _Realloc and _FreeAll trust this list and a node   *)
(* counter.  All tools run under MEMLOCK, so a call is one step; FreeAll   *)
(* is one step per block.  malloc, calloc and realloc may fail.            *)
(***************************************************************************)
EXTENDS Naturals, FiniteSets

CONSTANTS
    Addr,    \* addresses of blocks
    Node,    \* addresses of list nodes
    Var,     \* pointer variables of the caller
    Sizes,   \* sizes a caller may ask for
    Null     \* the null pointer

ASSUME SizesAssumption == Sizes \subseteq Nat \ {0}
ASSUME NullAssumption == Null \notin Addr /\ Null \notin Node

VARIABLES
    head,                          \* pgsmem_node_head
    cnt,                           \* pgsmem_node_cnt
    live,                          \* nodes that are allocated
    nAddr, nSize, nNext, nPrev,    \* their fields
    block,                         \* the size of each allocated block, or 0
    ptr,                           \* the caller's variables
    sweeping,                      \* is PGS_MEM_FreeAll running?
    fault                          \* was memory freed twice, or NULL followed?

fields == <<nAddr, nSize, nNext, nPrev>>
list == <<head, cnt, live, fields>>
vars == <<list, block, ptr, sweeping, fault>>

Init ==
    /\ head = Null /\ cnt = 0 /\ live = {}
    /\ nAddr = [n \in Node |-> Null] /\ nSize = [n \in Node |-> 0]
    /\ nNext = [n \in Node |-> Null] /\ nPrev = [n \in Node |-> Null]
    /\ block = [a \in Addr |-> 0]
    /\ ptr = [v \in Var |-> Null]
    /\ sweeping = FALSE /\ fault = FALSE

----------------------------------------------------------------------------
(* The list                                                                *)

\* Node n is reached from the head in k steps along prev.
Walk(k, n) ==
    \E p \in [0..k -> live] :
        /\ p[0] = head /\ p[k] = n
        /\ \A i \in 0..(k - 1) : nPrev[p[i]] = p[i + 1]

\* PGS_MEM_LinkMemberExist: the nodes of the list that record address a.
Members(a) ==
    {n \in live : nAddr[n] = a /\ \E k \in 0..cnt : Walk(k, n)}

ForgetsNext(n, h, nx) == [nx EXCEPT ![n] = Null]     \* mutated LinkAfter
LinkAfter(n, h, nx) ==
    [m \in Node |-> IF m = n THEN Null ELSE IF m = h THEN n ELSE nx[m]]

\* PGS_MEM_LinkAddNode: the new node becomes the head.
NotCounted(n, a, size) ==                          \* mutated AddNode
    /\ head' = n /\ live' = live \cup {n} /\ UNCHANGED cnt
    /\ nAddr' = [nAddr EXCEPT ![n] = a]
    /\ nSize' = [nSize EXCEPT ![n] = size]
    /\ nPrev' = [nPrev EXCEPT ![n] = head]
    /\ nNext' = LinkAfter(n, head, nNext)
AddNode(n, a, size) ==
    /\ head' = n /\ cnt' = cnt + 1 /\ live' = live \cup {n}
    /\ nAddr' = [nAddr EXCEPT ![n] = a]
    /\ nSize' = [nSize EXCEPT ![n] = size]
    /\ nPrev' = [nPrev EXCEPT ![n] = head]
    /\ nNext' = LinkAfter(n, head, nNext)

\* PGS_MEM_LinkDelNode: the head, next and prev once node n is unlinked.  A
\* freed node keeps nothing (its fields are reset, since no code may read
\* them).
CutHead(n, h, c, pv) == IF n # h THEN h ELSE IF c = 1 THEN Null ELSE pv[n]

CutNext(n, h, nx, pv) ==
    [m \in Node |->
        IF m = n THEN Null
        ELSE IF m = pv[n] THEN (IF n = h THEN Null ELSE nx[n])
        ELSE nx[m]]

CutPrev(n, h, nx, pv) ==
    [m \in Node |->
        IF m = n THEN Null
        ELSE IF n # h /\ m = nx[n] THEN pv[n]
        ELSE pv[m]]

\* The pointers LinkDelNode follows without a test are not NULL, and the
\* block it frees is allocated.
DelFaults(n) ==
    \/ block[nAddr[n]] = 0
    \/ n = head /\ cnt # 1 /\ nPrev[n] = Null
    \/ n # head /\ nNext[n] = Null

DelNode(n) ==
    /\ head' = CutHead(n, head, cnt, nPrev)
    /\ nNext' = CutNext(n, head, nNext, nPrev)
    /\ nPrev' = CutPrev(n, head, nNext, nPrev)
    /\ cnt' = cnt - 1 /\ live' = live \ {n}
    /\ nAddr' = [nAddr EXCEPT ![n] = Null]
    /\ nSize' = [nSize EXCEPT ![n] = 0]
    /\ block' = [block EXCEPT ![nAddr[n]] = 0]
    /\ fault' = (fault \/ DelFaults(n))

----------------------------------------------------------------------------
(* The tools                                                               *)

\* PGS_MEM_Malloc and PGS_MEM_Calloc.  A variable that already holds the
\* address of a recorded block is refused (W_MEMORY_USED).
Malloc(v, size) ==
    /\ ~sweeping
    /\ Members(ptr[v]) = {}
    /\ \/ ptr' = [ptr EXCEPT ![v] = Null]         \* malloc: E_NO_MEMORY
          /\ UNCHANGED <<list, block>>
       \/ \E a \in Addr :
             /\ block[a] = 0
             /\ block' = [block EXCEPT ![a] = size]
             /\ ptr' = [ptr EXCEPT ![v] = a]
             /\ \/ \E n \in Node \ live : AddNode(n, a, size)
                \/ UNCHANGED list                 \* no node: E_NO_MEMORY
    /\ UNCHANGED <<sweeping, fault>>

SizeOnly(n, b, size) ==                            \* mutated ReplaceAddr
    /\ nSize' = [nSize EXCEPT ![n] = size]
    /\ UNCHANGED nAddr
\* PGS_MEM_LinkReplaceAddr
ReplaceAddr(n, b, size) ==
    /\ nAddr' = [nAddr EXCEPT ![n] = b]
    /\ nSize' = [nSize EXCEPT ![n] = size]

AnySize(n, size) == TRUE                           \* mutated Grows
Grows(n, size) == size > nSize[n]

\* PGS_MEM_Realloc of a recorded block that grows; realloc may move it.
\* (NULL is Malloc; an unrecorded address and a block that is large enough
\* change nothing.)
Realloc(v, size) ==
    /\ ~sweeping
    /\ ptr[v] # Null
    /\ \E n \in Members(ptr[v]) :
          /\ Grows(n, size)
          /\ \E b \in {a \in Addr : block[a] = 0 \/ a = ptr[v]} :
                /\ block' = [a \in Addr |-> IF a = b THEN size
                                            ELSE IF a = ptr[v] THEN 0 ELSE block[a]]
                /\ ReplaceAddr(n, b, size)
                /\ ptr' = [ptr EXCEPT ![v] = b]
    /\ UNCHANGED <<head, cnt, live, nNext, nPrev, sweeping, fault>>

\* PGS_MEM_Free: an address that is not recorded is ignored.
Free(v) ==
    /\ ~sweeping
    /\ ptr[v] # Null /\ cnt # 0
    /\ \E n \in Members(ptr[v]) : DelNode(n)
    /\ UNCHANGED <<ptr, sweeping>>

\* PGS_MEM_FreeAll: MEMLOCK is held until the head is NULL.
FreeAll ==
    /\ ~sweeping
    /\ sweeping' = TRUE
    /\ UNCHANGED <<list, block, ptr, fault>>

FreeHead ==
    /\ sweeping /\ head # Null
    /\ DelNode(head)
    /\ UNCHANGED <<ptr, sweeping>>

StopsEarly == sweeping /\ cnt <= 1 /\ sweeping' = FALSE  \* mutated FreeAllDone
              /\ UNCHANGED <<list, block, ptr, fault>>
FreeAllDone ==
    /\ sweeping /\ head = Null
    /\ sweeping' = FALSE
    /\ UNCHANGED <<list, block, ptr, fault>>

\* The caller copies a pointer, or sets it to NULL: copies are how a stale
\* address comes back to the tools after its block was freed or moved.
Copy(v, w) ==
    /\ ptr' = [ptr EXCEPT ![v] = ptr[w]]
    /\ UNCHANGED <<list, block, sweeping, fault>>

Reset(v) ==
    /\ ptr' = [ptr EXCEPT ![v] = Null]
    /\ UNCHANGED <<list, block, sweeping, fault>>

Next ==
    \/ \E v \in Var, size \in Sizes : Malloc(v, size) \/ Realloc(v, size)
    \/ \E v \in Var : Free(v) \/ Reset(v)
    \/ \E v, w \in Var : Copy(v, w)
    \/ FreeAll \/ FreeHead \/ FreeAllDone

Spec == Init /\ [][Next]_vars

\* A thread in PGS_MEM_FreeAll runs its loop to the end.
FairSpec == Spec /\ WF_vars(FreeHead) /\ WF_vars(FreeAllDone)

----------------------------------------------------------------------------
(* Properties                                                              *)

TypeOK ==
    /\ head \in Node \cup {Null}
    /\ cnt \in Nat
    /\ live \subseteq Node
    /\ nAddr \in [Node -> Addr \cup {Null}]
    /\ nSize \in [Node -> Sizes \cup {0}]
    /\ nNext \in [Node -> Node \cup {Null}]
    /\ nPrev \in [Node -> Node \cup {Null}]
    /\ block \in [Addr -> Sizes \cup {0}]
    /\ ptr \in [Var -> Addr \cup {Null}]
    /\ sweeping \in BOOLEAN /\ fault \in BOOLEAN

\* s lists the c nodes of L from the oldest to the head h, and pv and nx
\* (prev and next) are each other's inverse along it.
IsList(s, c, L, h, nx, pv) ==
    /\ \A i, j \in 1..c : s[i] = s[j] => i = j
    /\ L = {s[i] : i \in 1..c}
    /\ h = IF c = 0 THEN Null ELSE s[c]
    /\ \A i \in 1..c : pv[s[i]] = IF i = 1 THEN Null ELSE s[i - 1]
    /\ \A i \in 1..c : nx[s[i]] = IF i = c THEN Null ELSE s[i + 1]

\* The counter is the length of the list, and the list is whole: no
\* allocated node is lost from it, whatever is freed in whatever order.
ListWhole ==
    \E s \in [1..cnt -> live] : IsList(s, cnt, live, head, nNext, nPrev)

\* PGS_MEM_LinkMemberExist finds every recorded block: each can be freed.
AllFound == \A n \in live : n \in Members(nAddr[n])

\* Two nodes never record the same block, and every recorded block is
\* allocated with the size that was recorded.
RecordsExact ==
    /\ \A m, n \in live : nAddr[m] = nAddr[n] => m = n
    /\ \A n \in live : nAddr[n] # Null /\ nSize[n] # 0 /\ block[nAddr[n]] = nSize[n]

\* No block is freed twice and no NULL link is followed, in particular not
\* by a stale copy of a pointer whose block was freed or moved.
NoFault == ~fault

\* FreeAll ends, and ends with nothing recorded.
SweepEnds == sweeping ~> (~sweeping /\ cnt = 0)

\* The blocks the list records are MEMHeap's blocks.
Heap == INSTANCE MEMHeap WITH tracked <- {<<nAddr[n], nSize[n]>> : n \in live}
ImplementsHeap == Heap!Spec
=============================================================================
