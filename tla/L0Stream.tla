------------------------------ MODULE L0Stream ------------------------------
(***************************************************************************)
(* What the Level 0 access tools promise.  A virtual data set is one       *)
(* sequence of packets in order of time, whatever physical files they are  *)
(* in.  Each data set that is open has a cursor, which divides the packets *)
(* in those passed and those to come; reading gives the first to come, the *)
(* last packet comes with the word that it is the last, and setting a      *)
(* start time moves the cursor to the first packet at or after that time.  *)
(* A call may fail; a call that fails gives no packet and leaves the       *)
(* cursor.                                                                 *)
(*                                                                         *)
(* No two packets of a data set have one time, so that a packet is its     *)
(* time here, and the order needs no positions.                            *)
(***************************************************************************)
EXTENDS Naturals

CONSTANTS
    Handles,    \* what PGS_IO_L0_Open may answer with
    Packets,    \* for each data set, the times of its packets
    StartTimes  \* times a caller may ask for

VARIABLES
    cursor,  \* for each handle, the data set and its packets passed, or Closed
    given    \* what the last call gave: a packet of a data set, is it the last?

svars == <<cursor, given>>

Closed == <<>>
Nothing == <<>>
Cursors == {Closed} \cup UNION {{d} \X SUBSET Packets[d] : d \in DOMAIN Packets}

Init ==
    /\ cursor = [h \in Handles |-> Closed]
    /\ given = Nothing

Open(h, d) ==
    /\ cursor[h] = Closed
    /\ cursor' = [cursor EXCEPT ![h] = <<d, {}>>]
    /\ given' = Nothing

GetPacket(h) ==
    /\ cursor[h] # Closed
    /\ LET d == cursor[h][1]
           toCome == Packets[d] \ cursor[h][2]
       IN  \E p \in toCome :
             /\ \A q \in toCome : p <= q
             /\ cursor' = [cursor EXCEPT ![h] = <<d, cursor[h][2] \cup {p}>>]
             /\ given' = <<d, p, toCome = {p}>>

SetStart(h, t) ==
    /\ cursor[h] # Closed
    /\ LET d == cursor[h][1]
           before == {p \in Packets[d] : p < t}
       IN  /\ before # Packets[d]
           /\ cursor' = [cursor EXCEPT ![h] = <<d, before>>]
    /\ given' = Nothing

Close(h) ==
    /\ cursor' = [cursor EXCEPT ![h] = Closed]
    /\ given' = Nothing

\* A call that fails, or one that moves nothing.
Fail ==
    /\ given' = Nothing
    /\ UNCHANGED cursor

Next ==
    \/ \E h \in Handles :
         \/ \E d \in DOMAIN Packets : Open(h, d)
         \/ GetPacket(h)
         \/ \E t \in StartTimes : SetStart(h, t)
         \/ Close(h)
    \/ Fail

Spec == Init /\ [][Next]_svars
=============================================================================
