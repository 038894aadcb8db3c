------------------------------ MODULE L0Access ------------------------------
(***************************************************************************)
(* The Level 0 access tools (IO/L0).  A virtual data set is a sequence of  *)
(* physical files in order of time.  The file table has, for each data set *)
(* that is open, which of its files is open, the stream, and how many      *)
(* packets were read of each file; the stream has the position of its own. *)
(*                                                                         *)
(* The table belongs to a thread, so that a call is one step, but for      *)
(* PGS_IO_L0_SetStartCntPkts, which opens one file after the other.        *)
(*                                                                         *)
(* Packets have one length.  Data sets of the EOS platforms count bytes    *)
(* where the others count packets; with packets of one length that is the  *)
(* same.                                                                   *)
(***************************************************************************)
EXTENDS Integers, Sequences, FiniteSets, FiniteSetsExt

CONSTANTS
    Files,        \* for each data set its files: the times of the packets,
                  \* and the packet count that the header claims
    Single,       \* data sets with one header, in a file of its own (EOS)
    Footed,       \* data sets whose files have a footer after the packets (TRMM)
    StartTimes,   \* times a caller asks for
    MaxOpenFiles, \* PGSd_IO_L0_MaxOpenFiles
    MaxStreams,   \* bound: streams the process opens and does not close
    MaxRead,      \* bound: packets read of a file that is rewound
    Ops,          \* the calls made: "open", "get", "header", "start", "count",
                  \* "close"; "excess": opening more data sets than there is room
    Faults        \* "fopen": a physical file cannot be opened

DataSets == DOMAIN Files

Increasing(s) == \A i, j \in DOMAIN s : i < j => s[i] < s[j]

ASSUME L0Assumption ==
    /\ \A d \in DataSets :
         /\ Files[d] \in Seq([times : Seq(Nat), claim : Nat]) /\ Files[d] # <<>>
         /\ \A f \in DOMAIN Files[d] :
              /\ Files[d][f].times # <<>>
              /\ Increasing(Files[d][f].times)
              /\ Files[d][f].claim \in {0, Len(Files[d][f].times)}
         /\ \A f, g \in DOMAIN Files[d] : f < g =>
              \A i \in DOMAIN Files[d][f].times, j \in DOMAIN Files[d][g].times :
                Files[d][f].times[i] < Files[d][g].times[j]
    /\ Single \subseteq DataSets /\ Footed \subseteq DataSets
    /\ \A d \in Single : \A f \in DOMAIN Files[d] :
         Files[d][f].claim = Len(Files[d][f].times)
    /\ StartTimes \subseteq Nat
    /\ MaxOpenFiles \in Nat \ {0} /\ MaxStreams \in Nat /\ MaxRead \in Nat
    /\ Ops \subseteq {"open", "get", "header", "start", "count", "close", "excess"}
    /\ Faults \subseteq {"fopen"}

Handles == 0..(MaxOpenFiles - 1)
NoStream == 0
Unused == <<>>

VARIABLES
    file_table,     \* the entries: data set, file and stream open, packets read
    streams,        \* the streams of the process: data set, file, packets passed
    returnStatus2,  \* the last check of a file header, of whatever data set
    given,          \* the packet the last call gave, and was it called the last?
    call,           \* where PGS_IO_L0_SetStartCntPkts is
    skipped,        \* totpacket_skip of its last call, -1 if it failed
    fault           \* fseek or ftell was given a null stream

vars == <<file_table, streams, returnStatus2, given, call, skipped, fault>>

Nothing == <<>>
Idle == <<>>

Init ==
    /\ file_table = [h \in Handles |-> Unused]
    /\ streams = <<>>
    /\ returnStatus2 = "success"
    /\ given = Nothing
    /\ call = Idle
    /\ skipped = -1
    /\ fault = FALSE

----------------------------------------------------------------------------
(* The files                                                               *)

Times(d, f) == Files[d][f].times
Claim(d, f) == Files[d][f].claim
Count(d, f) == Len(Times(d, f))
LastFileLate(d) == Len(Files[d]) + 1                     \* mutated LastFile
LastFile(d) == Len(Files[d])

\* A header can be wrong in other ways too; all of them but "zero" only
\* guard against reading beyond the end of a file.
VersionInfoCheck(d, f) == IF Claim(d, f) = 0 THEN "zero" ELSE "success"

\* A start time is in the data set.
TimeFound(d, t) == Times(d, 1)[1] <= t /\ \E f \in DOMAIN Files[d] : t <= Times(d, f)[Count(d, f)]

\* The file that has the first packet at or after t.
FileAt(d, t) == Min({f \in DOMAIN Files[d] : t <= Times(d, f)[Count(d, f)]})

\* How many packets of file f SeekPacket skips to find time t.
Before(d, f, t) == Min({i \in 1..Count(d, f) : Times(d, f)[i] >= t}) - 1

----------------------------------------------------------------------------
(* The streams and the table                                               *)

Used(h) == file_table[h] # Unused
IsOpen(h) == Used(h) /\ file_table[h].stream # NoStream
At(h) == streams[file_table[h].stream].at

Stream(d, f, at) == [set |-> d, file |-> f, at |-> at]
NewStream(ss) == Min(1..(Cardinality(DOMAIN ss) + 1) \ DOMAIN ss)
WithStream(ss, d, f, at) ==
    [i \in DOMAIN ss \cup {NewStream(ss)} |->
        IF i \in DOMAIN ss THEN ss[i] ELSE Stream(d, f, at)]
WithoutStream(ss, s) == [i \in DOMAIN ss \ {s} |-> ss[i]]

\* SeekPacket: the position and the number of packets read are set together.
SoughtUncounted(e, f, at) == e                           \* mutated Sought
Sought(e, f, at) == [e EXCEPT !.read[f] = at]

\* The step from one file to another that NextPhysical and SetStart share:
\* close, note in the table that nothing is open, open, note what is open.
Reopen(h, e, f, at) ==
    LET closed == WithoutStream(streams, e.stream)
    IN  \/ /\ file_table' = [file_table EXCEPT
                   ![h] = [Sought(e, f, at) EXCEPT !.seq = f, !.stream = NewStream(closed)]]
           /\ streams' = WithStream(closed, e.set, f, at)
        \/ /\ "fopen" \in Faults
           /\ file_table' = [file_table EXCEPT ![h] = [e EXCEPT !.stream = NoStream]]
           /\ streams' = closed

\* No call is under way and none has failed badly.
Ready == call = Idle /\ ~fault

----------------------------------------------------------------------------
(* PGS_IO_L0_Open and PGS_IO_L0_Close                                      *)

UnusedEntries == {h \in Handles : ~Used(h)}

\* Opening any file may fail, before there is an entry.
OpenFails ==
    /\ Ready /\ "open" \in Ops /\ "fopen" \in Faults
    /\ given' = Nothing
    /\ UNCHANGED <<file_table, streams, returnStatus2, call, skipped, fault>>

Open(d) ==
    /\ Ready /\ "open" \in Ops
    /\ UnusedEntries # {}
    /\ LET entry == [set |-> d, seq |-> 1, stream |-> NewStream(streams),
                     read |-> [f \in DOMAIN Files[d] |-> 0]]
       IN  file_table' = [file_table EXCEPT ![Min(UnusedEntries)] = entry]
    /\ streams' = WithStream(streams, d, 1, 0)
    /\ given' = Nothing
    /\ UNCHANGED <<returnStatus2, call, skipped, fault>>

\* There is no room in the table: the stream has been opened and stays open.
OpenExcess(d) ==
    /\ Ready /\ "excess" \in Ops
    /\ UnusedEntries = {} /\ Cardinality(DOMAIN streams) < MaxStreams
    /\ streams' = WithStream(streams, d, 1, 0)
    /\ given' = Nothing
    /\ UNCHANGED <<file_table, returnStatus2, call, skipped, fault>>

Close(h) ==
    /\ Ready /\ "close" \in Ops
    /\ Used(h)
    /\ streams' = WithoutStream(streams, file_table[h].stream)
    /\ file_table' = [file_table EXCEPT ![h] = Unused]
    /\ given' = Nothing
    /\ UNCHANGED <<returnStatus2, call, skipped, fault>>

----------------------------------------------------------------------------
(* PGS_IO_L0_GetPacket                                                     *)

Check(e) ==
    IF e.read[e.seq] = 0 THEN VersionInfoCheck(e.set, e.seq) ELSE returnStatus2

\* A header that claims no packets does not end the file before its end.
StaysTooLong(e, status, at) == e.read[e.seq] <= Claim(e.set, e.seq) \* mutated StaysInFile
StaysInFile(e, status, at) ==
    \/ status = "zero" /\ at < Count(e.set, e.seq)
    \/ e.read[e.seq] < Claim(e.set, e.seq)

Stay(h, e, at) ==
    /\ file_table' = [file_table EXCEPT ![h] = e]
    /\ streams' = [streams EXCEPT ![e.stream].at = at]

\* After a read: NextPhysical when the file is done, if there is a next one.
Proceed(h, e, status, at) ==
    /\ returnStatus2' = status
    /\ IF StaysInFile(e, status, at) \/ e.seq = LastFile(e.set)
       THEN Stay(h, e, at)
       ELSE Reopen(h, Sought(e, e.seq + 1, 0), e.seq + 1, 0)

\* The packet comes with PGSIO_W_L0_END_OF_VIRTUAL_DS when it is the last.
GetPacket(h) ==
    /\ Ready /\ "get" \in Ops
    /\ IsOpen(h) /\ At(h) < Count(file_table[h].set, file_table[h].seq)
    /\ LET e == file_table[h]
           read == [e EXCEPT !.read[e.seq] = @ + 1]
           last == ~StaysInFile(read, Check(e), At(h) + 1) /\ e.seq = LastFile(e.set)
       IN  /\ Proceed(h, read, Check(e), At(h) + 1)
           /\ given' = <<e.set, e.seq, At(h) + 1, last>>
    /\ UNCHANGED <<call, skipped, fault>>

\* After the last packet: the footer is read, and given, as if it were one.
GetFooter(h) ==
    /\ Ready /\ "get" \in Ops
    /\ IsOpen(h) /\ file_table[h].set \in Footed
    /\ At(h) = Count(file_table[h].set, file_table[h].seq)
    /\ LET e == file_table[h]
       IN  /\ Proceed(h, [e EXCEPT !.read[e.seq] = @ + 1], Check(e), At(h) + 1)
           /\ given' = <<e.set, e.seq, At(h) + 1, TRUE>>
    /\ UNCHANGED <<call, skipped, fault>>

\* The end of the file where a packet should be.
GetPastEnd(h) ==
    /\ Ready /\ "get" \in Ops
    /\ IsOpen(h)
    /\ LET e == file_table[h]
           size == Count(e.set, e.seq) + (IF e.set \in Footed THEN 1 ELSE 0)
       IN  /\ At(h) = size
           /\ Proceed(h, [e EXCEPT !.read[e.seq] = Claim(e.set, e.seq) + 1], "toolkit", size)
    /\ given' = Nothing
    /\ UNCHANGED <<call, skipped, fault>>

\* Calls that return before they do anything: no physical file is open, the
\* data set is not open, or the time is not found.
Refused(h, t) ==
    /\ Ready
    /\ \/ "get" \in Ops /\ ~IsOpen(h)
       \/ Ops \cap {"header", "start", "count", "close"} # {} /\ ~Used(h)
       \/ Ops \cap {"start", "count"} # {} /\ Used(h) /\ ~TimeFound(file_table[h].set, t)
    /\ given' = Nothing
    /\ UNCHANGED <<file_table, streams, returnStatus2, call, skipped, fault>>

----------------------------------------------------------------------------
(* PGS_IO_L0_GetHeader                                                     *)

\* The tools of this section and the next do not test that a file is open.
NullStream(h) ==
    /\ ~IsOpen(h)
    /\ fault' = TRUE
    /\ given' = Nothing /\ call' = Idle
    /\ UNCHANGED <<file_table, streams, returnStatus2, skipped>>

GetHeader(h) ==
    /\ Ready /\ "header" \in Ops
    /\ Used(h)
    /\ \/ NullStream(h)
       \/ /\ IsOpen(h)
          /\ \/ UNCHANGED streams
             \* The header file cannot be opened: the stream is left rewound.
             \/ /\ "fopen" \in Faults /\ file_table[h].set \in Single
                /\ file_table[h].read[file_table[h].seq] <= MaxRead
                /\ streams' = [streams EXCEPT ![file_table[h].stream].at = 0]
          /\ given' = Nothing
          /\ UNCHANGED <<file_table, returnStatus2, call, skipped, fault>>

----------------------------------------------------------------------------
(* PGS_IO_L0_SetStart and PGS_IO_L0_SetStartCntPkts                        *)

\* The end of both: go to the file of the time, and to its packet.
GoTo(h, f, t) ==
    LET e == file_table[h]
        at == Before(e.set, f, t)
    IN  IF f # e.seq
        THEN Reopen(h, e, f, at)
        ELSE IsOpen(h) /\ Stay(h, Sought(e, f, at), at)

SetStart(h, t) ==
    /\ Ready /\ "start" \in Ops
    /\ Used(h) /\ TimeFound(file_table[h].set, t)
    /\ LET f == FileAt(file_table[h].set, t)
       IN  \/ /\ GoTo(h, f, t)
              /\ given' = Nothing
              /\ UNCHANGED <<returnStatus2, call, skipped, fault>>
           \/ f = file_table[h].seq /\ NullStream(h)

SetStartCntPkts(h, t) ==
    /\ Ready /\ "count" \in Ops
    /\ Used(h) /\ TimeFound(file_table[h].set, t)
    /\ LET e == file_table[h]
           f == FileAt(e.set, t)
       IN  /\ Cardinality(DOMAIN streams) + f - e.seq < MaxStreams
           /\ call' = [h |-> h, t |-> t, to |-> f, from |-> e.seq, skip |-> e.seq, n |-> 0]
    /\ skipped' = -1 /\ given' = Nothing
    /\ UNCHANGED <<file_table, streams, returnStatus2, fault>>

\* One turn of its loop: open the next file to be skipped, without closing
\* the one before, and seek its last packet, for the number of it.
SkipFile ==
    /\ call # Idle /\ call.skip < call.to
    /\ LET e == file_table[call.h]
           n == Count(e.set, call.skip)
       IN  \/ /\ file_table' = [file_table EXCEPT ![call.h] =
                     [Sought(e, call.skip, n - 1) EXCEPT !.seq = call.skip, !.stream = NewStream(streams)]]
              /\ streams' = WithStream(streams, e.set, call.skip, n - 1)
              /\ call' = [call EXCEPT !.skip = @ + 1, !.n = @ + n]
           \/ /\ "fopen" \in Faults
              /\ call' = Idle
              /\ UNCHANGED <<file_table, streams>>
    /\ UNCHANGED <<returnStatus2, given, skipped, fault>>

\* The number of a packet counts from 1, so that one is taken off.
TotalSkipWithFound(n, at) == n + (at + 1)                \* mutated TotalSkip
TotalSkip(n, at) == n + (at + 1) - 1

CountEnds ==
    /\ call # Idle /\ call.skip >= call.to
    /\ \/ /\ GoTo(call.h, call.to, call.t)
          /\ skipped' = IF file_table'[call.h].stream = NoStream THEN -1
                        ELSE TotalSkip(call.n, Before(file_table[call.h].set, call.to, call.t))
          /\ call' = Idle
          /\ UNCHANGED <<returnStatus2, given, fault>>
       \/ call.to = file_table[call.h].seq /\ NullStream(call.h)

Next ==
    \/ \E d \in DataSets : Open(d) \/ OpenExcess(d)
    \/ OpenFails
    \/ \E h \in Handles :
         \/ Close(h)
         \/ GetPacket(h) \/ GetFooter(h) \/ GetPastEnd(h)
         \/ GetHeader(h)
         \/ \E t \in StartTimes : Refused(h, t) \/ SetStart(h, t) \/ SetStartCntPkts(h, t)
    \/ SkipFile
    \/ CountEnds

Spec == Init /\ [][Next]_vars

----------------------------------------------------------------------------
(* Properties                                                              *)

Entries(d) ==
    [set : {d}, seq : DOMAIN Files[d], stream : Nat, read : [DOMAIN Files[d] -> Nat]]

Calls == [h : Handles, t : StartTimes, to : Nat, from : Nat, skip : Nat, n : Nat]

\* The variables are well typed: entries of file_table are those that
\* PGS_IO_L0_ManageTable keeps, a stream is in a file of its data set.
TypeOK ==
    /\ DOMAIN file_table = Handles
    /\ \A h \in Handles : Used(h) => \E d \in DataSets : file_table[h] \in Entries(d)
    /\ \A s \in DOMAIN streams : \E d \in DataSets :
         streams[s] \in [set : {d}, file : DOMAIN Files[d], at : Nat]
    /\ returnStatus2 \in {"success", "zero", "toolkit"}
    /\ given = Nothing \/ given \in DataSets \X Nat \X Nat \X BOOLEAN
    /\ call = Idle \/ call \in Calls
    /\ skipped \in Int /\ fault \in BOOLEAN

\* The stream of an entry is in the file that the entry names, and the
\* packets that the entry counts are those the stream has passed.
PositionsAgree ==
    \A h \in Handles : IsOpen(h) =>
        LET e == file_table[h]
            s == streams[e.stream]
        IN  /\ e.stream \in DOMAIN streams
            /\ s.set = e.set /\ s.file = e.seq
            /\ s.at < Count(e.set, e.seq) => e.read[e.seq] = s.at

\* No stream serves two data sets or none.
StreamsOwned ==
    \A s \in DOMAIN streams : \E h \in Handles :
        /\ Used(h) /\ file_table[h].stream = s
        /\ \A g \in Handles \ {h} : Used(g) => file_table[g].stream # s

\* What the table says of a data set is what is open, whatever opens fail and
\* in whatever order data sets are read, moved and closed.
StreamsAgree == PositionsAgree /\ StreamsOwned

\* The packets of file f of a data set, the first n of them, those of the
\* files before it, and all there are.
FirstOf(d, f, n) == {Times(d, f)[i] : i \in {j \in DOMAIN Times(d, f) : j <= n}}
Earlier(d, f) == UNION {FirstOf(d, g, Count(d, g)) : g \in {k \in DOMAIN Files[d] : k < f}}
Packets == [d \in DataSets |-> Earlier(d, Len(Files[d]) + 1)]

Passed(h) == IF IsOpen(h) THEN At(h) ELSE file_table[h].read[file_table[h].seq]

Cursor(h) ==
    IF ~Used(h) THEN <<>>
    ELSE LET e == file_table[h]
         IN  <<e.set, Earlier(e.set, e.seq) \cup FirstOf(e.set, e.seq, Passed(h))>>

L0 == INSTANCE L0Stream WITH
    cursor <- [h \in Handles |-> Cursor(h)],
    given <- IF given = Nothing THEN Nothing
             ELSE <<given[1], Times(given[1], given[2])[given[3]], given[4]>>

\* A virtual data set reads as one sequence of packets: none is left out or
\* given twice where one physical file ends and the next begins, the last one
\* and no other is called the last, a start time leads to the first packet at
\* or after it, and a call that fails loses nothing (PGS_IO_L0_GetPacket,
\* PGS_IO_L0_NextPhysical, PGS_IO_L0_SetStart).  This is for files whose
\* header has the right count and that have no footer.
ImplementsStream == L0!Spec

\* PGS_IO_L0_SetStartCntPkts answers with the number of packets before the
\* start time, in the file that was open and those after it, and leaves the
\* stream at the packet that follows those.
CountsSkipped ==
    [][call # Idle /\ skipped' >= 0 =>
         LET d == file_table[call.h].set
             skips(f) == {<<f, i>> : i \in {j \in DOMAIN Times(d, f) : Times(d, f)[j] < call.t}}
             s == streams'[file_table'[call.h].stream]
         IN  /\ skipped' = Cardinality(UNION {skips(f) : f \in Min({call.from, call.to})..call.to})
             /\ s.file = call.to /\ s.at = Cardinality(skips(call.to))]_vars

----------------------------------------------------------------------------
(* What the prologs and comments of IO/L0 say and the code does not do: TLC *)
(* refutes each in a few steps, with the constants given, and no run checks *)
(* them.                                                                    *)

\* PGS_IO_L0_GetHeader leaves the data set where it was: "the file pointer is
\* restored so that the next call to PGS_IO_L0_GetPacket will pick up where it
\* left off".  Refuted where a data set in Single has its header file fail.
KeepsPosition == [][\A h \in Handles : GetHeader(h) => UNCHANGED streams]_vars

\* Every stream that is open is the one of a data set that is open: "close the
\* current physical file and open the correct physical file".  Refuted where
\* PGS_IO_L0_SetStartCntPkts skips two files, and by "excess".
NothingLost ==
    DOMAIN streams \subseteq {file_table[h].stream : h \in {g \in Handles : Used(g)}}

\* No tool goes on with a data set of which no physical file is open: "if
\* necessary, ... open the correct physical file".  Refuted where the open of
\* a next file fails and a start time follows that is in the last one.
NoNullStream == ~fault

\* A packet that is followed by others in its file does not lead to another
\* file, also when the header claims that there are none: "continue reading
\* from the file for as long as we are still in the data packets area".
\* Refuted where a data set with such a header is read in turn with another.
ZeroCountReadOn ==
    [][\A h \in Handles :
         GetPacket(h) /\ At(h) + 1 < Count(file_table[h].set, file_table[h].seq)
           => file_table'[h].seq = file_table[h].seq]_vars
=============================================================================
