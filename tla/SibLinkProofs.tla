----------------------------- MODULE SibLinkProofs -----------------------------
(***************************************************************************)
(* Proofs about the connection to the SIB, for every size of the queue and *)
(* of the network, every number of timeouts and every set of log levels    *)
(* and operation modes.                                                    *)
(***************************************************************************)
EXTENDS SibLink, SequenceTheorems, WellFoundedInduction, TLAPS

-----------------------------------------------------------------------------
(* The inductive invariant *)

\* The listener is at work, or about to report a loss, only in a state in which
\* the worker does not dial.
ListenerInv ==
    /\ listener \in {"put", "losing"} => state # "UNKNOWN"
    /\ listener = "put" => data = <<>>

\* ERROR is the end: its connection has been reset, and the listener cannot
\* lose the socket of such a connection.
LinkInv ==
    /\ link # "up" => todo = <<>>
    /\ state = "ERROR" => link = "reset" /\ socket /\ listener # "losing"

StateInv == TypeOK /\ ListenerInv /\ NeverStranded /\ LinkInv

\* The SIB is silent: nothing is under way, and no log data will come.
AtRest == wire = <<>> /\ (link = "up" => sibLog = 0 /\ todo = <<>>)

\* Replies and nothing else; the first may have lost its beginning.
Replies(w) ==
    \A i \in 1 .. Len(w) :
        /\ w[i] \in {"begin", "end"}
        /\ w[i] = "begin" => i < Len(w) /\ w[i + 1] = "end"

\* The flush ends with the SIB at rest, since the command before it has ended
\* its log data; from there on only replies come, and as long as recv has
\* returned whole ones there is one command or its reply under way.
DialogueInv ==
    /\ step = "flush" /\ link = "up" =>
          \/ todo = <<>> /\ sibLog = 0
          \/ todo # <<>> /\ todo[Len(todo)] = <<"LOG", 0>>
    /\ step \in Dialogue \cup {"configure"} =>
          /\ Replies(wire)
          /\ link = "up" =>
                sibLog = 0 /\ \A i \in 1 .. Len(todo) : todo[i][1] # "LOG"
    /\ step \in Dialogue /\ ~parted =>
          /\ wire \in {<<>>, Answer}
          /\ link = "up" =>
                \/ wire = <<>> /\ Len(todo) = 1
                \/ wire = Answer /\ todo = <<>>
    /\ step = "failed" /\ link # "reset" => AtRest

\* The mode the SIB has when it has handled everything.
Told(m) ==
    \/ sibSom = m /\ \A i \in 1 .. Len(todo) : todo[i][1] # "SOM"
    \/ \E i \in 1 .. Len(todo) :
          /\ todo[i] = <<"SOM", m>>
          /\ \A j \in i + 1 .. Len(todo) : todo[j][1] # "SOM"

ModeInv == state = "NORMAL" /\ link = "up" => Told(som)

\* The halves of a row, or of a reply, follow each other; what is left of an old
\* connection is at the beginning.
WholeRows(s) ==
    \A i \in 1 .. Len(s) :
        /\ s[i] = "head" => i < Len(s) /\ s[i + 1] = "tail"
        /\ s[i] = "tail" => i > 1 /\ s[i - 1] = "head"
        /\ s[i] = "begin" => i < Len(s) /\ s[i + 1] = "end"
        /\ s[i] = "old" => i = 1

\* What the listener has of the stream and not put yet.
Kept == IF listener = "put" THEN batch ELSE data

RowsInv ==
    /\ step # "idle" => data \in {<<>>, <<"old">>}
    /\ state = "NORMAL" => WholeRows(Kept \o wire)
    /\ RowsWhole

-----------------------------------------------------------------------------
(* The operators of the model *)

LEMMA Commands ==
    /\ \A l \in Levels : <<"LOG", l>> \in Command
    /\ \A m \in Modes : <<"SOM", m>> \in Command
    /\ <<"LOG", 0>> \in Command
    /\ <<"AUTH", 0>> \in Command /\ <<"ask", 0>> \in Command
BY SibAssumption DEF Command

\* What Send leaves to do.
LEMMA SendKeeps ==
    ASSUME todo \in Seq(Command), link # "up" => todo = <<>>,
           NEW c \in Command, Send(<<c>>)
    PROVE  /\ todo' \in Seq(Command)
           /\ link # "up" => todo' = <<>>
           /\ link = "up" =>
                 /\ Len(todo') = Len(todo) + 1
                 /\ todo'[Len(todo')] = c
                 /\ \A i \in 1 .. Len(todo) : todo'[i] = todo[i]
<1>1. <<c>> \in Seq(Command) /\ Len(<<c>>) = 1 /\ <<c>>[1] = c
    OBVIOUS
<1>2. CASE link = "up"
    <2>1. todo' = todo \o <<c>>
        BY <1>2 DEF Send
    <2> QED
        BY <1>1, <1>2, <2>1, ConcatProperties
<1>3. CASE link # "up"
    BY <1>3 DEF Send
<1> QED
    BY <1>2, <1>3

\* What recv returns and what it leaves.
LEMMA ChunkType ==
    ASSUME wire \in Seq(Pieces), NEW n \in Chunk
    PROVE  /\ Got(n) \in Seq(Pieces) /\ Rest(n) \in Seq(Pieces)
           /\ Got(n) \o Rest(n) = wire /\ Len(wire) > 0
           /\ Len(wire) = 1 => Rest(n) = <<>>
<1>1. n \in Nat /\ 1 <= n /\ n <= Len(wire) /\ Len(wire) \in Nat
    BY DEF Chunk
<1>2. Got(n) \in Seq(Pieces)
    BY <1>1, SubSeqProperties, ElementOfSeq DEF Got
<1>3. Rest(n) \in Seq(Pieces)
    BY <1>1, SubSeqProperties, ElementOfSeq DEF Rest
<1>4. SubSeq(wire, 1, n) \o SubSeq(wire, n + 1, Len(wire)) = SubSeq(wire, 1, Len(wire))
    BY <1>1, ConcatAdjacentSubSeq
<1>5. SubSeq(wire, 1, Len(wire)) = wire
    BY SubSeqFull
<1>6. Len(wire) = 1 => Rest(n) = <<>>
    BY <1>1, SubSeqEmpty DEF Rest
<1>7. Got(n) \o Rest(n) = wire
    BY <1>4, <1>5 DEF Got, Rest
<1>8. Len(wire) > 0
    BY <1>1
<1> QED
    BY <1>2, <1>3, <1>6, <1>7, <1>8

\* The queue is bounded, and keeps what it has.
LEMMA PutKeeps ==
    ASSUME queue \in Seq(Seq(Pieces)), Len(queue) <= QueueSize,
           NEW row \in Seq(Pieces), Put(row)
    PROVE  /\ queue' \in Seq(Seq(Pieces)) /\ Len(queue') <= QueueSize
           /\ \A i \in 1 .. Len(queue') :
                 queue'[i] = row \/ (i \in 1 .. Len(queue) /\ queue'[i] = queue[i])
<1>1. Len(queue) \in Nat /\ QueueSize \in Nat
    BY SibAssumption
<1>2. CASE Len(queue) < QueueSize
    <2>1. queue' = Append(queue, row)
        BY <1>2 DEF Put
    <2>2. /\ Append(queue, row) \in Seq(Seq(Pieces))
          /\ Len(Append(queue, row)) = Len(queue) + 1
          /\ \A i \in 1 .. Len(queue) : Append(queue, row)[i] = queue[i]
          /\ Append(queue, row)[Len(queue) + 1] = row
        BY AppendProperties
    <2>3. Len(queue') = Len(queue) + 1 /\ Len(queue') <= QueueSize
        BY <1>1, <1>2, <2>1, <2>2
    <2>4. ASSUME NEW i \in 1 .. Len(queue')
          PROVE  queue'[i] = row \/ (i \in 1 .. Len(queue) /\ queue'[i] = queue[i])
        <3>1. i = Len(queue) + 1 \/ i \in 1 .. Len(queue)
            BY <1>1, <2>3
        <3> QED
            BY <2>1, <2>2, <3>1
    <2> QED
        BY <2>1, <2>2, <2>3, <2>4
<1>3. CASE ~(Len(queue) < QueueSize)
    BY <1>1, <1>3 DEF Put
<1> QED
    BY <1>2, <1>3

-----------------------------------------------------------------------------
(* The states of the threads and the types *)

\* The connect worker.
LEMMA ConnectState == ASSUME StateInv, Connect PROVE StateInv'
<1> USE DEF StateInv, TypeOK, ListenerInv, NeverStranded, LinkInv
<1>1. CASE Dial
    <2>1. UNCHANGED <<state, listener, counter, batch, rows, params, sib>>
        BY <1>1 DEF Dial
    <2>2. data' \in {<<>>, <<"old">>}
        BY <1>1 DEF Dial
    <2>3. todo' \in Seq(Command)
        BY <1>1, Commands DEF Dial
    <2>4. wire' \in Seq(Pieces) /\ link' = "up"
        BY <1>1 DEF Dial
    <2>5. /\ step' = "greet" /\ socket' /\ parted' = FALSE
          /\ state = "UNKNOWN" /\ listener \in {"read", "dead"}
        BY <1>1 DEF Dial
    <2>6. socket' \in BOOLEAN /\ parted' \in BOOLEAN
        BY <1>1 DEF Dial
    <2>7. data' \in Seq(Pieces)
        <3>1. <<"old">> \in Seq({"old"}) /\ {"old"} \subseteq Pieces
            BY DEF Pieces
        <3>2. <<"old">> \in Seq(Pieces) /\ <<>> \in Seq(Pieces)
            BY <3>1, SeqMonotonic, EmptySeq
        <3> QED
            BY <2>2, <3>2
    <2> QED
        BY <2>1, <2>3, <2>4, <2>5, <2>6, <2>7 DEF rows, params, sib
<1>2. CASE Greet
    <2>1. todo' \in Seq(Command) /\ (link # "up" => todo' = <<>>)
        BY <1>2, SendKeeps, Commands DEF Greet
    <2>2. wire' \in Seq(Pieces)
        BY <1>2, ChunkType DEF Greet
    <2>3. step' \in {"flush", "failed"} /\ step = "greet"
        BY <1>2 DEF Greet
    <2>4. UNCHANGED <<state, socket, parted, hearing, rows, params, link, sib>>
        BY <1>2 DEF Greet
    <2> QED
        BY <2>1, <2>2, <2>3, <2>4 DEF hearing, rows, params, sib
<1>3. CASE GreetFails \/ NoReply
    <2>1. step' \in {"idle", "failed"} /\ step # "idle"
        BY <1>3 DEF GreetFails, NoReply, Dialogue
    <2>2. UNCHANGED <<state, socket, parted, hearing, rows, params, stream, sib>>
        BY <1>3 DEF GreetFails, NoReply
    <2> QED
        BY <2>1, <2>2 DEF hearing, rows, params, stream, sib
<1>4. CASE Flush
    <2>1. wire' \in Seq(Pieces)
        BY <1>4, ChunkType DEF Flush
    <2>2. UNCHANGED <<state, worker, hearing, rows, params, link, todo, sib>>
        BY <1>4 DEF Flush
    <2> QED
        BY <2>1, <2>2 DEF worker, hearing, rows, params, sib
<1>5. CASE Flushed
    <2>1. todo' \in Seq(Command) /\ (link # "up" => todo' = <<>>)
        BY <1>5, SendKeeps, Commands DEF Flushed
    <2>2. step' \in {"prompt", "failed"} /\ step = "flush"
        BY <1>5 DEF Flushed
    <2>3. UNCHANGED <<state, socket, parted, hearing, rows, params, link, wire, sib>>
        BY <1>5 DEF Flushed
    <2> QED
        BY <2>1, <2>2, <2>3 DEF hearing, rows, params, sib, Dialogue
<1>6. CASE Reply
    <2>1. step \in Dialogue /\ step' \in Dialogue \cup {"configure"}
        BY <1>6 DEF Reply, Dialogue, AfterReply
    <2>2. todo' \in Seq(Command) /\ (link # "up" => todo' = <<>>)
        <3>1. CASE Send(<<>>)
            BY <3>1, ConcatEmptySeq DEF Send
        <3>2. CASE Send(<<<<"ask", 0>>>>)
            BY <3>2, SendKeeps, Commands
        <3> QED
            BY <1>6, <3>1, <3>2 DEF Reply
    <2>3. wire' \in Seq(Pieces)
        BY <1>6, ChunkType DEF Reply
    <2>4. UNCHANGED <<state, socket, hearing, rows, params, link, sib>> /\ parted' \in BOOLEAN
        BY <1>6 DEF Reply
    <2> QED
        BY <2>1, <2>2, <2>3, <2>4 DEF hearing, rows, params, sib, Dialogue
<1>7. CASE Configure
    <2>1. todo' \in Seq(Command) /\ (link # "up" => todo' = <<>>)
        BY <1>7, SendKeeps, Commands DEF Configure
    <2>2. step' = "idle" /\ step # "idle"
        BY <1>7 DEF Configure
    <2>3. \/ state' = "NORMAL"
          \/ state' = "ERROR" /\ ~CanSend
          \/ state' = state
        BY <1>7 DEF Configure
    <2>4. UNCHANGED <<socket, parted, hearing, rows, params, link, wire, sib>>
        BY <1>7 DEF Configure
    <2>5. socket /\ listener \in {"read", "dead"}
        BY <2>2
    <2>6. state' \in {"UNKNOWN", "NORMAL", "ERROR"}
        BY <2>3
    <2>7. state' = "ERROR" => link = "reset"
        BY <2>3, <2>5 DEF CanSend
    <2> QED
        BY <2>1, <2>2, <2>4, <2>5, <2>6, <2>7 DEF hearing, rows, params, sib
<1> QED
    BY <1>1, <1>2, <1>3, <1>4, <1>5, <1>6, <1>7 DEF Connect

\* The SIB, the network, the consumer and the strand.
LEMMA OthersState ==
    ASSUME StateInv,
           \/ Consume \/ ReconfigureLog \/ ReconfigureSom \/ Restart
           \/ SibHandles \/ SibLogs \/ Cut
    PROVE  StateInv'
<1> USE DEF StateInv, TypeOK, ListenerInv, NeverStranded, LinkInv
<1>1. CASE Consume
    <2>1. queue' \in Seq(Seq(Pieces)) /\ Len(queue') <= QueueSize
        BY <1>1, SibAssumption, HeadTailProperties DEF Consume
    <2>2. consumer' \in {"get", "dead"}
        BY <1>1 DEF Consume
    <2>3. UNCHANGED <<state, worker, hearing, params, stream, sib>>
        BY <1>1 DEF Consume
    <2> QED
        BY <2>1, <2>2, <2>3 DEF worker, hearing, params, stream, sib
<1>2. CASE ReconfigureLog \/ ReconfigureSom
    <2>1. todo' \in Seq(Command) /\ (link # "up" => todo' = <<>>)
        BY <1>2, SendKeeps, Commands DEF ReconfigureLog, ReconfigureSom
    <2>2. logLevel' \in Levels /\ som' \in Modes
        BY <1>2 DEF ReconfigureLog, ReconfigureSom
    <2>3. UNCHANGED <<state, worker, hearing, rows, link, wire, sib>>
        BY <1>2 DEF ReconfigureLog, ReconfigureSom
    <2> QED
        BY <2>1, <2>2, <2>3 DEF worker, hearing, rows, sib
<1>3. CASE Restart \/ Cut
    <2>1. link' \in {"silent", "closed", "reset"} /\ todo' = <<>> /\ link = "up"
        BY <1>3 DEF Restart, Cut
    <2>2. sibLog' \in Levels /\ sibSom' \in Modes
        BY <1>3, SibAssumption DEF Restart, Cut, sib
    <2>3. UNCHANGED <<state, worker, hearing, rows, params, wire>>
        BY <1>3 DEF Restart, Cut
    <2>4. todo' \in Seq(Command)
        BY <2>1
    <2> QED
        BY <2>1, <2>2, <2>3, <2>4 DEF worker, hearing, rows, params
<1>4. CASE SibHandles
    <2>1. Head(todo) \in Command /\ todo' \in Seq(Command)
        BY <1>4, HeadTailProperties DEF SibHandles
    <2>2. sibLog' \in Levels /\ sibSom' \in Modes
        BY <1>4, <2>1 DEF SibHandles, Command
    <2>3. wire' \in Seq(Pieces)
        BY <1>4, ConcatProperties DEF SibHandles, Answer, Pieces
    <2>4. UNCHANGED <<state, worker, hearing, rows, params, link>> /\ link = "up"
        BY <1>4 DEF SibHandles
    <2> QED
        BY <2>1, <2>2, <2>3, <2>4 DEF worker, hearing, rows, params
<1>5. CASE SibLogs
    <2>1. wire' \in Seq(Pieces)
        BY <1>5, ConcatProperties DEF SibLogs, Row, Pieces
    <2>2. UNCHANGED <<state, worker, hearing, rows, params, link, todo, sib>>
        BY <1>5 DEF SibLogs
    <2> QED
        BY <2>1, <2>2 DEF worker, hearing, rows, params, sib
<1> QED
    BY <1>1, <1>2, <1>3, <1>4, <1>5

\* The first end of a row among what is put.
FirstEnd == CHOOSE i \in Ends : \A j \in Ends : i <= j

LEMMA FirstEndExists ==
    ASSUME batch \in Seq(Pieces), Ends # {}
    PROVE  /\ FirstEnd \in 1 .. Len(batch) /\ batch[FirstEnd] \in {"end", "tail"}
           /\ \A j \in 1 .. Len(batch) : batch[j] \in {"end", "tail"} => FirstEnd <= j
<1>1. Ends \subseteq Nat
    BY DEF Ends
<1>2. \E i \in Ends : \A j \in Ends : i <= j
    <2> DEFINE Less == OpToRel(<, Nat)
    <2>1. \E i \in Ends : \A j \in Ends : ~(<<j, i>> \in Less)
        BY <1>1, NatLessThanWellFounded, WFMin
    <2>2. \A i, j \in Nat : j < i => <<j, i>> \in Less
        BY DEF OpToRel
    <2> HIDE DEF Less
    <2>3. PICK i \in Ends : \A j \in Ends : ~(<<j, i>> \in Less)
        BY <2>1
    <2>4. \A j \in Ends : ~(j < i)
        BY <1>1, <2>2, <2>3
    <2> QED
        BY <1>1, <2>4
<1>3. FirstEnd \in Ends /\ \A j \in Ends : FirstEnd <= j
    BY <1>2 DEF FirstEnd
<1> QED
    BY <1>3 DEF Ends

\* The pieces of a row and of what is left are pieces.
LEMMA RowType ==
    ASSUME batch \in Seq(Pieces), NEW i \in 1 .. Len(batch)
    PROVE  /\ SubSeq(batch, 1, i) \in Seq(Pieces)
           /\ Len(SubSeq(batch, 1, i)) = i
           /\ \A j \in 1 .. i : SubSeq(batch, 1, i)[j] = batch[j]
           /\ SubSeq(batch, i + 1, Len(batch)) \in Seq(Pieces)
           /\ Len(SubSeq(batch, i + 1, Len(batch))) = Len(batch) - i
           /\ \A j \in 1 .. Len(batch) - i :
                 SubSeq(batch, i + 1, Len(batch))[j] = batch[i + j]
<1>1. i \in Nat /\ 1 <= i /\ i <= Len(batch) /\ Len(batch) \in Nat
    OBVIOUS
<1>2. \A j \in 1 .. Len(batch) : batch[j] \in Pieces
    BY ElementOfSeq
<1>3. /\ SubSeq(batch, 1, i) \in Seq(Pieces)
      /\ Len(SubSeq(batch, 1, i)) = i
      /\ \A j \in 1 .. i : SubSeq(batch, 1, i)[j] = batch[j]
    BY <1>1, <1>2, SubSeqProperties
<1>4. /\ SubSeq(batch, i + 1, Len(batch)) \in Seq(Pieces)
      /\ Len(SubSeq(batch, i + 1, Len(batch))) = Len(batch) - i
      /\ \A j \in 1 .. Len(batch) - i :
            SubSeq(batch, i + 1, Len(batch))[j] = batch[i + j]
    BY <1>1, <1>2, SubSeqProperties
<1> QED
    BY <1>3, <1>4

\* The listener.
LEMMA ListenState == ASSUME StateInv, Listen PROVE StateInv'
<1> USE DEF StateInv, TypeOK, ListenerInv, NeverStranded, LinkInv
<1>1. CASE Receive
    <2>1. batch' \in Seq(Pieces) /\ wire' \in Seq(Pieces)
        BY <1>1, ChunkType, ConcatProperties DEF Receive
    <2>2. data' = <<>> /\ listener' = "put" /\ state # "UNKNOWN" /\ socket
        BY <1>1 DEF Receive, Listening
    <2>3. data' \in Seq(Pieces)
        BY <2>2
    <2>4. UNCHANGED <<state, worker, counter, rows, params, link, todo, sib>>
        BY <1>1 DEF Receive
    <2> QED
        BY <2>1, <2>2, <2>3, <2>4 DEF worker, rows, params, sib
<1>2. CASE PutRow
    <2>1. PICK i \in 1 .. Len(batch) :
             /\ Put(SubSeq(batch, 1, i))
             /\ batch' = SubSeq(batch, i + 1, Len(batch))
        BY <1>2, FirstEndExists DEF PutRow, FirstEnd
    <2>2. queue' \in Seq(Seq(Pieces)) /\ Len(queue') <= QueueSize
        BY <2>1, RowType, PutKeeps
    <2>3. batch' \in Seq(Pieces) /\ listener = "put"
        BY <1>2, <2>1, RowType DEF PutRow
    <2>4. UNCHANGED <<state, worker, listener, counter, data, consumer, params, stream, sib>>
        BY <1>2 DEF PutRow
    <2> QED
        BY <2>2, <2>3, <2>4 DEF worker, params, stream, sib
<1>3. CASE PutLast
    <2>1. <<>> \in Seq(Pieces)
        BY EmptySeq
    <2>2. queue' \in Seq(Seq(Pieces)) /\ Len(queue') <= QueueSize
        BY <1>3, <2>1, PutKeeps DEF PutLast
    <2>3. data' \in Seq(Pieces) /\ batch' = <<>> /\ counter' = Timeouts /\ listener' = "read"
        BY <1>3 DEF PutLast
    <2>4. batch' \in Seq(Pieces) /\ counter' \in 0 .. Timeouts
        BY <2>1, <2>3, SibAssumption
    <2>5. UNCHANGED <<state, worker, consumer, params, stream, sib>> /\ listener = "put"
        BY <1>3 DEF PutLast
    <2> QED
        BY <2>2, <2>3, <2>4, <2>5 DEF worker, params, stream, sib
<1>4. CASE TimesOut \/ ReceiveNothing
    <2>1. counter' \in 0 .. Timeouts
        BY <1>4, SibAssumption DEF TimesOut, ReceiveNothing
    <2>2. UNCHANGED <<state, worker, listener, data, batch, rows, params, stream, sib>>
        BY <1>4 DEF TimesOut, ReceiveNothing
    <2> QED
        BY <2>1, <2>2 DEF worker, rows, params, stream, sib
<1>5. CASE LoseSocket
    <2>1. socket' = FALSE /\ listener' = "losing" /\ listener = "read" /\ state # "UNKNOWN"
        BY <1>5 DEF LoseSocket, Quiet, Listening
    <2>2. link # "reset" /\ socket' \in BOOLEAN
        BY <1>5 DEF LoseSocket, Quiet
    <2>3. UNCHANGED <<state, step, parted, counter, data, batch, rows, params, stream, sib>>
        BY <1>5 DEF LoseSocket
    <2> QED
        BY <2>1, <2>2, <2>3 DEF rows, params, stream, sib
<1>6. CASE LoseState
    <2>1. listener = "losing" /\ state' = "UNKNOWN" /\ listener' = "read"
        BY <1>6 DEF LoseState
    <2>2. UNCHANGED <<worker, counter, data, batch, rows, params, stream, sib>>
        BY <1>6 DEF LoseState
    <2> QED
        BY <2>1, <2>2 DEF worker, rows, params, stream, sib
<1>7. CASE ListenerDies
    <2>1. listener = "read" /\ listener' = "dead" /\ socket /\ state # "UNKNOWN"
        BY <1>7 DEF ListenerDies, Listening
    <2>2. UNCHANGED <<state, worker, counter, data, batch, rows, params, stream, sib>>
        BY <1>7 DEF ListenerDies
    <2> QED
        BY <2>1, <2>2 DEF worker, rows, params, stream, sib
<1> QED
    BY <1>1, <1>2, <1>3, <1>4, <1>5, <1>6, <1>7 DEF Listen

LEMMA StateHolds == Spec => []StateInv
<1>1. Init => StateInv
    <2> SUFFICES ASSUME Init PROVE StateInv
        OBVIOUS
    <2>1. <<>> \in Seq(Pieces) /\ <<>> \in Seq(Seq(Pieces)) /\ <<>> \in Seq(Command)
        BY EmptySeq
    <2>2. Len(queue) <= QueueSize /\ counter \in 0 .. Timeouts
        BY SibAssumption DEF Init
    <2> QED
        BY <2>1, <2>2 DEF Init, StateInv, TypeOK, ListenerInv, NeverStranded, LinkInv
<1>2. StateInv /\ [Next]_vars => StateInv'
    <2> SUFFICES ASSUME StateInv, [Next]_vars PROVE StateInv'
        OBVIOUS
    <2>1. CASE Next
        BY <2>1, ConnectState, ListenState, OthersState DEF Next
    <2>2. CASE UNCHANGED vars
        BY <2>2 DEF vars, worker, hearing, rows, params, stream, sib,
            StateInv, TypeOK, ListenerInv, NeverStranded, LinkInv
    <2> QED
        BY <2>1, <2>2
<1> QED
    BY <1>1, <1>2, PTL DEF Spec

\* The types, and the bound of the queue, for every size of it.
THEOREM TypeInvariant == Spec => []TypeOK
BY StateHolds, PTL DEF StateInv

\* In every state but UNKNOWN, in which the worker dials, there is a socket or
\* the listener is about to report its loss.
THEOREM AlwaysDials == Spec => []NeverStranded
BY StateHolds, PTL DEF StateInv

-----------------------------------------------------------------------------
(* The dialogue of authenticate *)

\* Of replies there are replies left when some have been taken, and replies when
\* one is added.
LEMMA RepliesLeft ==
    ASSUME wire \in Seq(Pieces), Replies(wire), NEW n \in Chunk
    PROVE  Replies(Rest(n))
<1>1. n \in Nat /\ 1 <= n /\ n <= Len(wire) /\ Len(wire) \in Nat
    BY DEF Chunk
<1>2. \A i \in n + 1 .. Len(wire) : wire[i] \in Pieces
    BY <1>1, ElementOfSeq
<1>3. /\ Len(Rest(n)) = Len(wire) - n
      /\ \A i \in 1 .. Len(wire) - n : Rest(n)[i] = wire[n + i]
    BY <1>1, <1>2, SubSeqProperties DEF Rest
<1> SUFFICES ASSUME NEW i \in 1 .. Len(Rest(n))
             PROVE  /\ Rest(n)[i] \in {"begin", "end"}
                    /\ Rest(n)[i] = "begin" => i < Len(Rest(n)) /\ Rest(n)[i + 1] = "end"
    BY DEF Replies
<1>4. i \in 1 .. Len(wire) - n /\ n + i \in 1 .. Len(wire) /\ Rest(n)[i] = wire[n + i]
    BY <1>1, <1>3
<1>5. wire[n + i] \in {"begin", "end"}
    BY <1>4 DEF Replies
<1>6. ASSUME wire[n + i] = "begin" PROVE i < Len(Rest(n)) /\ Rest(n)[i + 1] = "end"
    <2>1. n + i < Len(wire) /\ wire[n + i + 1] = "end"
        BY <1>4, <1>6 DEF Replies
    <2>2. i + 1 \in 1 .. Len(wire) - n /\ n + (i + 1) = n + i + 1 /\ i < Len(wire) - n
        BY <1>1, <1>4, <2>1
    <2> QED
        BY <1>3, <2>1, <2>2
<1> QED
    BY <1>4, <1>5, <1>6

LEMMA RepliesAdded ==
    ASSUME wire \in Seq(Pieces), Replies(wire)
    PROVE  Replies(wire \o Answer)
<1>1. /\ Answer \in Seq(Pieces) /\ Len(Answer) = 2 /\ Len(wire) \in Nat
      /\ Answer[1] = "begin" /\ Answer[2] = "end"
    BY DEF Answer, Pieces
<1>2. /\ Len(wire \o Answer) = Len(wire) + 2
      /\ \A i \in 1 .. Len(wire) + 2 : (wire \o Answer)[i] =
            IF i <= Len(wire) THEN wire[i] ELSE Answer[i - Len(wire)]
    <2>1. /\ Len(wire \o Answer) = Len(wire) + Len(Answer)
          /\ \A i \in 1 .. Len(wire) + Len(Answer) : (wire \o Answer)[i] =
                IF i <= Len(wire) THEN wire[i] ELSE Answer[i - Len(wire)]
        BY ZenonT(30), <1>1, ConcatProperties
    <2> QED
        BY <1>1, <2>1
<1>3. /\ (wire \o Answer)[Len(wire) + 1] = "begin"
      /\ (wire \o Answer)[Len(wire) + 2] = "end"
    <2>1. Len(wire) + 1 \in 1 .. Len(wire) + 2 /\ Len(wire) + 2 \in 1 .. Len(wire) + 2
        BY <1>1
    <2>2. (wire \o Answer)[Len(wire) + 1] = Answer[1]
        BY <1>1, <1>2, <2>1
    <2>3. (wire \o Answer)[Len(wire) + 2] = Answer[2]
        BY <1>1, <1>2, <2>1
    <2> QED
        BY <1>1, <2>2, <2>3
<1>4. ASSUME NEW i \in 1 .. Len(wire \o Answer)
      PROVE  /\ (wire \o Answer)[i] \in {"begin", "end"}
             /\ (wire \o Answer)[i] = "begin" =>
                   i < Len(wire \o Answer) /\ (wire \o Answer)[i + 1] = "end"
    <2>1. i \in 1 .. Len(wire) \/ i = Len(wire) + 1 \/ i = Len(wire) + 2
        BY <1>1, <1>2
    <2>2. CASE i \in 1 .. Len(wire)
        <3>1. (wire \o Answer)[i] = wire[i] /\ wire[i] \in {"begin", "end"}
            BY <1>1, <1>2, <2>2 DEF Replies
        <3>2. ASSUME wire[i] = "begin" PROVE i + 1 \in 1 .. Len(wire) /\ wire[i + 1] = "end"
            BY <1>1, <2>2, <3>2 DEF Replies
        <3>3. ASSUME wire[i] = "begin"
              PROVE  i < Len(wire \o Answer) /\ (wire \o Answer)[i + 1] = "end"
            <4>1. i + 1 \in 1 .. Len(wire) /\ wire[i + 1] = "end"
                BY <3>2, <3>3
            <4>2. (wire \o Answer)[i + 1] = wire[i + 1]
                BY <1>1, <1>2, <4>1
            <4> QED
                BY <1>1, <1>2, <4>1, <4>2
        <3> QED
            BY <3>1, <3>3
    <2>3. CASE i = Len(wire) + 1
        <3>1. i < Len(wire \o Answer) /\ i + 1 = Len(wire) + 2
            BY <1>1, <1>2, <2>3
        <3> QED
            BY <1>3, <2>3, <3>1
    <2>4. CASE i = Len(wire) + 2
        BY <1>3, <2>4
    <2> QED
        BY <2>1, <2>2, <2>3, <2>4
<1> QED
    BY <1>4 DEF Replies

\* No command under way changes the log level.
Unlogged == \A i \in 1 .. Len(todo) : todo[i][1] # "LOG"

\* The connect worker.
LEMMA ConnectDialogue ==
    ASSUME StateInv, StateInv', DialogueInv, Connect PROVE DialogueInv'
<1> USE DEF DialogueInv, AtRest
<1> todo \in Seq(Command) /\ (link # "up" => todo = <<>>) /\ wire \in Seq(Pieces)
    BY DEF StateInv, TypeOK, LinkInv
<1>1. CASE Dial
    BY <1>1 DEF Dial, Dialogue
<1>2. CASE Greet
    <2>1. UNCHANGED <<link, sib>> /\ step = "greet"
        BY <1>2 DEF Greet
    <2>2. socket
        BY <2>1 DEF StateInv, TypeOK
    <2>3. CASE CanSend
        <3>1. step' = "flush"
            BY <1>2, <2>3 DEF Greet
        <3>2. link = "up" => todo' # <<>> /\ todo'[Len(todo')] = <<"LOG", 0>>
            <4>1. link = "up" =>
                     Len(todo') = Len(todo) + 1 /\ todo'[Len(todo')] = <<"LOG", 0>>
                BY <1>2, SendKeeps, Commands DEF Greet
            <4> QED
                BY <4>1, LenProperties
        <3> QED
            BY <2>1, <3>1, <3>2 DEF Dialogue
    <2>4. CASE ~CanSend
        <3>1. step' = "failed" /\ link' = "reset"
            BY <1>2, <2>1, <2>2, <2>4 DEF Greet, CanSend
        <3> QED
            BY <3>1 DEF Dialogue
    <2> QED
        BY <2>3, <2>4
<1>3. CASE GreetFails \/ Configure
    <2>1. step' = "idle"
        BY <1>3 DEF GreetFails, Configure
    <2> QED
        BY <2>1 DEF Dialogue
<1>4. CASE Flush
    BY <1>4 DEF Flush, worker, sib, Dialogue
<1>5. CASE Flushed
    <2>1. UNCHANGED <<link, wire, sib>> /\ step = "flush" /\ wire = <<>>
        BY <1>5 DEF Flushed
    <2>2. socket
        BY <2>1 DEF StateInv, TypeOK
    <2>3. CASE CanSend
        <3>1. step' = "prompt"
            BY <1>5, <2>3 DEF Flushed
        <3>2. link = "up" => todo = <<>> /\ sibLog = 0
            BY <1>5, <2>1 DEF Flushed, NothingComes
        <3>3. link = "up" => Len(todo') = 1 /\ todo'[1] = <<"AUTH", 0>>
            BY <1>5, <3>2, SendKeeps, Commands DEF Flushed
        <3>4. wire' = <<>> /\ Replies(<<>>)
            BY <2>1 DEF Replies
        <3>5. ASSUME link = "up", NEW i \in 1 .. Len(todo') PROVE todo'[i][1] # "LOG"
            <4>1. Len(todo') = 1 /\ todo'[1] = <<"AUTH", 0>>
                BY <3>3, <3>5
            <4>2. i = 1
                BY <3>5, <4>1
            <4> QED
                BY <4>1, <4>2
        <3>6. step' \in Dialogue /\ step' # "flush" /\ step' # "failed"
            BY <3>1 DEF Dialogue
        <3> QED
            BY <2>1, <3>2, <3>3, <3>4, <3>5, <3>6 DEF sib
    <2>4. CASE ~CanSend
        <3>1. step' = "failed" /\ link' = "reset"
            BY <1>5, <2>1, <2>2, <2>4 DEF Flushed, CanSend
        <3> QED
            BY <3>1 DEF Dialogue
    <2> QED
        BY <2>3, <2>4
<1>6. CASE Reply
    <2>1. UNCHANGED <<link, sib>> /\ step \in Dialogue
        BY <1>6 DEF Reply
    <2>2. Replies(wire')
        <3>1. CASE wire' = <<>>
            BY <3>1 DEF Replies
        <3>2. ASSUME NEW n \in Chunk, wire' = Rest(n) PROVE Replies(wire')
            BY <2>1, <3>2, RepliesLeft
        <3> QED
            BY <1>6, <3>1, <3>2 DEF Reply
    <2>3. ASSUME ~parted' PROVE wire' = <<>> /\ ~parted
        BY <1>6, <2>3 DEF Reply
    <2>4. ASSUME link = "up", ~parted' PROVE wire' = <<>> /\ todo = <<>>
        <3>1. wire' = <<>> /\ ~parted
            BY <2>4, <2>3
        <3>2. wire # <<>>
            BY <1>6, <2>4 DEF Reply, Chunk
        <3> QED
            BY <2>1, <2>4, <3>1, <3>2
    <2>5. link = "up" => sibLog = 0 /\ Unlogged
        BY <2>1 DEF Unlogged
    <2>6. step' \notin {"flush", "failed"}
        BY <1>6 DEF Reply, Dialogue, AfterReply
    <2>7. CASE step = "version"
        <3>1. step' = "configure"
            BY <1>6, <2>7 DEF Reply, AfterReply
        <3>2. todo' = todo
            BY <1>6, <2>7, ConcatEmptySeq DEF Reply, Send
        <3> QED
            BY <2>1, <2>2, <2>5, <3>1, <3>2 DEF sib, Dialogue, Unlogged
    <2>8. CASE step # "version"
        <3>1. step' \in Dialogue
            BY <1>6, <2>1, <2>8 DEF Reply, AfterReply, Dialogue
        <3>2. link = "up" => /\ Len(todo') = Len(todo) + 1
                             /\ todo'[Len(todo')] = <<"ask", 0>>
                             /\ \A i \in 1 .. Len(todo) : todo'[i] = todo[i]
            BY <1>6, <2>8, SendKeeps, Commands DEF Reply
        <3>3. ASSUME link = "up", NEW i \in 1 .. Len(todo') PROVE todo'[i][1] # "LOG"
            <4>1. i = Len(todo') \/ i \in 1 .. Len(todo)
                BY <3>2, <3>3
            <4> QED
                BY <2>5, <3>2, <3>3, <4>1 DEF Unlogged
        <3>4. ASSUME link = "up", ~parted' PROVE wire' = <<>> /\ Len(todo') = 1
            BY <2>4, <3>2, <3>4
        <3> QED
            BY <2>1, <2>2, <2>5, <2>6, <2>3, <3>1, <3>3, <3>4 DEF sib
    <2> QED
        BY <2>7, <2>8
<1>7. CASE NoReply
    <2>1. step' = "failed" /\ step \in Dialogue /\ wire = <<>>
        BY <1>7 DEF NoReply
    <2>2. UNCHANGED stream
        BY <1>7 DEF NoReply
    <2>3. link = "up" => todo = <<>>
        BY <1>7 DEF NoReply, NothingComes
    <2>4. link = "up" => sibLog = 0
        BY <2>1
    <2>5. UNCHANGED sib
        BY <1>7 DEF NoReply
    <2> QED
        BY <2>1, <2>2, <2>3, <2>4, <2>5 DEF stream, sib, Dialogue
<1> QED
    BY <1>1, <1>2, <1>3, <1>4, <1>5, <1>6, <1>7 DEF Connect

\* The listener is at rest during a dialogue, and so is the strand.
LEMMA ListenDialogue ==
    ASSUME StateInv, StateInv', DialogueInv,
           Listen \/ Consume \/ ReconfigureLog \/ ReconfigureSom
    PROVE  DialogueInv'
<1>1. CASE Consume \/ PutRow \/ PutLast \/ TimesOut \/ LoseSocket \/ LoseState
           \/ ListenerDies \/ ReceiveNothing
    <2>1. UNCHANGED <<step, parted, stream, sib>>
        BY <1>1 DEF Consume, PutRow, PutLast, TimesOut, LoseSocket, LoseState, ListenerDies,
            ReceiveNothing, worker
    <2> QED
        BY <2>1 DEF stream, sib, DialogueInv, AtRest
<1>2. CASE Receive \/ ReconfigureLog \/ ReconfigureSom
    <2>1. state # "UNKNOWN" /\ UNCHANGED <<state, step>>
        BY <1>2 DEF Receive, ReconfigureLog, ReconfigureSom, Listening, worker
    <2>2. step' = "idle"
        BY <2>1 DEF StateInv, TypeOK
    <2> QED
        BY <2>2 DEF DialogueInv, Dialogue
<1> QED
    BY <1>1, <1>2 DEF Listen

\* The SIB and the network.
LEMMA SibDialogue ==
    ASSUME StateInv, StateInv', DialogueInv, SibHandles \/ SibLogs \/ Cut \/ Restart
    PROVE  DialogueInv'
<1> USE DEF DialogueInv, AtRest
<1> todo \in Seq(Command) /\ (link # "up" => todo = <<>>) /\ wire \in Seq(Pieces)
    BY DEF StateInv, TypeOK, LinkInv
<1>1. CASE SibHandles
    <2>1. UNCHANGED <<step, link>> /\ link = "up" /\ todo # <<>>
        BY <1>1 DEF SibHandles, worker
    <2>2. /\ Head(todo) = todo[1]
          /\ todo' = Tail(todo) /\ todo' \in Seq(Command) /\ Len(todo') = Len(todo) - 1
          /\ \A i \in 1 .. Len(todo') : todo'[i] = todo[i + 1]
        BY <1>1, HeadTailProperties DEF SibHandles
    <2>3. sibLog' = IF todo[1][1] = "LOG" THEN todo[1][2] ELSE sibLog
        BY <1>1, <2>2 DEF SibHandles
    <2>4. step = "failed" => link = "reset"
        BY <2>1
    <2>5. CASE step = "flush"
        <3>1. todo[Len(todo)] = <<"LOG", 0>>
            BY <2>1, <2>5
        <3>2. CASE Len(todo) = 1
            BY <2>1, <2>2, <2>3, <2>5, <3>1, <3>2 DEF Dialogue
        <3>3. CASE Len(todo) # 1
            <4>1. Len(todo') > 0 /\ todo'[Len(todo')] = todo[Len(todo)]
                BY <2>1, <2>2, <3>3
            <4> QED
                BY <2>1, <2>5, <3>1, <4>1 DEF Dialogue
        <3> QED
            BY <3>2, <3>3
    <2>6. CASE step \in Dialogue \cup {"configure"}
        <3>1. Replies(wire) /\ sibLog = 0 /\ Unlogged
            BY <2>1, <2>6 DEF Unlogged
        <3>2. todo[1][1] # "LOG" /\ \A i \in 1 .. Len(todo') : todo'[i][1] # "LOG"
            BY <2>1, <2>2, <3>1 DEF Unlogged
        <3>3. sibLog' = 0 /\ wire' = wire \o Answer /\ Replies(wire')
            BY <1>1, <2>3, <3>1, <3>2, RepliesAdded DEF SibHandles
        <3>4. ASSUME step \in Dialogue, ~parted PROVE wire' = Answer /\ todo' = <<>>
            <4>1. wire = <<>> /\ Len(todo) = 1
                BY <2>1, <3>4
            <4>2. wire' = Answer
                BY <3>3, <4>1 DEF Answer
            <4> QED
                BY <2>2, <4>1, <4>2
        <3>5. step' \notin {"flush", "failed"}
            BY <2>1, <2>6 DEF Dialogue
        <3>6. UNCHANGED parted
            BY <1>1 DEF SibHandles, worker
        <3> QED
            BY <2>1, <2>6, <3>2, <3>3, <3>4, <3>5, <3>6
    <2>7. CASE step \notin Dialogue \cup {"configure", "flush"}
        BY <2>1, <2>4, <2>7
    <2> QED
        BY <2>5, <2>6, <2>7
<1>2. CASE SibLogs
    BY SMTT(30), <1>2 DEF SibLogs, worker, sib, StateInv, TypeOK
<1>3. CASE Cut \/ Restart
    <2>1. link' # "up" /\ UNCHANGED <<step, parted, wire>> /\ link = "up"
        BY <1>3 DEF Cut, Restart, worker
    <2> QED
        BY <2>1
<1> QED
    BY <1>1, <1>2, <1>3

LEMMA DialogueHolds == Spec => []DialogueInv
<1>1. Init => DialogueInv
    BY DEF Init, DialogueInv, Dialogue
<1>2. StateInv /\ StateInv' /\ DialogueInv /\ [Next]_vars => DialogueInv'
    <2> SUFFICES ASSUME StateInv, StateInv', DialogueInv, [Next]_vars PROVE DialogueInv'
        OBVIOUS
    <2>1. CASE Next
        BY <2>1, ConnectDialogue, ListenDialogue, SibDialogue DEF Next
    <2>2. CASE UNCHANGED vars
        BY <2>2 DEF vars, worker, stream, sib, DialogueInv, AtRest
    <2> QED
        BY <2>1, <2>2
<1> QED
    BY <1>1, <1>2, StateHolds, PTL DEF Spec

\* What authenticate takes for the replies to its commands are those replies, as
\* long as recv has returned each as a whole, and never log data.
THEOREM TakesReplies == Spec => RepliesMatch
<1>1. StateInv /\ DialogueInv /\ [Next]_vars =>
        [(step \in Dialogue /\ step' = AfterReply[step] /\ link = "up")
            => /\ \A i \in DOMAIN wire : wire[i] \in {"begin", "end"}
               /\ ~parted => wire = Answer /\ todo = <<>>]_vars
    <2> SUFFICES ASSUME StateInv, DialogueInv, [Next]_vars,
                        step \in Dialogue, step' = AfterReply[step], link = "up"
                 PROVE  /\ \A i \in DOMAIN wire : wire[i] \in {"begin", "end"}
                        /\ ~parted => wire = Answer /\ todo = <<>>
        OBVIOUS
    <2>1. step' # step /\ step' # "failed" /\ step' # "idle"
        BY DEF Dialogue, AfterReply
    <2>2. CASE Reply
        <3>1. DOMAIN wire = 1 .. Len(wire)
            BY DEF StateInv, TypeOK
        <3>2. wire # <<>>
            BY <2>2 DEF Reply, Chunk
        <3> QED
            BY <3>1, <3>2 DEF DialogueInv, Replies
    <2>3. CASE ~Reply
        BY <2>1, <2>3 DEF Next, vars, worker, Connect, Listen, Dialogue, Dial, Greet, GreetFails,
            Flush, Flushed, NoReply, Configure, Receive, ReceiveNothing, PutRow, PutLast,
            TimesOut, LoseSocket, LoseState, ListenerDies, Consume, ReconfigureLog,
            ReconfigureSom, Restart, SibHandles, SibLogs, Cut
    <2> QED
        BY <2>2, <2>3
<1> QED
    BY <1>1, StateHolds, DialogueHolds, PTL DEF Spec, RepliesMatch

-----------------------------------------------------------------------------
(* The operation mode *)

\* A mode that is sent is what the SIB will have; another command changes nothing.
LEMMA SendTold ==
    ASSUME todo \in Seq(Command), link = "up", NEW c \in Command, Send(<<c>>),
           UNCHANGED sibSom
    PROVE  /\ \A m : c = <<"SOM", m>> => Told(m)'
           /\ \A m : c[1] # "SOM" /\ Told(m) => Told(m)'
<1>1. /\ todo' \in Seq(Command) /\ Len(todo') = Len(todo) + 1
      /\ todo'[Len(todo')] = c
      /\ \A i \in 1 .. Len(todo) : todo'[i] = todo[i]
    BY SendKeeps
<1>2. Len(todo) \in Nat
    OBVIOUS
<1>3. ASSUME NEW m, c = <<"SOM", m>> PROVE Told(m)'
    BY <1>1, <1>2, <1>3 DEF Told
<1>4. ASSUME NEW m, c[1] # "SOM", Told(m) PROVE Told(m)'
    <2>1. CASE sibSom = m /\ \A i \in 1 .. Len(todo) : todo[i][1] # "SOM"
        <3>1. \A i \in 1 .. Len(todo') : todo'[i][1] # "SOM"
            BY <1>1, <1>2, <1>4, <2>1
        <3> QED
            BY <2>1, <3>1 DEF Told
    <2>2. ASSUME NEW i \in 1 .. Len(todo), todo[i] = <<"SOM", m>>,
                 \A j \in i + 1 .. Len(todo) : todo[j][1] # "SOM"
          PROVE  Told(m)'
        <3>1. i \in 1 .. Len(todo') /\ todo'[i] = <<"SOM", m>>
            BY <1>1, <1>2, <2>2
        <3>2. \A j \in i + 1 .. Len(todo') : todo'[j][1] # "SOM"
            BY <1>1, <1>2, <1>4, <2>2
        <3> QED
            BY <3>1, <3>2 DEF Told
    <2> QED
        BY <1>4, <2>1, <2>2 DEF Told
<1> QED
    BY <1>3, <1>4

\* What the SIB handles is the oldest of what it has been told.
LEMMA HandlesTold ==
    ASSUME StateInv, SibHandles, NEW m, Told(m) PROVE Told(m)'
<1>1. /\ todo \in Seq(Command) /\ Len(todo) \in Nat \ {0}
      /\ todo' \in Seq(Command) /\ Len(todo') = Len(todo) - 1
      /\ \A i \in 1 .. Len(todo') : todo'[i] = todo[i + 1]
      /\ Head(todo) = todo[1]
    BY HeadTailProperties, EmptySeq DEF SibHandles, StateInv, TypeOK
<1>2. sibSom' = IF todo[1][1] = "SOM" THEN todo[1][2] ELSE sibSom
    BY <1>1 DEF SibHandles
<1>3. CASE sibSom = m /\ \A i \in 1 .. Len(todo) : todo[i][1] # "SOM"
    BY <1>1, <1>2, <1>3 DEF Told
<1>4. ASSUME NEW i \in 1 .. Len(todo), todo[i] = <<"SOM", m>>,
             \A j \in i + 1 .. Len(todo) : todo[j][1] # "SOM"
      PROVE  Told(m)'
    <2>1. CASE i = 1
        <3>1. sibSom' = m
            BY <1>2, <1>4, <2>1
        <3>2. \A j \in 1 .. Len(todo') : todo'[j][1] # "SOM"
            BY <1>1, <1>4, <2>1
        <3> QED
            BY <3>1, <3>2 DEF Told
    <2>2. CASE i # 1
        <3>1. i - 1 \in 1 .. Len(todo') /\ todo'[i - 1] = <<"SOM", m>>
            BY <1>1, <1>4, <2>2
        <3>2. \A j \in (i - 1) + 1 .. Len(todo') : todo'[j][1] # "SOM"
            BY <1>1, <1>4, <2>2
        <3> QED
            BY <3>1, <3>2 DEF Told
    <2> QED
        BY <2>1, <2>2
<1> QED
    BY <1>3, <1>4 DEF Told

LEMMA ModeStep == ASSUME StateInv, ModeInv, [Next]_vars PROVE ModeInv'
<1> USE DEF ModeInv
<1> todo \in Seq(Command)
    BY DEF StateInv, TypeOK
<1>1. CASE SibHandles
    <2>1. UNCHANGED <<state, link, som>>
        BY <1>1 DEF SibHandles, params
    <2> QED
        BY <1>1, <2>1, HandlesTold
<1>2. CASE Configure
    <2>1. link' = link /\ UNCHANGED <<som, sibSom>>
        BY <1>2 DEF Configure, params, sib
    <2>2. ASSUME state' = "NORMAL", link = "up" PROVE CanSend
        BY <1>2, <2>2 DEF Configure, StateInv, TypeOK, CanSend
    <2>3. ASSUME state' = "NORMAL", link = "up" PROVE Told(som)'
        <3>1. Send(<<<<"SOM", som>>>>) /\ <<"SOM", som>> \in Command
            BY <1>2, <2>2, <2>3, Commands DEF Configure, StateInv, TypeOK
        <3> QED
            BY <2>1, <2>3, <3>1, SendTold
    <2> QED
        BY <2>1, <2>3 DEF Told
<1>3. CASE ReconfigureLog
    <2>1. PICK l \in Levels : Send(<<<<"LOG", l>>>>)
        BY <1>3 DEF ReconfigureLog
    <2>2. UNCHANGED <<state, link, som, sibSom>>
        BY <1>3 DEF ReconfigureLog, sib
    <2> QED
        BY <2>1, <2>2, SendTold, Commands
<1>4. CASE ReconfigureSom
    <2>1. PICK m \in Modes : som' = m /\ Send(<<<<"SOM", m>>>>)
        BY <1>4 DEF ReconfigureSom
    <2>2. UNCHANGED <<state, link, sibSom>>
        BY <1>4 DEF ReconfigureSom, sib
    <2>3. link = "up" => Told(m)'
        BY <2>1, <2>2, SendTold, Commands
    <2> QED
        BY <2>1, <2>2, <2>3 DEF Told
<1>5. CASE Cut \/ Restart
    BY <1>5 DEF Cut, Restart
<1>6. CASE (Connect /\ ~Configure) \/ LoseState
    <2>1. state' = "UNKNOWN"
        BY <1>6 DEF Connect, Dial, Greet, GreetFails, Flush, Flushed, Reply, NoReply, LoseState,
            StateInv, TypeOK, Dialogue, worker
    <2> QED
        BY <2>1
<1>7. CASE (Listen /\ ~LoseState) \/ Consume \/ SibLogs \/ UNCHANGED vars
    <2>1. UNCHANGED <<state, link, todo, som, sibSom>>
        BY <1>7 DEF Listen, Receive, ReceiveNothing, PutRow, PutLast, TimesOut, LoseSocket,
            ListenerDies, Consume, SibLogs, vars, stream, params, sib
    <2> QED
        BY <2>1 DEF Told
<1> QED
    BY <1>1, <1>2, <1>3, <1>4, <1>5, <1>6, <1>7 DEF Next

\* The SIB's mode is that of the device when it has handled what it was told.
THEOREM FollowsMode == Spec => []ModeFollows
<1>1. Init => ModeInv
    BY DEF Init, ModeInv
<1>2. StateInv /\ ModeInv => ModeFollows
    BY DEF ModeInv, Told, ModeFollows
<1> QED
    BY <1>1, <1>2, ModeStep, StateHolds, PTL DEF Spec

-----------------------------------------------------------------------------
(* The rows *)

\* Whole rows stay whole when a line or a row follows.
LEMMA FollowedRows ==
    ASSUME NEW s \in Seq(Pieces), WholeRows(s),
           NEW t \in Seq(Pieces),
           Len(t) = 2,
           \/ t[1] = "begin" /\ t[2] = "end"
           \/ t[1] = "head" /\ t[2] = "tail"
    PROVE  WholeRows(s \o t)
<1>1. Len(s) \in Nat /\ Len(t) \in Nat
    OBVIOUS
<1>2. /\ Len(s \o t) = Len(s) + Len(t)
      /\ \A i \in 1 .. Len(s) + Len(t) :
            (s \o t)[i] = IF i <= Len(s) THEN s[i] ELSE t[i - Len(s)]
    BY <1>1, ConcatProperties
<1>3. ASSUME NEW i \in 1 .. Len(s)
      PROVE  /\ (s \o t)[i] = "head" => i < Len(s \o t) /\ (s \o t)[i + 1] = "tail"
             /\ (s \o t)[i] = "tail" => i > 1 /\ (s \o t)[i - 1] = "head"
             /\ (s \o t)[i] = "begin" => i < Len(s \o t) /\ (s \o t)[i + 1] = "end"
             /\ (s \o t)[i] = "old" => i = 1
    <2>1. Len(t) > 0 /\ Len(t) \in Nat
        BY <1>1
    <2> i <= Len(s) /\ (s \o t)[i] = s[i]
        BY <1>1, <1>2, <2>1
    <2>2. s[i] = "head" => i + 1 \in 1 .. Len(s) /\ (s \o t)[i + 1] = "tail"
        BY <1>1, <1>2, <2>1 DEF WholeRows
    <2>3. s[i] = "tail" => i > 1 /\ (s \o t)[i - 1] = "head"
        BY <1>1, <1>2, <2>1 DEF WholeRows
    <2>4. s[i] = "old" => i = 1
        BY DEF WholeRows
    <2>5. s[i] = "begin" => i + 1 \in 1 .. Len(s) /\ (s \o t)[i + 1] = "end"
        BY <1>1, <1>2, <2>1 DEF WholeRows
    <2> QED
        BY <1>1, <1>2, <2>1, <2>2, <2>3, <2>4, <2>5
<1>4. /\ Len(s \o t) = Len(s) + 2
      /\ (s \o t)[Len(s) + 1] = t[1] /\ (s \o t)[Len(s) + 2] = t[2]
    BY <1>1, <1>2
<1>5. ASSUME NEW i \in 1 .. Len(s \o t)
      PROVE  /\ (s \o t)[i] = "head" => i < Len(s \o t) /\ (s \o t)[i + 1] = "tail"
             /\ (s \o t)[i] = "tail" => i > 1 /\ (s \o t)[i - 1] = "head"
             /\ (s \o t)[i] = "begin" => i < Len(s \o t) /\ (s \o t)[i + 1] = "end"
             /\ (s \o t)[i] = "old" => i = 1
    <2>1. i \in 1 .. Len(s) \/ i = Len(s) + 1 \/ i = Len(s) + 2
        BY <1>1, <1>4
    <2>2. CASE i = Len(s) + 1
        <3>1. i < Len(s \o t) /\ i + 1 = Len(s) + 2
            BY <1>1, <1>4, <2>2
        <3> QED
            BY <1>4, <2>2, <3>1
    <2>3. CASE i = Len(s) + 2
        <3>1. i > 1 /\ i - 1 = Len(s) + 1
            BY <1>1, <2>3
        <3> QED
            BY <1>4, <2>3, <3>1
    <2> QED
        BY <1>3, <2>1, <2>2, <2>3
<1> QED
    BY <1>5 DEF WholeRows

\* What follows the end of a row begins with a row.
LEMMA RemainingRows ==
    ASSUME NEW s \in Seq(Pieces), WholeRows(s),
           NEW i \in 1 .. Len(s), s[i] \in {"end", "tail"},
           NEW t \in Seq(Pieces), Len(t) = Len(s) - i,
           \A j \in 1 .. Len(t) : t[j] = s[i + j]
    PROVE  WholeRows(t)
<1> SUFFICES ASSUME NEW j \in 1 .. Len(t)
             PROVE  /\ t[j] = "head" => j < Len(t) /\ t[j + 1] = "tail"
                    /\ t[j] = "tail" => j > 1 /\ t[j - 1] = "head"
                    /\ t[j] = "begin" => j < Len(t) /\ t[j + 1] = "end"
                    /\ t[j] = "old" => j = 1
    BY DEF WholeRows
<1>1. Len(s) \in Nat /\ Len(t) \in Nat /\ i + j \in 1 .. Len(s) /\ i + j > 1
    OBVIOUS
<1>2. t[j] = s[i + j]
    OBVIOUS
<1>3. CASE t[j] = "head"
    <2>1. i + j < Len(s) /\ s[i + j + 1] = "tail"
        BY <1>1, <1>2, <1>3 DEF WholeRows
    <2>2. j + 1 \in 1 .. Len(t) /\ i + (j + 1) = i + j + 1
        BY <1>1, <2>1
    <2> QED
        BY <1>1, <1>3, <2>1, <2>2
<1>4. CASE t[j] = "tail"
    <2>1. s[i + j - 1] = "head"
        BY <1>1, <1>2, <1>4 DEF WholeRows
    <2>2. j # 1
        BY <2>1
    <2>3. j - 1 \in 1 .. Len(t) /\ i + (j - 1) = i + j - 1
        BY <1>1, <2>2
    <2> QED
        BY <1>1, <1>4, <2>1, <2>2, <2>3
<1>5. CASE t[j] = "begin"
    <2>1. i + j < Len(s) /\ s[i + j + 1] = "end"
        BY <1>1, <1>2, <1>5 DEF WholeRows
    <2>2. j + 1 \in 1 .. Len(t) /\ i + (j + 1) = i + j + 1
        BY <1>1, <2>1
    <2> QED
        BY <1>1, <1>5, <2>1, <2>2
<1>6. t[j] # "old"
    BY <1>1, <1>2 DEF WholeRows
<1> QED
    BY <1>3, <1>4, <1>5, <1>6

GoodRow(row) == row \in {<<>>, Answer, Row, <<"end">>} \/ Head(row) = "old"

\* The first row of what is put.
LEMMA FirstRow ==
    ASSUME batch \in Seq(Pieces), wire \in Seq(Pieces), WholeRows(batch \o wire),
           NEW i \in 1 .. Len(batch), batch[i] \in {"end", "tail"},
           \A j \in 1 .. Len(batch) : batch[j] \in {"end", "tail"} => i <= j
    PROVE  GoodRow(SubSeq(batch, 1, i))
<1> DEFINE row == SubSeq(batch, 1, i)
<1>1. row \in Seq(Pieces) /\ Len(row) = i /\ \A j \in 1 .. i : row[j] = batch[j]
    BY RowType
<1>2. Len(batch) \in Nat /\ Len(wire) \in Nat
    OBVIOUS
<1>3. /\ Len(batch \o wire) = Len(batch) + Len(wire)
      /\ \A j \in 1 .. Len(batch) : (batch \o wire)[j] = batch[j]
    BY <1>2, ConcatProperties
<1>4. batch[1] \in Pieces /\ 1 \in 1 .. Len(batch) /\ 1 \in 1 .. Len(batch \o wire)
    BY <1>2, <1>3, ElementOfSeq
<1> HIDE DEF row
<1>5. CASE batch[1] = "old"
    <2>1. row # <<>> /\ Head(row) = row[1]
        BY <1>1
    <2> QED
        BY <1>1, <1>5, <2>1 DEF GoodRow, row
<1>6. CASE batch[1] = "end"
    <2>1. i = 1
        BY <1>4, <1>6
    <2>2. row = <<"end">>
        BY <1>1, <1>6, <2>1
    <2> QED
        BY <2>2 DEF GoodRow, row
<1>7. CASE batch[1] \in {"begin", "head"}
    <2> DEFINE second == IF batch[1] = "begin" THEN "end" ELSE "tail"
    <2>1. (batch \o wire)[2] = second
        BY <1>3, <1>4, <1>7 DEF WholeRows
    <2>2. i # 1
        BY <1>7
    <2>3. 2 \in 1 .. Len(batch)
        BY <1>2, <2>2
    <2>4. batch[2] = second
        BY <1>3, <2>1, <2>3
    <2>5. i = 2
        BY <2>2, <2>3, <2>4
    <2>6. row = <<batch[1], second>>
        BY <1>1, <2>4, <2>5
    <2> QED
        BY <1>7, <2>6 DEF GoodRow, Answer, Row, row
<1>8. batch[1] # "tail"
    BY <1>3, <1>4 DEF WholeRows
<1> QED
    BY <1>4, <1>5, <1>6, <1>7, <1>8 DEF Pieces

\* The queue with one more good row, or one less.
LEMMA PutGood ==
    ASSUME queue \in Seq(Seq(Pieces)), Len(queue) <= QueueSize, RowsWhole, state # "ERROR",
           NEW row \in Seq(Pieces), Put(row), GoodRow(row)
    PROVE  RowsWhole'
<1>1. \A i \in 1 .. Len(queue') :
         queue'[i] = row \/ (i \in 1 .. Len(queue) /\ queue'[i] = queue[i])
    BY PutKeeps
<1>2. queue' \in Seq(Seq(Pieces)) /\ DOMAIN queue = 1 .. Len(queue)
    BY PutKeeps
<1>3. DOMAIN queue' = 1 .. Len(queue')
    BY <1>2
<1> QED
    BY <1>1, <1>2, <1>3 DEF RowsWhole, GoodRow

LEMMA Regroup ==
    ASSUME NEW a \in Seq(Pieces), NEW b \in Seq(Pieces), NEW c \in Seq(Pieces)
    PROVE  (a \o b) \o c = a \o (b \o c)
BY ConcatAssociative

\* The listener moves pieces from the stream to its rows, in order.
LEMMA ListenRows ==
    ASSUME StateInv, RowsInv, Listen PROVE RowsInv'
<1> USE DEF RowsInv
<1> data \in Seq(Pieces) /\ batch \in Seq(Pieces) /\ wire \in Seq(Pieces)
    BY DEF StateInv, TypeOK
<1>1. CASE Receive
    <2>1. PICK n \in Chunk : batch' = data \o Got(n) /\ wire' = Rest(n)
        BY <1>1 DEF Receive
    <2>2. listener = "read" /\ listener' = "put" /\ step = "idle" /\ step' = "idle"
        BY <1>1 DEF Receive, Listening, worker, StateInv, TypeOK
    <2>3. batch' \o wire' = data \o wire
        <3>1. Got(n) \in Seq(Pieces) /\ Rest(n) \in Seq(Pieces) /\ Got(n) \o Rest(n) = wire
            BY ChunkType
        <3>2. (data \o Got(n)) \o Rest(n) = data \o (Got(n) \o Rest(n))
            BY ZenonT(60), <3>1, Regroup
        <3> QED
            BY <2>1, <3>1, <3>2
    <2>4. UNCHANGED <<state, queue>>
        BY <1>1 DEF Receive, rows
    <2> QED
        BY <2>2, <2>3, <2>4 DEF Kept, RowsWhole
<1>2. CASE PutRow
    <2>1. /\ FirstEnd \in 1 .. Len(batch) /\ batch[FirstEnd] \in {"end", "tail"}
          /\ \A j \in 1 .. Len(batch) : batch[j] \in {"end", "tail"} => FirstEnd <= j
        BY <1>2, FirstEndExists DEF PutRow
    <2>2. PICK i \in 1 .. Len(batch) : i = FirstEnd
        BY <2>1
    <2>3. Put(SubSeq(batch, 1, i)) /\ batch' = SubSeq(batch, i + 1, Len(batch))
        BY <1>2, <2>2 DEF PutRow, FirstEnd
    <2>4. UNCHANGED <<state, step, wire, data>> /\ listener = "put" /\ listener' = "put"
        BY <1>2 DEF PutRow, worker, stream
    <2>5. /\ SubSeq(batch, 1, i) \in Seq(Pieces)
          /\ batch' \in Seq(Pieces) /\ Len(batch') = Len(batch) - i
          /\ \A j \in 1 .. Len(batch) - i : batch'[j] = batch[i + j]
        BY <2>3, RowType
    <2>6. ASSUME state = "NORMAL" PROVE GoodRow(SubSeq(batch, 1, i)) /\ WholeRows(batch' \o wire)
        <3>1. WholeRows(batch \o wire)
            BY <2>4, <2>6 DEF Kept
        <3>2. GoodRow(SubSeq(batch, 1, i))
            BY <2>1, <2>2, <3>1, FirstRow
        <3>3. /\ batch \o wire \in Seq(Pieces) /\ Len(batch \o wire) = Len(batch) + Len(wire)
              /\ \A j \in 1 .. Len(batch) + Len(wire) : (batch \o wire)[j] =
                    IF j <= Len(batch) THEN batch[j] ELSE wire[j - Len(batch)]
            BY ConcatProperties
        <3>4. /\ batch' \o wire \in Seq(Pieces) /\ Len(batch' \o wire) = Len(batch') + Len(wire)
              /\ \A j \in 1 .. Len(batch') + Len(wire) : (batch' \o wire)[j] =
                    IF j <= Len(batch') THEN batch'[j] ELSE wire[j - Len(batch')]
            BY <2>5, ConcatProperties
        <3>5. Len(batch) \in Nat /\ Len(wire) \in Nat
            OBVIOUS
        <3>6. /\ i \in 1 .. Len(batch \o wire) /\ (batch \o wire)[i] \in {"end", "tail"}
              /\ Len(batch' \o wire) = Len(batch \o wire) - i
            BY <2>1, <2>2, <2>5, <3>3, <3>4, <3>5
        <3>7. ASSUME NEW j \in 1 .. Len(batch' \o wire)
              PROVE  (batch' \o wire)[j] = (batch \o wire)[i + j]
            <4>1. i + j \in 1 .. Len(batch) + Len(wire) /\ j \in 1 .. Len(batch') + Len(wire)
                BY <2>5, <3>4, <3>5
            <4>2. CASE j <= Len(batch')
                <5>1. i + j <= Len(batch) /\ j \in 1 .. Len(batch) - i
                    BY <2>5, <3>5, <4>1, <4>2
                <5> QED
                    BY <2>5, <3>3, <3>4, <4>1, <4>2, <5>1
            <4>3. CASE ~(j <= Len(batch'))
                <5>1. ~(i + j <= Len(batch)) /\ i + j - Len(batch) = j - Len(batch')
                    BY <2>5, <3>5, <4>1, <4>3
                <5> QED
                    BY <3>3, <3>4, <4>1, <4>3, <5>1
            <4> QED
                BY <4>2, <4>3
        <3> QED
            BY <3>1, <3>2, <3>3, <3>4, <3>6, <3>7, RemainingRows
    <2>7. RowsWhole'
        <3>1. CASE state = "ERROR"
            BY <2>4, <3>1 DEF RowsWhole
        <3>2. CASE state = "NORMAL"
            BY <2>3, <2>5, <2>6, <3>2, PutGood DEF StateInv, TypeOK
        <3> QED
            BY <2>4, <3>1, <3>2 DEF StateInv, TypeOK, ListenerInv
    <2> QED
        BY <2>4, <2>6, <2>7 DEF Kept
<1>3. CASE PutLast
    <2>1. listener = "put" /\ listener' = "read" /\ data = <<>> /\ data' = batch
        BY <1>3 DEF PutLast, StateInv, ListenerInv
    <2>2. UNCHANGED <<state, step, wire>> /\ step = "idle"
        BY <1>3, <2>1 DEF PutLast, worker, stream, StateInv, TypeOK
    <2>3. RowsWhole'
        <3>1. CASE UNCHANGED queue \/ state = "ERROR"
            BY <2>2, <3>1 DEF RowsWhole
        <3>2. CASE Put(<<>>) /\ state # "ERROR"
            BY <3>2, EmptySeq, PutGood DEF GoodRow, StateInv, TypeOK
        <3> QED
            BY <1>3, <3>1, <3>2 DEF PutLast
    <2> QED
        BY <2>1, <2>2, <2>3 DEF Kept
<1>4. CASE ReceiveNothing \/ TimesOut \/ LoseSocket \/ ListenerDies
    <2>1. /\ UNCHANGED <<state, step, data, batch, queue, wire>>
          /\ listener # "put" /\ listener' # "put"
        BY <1>4 DEF ReceiveNothing, TimesOut, LoseSocket, ListenerDies, Quiet, Listening,
            worker, rows, stream
    <2> QED
        BY <2>1 DEF Kept, RowsWhole
<1>5. CASE LoseState
    BY <1>5 DEF LoseState, RowsWhole, worker, rows, StateInv, TypeOK, LinkInv
<1> QED
    BY <1>1, <1>2, <1>3, <1>4, <1>5 DEF Listen

\* The worker begins anew with at most a remainder of the old connection.
LEMMA ConnectRows ==
    ASSUME StateInv, StateInv', DialogueInv, RowsInv, Connect PROVE RowsInv'
<1> USE DEF RowsInv
<1>1. UNCHANGED queue
    BY DEF Connect, Dial, Greet, GreetFails, Flush, Flushed, Reply, NoReply, Configure, rows
<1>2. CASE Dial
    BY <1>1, <1>2 DEF Dial, RowsWhole
<1>3. CASE Connect /\ ~Dial /\ ~Configure
    <2>1. UNCHANGED <<state, data>> /\ state = "UNKNOWN" /\ step # "idle"
        BY <1>3 DEF Connect, Greet, GreetFails, Flush, Flushed, Reply, NoReply,
            hearing, worker, Dialogue, StateInv, TypeOK
    <2> QED
        BY <1>1, <2>1 DEF RowsWhole
<1>4. CASE Configure
    <2>1. /\ step \in {"configure", "failed"} /\ step' = "idle" /\ state = "UNKNOWN"
          /\ listener \in {"read", "dead"} /\ socket
        BY <1>4 DEF Configure, StateInv, TypeOK
    <2>2. UNCHANGED <<listener, data, batch, link, wire>>
        BY <1>4 DEF Configure, hearing
    <2>3. ASSUME state' = "NORMAL" PROVE WholeRows(Kept \o wire)'
        <3>1. CanSend
            BY <1>4, <2>1, <2>3 DEF Configure
        <3>2. Replies(wire) /\ wire \in Seq(Pieces)
            <4>1. CASE step = "configure"
                BY <4>1 DEF DialogueInv, StateInv, TypeOK
            <4>2. CASE step = "failed"
                <5>1. wire = <<>>
                    BY <3>1, <4>2 DEF CanSend, DialogueInv, AtRest
                <5> QED
                    BY <5>1 DEF Replies
            <4> QED
                BY <2>1, <4>1, <4>2
        <3>3. Kept' = data /\ wire' = wire /\ data \in {<<>>, <<"old">>} /\ data \in Seq(Pieces)
            BY <2>1, <2>2 DEF Kept, StateInv, TypeOK
        <3>4. CASE data = <<>>
            <4>1. Kept' \o wire' = wire
                BY <3>2, <3>3, <3>4, ConcatEmptySeq
            <4> QED
                BY <3>2, <4>1 DEF Replies, WholeRows
        <3>5. CASE data = <<"old">>
            <4>1. Len(data) = 1 /\ data[1] = "old" /\ Len(wire) \in Nat
                BY <3>2, <3>5
            <4>2. /\ Len(data \o wire) = 1 + Len(wire)
                  /\ \A i \in 1 .. 1 + Len(wire) :
                        (data \o wire)[i] = IF i <= 1 THEN data[i] ELSE wire[i - 1]
                <5>1. data \in Seq(Pieces) /\ wire \in Seq(Pieces)
                    BY <3>2, <3>3
                <5>2. /\ Len(data \o wire) = Len(data) + Len(wire)
                      /\ \A i \in 1 .. Len(data) + Len(wire) : (data \o wire)[i] =
                            IF i <= Len(data) THEN data[i] ELSE wire[i - Len(data)]
                    BY <5>1, ConcatProperties
                <5> QED
                    BY <4>1, <5>2
            <4>3. ASSUME NEW i \in 1 .. Len(data \o wire), i # 1
                  PROVE  /\ (data \o wire)[i] \in {"begin", "end"}
                         /\ (data \o wire)[i] = "begin" =>
                               i < Len(data \o wire) /\ (data \o wire)[i + 1] = "end"
                <5>1. i - 1 \in 1 .. Len(wire) /\ (data \o wire)[i] = wire[i - 1]
                    BY <4>1, <4>2, <4>3
                <5>2. wire[i - 1] \in {"begin", "end"}
                    BY <3>2, <5>1 DEF Replies
                <5>3. wire[i - 1] = "begin" => i - 1 < Len(wire) /\ wire[i - 1 + 1] = "end"
                    BY <3>2, <5>1 DEF Replies
                <5>4. ASSUME wire[i - 1] = "begin"
                      PROVE  i < Len(data \o wire) /\ (data \o wire)[i + 1] = "end"
                    <6>1. i < 1 + Len(wire) /\ i - 1 + 1 = i /\ i + 1 \in 1 .. 1 + Len(wire)
                        BY <4>1, <5>1, <5>3, <5>4
                    <6>2. (data \o wire)[i + 1] = wire[i]
                        BY <4>2, <6>1
                    <6> QED
                        BY <4>2, <5>3, <5>4, <6>1, <6>2
                <5> QED
                    BY <5>1, <5>2, <5>4
            <4>4. (data \o wire)[1] = "old"
                BY <4>1, <4>2
            <4>5. WholeRows(data \o wire)
                BY <4>3, <4>4 DEF WholeRows
            <4> QED
                BY <3>3, <4>5
        <3> QED
            BY <3>3, <3>4, <3>5
    <2> QED
        BY <1>1, <2>1, <2>3 DEF RowsWhole
<1> QED
    BY <1>2, <1>3, <1>4

\* The SIB sends whole rows; the consumer takes the first from the queue.
LEMMA OthersRows ==
    ASSUME StateInv, RowsInv,
           \/ Consume \/ ReconfigureLog \/ ReconfigureSom \/ Restart
           \/ SibHandles \/ SibLogs \/ Cut
    PROVE  RowsInv'
<1> USE DEF RowsInv
<1>1. UNCHANGED <<state, step, listener, data, batch>>
    BY DEF Consume, ReconfigureLog, ReconfigureSom, Restart, SibHandles, SibLogs, Cut,
        worker, hearing
<1>2. Kept' = Kept /\ Kept \in Seq(Pieces) /\ wire \in Seq(Pieces)
    BY <1>1 DEF Kept, StateInv, TypeOK
<1>3. CASE Consume
    <2>1. UNCHANGED wire /\ queue # <<>> /\ queue' = Tail(queue)
        BY <1>3 DEF Consume, stream
    <2>2. queue \in Seq(Seq(Pieces))
        BY DEF StateInv, TypeOK
    <2>3. /\ queue' \in Seq(Seq(Pieces)) /\ Len(queue') = Len(queue) - 1
          /\ \A i \in 1 .. Len(queue') : queue'[i] = queue[i + 1]
        BY <2>1, <2>2, HeadTailProperties
    <2>4. DOMAIN queue = 1 .. Len(queue) /\ DOMAIN queue' = 1 .. Len(queue')
          /\ Len(queue) \in Nat
        BY <2>2, <2>3
    <2>5. RowsWhole'
        <3> SUFFICES ASSUME state # "ERROR", NEW i \in 1 .. Len(queue')
                     PROVE  GoodRow(queue'[i])
            BY <1>1, <2>4 DEF RowsWhole, GoodRow
        <3>1. i + 1 \in 1 .. Len(queue) /\ queue'[i] = queue[i + 1]
            BY <2>3, <2>4
        <3> QED
            BY <2>4, <3>1 DEF RowsWhole, GoodRow
    <2> QED
        BY <1>1, <1>2, <2>1, <2>5
<1>4. CASE ~Consume
    <2>1. UNCHANGED queue
        BY <1>4 DEF ReconfigureLog, ReconfigureSom, Restart, SibHandles, SibLogs, Cut, rows
    <2>2. CASE ReconfigureLog \/ ReconfigureSom \/ Restart \/ Cut
        <3>1. UNCHANGED wire
            BY <2>2 DEF ReconfigureLog, ReconfigureSom, Restart, Cut
        <3> QED
            BY <1>1, <1>2, <2>1, <3>1 DEF RowsWhole
    <2>3. ASSUME NEW t \in Seq(Pieces), wire' = wire \o t,
                 Len(t) = 2,
                 \/ t[1] = "begin" /\ t[2] = "end"
                 \/ t[1] = "head" /\ t[2] = "tail"
          PROVE  RowsInv'
        <3>1. Kept' \o wire' = (Kept \o wire) \o t /\ Kept \o wire \in Seq(Pieces)
            BY <1>2, <2>3, Regroup, ConcatProperties
        <3> QED
            BY <1>1, <2>1, <2>3, <3>1, FollowedRows DEF RowsWhole
    <2>4. /\ Answer \in Seq(Pieces) /\ Len(Answer) = 2
          /\ Answer[1] = "begin" /\ Answer[2] = "end"
        BY DEF Answer, Pieces
    <2>5. /\ Row \in Seq(Pieces) /\ Len(Row) = 2
          /\ Row[1] = "head" /\ Row[2] = "tail"
        BY DEF Row, Pieces
    <2>6. CASE SibHandles
        <3>1. wire' = wire \o Answer
            BY <2>6 DEF SibHandles
        <3> QED
            BY <2>3, <2>4, <3>1
    <2>7. CASE SibLogs
        <3>1. wire' = wire \o Row
            BY <2>7 DEF SibLogs
        <3> QED
            BY <2>3, <2>5, <3>1
    <2> QED
        BY <1>4, <2>2, <2>6, <2>7
<1> QED
    BY <1>3, <1>4

\* However the stream is cut, the queue holds whole rows.
THEOREM KeepsRows == Spec => []RowsWhole
<1>1. Init => RowsInv
    BY DEF Init, RowsInv, RowsWhole
<1>2. StateInv /\ StateInv' /\ DialogueInv /\ RowsInv /\ [Next]_vars => RowsInv'
    <2> SUFFICES ASSUME StateInv, StateInv', DialogueInv, RowsInv, [Next]_vars PROVE RowsInv'
        OBVIOUS
    <2>1. CASE Next
        BY <2>1, ConnectRows, ListenRows, OthersRows DEF Next
    <2>2. CASE UNCHANGED vars
        BY <2>2 DEF vars, worker, hearing, rows, stream, RowsInv, RowsWhole, Kept
    <2> QED
        BY <2>1, <2>2
<1>3. RowsInv => RowsWhole
    BY DEF RowsInv
<1> QED
    BY <1>1, <1>2, <1>3, StateHolds, DialogueHolds, PTL DEF Spec

================================================================================
