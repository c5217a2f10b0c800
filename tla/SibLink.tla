-------------------------------- MODULE SibLink --------------------------------
(***************************************************************************)
(* DsscSIB and its connection to the SIB, which takes commands and sends   *)
(* lines over one TCP stream.                                              *)
(*                                                                         *)
(* Four threads: the connect worker dials and authenticates, the listener  *)
(* cuts the stream into rows, the consumer takes the rows from a queue,    *)
(* and the strand reconfigures and restarts.  The stream is a sequence of  *)
(* pieces: "begin" and "end" are the two halves of the reply to a command, *)
(* "head" and "tail" those of a row of log data; recv may come between     *)
(* them.                                                                   *)
(***************************************************************************)
EXTENDS Naturals, Sequences

CONSTANTS
    QueueSize,   \* maxsize of data_queue
    Timeouts,    \* timeouts of the listener until the SIB is lost: 10
    Levels,      \* values of logLevel
    Modes,       \* values of som
    MaxWire      \* bound on the pieces under way

VARIABLES
    state,       \* the device state
    socket,      \* whether self.socket is one
    step,        \* the connect worker: in connect_to_sib and authenticate
    parted,      \* ghost: authenticate has taken only part of a reply
    listener,    \* the listener: "read", "put", "losing" or "dead"
    counter,     \* its counter
    data,        \* and the pieces it keeps of an unfinished row
    batch,       \* the rows it is putting
    queue,       \* data_queue
    consumer,    \* the consumer: "get" or "dead"
    logLevel,
    som,
    link,        \* the connection: "up", "silent", "closed" or "reset"
    wire,        \* pieces the SIB has sent
    todo,        \* commands it has not handled
    sibLog,      \* its log level
    sibSom       \* and its operation mode

worker  == <<socket, step, parted>>
hearing == <<listener, counter, data, batch>>
rows    == <<queue, consumer>>
params  == <<logLevel, som>>
sib     == <<sibLog, sibSom>>
stream  == <<link, wire, todo>>
vars    == <<state, worker, hearing, rows, params, stream, sib>>

ASSUME SibAssumption ==
    /\ QueueSize \in Nat \ {0} /\ Timeouts \in Nat /\ MaxWire \in Nat \ {0}
    /\ Levels \subseteq Nat /\ 0 \in Levels
    /\ Modes \subseteq Nat /\ 0 \in Modes

-----------------------------------------------------------------------------
(* The SIB and the network *)

Command == ({"LOG"} \X Levels) \cup ({"SOM"} \X Modes) \cup ({"AUTH", "ask"} \X {0})

\* A command goes to the SIB, or is lost with the connection.
Send(commands) ==
    todo' = IF link = "up" THEN todo \o commands ELSE todo

CanSend == socket /\ link # "reset"

\* A reply to a command, and a row of log data, of which there are none at level 0.
Answer == <<"begin", "end">>
Row    == <<"head", "tail">>

SibHandles ==
    /\ link = "up" /\ todo # <<>> /\ Len(wire) + 1 < MaxWire
    /\ LET c == Head(todo) IN
         /\ sibLog' = IF c[1] = "LOG" THEN c[2] ELSE sibLog
         /\ sibSom' = IF c[1] = "SOM" THEN c[2] ELSE sibSom
    /\ todo' = Tail(todo)
    /\ wire' = wire \o Answer
    /\ UNCHANGED <<state, worker, hearing, rows, params, link>>

SibLogs ==
    /\ link = "up" /\ sibLog > 0 /\ Len(wire) + 1 < MaxWire
    /\ wire' = wire \o Row
    /\ UNCHANGED <<state, worker, hearing, rows, params, link, todo, sib>>

\* The connection goes dead, or is closed or reset by the SIB.
Cut ==
    /\ link = "up"
    /\ link' \in {"silent", "closed", "reset"}
    /\ todo' = <<>>
    /\ UNCHANGED <<state, worker, hearing, rows, params, wire, sib>>

\* recv returns what has come, at most a buffer of it.
Chunk   == 1..Len(wire)
Got(n)  == SubSeq(wire, 1, n)
Rest(n) == SubSeq(wire, n + 1, Len(wire))

\* A SIB that is there answers within the five seconds of a timeout.
NothingComes == wire = <<>> /\ link \in {"up", "silent"} /\ (link = "up" => todo = <<>>)

-----------------------------------------------------------------------------
(* connect_to_sib and authenticate *)

\* A new connection, on which the SIB greets; the listener keeps what it has of
\* the old one.
Dial ==
    /\ step = "idle" /\ state = "UNKNOWN"
    /\ step' = "greet" /\ socket' = TRUE /\ parted' = FALSE
    /\ link' = "up" /\ wire' = <<>> /\ todo' = <<<<"ask", 0>>>>
    /\ data' = IF data = <<>> THEN <<>> ELSE <<"old">>
    /\ UNCHANGED <<state, listener, counter, batch, rows, params, sib>>

\* The greeting, and the first command of authenticate.
Greet ==
    /\ step = "greet"
    /\ \/ \E n \in Chunk : wire' = Rest(n)
       \/ wire = <<>> /\ link = "closed" /\ wire' = <<>>
    /\ step' = IF CanSend THEN "flush" ELSE "failed"
    /\ Send(<<<<"LOG", 0>>>>)
    /\ UNCHANGED <<state, socket, parted, hearing, rows, params, link, sib>>

\* recv raises in connect_to_sib: the next call dials again.
GreetFails ==
    /\ step = "greet" /\ wire = <<>> /\ (link = "reset" \/ NothingComes)
    /\ step' = "idle"
    /\ UNCHANGED <<state, socket, parted, hearing, rows, params, stream, sib>>

Flush ==
    /\ step = "flush"
    /\ \E n \in Chunk : wire' = Rest(n)
    /\ UNCHANGED <<state, worker, hearing, rows, params, link, todo, sib>>

\* Variant: one recv is enough.
FlushedOnce ==
    /\ step = "flush"
    /\ step' = IF CanSend THEN "prompt" ELSE "failed"
    /\ Send(<<<<"AUTH", 0>>>>)
    /\ UNCHANGED <<state, socket, parted, hearing, rows, params, link, wire, sib>>

\* The flush ends when recv raises; from a closed connection it never does.
Flushed ==
    /\ step = "flush" /\ wire = <<>> /\ (link = "reset" \/ NothingComes)
    /\ step' = IF CanSend THEN "prompt" ELSE "failed"
    /\ Send(<<<<"AUTH", 0>>>>)
    /\ UNCHANGED <<state, socket, parted, hearing, rows, params, link, wire, sib>>

Dialogue == {"prompt", "password", "version"}
AfterReply == [prompt |-> "password", password |-> "version", version |-> "configure"]

\* What recv returns is taken for the reply to AUTH, the password or VER; what is
\* left of it will be taken for the next, or for a row by the listener.
Reply ==
    /\ step \in Dialogue
    /\ \/ \E n \in Chunk : wire' = Rest(n)
       \/ wire = <<>> /\ link = "closed" /\ wire' = <<>>
    /\ parted' = (parted \/ wire' # <<>>)
    /\ step' = AfterReply[step]
    /\ Send(IF step = "version" THEN <<>> ELSE <<<<"ask", 0>>>>)
    /\ UNCHANGED <<state, socket, hearing, rows, params, link, sib>>

NoReply ==
    /\ step \in Dialogue /\ wire = <<>> /\ (link = "reset" \/ NothingComes)
    /\ step' = "failed"
    /\ UNCHANGED <<state, socket, parted, hearing, rows, params, stream, sib>>

\* Variant: som is looked for under another key, as logLevel is.
NothingConfigured ==
    /\ step \in {"configure", "failed"}
    /\ step' = "idle"
    /\ state' = IF CanSend THEN "NORMAL" ELSE IF step = "failed" THEN "ERROR" ELSE state
    /\ UNCHANGED <<socket, parted, hearing, rows, params, stream, sib>>

\* configure_sib looks for 'logLevel' where the Hash has 'log': only som is sent.
\* After a failed authentication the state has been ERROR until here.
Configure ==
    /\ step \in {"configure", "failed"}
    /\ step' = "idle"
    /\ state' = IF CanSend THEN "NORMAL" ELSE IF step = "failed" THEN "ERROR" ELSE state
    /\ IF CanSend THEN Send(<<<<"SOM", som>>>>) ELSE UNCHANGED todo
    /\ UNCHANGED <<socket, parted, hearing, rows, params, link, wire, sib>>

-----------------------------------------------------------------------------
(* listener and consumer *)

Listening == listener = "read" /\ socket /\ state # "UNKNOWN"

\* The text to be split: what was kept, and what has come.
Receive ==
    /\ Listening
    /\ \E n \in Chunk : batch' = data \o Got(n) /\ wire' = Rest(n)
    /\ data' = <<>>
    /\ listener' = "put"
    /\ UNCHANGED <<state, worker, counter, rows, params, link, todo, sib>>

\* A closed connection returns no bytes, again and again, which is data too.
ReceiveNothing ==
    /\ Listening /\ wire = <<>> /\ link = "closed"
    /\ counter' = Timeouts
    /\ UNCHANGED <<state, worker, listener, data, batch, rows, params, stream, sib>>

Ends == {i \in 1..Len(batch) : batch[i] \in {"end", "tail"}}

\* When the queue is full the row is discarded.
Put(row) == queue' = IF Len(queue) < QueueSize THEN Append(queue, row) ELSE queue

PutRow ==
    /\ listener = "put" /\ Ends # {}
    /\ LET i == CHOOSE i \in Ends : \A j \in Ends : i <= j IN
         /\ Put(SubSeq(batch, 1, i))
         /\ batch' = SubSeq(batch, i + 1, Len(batch))
    /\ UNCHANGED <<state, worker, listener, counter, data, consumer, params, stream, sib>>

\* Variant: the last chunk is put as well.
PutKept ==
    /\ listener = "put" /\ Ends = {}
    /\ Put(batch) /\ data' = batch
    /\ batch' = <<>> /\ counter' = Timeouts /\ listener' = "read"
    /\ UNCHANGED <<state, worker, consumer, params, stream, sib>>

\* The last chunk is kept when it is incomplete; otherwise it is the empty
\* string after the last terminator, and is put.
PutLast ==
    /\ listener = "put" /\ Ends = {}
    /\ IF batch = <<>> THEN Put(<<>>) /\ UNCHANGED data
       ELSE UNCHANGED queue /\ data' = batch
    /\ batch' = <<>> /\ counter' = Timeouts /\ listener' = "read"
    /\ UNCHANGED <<state, worker, consumer, params, stream, sib>>

Quiet == Listening /\ wire = <<>> /\ link \in {"up", "silent"}

\* Variant: after a timeout the loop goes on to the reset of the counter.
TimesOutGoesOn ==
    /\ Quiet /\ counter > 0
    /\ counter' = Timeouts
    /\ UNCHANGED <<state, worker, listener, data, batch, rows, params, stream, sib>>

\* Without log data nothing is expected.
TimesOut ==
    /\ Quiet /\ counter > 0
    /\ counter' = IF logLevel > 0 THEN counter - 1 ELSE counter
    /\ UNCHANGED <<state, worker, listener, data, batch, rows, params, stream, sib>>

\* The counter stays at 0: the next connection is lost at its first timeout.
LoseSocket ==
    /\ Quiet /\ counter = 0
    /\ socket' = FALSE /\ listener' = "losing"
    /\ UNCHANGED <<state, step, parted, counter, data, batch, rows, params, stream, sib>>

\* Variant: the state is left as it is.
LoseQuietly ==
    /\ listener = "losing"
    /\ listener' = "read"
    /\ UNCHANGED <<state, worker, counter, data, batch, rows, params, stream, sib>>

LoseState ==
    /\ listener = "losing"
    /\ state' = "UNKNOWN" /\ listener' = "read"
    /\ UNCHANGED <<worker, counter, data, batch, rows, params, stream, sib>>

\* Only timeouts are caught.
ListenerDies ==
    /\ Listening /\ wire = <<>> /\ link = "reset"
    /\ listener' = "dead"
    /\ UNCHANGED <<state, worker, counter, data, batch, rows, params, stream, sib>>

\* A row that no parser matches has no .named.
Broken(row) == row = <<"end">> \/ \E i \in DOMAIN row : row[i] = "old"

Consume ==
    /\ consumer = "get" /\ queue # <<>>
    /\ queue' = Tail(queue)
    /\ consumer' \in IF Broken(queue[1]) THEN {"get", "dead"} ELSE {"get"}
    /\ UNCHANGED <<state, worker, hearing, params, stream, sib>>

-----------------------------------------------------------------------------
(* The strand *)

ReconfigureLog ==
    /\ state = "NORMAL" /\ CanSend /\ Len(todo) < MaxWire
    /\ \E l \in Levels : logLevel' = l /\ Send(<<<<"LOG", l>>>>)
    /\ UNCHANGED <<state, worker, hearing, rows, som, link, wire, sib>>

ReconfigureSom ==
    /\ state = "NORMAL" /\ CanSend /\ Len(todo) < MaxWire
    /\ \E m \in Modes : som' = m /\ Send(<<<<"SOM", m>>>>)
    /\ UNCHANGED <<state, worker, hearing, rows, logLevel, link, wire, sib>>

\* The SIB starts again in safe mode and drops the connection in some way.
Restart ==
    /\ state \in {"NORMAL", "ERROR"} /\ CanSend /\ link = "up"
    /\ link' \in {"silent", "closed", "reset"} /\ todo' = <<>>
    /\ sibSom' = 0 /\ sibLog' \in Levels
    /\ UNCHANGED <<state, worker, hearing, rows, params, wire>>

-----------------------------------------------------------------------------

Init ==
    /\ state = "UNKNOWN" /\ socket = FALSE /\ step = "idle" /\ parted = FALSE
    /\ listener = "read" /\ counter = Timeouts /\ data = <<>> /\ batch = <<>>
    /\ queue = <<>> /\ consumer = "get"
    /\ logLevel \in Levels /\ som \in Modes
    /\ link = "silent" /\ wire = <<>> /\ todo = <<>>
    /\ sibLog \in Levels /\ sibSom \in Modes

Connect == \/ Dial \/ Greet \/ GreetFails \/ Flush \/ Flushed
           \/ Reply \/ NoReply \/ Configure

Listen == \/ Receive \/ ReceiveNothing \/ PutRow \/ PutLast
          \/ TimesOut \/ LoseSocket \/ LoseState \/ ListenerDies

Next == \/ Connect \/ Listen \/ Consume
        \/ ReconfigureLog \/ ReconfigureSom \/ Restart
        \/ SibHandles \/ SibLogs \/ Cut

Spec == Init /\ [][Next]_vars

\* The threads go on.
Fairness == WF_vars(Connect) /\ WF_vars(Listen) /\ WF_vars(Consume)

FairSpec == Spec /\ Fairness

-----------------------------------------------------------------------------
(* Properties *)

Pieces == {"begin", "end", "head", "tail", "old"}

\* The worker dials only without a connection in use, and the queue is bounded.
TypeOK ==
    /\ state \in {"UNKNOWN", "NORMAL", "ERROR"} /\ socket \in BOOLEAN /\ parted \in BOOLEAN
    /\ step \in {"idle", "greet", "flush", "configure", "failed"} \cup Dialogue
    /\ step # "idle" => state = "UNKNOWN" /\ socket /\ listener \in {"read", "dead"}
    /\ listener \in {"read", "put", "losing", "dead"} /\ counter \in 0..Timeouts
    /\ data \in Seq(Pieces) /\ batch \in Seq(Pieces) /\ (listener # "put" => batch = <<>>)
    /\ queue \in Seq(Seq(Pieces)) /\ Len(queue) <= QueueSize /\ consumer \in {"get", "dead"}
    /\ logLevel \in Levels /\ som \in Modes /\ sibLog \in Levels /\ sibSom \in Modes
    /\ link \in {"up", "silent", "closed", "reset"} /\ wire \in Seq(Pieces)
    /\ todo \in Seq(Command)

\* What authenticate takes for the prompt, the answer to the password and the
\* version is what the SIB has just answered, whatever it was sending before; once
\* recv has returned part of a reply the replies are taken out of step, and then
\* they are at least replies and no log data.
RepliesMatch ==
    [][ (step \in Dialogue /\ step' = AfterReply[step] /\ link = "up")
            => /\ \A i \in DOMAIN wire : wire[i] \in {"begin", "end"}
               /\ ~parted => wire = Answer /\ todo = <<>> ]_vars

\* However the stream is cut into chunks, every row in the queue is one row of
\* the SIB, one of its replies or the empty string; only the first after a
\* reconnection may begin with what was left of the connection before, or be the
\* rest of a reply that authenticate has taken part of.  In ERROR the stream has
\* been broken off where authenticate was.
RowsWhole ==
    state # "ERROR" => \A i \in DOMAIN queue :
        queue[i] \in {<<>>, Answer, Row, <<"end">>} \/ Head(queue[i]) = "old"

\* The device is never left without a socket in a state in which the worker does
\* not dial.
NeverStranded == state # "UNKNOWN" => socket \/ listener = "losing"

\* While the connection works, the SIB's operation mode is that of the device,
\* also after the SIB has been restarted or lost.
ModeFollows ==
    state = "NORMAL" /\ socket /\ link = "up" /\ todo = <<>> => sibSom = som

\* A connection that has gone dead is noticed when log data are expected.
LossNoticed ==
    (state # "UNKNOWN" /\ link = "silent" /\ listener # "dead")
        ~> (state = "UNKNOWN" \/ logLevel = 0)

=============================================================================
