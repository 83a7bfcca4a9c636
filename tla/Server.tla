------------------------------- MODULE Server -------------------------------
(***************************************************************************)
(* The process: MainLoop, which accepts and stops, with the Connections it *)
(* starts threads for.  Threads and the main thread share the connections, *)
(* the process's limit of tasks, and its end.                              *)
(***************************************************************************)
EXTENDS MainLoop, Connection

CONSTANT MaxTasks   \* TasksMax of the unit

ASSUME ServerAssumption == MaxSignals \in Nat /\ MaxTasks \in Nat \ {0}

vars == <<mainVars, connVars>>

Tasks == 1 + Cardinality(Threads) + Cardinality(StopperTasks)

\* Types, and the process stays within its tasks.
TypeOK == MainTypeOK /\ ConnTypeOK /\ Tasks <= MaxTasks

Init == MainInit /\ ConnInit

\* The socket listens from make_server until server_close.
Listening == main \notin {"dbclose", "ended"}

Arrive(c, i) == Listening /\ Connect(c, i) /\ UNCHANGED mainVars

ClientMoves(c) == main # "ended" /\ (Send(c) \/ HangUp(c)) /\ UNCHANGED mainVars

Serve(c) == main # "ended" /\ ThreadStep(c) /\ UNCHANGED mainVars

\* Plausible bug, for a mutant: nothing limits the threads.
AcceptUnlimited(c) ==
    /\ Taken
    /\ stage[c] = "backlog"
    /\ Begin(c)
    /\ UNCHANGED <<proxied, client, left, record>>

\* process_request starts a thread, if there may be one more.
Accept(c) ==
    /\ Taken
    /\ stage[c] = "backlog"
    /\ IF Tasks < MaxTasks THEN Begin(c) ELSE DropConnection(c)
    /\ UNCHANGED <<proxied, client, left, record>>

Select == Selected(Backlog # {}) /\ UNCHANGED connVars

Signal(s) ==
    /\ IF Tasks < MaxTasks THEN SignalStarts(s) ELSE SignalRaises(s)
    /\ IF main' = "ended" THEN KillThreads ELSE UNCHANGED stage
    /\ UNCHANGED <<proxied, client, left, record>>

\* The connection in hand is dropped, or cut from the thread that has just
\* been started for it and was the last there could be.
SignalLost(s, c) ==
    /\ Tasks >= MaxTasks - 1
    /\ SignalSwallowed(s)
    /\ stage[c] = "backlog"
    /\ IF Tasks < MaxTasks THEN Begin(c) /\ gone' = [gone EXCEPT ![c] = TRUE]
       ELSE DropConnection(c) /\ UNCHANGED gone
    /\ UNCHANGED <<proxied, input, sent, left, record>>

Close == ServerClose /\ ResetBacklog /\ UNCHANGED <<proxied, client, left, record>>

End == DbClose /\ KillThreads /\ UNCHANGED <<proxied, client, left, record>>

Killed == KilledEarly /\ KillThreads /\ UNCHANGED <<proxied, client, left, record>>

\* What the main thread does next when no signal comes.
Main ==
    \/ (Register \/ EnterLoop \/ TestFlag \/ Unwind) /\ UNCHANGED connVars
    \/ Select
    \/ \E c \in Conns : Accept(c)
    \/ Close
    \/ End

Stopper(s) == StopperStep(s) /\ UNCHANGED connVars

Next ==
    \/ Main
    \/ Killed
    \/ \E s \in Signals : Signal(s) \/ Stopper(s) \/ \E c \in Conns : SignalLost(s, c)
    \/ \E c \in Conns : Serve(c) \/ ClientMoves(c) \/ \E i \in Inputs[c] : Arrive(c, i)

Spec == Init /\ [][Next]_vars

\* Threads are scheduled.  Nothing is assumed of clients and signals.
Fairness ==
    /\ WF_vars(Main)
    /\ \A s \in Signals : WF_vars(Stopper(s))
    /\ \A c \in Conns : WF_vars(Serve(c))

FairSpec == Spec /\ Fairness

-----------------------------------------------------------------------------
(* Safety.                                                                 *)

Refused(c) == Len(answers[c]) > 0 /\ answers[c][1] = "bad_proxy_header"

\* With proxy_protocol on, a request is charged to the address of a complete,
\* supported header from a trusted peer, and to no other unless the client has
\* been told that its header is refused (setup, read_ppv2_header).
ChargedToTheHeader ==
    \A c \in Conns : charged[c] =>
        IF clientIp[c] = "header"
        THEN /\ proxied /\ input[c].peer = "trusted"
             /\ input[c].header.signature
             /\ input[c].header.version = 2 /\ input[c].header.command = 1
             /\ input[c].size = HdrBytes + input[c].header.length
        ELSE proxied => Refused(c) \/ gone[c]

\* Nothing of a body is read before the request has passed the ceiling, the
\* routes and the limiter (_dispatch: "reading the body first would let anyone
\* make the daemon allocate").
NothingReadUnpaid ==
    \A c \in Conns : taken[c] > 0 \/ handled[c] =>
        /\ charged[c]
        /\ input[c].route \in {"upload", "other"}
        /\ input[c].method = "POST" => input[c].declared <= MaxBody

\* What an upload stores is what its envelope declares, whatever the client
\* sent or cut off: a short body, a Content-Length that cuts it, or lengths
\* that do not add up store nothing (_dispatch, parse_upload).
StoredAsDeclared ==
    \A c \in Conns : stored[c] # NoParts =>
        /\ handled[c]
        /\ taken[c] = input[c].declared
        /\ AsDeclared(Body(c), stored[c])

\* The request lines that end a thread without an answer: spaces that
\* parse_request does not take for blank, and a target that urlsplit raises on.
Ignored(i) == i.line \in {"spaces", "unsplit"}

\* A connection gets one answer; a second only after a refused header.  When
\* its thread ends without one, the client hung up, its line is one of the two
\* that the handler drops, or the limiter raised (_dispatch: the try is around
\* the route's handler only).
OneAnswer ==
    \A c \in Conns :
        /\ Len(answers[c]) <= (IF Refused(c) THEN 2 ELSE 1)
        /\ stage[c] = "closed" => answers[c] # <<>> \/ gone[c] \/ raised[c] \/ Ignored(input[c])

-----------------------------------------------------------------------------
(* Liveness.                                                               *)

Stopping == exit = "failed" \/ StopperTasks # {}

\* A signal ends the process, wherever the main thread is and however many
\* connections are stalled (main.py:37-53: a shutdown called in the handler
\* would wait for itself), also when no thread could be started for it, unless
\* that happened while the main thread had a connection in hand.
StopComes == Stopping ~> main = "ended"

Whole(c) ==
    /\ input[c] # NoInput
    /\ sent[c] = Pieces(input[c]) /\ ~ gone[c]
    /\ input[c].body >= input[c].declared

\* A client that sent its whole request is answered, or its thread ends if the
\* line is one that gets no answer, though others stall and hold their threads,
\* unless there was no thread for it, the limiter raised or the process stops.
AnswerComes ==
    \A c \in Conns :
        stage[c] = "backlog" /\ Whole(c)
            ~> \/ answers[c] # <<>> \/ (stage[c] = "closed" /\ Ignored(input[c]))
               \/ stage[c] = "dropped" \/ raised[c] \/ gone[c]
               \/ main \notin Looping

-----------------------------------------------------------------------------
(* What the source says and the code does not do.                          *)

\* http_server.py:231-233: outside the trusted network "the connection is
\* closed rather than served with the socket's own address"; proxyproto.py:53:
\* on any problem "the caller MUST drop the connection".
RefusedIsNotServed == \A c \in Conns : Refused(c) => ~ handled[c]
=============================================================================
