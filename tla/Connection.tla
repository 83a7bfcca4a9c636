----------------------------- MODULE Connection -----------------------------
(***************************************************************************)
(* A connection, from its client's connect to the end of its thread:       *)
(* TesseraHandler over the standard library's handler and stream.          *)
(*                                                                         *)
(* A client sends one input, in up to three pieces (PROXY header, request  *)
(* line with its headers, body), and may stop or hang up after any.  There *)
(* is no timeout on the socket, so a read waits for the bytes or the end   *)
(* of the stream.  A connection serves one request: every answer closes.   *)
(*                                                                         *)
(* The rate limiter is what RateLimiter shows of it: it allows, refuses,   *)
(* or, while another call runs, raises.  What handlers do to the database  *)
(* is Gallery's and UploadStore's.                                         *)
(***************************************************************************)
EXTENDS Integers, Sequences, ProxyHeader, Envelope

CONSTANTS Conns,
          Inputs,       \* what each client may send, see InputOK
          NoInput,
          MaxBody,      \* cfg.max_request_bytes
          HeadBytes     \* bytes of a request line with its headers

\* size: bytes before the request line; header: what the first sixteen bytes
\* of the stream say; line: the kind of request line; declares, declared: the
\* Content-Length; body: bytes sent after the headers.  A header does not claim
\* bytes of the body.  A line is blank to bytes.strip, or has spaces that only
\* str.split takes for such; a garbled one the standard library refuses; the
\* target of an unsplit one, such as http://[, urlsplit raises on.
InputOK(i) ==
    /\ i.peer \in {"trusted", "other"}
    /\ i.size \in Nat /\ i.header \in Headers
    /\ Supported(i.header) => Wanted(i.header) <= i.size + HeadBytes
    /\ i.line \in {"request", "blank", "spaces", "garbled", "long", "unsplit"}
    /\ i.method \in {"GET", "POST"}
    /\ i.route \in {"upload", "other", "method", "none"}
    /\ i.route = "upload" => i.method = "POST"
    /\ i.declares \in {"none", "junk", "number"} /\ i.declared \in Int
    /\ i.body \in Nat
    /\ i.envelope \in [magic : BOOLEAN, meta : Nat, model : Nat, thumb : Nat,
                       json : {"fine", "malformed", "unhashable"}]

ASSUME ConnectionAssumption ==
    /\ DOMAIN Inputs = Conns
    /\ \A c \in Conns : NoInput \notin Inputs[c] /\ \A i \in Inputs[c] : InputOK(i)
    /\ HeadBytes \in Nat /\ HeadBytes >= HdrBytes
    /\ MaxBody \in Nat

VARIABLES proxied,   \* cfg.proxy_protocol
          stage,     \* each connection's stage, of its thread once it has one
          input, sent, gone,   \* what the client sends, how far, hung up
          left,      \* bytes of `size` that setup has not taken
          clientIp,  \* _client_ip: the socket's peer, or the header's source
          answers,   \* the responses written, in order
          taken,     \* bytes of body read
          charged,   \* allow has returned True
          handled,   \* the route's handler has run
          stored,    \* the ranges an upload has been given to store
          raised     \* allow has raised

connVars == <<proxied, stage, input, sent, gone, left, clientIp, answers, taken,
              charged, handled, stored, raised>>
client == <<input, sent, gone>>
record == <<clientIp, answers, taken, charged, handled, stored, raised>>

Serving == {"setup", "line", "dispatch", "limit", "body", "handler"}
Over == {"closed", "dropped", "reset", "killed"}

ConnTypeOK ==
    /\ proxied \in BOOLEAN
    /\ stage \in [Conns -> Serving \cup Over \cup {"none", "backlog"}]
    /\ \A c \in Conns : input[c] \in Inputs[c] \cup {NoInput}
    /\ sent \in [Conns -> 0..3] /\ gone \in [Conns -> BOOLEAN]
    /\ left \in [Conns -> Int]
    /\ clientIp \in [Conns -> {"peer", "header"}]
    /\ \A c \in Conns : Len(answers[c]) <= 2
    /\ taken \in [Conns -> 0..MaxBody]
    /\ charged \in [Conns -> BOOLEAN] /\ handled \in [Conns -> BOOLEAN]
    /\ raised \in [Conns -> BOOLEAN]

ConnInit ==
    /\ proxied \in BOOLEAN
    /\ stage = [c \in Conns |-> "none"]
    /\ input = [c \in Conns |-> NoInput]
    /\ sent = [c \in Conns |-> 0]
    /\ gone = [c \in Conns |-> FALSE]
    /\ left = [c \in Conns |-> 0]
    /\ clientIp = [c \in Conns |-> "peer"]
    /\ answers = [c \in Conns |-> <<>>]
    /\ taken = [c \in Conns |-> 0]
    /\ charged = [c \in Conns |-> FALSE]
    /\ handled = [c \in Conns |-> FALSE]
    /\ stored = [c \in Conns |-> NoParts]
    /\ raised = [c \in Conns |-> FALSE]

Threads == {c \in Conns : stage[c] \in Serving}
Backlog == {c \in Conns : stage[c] = "backlog"}

Move(c, to) == stage' = [stage EXCEPT ![c] = to]

\* Nobody reads the answer of a client that hung up.
Write(c, code) ==
    answers' = IF gone[c] THEN answers ELSE [answers EXCEPT ![c] = Append(@, code)]

\* An answer with Connection: close; the thread ends.
Answer(c, code) == Move(c, "closed") /\ Write(c, code)

\* The bytes that came and are not body.
Available(c) == (IF sent[c] >= 1 THEN input[c].size ELSE 0)
                  + (IF sent[c] >= 2 THEN HeadBytes ELSE 0)

-----------------------------------------------------------------------------
(* The client.                                                             *)

\* A request without a body ends with its headers, one without bytes before it
\* begins with them.
Pieces(i) == IF i.body = 0 THEN 2 ELSE 3

Connect(c, i) ==
    /\ stage[c] = "none"
    /\ Move(c, "backlog")
    /\ input' = [input EXCEPT ![c] = i]
    /\ left' = [left EXCEPT ![c] = i.size]
    /\ sent' = [sent EXCEPT ![c] = IF i.size = 0 THEN 1 ELSE 0]
    /\ UNCHANGED <<proxied, gone, record>>

Send(c) ==
    /\ stage[c] \in Serving \cup {"backlog"}
    /\ ~ gone[c]
    /\ sent[c] < Pieces(input[c])
    /\ sent' = [sent EXCEPT ![c] = @ + 1]
    /\ UNCHANGED <<proxied, stage, input, gone, left, record>>

HangUp(c) ==
    /\ stage[c] \in Serving \cup {"backlog"}
    /\ ~ gone[c]
    /\ gone' = [gone EXCEPT ![c] = TRUE]
    /\ UNCHANGED <<proxied, stage, input, sent, left, record>>

-----------------------------------------------------------------------------
(* The connection's thread.                                                *)

\* _refuse, in setup: the 400 is written, and handle_one_request goes on to
\* read a request line from what setup has left.
RefuseInSetup(c, bytes) ==
    /\ Move(c, "line")
    /\ Write(c, "bad_proxy_header")
    /\ left' = [left EXCEPT ![c] = @ - bytes]
    /\ UNCHANGED clientIp

ReadProxyHeader(c) ==
    LET h == input[c].header
        r == ReadHeader(h, Available(c))
    IN  /\ gone[c] \/ Available(c) >= Wanted(h)
        /\ IF r.ok
           THEN /\ Move(c, "line")
                /\ clientIp' = [clientIp EXCEPT ![c] = "header"]
                /\ left' = [left EXCEPT ![c] = @ - r.taken]
                /\ UNCHANGED answers
           ELSE RefuseInSetup(c, r.taken)

Setup(c) ==
    /\ stage[c] = "setup"
    /\ IF ~ proxied THEN Move(c, "line") /\ UNCHANGED <<left, clientIp, answers>>
       ELSE IF input[c].peer = "other" THEN RefuseInSetup(c, 0)
       ELSE ReadProxyHeader(c)
    /\ UNCHANGED <<proxied, client, taken, charged, handled, stored, raised>>

\* The thread ends without a word.
EndSilently(c) == Move(c, "closed") /\ UNCHANGED answers

\* handle_one_request and parse_request.  A line that begins in the middle of
\* something (left over, or eaten by setup) does not parse; after a refusal it
\* may be one of spaces, which the standard library passes over in silence.
ParseRequest(c) ==
    /\ stage[c] = "line"
    /\ sent[c] >= 2 \/ gone[c]
    /\ IF sent[c] < 2 THEN EndSilently(c)
       ELSE IF left[c] # 0
       THEN Answer(c, "bad_request") \/ (answers[c] # <<>> /\ EndSilently(c))
       ELSE IF input[c].line = "spaces" THEN EndSilently(c)
       ELSE IF input[c].line \in {"blank", "garbled"} THEN Answer(c, "bad_request")
       ELSE Move(c, "dispatch") /\ UNCHANGED answers
    /\ UNCHANGED <<proxied, client, left, clientIp, taken, charged, handled, stored, raised>>

TooLarge(i) == i.declared < 0 \/ i.declared > MaxBody

\* _dispatch up to the limiter.  The ValueError of urlsplit is outside its try.
Dispatch(c) ==
    LET i == input[c]
    IN  /\ stage[c] = "dispatch"
        /\ IF i.line = "long" THEN Answer(c, "uri_too_long")
           ELSE IF i.line = "unsplit" THEN EndSilently(c)
           ELSE IF i.method = "POST" /\ i.declares = "none" THEN Answer(c, "length_required")
           ELSE IF i.method = "POST" /\ i.declares = "junk" THEN Answer(c, "bad_content_length")
           ELSE IF i.method = "POST" /\ TooLarge(i) THEN Answer(c, "too_large")
           ELSE IF i.route = "none" THEN Answer(c, "not_found")
           ELSE IF i.route = "method" THEN Answer(c, "method_not_allowed")
           ELSE Move(c, "limit") /\ UNCHANGED answers
        /\ UNCHANGED <<proxied, client, left, clientIp, taken, charged, handled, stored,
                       raised>>

Allowed(c) ==
    /\ stage[c] = "limit"
    /\ Move(c, "body")
    /\ charged' = [charged EXCEPT ![c] = TRUE]
    /\ UNCHANGED <<proxied, client, left, clientIp, answers, taken, handled, stored, raised>>

\* Plausible bug, for a mutant: the 429 does not return.
LimitedGoesOn(c) ==
    /\ stage[c] = "limit"
    /\ Move(c, "body")
    /\ Write(c, "rate_limited")
    /\ UNCHANGED <<proxied, client, left, clientIp, taken, charged, handled, stored, raised>>

Limited(c) ==
    /\ stage[c] = "limit"
    /\ Answer(c, "rate_limited")
    /\ UNCHANGED <<proxied, client, left, clientIp, taken, charged, handled, stored, raised>>

\* A KeyError of allow is outside _dispatch's try: the thread ends.
LimiterRaises(c) ==
    /\ stage[c] = "limit"
    /\ \E d \in Conns \ {c} : stage[d] = "limit"
    /\ EndSilently(c)
    /\ raised' = [raised EXCEPT ![c] = TRUE]
    /\ UNCHANGED <<proxied, client, left, clientIp, taken, charged, handled, stored>>

\* Plausible bug, for a mutant: rfile.read() without the length waits for the
\* end of the stream.
ReadBodyToTheEnd(c) ==
    /\ stage[c] = "body"
    /\ gone[c]
    /\ taken' = [taken EXCEPT ![c] = IF sent[c] = 3 THEN Smaller(MaxBody, input[c].body) ELSE 0]
    /\ Move(c, "handler")
    /\ UNCHANGED <<proxied, client, left, clientIp, answers, charged, handled, stored, raised>>

\* rfile.read(length) returns all of it, or what came before the end.
ReadBody(c) ==
    LET wanted == IF input[c].method = "POST" THEN input[c].declared ELSE 0
        got == IF sent[c] = 3 THEN Smaller(wanted, input[c].body) ELSE 0
    IN  /\ stage[c] = "body"
        /\ got = wanted \/ gone[c]
        /\ taken' = [taken EXCEPT ![c] = got]
        /\ IF got < wanted THEN Answer(c, "short_body")
           ELSE Move(c, "handler") /\ UNCHANGED answers
        /\ UNCHANGED <<proxied, client, left, clientIp, charged, handled, stored, raised>>

Body(c) == [size |-> taken[c], magic |-> input[c].envelope.magic,
            meta |-> input[c].envelope.meta, model |-> input[c].envelope.model,
            thumb |-> input[c].envelope.thumb, json |-> input[c].envelope.json]

\* Plausible bug, for a mutant: only EnvelopeError is caught.
HandleUploadUncaught(c) ==
    CASE Verdict(Body(c)) = "envelope" ->
            /\ stored' = [stored EXCEPT ![c] = Parts(Body(c))]
            /\ Answer(c, "handled")
      [] Verdict(Body(c)) = "bad_envelope" -> Answer(c, "bad_envelope") /\ UNCHANGED stored
      [] Verdict(Body(c)) = "raises" -> Move(c, "closed") /\ UNCHANGED <<answers, stored>>

\* handle_upload as far as the envelope goes.
HandleUpload(c) ==
    CASE Verdict(Body(c)) = "envelope" ->
            /\ stored' = [stored EXCEPT ![c] = Parts(Body(c))]
            /\ Answer(c, "handled")
      [] Verdict(Body(c)) = "bad_envelope" -> Answer(c, "bad_envelope") /\ UNCHANGED stored
      [] Verdict(Body(c)) = "raises" -> Answer(c, "internal_error") /\ UNCHANGED stored

\* The handler, and its answer or the 500 of one that raised.
Handle(c) ==
    /\ stage[c] = "handler"
    /\ handled' = [handled EXCEPT ![c] = TRUE]
    /\ \/ input[c].route = "upload" /\ HandleUpload(c)
       \/ /\ input[c].route # "upload"
          /\ \E code \in {"handled", "internal_error"} : Answer(c, code)
          /\ UNCHANGED stored
    /\ UNCHANGED <<proxied, client, left, clientIp, taken, charged, raised>>

ThreadStep(c) ==
    \/ Setup(c) \/ ParseRequest(c) \/ Dispatch(c)
    \/ Allowed(c) \/ Limited(c) \/ LimiterRaises(c)
    \/ ReadBody(c) \/ Handle(c)

-----------------------------------------------------------------------------
(* What the main thread does to a connection.                              *)

Begin(c) == Move(c, "setup")

\* No thread for it: handle_error, and the socket is closed.
DropConnection(c) == Move(c, "dropped")

\* The listening socket closes, and what it had queued with it.
ResetBacklog ==
    stage' = [c \in Conns |-> IF stage[c] = "backlog" THEN "reset" ELSE stage[c]]

\* Daemon threads end with the process.
KillThreads ==
    stage' = [c \in Conns |-> IF stage[c] \in Serving \cup {"backlog"} THEN "killed"
                              ELSE stage[c]]
=============================================================================
