---------------------------- MODULE ServerProofs ----------------------------
(***************************************************************************)
(* Who is charged, what is read, what is stored and how often a client is  *)
(* answered, for any number of connections, inputs, tasks and signals.     *)
(*                                                                         *)
(* The invariant says for each stage of a connection what its thread has   *)
(* recorded by then; connections do not touch each other, so every step    *)
(* is about one of them, but for those by which the process ends.          *)
(* TypeOK includes the limit of tasks: TasksInv counts them.               *)
(***************************************************************************)
EXTENDS Server, FiniteSums, SequenceTheorems, TLAPS

Early == {"none", "backlog", "setup"}
Middle == {"line", "dispatch", "limit", "body", "handler"}
Routed == {"limit", "body", "handler"}

\* The codes of the answers.
Codes == {"bad_proxy_header", "bad_request", "uri_too_long", "length_required",
          "bad_content_length", "too_large", "not_found", "method_not_allowed",
          "rate_limited", "short_body", "bad_envelope", "internal_error", "handled"}

Domains ==
    /\ DOMAIN stage = Conns /\ DOMAIN input = Conns /\ sent \in [Conns -> Nat]
    /\ DOMAIN left = Conns /\ DOMAIN clientIp = Conns /\ DOMAIN answers = Conns
    /\ DOMAIN taken = Conns /\ DOMAIN stored = Conns
    /\ gone \in [Conns -> BOOLEAN] /\ charged \in [Conns -> BOOLEAN]
    /\ handled \in [Conns -> BOOLEAN] /\ raised \in [Conns -> BOOLEAN]
    /\ proxied \in BOOLEAN

Started(c) == stage[c] # "none" => input[c] \in Inputs[c]

\* The address a request is charged to, and what is left of the header.
Address(c) ==
    /\ stage[c] \in Early => clientIp[c] = "peer" /\ left[c] \in Int
    /\ stage[c] = "setup" \/ stage[c] = "backlog" => left[c] = input[c].size
    /\ clientIp[c] = "header" =>
          /\ stage[c] \notin Early
          /\ proxied /\ input[c].peer = "trusted" /\ Supported(input[c].header)
          /\ left[c] = input[c].size - Wanted(input[c].header)
    /\ stage[c] \in Middle \ {"line"} \/ charged[c] => left[c] = 0
    /\ (stage[c] \in Middle \/ charged[c]) /\ clientIp[c] # "header" /\ proxied =>
          Refused(c) \/ gone[c]

WantedBody(c) == IF input[c].method = "POST" THEN input[c].declared ELSE 0

Passed(c) ==
    /\ input[c].route \in {"upload", "other"}
    /\ input[c].method = "POST" => 0 <= input[c].declared /\ input[c].declared <= MaxBody

\* What has been paid, read, run and stored.
Paid(c) ==
    /\ stage[c] \in Early \cup {"line", "dispatch", "limit"} => ~ charged[c]
    /\ stage[c] \in Routed \/ charged[c] => Passed(c)
    /\ stage[c] \in {"body", "handler"} => charged[c]
    /\ stage[c] \in Early \cup Middle => ~ handled[c] /\ stored[c] = NoParts
    /\ stage[c] \in Early \cup (Middle \ {"handler"}) => taken[c] = 0
    /\ stage[c] = "handler" => taken[c] = WantedBody(c)
    /\ taken[c] > 0 \/ handled[c] => charged[c]
    /\ stored[c] # NoParts =>
          /\ handled[c] /\ taken[c] = input[c].declared
          /\ AsDeclared(Body(c), stored[c])

Answered(c) ==
    /\ answers[c] \in Seq(Codes)
    /\ stage[c] \in Early => answers[c] = <<>>
    /\ stage[c] \in Middle => answers[c] = <<>> \/ (Len(answers[c]) = 1 /\ Refused(c))
    /\ Len(answers[c]) <= 1 \/ (Len(answers[c]) = 2 /\ Refused(c))
    /\ stage[c] = "closed" => answers[c] # <<>> \/ gone[c] \/ raised[c] \/ Ignored(input[c])

ConnInv(c) == Started(c) /\ Address(c) /\ Paid(c) /\ Answered(c)

ServerInv == Domains /\ \A c \in Conns : ConnInv(c)

\* A connection nothing happens to.
Still(c) ==
    /\ stage'[c] = stage[c] /\ input'[c] = input[c] /\ sent'[c] = sent[c]
    /\ gone'[c] = gone[c] /\ left'[c] = left[c] /\ clientIp'[c] = clientIp[c]
    /\ answers'[c] = answers[c] /\ taken'[c] = taken[c] /\ charged'[c] = charged[c]
    /\ handled'[c] = handled[c] /\ stored'[c] = stored[c] /\ raised'[c] = raised[c]
    /\ proxied' = proxied

\* What holds of a connection nothing happens to stays so.
LEMMA StillKeeps ==
    ASSUME NEW c \in Conns, ConnInv(c), Still(c)
    PROVE  ConnInv(c)'
BY DEF ConnInv, Still, Started, Address, Paid, Answered, Passed, WantedBody, Refused, Body

\* The envelope: where the lengths agree Python clips neither slice, for every
\* ceiling and every length.
LEMMA SlicesAsDeclared ==
    ASSUME NEW b, b.size \in Int, b.meta \in Nat, b.model \in Nat, b.thumb \in Nat,
           Verdict(b) = "envelope"
    PROVE  AsDeclared(b, Parts(b))
<1>1. LengthsAgree(b) /\ b.model # 0 /\ b.thumb # 0
      BY DEF Verdict
<1>2. b.size = 16 + b.meta + b.model + b.thumb
      BY <1>1 DEF LengthsAgree, Declared, EnvelopeBytes
<1>3. /\ Parts(b).model = [from |-> 16 + b.meta, to |-> 16 + b.meta + b.model]
      /\ Parts(b).thumb = [from |-> 16 + b.meta + b.model, to |-> b.size]
      BY <1>2 DEF Parts, Slice, Smaller, EnvelopeBytes
<1> QED BY <1>1, <1>2, <1>3 DEF AsDeclared, EnvelopeBytes

\* No connection yet.
LEMMA InitInv == Init => ServerInv
<1> SUFFICES ASSUME Init PROVE ServerInv
    OBVIOUS
<1> USE DEF Init, ConnInit
<1>1. Domains
      BY DEF Domains
<1>2. ASSUME NEW c \in Conns PROVE ConnInv(c)
  <2>1. Started(c) /\ Address(c)
        BY DEF Started, Address, Early, Middle
  <2>2. Paid(c)
        BY DEF Paid, Early, Middle, Routed
  <2>3. answers[c] = <<>> /\ stage[c] = "none"
        OBVIOUS
  <2>4. Answered(c)
        BY <2>3 DEF Answered, Early, Middle
  <2> QED BY <2>1, <2>2, <2>4 DEF ConnInv
<1> QED BY <1>1, <1>2 DEF ServerInv

\* A sequence of answers with one more.
LEMMA AppendOne ==
    ASSUME NEW s \in Seq(Codes), NEW e \in Codes
    PROVE  /\ Append(s, e) \in Seq(Codes) /\ Append(s, e) # <<>>
           /\ Len(Append(s, e)) = Len(s) + 1
           /\ Len(s) = 1 => Append(s, e)[1] = s[1]
<1>1. /\ Append(s, e) \in Seq(Codes) /\ Append(s, e) # <<>>
      /\ Len(Append(s, e)) = Len(s) + 1
      BY AppendProperties
<1>2. ASSUME Len(s) = 1 PROVE Append(s, e)[1] = s[1]
  <2>1. 1 \in 1..Len(s)
        BY <1>2
  <2> QED BY <2>1, AppendProperties
<1> QED BY <1>1, <1>2

\* Writing an answer, and ending with one.
LEMMA WriteKeeps ==
    ASSUME Domains, NEW c \in Conns, NEW code \in Codes, Write(c, code)
    PROVE  /\ DOMAIN answers' = Conns
           /\ \A d \in Conns \ {c} : answers'[d] = answers[d]
           /\ gone[c] => answers'[c] = answers[c]
           /\ ~ gone[c] => answers'[c] = Append(answers[c], code)
BY DEF Write, Domains

\* An answer ends a connection with one more, or none if the client is gone.
LEMMA AnswerKeeps ==
    ASSUME Domains, NEW c \in Conns, NEW code \in Codes, Answer(c, code),
           Answered(c), stage[c] \in Middle, gone' = gone, raised' = raised
    PROVE  Answered(c)' /\ stage'[c] = "closed"
<1>1. stage'[c] = "closed"
      BY DEF Answer, Move, Domains
<1>2. answers[c] = <<>> \/ (Len(answers[c]) = 1 /\ Refused(c))
      BY DEF Answered
<1>3. CASE gone[c]
  <2>1. answers'[c] = answers[c]
        BY <1>3, WriteKeeps DEF Answer
  <2> QED BY <1>1, <1>2, <1>3, <2>1 DEF Answered, Early, Middle, Refused
<1>4. CASE ~ gone[c]
  <2>1. answers'[c] = Append(answers[c], code) /\ answers[c] \in Seq(Codes)
        BY <1>4, WriteKeeps DEF Answer, Answered
  <2>2. answers'[c] \in Seq(Codes) /\ answers'[c] # <<>>
        BY <2>1, AppendOne
  <2>3. CASE answers[c] = <<>>
    <3>1. Len(answers'[c]) = 1
          BY <2>1, <2>3
    <3> QED BY <1>1, <2>2, <3>1 DEF Answered, Early, Middle
  <2>4. CASE Len(answers[c]) = 1 /\ Refused(c)
    <3> DEFINE s == answers[c]
    <3>a. Len(Append(s, code)) = Len(s) + 1 /\ (Len(s) = 1 => Append(s, code)[1] = s[1])
          BY <2>1, AppendOne
    <3>b. /\ Len(answers'[c]) = Len(s) + 1 /\ Len(s) = 1
          /\ answers'[c][1] = s[1]
          BY <2>1, <2>4, <3>a, Zenon
    <3> HIDE DEF s
    <3>1. Len(answers'[c]) = 2
          BY <3>b
    <3> QED BY <1>1, <2>2, <2>4, <3>1, <3>b DEF s, Answered, Early, Middle, Refused
  <2> QED BY <1>2, <2>3, <2>4
<1> QED BY <1>1, <1>3, <1>4

\* A client that was told of the refusal stays told.
LEMMA RefusedStays ==
    ASSUME Domains, NEW c \in Conns, NEW code \in Codes, Write(c, code), Answered(c),
           Refused(c)
    PROVE  Refused(c)'
<1>1. CASE gone[c]
  <2>1. answers'[c] = answers[c]
        BY <1>1, WriteKeeps
  <2> QED BY <2>1 DEF Refused
<1>2. CASE ~ gone[c]
  <2> DEFINE s == answers[c]
  <2>1. answers'[c] = Append(s, code) /\ s \in Seq(Codes)
        BY <1>2, WriteKeeps DEF Answered
  <2>2. Len(s) \in Nat /\ Len(s) > 0
        BY <2>1, LenProperties DEF Refused
  <2>3. 1 \in 1..Len(s)
        BY <2>2
  <2>4. Append(s, code)[1] = s[1] /\ Len(Append(s, code)) = Len(s) + 1
    <3> HIDE DEF s
    <3> QED BY <2>1, <2>3, AppendProperties
  <2>5. answers'[c][1] = s[1] /\ Len(answers'[c]) = Len(s) + 1
        BY <2>1, <2>4, Zenon
  <2> HIDE DEF s
  <2>6. Len(answers'[c]) > 0
        BY <2>2, <2>5
  <2> QED BY <2>5, <2>6 DEF s, Refused
<1> QED BY <1>1, <1>2

\* A step of one connection keeps the invariant if it keeps that connection's.
LEMMA OneMoves ==
    ASSUME ServerInv, NEW c \in Conns, Domains', ConnInv(c)',
           \A d \in Conns \ {c} : Still(d)
    PROVE  ServerInv'
BY StillKeeps DEF ServerInv

\* A client connects.
LEMMA ConnectKeeps ==
    ASSUME ServerInv, NEW c \in Conns, NEW i \in Inputs[c], Connect(c, i)
    PROVE  ServerInv'
<1> USE DEF Connect, Move, record, client
<1>0. Domains /\ ConnInv(c)
      BY DEF ServerInv
<1>1. Domains'
      BY <1>0 DEF Domains
<1>2. \A d \in Conns \ {c} : Still(d)
      BY <1>0 DEF Still, Domains
<1>3. stage'[c] = "backlog" /\ input'[c] = i /\ left'[c] = i.size /\ i.size \in Int
      BY <1>0, ConnectionAssumption DEF Domains, InputOK
<1>4. Started(c)' /\ Address(c)' /\ Paid(c)'
      BY <1>0, <1>3 DEF ConnInv, Started, Address, Paid, Early, Middle, Routed
<1>5. Answered(c)'
      BY <1>0, <1>3 DEF ConnInv, Answered, Early, Middle, Refused
<1> QED BY <1>1, <1>2, <1>4, <1>5, OneMoves DEF ConnInv

\* A client sends a piece, or hangs up.
LEMMA ClientKeeps ==
    ASSUME ServerInv, NEW c \in Conns, Send(c) \/ HangUp(c)
    PROVE  ServerInv'
<1> USE DEF Send, HangUp, Move, record, client
<1>0. Domains /\ ConnInv(c)
      BY DEF ServerInv
<1>1. Domains'
  <2>1. CASE Send(c)
    <3>1. sent' = [sent EXCEPT ![c] = sent[c] + 1] /\ sent \in [Conns -> Nat]
          BY <1>0, <2>1 DEF Domains
    <3>2. sent' \in [Conns -> Nat]
          BY <3>1
    <3> QED BY <1>0, <2>1, <3>2 DEF Domains
  <2>2. CASE HangUp(c)
        BY <1>0, <2>2 DEF Domains
  <2> QED BY <2>1, <2>2
<1>2. \A d \in Conns \ {c} : Still(d)
      BY <1>0 DEF Still, Domains
<1>3. /\ stage' = stage /\ input' = input /\ left' = left /\ clientIp' = clientIp
      /\ answers' = answers /\ taken' = taken /\ charged' = charged /\ raised' = raised
      /\ handled' = handled /\ stored' = stored /\ proxied' = proxied
      /\ gone[c] => gone'[c]
      BY <1>0 DEF Domains
<1>4. ConnInv(c)'
      BY <1>0, <1>3
      DEF ConnInv, Started, Address, Paid, Answered, Refused, Passed, WantedBody, Body
<1> QED BY <1>1, <1>2, <1>4, OneMoves

-----------------------------------------------------------------------------
(* The connection's thread.                                                *)

\* The PROXY header: accepted, refused or not asked for.
LEMMA SetupKeeps ==
    ASSUME ServerInv, NEW c \in Conns, Setup(c)
    PROVE  ServerInv'
<1> USE DEF client
<1>0. /\ Domains /\ ConnInv(c) /\ stage[c] = "setup"
      /\ input[c] \in Inputs[c] /\ InputOK(input[c]) /\ proxied \in BOOLEAN
      BY ConnectionAssumption DEF ServerInv, ConnInv, Started, Setup, Domains
<1>1. /\ clientIp[c] = "peer" /\ left[c] = input[c].size /\ ~ charged[c]
      /\ answers[c] = <<>> /\ ~ handled[c] /\ stored[c] = NoParts /\ taken[c] = 0
      BY <1>0 DEF ConnInv, Address, Paid, Answered, Early
<1>2. /\ proxied' = proxied /\ input' = input /\ sent' = sent /\ gone' = gone
      /\ taken' = taken /\ charged' = charged /\ handled' = handled /\ stored' = stored
      /\ raised' = raised
      BY DEF Setup
<1>3. CASE ~ proxied
  <2>1. stage' = [stage EXCEPT ![c] = "line"] /\ UNCHANGED <<left, clientIp, answers>>
        BY <1>3 DEF Setup, Move
  <2>2. Domains' /\ \A d \in Conns \ {c} : Still(d)
        BY <1>0, <1>2, <2>1 DEF Domains, Still
  <2>3. stage'[c] = "line"
        BY <1>0, <2>1 DEF Domains
  <2>4. Started(c)' /\ Address(c)' /\ Paid(c)'
        BY <1>0, <1>1, <1>2, <1>3, <2>1, <2>3
        DEF Started, Address, Paid, Early, Middle, Routed
  <2>5. Answered(c)'
        BY <1>0, <1>1, <1>2, <2>1, <2>3 DEF ConnInv, Answered, Early, Middle, Refused
  <2> QED BY <2>2, <2>4, <2>5, OneMoves DEF ConnInv
<1>4. ASSUME proxied, NEW bytes, RefuseInSetup(c, bytes)
      PROVE  ServerInv'
  <2>1. /\ stage' = [stage EXCEPT ![c] = "line"] /\ clientIp' = clientIp
        /\ left' = [left EXCEPT ![c] = @ - bytes] /\ Write(c, "bad_proxy_header")
        BY <1>4 DEF RefuseInSetup, Move
  <2>a. /\ DOMAIN answers' = Conns /\ \A d \in Conns \ {c} : answers'[d] = answers[d]
        /\ gone[c] => answers'[c] = answers[c]
        /\ ~ gone[c] => answers'[c] = Append(answers[c], "bad_proxy_header")
        BY <1>0, <2>1 DEF Write, Domains
  <2>2. Domains' /\ \A d \in Conns \ {c} : Still(d)
        BY <1>0, <1>2, <2>1, <2>a DEF Domains, Still
  <2>3. stage'[c] = "line" /\ clientIp'[c] = "peer"
        BY <1>0, <1>1, <2>1 DEF Domains
  <2>4. CASE gone[c]
    <3>1. answers'[c] = <<>>
          BY <1>1, <2>a, <2>4
    <3>2. Answered(c)'
          BY <2>3, <3>1 DEF Answered, Early, Middle
    <3>3. Started(c)' /\ Address(c)' /\ Paid(c)'
          BY <1>0, <1>1, <1>2, <2>3, <2>4 DEF Started, Address, Paid, Early, Middle, Routed
    <3> QED BY <2>2, <3>2, <3>3, OneMoves DEF ConnInv
  <2>5. CASE ~ gone[c]
    <3>1. answers'[c] = Append(<<>>, "bad_proxy_header")
          BY <1>1, <2>a, <2>5
    <3>a. "bad_proxy_header" \in Codes /\ <<>> \in Seq(Codes)
          BY DEF Codes
    <3>2. /\ answers'[c] \in Seq(Codes) /\ Len(answers'[c]) = 1
          /\ answers'[c][1] = "bad_proxy_header"
          BY <3>1, <3>a, AppendProperties
    <3>3. Refused(c)'
          BY <3>2 DEF Refused
    <3>4. Answered(c)'
          BY <2>3, <3>2, <3>3 DEF Answered, Early, Middle
    <3>5. Started(c)' /\ Address(c)' /\ Paid(c)'
          BY <1>0, <1>1, <1>2, <2>3, <3>3 DEF Started, Address, Paid, Early, Middle, Routed
    <3> QED BY <2>2, <3>4, <3>5, OneMoves DEF ConnInv
  <2> QED BY <1>0, <2>4, <2>5 DEF Domains
<1>5. CASE proxied /\ input[c].peer = "other"
      BY <1>4, <1>5 DEF Setup
<1>6. CASE proxied /\ input[c].peer # "other"
  <2> DEFINE h == input[c].header
             r == ReadHeader(h, Available(c))
  <2>1. ReadProxyHeader(c)
        BY <1>6 DEF Setup
  <2>2. CASE r.ok
    <3>1. Supported(h) /\ r.taken = Wanted(h)
          BY <2>2 DEF ReadHeader
    <3>2. /\ stage' = [stage EXCEPT ![c] = "line"] /\ answers' = answers
          /\ clientIp' = [clientIp EXCEPT ![c] = "header"]
          /\ left' = [left EXCEPT ![c] = @ - r.taken]
          BY <2>1, <2>2 DEF ReadProxyHeader, Move
    <3>3. Domains' /\ \A d \in Conns \ {c} : Still(d)
          BY <1>0, <1>2, <3>2 DEF Domains, Still
    <3>4. /\ stage'[c] = "line" /\ clientIp'[c] = "header" /\ answers'[c] = <<>>
          /\ left'[c] = input[c].size - Wanted(h)
          BY <1>0, <1>1, <3>1, <3>2 DEF Domains
    <3>5. input[c].peer = "trusted"
          BY <1>0, <1>6 DEF InputOK
    <3>6. Started(c)' /\ Paid(c)'
          BY <1>0, <1>1, <1>2, <3>4 DEF Started, Paid, Early, Middle, Routed
    <3>7. Address(c)'
          BY <1>0, <1>1, <1>2, <1>6, <3>1, <3>4, <3>5 DEF Address, Early, Middle
    <3>8. Answered(c)'
          BY <3>4 DEF Answered, Early, Middle
    <3> QED BY <3>3, <3>6, <3>7, <3>8, OneMoves DEF ConnInv
  <2>3. CASE ~ r.ok
    <3>1. RefuseInSetup(c, r.taken)
          BY <2>1, <2>3 DEF ReadProxyHeader
    <3> HIDE DEF r
    <3> QED BY <1>4, <1>6, <3>1
  <2> QED BY <2>2, <2>3
<1> QED BY <1>0, <1>3, <1>5, <1>6

\* An answer ends a connection: what it has recorded stays.
LEMMA EndsWithAnswer ==
    ASSUME ServerInv, NEW c \in Conns, NEW code \in Codes, Answer(c, code),
           stage[c] \in Middle,
           UNCHANGED <<proxied, client, left, clientIp, taken, charged, handled, stored,
                       raised>>
    PROVE  ServerInv'
<1> USE DEF client
<1>0. Domains /\ ConnInv(c)
      BY DEF ServerInv
<1>1. Answered(c)' /\ stage'[c] = "closed"
      BY <1>0, AnswerKeeps DEF ConnInv
<1>2. Domains' /\ \A d \in Conns \ {c} : Still(d)
      BY <1>0, WriteKeeps DEF Answer, Move, Domains, Still
<1>4. Refused(c) => Refused(c)'
      BY <1>0, RefusedStays DEF Answer, ConnInv
<1>5. Started(c)' /\ Paid(c)'
      BY <1>0, <1>1
      DEF ConnInv, Started, Paid, Passed, WantedBody, Body, Early, Middle, Routed
<1>6. Address(c)'
      BY <1>0, <1>1, <1>4 DEF ConnInv, Address, Early, Middle
<1> QED BY <1>1, <1>2, <1>5, <1>6, OneMoves DEF ConnInv

\* A thread ends without a word: to a client that is gone, that has been
\* answered, or whose line is one of those that are ignored.
LEMMA EndsUnanswered ==
    ASSUME ServerInv, NEW c \in Conns, stage[c] \in Middle, EndSilently(c),
           gone[c] \/ answers[c] # <<>> \/ Ignored(input[c]),
           UNCHANGED <<proxied, client, left, clientIp, taken, charged, handled, stored,
                       raised>>
    PROVE  ServerInv'
<1> USE DEF client, EndSilently
<1>0. Domains /\ ConnInv(c) /\ stage'[c] = "closed"
      BY DEF ServerInv, Domains, Move
<1>1. Domains' /\ \A d \in Conns \ {c} : Still(d)
      BY <1>0 DEF Move, Domains, Still
<1>2. Started(c)' /\ Paid(c)'
      BY <1>0 DEF ConnInv, Started, Paid, Passed, WantedBody, Body, Early, Middle, Routed
<1>3. Address(c)'
      BY <1>0 DEF ConnInv, Address, Early, Middle, Refused
<1>4. Answered(c)'
      BY <1>0 DEF ConnInv, Answered, Early, Middle, Refused, Ignored
<1> QED BY <1>1, <1>2, <1>3, <1>4, OneMoves DEF ConnInv

\* The request line.
LEMMA ParseKeeps ==
    ASSUME ServerInv, NEW c \in Conns, ParseRequest(c)
    PROVE  ServerInv'
<1> USE DEF client
<1>0. Domains /\ ConnInv(c) /\ stage[c] = "line" /\ stage[c] \in Middle
      BY DEF ServerInv, ParseRequest, Middle
<1>1. /\ UNCHANGED <<proxied, client, left, clientIp, taken, charged, handled, stored,
                     raised>>
      BY DEF ParseRequest
<1>2. CASE Answer(c, "bad_request")
      BY <1>0, <1>1, <1>2, EndsWithAnswer DEF Codes
<1>3. CASE Move(c, "dispatch") /\ answers' = answers /\ left[c] = 0
  <2>1. stage'[c] = "dispatch"
        BY <1>0, <1>3 DEF Move, Domains
  <2>2. Domains' /\ \A d \in Conns \ {c} : Still(d)
        BY <1>0, <1>1, <1>3 DEF Move, Domains, Still
  <2>3. Started(c)' /\ Paid(c)'
        BY <1>0, <1>1, <1>3, <2>1
        DEF ConnInv, Started, Paid, Passed, WantedBody, Body, Early, Middle, Routed
  <2>4. Address(c)'
        BY <1>0, <1>1, <1>3, <2>1 DEF ConnInv, Address, Early, Middle, Refused
  <2>5. Answered(c)'
        BY <1>0, <1>1, <1>3, <2>1 DEF ConnInv, Answered, Early, Middle, Refused
  <2> QED BY <2>2, <2>3, <2>4, <2>5, OneMoves DEF ConnInv
<1>4. CASE EndSilently(c) /\ (sent[c] < 2 \/ answers[c] # <<>> \/ Ignored(input[c]))
  <2>1. gone[c] \/ sent[c] >= 2
        BY DEF ParseRequest
  <2>2. sent[c] < 2 => gone[c]
        BY <2>1, <1>0 DEF Domains
  <2> QED BY <1>0, <1>1, <1>4, <2>2, EndsUnanswered
<1> QED BY <1>2, <1>3, <1>4 DEF ParseRequest, Ignored

\* A thread goes on to its next stage and records no more.
LEMMA GoesOn ==
    ASSUME ServerInv, NEW c \in Conns, NEW to \in {"limit"}, Move(c, to),
           stage[c] = "dispatch", Passed(c),
           UNCHANGED <<proxied, client, left, clientIp, answers, taken, charged, handled,
                       stored, raised>>
    PROVE  ServerInv'
<1> USE DEF client
<1>0. Domains /\ ConnInv(c) /\ stage'[c] = "limit"
      BY DEF ServerInv, Domains, Move
<1>1. Domains' /\ \A d \in Conns \ {c} : Still(d)
      BY <1>0 DEF Move, Domains, Still
<1>2. Started(c)' /\ Paid(c)'
      BY <1>0 DEF ConnInv, Started, Paid, Passed, WantedBody, Body, Early, Middle, Routed
<1>3. Address(c)'
      BY <1>0 DEF ConnInv, Address, Early, Middle, Refused
<1>4. Answered(c)'
      BY <1>0 DEF ConnInv, Answered, Early, Middle, Refused
<1> QED BY <1>1, <1>2, <1>3, <1>4, OneMoves DEF ConnInv

\* The ceiling and the routes.
LEMMA DispatchKeeps ==
    ASSUME ServerInv, NEW c \in Conns, Dispatch(c)
    PROVE  ServerInv'
<1> USE DEF client
<1> DEFINE i == input[c]
<1>0. stage[c] = "dispatch" /\ stage[c] \in Middle /\ InputOK(i)
      BY ConnectionAssumption DEF Dispatch, Middle, ServerInv, ConnInv, Started
<1>1. UNCHANGED <<proxied, client, left, clientIp, taken, charged, handled, stored, raised>>
      BY DEF Dispatch
<1>2. ASSUME NEW code \in Codes, Answer(c, code) PROVE ServerInv'
      BY <1>0, <1>1, <1>2, EndsWithAnswer
<1>3. \/ \E code \in {"uri_too_long", "length_required", "bad_content_length",
                      "too_large", "not_found", "method_not_allowed"} : Answer(c, code)
      \/ /\ Move(c, "limit") /\ answers' = answers /\ i.route # "none" /\ i.route # "method"
         /\ i.method = "POST" => i.declares # "none" /\ i.declares # "junk" /\ ~ TooLarge(i)
      \/ i.line = "unsplit" /\ EndSilently(c)
      BY Zenon DEF Dispatch
<1>4. CASE \E code \in {"uri_too_long", "length_required", "bad_content_length",
                       "too_large", "not_found", "method_not_allowed"} : Answer(c, code)
      BY <1>2, <1>4 DEF Codes
<1>5. CASE /\ Move(c, "limit") /\ answers' = answers /\ i.route # "none" /\ i.route # "method"
           /\ i.method = "POST" => i.declares # "none" /\ i.declares # "junk" /\ ~ TooLarge(i)
  <2>1. Passed(c)
        BY <1>0, <1>5, ConnectionAssumption DEF Passed, TooLarge, InputOK
  <2> QED BY <1>0, <1>1, <1>5, <2>1, GoesOn
<1>6. CASE i.line = "unsplit" /\ EndSilently(c)
      BY <1>0, <1>1, <1>6, EndsUnanswered DEF Ignored
<1> QED BY <1>3, <1>4, <1>5, <1>6

\* The limiter.
LEMMA LimiterKeeps ==
    ASSUME ServerInv, NEW c \in Conns, Allowed(c) \/ Limited(c) \/ LimiterRaises(c)
    PROVE  ServerInv'
<1> USE DEF client
<1>0. Domains /\ ConnInv(c) /\ stage[c] = "limit" /\ stage[c] \in Middle
      BY DEF ServerInv, Allowed, Limited, LimiterRaises, Middle
<1>1. CASE Limited(c)
  <2>1. Answer(c, "rate_limited") /\ "rate_limited" \in Codes
        BY <1>1 DEF Limited, Codes
  <2> QED BY <1>0, <1>1, <2>1, EndsWithAnswer DEF Limited
<1>2. CASE Allowed(c)
  <2> USE DEF Allowed
  <2>1. Domains' /\ stage'[c] = "body" /\ charged'[c] /\ \A d \in Conns \ {c} : Still(d)
        BY <1>0, <1>2 DEF Move, Domains, Still
  <2>2. Started(c)' /\ Paid(c)'
        BY <1>0, <1>2, <2>1
        DEF ConnInv, Started, Paid, Passed, WantedBody, Body, Early, Middle, Routed
  <2>3. Address(c)' /\ Answered(c)'
        BY <1>0, <1>2, <2>1 DEF ConnInv, Address, Answered, Early, Middle, Refused
  <2> QED BY <2>1, <2>2, <2>3, OneMoves DEF ConnInv
<1>3. CASE LimiterRaises(c)
  <2> USE DEF LimiterRaises, EndSilently
  <2>1. Domains' /\ stage'[c] = "closed" /\ raised'[c] /\ \A d \in Conns \ {c} : Still(d)
        BY <1>0, <1>3 DEF Move, Domains, Still
  <2>2. Started(c)' /\ Paid(c)'
        BY <1>0, <1>3, <2>1
        DEF ConnInv, Started, Paid, Passed, WantedBody, Body, Early, Middle, Routed
  <2>3. Address(c)' /\ Answered(c)'
        BY <1>0, <1>3, <2>1 DEF ConnInv, Address, Answered, Early, Middle, Refused
  <2> QED BY <2>1, <2>2, <2>3, OneMoves DEF ConnInv
<1> QED BY <1>1, <1>2, <1>3

\* A short body is answered; a whole one goes to the handler.
LEMMA ReadBodyKeeps ==
    ASSUME ServerInv, NEW c \in Conns, ReadBody(c)
    PROVE  ServerInv'
<1> USE DEF client
<1> DEFINE i == input[c]
           wanted == IF i.method = "POST" THEN i.declared ELSE 0
           got == IF sent[c] = 3 THEN Smaller(wanted, i.body) ELSE 0
<1>0. /\ Domains /\ ConnInv(c) /\ stage[c] = "body" /\ stage[c] \in Middle /\ charged[c]
      /\ InputOK(i)
      BY ConnectionAssumption DEF ServerInv, ReadBody, Middle, ConnInv, Paid, Started
<1>1. /\ UNCHANGED <<proxied, client, left, clientIp, charged, handled, stored, raised>>
      /\ taken' = [taken EXCEPT ![c] = got]
      BY DEF ReadBody
<1>2. Domains' /\ taken'[c] = got
      BY <1>0, <1>1 DEF ReadBody, Answer, Move, Write, Domains
<1>3. \A d \in Conns \ {c} : Still(d)
      BY <1>0, <1>1 DEF ReadBody, Answer, Move, Write, Domains, Still
<1>4. wanted \in Int /\ got \in Int /\ got <= wanted
      BY <1>0 DEF InputOK, ConnInv, Paid, Routed, Passed, Smaller
<1>5. CASE got < wanted
  <2>1. Answer(c, "short_body") /\ "short_body" \in Codes
        BY <1>5 DEF ReadBody, Codes
  <2>2. Answered(c)' /\ stage'[c] = "closed"
        BY <1>0, <1>1, <2>1, AnswerKeeps DEF ConnInv
  <2>3. Started(c)' /\ Paid(c)'
        BY <1>0, <1>1, <1>2, <2>2
        DEF ConnInv, Started, Paid, Passed, WantedBody, Body, Early, Middle, Routed
  <2>4. clientIp[c] # "header" /\ proxied => Refused(c) \/ gone[c]
        BY <1>0 DEF ConnInv, Address
  <2>5. Refused(c) => Refused(c)'
        BY <1>0, <2>1, RefusedStays DEF ConnInv, Answer
  <2>6. Address(c)'
        BY <1>0, <1>1, <2>2, <2>4, <2>5 DEF ConnInv, Address, Early, Middle
  <2> QED BY <1>2, <1>3, <2>2, <2>3, <2>6, OneMoves DEF ConnInv
<1>6. CASE ~ (got < wanted)
  <2>1. /\ Move(c, "handler") /\ answers' = answers /\ got = wanted
        BY <1>4, <1>6 DEF ReadBody
  <2>2. stage'[c] = "handler" /\ taken'[c] = WantedBody(c)
        BY <1>0, <1>2, <2>1 DEF Move, Domains, WantedBody
  <2> HIDE DEF got, wanted
  <2>3. Started(c)' /\ Paid(c)'
        BY <1>0, <1>1, <2>2
        DEF ConnInv, Started, Paid, Passed, WantedBody, Body, Early, Middle, Routed
  <2>4. Address(c)' /\ Answered(c)'
        BY <1>0, <1>1, <2>1, <2>2 DEF ConnInv, Address, Answered, Early, Middle, Refused
  <2> QED BY <1>2, <1>3, <2>3, <2>4, OneMoves DEF ConnInv
<1> QED BY <1>5, <1>6

\* The handler answers, or its exception is answered, and what it stores is
\* what the envelope of a whole body declares.
LEMMA HandleKeeps ==
    ASSUME ServerInv, NEW c \in Conns, Handle(c)
    PROVE  ServerInv'
<1> USE DEF client
<1>0. /\ Domains /\ ConnInv(c) /\ stage[c] = "handler" /\ stage[c] \in Middle /\ charged[c]
      /\ InputOK(input[c]) /\ stored[c] = NoParts /\ taken[c] = WantedBody(c) /\ Passed(c)
      BY ConnectionAssumption DEF ServerInv, Handle, Middle, ConnInv, Paid, Started, Routed
<1>1. /\ UNCHANGED <<proxied, client, left, clientIp, taken, charged, raised>>
      /\ handled' = [handled EXCEPT ![c] = TRUE]
      BY DEF Handle
<1>2. PICK code \in {"handled", "internal_error", "bad_envelope"} :
        /\ Answer(c, code)
        /\ \/ stored' = stored
           \/ /\ input[c].route = "upload" /\ Verdict(Body(c)) = "envelope"
              /\ stored' = [stored EXCEPT ![c] = Parts(Body(c))]
  <2>1. CASE input[c].route = "upload" /\ HandleUpload(c)
    <3>1. Verdict(Body(c)) \in {"envelope", "bad_envelope", "raises"}
          BY DEF Verdict
    <3> QED BY <2>1, <3>1 DEF HandleUpload
  <2>2. CASE input[c].route # "upload"
        BY <2>2 DEF Handle
  <2> QED BY <2>1, <2>2 DEF Handle
<1>3. code \in Codes
      BY <1>2 DEF Codes
<1>4. Domains' /\ \A d \in Conns \ {c} : Still(d)
  <2>1. /\ DOMAIN answers' = Conns /\ DOMAIN stage' = Conns /\ DOMAIN stored' = Conns
        /\ \A d \in Conns \ {c} : /\ answers'[d] = answers[d] /\ stage'[d] = stage[d]
                                 /\ stored'[d] = stored[d]
        BY <1>0, <1>2 DEF Answer, Move, Write, Domains
  <2> QED BY <1>0, <1>1, <2>1 DEF Domains, Still
<1>5. Answered(c)' /\ stage'[c] = "closed"
      BY <1>0, <1>1, <1>2, <1>3, AnswerKeeps DEF ConnInv
<1>6. clientIp[c] # "header" /\ proxied => Refused(c) \/ gone[c]
      BY <1>0 DEF ConnInv, Address
<1>7. Refused(c) => Refused(c)'
      BY <1>0, <1>2, <1>3, RefusedStays DEF ConnInv, Answer
<1>8. Started(c)' /\ Address(c)'
      BY <1>0, <1>1, <1>5, <1>6, <1>7 DEF ConnInv, Started, Address, Early, Middle
<1>9. handled'[c] /\ Body(c)' = Body(c)
      BY <1>0, <1>1 DEF Domains, Body
<1>10. stored'[c] # NoParts => taken[c] = input[c].declared /\ AsDeclared(Body(c), stored'[c])
  <2>1. CASE stored' = stored
        BY <1>0, <2>1
  <2>2. CASE /\ input[c].route = "upload" /\ Verdict(Body(c)) = "envelope"
             /\ stored' = [stored EXCEPT ![c] = Parts(Body(c))]
    <3>1. stored'[c] = Parts(Body(c))
          BY <1>0, <2>2 DEF Domains
    <3>2. input[c].method = "POST" /\ taken[c] = input[c].declared /\ taken[c] \in Int
          BY <1>0, <2>2 DEF InputOK, WantedBody
    <3>3. /\ Body(c).size \in Int /\ Body(c).meta \in Nat /\ Body(c).model \in Nat
          /\ Body(c).thumb \in Nat
          BY <1>0, <3>2 DEF Body, InputOK
    <3>4. AsDeclared(Body(c), Parts(Body(c)))
          BY <2>2, <3>3, SlicesAsDeclared
    <3> QED BY <3>1, <3>2, <3>4
  <2> QED BY <1>2, <2>1, <2>2
<1>11. Paid(c)'
      BY <1>0, <1>1, <1>5, <1>9, <1>10
      DEF ConnInv, Paid, Passed, Early, Middle, Routed
<1> QED BY <1>4, <1>5, <1>8, <1>11, OneMoves DEF ConnInv

-----------------------------------------------------------------------------
(* What the main thread does to connections.                               *)

\* Connections change their stage, and may be cut, and nothing else: they are
\* accepted, dropped, reset, or end with the process.
StagesOnly ==
    /\ UNCHANGED <<proxied, input, sent, left, record>>
    /\ gone' \in [Conns -> BOOLEAN] /\ \A c \in Conns : gone[c] => gone'[c]
    /\ DOMAIN stage' = Conns
    /\ \A c \in Conns :
          \/ stage'[c] = stage[c]
          \/ stage[c] = "backlog" /\ stage'[c] \in {"setup", "dropped", "reset"}
          \/ stage[c] # "none" /\ stage'[c] = "killed"

\* What the invariant says of a stage, the stages the main thread sets keep.
LEMMA StagesKeep == ServerInv /\ StagesOnly => ServerInv'
<1> SUFFICES ASSUME ServerInv, StagesOnly PROVE ServerInv'
    OBVIOUS
<1> USE DEF client, record
<1>1. Domains'
      BY DEF ServerInv, Domains, StagesOnly
<1>2. ASSUME NEW c \in Conns PROVE ConnInv(c)'
  <2>0. Domains /\ ConnInv(c)
        BY DEF ServerInv
  <2>1. CASE stage'[c] = stage[c]
    <3>1. Started(c)' /\ Paid(c)'
          BY <2>0, <2>1
          DEF StagesOnly, ConnInv, Started, Paid, Passed, WantedBody, Body
    <3>2. Address(c)' /\ Answered(c)'
          BY <2>0, <2>1 DEF StagesOnly, ConnInv, Address, Answered, Refused
    <3> QED BY <3>1, <3>2 DEF ConnInv
  <2>2. CASE stage[c] = "backlog" /\ stage'[c] \in {"setup", "dropped", "reset"}
    <3>1. Started(c)' /\ Paid(c)'
          BY <2>0, <2>2
          DEF StagesOnly, ConnInv, Started, Paid, Passed, WantedBody, Body, Early, Middle,
              Routed
    <3>2. Address(c)' /\ Answered(c)'
          BY <2>0, <2>2 DEF StagesOnly, ConnInv, Address, Answered, Refused, Early, Middle
    <3> QED BY <3>1, <3>2 DEF ConnInv
  <2>3. CASE stage[c] # "none" /\ stage'[c] = "killed"
    <3>1. Started(c)' /\ Paid(c)'
          BY <2>0, <2>3
          DEF StagesOnly, ConnInv, Started, Paid, Passed, WantedBody, Body, Early, Middle,
              Routed
    <3>2. Address(c)' /\ Answered(c)'
          BY <2>0, <2>3 DEF StagesOnly, ConnInv, Address, Answered, Refused, Early, Middle
    <3> QED BY <3>1, <3>2 DEF ConnInv
  <2> QED BY <2>1, <2>2, <2>3 DEF StagesOnly
<1> QED BY <1>1, <1>2 DEF ServerInv

\* The end of the process is such a change,
LEMMA KillIsStages ==
    ASSUME Domains, KillThreads, UNCHANGED <<proxied, client, left, record>>
    PROVE  StagesOnly
BY DEF KillThreads, StagesOnly, Serving, Domains, client

\* so is none,
LEMMA UnchangedIsStages ==
    ASSUME Domains, UNCHANGED connVars
    PROVE  StagesOnly
BY DEF StagesOnly, connVars, client, record, Domains

\* and an accept.
LEMMA MoveIsStages ==
    ASSUME Domains, NEW c \in Conns, stage[c] = "backlog", Begin(c) \/ DropConnection(c),
           UNCHANGED <<proxied, client, left, record>>
    PROVE  StagesOnly
BY DEF Begin, DropConnection, Move, StagesOnly, Domains, client

\* Every step of the main thread.
LEMMA MainKeeps == ServerInv /\ Main => ServerInv'
<1> SUFFICES ASSUME ServerInv, Main PROVE ServerInv'
    OBVIOUS
<1>0. Domains
      BY DEF ServerInv
<1>1. CASE (Register \/ EnterLoop \/ TestFlag \/ Unwind) /\ UNCHANGED connVars
      BY <1>0, <1>1, UnchangedIsStages, StagesKeep
<1>2. CASE Select
      BY <1>0, <1>2, UnchangedIsStages, StagesKeep DEF Select
<1>3. ASSUME NEW c \in Conns, Accept(c) PROVE ServerInv'
      BY <1>0, <1>3, MoveIsStages, StagesKeep DEF Accept
<1>4. CASE Close
  <2>1. StagesOnly
        BY <1>0, <1>4 DEF Close, ResetBacklog, StagesOnly, Domains, client
  <2> QED BY <2>1, StagesKeep
<1>5. CASE End
      BY <1>0, <1>5, KillIsStages, StagesKeep DEF End
<1> QED BY <1>1, <1>2, <1>3, <1>4, <1>5 DEF Main

\* A signal and what its thread does.
LEMMA SignalsKeep ==
    ASSUME ServerInv, NEW s \in Signals,
           Signal(s) \/ Stopper(s) \/ \E c \in Conns : SignalLost(s, c)
    PROVE  ServerInv'
<1>0. Domains
      BY DEF ServerInv
<1>1. CASE Signal(s)
  <2>1. CASE main' = "ended"
        BY <1>0, <1>1, <2>1, KillIsStages, StagesKeep DEF Signal
  <2>2. CASE main' # "ended"
    <3>1. UNCHANGED connVars
          BY <1>1, <2>2 DEF Signal, connVars, client, record
    <3> QED BY <1>0, <3>1, UnchangedIsStages, StagesKeep
  <2> QED BY <2>1, <2>2
<1>2. CASE Stopper(s)
      BY <1>0, <1>2, UnchangedIsStages, StagesKeep DEF Stopper
<1>3. ASSUME NEW c \in Conns, SignalLost(s, c) PROVE ServerInv'
  <2>1. StagesOnly
        BY <1>0, <1>3 DEF SignalLost, Begin, DropConnection, Move, StagesOnly, Domains
  <2> QED BY <2>1, StagesKeep
<1> QED BY <1>1, <1>2, <1>3

\* Every step.
LEMMA NextInv == ServerInv /\ [Next]_vars => ServerInv'
<1> SUFFICES ASSUME ServerInv, [Next]_vars PROVE ServerInv'
    OBVIOUS
<1>0. Domains
      BY DEF ServerInv
<1>1. CASE Main
      BY <1>1, MainKeeps
<1>2. CASE Killed
      BY <1>0, <1>2, KillIsStages, StagesKeep DEF Killed
<1>3. ASSUME NEW s \in Signals, Signal(s) \/ Stopper(s) \/ \E c \in Conns : SignalLost(s, c)
      PROVE  ServerInv'
      BY <1>3, SignalsKeep
<1>4. ASSUME NEW c \in Conns, Serve(c) PROVE ServerInv'
      BY <1>4, SetupKeeps, ParseKeeps, DispatchKeeps, LimiterKeeps, ReadBodyKeeps, HandleKeeps
      DEF Serve, ThreadStep
<1>5. ASSUME NEW c \in Conns, ClientMoves(c) PROVE ServerInv'
      BY <1>5, ClientKeeps DEF ClientMoves
<1>6. ASSUME NEW c \in Conns, NEW i \in Inputs[c], Arrive(c, i) PROVE ServerInv'
      BY <1>6, ConnectKeeps DEF Arrive
<1>7. CASE UNCHANGED vars
      BY <1>0, <1>7, UnchangedIsStages, StagesKeep DEF vars
<1> QED BY <1>1, <1>2, <1>3, <1>4, <1>5, <1>6, <1>7 DEF Next

\* The length that a header declares is a number.
LEMMA HeaderLength == ASSUME NEW h \in Headers PROVE h.length \in Int
<1>1. \A n \in Word : n \in Int
      BY SMTT(30) DEF Word
<1>2. h.length \in Word
      BY SMTT(30) DEF Headers
<1> QED BY <1>1, <1>2

\* The invariant.
LEMMA Invariance == Spec => []ServerInv
<1> QED BY InitInv, NextInv, PTL DEF Spec

-----------------------------------------------------------------------------
(* The theorems.                                                           *)

\* With proxy_protocol on, a request is charged to the address of a complete
\* header from a trusted peer, or its client has been told of the refusal.
THEOREM ChargedByHeader == Spec => []ChargedToTheHeader
<1>1. ServerInv => ChargedToTheHeader
  <2> SUFFICES ASSUME ServerInv, NEW c \in Conns, charged[c]
               PROVE  IF clientIp[c] = "header"
                      THEN /\ proxied /\ input[c].peer = "trusted"
                           /\ input[c].header.signature
                           /\ input[c].header.version = 2 /\ input[c].header.command = 1
                           /\ input[c].size = HdrBytes + input[c].header.length
                      ELSE proxied => Refused(c) \/ gone[c]
      BY DEF ChargedToTheHeader
  <2>0. Address(c) /\ Started(c) /\ Paid(c)
        BY DEF ServerInv, ConnInv
  <2>1. CASE clientIp[c] = "header"
    <3>1. /\ proxied /\ input[c].peer = "trusted" /\ Supported(input[c].header)
          /\ left[c] = 0 /\ left[c] = input[c].size - Wanted(input[c].header)
          BY <2>0, <2>1 DEF Address
    <3>2. input[c] \in Inputs[c]
          BY <2>0 DEF Paid, Early, Started
    <3>3. input[c].size \in Nat /\ input[c].header \in Headers
          BY <3>2, ConnectionAssumption DEF InputOK
    <3>4. Wanted(input[c].header) = HdrBytes + input[c].header.length
          BY <3>1 DEF Wanted
    <3>5. /\ input[c].header.signature /\ input[c].header.version = 2
          /\ input[c].header.command = 1
          BY <3>1 DEF Supported
    <3>6. input[c].header.length \in Int
      <4>1. PICK h \in Headers : h = input[c].header
            BY <3>3
      <4> QED BY <4>1, HeaderLength
    <3>7. input[c].size = HdrBytes + input[c].header.length
          BY <3>1, <3>3, <3>4, <3>6 DEF HdrBytes
    <3> QED BY <2>1, <3>1, <3>5, <3>7
  <2>2. CASE clientIp[c] # "header"
        BY <2>0, <2>2 DEF Address
  <2> QED BY <2>1, <2>2
<1> QED BY <1>1, Invariance, PTL

\* No body is read and no handler runs before ceiling, routes and limiter.
THEOREM PaidFirst == Spec => []NothingReadUnpaid
<1>1. ServerInv => NothingReadUnpaid
      BY DEF ServerInv, ConnInv, Paid, Passed, NothingReadUnpaid
<1> QED BY <1>1, Invariance, PTL

\* What is stored of an upload is what its envelope declares.
THEOREM DeclaredIsStored == Spec => []StoredAsDeclared
<1>1. ServerInv => StoredAsDeclared
      BY DEF ServerInv, ConnInv, Paid, StoredAsDeclared
<1> QED BY <1>1, Invariance, PTL

\* One answer to a connection, and a second only after a refused header.
THEOREM AnsweredOnce == Spec => []OneAnswer
<1>1. ServerInv => OneAnswer
  <2> SUFFICES ASSUME ServerInv, NEW c \in Conns
               PROVE  /\ Len(answers[c]) <= (IF Refused(c) THEN 2 ELSE 1)
                      /\ stage[c] = "closed" => \/ answers[c] # <<>> \/ gone[c]
                                                \/ raised[c] \/ Ignored(input[c])
      BY DEF OneAnswer
  <2>1. Answered(c)
        BY DEF ServerInv, ConnInv
  <2>2. Len(answers[c]) \in Nat
        BY <2>1, LenProperties DEF Answered
  <2>3. stage[c] = "closed" => answers[c] # <<>> \/ gone[c] \/ raised[c] \/ Ignored(input[c])
        BY <2>1 DEF Answered
  <2>4. Len(answers[c]) <= 1 \/ (Len(answers[c]) = 2 /\ Refused(c))
        BY <2>1 DEF Answered
  <2>5. CASE Refused(c)
    <3>1. Len(answers[c]) <= 2
      <4> DEFINE n == Len(answers[c])
      <4>1. n \in Nat /\ (n <= 1 \/ n = 2)
            BY <2>2, <2>4
      <4> HIDE DEF n
      <4>2. n <= 2
            BY <4>1
      <4> QED BY <4>2 DEF n
    <3> QED BY <2>3, <2>5, <3>1
  <2>6. CASE ~ Refused(c)
        BY <2>3, <2>4, <2>6
  <2> QED BY <2>5, <2>6
<1> QED BY <1>1, Invariance, PTL

-----------------------------------------------------------------------------
(* The types, and the limit of tasks: a step starts one task at most, and  *)
(* only below the limit.                                                   *)

TasksInv == IsFiniteSet(Threads) /\ IsFiniteSet(StopperTasks) /\ Tasks <= MaxTasks

NoneStarts == Threads' \subseteq Threads /\ StopperTasks' \subseteq StopperTasks

\* A thread for a connection, or for a signal.
OneStarts ==
    /\ Tasks < MaxTasks
    /\ \/ /\ \E c \in Conns : Threads' \subseteq Threads \cup {c}
          /\ StopperTasks' \subseteq StopperTasks
       \/ /\ \E s \in Signals : StopperTasks' \subseteq StopperTasks \cup {s}
          /\ Threads' \subseteq Threads

\* One task more below the limit, or none, stays within it.
LEMMA TasksKept == TasksInv /\ (NoneStarts \/ OneStarts) => TasksInv'
<1> SUFFICES ASSUME TasksInv, NoneStarts \/ OneStarts PROVE TasksInv'
    OBVIOUS
<1>1. PICK a \in Nat, b \in Nat : a = Cardinality(Threads) /\ b = Cardinality(StopperTasks)
      BY FS_CardinalityType DEF TasksInv
<1>2. 1 + a + b <= MaxTasks
      BY <1>1 DEF TasksInv, Tasks
<1>3. ASSUME NEW n \in Nat, NEW m \in Nat,
             IsFiniteSet(Threads'), IsFiniteSet(StopperTasks'),
             Cardinality(Threads') \in Nat, Cardinality(Threads') <= n,
             Cardinality(StopperTasks') \in Nat, Cardinality(StopperTasks') <= m,
             1 + n + m <= MaxTasks
      PROVE  TasksInv'
  <2>1. PICK p \in Nat, q \in Nat : p = Cardinality(Threads') /\ q = Cardinality(StopperTasks')
        BY <1>3
  <2>2. 1 + p + q <= MaxTasks
        BY <1>3, <2>1, ServerAssumption
  <2> QED BY <1>3, <2>1, <2>2 DEF TasksInv, Tasks
<1>4. ASSUME NEW A, NEW B, IsFiniteSet(A), B \subseteq A
      PROVE  IsFiniteSet(B) /\ Cardinality(B) \in Nat /\ Cardinality(B) <= Cardinality(A)
      BY <1>4, FS_Subset, FS_CardinalityType
<1>5. ASSUME NEW A, NEW B, IsFiniteSet(A), NEW x, B \subseteq A \cup {x}
      PROVE  IsFiniteSet(B) /\ Cardinality(B) \in Nat /\ Cardinality(B) <= Cardinality(A) + 1
  <2>1. IsFiniteSet(A \cup {x})
        BY <1>5, FS_AddElement
  <2> QED BY <1>5, <2>1, FS_Subset, OneMore
<1>6. CASE NoneStarts
      BY <1>1, <1>2, <1>3, <1>4, <1>6 DEF NoneStarts, TasksInv
<1>7. ASSUME Tasks < MaxTasks, NEW c, Threads' \subseteq Threads \cup {c},
             StopperTasks' \subseteq StopperTasks
      PROVE  TasksInv'
  <2>1. 1 + (a + 1) + b <= MaxTasks /\ a + 1 \in Nat
        BY <1>1, <1>7, ServerAssumption DEF Tasks
  <2>2. IsFiniteSet(Threads') /\ Cardinality(Threads') \in Nat /\ Cardinality(Threads') <= a + 1
        BY <1>1, <1>5, <1>7 DEF TasksInv
  <2>3. /\ IsFiniteSet(StopperTasks') /\ Cardinality(StopperTasks') \in Nat
        /\ Cardinality(StopperTasks') <= b
        BY <1>1, <1>4, <1>7 DEF TasksInv
  <2> QED BY <1>3, <2>1, <2>2, <2>3
<1>8. ASSUME Tasks < MaxTasks, NEW s, StopperTasks' \subseteq StopperTasks \cup {s},
             Threads' \subseteq Threads
      PROVE  TasksInv'
  <2>1. 1 + a + (b + 1) <= MaxTasks /\ b + 1 \in Nat
        BY <1>1, <1>8, ServerAssumption DEF Tasks
  <2>2. /\ IsFiniteSet(StopperTasks') /\ Cardinality(StopperTasks') \in Nat
        /\ Cardinality(StopperTasks') <= b + 1
        BY <1>1, <1>5, <1>8 DEF TasksInv
  <2>3. IsFiniteSet(Threads') /\ Cardinality(Threads') \in Nat /\ Cardinality(Threads') <= a
        BY <1>1, <1>4, <1>8 DEF TasksInv
  <2> QED BY <1>3, <2>1, <2>2, <2>3
<1> QED BY <1>6, <1>7, <1>8 DEF OneStarts

\* A connection's thread moves its own connection, and serves it or ends.
LEMMA ThreadMoves ==
    ASSUME NEW c \in Conns, ThreadStep(c)
    PROVE  stage[c] \in Serving /\ \E to \in Serving \cup {"closed"} : Move(c, to)
<1> USE DEF Serving, Answer, EndSilently
<1>1. CASE Setup(c)
      BY <1>1 DEF Setup, RefuseInSetup, ReadProxyHeader
<1>2. CASE ParseRequest(c)
      BY <1>2 DEF ParseRequest
<1>3. CASE Dispatch(c)
      BY <1>3 DEF Dispatch
<1>4. CASE Allowed(c) \/ Limited(c) \/ LimiterRaises(c)
      BY <1>4 DEF Allowed, Limited, LimiterRaises
<1>5. CASE ReadBody(c)
      BY <1>5 DEF ReadBody
<1>6. CASE Handle(c)
  <2>1. Verdict(Body(c)) \in {"envelope", "bad_envelope", "raises"}
        BY DEF Verdict
  <2> QED BY <1>6, <2>1 DEF Handle, HandleUpload
<1> QED BY <1>1, <1>2, <1>3, <1>4, <1>5, <1>6 DEF ThreadStep

\* Which step starts a thread: the accept and the signal, below the limit.
LEMMA WhoStarts ==
    Domains /\ MainTypeOK /\ [Next]_vars => NoneStarts \/ OneStarts
<1> SUFFICES ASSUME Domains, MainTypeOK, [Next]_vars PROVE NoneStarts \/ OneStarts
    OBVIOUS
<1> USE DEF Threads, StopperTasks
<1>1. ASSUME UNCHANGED <<stage, stopper>> PROVE NoneStarts
      BY <1>1 DEF NoneStarts
<1>2. CASE (Register \/ EnterLoop \/ TestFlag \/ Unwind) /\ UNCHANGED connVars
      BY <1>1, <1>2 DEF Register, EnterLoop, TestFlag, Unwind, connVars
<1>3. CASE Select
      BY <1>1, <1>3 DEF Select, Selected, connVars
<1>4. ASSUME NEW c \in Conns, Accept(c) PROVE NoneStarts \/ OneStarts
  <2>1. stopper' = stopper
        BY <1>4 DEF Accept, Taken
  <2>2. CASE Tasks < MaxTasks
    <3>1. Threads' \subseteq Threads \cup {c}
          BY <1>4, <2>2 DEF Accept, Begin, Move, Domains
    <3> QED BY <2>1, <2>2, <3>1 DEF OneStarts
  <2>3. CASE ~ (Tasks < MaxTasks)
    <3>1. Threads' \subseteq Threads
          BY <1>4, <2>3 DEF Accept, DropConnection, Move, Domains, Serving
    <3> QED BY <2>1, <3>1 DEF NoneStarts
  <2> QED BY <2>2, <2>3
<1>5. CASE Close
      BY <1>5 DEF Close, ServerClose, ResetBacklog, NoneStarts, Serving
<1>6. CASE End \/ Killed
      BY <1>6 DEF End, DbClose, Killed, KilledEarly, KillThreads, NoneStarts, Serving
<1>7. ASSUME NEW s \in Signals, Signal(s) PROVE NoneStarts \/ OneStarts
  <2>1. Threads' \subseteq Threads
        BY <1>7 DEF Signal, KillThreads, Serving
  <2>2. CASE Tasks < MaxTasks
    <3>1. StopperTasks' \subseteq StopperTasks \cup {s}
          BY <1>7, <2>2 DEF Signal, SignalStarts, MainTypeOK
    <3> QED BY <2>1, <2>2, <3>1 DEF OneStarts
  <2>3. CASE ~ (Tasks < MaxTasks)
    <3>1. StopperTasks' \subseteq StopperTasks
          BY <1>7, <2>3 DEF Signal, SignalRaises, MainTypeOK
    <3> QED BY <2>1, <3>1 DEF NoneStarts
  <2> QED BY <2>2, <2>3
<1>8. ASSUME NEW s \in Signals, Stopper(s) PROVE NoneStarts
      BY <1>8 DEF Stopper, StopperStep, SetFlag, Released, connVars, MainTypeOK, NoneStarts
<1>9. ASSUME NEW s \in Signals, NEW c \in Conns, SignalLost(s, c)
      PROVE  NoneStarts \/ OneStarts
  <2>1. StopperTasks' \subseteq StopperTasks
        BY <1>9 DEF SignalLost, SignalSwallowed, MainTypeOK
  <2>2. CASE Tasks < MaxTasks
    <3>1. Threads' \subseteq Threads \cup {c}
          BY <1>9, <2>2 DEF SignalLost, Begin, Move, Domains
    <3> QED BY <2>1, <2>2, <3>1 DEF OneStarts
  <2>3. CASE ~ (Tasks < MaxTasks)
    <3>1. Threads' \subseteq Threads
          BY <1>9, <2>3 DEF SignalLost, DropConnection, Move, Domains, Serving
    <3> QED BY <2>1, <3>1 DEF NoneStarts
  <2> QED BY <2>2, <2>3
<1>10. ASSUME NEW c \in Conns, Serve(c) PROVE NoneStarts
  <2>1. c \in Threads /\ \A d \in Conns \ {c} : stage'[d] = stage[d]
        BY <1>10, ThreadMoves DEF Serve, Move, Domains
  <2> QED BY <1>10, <2>1 DEF Serve, mainVars, NoneStarts
<1>11. ASSUME NEW c \in Conns, ClientMoves(c) PROVE NoneStarts
      BY <1>1, <1>11 DEF ClientMoves, Send, HangUp, mainVars
<1>12. ASSUME NEW c \in Conns, NEW i \in Inputs[c], Arrive(c, i) PROVE NoneStarts
      BY <1>12 DEF Arrive, Connect, Move, Domains, Serving, mainVars, NoneStarts
<1>13. CASE UNCHANGED vars
      BY <1>1, <1>13 DEF vars, mainVars, connVars
<1> QED BY <1>2, <1>3, <1>4, <1>5, <1>6, <1>7, <1>8, <1>9, <1>10, <1>11, <1>12, <1>13
        DEF Next, Main

\* The main thread's own variables.
LEMMA MainTypes == MainTypeOK /\ [Next]_vars => MainTypeOK'
<1> SUFFICES ASSUME MainTypeOK, [Next]_vars PROVE MainTypeOK'
    OBVIOUS
<1> USE DEF MainTypeOK, Places, Looping
<1>1. ASSUME UNCHANGED mainVars PROVE MainTypeOK'
      BY <1>1 DEF mainVars
<1>2. CASE Main
      BY <1>2 DEF Main, Register, EnterLoop, TestFlag, Unwind, Select, Selected, Accept,
                  Taken, Close, ServerClose, End, DbClose
<1>3. CASE Killed
      BY <1>3 DEF Killed, KilledEarly
<1>4. ASSUME NEW s \in Signals, Signal(s) PROVE MainTypeOK'
      BY <1>4 DEF Signal, SignalStarts, SignalRaises
<1>5. ASSUME NEW s \in Signals, Stopper(s) PROVE MainTypeOK'
      BY <1>5 DEF Stopper, StopperStep, SetFlag, Released
<1>6. ASSUME NEW s \in Signals, NEW c \in Conns, SignalLost(s, c) PROVE MainTypeOK'
      BY <1>6 DEF SignalLost, SignalSwallowed
<1>7. ASSUME NEW c \in Conns,
             Serve(c) \/ ClientMoves(c) \/ \E i \in Inputs[c] : Arrive(c, i)
      PROVE  MainTypeOK'
      BY <1>1, <1>7 DEF Serve, ClientMoves, Arrive
<1>8. CASE UNCHANGED vars
      BY <1>1, <1>8 DEF vars
<1> QED BY <1>2, <1>3, <1>4, <1>5, <1>6, <1>7, <1>8 DEF Next

FewAnswers == \A c \in Conns : Len(answers[c]) <= 2

\* At most two answers: what the invariant says of each connection.
LEMMA AnswersFew == ServerInv => FewAnswers
<1> SUFFICES ASSUME ServerInv, NEW c \in Conns PROVE Len(answers[c]) <= 2
    BY DEF FewAnswers
<1> DEFINE n == Len(answers[c])
<1>1. n \in Nat /\ (n <= 1 \/ n = 2)
      BY LenProperties DEF ServerInv, ConnInv, Answered
<1> HIDE DEF n
<1>2. n <= 2
      BY <1>1
<1> QED BY <1>2 DEF n

Stages == Serving \cup Over \cup {"none", "backlog"}

\* The types of what a thread leaves behind.
LEMMA ThreadTypes ==
    ASSUME ServerInv, ServerInv', ConnTypeOK, NEW c \in Conns, ThreadStep(c)
    PROVE  ConnTypeOK'
<1>0. Domains /\ ConnInv(c) /\ UNCHANGED <<proxied, input, sent, gone>>
      BY DEF ServerInv, ThreadStep, Setup, ParseRequest, Dispatch, Allowed, Limited,
             LimiterRaises, ReadBody, Handle, client
<1>1. stage' \in [Conns -> Stages]
  <2>1. PICK to \in Serving \cup {"closed"} : stage' = [stage EXCEPT ![c] = to]
        BY ThreadMoves DEF Move
  <2> QED BY <2>1 DEF ConnTypeOK, Stages, Over
<1>2. left' \in [Conns -> Int] /\ clientIp' \in [Conns -> {"peer", "header"}]
  <2>1. ASSUME NEW n \in Int, RefuseInSetup(c, n)
        PROVE  left' \in [Conns -> Int] /\ clientIp' \in [Conns -> {"peer", "header"}]
        BY <2>1 DEF RefuseInSetup, ConnTypeOK
  <2>2. CASE Setup(c)
    <3>1. input[c].header \in Headers /\ Available(c) \in Int
      <4>1. input[c] \in Inputs[c]
            BY <1>0, <2>2 DEF Setup, ConnInv, Started
      <4> QED BY <4>1, ConnectionAssumption DEF InputOK, Available
    <3>2. ReadHeader(input[c].header, Available(c)).taken \in Int
      <4>0. PICK h \in Headers : h = input[c].header
            BY <3>1
      <4>1. PICK n \in Int : n = Available(c)
            BY <3>1
      <4>2. h.length \in Int
            BY HeaderLength
      <4>3. Wanted(h) \in Int
            BY <4>2 DEF Wanted, HdrBytes
      <4>4. ReadHeader(h, n).taken \in {n, Wanted(h)}
            BY DEF ReadHeader
      <4> QED BY <4>0, <4>1, <4>3, <4>4
    <3>3. PICK r : r = ReadHeader(input[c].header, Available(c))
          OBVIOUS
    <3>4. CASE RefuseInSetup(c, 0) \/ RefuseInSetup(c, r.taken)
          BY <2>1, <3>2, <3>3, <3>4
    <3>5. CASE UNCHANGED <<left, clientIp>>
          BY <3>5 DEF ConnTypeOK
    <3>6. CASE /\ clientIp' = [clientIp EXCEPT ![c] = "header"]
               /\ left' = [left EXCEPT ![c] = @ - r.taken]
          BY <3>2, <3>3, <3>6 DEF ConnTypeOK
    <3> QED BY <2>2, <3>3, <3>4, <3>5, <3>6 DEF Setup, ReadProxyHeader
  <2>3. CASE ~ Setup(c)
        BY <2>3 DEF ThreadStep, ParseRequest, Dispatch, Allowed, Limited,
                    LimiterRaises, ReadBody, Handle, ConnTypeOK
  <2> QED BY <2>2, <2>3
<1>3. taken' \in [Conns -> 0..MaxBody]
  <2>1. CASE ReadBody(c)
    <3>1. Passed(c) /\ input[c] \in Inputs[c]
          BY <1>0, <2>1 DEF ReadBody, ConnInv, Paid, Routed, Started
    <3>2. InputOK(input[c])
          BY <3>1, ConnectionAssumption
    <3>3. PICK got : /\ taken' = [taken EXCEPT ![c] = got]
                     /\ got = IF sent[c] = 3 THEN Smaller(WantedBody(c), input[c].body) ELSE 0
          BY <2>1 DEF ReadBody, WantedBody
    <3>4. WantedBody(c) \in 0..MaxBody /\ input[c].body \in Nat
          BY <3>1, <3>2, ConnectionAssumption DEF Passed, InputOK, WantedBody
    <3>5. got \in 0..MaxBody
          BY <3>3, <3>4, ConnectionAssumption DEF Smaller
    <3> QED BY <3>3, <3>5 DEF ConnTypeOK
  <2>2. CASE ~ ReadBody(c)
        BY <2>2 DEF ThreadStep, Setup, ParseRequest, Dispatch, Allowed, Limited,
                    LimiterRaises, Handle, ConnTypeOK
  <2> QED BY <2>1, <2>2
<1>4. \A d \in Conns : Len(answers'[d]) <= 2
  <2>1. (ServerInv => FewAnswers)'
        BY AnswersFew, PTL
  <2> QED BY <2>1 DEF FewAnswers
<1>5. /\ charged' \in [Conns -> BOOLEAN] /\ handled' \in [Conns -> BOOLEAN]
      /\ raised' \in [Conns -> BOOLEAN]
      BY DEF ServerInv, Domains
<1> QED BY <1>0, <1>1, <1>2, <1>3, <1>4, <1>5 DEF ConnTypeOK, Stages

\* Every step keeps the types of the connections.
LEMMA ConnTypes == ServerInv /\ ServerInv' /\ ConnTypeOK /\ [Next]_vars => ConnTypeOK'
<1> SUFFICES ASSUME ServerInv, ServerInv', ConnTypeOK, [Next]_vars PROVE ConnTypeOK'
    OBVIOUS
<1>0. Domains /\ Domains'
      BY DEF ServerInv
<1>1. ASSUME StagesOnly, stage' \in [Conns -> Stages] PROVE ConnTypeOK'
  <2>1. UNCHANGED <<proxied, input, sent, left, clientIp, answers, taken, charged, handled,
                    raised>>
        BY <1>1 DEF StagesOnly, record
  <2> QED BY <1>0, <1>1, <2>1 DEF ConnTypeOK, Domains, Stages
<1>2. ASSUME UNCHANGED connVars PROVE ConnTypeOK'
      BY <1>2 DEF connVars, ConnTypeOK
<1>3. CASE Main
  <2>1. ASSUME NEW c \in Conns, Accept(c) PROVE ConnTypeOK'
    <3>1. StagesOnly
          BY <1>0, <2>1, MoveIsStages DEF Accept
    <3>2. stage' \in [Conns -> Stages]
      <4>1. PICK to \in {"setup", "dropped"} : stage' = [stage EXCEPT ![c] = to]
            BY <2>1 DEF Accept, Begin, DropConnection, Move
      <4> QED BY <4>1 DEF ConnTypeOK, Stages, Serving, Over
    <3> QED BY <1>1, <3>1, <3>2
  <2>2. CASE Close
    <3>1. StagesOnly
          BY <1>0, <2>2 DEF Close, ResetBacklog, StagesOnly, Domains, client
    <3>2. stage' \in [Conns -> Stages]
          BY <2>2 DEF Close, ResetBacklog, ConnTypeOK, Stages, Over
    <3> QED BY <1>1, <3>1, <3>2
  <2>3. CASE End
    <3>1. StagesOnly
          BY <1>0, <2>3, KillIsStages DEF End
    <3>2. stage' \in [Conns -> Stages]
          BY <2>3 DEF End, KillThreads, ConnTypeOK, Stages, Over
    <3> QED BY <1>1, <3>1, <3>2
  <2> QED BY <1>2, <1>3, <2>1, <2>2, <2>3 DEF Main, Select
<1>4. CASE Killed
  <2>1. StagesOnly
        BY <1>0, <1>4, KillIsStages DEF Killed
  <2>2. stage' \in [Conns -> Stages]
        BY <1>4 DEF Killed, KillThreads, ConnTypeOK, Stages, Over
  <2> QED BY <1>1, <2>1, <2>2
<1>5. ASSUME NEW s \in Signals, Signal(s) PROVE ConnTypeOK'
  <2>1. CASE main' = "ended"
    <3>1. StagesOnly
          BY <1>0, <1>5, <2>1, KillIsStages DEF Signal
    <3>2. stage' \in [Conns -> Stages]
          BY <1>5, <2>1 DEF Signal, KillThreads, ConnTypeOK, Stages, Over
    <3> QED BY <1>1, <3>1, <3>2
  <2>2. CASE main' # "ended"
        BY <1>2, <1>5, <2>2 DEF Signal, connVars, client, record
  <2> QED BY <2>1, <2>2
<1>6. ASSUME NEW s \in Signals, Stopper(s) PROVE ConnTypeOK'
      BY <1>2, <1>6 DEF Stopper
<1>7. ASSUME NEW s \in Signals, NEW c \in Conns, SignalLost(s, c) PROVE ConnTypeOK'
  <2>1. StagesOnly
        BY <1>0, <1>7 DEF SignalLost, Begin, DropConnection, Move, StagesOnly, Domains
  <2>2. stage' \in [Conns -> Stages]
    <3>1. PICK to \in {"setup", "dropped"} : stage' = [stage EXCEPT ![c] = to]
          BY <1>7 DEF SignalLost, Begin, DropConnection, Move
    <3> QED BY <3>1 DEF ConnTypeOK, Stages, Serving, Over
  <2> QED BY <1>1, <2>1, <2>2
<1>8. ASSUME NEW c \in Conns, Serve(c) PROVE ConnTypeOK'
      BY <1>8, ThreadTypes DEF Serve
<1>9. ASSUME NEW c \in Conns, ClientMoves(c) PROVE ConnTypeOK'
  <2>1. UNCHANGED <<proxied, stage, input, left, clientIp, answers, taken, charged, handled,
                    raised>>
        BY <1>9 DEF ClientMoves, Send, HangUp, record
  <2>2. sent' \in [Conns -> 0..3]
    <3>1. CASE Send(c)
      <4>1. sent' = [sent EXCEPT ![c] = sent[c] + 1] /\ sent[c] < Pieces(input[c])
            BY <3>1 DEF Send
      <4>2. PICK n \in 0..3, p \in {2, 3} : n = sent[c] /\ p = Pieces(input[c])
            BY DEF Pieces, ConnTypeOK
      <4>3. sent[c] + 1 \in 0..3
            BY <4>1, <4>2
      <4> QED BY <4>1, <4>3 DEF ConnTypeOK
    <3>2. CASE HangUp(c)
          BY <3>2 DEF HangUp, ConnTypeOK
    <3> QED BY <1>9, <3>1, <3>2 DEF ClientMoves
  <2> QED BY <1>0, <2>1, <2>2 DEF ConnTypeOK, Domains
<1>10. ASSUME NEW c \in Conns, NEW i \in Inputs[c], Arrive(c, i) PROVE ConnTypeOK'
  <2>1. UNCHANGED <<proxied, gone, clientIp, answers, taken, charged, handled, raised>>
        BY <1>10 DEF Arrive, Connect, record
  <2>2. i.size \in Int
        BY ConnectionAssumption DEF InputOK
  <2>3. /\ stage' \in [Conns -> Stages] /\ sent' \in [Conns -> 0..3]
        /\ left' \in [Conns -> Int]
        BY <1>10, <2>2 DEF Arrive, Connect, Move, ConnTypeOK, Stages
  <2>4. \A d \in Conns : input'[d] \in Inputs[d] \cup {NoInput}
        BY <1>0, <1>10 DEF Arrive, Connect, ConnTypeOK, Domains
  <2> QED BY <2>1, <2>3, <2>4 DEF ConnTypeOK, Stages
<1>11. CASE UNCHANGED vars
      BY <1>2, <1>11 DEF vars, connVars
<1> QED BY <1>3, <1>4, <1>5, <1>6, <1>7, <1>8, <1>9, <1>10, <1>11 DEF Next

\* The initial state: no thread but the main one.
LEMMA TypesInit == Init => TypeOK /\ TasksInv
<1> SUFFICES ASSUME Init PROVE TypeOK /\ TasksInv
    OBVIOUS
<1>1. MainTypeOK
      BY DEF Init, MainInit, MainTypeOK, Places, Looping
<1>2. \A c \in Conns : Len(answers[c]) <= 2
      BY DEF Init, ConnInit
<1>3. ConnTypeOK
      BY <1>2, ConnectionAssumption DEF Init, ConnInit, ConnTypeOK, Serving, Over
<1>4. Threads = {} /\ StopperTasks = {}
      BY DEF Init, MainInit, ConnInit, Threads, StopperTasks, Serving
<1>5. /\ IsFiniteSet({}) /\ Cardinality({}) = 0
      BY FS_EmptySet
<1>6. TasksInv
      BY <1>4, <1>5, ServerAssumption DEF TasksInv, Tasks
<1> QED BY <1>1, <1>3, <1>6 DEF TypeOK, TasksInv

\* The variables keep their types, and the process its limit of tasks, however
\* connections and signals contend for the last one.
THEOREM ServerTypeCorrect == Spec => []TypeOK
<1>1. TypeOK /\ TasksInv /\ ServerInv /\ [Next]_vars => TypeOK' /\ TasksInv' /\ ServerInv'
  <2> SUFFICES ASSUME TypeOK, TasksInv, ServerInv, [Next]_vars
               PROVE  TypeOK' /\ TasksInv' /\ ServerInv'
      OBVIOUS
  <2>1. ServerInv'
        BY NextInv
  <2>2. MainTypeOK' /\ ConnTypeOK'
        BY <2>1, MainTypes, ConnTypes DEF TypeOK
  <2>3. TasksInv'
        BY WhoStarts, TasksKept DEF TypeOK, ServerInv
  <2> QED BY <2>1, <2>2, <2>3 DEF TypeOK, TasksInv
<1> QED BY <1>1, TypesInit, InitInv, PTL DEF Spec
=============================================================================
