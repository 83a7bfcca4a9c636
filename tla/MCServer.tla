------------------------------ MODULE MCServer ------------------------------
(***************************************************************************)
(* A small instance of Server: what its clients send.                      *)
(***************************************************************************)
EXTENDS Server, TLC

CONSTANTS c1, c2

Proxy(length) == [signature |-> TRUE, version |-> 2, command |-> 1, family |-> 17,
                  length |-> length]
Local == [Proxy(12) EXCEPT !.command = 0]
NoHeader == [signature |-> FALSE, version |-> 0, command |-> 0, family |-> 0, length |-> 0]

NoEnvelope == [magic |-> FALSE, meta |-> 0, model |-> 0, thumb |-> 0, json |-> "malformed"]
Whole2 == [magic |-> TRUE, meta |-> 1, model |-> 2, thumb |-> 1, json |-> "fine"]

Get == [peer |-> "trusted", size |-> 28, header |-> Proxy(12), line |-> "request",
        method |-> "GET", route |-> "other", declares |-> "none", declared |-> 0, body |-> 0,
        envelope |-> NoEnvelope]

Upload(size, envelope) ==
    [Get EXCEPT !.method = "POST", !.route = "upload", !.declares = "number",
                !.declared = size, !.body = size, !.envelope = envelope]

Plain(i) == [i EXCEPT !.size = 0, !.header = NoHeader]

\* Requests with a good header, with and without TLVs; a plain one from
\* either peer; and a LOCAL header, of which setup takes the first part only.
Fronts == {Get, [Get EXCEPT !.size = 32, !.header = Proxy(16)],
           Plain(Get), [Plain(Get) EXCEPT !.peer = "other"],
           [Get EXCEPT !.header = Local]}

\* Uploads: whole, cut short, cut by their Content-Length, over the ceiling,
\* one that raises, and one to no route.
Bodies == {Upload(20, Whole2), [Upload(20, Whole2) EXCEPT !.body = 19],
           [Upload(19, Whole2) EXCEPT !.body = 20],
           Upload(25, [Whole2 EXCEPT !.model = 7]),
           Upload(20, [Whole2 EXCEPT !.json = "unhashable"]),
           [Upload(20, Whole2) EXCEPT !.route = "none"]}

Lines == {[Get EXCEPT !.line = l] : l \in {"blank", "spaces", "long", "unsplit"}}

\* One client sends any of them; the other contends for threads and limiter.
Mix == c1 :> Fronts \cup Bodies \cup Lines @@ c2 :> {Get}
=============================================================================
