------------------------------ MODULE Envelope ------------------------------
(***************************************************************************)
(* parse_upload: the lengths an upload declares against the body that      *)
(* came, and the ranges that are stored.  A body is its size and what its  *)
(* header and its metadata say; the bytes themselves are left out.         *)
(*   json: "fine"; "malformed", anything parse_upload turns into an        *)
(*   EnvelopeError (JSON, kind, title); "unhashable", a kind that is a     *)
(*   list or an object, which `kind not in VALID_KINDS` cannot look up.    *)
(***************************************************************************)
EXTENDS Integers

CONSTANTS MaxMeta,   \* MAX_META_BYTES
          MaxModel,  \* cfg.max_model_bytes
          MaxThumb   \* cfg.max_thumb_bytes

EnvelopeBytes == 16  \* HEADER_BYTES

Smaller(x, y) == IF x <= y THEN x ELSE y

\* body[from:to], as Python clips it.
Slice(body, from, to) == [from |-> Smaller(from, body.size), to |-> Smaller(to, body.size)]

Declared(body) == EnvelopeBytes + body.meta + body.model + body.thumb

\* Plausible bug, for a mutant: the sum is not compared with the body.
LengthsAgreeNoSum(body) ==
    /\ body.size >= EnvelopeBytes
    /\ body.magic
    /\ body.meta <= MaxMeta /\ body.model <= MaxModel /\ body.thumb <= MaxThumb

LengthsAgree(body) ==
    /\ body.size >= EnvelopeBytes
    /\ body.magic
    /\ body.meta <= MaxMeta /\ body.model <= MaxModel /\ body.thumb <= MaxThumb
    /\ body.size = Declared(body)

NoParts == [model |-> [from |-> 0, to |-> 0], thumb |-> [from |-> 0, to |-> 0]]

Parts(body) ==
    LET modelStart == EnvelopeBytes + body.meta
        thumbStart == modelStart + body.model
    IN  [model |-> Slice(body, modelStart, thumbStart),
         thumb |-> Slice(body, thumbStart, body.size)]

\* "envelope", "bad_envelope" (EnvelopeError), or "raises" anything else.
Verdict(body) ==
    IF ~ LengthsAgree(body) \/ body.json = "malformed" THEN "bad_envelope"
    ELSE IF body.json = "unhashable" THEN "raises"
    ELSE IF body.model = 0 \/ body.thumb = 0 THEN "bad_envelope"
    ELSE "envelope"

\* What a parsed envelope is worth: the stored ranges are as long as declared,
\* do not overlap, and the thumbnail ends with the body.
AsDeclared(body, parts) ==
    /\ parts.model.to - parts.model.from = body.model
    /\ parts.thumb.to - parts.thumb.from = body.thumb
    /\ parts.model.from = EnvelopeBytes + body.meta
    /\ parts.model.to = parts.thumb.from
    /\ parts.thumb.to = body.size
    /\ body.model > 0 /\ body.thumb > 0
=============================================================================
