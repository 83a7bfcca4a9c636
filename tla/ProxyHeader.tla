---------------------------- MODULE ProxyHeader ----------------------------
(***************************************************************************)
(* read_ppv2_header: how many bytes of the stream it takes and whether it  *)
(* accepts them.  A header is what the first sixteen bytes say: whether    *)
(* they begin with the signature, and the fields after it.  Addresses and  *)
(* ports are left out.                                                     *)
(***************************************************************************)
EXTENDS Integers

HdrBytes == 16       \* PPV2_HDR_BYTES
InetBytes == 12      \* PPV2_INET_BYTES
MaxAddrBlock == 536  \* _MAX_ADDR_BLOCK

Nibble == 0..15
Byte == 0..255
Word == 0..65535

Headers == [signature : BOOLEAN, version : Nibble, command : Nibble, family : Byte,
            length : Word]

\* Plausible bug, for a mutant: LOCAL counts as PROXY.
SupportedAnyCommand(h) ==
    /\ h.signature
    /\ h.version = 2
    /\ h.family = 17
    /\ InetBytes <= h.length /\ h.length <= MaxAddrBlock

Supported(h) ==
    /\ h.signature
    /\ h.version = 2
    /\ h.command = 1
    /\ h.family = 17
    /\ InetBytes <= h.length /\ h.length <= MaxAddrBlock

\* The bytes it waits for; fewer than that is the end of the stream.
Wanted(h) == IF Supported(h) THEN HdrBytes + h.length ELSE HdrBytes

ReadHeader(h, available) ==
    IF available < HdrBytes
    THEN [ok |-> FALSE, taken |-> available]
    ELSE IF available < Wanted(h)
    THEN [ok |-> FALSE, taken |-> available]
    ELSE [ok |-> Supported(h), taken |-> Wanted(h)]
=============================================================================
