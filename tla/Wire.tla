--------------------------------- MODULE Wire ---------------------------------
(***************************************************************************)
(* The packet codec: header and options (internal/dhcp/packet.go,          *)
(* options.go).  A packet under way is kept as a record with its options   *)
(* as a map; Serialize gives every byte string that map may be sent as,    *)
(* since it ranges over a Go map, and a receiver reads one of them with    *)
(* ParseOptions.  Bytes are numbers below Base, 256 in the code, and an    *)
(* address has two of them, network and host, in place of four.            *)
(***************************************************************************)
EXTENDS Naturals, SequencesExt

CONSTANTS Base,        \* the number of values of a byte
          Nil          \* the value of an option that is absent

\* Codes and types are bytes; End is the last one.
Bytes == 0 .. Base - 1

ASSUME WireAssumption ==
    /\ Base \in Nat /\ Base > 7
    /\ \A S \in SUBSET Bytes : Nil \notin [S -> Seq(Bytes)]

OptPad         == 0
OptRequestedIP == 1
OptMsgType     == 2
OptServerID    == 3
OptDNS         == 4
OptEnd         == Base - 1

MsgDiscover == 1
MsgOffer    == 2
MsgRequest  == 3
MsgAck      == 4
MsgNak      == 5
MsgRelease  == 6
MsgInform   == 7

Zero == <<0, 0>>
isZero(ip) == ip = Zero

\* One option on the wire: code, length in a single byte, value.
Field(o, code) == <<code, Len(o[code]) % Base>> \o o[code]

\* Options.Serialize, in each order the map may be walked in.
Serialize(o) ==
    {FlattenSeq([i \in DOMAIN order |-> Field(o, order[i])]) \o <<OptEnd>> :
        order \in SetToSeqs(DOMAIN o)}

\* An option put before those that follow it, which count if they have its code.
WithOption(rest, code, value) ==
    [c \in DOMAIN rest \cup {code} |-> IF c \in DOMAIN rest THEN rest[c] ELSE value]

\* Faulty: the length of an option is not skipped.
ParseOptionsShort(data) ==
    LET From[i \in Nat] ==
          IF i > Len(data) THEN <<>>
          ELSE IF data[i] = OptPad THEN From[i + 1]
          ELSE IF data[i] = OptEnd THEN <<>>
          ELSE IF i + 1 > Len(data) \/ i + 1 + data[i + 1] > Len(data) THEN Nil
          ELSE LET rest == From[i + 1 + data[i + 1]] IN
               IF rest = Nil THEN Nil
               ELSE WithOption(rest, data[i], SubSeq(data, i + 2, i + 1 + data[i + 1]))
    IN From[1]

\* ParseOptions, from byte i on: pads are skipped, End stops, a later option
\* replaces an earlier one, and a length beyond the data is an error.
ParseOptions(data) ==
    LET From[i \in Nat] ==
          IF i > Len(data) THEN <<>>
          ELSE IF data[i] = OptPad THEN From[i + 1]
          ELSE IF data[i] = OptEnd THEN <<>>
          ELSE IF i + 1 > Len(data) \/ i + 1 + data[i + 1] > Len(data) THEN Nil
          ELSE LET rest == From[i + 2 + data[i + 1]] IN
               IF rest = Nil THEN Nil
               ELSE WithOption(rest, data[i], SubSeq(data, i + 2, i + 1 + data[i + 1]))
    IN From[1]

\* What is read of options that Serialize has written, in one order or another.
Readings(o) == {ParseOptions(bytes) : bytes \in Serialize(o)}

\* The accessors of Options.
MsgType(o) == IF OptMsgType \in DOMAIN o /\ Len(o[OptMsgType]) > 0
              THEN o[OptMsgType][1] ELSE Nil

\* net.IP.To4 refuses a value of any other length.
AddressIn(o, code) == IF code \in DOMAIN o /\ Len(o[code]) = 2 THEN o[code] ELSE Nil

ServerID(o)    == AddressIn(o, OptServerID)
RequestedIP(o) == AddressIn(o, OptRequestedIP)

=============================================================================
