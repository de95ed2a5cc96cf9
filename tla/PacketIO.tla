------------------------------- MODULE PacketIO -------------------------------
(***************************************************************************)
(* The reading of MQTT packets from the TCP stream (mqtt_client_common.c,  *)
(* _read_mqtt_packet, over HAL_TCP_lwip.c): the first byte of a header,    *)
(* the remaining length, then as many bytes, each by a read that waits for *)
(* all it was asked for and returns an error when they do not come in      *)
(* time.  Packets that do not fit the read buffer are read and dropped.    *)
(* The length is one byte here.  Each read is a step; what it returns      *)
(* decides, with the list of codes in qcloud_iot_mqtt_yield, whether the   *)
(* connection is given up.                                                 *)
(***************************************************************************)
EXTENDS Naturals, Sequences, SequencesExt

CONSTANTS
    Lengths,    \* remaining lengths of the packets of the broker
    BufSize,    \* read_buf_size
    MaxPackets, \* bound: packets of the broker
    MaxStalls,  \* bound: reads that end before all bytes have come
    Null

VARIABLES
    pkWire,    \* the stream: bytes, each with the packet and the position it comes from
    pkSent,    \* the lengths of the packets sent
    pkPhase,   \* the read that comes next: "header", "length", "rest", "drop", or "down"
    pkHeader,  \* the byte that was read as a header
    pkLeft,    \* bytes still to read
    pkHandled, \* history: the packets handled
    pkStalls,  \* history: reads that stalled
    pkTorn     \* history: one of them has left a part of a packet on this connection

pkVars == <<pkWire, pkSent, pkPhase, pkHeader, pkLeft, pkHandled, pkStalls, pkTorn>>

Init ==
    /\ pkWire = <<>>
    /\ pkSent = <<>>
    /\ pkPhase = "header"
    /\ pkHeader = Null
    /\ pkLeft = 0
    /\ pkHandled = <<>>
    /\ pkStalls = 0
    /\ pkTorn = FALSE

-----------------------------------------------------------------------------
Packet(n, length) == [i \in 1 .. length + 2 |-> [packet |-> n, at |-> i]]

BrokerSends(length) ==
    /\ pkPhase # "down" /\ Len(pkSent) < MaxPackets
    /\ pkSent' = Append(pkSent, length)
    /\ pkWire' = pkWire \o Packet(Len(pkSent'), length)
    /\ UNCHANGED <<pkPhase, pkHeader, pkLeft, pkHandled, pkStalls, pkTorn>>

\* A connection that is closed by the broker, or given up, takes what is on its way along.
Breaks ==
    /\ pkPhase # "down"
    /\ pkPhase' = "down"
    /\ pkWire' = <<>>
    /\ UNCHANGED <<pkSent, pkHeader, pkLeft, pkHandled, pkStalls, pkTorn>>

Reconnect ==
    /\ pkPhase = "down"
    /\ pkPhase' = "header"
    /\ pkTorn' = FALSE
    /\ UNCHANGED <<pkWire, pkSent, pkHeader, pkLeft, pkHandled, pkStalls>>

-----------------------------------------------------------------------------
ReadHeader ==
    /\ pkPhase = "header" /\ pkWire # <<>>
    /\ pkHeader' = Head(pkWire)
    /\ pkWire' = Tail(pkWire)
    /\ pkPhase' = "length"
    /\ UNCHANGED <<pkSent, pkLeft, pkHandled, pkStalls, pkTorn>>

\* What the byte says when it is taken for a length.
LengthsOf(byte) == IF byte.at = 2 THEN {pkSent[byte.packet]} ELSE Lengths

Fits(length) == length + 2 <= BufSize

ReadLength ==
    /\ pkPhase = "length" /\ pkWire # <<>>
    /\ \E length \in LengthsOf(Head(pkWire)) :
          /\ pkLeft' = length
          /\ pkPhase' = IF Fits(length) THEN "rest" ELSE "drop"
    /\ pkWire' = Tail(pkWire)
    /\ UNCHANGED <<pkSent, pkHeader, pkHandled, pkStalls, pkTorn>>

ReadRest ==
    /\ pkPhase = "rest" /\ Len(pkWire) >= pkLeft
    /\ pkHandled' = Append(pkHandled, [header |-> pkHeader, torn |-> pkTorn,
                                      rest |-> SubSeq(pkWire, 1, pkLeft)])
    /\ pkWire' = SubSeq(pkWire, pkLeft + 1, Len(pkWire))
    /\ pkPhase' = "header"
    /\ UNCHANGED <<pkSent, pkHeader, pkLeft, pkStalls, pkTorn>>

\* A packet that is longer than the buffer is dropped in parts of at most its size.
Part(left) == IF left >= BufSize THEN BufSize ELSE left

ReadPart ==
    /\ pkPhase = "drop" /\ Len(pkWire) >= Part(pkLeft)
    /\ pkWire' = SubSeq(pkWire, Part(pkLeft) + 1, Len(pkWire))
    /\ pkLeft' = IF Part(pkLeft) < pkLeft THEN pkLeft - Part(pkLeft) ELSE 0
    /\ pkPhase' = IF Part(pkLeft) < pkLeft THEN "drop" ELSE "header"
    /\ UNCHANGED <<pkSent, pkHeader, pkHandled, pkStalls, pkTorn>>

\* The bytes do not come in time: those that did are gone, and the error that is returned
\* is not among those for which the connection is given up, QCLOUD_ERR_TCP_READ_TIMEOUT
\* after some bytes, QCLOUD_ERR_TCP_NOTHING_TO_READ or QCLOUD_ERR_FAILURE after none.
ReadStalls(n) ==
    /\ pkStalls < MaxStalls
    /\ \/ pkPhase = "length" /\ n = 0
       \/ pkPhase = "rest" /\ n < pkLeft
       \/ pkPhase = "drop" /\ n < Part(pkLeft)
    /\ pkWire' = SubSeq(pkWire, n + 1, Len(pkWire))
    /\ pkPhase' = "header"
    /\ pkStalls' = pkStalls + 1
    /\ pkTorn' = TRUE
    /\ UNCHANGED <<pkSent, pkHeader, pkLeft, pkHandled>>

-----------------------------------------------------------------------------
Next ==
    \/ \E length \in Lengths : BrokerSends(length)
    \/ Breaks \/ Reconnect
    \/ ReadHeader \/ ReadLength \/ ReadRest \/ ReadPart
    \/ \E n \in 0 .. Len(pkWire) : ReadStalls(n)

Spec == Init /\ [][Next]_pkVars
-----------------------------------------------------------------------------
\* The ranges of the variables.
TypeOK ==
    /\ Len(pkSent) <= MaxPackets
    /\ pkPhase \in {"header", "length", "rest", "drop", "down"}
    /\ pkStalls \in 0 .. MaxStalls /\ pkTorn \in BOOLEAN

\* Until a read has stalled on a connection, every packet is handled whole, with the header
\* it came with, and in order, whatever lengths came before: also after packets that were
\* too long, and after a reconnect.
PacketsWhole ==
    \A i \in DOMAIN pkHandled : ~pkHandled[i].torn =>
        LET h == pkHandled[i].header
        IN  /\ <<h, [h EXCEPT !.at = 2]>> \o pkHandled[i].rest = Packet(h.packet, pkSent[h.packet])
            /\ \A j \in 1 .. i - 1 :
                   ~pkHandled[j].torn => pkHandled[j].header.packet < h.packet

\* "read 1st byte in fixed header": the byte taken for a header is one.
HeaderIsHeader == pkPhase = "length" => pkHeader.at = 1
=============================================================================
