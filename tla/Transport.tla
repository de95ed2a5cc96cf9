------------------------------ MODULE Transport ------------------------------
(***************************************************************************)
(* The network below the MQTT client: opening and closing a connection     *)
(* over TCP or TLS, and sending a packet over it, which a socket may take   *)
(* in parts (network_socket.c, network_tls.c, HAL_TCP_lwip.c,              *)
(* HAL_TLS_mbedtls.c, send_mqtt_packet).                                   *)
(***************************************************************************)
EXTENDS Naturals, Sequences, SequencesExt

CONSTANTS
    Sockets,    \* bound: sockets of lwIP, numbers from 0
    PacketLength,     \* bytes of the packet; write_buf goes on behind it
    MaxSends,   \* bound: packets that are sent
    Null

VARIABLES
    ntTls,      \* the build uses TLS
    ntHandle,   \* handle of the network: 0 when there is no connection
    ntSockets,  \* the sockets that are open
    ntMemory,   \* a TLSDataParams is allocated
    ntCall,     \* send_mqtt_packet: [sent, off, last], the write under way having sent off bytes,
                \* the last of them at once; or Null
    ntWire,     \* history: the bytes of write_buf on the wire, by their position
    ntResult,   \* of the last call: "success" or "failure", or Null
    ntPartial,  \* history: a write of this packet returned success for a part of what it was given
    ntLost,     \* history: shutdown failed and the socket was not closed
    ntSends     \* packets sent so far

vars == <<ntTls, ntHandle, ntSockets, ntMemory, ntCall, ntWire, ntResult, ntPartial, ntLost, ntSends>>
openVars == <<ntTls, ntHandle, ntSockets, ntMemory, ntLost>>
-----------------------------------------------------------------------------
Shift == 3                     \* LWIP_SOCKET_FD_SHIFT: a handle is never 0
Free == Sockets \ ntSockets
HandleOf(fd) == fd + Shift

\* The first socket that is free is taken.
Opened ==
    \E fd \in Free :
        /\ \A other \in Free : fd <= other
        /\ ntHandle' = HandleOf(fd)
        /\ ntSockets' = ntSockets \cup {fd}

(* HAL_TCP_Connect: each address of the host in turn; a socket that cannot be   *)
(* connected is closed. network_tcp_connect keeps what it returns.              *)
TcpConnect(outcomes) ==
    /\ ~ntTls /\ ntHandle = 0 /\ ntCall = Null
    /\ IF "connected" \in ToSet(outcomes)
       THEN Opened
       ELSE UNCHANGED <<ntHandle, ntSockets>>
    /\ UNCHANGED <<ntTls, ntMemory, ntCall, ntWire, ntResult, ntPartial, ntLost, ntSends>>

(* HAL_TLS_Connect: whatever fails behind the allocation, all of it is freed;   *)
(* the handle is the address of the TLSDataParams.                              *)
TlsConnect(works) ==
    /\ ntTls /\ ntHandle = 0 /\ ntCall = Null
    /\ IF works
       THEN Opened /\ ntMemory' = TRUE
       ELSE UNCHANGED <<ntHandle, ntSockets, ntMemory>>
    /\ UNCHANGED <<ntTls, ntCall, ntWire, ntResult, ntPartial, ntLost, ntSends>>

(* network_tcp_disconnect, HAL_TCP_Disconnect: a socket that cannot be shut down *)
(* stays open, and the handle is given up.                                       *)
TcpDisconnect(shut) ==
    /\ ~ntTls /\ ntHandle # 0 /\ ntCall = Null
    /\ ntSockets' = IF shut THEN ntSockets \ {ntHandle - Shift} ELSE ntSockets
    /\ ntLost' = (ntLost \/ ~shut)
    /\ ntHandle' = 0
    /\ UNCHANGED <<ntTls, ntMemory, ntCall, ntWire, ntResult, ntPartial, ntSends>>

(* network_tls_disconnect, HAL_TLS_Disconnect                                   *)
TlsDisconnect ==
    /\ ntTls /\ ntHandle # 0 /\ ntCall = Null
    /\ ntSockets' = ntSockets \ {ntHandle - Shift}
    /\ ntMemory' = FALSE
    /\ ntHandle' = 0
    /\ UNCHANGED <<ntTls, ntCall, ntWire, ntResult, ntPartial, ntLost, ntSends>>
-----------------------------------------------------------------------------
(* send_mqtt_packet: the call, on a connection. A timer that has run out already *)
(* ends it at once.                                                              *)
Begun(sent) == [sent |-> sent, off |-> 0, last |-> 0]
SendPacket ==
    /\ ntHandle # 0 /\ ntCall = Null /\ ntSends < MaxSends
    /\ ntWire' = <<>> /\ ntPartial' = FALSE
    /\ ntSends' = ntSends + 1
    /\ \/ ntCall' = Begun(0) /\ ntResult' = Null
       \/ ntCall' = Null /\ ntResult' = "failure"
    /\ UNCHANGED openVars

\* Each write is given the whole length, however much was sent before.
Left == PacketLength - ntCall.off

(* HAL_TCP_Write, HAL_TLS_Write: the socket takes some bytes.                    *)
Took(n) ==
    LET at == ntCall.sent + ntCall.off
    IN  ntWire' = ntWire \o [i \in 1 .. n |-> at + i]

\* The write returns: an error ends the call; else the next one goes on behind what was
\* sent, unless that is enough or the timer has run out.
WriteFails ==
    /\ ntCall' = Null /\ ntResult' = "failure"
    /\ UNCHANGED ntPartial

WriteReturns(written) ==
    LET sent == ntCall.sent + written
    IN  /\ ntPartial' = (ntPartial \/ written < PacketLength)
        /\ \/ /\ sent < PacketLength
              /\ ntCall' = Begun(sent)
              /\ UNCHANGED ntResult
           \/ ntCall' = Null /\ ntResult' = "success"

WriteSome(n) ==
    /\ ntCall # Null /\ n <= Left
    /\ Took(n)
    /\ IF n = Left THEN WriteReturns(PacketLength)
       ELSE ntCall' = [ntCall EXCEPT !.off = @ + n, !.last = n] /\ UNCHANGED <<ntResult, ntPartial>>
    /\ UNCHANGED <<openVars, ntSends>>

\* The socket takes nothing until the timer runs out, or breaks: over TCP that is an error
\* only when nothing was sent in this write, over TLS always.
WriteStops ==
    /\ ntCall # Null
    /\ IF ntCall.off > 0 /\ ~ntTls THEN WriteReturns(ntCall.off) ELSE WriteFails
    /\ UNCHANGED <<openVars, ntWire, ntSends>>

(* HAL_TLS_Write: the timer runs out between its two checks, and the number of the bytes   *)
(* sent last is added once more. When the sum is the length, the write was a success.      *)
WriteCountsTwice ==
    /\ ntCall # Null /\ ntTls /\ ntCall.last > 0
    /\ IF ntCall.off + ntCall.last = PacketLength
       THEN ntCall' = Null /\ ntResult' = "success" /\ ntPartial' = TRUE
       ELSE WriteFails
    /\ UNCHANGED <<openVars, ntWire, ntSends>>

Outcomes == [1 .. 2 -> {"no socket", "refused", "connected"}]

Init ==
    /\ ntTls \in BOOLEAN
    /\ ntHandle = 0 /\ ntSockets = {} /\ ntMemory = FALSE
    /\ ntCall = Null /\ ntWire = <<>> /\ ntResult = Null
    /\ ntPartial = FALSE /\ ntLost = FALSE /\ ntSends = 0

Next ==
    \/ \E outcomes \in Outcomes : TcpConnect(outcomes)
    \/ \E works \in BOOLEAN : TlsConnect(works)
    \/ \E shut \in BOOLEAN : TcpDisconnect(shut)
    \/ TlsDisconnect
    \/ SendPacket
    \/ \E n \in 1 .. PacketLength : WriteSome(n)
    \/ WriteStops \/ WriteCountsTwice

Spec == Init /\ [][Next]_vars /\ WF_vars(WriteStops)
-----------------------------------------------------------------------------
TypeOK == ntHandle \in {0} \cup {HandleOf(fd) : fd \in Sockets} /\ ntSockets \subseteq Sockets

\* The bytes of the packet are on the wire in order, each once, however the socket cuts
\* them; a call that returns success has sent all of them and no more, unless a write took a
\* part and reported success: over TCP the next one is given too much, or the rest is never
\* sent, over TLS a part was counted twice (send_mqtt_packet, HAL_TLS_Write).
WireIsPacket ==
    /\ ntWire = [i \in DOMAIN ntWire |-> i]
    /\ ntResult = "success" /\ ~ntPartial => Len(ntWire) = PacketLength
    /\ ntTls /\ ntPartial => Len(ntWire) < PacketLength

\* A connection holds one socket and no other is open, nor any memory of TLS, unless a
\* socket could not be shut down (HAL_TCP_Disconnect).
OneSocket ==
    /\ ~ntLost => ntSockets = {fd \in Sockets : ntHandle = HandleOf(fd)}
    /\ ntMemory = (ntTls /\ ntHandle # 0)

\* Sending a packet returns: its timer runs out.
SendReturns == ntCall # Null ~> ntCall = Null
=============================================================================
