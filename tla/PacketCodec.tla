----------------------------- MODULE PacketCodec -----------------------------
(***************************************************************************)
(* The MQTT packets as bytes: how the client lays one out in its write     *)
(* buffer and how it reads one from its read buffer, where the bytes of    *)
(* earlier packets lie behind those of the last (mqtt_client_common.c,     *)
(* mqtt_client_connect.c, _publish.c, _subscribe.c, _unsubscribe.c).       *)
(* The client computes the remaining length of a packet apart from writing *)
(* it, so that the two may disagree.                                       *)
(***************************************************************************)
EXTENDS Naturals, Sequences, SequencesExt

CONSTANTS
    Base,        \* digits of a remaining length, 128 in the code; a byte has twice as many values
    TxSize,      \* bytes of write_buf, QCLOUD_IOT_MQTT_TX_BUF_LEN
    RxSize,      \* bytes of read_buf, QCLOUD_IOT_MQTT_RX_BUF_LEN
    TopicLens,   \* bound: lengths of a topic
    DataLens,    \* bound: lengths of a payload
    PasswordLens,\* bound: lengths of the password, 0 in a build without one
    MaxRead,     \* bound: packets that are read
    Null

VARIABLES
    cdWritten,   \* the packet that was serialized: [packet, bytes], or Null; the buffer it is
                 \* written to is overwritten from its start each time, so that one is enough
    cdReadBuf,   \* read_buf
    cdRead,      \* the last packet that was read: [packet, fields], or Null
    cdReads      \* number of packets read

vars == <<cdWritten, cdReadBuf, cdRead, cdReads>>
-----------------------------------------------------------------------------
Byte == 0 .. 2 * Base - 1
Ids == {1, 2 * Base}              \* a packet id of one byte and one of two
Text(n) == [i \in 1 .. n |-> i % (2 * Base)]

(* mqtt_init_packet_header: the fields that the first byte holds *)
Header(type, dup, qos, retained) ==
    [type |-> type, dup |-> dup, qos |-> qos, retained |-> retained]

(* mqtt_write_packet_rem_len *)
RemLen[n \in Nat] ==
    IF n < Base THEN <<n>> ELSE <<(n % Base) + Base>> \o RemLen[n \div Base]

(* get_mqtt_packet_len: the header is counted before the length is measured, *)
(* and the last limit is one too small.                                      *)
PacketLen(remLen) ==
    LET n == remLen + 1
    IN  CASE n < Base                   -> n + 1
          [] n < Base * Base            -> n + 2
          [] n < Base * Base * Base - 1 -> n + 3
          [] OTHER                      -> n + 4

(* mqtt_write_uint_16, mqtt_write_utf8_string *)
Word(n) == <<n \div (2 * Base), n % (2 * Base)>>
Utf8(s) == Word(Len(s)) \o s

\* What the client writes: a packet and the fields it carries.
Publishes == [type : {"PUBLISH"}, qos : {0}, retained : {0}, topic : {Text(n) : n \in TopicLens},
              data : {Text(n) : n \in DataLens}]
             \cup [type : {"PUBLISH"}, qos : {1}, retained : {0, 1}, id : Ids,
                   topic : {Text(n) : n \in TopicLens}, data : {Text(n) : n \in DataLens}]
Subscribes   == [type : {"SUBSCRIBE"}, id : Ids, topic : {Text(n) : n \in TopicLens}, qos : {0, 1}]
Unsubscribes == [type : {"UNSUBSCRIBE"}, id : Ids, topic : {Text(n) : n \in TopicLens}]
Acks         == [type : {"PUBACK", "PUBREC", "PUBREL"}, id : Ids]
Connects     == [type : {"CONNECT"}, clean : {0, 1}, keepAlive : Ids,
                 client : {Text(n) : n \in TopicLens}, user : {Text(n) : n \in DataLens \ {0}},
                 password : {Text(n) : n \in PasswordLens}]
Empties      == [type : {"PINGREQ", "DISCONNECT"}]

(* _get_packet_connect_rem_len of version 4, _get_publish_packet_len,        *)
(* _get_subscribe_packet_rem_len, _get_unsubscribe_packet_rem_len            *)
RemLenOf(p) ==
    CASE p.type = "PUBLISH"     -> 2 + Len(p.topic) + Len(p.data) + (IF p.qos > 0 THEN 2 ELSE 0)
      [] p.type = "SUBSCRIBE"   -> 2 + 2 + Len(p.topic) + 1
      [] p.type = "UNSUBSCRIBE" -> 2 + 2 + Len(p.topic)
      [] p.type = "CONNECT"     -> 10 + Len(p.client) + 2 + Len(p.user) + 2
                                   + (IF p.password = <<>> THEN 0 ELSE Len(p.password) + 2)
      [] p.type \in {"PUBACK", "PUBREC", "PUBREL"} -> 2
      [] OTHER                  -> 0

(* The variable header and the payload, as the serializers write them.       *)
PublishBody(p) ==
    Utf8(p.topic) \o (IF p.qos > 0 THEN Word(p.id) ELSE <<>>) \o p.data
SubscribeBody(p)   == Word(p.id) \o Utf8(p.topic) \o <<p.qos>>
UnsubscribeBody(p) == Word(p.id) \o Utf8(p.topic)
ConnectBody(p) ==
    Utf8(Text(4)) \o <<4>>
    \o <<[clean |-> p.clean, password |-> p.password # <<>>]>>
    \o Word(p.keepAlive) \o Utf8(p.client) \o Utf8(p.user)
    \o (IF p.password = <<>> THEN <<>> ELSE Utf8(p.password))

Body(p) ==
    CASE p.type = "PUBLISH"     -> PublishBody(p)
      [] p.type = "SUBSCRIBE"   -> SubscribeBody(p)
      [] p.type = "UNSUBSCRIBE" -> UnsubscribeBody(p)
      [] p.type = "CONNECT"     -> ConnectBody(p)
      [] p.type \in {"PUBACK", "PUBREC", "PUBREL"} -> Word(p.id)
      [] OTHER                  -> <<>>

(* serialize_pub_ack_packet: a PUBREL has QoS 1; SUBSCRIBE, UNSUBSCRIBE too. *)
HeaderOf(p) ==
    Header(p.type, 0,
           IF p.type = "PUBLISH" THEN p.qos
           ELSE IF p.type \in {"SUBSCRIBE", "UNSUBSCRIBE", "PUBREL"} THEN 1 ELSE 0,
           IF p.type = "PUBLISH" THEN p.retained ELSE 0)

\* The acknowledgements and the empty packets only ask for four bytes.
Fits(p) ==
    IF p.type \in {"PUBACK", "PUBREC", "PUBREL", "PINGREQ", "DISCONNECT"}
    THEN 4 <= TxSize
    ELSE PacketLen(RemLenOf(p)) <= TxSize

Bytes(p) == <<HeaderOf(p)>> \o RemLen[RemLenOf(p)] \o Body(p)

Serialize(p) ==
    /\ cdWritten = Null /\ cdReads = 0
    /\ cdWritten' = [packet |-> p, bytes |-> IF Fits(p) THEN Bytes(p) ELSE Null]
    /\ UNCHANGED <<cdReadBuf, cdRead, cdReads>>
-----------------------------------------------------------------------------
\* What the broker sends, and its bytes as the standard lays them out.
Answers ==
    [type : {"PUBACK", "PUBREC", "UNSUBACK"}, id : Ids]
    \cup [type : {"SUBACK"}, id : Ids, codes : {<<0>>, <<1>>, <<Base>>}]
    \cup [type : {"CONNACK"}, present : {0, 1}, code : 0 .. 6]
    \cup Publishes

AnswerBody(p) ==
    CASE p.type = "PUBLISH" -> PublishBody(p)
      [] p.type = "SUBACK"  -> Word(p.id) \o p.codes
      [] p.type = "CONNACK" -> <<p.present, p.code>>
      [] OTHER              -> Word(p.id)

AnswerBytes(p) ==
    LET qos      == IF p.type = "PUBLISH" THEN p.qos ELSE 0
        retained == IF p.type = "PUBLISH" THEN p.retained ELSE 0
    IN  <<Header(p.type, 0, qos, retained)>> \o RemLen[Len(AnswerBody(p))] \o AnswerBody(p)

(* _decode_packet_rem_len_from_buf_read: [value, len], or Null after four bytes *)
Decoded(buf) ==
    LET ends == {k \in 1 .. 4 : buf[1 + k] < Base}
        len  == CHOOSE k \in ends : \A j \in ends : k <= j
    IN  IF ends = {} THEN Null
        ELSE [len |-> len,
              value |-> FoldRight(LAMBDA b, n : (b % Base) + Base * n, SubSeq(buf, 2, 1 + len), 0)]

(* mqtt_read_uint16_t *)
WordAt(buf, i) == buf[i + 1] + 2 * Base * buf[i]

(* deserialize_ack_packet, also for deserialize_unsuback_packet *)
ReadAck(buf) ==
    LET d   == Decoded(buf)
        at  == 2 + d.len
    IN  IF d = Null \/ d.value < 2 \/ (d.value > 2 /\ buf[at + 2] # 0) THEN Null
        ELSE [type |-> buf[1].type, id |-> WordAt(buf, at)]

(* deserialize_suback_packet: at most one more code than the caller has room for *)
ReadSuback(buf) ==
    LET d   == Decoded(buf)
        at  == 2 + d.len
    IN  IF d = Null \/ d.value < 2 \/ d.value - 2 > 2 THEN Null
        ELSE [type |-> buf[1].type, id |-> WordAt(buf, at),
              codes |-> SubSeq(buf, at + 2, at + d.value - 1)]

(* _deserialize_connack_packet: codes past the last known one are one error *)
ReadConnack(buf) ==
    LET d == Decoded(buf)
    IN  IF d = Null \/ d.value # 2 THEN Null
        ELSE [type |-> buf[1].type, present |-> buf[2 + d.len] % 2,
              code |-> IF buf[3 + d.len] > 5 THEN 6 ELSE buf[3 + d.len]]

(* _read_string_with_len, deserialize_publish_packet *)
ReadPublish(buf) ==
    LET d     == Decoded(buf)
        at    == 2 + d.len
        end   == at + d.value            \* the first byte behind the packet
        size  == WordAt(buf, at)
        topic == SubSeq(buf, at + 2, at + 1 + size)
        next  == at + 2 + size
        head  == buf[1]
    IN  IF d = Null \/ d.value < 2 \/ size > RxSize \/ next > end THEN Null
        ELSE IF head.qos = 0
        THEN [type |-> head.type, qos |-> 0, retained |-> head.retained, topic |-> topic,
              data |-> SubSeq(buf, next, end - 1)]
        ELSE [type |-> head.type, qos |-> head.qos, retained |-> head.retained,
              id |-> WordAt(buf, next), topic |-> topic, data |-> SubSeq(buf, next + 2, end - 1)]

Deserialized(buf) ==
    CASE buf[1].type = "PUBLISH" -> ReadPublish(buf)
      [] buf[1].type = "SUBACK"  -> ReadSuback(buf)
      [] buf[1].type = "CONNACK" -> ReadConnack(buf)
      [] OTHER                   -> ReadAck(buf)

(* A packet is read into the buffer (_read_mqtt_packet has checked that it fits) *)
(* and taken apart by the handler of its type.                                   *)
Receive(p) ==
    LET bytes == AnswerBytes(p)
        buf   == [i \in 1 .. RxSize |-> IF i <= Len(bytes) THEN bytes[i] ELSE cdReadBuf[i]]
    IN  /\ cdReads < MaxRead
        /\ Len(bytes) <= RxSize
        /\ cdReadBuf' = buf
        /\ cdRead' = [packet |-> p, fields |-> Deserialized(buf)]
        /\ cdReads' = cdReads + 1
        /\ cdWritten' = Null

Init ==
    /\ cdWritten = Null
    /\ cdReadBuf = [i \in 1 .. RxSize |-> 0]
    /\ cdRead = Null
    /\ cdReads = 0

Next ==
    \/ \E p \in Publishes \cup Subscribes \cup Unsubscribes \cup Acks \cup Connects \cup Empties :
         Serialize(p)
    \/ \E p \in Answers : Receive(p)

Spec == Init /\ [][Next]_vars
-----------------------------------------------------------------------------
\* The buffers keep their sizes.
TypeOK ==
    /\ DOMAIN cdReadBuf = 1 .. RxSize
    /\ cdReads \in 0 .. MaxRead

\* A packet that is sent has as many bytes behind its length as the length says, the length
\* computed by the _get_..._len functions and the bytes written by the serializers, and it
\* fits into the write buffer; one that is refused would leave no byte of the buffer free.
WrittenFits ==
    cdWritten # Null =>
        LET p == cdWritten.packet
            d == Decoded(cdWritten.bytes \o Text(4))
        IN  IF cdWritten.bytes = Null THEN Len(Bytes(p)) >= TxSize
            ELSE /\ Len(cdWritten.bytes) <= TxSize
                 /\ d # Null /\ d.value = Len(cdWritten.bytes) - 1 - d.len

\* A packet is taken apart into the fields it was sent with, whatever lies behind it in the
\* read buffer (the deserialize functions are given the size of the buffer).
ReadIsSent == cdRead # Null => cdRead.fields = cdRead.packet
=============================================================================
