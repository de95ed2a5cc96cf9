# TLA+ models of the Tencent IoT C SDK for ESP8266

This directory specifies the repository in TLA+, checks the specifications with TLC on small
instances and proves theorems about the core of them, for every value of the constants, with
TLAPS. Paths are relative to `src/`; `sdk/` stands for
`src/components/qcloud_iot_c_sdk/sdk_src/`.

    tlc -workers 2 -config MCSubscriptions.cfg MCSubscriptions     model-check a run
    tlapm PublishQos1_proof.tla                                    check the proofs of a module

## 1. The system

The repository is an ESP8266 RTOS application (`main/`) on top of a C SDK
(`components/qcloud_iot_c_sdk`) that connects a device to the Tencent IoT platform. Everything
goes through one MQTT 3.1.1 client. The application calls `IOT_MQTT_Yield` in a loop; packets,
timeouts, pings and reconnects are handled inside that call, and results come back as callbacks
and events. This build (`include/config.h`) has `MULTITHREAD_ENABLED` off, so `HAL_Mutex*` are
no-ops and the client is single-threaded; callbacks may call the API again (calls nest), and
the FreeRTOS task of the OTA sample uses the client of the main task without a lock.
`MQTT_RMDUP_MSG_ENABLED`, `OTA_MQTT_CHANNEL`, `EVENT_POST_ENABLED`, `ACTION_ENABLED`,
`GATEWAY_ENABLED`, `LOG_UPLOAD` and `WIFI_CONFIG_ENABLED` are on, TLS and `ASR_ENABLED` are off.

Most services follow one pattern on top of the client: subscribe a topic once, write "waiting"
into a result, publish a request, and yield in a loop until a message callback has overwritten
the result or a timer or counter has run out. What makes them hard is what that pattern leaves
open: answers that come late, twice, to somebody else, or never.

| Component | State it keeps | Operations | Talks to | What makes it correct |
|---|---|---|---|---|
| Subscriptions (`mqtt_client_subscribe.c`, `_unsubscribe.c`, handlers in `_common.c`, scan in `_yield.c`) | `sub_handles[10]`, `list_sub_wait_ack`, heap copies of topic filters | subscribe, unsubscribe, is_sub_ready, SUBACK/UNSUBACK handlers, timeout scan, resubscribe | broker, connection, callbacks | every stored filter has one owner, no duplicate handle, one outcome per request, resubscribe covers the table, every request ends |
| QoS 1 publish (`mqtt_client_publish.c`) | `list_pub_wait_ack`, `next_packet_id` | publish, PUBACK handler, timeout scan | broker, connection | success only for what the broker has, success and timeout are not mixed up, every publish ends |
| Inbound QoS 1 (`_handle_publish_packet`) | `repeat_packet_id_buf[10]` and its index | PUBLISH handler, PUBACK | broker, message handlers | repeats dropped as far as the ring knows them, nothing else is; order kept |
| Connection and yield (`mqtt_client_yield.c`, `_connect.c`) | connected and manual flags, ping counter and timer, reconnect interval and timer | yield, reconnect, disconnect, keep-alive | network, callbacks | no wrong drop for silence, manual mark does not leak, recovers or gives up |
| Client life cycle (`mqtt_client.c`) | locks, lists, buffers, id; flags of the yield thread | construct, destroy, StartLoop, StopLoop | lists, HAL | what was allocated is released once wherever construction fails; one task yields |
| Packets and topics (`mqtt_client_common.c`, serializers) | read and write buffers | serialize, read, send, deliver | network | a packet is written and read as its fields; a message goes to a filter that matches |
| Lists (`utils_list.c`) | doubly linked nodes, iterators | push, pop, remove, find, at, iterate | all clients | one sequence from both ends; a scan survives removals |
| Network (`network_*.c`, `HAL_TCP_lwip.c`, `HAL_TLS_mbedtls.c`) | handle, sockets, memory of TLS | connect, write, read, disconnect | lwIP | one socket per connection; what is reported sent is on the wire |
| Data template (`data_template_*.c`) | request list with tokens, property list, event and action lists, token of the last control | report, get, control reply, event post, action reply, yield | MQTT client, cloud | one callback per request; controls are answered after they were acted on |
| OTA (`ota_client.c`, `ota_mqtt.c`, `main/ota_esp/`) | client state, MD5, sizes; download context; flash | init, report, callback, download; enable and disable the task | MQTT client, HTTP, flash | only a whole, checked firmware is made the one to boot; retries are bounded |
| Gateway (`gateway_*.c`) | sessions of sub-devices, bind list, one result slot per operation | online, offline, bind, unbind, list | MQTT client | an answer is taken for its own request, a session is online only when the cloud said so |
| Log upload (`log_upload.c`, `log_mqtt.c`) | log buffer and index, saved log, level | append, upload, save, resend, change of level | HTTP, flash | no line lost or out of order while lines are appended during a post |
| HTTP and URL transfers (`utils_httpc.c`, `utils_url_download.c`) | send buffer, connection, offsets of ranges | request, receive, fetch | network | a request is sent whole, a file is put together in order |
| Services (`device_bind.c`, `kgmusic_client.c`, `log_mqtt.c`, `system_mqtt.c`) | per topic a flag, per service a result | unbind, queries, level, time | MQTT client | success means answered; a topic counts as subscribed only if granted |
| Resources, files (`resource_client.c`, `file_manage_client.c`) | state, name, URL, checksum per direction; list of posts | start, yield, report; order, post, fetch | MQTT client, HTTP | URL, name and checksum of one task; checksum of the stored bytes |
| Speech (`asr_client.c`) | list of requests, files of slices | record, realtime, answers | file client, MQTT client | a result reaches the request it is of; files are removed |
| Wi-Fi configuration (`wifi_config/`) | flags of each method, token of the phone, results | start, poll, commands of the phone, bind, report | phone, network, MQTT client | success only for the token of this configuration; one result |
| Dynamic registration (`dynreg.c`, `utils_aes.c`, `utils_base64.c`) | product secret, device secret | register | HTTP | the secret is the one issued |
| Documents and digests (`json_*.c`, `data_template_client_json.c`, `utils_md5.c`, `utils_sha1.c`, `utils_hmac.c`) | text buffers, blocks, counts | print, look up; update, finish, sign | all services | a document is that of its tree; a digest does not depend on the pieces |

Further hard behaviour: requests that survive a lost connection; packet ids shared by three kinds
of request and used again; memory whose ownership passes from list to table; calls nested in
callbacks; a reconnect that fails half-way; state that outlives the session it belongs to; resumed
transfers; buffers that are filled while they are emptied. PROJECT.json lists these under
`hazards`, each at its line, and every component under `components` with what of it is modelled.

## 2. The modules

### Subscriptions

State: `heap` maps the blocks a topic filter may be stored in to the filter (`Null` = free), so
that ownership, double frees and leaks are visible; `subHandles` is `sub_handles`; `subWaitAck`
is `list_sub_wait_ack` with `valid` for `node_state`; `cursor` is the loop index of
`qcloud_iot_mqtt_resubscribe`, so that packets cannot be handled in the middle of it but the
broker can work; `due` says that the yield has handled a packet and owes the scan of the lists
that follows it. `toBroker` and `toClient` are the packets under way, in order, lost with the
connection. `outcome` records the events reported for watched packet ids.

| Action | Code |
|---|---|
| `Subscribe`, `Unsubscribe` | `qcloud_iot_mqtt_subscribe`, `qcloud_iot_mqtt_unsubscribe` with `push_sub_info_to` and `get_next_packet_id`. A refusal (list full, no memory, send failed) is `RequestFails`. An unsubscribe clears the handles and frees their filters before it checks the connection. |
| `HandleSubAck`, `HandleSubNack`, `HandleUnsubAck` | `_handle_suback_packet`, `_handle_unsuback_packet` with `_mask_sub_info_from`; one disjunct per way through the SUBACK handler |
| `SubInfoProc(timedOut)` | one scan by `qcloud_iot_mqtt_sub_info_proc`; which timers have run out is nondeterministic |
| `LoseConnection`, `Connect`, `Resubscribe` | `_handle_disconnect`, `qcloud_iot_mqtt_attempt_reconnect`, one round of the loop of `qcloud_iot_mqtt_resubscribe` |
| `Destroy` | `IOT_MQTT_Destroy` |
| `BrokerSubscribe`, `BrokerUnsubscribe` | external: any broker, which may refuse |

`Garbage` is what the uninitialized `messageHandler.topic_filter` of `_handle_unsuback_packet`
may hold when no node matches. `FreshId` is the assumption that 65535 ids do not come round
while one of at most ten requests is under way: with a counter of three or four values it has to
be stated. Abstracted: qos and user data of a handle (a callback stands for all of
them), and the `MQTT_EVENT_UNSUBSCRIBE` callback of a handle that is cleared.

### PublishQos1, PublishContract

`PublishQos1` has the wait list, ids, wires, `received` (which publishes the broker has) and
`outcome`. `Publish` is `qcloud_iot_mqtt_publish` for QoS 1, `TakeIdOnly` its refusals and the
ids taken by subscribe requests, `HandlePubAck` is `_handle_puback_packet`, `PubInfoProc` the
scan `qcloud_iot_mqtt_pub_info_proc`, which gives up on nothing while the connection is down.
`PublishContract` is the promise to the application, per packet id: *idle*, *waiting*, then
*success* or *timeout*, and *late* when a publish reported as timed out succeeds after all.
`Status` is the refinement mapping; `ImplementsContract` the refinement.

### InboundQos1

The broker's side keeps a window of unacknowledged messages and sends them again after a
reconnect if it kept the session. `_handle_publish_packet` for QoS 1 is cut where its callback runs:
`HandleNew` looks the id up in the ring and calls the callback, `Return` puts the id in the ring and
writes the PUBACK, `HandleRepeat` is the way through the handler for an id in the ring. While a
callback runs it may yield, so that `handling` is a stack of handlers, and anything may happen in it: other
messages are handled, the link breaks, the client reconnects, and the message of the callback itself
is sent again. The PUBACK is then written on whatever connection there is. `Acknowledge` has
the two ways to lose it: the link is gone, or the write fails on a link that is up, where the yield
only returns the error. What was read into the buffer before the link broke is still handled.
`Reconnect` does not reset the ring, as in the code.

Two history variables say where the promise of the duplicate check ends. `disordered` is set when a handler
has run inside another, a reconnect has happened inside a callback, or a PUBACK has failed on a
live link: from then on ids may be in the ring in another order than they were sent, or not yet, so that
the ring can lose an id the broker still uses, and the message is delivered twice. `AtMostOnce`
excludes this (without the exclusion TLC needs seven states for a second delivery), and so does the half
of `RingSeparates` that says what the ring remembers; the other half, that nothing new is taken for
a repeat, and `AckedDelivered` and `DeliveredInOrder` hold without it. `ackLost` has the messages
whose last PUBACK failed on a live link. When these are the whole window, the broker waits for them for
ever while the link stays up (`Stuck`), and `AllDelivered` says so.

### MqttConnection

`stack` holds one frame per call under way (`yield` or `reconnect`), its place and its `rc`; a
frame that is inside a callback allows another call on top (up to `MaxDepth`). The actions are
the steps between two callbacks: the head of the loop (`GiveUp`, `WaitDelay`, `ConnectFails`,
`ConnectAndResubscribe`, `ConnectResubscribeFails`, `ReconnectDone`), the read (`Read*`), the
keep-alive (`PingNotDue`, `SendPing`, `PingsUnanswered`, `PingFails`, `PingWithoutConnection`), the
end of the callbacks (`UpReported`, `DownReported`, `ReadHandled`). Timers, network and peer are
separate actions. `pings` is a history variable: PINGREQs written on this connection.

The modules of the client are kept apart because each of their questions needs only part of it:
`Subscriptions` and `PublishQos1` see the connection as up or down (what `MqttConnection` says
of `isConnected`), and `MqttConnection` sees their scans as one place where callbacks may call.

### DataTemplate, TemplateContract, TemplateCommands

`DataTemplate` has the construction in three stages with its subscriptions, the list of requests
that wait (`replyList`, the `token` standing for the client token), the events, one synchronous
call under way (`call`, the variable on its stack), and `at`/`pos`, the place inside
`IOT_Template_Yield`: the walk over the requests from the tail, the expiry of events, the MQTT
yield. A callback may send a further request (`retry`). `up` and `down` are the messages under way,
of which any may be delayed for ever, answered twice or unreadable. `connected` is the state of the
client's connection, which comes and goes (`ConnectionChanges`): the events of a subscription
are only reported while it is up. `TemplateContract` promises
per request *waiting* and then one of accepted, rejected, timeout, dropped (the answer cannot be
read) or abandoned (destroyed), with at most `MAX_APPENDING_REQUEST_AT_ANY_GIVEN_TIME` waiting.

`TemplateCommands` is the other direction: controls, controls that come with the answer to a
`get_status`, and actions, each dispatched to the callbacks in the lists; and the loop of
`light_data_template_sample.c`, which acts on the values and answers with the one token that
`sg_template_control_clientToken` remembers. A property's value is the token that set it last.
The token is stored before the properties of a control are looked up, so that a control for no
registered property replaces the token of one that was acted on and not answered yet, which then
never gets a reply of its own: `tcReceived`, a history variable, has the controls in the order in
which they came with the callbacks they reached, and `LatestIsAnswered` asks that each of those is
covered by a reply to it or to one that came later.

### OtaUpdate

The client (`OTA_Struct_t`), the context of the task and `pc`, its place in `_ota_update_task`; the
main task enables, disables and delivers messages between any two steps. A firmware is a sequence
of segments, a checksum is the sequence of the segments it covers. `behind` is a history variable:
reading back the part to resume failed, the offset was reset, but `esp_ota_begin` was not called
again, so the new image is written behind the old part (`_pre_ota_download`). The MD5, which then
covers the new part only, does not notice; the properties exclude this case and nothing else. The
topic of OTA (`ota_mqtt.c`) is the choice in `Enable`.

### Gateway, SyncRequests

`Gateway` has the sessions, the bind list and the slots (one client id and one result per
operation); a call is `Mark` and `Publish`, then `Answered` or `LoopedOut`; messages are handled in
between, also the orders of the cloud (bind, unbind, unbind all). `SyncRequests` is the same
pattern in `device_bind.c`, `kgmusic_client.c`, `log_mqtt.c` and `system_mqtt.c`, with the
subscription each makes first. Requests and answers are numbered by history fields, so that the
properties can say to which request an answer belongs; the code compares no tokens.

### LogUpload, UrlDownload, HttpRequest, ResourceClient, FileManage

`LogUpload` has the buffer, the lines in flash and one upload under way by its stage (saved logs,
buffer, saving, finish); lines are appended between any two steps because the buffer is not locked
during a post and posting itself logs. `UrlDownload` models `qcloud_url_download_fetch` with ranges
over one connection and the buffers of `utils_httpc.c`; a unit of the file is its offset.
`HttpRequest` models how a URL is parsed and how the head is collected in the send buffer, written
out when full, cut short or refused by the network. `ResourceClient` and `FileManage` model tasks
of the cloud, their URLs, the download with resume and checksum, uploads with reports that yield,
and the list of posts that wait for a URL. A unit of a resource is the pair of its task and its
offset, so that a mixture of two tasks is visible. The client publishes two kinds of report about a task,
progress and result, with the same type and the same answer; `Reports` keeps them apart, and
`shared` remembers that another report of the task was unanswered while `ReportUploadSuccess` waited:
only where it was not is the success returned certainly the answer to this report. Progress
reports of one task that are under way together count as one. `HandleUrl` of `FileManage` is one step from
the lookup of a post over its callback to its removal (`file_manage_client.c:712-745`): the application's
callback is assumed not to yield there, see section 5.

### AsrRequests, WifiConfig, DynReg

`AsrRequests` has the list of requests as the walks of the lookups leave it, the files of slices,
and the callback under way, in which the application may record again. `ASR_ENABLED` is not defined
in this build, and the file calls the list functions by older names (`list_*`); it is modelled as
it is written. `WifiConfig` has the two methods (soft AP, smart config), the task of each, the
service for the phone, the binding with the token and the application of `wifi_config_sample.c`
that falls back from one method to the next. `DynReg` is the request, the base64 decoding with
real digits and bytes, the chaining of CBC over any block cipher, and what an answer leaves.

### ClientLifecycle, Transport, PacketIO, PacketCodec, TopicMatch, LinkedList, Json, MessageDigest

The pieces below. `ClientLifecycle`: `IOT_MQTT_Construct` with each allocation that may fail,
`IOT_MQTT_Destroy`, and the yield thread with its two flags (for a build with
`MULTITHREAD_ENABLED`). `Transport`: TCP and TLS connections and `send_mqtt_packet` over writes in
parts. `PacketIO`: the reads of `_read_mqtt_packet`, each of which may stall. `PacketCodec`: each
kind of packet as bytes, lengths computed by one set of functions and bodies written by another.
`TopicMatch`: the two-pointer walk of `_is_topic_matched` one character per step, compared with the
rule level by level. `LinkedList`: nodes with two pointers, count and iterators. `Json`: the
printing of documents into a buffer of limited size, and the lookup of keys by scanning, compared
with trees. `MessageDigest`: blocks, padding and the count in two words; a digest is the sequence
of its blocks, so that equality means the same blocks in the same order.

### Services, CloudServices, DeviceServices, ServiceBounds

`Services` puts together all of these but the MQTT client and `DataTemplate`. They share no variable:
what they have in common, the MQTT client, is in each an environment that loses, delays and
reorders messages and refuses publishes. Their joint behaviours therefore add nothing to those of
each alone, and `service` fixes which one runs; a property of `Services` speaks of one kind of
promise (success is answered, streams are whole, one thing at a time) and names the part of it that
each module makes (`StreamsWhole`: what is cut into pieces and put together again, logs, files, packets,
requests, digests and lists; `DataAsMeant`: what is computed from data, topics, packets as bytes,
documents and the secret of a device). Constants with the same meaning in several modules
have one value.

It is built in layers, so that the parts can be proved about in modules of their own:
`CloudServices` instantiates `OtaUpdate`, `Gateway`, `SyncRequests`, `ResourceClient` and
`TemplateCommands`, the dialogues with the cloud, `HttpRequest` and `LinkedList`; `DeviceServices`
instantiates `FileManage`, `WifiConfig`, `ClientLifecycle`, `Transport`, `AsrRequests`, `LogUpload`,
`UrlDownload`, `PacketIO` and `MessageDigest`; both extend `ServiceBounds`, the constants that they share. `Services` extends the two with the
other four, chooses the one that runs and states the properties. Each layer has the assumptions
on its constants: sizes and counts are numbers, `Null` is not mistaken for a handle, call, answer or node, each
method of configuring Wi-Fi is tried at most once (as `wifi_config_sample.c` does), and
`BeginningOf`, the relation between ids one of which begins the other, is between devices.
Lists whose order is that of the ids in them (`fmWaiting`, `asList`, `eventList` of `DataTemplate`)
are sets of records.

## 3. The runs

| Run | Shows | Instance |
|---|---|---|
| `subscriptions` | ownership of filters, distinct handles, one outcome per request, leaks only when the table is full or the client destroyed, complete resubscribes | 1 topic, 3 callbacks, table and list of 2, 3 ids, 3 blocks; symmetric in blocks and callbacks |
| `subscriptions_live` | every request ends once the connection stays up | an exact and a wildcard filter, session kept by the broker |
| `publish` | outcomes of publishes, their end, the contract | list of 2, 3 ids, starting at 0 or at the last id |
| `inbound` | at most once until the ring is out of order, acknowledged implies delivered, in order, nothing new taken for a repeat, all delivered or the broker waits for failed PUBACKs | ring 2, window 2, 4 broker ids, 5 messages, handlers nested 2 deep: ids and ring wrap |
| `connection` | manual mark, patient keep-alive, giving up, recovery | calls nested 2 deep, interval 1000 to 4000 ms (two doublings), 2 pings, with and without auto-connect |
| `template` | each request and event ends as `TemplateContract` says, synchronous calls return, and the construction does if the connection stays, no pointer into a stack frame that is gone | list of 2, 1 event, 3 tokens |
| `services` | the promises listed in `Services`, each module alone | see below |
| `late_unsuback` (violation) | a late UNSUBACK frees a filter in use | as `subscriptions`, with any garbage |
| `inbound_new_session` (violation) | an acknowledged message that was never delivered | as `inbound` with `clean_session` |
| `shared_construct` (violation) | a template on the MQTT client of a gateway waits for ever for its subscription | 1 request, 1 event, 1 token |
| `register_twice` (violation) | a property registered twice is in the list twice | 1 property, 2 handlers |
| `framing` (violation) | after a stalled read a byte of a payload is taken for a header | 2 packets, 1 stall |

The parts of `services` and what their bounds reach:

| Module | Properties | Instance |
|---|---|---|
| `OtaUpdate` | `BootIsFirmware`, `Md5IsOfFlash`, `AttemptsBounded`, disabling ends | 2 versions of 2 segments, 1 retry: a resume after a segment, of the same and of the other version |
| `Gateway` | `SuccessIsAnswered`, `IdleSessionsOnline`, calls return | 2 sub-devices, the id of one begins the other's; 2 calls, 1 order: a late answer meets the next call |
| `LogUpload` | `NoLineVanishes`, `ServerInOrder`, uploads end | buffer 3, posts of 1, 5 lines, 2 failures: saved, resent and failed again |
| `UrlDownload` | `ContentInOrder`, `AnswersSeparate`, the file is fetched | file of 5 in ranges of 3, buffer 2, header room 3, pages of 4 |
| `HttpRequest` | `RequestWhole` | buffer 13, host 3, path 7, heads that end before, at and behind the end of the buffer |
| `SyncRequests` | `SuccessIsAnswered`, `OkIsGranted`, calls return | unbind, both music queries, level; 2 calls |
| `ResourceClient` | `ChecksumOfFile`, `OneTask`, `TaskStays`, `SuccessIsAnswered`, reports return | 2 tasks of 2 units, 1 fault |
| `FileManage` | `ChecksumOfFile`, `OneOrder`, `PostedOnce` | 2 orders, 2 posts, a waiting list of 1: full |
| `AsrRequests` | `ResultReachesRequest`, `FilesOwned` | list of 2, 4 requests: full twice over |
| `WifiConfig` | `SuccessIsBound`, `TokenIsFresh`, `OneResult`, tasks end | soft AP, then smart config |
| `TemplateCommands` | `LatestIsAnswered`, `AnsweredIsDone`, replies come | 3 tokens, 1 fault |
| `DynReg` | `SecretIsIssued`, `IssuedSucceeds`, `DecryptFits` | blocks of 2, texts up to 8 bytes, broken base64 |
| `ClientLifecycle` | `AllReleased`, `OneYield`, `StopLoop` returns | 2 clients, 2 threads, StopLoop waits twice |
| `Transport` | `WireIsPacket`, `OneSocket`, sends return | 4 bytes, 2 packets, 2 sockets |
| `PacketIO` | `PacketsWhole` | 2 packets that fit, fill and overflow the buffer, 1 stall |
| `PacketCodec` | `WrittenFits`, `ReadIsSent` | length digits to base 4, so that lengths have 1 to 3 digits |
| `TopicMatch` | `NoneMissed`, `ExactWithoutWildcard` | all filters and names of up to 3 characters over 2 letters, and pairs of filters of one character |
| `LinkedList` | `IsSequence`, `FindsItem`, `ScanWhole` | 3 nodes, 2 values, a scan in either direction |
| `Json` | `DocumentAsMeant`, `LookupFinds`, `ArrayEntries` | 2 keys, nested objects, six sizes of the buffer |
| `MessageDigest` | `DigestOfWhole`, `MacOfKey` | block 4, words of 8: the count carries at 8 of 13 bytes |

**Why the bounds are enough.** A table and list of two have every case of the code: empty,
part used, full, duplicate found before or after a free slot. Three callbacks can fill the table
and still bring a third request. Three ids over two requests wrap after one. The ring of
two wraps twice over five messages, with a window as long as the ring, the worst case that is
still right, and two handlers are enough for one message to be handled inside the callback of another or
of itself. Two nested calls let every call of the application happen inside every callback;
depth 3 (1.8 million states) was also explored for the safety properties. `BrokerIds >= RingLen +
Window` is the assumption that a broker does not come round its 65535 ids within the ring. In
the services two calls let an answer to the first meet the second, which is what one slot per
service makes hard, and one fault at any step is enough to reach every error path; more were
tried module by module.

**Constants of the code**: `MAX_MESSAGE_HANDLERS` 10, `MAX_REPUB_NUM` 20, `MAX_PACKET_ID` 65535,
`MQTT_MAX_REPEAT_BUF_LEN` 10, `MQTT_PING_RETRY_TIMES` 2, `MAX_RECONNECT_WAIT_INTERVAL` 60000 ms,
first interval 1000 to 1990 ms, `MAX_APPENDING_REQUEST_AT_ANY_GIVEN_TIME` 10,
`MAX_EVENT_WAIT_REPLY` 10. The theorems hold for these, the runs for the small ones.

**Deadlock.** It is checked for the connection and the inbound messages. The other models stop:
after `IOT_MQTT_Destroy`, at the end of a configuration or an update, or because a bound on what
the application or the cloud does is used up.

**Fairness.** *Subscriptions, PublishQos1*: the application keeps yielding while the client is
connected, so scans go on (`WF(SubInfoProc({}))`), and since a request's timer runs out after at
most 20 s a scan finds it (`WF(TimesOut(i))`); nothing is assumed of the broker. A resubscribe
loop that has begun runs on. *InboundQos1*: the client reads and reconnects, the broker works;
callbacks return, and while one runs nothing is assumed to be read in it; a link may break for ever
again, so that delivery is only claimed if it stays up. *MqttConnection*:
the application calls yield again whenever no call is under way; the round of the loop, the
end of a yield and the delay timer are weakly fair; callbacks return, with strong fairness,
because a callback may call the API again any number of times before it does. *DataTemplate*: the
application yields (`ThreadStep`), and the timer of a request or event runs out, with strong fairness
since the wait alternates with other work. The MQTT client reports each subscription in the end
only if the connection stays up from some point on: its own timeouts are scanned only while
connected (`mqtt_client_yield.c:430`), and the loop of the construction ignores what the yield
returns (`data_template_client.c:308-310`). `ConstructReturns` therefore has `<>[]connected` as its
antecedent; without it TLC finds the loop that does not end. *Services*: one weakly fair conjunct per task: the OTA task and
`disable_ota_task` go on (FreeRTOS schedules both), a synchronous call leaves its loop because it
has a counter or a timer, a post, fetch or packet on its way ends because its timer runs out, the
tasks of Wi-Fi configuration run, the loop of the application acts and replies. Nothing is
assumed of the cloud, the phone or the network.

**Findings.** The five violations are listed in PROJECT.json with the line of the code and the
sentence it disagrees with. Two more sentences of the documentation do not hold, in a way that
needs no run to see: `IOT_MQTT_IsSubReady` (`export_mqtt.h:310-316`) stays true after the broker
has refused the topic in a resubscribe, and `IOT_MQTT_Yield` (`export_mqtt.h:240-241`) can return
`QCLOUD_ERR_MQTT_ATTEMPTING_RECONNECT` of a call nested in a callback while the client is connected.

## 4. The proofs

All theorems are about `Spec` with the constants left open, under the named ASSUMEs of the module
(sizes and counts are positive, start ids in range, the first interval does not exceed the
maximum, and so on). In each module an invariant is strengthened until it is inductive, was first
checked with TLC on the run of its module, and implies the properties. A table of what each
theorem states is in PROJECT.json under `theorems`.

*PublishQos1_proof*. `IInv` = types; a PUBACK is under way only for a publish the broker has
received (`AcksReceived`); what is under way belongs to a publish that waits or was reported
(`InFlightKnown`); success means received; what waits is unreported. `AcksReceived` is needed
because a PUBACK credits whatever publish last took its id: the credit is right only if the ids
under way are those of the last use, which `FreshId` gives when an id is taken again.
`InFlightKnown` rules out an event for an idle id. `TimeoutsAreUnacked` follows from the same
invariant. `Implements` maps initial states to initial states and every step to a step of
`PublishContract` or a stutter: a PUBACK of a waiting publish is `Succeed`, after a timeout it is
the *late* step, a scan is `Expire` of the set of ids it gives up on.

*MqttConnection_proof*. `IInv` = types, `ManualOnlyInCallback`, and `pingOut <= pings`. From it
the keep-alive property and, by a case split over `Next`, that giving up is final. The lemmas
`EnterStack`, `GoStack`, `ReturnStack` say what calls and returns do to the stack.

*Subscriptions_proof*. `IInv` = types; `Wires` (nodes have different ids, an id is on at most one
wire and there once, and a node whose packet is under way is not marked yet); `FilterOwnership`;
`DistinctHandles`; `Reports` (a pending request has no outcome yet, one whose packet is under way
is not reported successful, and `SubscribeOutcome`). `Wires` is needed because an answer is matched
to a node by packet id alone: with unique ids it marks at most one live node, and whatever that
node owned moves to the table or is freed exactly once. The types depend on ownership, since
a resubscribe sends the filters the table points to. `Sound(h, t, P)` states ownership and
distinctness of any heap, table and set of waiting nodes, because IOT_MQTT_Unsubscribe frees table
entries first and only then allocates its own request: each half is a lemma (`FreedSound`,
`RequestSound`) and the action combines them. The theorems assume `Garbage = {Null}`, i.e. that the
local the UNSUBACK handler frees without having set it happens to be null; run `late_unsuback`
shows what happens otherwise, so this is a real precondition and not a convenience.
`LeaksOnlyWhenFull` is proved step by step (`NextKeeps`): whatever is allocated after a step still has
its owner, or had none before. `ResubscribeComplete` needs one more invariant, `PassedWait`: each slot
in use that the loop has passed has a SUBSCRIBE waiting for it. It holds because nothing else of
the client runs while the loop does (`NextRounds`), and because a new request is given a free block,
so that it cannot change the filter of an earlier one (`RoundRequests`, from `FilterOwnership`).

*InboundQos1_proof*. `IInv`, for a session that is kept, has two layers. `General` holds whatever the
callbacks do: the broker's messages in flight are in order, each id once; what is delivered is all up
to some `top` and nothing beyond (`UpTo`); and nothing holds the id of a message in flight that was not
delivered but the packets with this message (`Unheld`), which is what the assumption about the broker's ids
(`MaySendAs`) is for. From it follow `AckedDelivered`, `DeliveredInOrder` and the first half of `RingSeparates`.
`InOrder` is the second layer, and holds while `~disordered`: three numbers then say all there is to
know. The messages up to `low` are acknowledged, those up to `high` have been through their handler, with at
most one in its callback behind them, and those up to `sent` are sent. The messages in flight are those
behind `low`, with the ids that follow from how many were sent (`Numbers`); on the wires are the
acknowledgements up to some `at` no larger than `high`, then, but for the one in its callback, the messages
behind it (`UnderWay`); the ring holds the ids of the last `RingLen` messages up to `high` (`Delivered`). From this
`AtMostOnce` and the second half of `RingSeparates` follow, because a window no longer than the ring
and `BrokerIds >= RingLen + Window` keep the ids of those two ranges apart. `InOrder` is not kept by a
handler inside another, a reconnect inside a callback, or a PUBACK that fails on a live link: an
acknowledgement is then missing between others, or an id in the ring before those of earlier messages.
In a new session nothing is sent twice, and `NewInv` says so; it gives the types and `AtMostOnce` without
the exception. The other three theorems have the hypothesis `CleanSession = FALSE`, which is needed:
run `inbound_new_session` violates `AckedDelivered` without it, since the ring is not reset with the session.

*DataTemplate_proof*. `IInv` = types; the request list holds just the requests whose outcome is open,
each once, and that of a synchronous call only while the call waits (`Tracked`); tokens are used
in turn, and those of events are not those of requests (`TokensInTurn`); the position of the walk
is 0 outside of it. `Tracked` is needed both ways round: an answer finds its request by the token
in the list, so that an outcome can be reported once only if the list has nothing else and nothing
twice. The types contain the limit of the list, which callbacks that send again cannot exceed.
`NoDanglingContext` is a part of `Tracked`. `Implements`: a request is `Send` of `TemplateContract`; an answer
and a timeout are `Answer`, or `AnswerAndSend` when the callback sends the next request; an answer
that cannot be read is `Drop`; the destruction is `Abandon`; every other step is a stutter. The
walk over the list looks at one request per step, so that no step has to be split.

*CloudServices_proof*. One invariant per service, each inductive by itself.
- Updates (`OtaInv`): while a firmware is downloaded the handle has the version it came from
  (`OtaOffer`); the flash holds no less than the sizes that are remembered (`OtaSizes`); what is stored
  is a part of one version, and the MD5 is that of it, where `ctx.downloading` remembers the
  version of the part while `ctx.remote` is already that of the next one (`OtaStored`, `OtaResumes`);
  a failure has been counted when the next download begins (`OtaTries`); once the boot partition is
  set the task goes straight to the restart (`OtaBoot`). The exception `behind` is in each.
- Commands (`CommandsInv`): controls arrive in the order of their tokens, what was applied is older
  than what is under way, and the value of a property is that of the last control that set it. The one
  token the client remembers is that of the control received last, whether it reached a callback
  or not; with the flag down, every control that did is covered by a reply to it or to a later one
  (`RepliesCover`): that reply is sent after all of their callbacks.
- Gateway and synchronous requests (`GatewayAnswers`, `SyncAnswers`): no token is compared, so that what
  must be known is where a request can still be. One under way is that of the running call or
  comes after a call that was given up (`LateAt`, `SyncLate`), numbers are unique over both wires, and
  a result in the slot of the running call is from an answer taken in that way. A session that is
  neither absent nor online is that of the running call, unless its record was freed.
- Resources (`ResourceAll`): while a transfer runs its name and URL are those of one task; what is
  stored is a part of one task from its begin, and the checksum is that of it while the channel
  is there (`DigestGoesOn`). A report that waits and is not `shared` is the only one of an upload that is under
  way, in either direction, so that the answer it takes is its own (`ResourceAnswers`).

*DeviceServices_proof*. Files: the orders under way are newer than that of the handle and that of
the file, so that a repeated order cannot mix two files (`OrdersAreNew`); what waits was not posted
yet. Wi-Fi: at most one method is active, and the token and the binding are those of its turn
(`OneActive`, `TokenOfTurn`, `BindIsOfToken`). Life cycle: a client that is made holds everything, and as
long as `StopLoop` has not given up there is one thread in the loop (`OneLoop`). Connection and speech:
the types and the property are inductive, with the requests kept apart by their ids.

*Services_proof*. `StepOfEach`: a step of one service leaves the variables of the others alone, so that
an invariant that is inductive for a service by itself holds of all of them together. Each theorem
names a property of the run and follows from the invariants of the services in it, with the
exceptions that the property has.
`StreamsStayWhole` is the one about data that is cut into pieces and put together again; each of the
seven invariants ties what has been stored, sent or handled to what is still to come:
- Log (`LogInv`): which cells of the buffer still wait depends on the stage of the upload (`Waits`:
  those behind the part that is being sent and, within it, those that are not sent yet). No
  cell that waits is blank, and each line is in such a cell, in the flash, on the server or given
  up for a reason the code names (`LogKept`). Order needs that no post has failed (`LogOrder`).
- Download (`UrlInv`): what is saved is the file up to the offset of the range and what was fetched
  of it (`UrlRange`), and the answer on the wire goes on where that ends, or is too short to be
  read on (`UrlAnswer`): this is why a range that ends early and is asked for again leaves no gap.
  The theorem has the assumption `UrlAssumption`, see *Logs, HTTP, transfers* in section 5.
- Packets (`PacketInv`): until a read has stalled, the bytes that come are a suffix of the packets
  that were sent (`Stream`), and begin with the byte the phase expects (`Position`). After a stall
  neither holds, and run `framing` shows what follows.
- Connection (`WireInv`): what is on the wire is what the write under way and those before it have
  sent, bytes 1, 2, ... without a gap, and over TLS there is one write only.
- Requests (`HttpInv`): the pieces of a head tile it, each beginning where the one before ends
  (`Tiles`). Until a write is cut short one of two things holds (`HeadKept`, `HeadBegun`): the buffer
  has what was collected and nothing was written, or the head is longer than the buffer and a full
  buffer of it was written. The first piece never fills the buffer, which is where the assumption
  `SendCap > 1` is used.
- Digests (`DigestInv`): the context holds the message fed so far (`HoldsMessage`: the blocks
  processed are its whole blocks, and the buffer begins with the rest) and counts it (`CountsMessage`:
  the low word and the high word times `WordSize` are its length). Feeding has the three cases of
  `utils_md5_update`: the rest stays in the buffer, it is topped up to a block, or whole blocks are
  taken past the buffer. The carry between the words is right because no piece is longer than a
  word counts and the message is shorter than `WordSize * WordSize` (`CountGrows`); that the padding
  ends a block, and the length in bits is written into two words, takes that `WordSize` is a multiple
  of `Block` and of `Bits`. The signature is that of the two digests it is made from.
- List (`ListInv`): the list is a sequence of different nodes, `llItems`, each of which points at its
  neighbours (`Chained`), and a scan stands at a node of it or at an end, with those it has still to
  see in front (`ScanPlace`). A removal joins the neighbours of one node, and what `Chained` says of
  every other pair is kept. That a walk along the pointers gives `llItems`, in either direction,
  and that a search finds the first match, is a statement about every length; the induction it
  takes is an argument from a least counterexample (`LeastOf`, from the library's theorem about
  minimal elements).

`TopicsAreMatched` is the part of `DataAsMeant` that is about topics, for any number of filters, and
filters and names of any length (`TopicInv`). The rule for filters speaks of levels and their
numbers, the code of two pointers that move character by character, so what is kept relates the
two: while the filter covers the name, either both pointers are in levels of the same number, at the
same distance from their begins, at a wildcard, or behind one (`Together`), or both have come to the
end (`Through`). A level is numbered by the begins of levels up to its own, so a
step over a separator raises both numbers by one (`NextNumber`). At every place where the loop ends
a filter that covers the name passes the last test (`StopsAtMatch`). A filter without wildcards and
the name are walked through side by side (`TopicsExact`). The proof assumes `LettersAssumption`: the
zero that ends a string is no letter of it.

**Only model-checked**: the liveness properties (`PendingResolved`, `PublishReported`,
`AllDelivered`, `Recovers`, `SyncReturns`, `ListsDrain`, `ConstructReturns`, `CallsReturn`; fairness
and ENABLED are outside the prover's reach); the parts of `DataAsMeant` of `Services` that are about
`PacketCodec`, `Json` and `DynReg`, which compare what the code computes in a walk over data with
a recursive definition of what is meant, for which an induction over the data is needed: TLC
compares the two on all inputs of bounded length; and `TypeOK` of `Services`, a part of which is
the types of those three. The types of the other services are proved as parts of their invariants.

## 5. What the models say of the code that no document forbids

Behaviour met while modelling. Each is modelled as the code has it, or, where a memory error would
follow, stated here; the properties hold with it, because they say only what the code can keep.

*Client*
- A QoS 1 message is delivered twice, in a session that is kept, when its callback reconnects or
  yields until it comes again: its id is put in the ring only after the callback
  (`sdk/mqtt_client_common.c:1137`, `:1142`). So is one whose PUBACK failed on a live link, once enough others have
  put its id out of the ring; and as the failed PUBACK is not repeated, a broker whose window is full of such
  messages sends nothing more until the client reconnects.
- A callback that yields has its message overwritten: topic and payload are in `read_buf`.
- A resubscribe that is cut short by a failed send leaves the later topics unsubscribed; nothing repeats
  it before the next reconnect.
- `IOT_MQTT_Destroy`, and a SUBACK that finds the table full, leak the filters of waiting requests.
- `send_mqtt_packet` (`sdk/mqtt_client_common.c:500`) passes the whole length again after a partial
  write and may report success for a packet sent in part. `HAL_TLS_Write` counts its last write
  twice when the time runs out between its two looks at the timer (`HAL_TLS_mbedtls.c:335`).
  `HAL_TCP_Disconnect` leaves the socket open when `shutdown` fails.
- `get_mqtt_packet_len` is one too large at the sizes where the length gains a byte; the length of
  an UNSUBSCRIBE is right for one filter only.
- The filter `a/#` also matches `aa`, and `a/+/` matches `a/`.
- `IOT_MQTT_Construct` leaks four locks and two lists when the client id cannot be allocated.
- The yield thread: `yield_thread_exit` is still true from an earlier loop, so that `StopLoop` returns
  at once while the new thread runs; a `StartLoop` that fails leaves `yield_thread_running` set, and
  `IOT_MQTT_Yield` then only sleeps; `StopLoop` gives up after 18 s; the thread writes to the client
  once more after the status says that it is over.
- `qcloud_list_remove` is given what `qcloud_list_find` returned without a look (`file_manage_client.c:745`,
  `asr_client.c`): null when the entry has expired meanwhile.

*Data template*
- When the connection is lost for good, because the client gave up or does not reconnect by itself,
  `IOT_Template_Construct` loops for ever (`data_template_client.c:308-310`).
- A control for none of the registered properties replaces the token of the last control
  (`data_template_client_manager.c:529`): one that was acted on and not answered yet is then answered with
  the other's token, and never with its own.
- A reply that cannot be parsed drops its request without a callback; a synchronous report then
  yields for ever (`SyncReturns` names this exception).
- A property is unregistered by the address of its copy, which nobody has (run `register_twice`).
- A list of events measures the room for the head of the second and later events before the bytes
  that are then overwritten, and may run past the buffer by up to three bytes; a report or event
  without any property overwrites its opening brace; `put_json_node` callers that pass the room
  that is left have the length subtracted twice.
- `LITE_json_value_of` finds a nested key that is missing in its object behind that object, takes
  an empty string for no value, counts brackets inside strings, and runs past a string that ends
  in an escaped backslash.

*OTA*
- See `behind` in section 2. Enabling OTA while a handle exists resets a download in progress
  (`qcloud_iot_ota_esp.c:484`). The count of disconnects is not reset between downloads.
- A SUBACK in the last of the ten yields of `ota_mqtt.c:192` counts as a timeout; the handle is then
  freed while the pending SUBSCRIBE still points to it. A message that comes in that wait is
  dropped, because the callback is set only afterwards (`ota_mqtt.c:200`).

*Gateway, services*
- An unbind of all sub-devices frees the sessions while `IOT_Gateway_Subdev_Online` waits and
  holds a pointer to one (`gateway_api.c:239`); the model keys sessions by device, forgets that the
  call holds one (`held`), and shows only what the list says.
- An answer is compared with the client id over the length of the answer's own
  (`gateway_common.c:494`), so that it also fits a longer id it begins.
- Answers that are late are taken for those of the next call of the same kind, which
  `SuccessIsAnswered` allows for after a call that gave up; from then on every call may be one behind.
- The result of `IOT_Gateway_Subdev_GetBindList` is never written (`gateway_api.c:352`): it always ends
  by its counter. Bind notifications add a device to the list a second time.

*Logs, HTTP, transfers*
- `clear_upload_buffer` during an upload by another task makes the length of the `memmove` in
  `log_upload.c:785` negative; `fini` leaves the log client pointing to freed memory. Saved logs of
  which a part was sent are sent again as a whole.
- Answers with a status of 400 or more other than 403 and 404 are only warned about, and their body is
  taken for data; chunked answers always end in an error.
- The part of an answer that is read together with its header, up to 1024 bytes (`utils_httpc.c:676`), is
  copied to the caller's buffer as far as that has room, and the rest is lost: with a smaller
  buffer a range longer than two buffers is stored with a gap, which the count of what was
  fetched does not show. `UrlAssumption` of `DeviceServices` therefore asks that what comes with the
  header fits the buffer, or that a range is at most two buffers. The one caller in the
  repository, the task of `qcloud_iot_ota_esp.c:43`, has a buffer of 2049 bytes; the
  clients of files and resources leave its size to the application.
- HTTP requests (`utils_httpc.c:195`): where the head fills the buffer, the full buffer is written but
  the rest of that field and the new index are lost, so that heads of 1024 bytes and more are
  garbled; if nothing can be written the loop does not end; a write in part counts as a whole one. A
  host without a path is copied at any length, a request line is cut at 1023 bytes, a `#` before
  the first `/` makes the path too long.
- Resources: the answer to a progress report cannot be told from that to the result report
  (`resource_mqtt.c:168`), so that the late answer to the one of 100 % makes
  `IOT_Resource_ReportUploadSuccess` succeed (`resource_client.c:404-425`); `info_reset` loses the HTTP handle (`resource_client.c:245`); `resource_mqtt_init` frees
  its handle on a timeout while the SUBSCRIBE is under way; `IOT_Resource_ReportMsg` passes the
  channel of the download for both directions (`:1153`); an upload whose connection was closed
  reads the answer of the server from it, after the report has cleared the record (`:656-663`).
- Files: the post is taken out of the list only after the callback for its URL
  (`file_manage_client.c:739-745`); when that callback yields and the answer comes again, the file is posted
  twice and the entry removed twice. A full list of posts stays full until an answer to another post is looked up; a deletion
  without a version leaves the state at deleting; a reply with the version that fails makes the
  client drop later messages; a download that was disconnected cannot be fetched on.

*Speech, Wi-Fi, registration, digests*
- The lookup by token returns the head of the list, if that has a token, where no entry matches
  (`asr_client.c:397`): a late result goes to another request and ends it. Lookups drop late requests
  without their slice file; a refused recording leaks its request while the upload goes on; a file
  that cannot be opened is reported as success with an uninitialised id; a request refused inside
  the result callback may free the one that the caller still holds; the result is asked for even
  after an upload has failed; destroying the client frees no handle.
- The flags of soft AP and smart config are set after the task was created, and two log tasks may
  share one flag. A token that could not be sent leaves the state at success, as the failure
  is overwritten (`qcloud_wifi_config_device_bind.c:402-408`).
- Dynamic registration: an answer without the secret returns success; a secret that is too long is
  copied as it is; one block too many is decrypted, which still fits the buffer (`DecryptFits`).
- HMAC with a key longer than a block leaves the result untouched.

## 6. Not modelled, and the plan

Not modelled, with the reason:

- *Ring buffer* (`utils_ringbuff.c`): no file of the repository uses it. *QR code generator*: vendored.
- *Scan of the wait lists node by node with calls inside timeout callbacks*: the inner call frees the
  node the outer scan holds; after that the behaviour is undefined, and before it the scans are the
  single steps that `Subscriptions` and `PublishQos1` have.
- *Locks of the `MULTITHREAD_ENABLED` build*: in this build they do nothing. The interleaving of the
  OTA task with the main task is modelled at the granularity of calls of the client.
- *Timers of 32 bits*: a timer may run out at any step, which includes one misread early; one that
  is misread late for good would break every liveness property, and is excluded by fairness.
- *Automation of gateway sub-devices* (`gateway_api.c:564-770`): subscriptions and publishes that pass
  through, with no state of their own.
- *The queue of Wi-Fi logs* (`qcloud_wifi_config_log_handle.c`, `_error_handle.c`): its queue belongs to
  FreeRTOS and the formatting is what there is. Read with these results: `save_error_log` copies by
  the index of the wrong loop; the test of success compares a size with 0 and always fails; the
  handle of the queue dangles after `HAL_QueueDestory`; `HAL_Wifi_read_err_log` leaves the header
  uninitialised; `app_send_dev_log` sizes its buffer by a count that other tasks may raise before
  it reads (`:119`).
- *Rounds of AES, MD5 and SHA-1*, wording of messages, logging, the getters, the samples but for the
  loops named above, the vendor's Wi-Fi calls, UDP and mDNS, the mbedTLS library.

Next: the types of the three services not proved about, and with them `TypeOK` of `Services`; the
secret of `DynReg`, once what its buffers hold is stated by positions and not by a fold.
