------------------------------- MODULE Client -------------------------------
(***************************************************************************)
(* The client library (client.c) and the conversation it has with one      *)
(* session of the server (protocol.c, the request loop of server.c).       *)
(*                                                                         *)
(* Threads of the caller share one client object, whose lock they hold for *)
(* a whole call; a call sends a header and a payload and waits for those   *)
(* of the response.  Each direction of the connection is a stream; sends   *)
(* and receives fail or time out at any point, the server may end the      *)
(* session at any point, and what was sent before may still be read after  *)
(* the other side closed.  A caller that disconnects may connect again     *)
(* while the old session is still working off what it had received.        *)
(***************************************************************************)
EXTENDS Integers, Sequences, FiniteSets

CONSTANTS
    Users,          \* threads of the calling program
    Values, Zero,   \* bytes
    MaxData,        \* max_payload_size less the fixed part: bytes moved by one request
    MaxConnects,    \* bound: sessions at a time, the old ones that are not over yet included
    Loads,          \* what the callers do
    None

(* A load: the threads that call, the calls they make, the bytes they      *)
(* write, the length of the note, the lengths of a read or a write, the    *)
(* handles of a session, how the note can fail under a read or a write,    *)
(* the connections, 1..n, and UINT64_MAX of next_request_id.               *)
ASSUME ClientAssumption ==
    /\ MaxData \in Nat \ {0} /\ MaxConnects \in Nat \ {0} /\ Zero \notin Values
    /\ \A w \in Loads :
        /\ w.users \subseteq Users /\ w.values \subseteq Values /\ w.lengths \subseteq 0..w.note
        /\ w.errors \subseteq {"OUT_OF_MEMORY", "NO_SPACE", "IO"} /\ w.conns \in 1..MaxConnects /\ w.maxId \in Nat \ {0}

VARIABLES
    client,         \* the client object, or None
    call,           \* the call of each user
    up, down,       \* the two streams of each connection, as the frames in them
    peer,           \* the server's session of each connection
    note,           \* the bytes of the note
    held,           \* handles that the callers hold
    may,            \* may[b]: what byte b can be, for all that the callers were told
    load            \* the load, which never changes

vars == <<client, call, up, down, peer, note, held, may, load>>

Conns == 1..MaxConnects

Bytes == 0..load.note-1

NoCall == [at |-> "idle", op |-> None, h |-> None, off |-> 0, len |-> 0, val |-> None, total |-> 0,
           id |-> None, unsure |-> [b \in Bytes |-> {}], answer |-> None, data |-> <<>>, status |-> None]

NoPeer == [at |-> "none", handles |-> {}, request |-> None, response |-> None,
           served |-> None, close |-> FALSE]

(* The client's socket is closed: sending to it may fail, or succeed for nobody to read. *)
ClosedByClient(g) == client = None \/ (client # None /\ (client.conn # g \/ client.broken))

(* The session has ended: its handles are released with it. *)
Gone(g) == [NoPeer EXCEPT !.at = "gone", !.served = IF ClosedByClient(g) THEN None ELSE peer[g].served]

(***************************************************************************)
(* Statuses and their form on the wire.                                    *)
(***************************************************************************)
Statuses == {"OK", "INVALID_ARGUMENT", "OUT_OF_MEMORY", "NO_SPACE", "IO", "BUSY", "NOT_FOUND", "PERMISSION",
             "ADDRESS_IN_USE", "UNSUPPORTED"}

(* minimm_protocol_status_from_minimm *)
StatusFrom(s) ==
    CASE s = "IO" -> "IO_ERROR"
      [] s = "PERMISSION" -> "PERMISSION_DENIED"
      [] s = "UNSUPPORTED" -> "UNSUPPORTED_OPCODE"
      [] s \in Statuses \ {"IO", "PERMISSION", "UNSUPPORTED"} -> s
      [] OTHER -> "INTERNAL_ERROR"

(* minimm_protocol_status_to_minimm *)
StatusTo(w) ==
    CASE w \in {"OK", "NOT_FOUND", "OUT_OF_MEMORY", "BUSY", "ADDRESS_IN_USE"} -> w
      [] w \in {"MALFORMED_MESSAGE", "INVALID_ARGUMENT"} -> "INVALID_ARGUMENT"
      [] w \in {"UNSUPPORTED_VERSION", "UNSUPPORTED_OPCODE"} -> "UNSUPPORTED"
      [] w \in {"NO_SPACE", "LIMIT_EXCEEDED"} -> "NO_SPACE"
      [] w = "PERMISSION_DENIED" -> "PERMISSION"
      [] OTHER -> "IO"

(***************************************************************************)
(* The client: connecting, and one exchange under its lock.                *)
(***************************************************************************)
Init ==
    /\ load \in Loads
    /\ client = None
    /\ call = [u \in Users |-> NoCall]
    /\ up = [g \in Conns |-> <<>>] /\ down = [g \in Conns |-> <<>>]
    /\ peer = [g \in Conns |-> NoPeer]
    /\ note = [b \in Bytes |-> Zero]
    /\ held = {}
    /\ may = [b \in Bytes |-> {Zero}]

Go(u, at) == call' = [call EXCEPT ![u].at = at]

(* The bytes that the request in hand moves. *)
Chunk(c) == IF c.len - c.total < MaxData THEN c.len - c.total ELSE MaxData

Span(off, n) == {b \in Bytes : off <= b /\ b < off + n}

(* What requests on other connections may still write to byte b: a call    *)
(* notes it in [unsure] when it sends a request.                           *)
InFlight(b, g) ==
    LET Sent(k) == {up[k][i].msg : i \in 1..Len(up[k])}
                       \cup (IF peer[k].at \in {"payload", "dispatch"} THEN {peer[k].request} ELSE {})
    IN  {m.val : m \in {m \in UNION {Sent(k) : k \in Conns \ {g}} : m.op = "write" /\ b \in Span(m.off, m.n)}}

(* No session, or one that is over: its place can be taken by a new connection. *)
Ended(g) == peer[g].at \in {"none", "gone"}

(* minimm_client_connect: a socket, the object, and the greeting that it sends under its own lock. *)
Connect(u) ==
    /\ client = None /\ \A v \in Users : call[v].at = "idle"
    /\ \E g \in 1..load.conns :
        /\ Ended(g) /\ \A k \in Conns : k < g => ~Ended(k)
        /\ client' = [conn |-> g, broken |-> FALSE, next |-> 1, lock |-> u, ready |-> FALSE]
        /\ peer' = [peer EXCEPT ![g] = [NoPeer EXCEPT !.at = "idle"]]
    /\ call' = [call EXCEPT ![u] = [NoCall EXCEPT !.at = "exchange", !.op = "hello"]]
    /\ held' = {}
    /\ UNCHANGED <<up, down, note, may, load>>

(* minimm_client_disconnect, never while another call is under way. *)
Disconnect(u) ==
    /\ client # None /\ client.ready /\ \A v \in Users : call[v].at = "idle"
    /\ client' = None
    /\ down' = [down EXCEPT ![client.conn] = <<>>]
    /\ UNCHANGED <<call, up, peer, note, held, may, load>>

(* A caller enters a call. *)
Begin(u) ==
    /\ client # None /\ client.ready /\ call[u].at = "idle"
    /\ \/ \E op \in load.ops \cap {"ping", "open"} : call' = [call EXCEPT ![u] = [NoCall EXCEPT !.at = "lock", !.op = op]]
       \/ \E op \in load.ops \cap {"close"}, h \in held :
            call' = [call EXCEPT ![u] = [NoCall EXCEPT !.at = "lock", !.op = op, !.h = h]]
       \/ \E op \in load.ops \cap {"read", "write"}, h \in held, len \in load.lengths, val \in load.values :
            \E off \in 0..load.note-len :
                call' = [call EXCEPT ![u] = [NoCall EXCEPT !.at = "lock", !.op = op, !.h = h, !.off = off, !.len = len,
                                                           !.val = IF op = "write" THEN val ELSE None]]
    /\ UNCHANGED <<client, up, down, peer, note, held, may, load>>

Lock(u) ==
    /\ call[u].at = "lock" /\ client.lock = None
    /\ client' = [client EXCEPT !.lock = u]
    /\ Go(u, "exchange")
    /\ UNCHANGED <<up, down, peer, note, held, may, load>>

(* minimm_client_next_request_id_locked *)
NextId == IF client.next = load.maxId THEN 1 ELSE client.next + 1

(* The exchange begins: a broken client fails at once. *)
Exchange(u) ==
    /\ call[u].at = "exchange"
    /\ IF client.broken
       THEN /\ call' = [call EXCEPT ![u].at = "unlock", ![u].status = "IO"]
            /\ UNCHANGED client
       ELSE /\ call' = [call EXCEPT ![u].at = "sendHeader", ![u].id = client.next,
                                    ![u].unsure = [b \in Bytes |-> InFlight(b, client.conn)]]
            /\ client' = [client EXCEPT !.next = NextId]
    /\ UNCHANGED <<up, down, peer, note, held, may, load>>

(* Seeded fault: the socket is kept after a failure, for the next call. *)
BreakKeeping(u, status) ==
    /\ UNCHANGED <<client, down>>
    /\ call' = [call EXCEPT ![u].at = "unlock", ![u].status = status]
    /\ may' = IF call[u].op = "write"
              THEN [b \in Bytes |-> IF b \in Span(call[u].off + call[u].total, Chunk(call[u]))
                                    THEN may[b] \cup {call[u].val} ELSE may[b]]
              ELSE may

(* minimm_client_break_locked and the error returned.  The outcome of the request is unknown,  *)
(* and what has arrived is dropped with the socket.                                            *)
Break(u, status) ==
    /\ client' = [client EXCEPT !.broken = TRUE]
    /\ down' = [down EXCEPT ![client.conn] = <<>>]
    /\ call' = [call EXCEPT ![u].at = "unlock", ![u].status = status]
    /\ may' = IF call[u].op = "write"
              THEN [b \in Bytes |-> IF b \in Span(call[u].off + call[u].total, Chunk(call[u]))
                                    THEN may[b] \cup {call[u].val} ELSE may[b]]
              ELSE may

Message(c) == [op |-> c.op, id |-> c.id, h |-> c.h, off |-> c.off + c.total, n |-> Chunk(c), val |-> c.val]

(* minimm_protocol_send_all of the header, then of the payload. *)
Send(u) ==
    /\ call[u].at \in {"sendHeader", "sendPayload"}
    /\ \/ /\ up' = IF peer[client.conn].at = "gone" THEN up
                   ELSE [up EXCEPT ![client.conn] = Append(@, [part |-> call[u].at, msg |-> Message(call[u])])]
          /\ Go(u, IF call[u].at = "sendHeader" THEN "sendPayload" ELSE "recvHeader")
          /\ UNCHANGED <<client, down, may>>
       \/ Break(u, "IO") /\ UNCHANGED up
    /\ UNCHANGED <<peer, note, held, load>>

Arrived(u) == down[client.conn] # <<>>

(* The response header decodes and answers this request. *)
Matches(u, frame) ==
    /\ frame.part = "header"
    /\ frame.msg.op = call[u].op /\ frame.msg.id = call[u].id

(* minimm_protocol_recv_exact of the response header.  It fails at the end of the stream and after the    *)
(* timeout, at any moment; a header that does not match is refused.                                        *)
ReceiveHeader(u) ==
    /\ call[u].at = "recvHeader"
    /\ \/ /\ Arrived(u) /\ Matches(u, Head(down[client.conn]))
          /\ call' = [call EXCEPT ![u].at = IF Head(down[client.conn]).msg.body THEN "recvPayload" ELSE "take",
                                  ![u].answer = Head(down[client.conn]).msg]
          /\ down' = [down EXCEPT ![client.conn] = Tail(@)]
          /\ UNCHANGED <<client, may>>
       \/ Break(u, "IO")
    /\ UNCHANGED <<up, peer, note, held, load>>

(* Seeded fault: without memory for the payload the call fails and the client is kept. *)
ReceivePayloadKeeping(u) ==
    /\ call[u].at = "recvPayload"
    /\ \/ /\ Arrived(u)
          /\ Go(u, "take")
          /\ down' = [down EXCEPT ![client.conn] = Tail(@)]
          /\ UNCHANGED <<client, may>>
       \/ BreakKeeping(u, "OUT_OF_MEMORY") \/ Break(u, "IO")
    /\ UNCHANGED <<up, peer, note, held, load>>

(* Memory for the payload, and the payload. *)
ReceivePayload(u) ==
    /\ call[u].at = "recvPayload"
    /\ \/ /\ Arrived(u)
          /\ Go(u, "take")
          /\ down' = [down EXCEPT ![client.conn] = Tail(@)]
          /\ UNCHANGED <<client, may>>
       \/ \E status \in {"OUT_OF_MEMORY", "IO"} : Break(u, status)
    /\ UNCHANGED <<up, peer, note, held, load>>

(***************************************************************************)
(* What the calls make of the response.  The server's own responses have   *)
(* the lengths and fields that the calls check; see the README for the     *)
(* checks that this leaves out.                                            *)
(***************************************************************************)
ServerStatus(u) == StatusTo(call[u].answer.status)

Return(u, status) == call' = [call EXCEPT ![u].at = "unlock", ![u].status = status]

(* minimm_client_handshake_locked *)
TakeHello(u) ==
    /\ call[u].at = "take" /\ call[u].op = "hello"
    /\ Return(u, ServerStatus(u))
    /\ client' = [client EXCEPT !.ready = ServerStatus(u) = "OK"]
    /\ UNCHANGED <<up, down, peer, note, held, may, load>>

(* minimm_client_ping, and the calls whose success has no result: flush, unlink, stat. *)
TakeEmpty(u) ==
    /\ call[u].at = "take" /\ call[u].op = "ping"
    /\ Return(u, ServerStatus(u))
    /\ UNCHANGED <<client, up, down, peer, note, held, may, load>>

(* minimm_client_note_create, _copy and _open: out_note is filled in on success only. *)
TakeHandle(u) ==
    /\ call[u].at = "take" /\ call[u].op = "open"
    /\ Return(u, ServerStatus(u))
    /\ held' = IF ServerStatus(u) = "OK" THEN held \cup {call[u].answer.h} ELSE held
    /\ UNCHANGED <<client, up, down, peer, note, may, load>>

(* minimm_client_note_close: the caller's note is cleared on success only. *)
TakeClose(u) ==
    /\ call[u].at = "take" /\ call[u].op = "close"
    /\ Return(u, ServerStatus(u))
    /\ held' = IF ServerStatus(u) = "OK" THEN held \ {call[u].h} ELSE held
    /\ UNCHANGED <<client, up, down, peer, note, may, load>>

(* After a part of a read or a write: another request, or the end of the call. *)
Continue(c, n) ==
    IF StatusTo(c.answer.status) # "OK"
    THEN [c EXCEPT !.at = "unlock", !.total = @ + n, !.status = StatusTo(c.answer.status)]
    ELSE IF c.total + n < c.len THEN [c EXCEPT !.at = "exchange", !.total = @ + n, !.answer = None]
    ELSE [c EXCEPT !.at = "unlock", !.total = @ + n, !.status = "OK"]

(* Seeded fault: the next part of a read overwrites the first. *)
TakeReadAtStart(u) ==
    /\ call[u].at = "take" /\ call[u].op = "read"
    /\ LET answer == call[u].answer
           n == IF answer.body THEN answer.n ELSE 0
       IN  call' = [call EXCEPT ![u] = [Continue(@, n) EXCEPT !.data = answer.data \o SubSeq(@, n + 1, Len(@))]]
    /\ UNCHANGED <<client, up, down, peer, note, held, may, load>>

(* minimm_client_note_read_locked: an error may come with no progress at all, or with what was read. *)
TakeRead(u) ==
    /\ call[u].at = "take" /\ call[u].op = "read"
    /\ LET answer == call[u].answer
           n == IF answer.body THEN answer.n ELSE 0
       IN  call' = [call EXCEPT ![u] = [Continue(@, n) EXCEPT !.data = @ \o answer.data]]
    /\ UNCHANGED <<client, up, down, peer, note, held, may, load>>

(* Seeded fault: the whole request counts as written, whatever the server completed. *)
TakeWriteAll(u) ==
    /\ call[u].at = "take" /\ call[u].op = "write"
    /\ LET c == call[u]
           n == IF c.answer.body THEN Chunk(c) ELSE 0
       IN  /\ call' = [call EXCEPT ![u] = Continue(c, n)]
           /\ may' = [b \in Bytes |-> IF b \in Span(c.off + c.total, n)
                                      THEN {c.val} \cup c.unsure[b] ELSE may[b]]
    /\ UNCHANGED <<client, up, down, peer, note, held, load>>

(* minimm_client_note_send_data_locked: what the server completed is what was written. *)
TakeWrite(u) ==
    /\ call[u].at = "take" /\ call[u].op = "write"
    /\ LET c == call[u]
           n == IF c.answer.body THEN c.answer.n ELSE 0
       IN  /\ call' = [call EXCEPT ![u] = Continue(c, n)]
           /\ may' = [b \in Bytes |-> IF b \in Span(c.off + c.total, n)
                                      THEN {c.val} \cup c.unsure[b] ELSE may[b]]
    /\ UNCHANGED <<client, up, down, peer, note, held, load>>

(* The next request of a long write finds no memory: what was written so far is reported. *)
RequestFails(u) ==
    /\ call[u].at = "exchange" /\ call[u].op = "write"
    /\ Return(u, "OUT_OF_MEMORY")
    /\ UNCHANGED <<client, up, down, peer, note, held, may, load>>

(* The call unlocks and returns; a greeting that failed takes its client with it. *)
Unlock(u) ==
    /\ call[u].at = "unlock"
    /\ IF call[u].op = "hello" /\ ~client.ready
       THEN client' = None /\ down' = [down EXCEPT ![client.conn] = <<>>]
       ELSE client' = [client EXCEPT !.lock = None] /\ UNCHANGED down
    /\ call' = [call EXCEPT ![u] = NoCall]
    /\ UNCHANGED <<up, peer, note, held, may, load>>

(***************************************************************************)
(* The server's session of connection g: minimm_server_serve_client.       *)
(***************************************************************************)
(* A request header, then its payload. *)
ServerReceive(g) ==
    /\ peer[g].at \in {"idle", "payload"} /\ up[g] # <<>>
    /\ LET frame == Head(up[g])
       IN  IF peer[g].at = "idle" /\ frame.part = "sendHeader"
           THEN peer' = [peer EXCEPT ![g].at = "payload", ![g].request = frame.msg]
           ELSE IF peer[g].at = "payload" /\ frame.part = "sendPayload"
           THEN peer' = [peer EXCEPT ![g].at = "dispatch"]
           ELSE peer' = [peer EXCEPT ![g] = Gone(g)]
    /\ up' = [up EXCEPT ![g] = Tail(@)]
    /\ UNCHANGED <<client, call, down, note, held, may, load>>

Respond(g, status, body, n, data, h) ==
    [op |-> peer[g].request.op, id |-> peer[g].request.id, status |-> StatusFrom(status), body |-> body, n |-> n,
     data |-> data, h |-> h]

(* The response is made; [served] remembers which request it answers and how. *)
Answer(g, status, body, n, data, h, handles) ==
    peer' = [peer EXCEPT ![g].at = "header", ![g].response = Respond(g, status, body, n, data, h),
                         ![g].request = None, ![g].handles = handles,
                         ![g].close = peer[g].request.op = "hello" /\ status # "OK",
                         ![g].served = IF ClosedByClient(g) THEN None
                                       ELSE [id |-> peer[g].request.id, op |-> peer[g].request.op, status |-> status]]

(* The greeting, a ping, opening and closing a handle. *)
DispatchSimple(g) ==
    LET r == peer[g].request
        handles == peer[g].handles
        Plain(status) == Answer(g, status, FALSE, 0, <<>>, None, handles)
    IN  /\ peer[g].at = "dispatch"
        /\ \/ /\ r.op = "hello"
              /\ Answer(g, "OK", TRUE, 0, <<>>, None, {}) \/ Plain("UNSUPPORTED")
           \/ r.op = "ping" /\ Answer(g, "OK", TRUE, 0, <<>>, None, handles)
           \/ /\ r.op = "open"
              /\ IF load.handles \subseteq handles THEN Plain("NO_SPACE")
                 ELSE \/ \E h \in load.handles \ handles : Answer(g, "OK", TRUE, 0, <<>>, h, handles \cup {h})
                      \/ Plain("NOT_FOUND")
           \/ /\ r.op = "close"
              /\ IF r.h \in handles THEN Answer(g, "OK", FALSE, 0, <<>>, None, handles \ {r.h})
                 ELSE Plain("NOT_FOUND")
        /\ UNCHANGED <<client, call, up, down, note, held, may, load>>

(* minimm_server_handle_read and _write_or_edit: refused, or done up to the byte at which the note fails. *)
DispatchData(g) ==
    LET r == peer[g].request
        handles == peer[g].handles
    IN  /\ peer[g].at = "dispatch" /\ r.op \in {"read", "write"}
        /\ \/ /\ r.h \notin handles
              /\ Answer(g, "NOT_FOUND", TRUE, 0, <<>>, None, handles)
              /\ UNCHANGED note
           \/ /\ Answer(g, "OUT_OF_MEMORY", FALSE, 0, <<>>, None, handles)
              /\ UNCHANGED note
           \/ /\ r.h \in handles
              /\ \E n \in 0..r.n, status \in {"OK"} \cup load.errors :
                    /\ status = "OK" <=> n = r.n
                    /\ Answer(g, status, TRUE, n, [i \in 1..(IF r.op = "read" THEN n ELSE 0) |-> note[r.off + i - 1]],
                              None, handles)
                    /\ note' = IF r.op = "write" THEN [b \in Bytes |-> IF b \in Span(r.off, n) THEN r.val ELSE note[b]]
                               ELSE note
        /\ UNCHANGED <<client, call, up, down, held, may, load>>

(* minimm_server_send_response: the header, and the payload if there is one. *)
ServerSend(g) ==
    /\ peer[g].at \in {"header", "body"}
    /\ down' = IF ClosedByClient(g) THEN down
               ELSE [down EXCEPT ![g] = Append(@, [part |-> peer[g].at, msg |-> peer[g].response])]
    /\ peer' = IF peer[g].at = "header" /\ peer[g].response.body THEN [peer EXCEPT ![g].at = "body"]
               ELSE IF peer[g].close THEN [peer EXCEPT ![g] = Gone(g)]
               ELSE [peer EXCEPT ![g].at = "idle", ![g].response = None]
    /\ UNCHANGED <<client, call, up, note, held, may, load>>

(* A receive or a send fails, times out or meets the end of the stream, or the server stops the session. *)
ServerEnds(g) ==
    /\ peer[g].at \notin {"none", "gone", "dispatch"}
    /\ peer' = [peer EXCEPT ![g] = Gone(g)]
    /\ up' = [up EXCEPT ![g] = <<>>]
    /\ UNCHANGED <<client, call, down, note, held, may, load>>

UserStep(u) ==
    \/ Exchange(u) \/ Send(u) \/ ReceiveHeader(u) \/ ReceivePayload(u)
    \/ TakeHello(u) \/ TakeEmpty(u) \/ TakeHandle(u) \/ TakeClose(u) \/ TakeRead(u) \/ TakeWrite(u)
    \/ Unlock(u)

Next ==
    \/ \E u \in load.users : Connect(u) \/ Disconnect(u) \/ Begin(u) \/ Lock(u) \/ RequestFails(u) \/ UserStep(u)
    \/ \E g \in Conns : ServerReceive(g) \/ DispatchSimple(g) \/ DispatchData(g) \/ ServerSend(g) \/ ServerEnds(g)

Spec == Init /\ [][Next]_vars

-----------------------------------------------------------------------------
TypeOK ==
    /\ client = None \/ (client.lock \in Users \cup {None} /\ client.next \in 1..load.maxId)
    /\ \A u \in Users : call[u].total \in 0..call[u].len
    /\ \A g \in Conns : Len(up[g]) <= 2 /\ Len(down[g]) <= 2 /\ peer[g].handles \subseteq load.handles
    /\ note \in [Bytes -> Values \cup {Zero}] /\ held \subseteq load.handles

Answered(u) == call[u].at = "unlock" /\ call[u].answer # None /\ ~client.broken

(* A call that returns with an answer returns the status with which the    *)
(* server served that very request: no late response of an earlier call,   *)
(* and no conversion to and from the wire, comes between                   *)
(* (minimm_client_exchange_locked, minimm_protocol_status_to_minimm).      *)
(* Hence, while the client is not broken and no call is under way, the     *)
(* session has open exactly the handles that the callers hold: no failure  *)
(* of a call leaves a handle that nobody can close.                        *)
AnswersAreOwn ==
    /\ \A u \in Users : Answered(u) =>
        peer[client.conn].served = [id |-> call[u].id, op |-> call[u].op, status |-> call[u].status]
    /\ client # None /\ client.ready /\ ~client.broken /\ client.lock = None =>
        \/ peer[client.conn].handles = held
        \/ peer[client.conn].at = "gone"

(* The byte b of the note as the part of the write in hand may leave it. *)
Writing(b) == {call[u].val : u \in {v \in Users : /\ call[v].op = "write" /\ call[v].id # None
                                                  /\ b \in Span(call[v].off + call[v].total, Chunk(call[v]))}}

(* Every byte that a write reported as completed is in the note, unless a  *)
(* later write, or one whose outcome the caller was not told, replaced it  *)
(* (out_completed of minimm_client_note_send_data_locked).                 *)
CompletedIsWritten == TypeOK /\ \A b \in Bytes : note[b] \in may[b] \cup Writing(b)

(* A read reports as many bytes as it filled in, all of them when it       *)
(* succeeds, and each is a byte that the note could hold at its place      *)
(* (out_completed of minimm_client_note_read_locked).                      *)
ReadsAreOfTheNote ==
    \A u \in Users : call[u].at = "unlock" /\ call[u].op = "read" =>
        /\ call[u].total = Len(call[u].data)
        /\ call[u].status = "OK" => call[u].total = call[u].len
        /\ \A i \in 1..call[u].total : call[u].data[i] \in may[call[u].off + i - 1]

=============================================================================
