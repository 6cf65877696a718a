--------------------------- MODULE ServerRecords ----------------------------
(***************************************************************************)
(* The records of the note server: quotas, reference counts, capabilities  *)
(* and the handles of its sessions (server.c).  Every client has a thread  *)
(* that serves one request after the other; the threads meet at the atomic *)
(* counters, the registry lock and the lock of each record.  A request can *)
(* fail at every allocation, and its response can fail to be sent.         *)
(***************************************************************************)
EXTENDS Integers, FiniteSets, FiniteSetsExt

CONSTANTS
    Clients,
    Records,        \* places for records: more than max_notes are never live
    Caps,           \* capabilities that the random source yields
    MaxHandle,      \* UINT64_MAX of next_handle: this identifier is never given out
    Attempts,       \* attempts at a fresh capability (16 in the code)
    Loads,          \* configurations of the server and what its clients ask for
    None

(* A load: the limits of the server in records, pages and handles of a     *)
(* session, the requests that are sent, the note sizes in pages, all within*)
(* max_note_size, and the rights asked for.                                *)
ASSUME RecordsAssumption ==
    /\ Attempts \in Nat \ {0}
    /\ \A w \in Loads :
        /\ w.notes \in Nat \ {0} /\ w.total \in Nat \ {0} /\ w.handles \in 1..w.notes
        /\ w.sizes \subseteq 0..w.total /\ Cardinality(Records) > w.notes

VARIABLES
    record,         \* record[r]: its fields, or None
    liveRecords, totalSize,
    registry,       \* registry[cap]: the record linked under it, or None
    session,        \* state, handles and next_handle of each client
    call,           \* the request that each client's thread is serving
    load            \* the load, which never changes

vars == <<record, liveRecords, totalSize, registry, session, call, load>>

Ids == 1..MaxHandle-1

NoHandles == [i \in Ids |-> None]

NoSession == [state |-> "none", handle |-> NoHandles, next |-> 1]

(* at: the next step; rec: the record in hand; rel: the record being       *)
(* released, after which the thread goes to then; prov: the handle that is *)
(* provisional until the response is sent; tries: capabilities still tried.*)
NoCall == [at |-> "idle", op |-> None, size |-> 0, rights |-> {}, rec |-> None, src |-> None, rel |-> None,
           then |-> None, prov |-> None, tries |-> 0, close |-> FALSE]

Init ==
    /\ record = [r \in Records |-> None]
    /\ liveRecords = 0 /\ totalSize = 0
    /\ registry = [k \in Caps |-> None]
    /\ session = [c \in Clients |-> NoSession]
    /\ call = [c \in Clients |-> NoCall]
    /\ load \in Loads

Go(c, at) == call' = [call EXCEPT ![c].at = at]

(* The handler is done and leaves nothing but its response. *)
Answer(c) == call' = [call EXCEPT ![c] = [NoCall EXCEPT !.at = "respond"]]

(* minimm_server_record_release of r, and then on to the step [then]. *)
Releasing(c, r, then) ==
    call' = [call EXCEPT ![c].at = "release", ![c].rel = r, ![c].then = then]

Handles(c) == {i \in Ids : session[c].handle[i] # None}

Existing == {r \in Records : record[r] # None}

(***************************************************************************)
(* Requests.  What is malformed or refused goes straight to the response.  *)
(***************************************************************************)
Serving(c) == session[c].state = "open" /\ call[c].at = "idle"

Refuse(c) == Answer(c) /\ UNCHANGED session

Begin(c, op, at, size, rights, rec) ==
    /\ call' = [call EXCEPT ![c] = [NoCall EXCEPT !.op = op, !.at = at, !.size = size, !.rights = rights,
                                                  !.rec = rec, !.tries = Attempts]]
    /\ UNCHANGED session

Full(c) == Cardinality(Handles(c)) >= load.handles \/ session[c].next = MaxHandle

Connect(c) ==
    /\ session[c].state = "none"
    /\ session' = [session EXCEPT ![c] = [NoSession EXCEPT !.state = "greeting"]]
    /\ UNCHANGED <<record, liveRecords, totalSize, registry, call, load>>

(* minimm_server_handle_hello: anything but an acceptable greeting ends the session. *)
Hello(c) ==
    /\ session[c].state = "greeting" /\ call[c].at = "idle"
    /\ \/ /\ session' = [session EXCEPT ![c].state = "open"]
          /\ Answer(c)
       \/ /\ call' = [call EXCEPT ![c].at = "respond", ![c].close = TRUE]
          /\ UNCHANGED session
    /\ UNCHANGED <<record, liveRecords, totalSize, registry, load>>

(* A ping, an unknown or malformed request, or a second greeting, which ends the session. *)
NoEffect(c) ==
    /\ "ping" \in load.ops /\ Serving(c)
    /\ \E close \in BOOLEAN : call' = [call EXCEPT ![c].at = "respond", ![c].close = close]
    /\ UNCHANGED <<record, liveRecords, totalSize, registry, session, load>>

(* minimm_server_handle_create *)
Create(c) ==
    \E size \in load.sizes, rights \in load.rights :
        /\ "create" \in load.ops /\ Serving(c)
        /\ IF Full(c) THEN Refuse(c) ELSE Begin(c, "create", "reserveRecord", size, rights, None)
        /\ UNCHANGED <<record, liveRecords, totalSize, registry, load>>

(* minimm_server_handle_copy *)
Copy(c) ==
    \E i \in Ids, rights \in load.rights :
        LET h == session[c].handle[i]
        IN  /\ "copy" \in load.ops /\ Serving(c) /\ h # None
            /\ IF Full(c) \/ "read" \notin h.rights THEN Refuse(c)
               ELSE Begin(c, "copy", "lock", 0, rights, h.record)
            /\ UNCHANGED <<record, liveRecords, totalSize, registry, load>>

(* Seeded fault: a record that is shared is opened with any rights. *)
OpenAnyRights(c, k, rights) ==
    LET r == registry[k]
    IN  /\ IF r = None \/ Full(c) THEN Refuse(c) /\ UNCHANGED record
           ELSE IF "share" \notin record[r].rights THEN Refuse(c) /\ UNCHANGED record
           ELSE /\ record' = [record EXCEPT ![r].refs = @ + 1]
                /\ Begin(c, "open", "add", 0, rights, r)
        /\ UNCHANGED <<liveRecords, totalSize, registry, load>>

(* minimm_server_registry_open, under the registry lock. *)
RegistryOpen(c, k, rights) ==
    LET r == registry[k]
    IN  /\ IF r = None \/ Full(c) THEN Refuse(c) /\ UNCHANGED record
           ELSE IF ~(rights \cup {"share"} \subseteq record[r].rights) THEN Refuse(c) /\ UNCHANGED record
           ELSE /\ record' = [record EXCEPT ![r].refs = @ + 1]
                /\ Begin(c, "open", "add", 0, rights, r)
        /\ UNCHANGED <<liveRecords, totalSize, registry, load>>

(* minimm_server_handle_open *)
Open(c) ==
    \E k \in Caps, rights \in load.rights :
        "open" \in load.ops /\ Serving(c) /\ RegistryOpen(c, k, rights)

(* minimm_server_handle_close *)
Close(c) ==
    \E i \in Handles(c) :
        /\ "close" \in load.ops /\ Serving(c)
        /\ session' = [session EXCEPT ![c].handle[i] = None]
        /\ Releasing(c, session[c].handle[i].record, "respond")
        /\ UNCHANGED <<record, liveRecords, totalSize, registry, load>>

(* Rights that the requests on a note need, and those that rule them out. *)
Needed(op) ==
    CASE op \in {"read", "copy", "preview"} -> {"read"} [] op \in {"write", "flush"} -> {"write"}
      [] op = "edit" -> {"write", "edit"} [] op = "resize" -> {"resize"} [] OTHER -> {}

Excluded(op) == IF op = "preview" THEN {"write", "edit"} ELSE {}

(* Stat, read, write, edit, flush and the previews hold the lock of the record while they use the note. *)
Use(c) ==
    \E i \in Handles(c), op \in load.ops \cap {"stat", "read", "write", "edit", "flush", "preview"} :
        LET h == session[c].handle[i]
        IN  /\ Serving(c)
            /\ IF Needed(op) \subseteq h.rights /\ Excluded(op) \cap h.rights = {}
               THEN Begin(c, op, "lock", 0, {}, h.record) ELSE Refuse(c)
            /\ UNCHANGED <<record, liveRecords, totalSize, registry, load>>

(* minimm_server_handle_resize *)
Resize(c) ==
    \E i \in Handles(c), size \in load.sizes :
        LET h == session[c].handle[i]
        IN  /\ "resize" \in load.ops /\ Serving(c)
            /\ IF Needed("resize") \subseteq h.rights THEN Begin(c, "resize", "lock", size, {}, h.record)
               ELSE Refuse(c)
            /\ UNCHANGED <<record, liveRecords, totalSize, registry, load>>

(* minimm_server_registry_unlink: the reference of the registry goes after the lock. *)
Unlink(c) ==
    \E k \in Caps :
        LET r == registry[k]
        IN  /\ "unlink" \in load.ops /\ Serving(c)
            /\ IF r = None THEN Refuse(c) /\ UNCHANGED registry
               ELSE IF "delete" \notin record[r].rights THEN Refuse(c) /\ UNCHANGED registry
               ELSE /\ registry' = [registry EXCEPT ![k] = None]
                    /\ Releasing(c, r, "respond") /\ UNCHANGED session
            /\ UNCHANGED <<record, liveRecords, totalSize, load>>

(***************************************************************************)
(* Reserving and making a record.                                          *)
(***************************************************************************)
(* pthread_mutex_lock of the record's op_lock. *)
LockRecord(c) ==
    LET r == call[c].rec
        op == call[c].op
    IN  /\ call[c].at = "lock" /\ record[r].lock = None
        /\ record' = [record EXCEPT ![r].lock = c]
        /\ call' = IF op = "copy"
                   THEN [call EXCEPT ![c].at = "reserveRecord", ![c].src = r, ![c].size = record[r].size]
                   ELSE [call EXCEPT ![c].at = IF op = "resize" THEN "grow" ELSE "use"]
        /\ UNCHANGED <<liveRecords, totalSize, registry, session, load>>

Unlocked(r) == [record EXCEPT ![r].lock = None]

(* The note is used, and the lock released. *)
UseNote(c) ==
    /\ call[c].at = "use"
    /\ record' = Unlocked(call[c].rec)
    /\ Answer(c)
    /\ UNCHANGED <<liveRecords, totalSize, registry, session, load>>

(* A request that made no record ends; a copy still holds the lock of its source. *)
AbandonRecord(c) ==
    /\ record' = IF call[c].op = "copy" THEN Unlocked(call[c].src) ELSE record
    /\ Answer(c)

(* minimm_server_reserve_record: a place among the records ... *)
ReserveRecord(c) ==
    /\ call[c].at = "reserveRecord"
    /\ IF liveRecords < load.notes
       THEN liveRecords' = liveRecords + 1 /\ Go(c, "reserveBytes") /\ UNCHANGED record
       ELSE AbandonRecord(c) /\ UNCHANGED liveRecords
    /\ UNCHANGED <<totalSize, registry, session, load>>

(* ... and the bytes; a failure gives the place back. *)
ReserveBytes(c) ==
    /\ call[c].at = "reserveBytes"
    /\ IF call[c].size <= load.total - totalSize
       THEN totalSize' = totalSize + call[c].size /\ Go(c, "make")
       ELSE Go(c, "giveRecord") /\ UNCHANGED totalSize
    /\ UNCHANGED <<record, liveRecords, registry, session, load>>

(* Seeded fault: the copy does not retain its source. *)
MakeUnretained(c) ==
    LET src == call[c].src
    IN  /\ call[c].at = "make"
        /\ \E r \in Records \ Existing :
            /\ record' = [(IF src = None THEN record ELSE Unlocked(src)) EXCEPT ![r] =
                            [refs |-> 1, size |-> call[c].size, pages |-> call[c].size, rights |-> call[c].rights,
                             parent |-> src, lock |-> None, announced |-> FALSE]]
            /\ call' = [call EXCEPT ![c].at = IF "share" \in call[c].rights THEN "link" ELSE "add", ![c].rec = r]
        /\ UNCHANGED <<liveRecords, totalSize, registry, session, load>>

(* minimm_server_record_create and _copy: the record, its note and, for a copy, the hold on the source. *)
Make(c) ==
    LET src == call[c].src
        base == IF src = None THEN record ELSE [Unlocked(src) EXCEPT ![src].refs = @ + 1]
        pages == IF src = None THEN call[c].size ELSE record[src].pages
    IN  /\ call[c].at = "make"
        /\ \E r \in Records \ Existing :
            /\ record' = [base EXCEPT ![r] =
                            [refs |-> 1, size |-> call[c].size, pages |-> pages, rights |-> call[c].rights,
                             parent |-> src, lock |-> None, announced |-> FALSE]]
            /\ call' = [call EXCEPT ![c].at = IF "share" \in call[c].rights THEN "link" ELSE "add", ![c].rec = r]
        /\ UNCHANGED <<liveRecords, totalSize, registry, session, load>>

(* Seeded fault: the bytes stay reserved when the note cannot be made. *)
MakeFailsKeeping(c) ==
    /\ call[c].at = "make"
    /\ Go(c, "giveRecord")
    /\ UNCHANGED <<record, liveRecords, totalSize, registry, session, load>>

(* No memory for the record or its note. *)
MakeFails(c) ==
    /\ call[c].at = "make"
    /\ totalSize' = totalSize - call[c].size
    /\ Go(c, "giveRecord")
    /\ UNCHANGED <<record, liveRecords, registry, session, load>>

GiveRecord(c) ==
    /\ call[c].at = "giveRecord"
    /\ liveRecords' = liveRecords - 1
    /\ AbandonRecord(c)
    /\ UNCHANGED <<totalSize, registry, session, load>>

(* One attempt of minimm_server_registry_link: a random capability, looked *)
(* up and linked under the registry lock.                                  *)
RegistryLink(c, k) ==
    LET r == call[c].rec
    IN  /\ call[c].at = "link"
        /\ IF registry[k] = None
           THEN /\ registry' = [registry EXCEPT ![k] = r]
                /\ record' = [record EXCEPT ![r].refs = @ + 1]
                /\ Go(c, "add")
           ELSE /\ IF call[c].tries = 1 THEN Releasing(c, r, "respond")
                   ELSE call' = [call EXCEPT ![c].tries = @ - 1]
                /\ UNCHANGED <<record, registry>>
        /\ UNCHANGED <<liveRecords, totalSize, session, load>>

(* The random source fails. *)
LinkFails(c) ==
    /\ call[c].at = "link"
    /\ Releasing(c, call[c].rec, "respond")
    /\ UNCHANGED <<record, liveRecords, totalSize, registry, session, load>>

(* minimm_server_client_add_handle: the reference in hand becomes the handle's. *)
AddHandle(c) ==
    LET i == session[c].next
    IN  /\ call[c].at = "add"
        /\ session' = [session EXCEPT ![c].handle[i] = [record |-> call[c].rec, rights |-> call[c].rights],
                                      ![c].next = @ + 1]
        /\ call' = IF call[c].op = "open" THEN [call EXCEPT ![c].at = "lock"]     \* to read the size
                   ELSE [call EXCEPT ![c].at = "respond", ![c].prov = i]
        /\ UNCHANGED <<record, liveRecords, totalSize, registry, load>>

(***************************************************************************)
(* Resizing, under the lock of the record.                                 *)
(***************************************************************************)
(* The quota for a larger note, before it grows. *)
Grow(c) ==
    LET r == call[c].rec
        more == call[c].size - record[r].size
    IN  /\ call[c].at = "grow"
        /\ IF more <= 0 THEN Go(c, "resize") /\ UNCHANGED <<record, totalSize>>
           ELSE IF more <= load.total - totalSize
           THEN totalSize' = totalSize + more /\ Go(c, "resize") /\ UNCHANGED record
           ELSE record' = Unlocked(r) /\ Answer(c) /\ UNCHANGED totalSize
        /\ UNCHANGED <<liveRecords, registry, session, load>>

(* minimm_note_resize *)
NoteResize(c) ==
    /\ call[c].at = "resize"
    /\ record' = [record EXCEPT ![call[c].rec].pages = call[c].size]
    /\ Go(c, "account")
    /\ UNCHANGED <<liveRecords, totalSize, registry, session, load>>

Account(c) ==
    LET r == call[c].rec
        less == record[r].size - call[c].size
    IN  /\ call[c].at = "account"
        /\ record' = [Unlocked(r) EXCEPT ![r].size = call[c].size]
        /\ totalSize' = totalSize - (IF less > 0 THEN less ELSE 0)
        /\ Answer(c)
        /\ UNCHANGED <<liveRecords, registry, session, load>>

(* The note refuses; reserved growth is given back. *)
ResizeFails(c) ==
    LET r == call[c].rec
    IN  /\ call[c].at = "resize"
        /\ record' = Unlocked(r)
        /\ totalSize' = totalSize - (IF call[c].size > record[r].size THEN call[c].size - record[r].size ELSE 0)
        /\ Answer(c)
        /\ UNCHANGED <<liveRecords, registry, session, load>>

(***************************************************************************)
(* Responses, the end of a session, and releases.                          *)
(***************************************************************************)
SendOk(c) ==
    LET i == call[c].prov
    IN  /\ call[c].at = "respond"
        /\ record' = IF i = None THEN record ELSE [record EXCEPT ![session[c].handle[i].record].announced = TRUE]
        /\ session' = IF call[c].close THEN [session EXCEPT ![c].state = "ended"] ELSE session
        /\ call' = [call EXCEPT ![c] = NoCall]
        /\ UNCHANGED <<liveRecords, totalSize, registry, load>>

(* The response cannot be sent: the session ends, after minimm_server_response_rollback. *)
SendFails(c) ==
    /\ call[c].at = "respond"
    /\ session' = [session EXCEPT ![c].state = "ended"]
    /\ call' = [call EXCEPT ![c] = IF @.prov = None THEN NoCall ELSE [@ EXCEPT !.at = "rollback"]]
    /\ UNCHANGED <<record, liveRecords, totalSize, registry, load>>

(* minimm_server_registry_remove_record: somebody may have unlinked the record before. *)
RollbackRegistry(c) ==
    LET r == session[c].handle[call[c].prov].record
    IN  /\ call[c].at = "rollback"
        /\ registry' = [k \in Caps |-> IF registry[k] = r THEN None ELSE registry[k]]
        /\ IF \E k \in Caps : registry[k] = r THEN Releasing(c, r, "rollbackHandle") ELSE Go(c, "rollbackHandle")
        /\ UNCHANGED <<record, liveRecords, totalSize, session, load>>

RollbackHandle(c) ==
    /\ call[c].at = "rollbackHandle"
    /\ session' = [session EXCEPT ![c].handle[call[c].prov] = None]
    /\ Releasing(c, session[c].handle[call[c].prov].record, "idle")
    /\ UNCHANGED <<record, liveRecords, totalSize, registry, load>>

(* The connection is lost, times out or sends what is not a request. *)
Disconnect(c) ==
    /\ session[c].state \in {"greeting", "open"} /\ call[c].at = "idle"
    /\ session' = [session EXCEPT ![c].state = "ended"]
    /\ UNCHANGED <<record, liveRecords, totalSize, registry, call, load>>

(* minimm_server_client_release_handles *)
ReleaseHandle(c) ==
    LET i == Min(Handles(c))
    IN  /\ session[c].state = "ended" /\ call[c].at = "idle" /\ Handles(c) # {}
        /\ session' = [session EXCEPT ![c].handle[i] = None]
        /\ Releasing(c, session[c].handle[i].record, "idle")
        /\ UNCHANGED <<record, liveRecords, totalSize, registry, load>>

Gone(c) ==
    /\ session[c].state = "ended" /\ call[c].at = "idle" /\ Handles(c) = {}
    /\ session' = [session EXCEPT ![c] = NoSession]
    /\ UNCHANGED <<record, liveRecords, totalSize, registry, call, load>>

(* What follows the release; a rollback still needs its handle. *)
Resume(c) ==
    call' = [call EXCEPT ![c] = IF @.then = "rollbackHandle" THEN [@ EXCEPT !.at = "rollbackHandle", !.rel = None]
                                ELSE [NoCall EXCEPT !.at = call[c].then]]

(* minimm_server_record_release: the count ... *)
Release(c) ==
    LET r == call[c].rel
    IN  /\ call[c].at = "release"
        /\ record' = [record EXCEPT ![r].refs = @ - 1]
        /\ IF record[r].refs = 1 THEN Go(c, "free") ELSE Resume(c)
        /\ UNCHANGED <<liveRecords, totalSize, registry, session, load>>

(* ... and, for the last reference, the record and its bytes, ... *)
FreeRecord(c) ==
    LET r == call[c].rel
    IN  /\ call[c].at = "free"
        /\ record' = [record EXCEPT ![r] = None]
        /\ totalSize' = totalSize - record[r].size
        /\ call' = [call EXCEPT ![c].at = "freed", ![c].rel = record[r].parent]
        /\ UNCHANGED <<liveRecords, registry, session, load>>

(* ... its place, and the reference it held on its source. *)
FreePlace(c) ==
    /\ call[c].at = "freed"
    /\ liveRecords' = liveRecords - 1
    /\ IF call[c].rel = None THEN Resume(c) ELSE Go(c, "release")
    /\ UNCHANGED <<record, totalSize, registry, session, load>>

Request(c) ==
    Hello(c) \/ NoEffect(c) \/ Create(c) \/ Copy(c) \/ Open(c) \/ Close(c) \/ Use(c) \/ Resize(c) \/ Unlink(c)

(* What a thread does on its own, once it has a request or its session has ended. *)
ThreadStep(c) ==
    \/ LockRecord(c) \/ UseNote(c)
    \/ ReserveRecord(c) \/ ReserveBytes(c) \/ Make(c) \/ MakeFails(c) \/ GiveRecord(c)
    \/ LinkFails(c) \/ AddHandle(c) \/ \E k \in Caps : RegistryLink(c, k)
    \/ Grow(c) \/ NoteResize(c) \/ ResizeFails(c) \/ Account(c)
    \/ RollbackRegistry(c) \/ RollbackHandle(c) \/ ReleaseHandle(c)
    \/ Release(c) \/ FreeRecord(c) \/ FreePlace(c)

Next ==
    \E c \in Clients :
        Connect(c) \/ Request(c) \/ ThreadStep(c) \/ SendOk(c) \/ SendFails(c) \/ Disconnect(c) \/ Gone(c)

Spec == Init /\ [][Next]_vars

(***************************************************************************)
(* Properties.                                                             *)
(***************************************************************************)
TypeOK ==
    /\ \A r \in Existing : record[r].refs \in Nat /\ record[r].parent \in Records \cup {None}
    /\ liveRecords \in 0..load.notes /\ totalSize \in 0..load.total
    /\ \A k \in Caps : registry[k] \in Records \cup {None}
    /\ \A c \in Clients :
        /\ session[c].state \in {"none", "greeting", "open", "ended"}
        /\ session[c].next \in 1..MaxHandle /\ Cardinality(Handles(c)) <= load.handles

(* Clients at one of the given steps. *)
At(S) == {c \in Clients : call[c].at \in S}

(* References to r held by threads: a new or opened record in hand, one being released. *)
InHand(r) ==
    Cardinality({c \in At({"link", "add"}) : call[c].rec = r})
    + Cardinality({c \in At({"release"}) : call[c].rel = r})
    + Cardinality({c \in At({"freed"}) : call[c].rel = r})

(* The record whose lock the request of c needs at its step. *)
LockedBy(c) ==
    CASE c \in At({"use", "grow", "resize", "account"}) -> call[c].rec
      [] c \in At({"reserveRecord", "reserveBytes", "make", "giveRecord"}) -> call[c].src
      [] OTHER -> None

(* Every reference count is the number of holders, so that a record lives  *)
(* exactly as long as a handle, the registry, a copy or a thread needs it  *)
(* (minimm_server_record_retain and _release in every handler), and nobody *)
(* holds a record that is gone: not a handle, not the registry, not a copy *)
(* that reads through it, and not a thread that uses or locks it; no path  *)
(* out of a request leaves a record locked.  A record whose creator never  *)
(* learned its capability does not stay in the registry: it is there only  *)
(* while its creation is under way (minimm_server_response_rollback).      *)
ReferencesCounted ==
    /\ TypeOK
    /\ \A r \in Existing :
        record[r].refs = Cardinality({<<c, i>> \in Clients \X Ids :
                                        session[c].handle[i] # None /\ session[c].handle[i].record = r})
                         + Cardinality({k \in Caps : registry[k] = r})
                         + Cardinality({q \in Existing : record[q].parent = r})
                         + InHand(r)
    /\ \A c \in Clients : \A i \in Handles(c) : session[c].handle[i].record \in Existing
    /\ \A k \in Caps : registry[k] # None =>
        /\ registry[k] \in Existing
        /\ \/ record[registry[k]].announced
           \/ \E c \in Clients : call[c].rec = registry[k] /\ call[c].op \in {"create", "copy"}
    /\ \A r \in Existing : record[r].parent # None => record[r].parent \in Existing
    /\ \A c \in At({"lock", "use", "grow", "resize", "account", "link", "add"}) : call[c].rec \in Existing
    /\ \A r \in Existing : record[r].lock # None => r = LockedBy(record[r].lock)

(* Bytes that threads have reserved for records not yet made, or for growth not yet accounted. *)
Reserved ==
    MapThenSumSet(LAMBDA c : call[c].size, At({"make"}))
    + MapThenSumSet(LAMBDA c : IF call[c].size > record[call[c].rec].size
                               THEN call[c].size - record[call[c].rec].size ELSE 0,
                    At({"resize", "account"}))

(* The quotas are exact: they count the records there are and what the     *)
(* requests under way have reserved, so no failure path leaks or gives     *)
(* back twice (server.c:180-301 and the handlers of create, copy, resize). *)
(* The notes never take more than that, also while a resize is half-way:   *)
(* growth is reserved before it happens and shrinking is given back after; *)
(* and outside a resize the accounted size is the size.                    *)
QuotasExact ==
    /\ totalSize = MapThenSumSet(LAMBDA r : record[r].size, Existing) + Reserved
    /\ liveRecords = Cardinality(Existing) + Cardinality(At({"reserveBytes", "make", "giveRecord", "freed"}))
    /\ MapThenSumSet(LAMBDA r : record[r].pages, Existing) <= totalSize
    /\ \A r \in Existing : record[r].lock = None => record[r].pages = record[r].size

(* A thread works on a record only with rights that its creator allowed:   *)
(* a capability opens no more than that, whatever the opener asks for      *)
(* (minimm_server_registry_open, and the check of each handler).           *)
UsesWithinRights ==
    \A c \in At({"lock", "use", "grow", "resize", "account"}) :
        call[c].op # "open" => Needed(call[c].op) \subseteq record[call[c].rec].rights

=============================================================================
