------------------------------- MODULE Server -------------------------------
(***************************************************************************)
(* The life of the note server (server.c): minimm_server_start and _stop,  *)
(* called by several threads of the embedder, the thread that accepts      *)
(* connections, and the threads that serve them, each of which works on    *)
(* the records of module ServerRecords.  The threads share state_lock; an  *)
(* action that reads or changes what the lock protects stands for one      *)
(* critical section.  state_changed is the set of threads asleep on it.    *)
(***************************************************************************)
EXTENDS ServerRecords

CONSTANTS
    Callers         \* threads of the embedder

(* A load of the server also gives max_clients, and bounds the calls of minimm_server_start. *)
ASSUME ServerAssumption == \A w \in Loads : w.clients \in Nat \ {0} /\ w.starts \in Nat

VARIABLES
    started, stopping,
    listener,       \* "none", "open", "shut" or "closed"
    acceptor,       \* the accepting thread: its next step and the connection in hand
    caller,         \* the calls of the embedder
    asleep,         \* callers waiting for state_changed
    listed,         \* active_clients
    activeCount,
    socket,         \* socket[c]: "none", "backlog", "open", "shut" or "closed"
    worker,         \* worker[c]: the thread of the connection
    starts

lifeVars == <<started, stopping, listener, acceptor, caller, asleep, listed, activeCount, socket, worker, starts>>

serverVars == <<vars, lifeVars>>

IdleCaller == [at |-> "idle", todo |-> {}, rel |-> None]

Acceptor(at, c) == [at |-> at, conn |-> c]

ServerInit ==
    /\ Init
    /\ started = FALSE /\ stopping = FALSE /\ listener = "none" /\ acceptor = Acceptor("none", None)
    /\ caller = [a \in Callers |-> IdleCaller] /\ asleep = {}
    /\ listed = {} /\ activeCount = 0 /\ starts = 0
    /\ socket = [c \in Clients |-> "none"] /\ worker = [c \in Clients |-> "none"]

CallerGoes(a, at) == caller' = [caller EXCEPT ![a].at = at]

AcceptorGoes(at) == acceptor' = Acceptor(at, None)

(* A peer connects; the connection waits in the backlog of the listener. *)
Arrive(c) ==
    /\ listener = "open" /\ socket[c] = "none" /\ worker[c] = "none"
    /\ socket' = [socket EXCEPT ![c] = "backlog"]
    /\ UNCHANGED <<vars, started, stopping, listener, acceptor, caller, asleep, listed, activeCount, worker, starts>>

(***************************************************************************)
(* The accepting thread.                                                   *)
(***************************************************************************)
(* minimm_server_is_stopping, at the head of either loop and after poll. *)
AcceptCheck ==
    /\ acceptor.at \in {"check", "recheck", "inner"}
    /\ AcceptorGoes(CASE acceptor.at = "check" -> IF stopping THEN "exited" ELSE "poll"
                      [] acceptor.at = "recheck" -> IF stopping THEN "exited" ELSE "inner"
                      [] acceptor.at = "inner" -> IF stopping THEN "check" ELSE "accept")
    /\ UNCHANGED <<vars, started, stopping, listener, caller, asleep, listed, activeCount, socket, worker, starts>>

Waiting == {c \in Clients : socket[c] = "backlog"}

(* poll: nothing within MINIMM_SERVER_ACCEPT_POLL_MS, an event, or an error that ends the thread. *)
AcceptPoll ==
    /\ acceptor.at = "poll"
    /\ \/ AcceptorGoes("check")
       \/ (Waiting # {} \/ listener = "shut") /\ AcceptorGoes("recheck")
       \/ AcceptorGoes("exited")
    /\ UNCHANGED <<vars, started, stopping, listener, caller, asleep, listed, activeCount, socket, worker, starts>>

(* accept: a connection, or nothing and back to poll. *)
AcceptSocket ==
    /\ acceptor.at = "accept"
    /\ \/ /\ listener = "open"
          /\ \E c \in Waiting :
                acceptor' = Acceptor("adopt", c) /\ socket' = [socket EXCEPT ![c] = "open"]
       \/ (Waiting = {} \/ listener # "open") /\ AcceptorGoes("check") /\ UNCHANGED socket
    /\ UNCHANGED <<vars, started, stopping, listener, caller, asleep, listed, activeCount, worker, starts>>

Dropped(c) == socket' = [socket EXCEPT ![c] = "none"]

(* minimm_server_adopt_client: listed, counted and given a thread in one critical section. *)
Adopt ==
    LET c == acceptor.conn
    IN  /\ acceptor.at = "adopt"
        /\ IF stopping \/ activeCount >= load.clients
           THEN Dropped(c) /\ UNCHANGED <<session, worker, listed, activeCount>>
           ELSE /\ listed' = listed \cup {c} /\ activeCount' = activeCount + 1
                /\ worker' = [worker EXCEPT ![c] = "serving"]
                /\ session' = [session EXCEPT ![c] = [NoSession EXCEPT !.state = "greeting"]]
                /\ UNCHANGED socket
        /\ AcceptorGoes("inner")
        /\ UNCHANGED <<record, liveRecords, totalSize, registry, call, load, started, stopping, listener, caller, asleep, starts>>

(* The socket cannot be set up, or the client or its thread not made: everything is undone. *)
AdoptFails ==
    /\ acceptor.at = "adopt"
    /\ Dropped(acceptor.conn)
    /\ asleep' = {}                  \* the broadcast
    /\ AcceptorGoes("inner")
    /\ UNCHANGED <<vars, started, stopping, listener, caller, listed, activeCount, worker, starts>>

(***************************************************************************)
(* The threads of the clients.                                             *)
(***************************************************************************)
(* A step of the session; on a socket that was shut nothing can be sent. *)
Serve(c) ==
    /\ worker[c] = "serving"
    /\ \/ Request(c) \/ ThreadStep(c) \/ SendFails(c) \/ Disconnect(c)
       \/ socket[c] = "open" /\ SendOk(c)
    /\ UNCHANGED lifeVars

(* minimm_server_client_thread, when the session has ended and its handles are released: *)
(* off the list, so that a stop does not shut a descriptor that is about to be closed,   *)
Unlist(c) ==
    /\ worker[c] = "serving" /\ session[c].state = "ended" /\ call[c].at = "idle" /\ Handles(c) = {}
    /\ listed' = listed \ {c}
    /\ worker' = [worker EXCEPT ![c] = "close"]
    /\ session' = [session EXCEPT ![c] = NoSession]
    /\ UNCHANGED <<record, liveRecords, totalSize, registry, call, load, started, stopping, listener, acceptor, caller,
                   asleep, activeCount, socket, starts>>

(* the socket closed, *)
CloseSocket(c) ==
    /\ worker[c] = "close"
    /\ socket' = [socket EXCEPT ![c] = "closed"]
    /\ worker' = [worker EXCEPT ![c] = "count"]
    /\ UNCHANGED <<vars, started, stopping, listener, acceptor, caller, asleep, listed, activeCount, starts>>

(* Seeded fault: one waiting thread is woken, not all. *)
CountAndSignal(c) ==
    /\ worker[c] = "count"
    /\ activeCount' = activeCount - 1
    /\ IF asleep = {} THEN UNCHANGED asleep ELSE \E a \in asleep : asleep' = asleep \ {a}
    /\ worker' = [worker EXCEPT ![c] = "none"]
    /\ socket' = [socket EXCEPT ![c] = "none"]
    /\ UNCHANGED <<vars, started, stopping, listener, acceptor, caller, listed, starts>>

(* and the count, with a broadcast: a stop may wait for it. *)
CountDown(c) ==
    /\ worker[c] = "count"
    /\ activeCount' = activeCount - 1
    /\ asleep' = {}
    /\ worker' = [worker EXCEPT ![c] = "none"]
    /\ socket' = [socket EXCEPT ![c] = "none"]
    /\ UNCHANGED <<vars, started, stopping, listener, acceptor, caller, listed, starts>>

(***************************************************************************)
(* minimm_server_start and minimm_server_stop.                             *)
(***************************************************************************)
(* Refused while the server runs or stops; a listener or thread that cannot be made leaves no trace. *)
Start(a) ==
    /\ caller[a] = IdleCaller /\ starts < load.starts
    /\ starts' = starts + 1
    /\ IF started \/ stopping THEN UNCHANGED <<started, listener, acceptor>>
       ELSE \/ UNCHANGED <<started, listener, acceptor>>
            \/ started' = TRUE /\ listener' = "open" /\ AcceptorGoes("check")
    /\ UNCHANGED <<vars, stopping, caller, asleep, listed, activeCount, socket, worker>>

BeginStop(a) ==
    /\ caller[a] = IdleCaller
    /\ CallerGoes(a, "enter")
    /\ UNCHANGED <<vars, started, stopping, listener, acceptor, asleep, listed, activeCount, socket, worker, starts>>

(* The first critical section: wait for another stop, return if there is nothing to stop. *)
EnterStop(a) ==
    /\ caller[a].at = "enter" /\ a \notin asleep
    /\ IF stopping THEN asleep' = asleep \cup {a} /\ UNCHANGED <<stopping, caller>>
       ELSE /\ stopping' = started
            /\ CallerGoes(a, IF started THEN "shut" ELSE "idle")
            /\ UNCHANGED asleep
    /\ UNCHANGED <<vars, started, listener, acceptor, listed, activeCount, socket, worker, starts>>

ShutListener(a) ==
    /\ caller[a].at = "shut"
    /\ listener' = "shut"
    /\ CallerGoes(a, "join")
    /\ UNCHANGED <<vars, started, stopping, acceptor, asleep, listed, activeCount, socket, worker, starts>>

(* pthread_join and close of the listener, which drops its backlog. *)
JoinAcceptor(a) ==
    /\ caller[a].at = "join" /\ acceptor.at = "exited"
    /\ listener' = "closed" /\ AcceptorGoes("none")
    /\ socket' = [c \in Clients |-> IF c \in Waiting THEN "none" ELSE socket[c]]
    /\ CallerGoes(a, "sweep")
    /\ UNCHANGED <<vars, started, stopping, asleep, listed, activeCount, worker, starts>>

(* Seeded fault: the loop ends after one client. *)
SweepOne(a) ==
    /\ caller[a].at = "sweep"
    /\ IF listed = {} THEN UNCHANGED socket
       ELSE \E c \in listed : socket' = [socket EXCEPT ![c] = "shut"]
    /\ CallerGoes(a, "drain")
    /\ asleep' = IF activeCount # 0 THEN asleep \cup {a} ELSE asleep
    /\ UNCHANGED <<vars, started, stopping, listener, acceptor, listed, activeCount, worker, starts>>

(* Every listed client is shut; then, without leaving the lock, the wait for the threads begins. *)
SweepClients(a) ==
    /\ caller[a].at = "sweep"
    /\ socket' = [c \in Clients |-> IF c \in listed THEN "shut" ELSE socket[c]]
    /\ CallerGoes(a, "drain")
    /\ asleep' = IF activeCount # 0 THEN asleep \cup {a} ELSE asleep
    /\ UNCHANGED <<vars, started, stopping, listener, acceptor, listed, activeCount, worker, starts>>

DrainClients(a) ==
    /\ caller[a].at = "drain" /\ a \notin asleep
    /\ IF activeCount # 0 THEN asleep' = asleep \cup {a} /\ UNCHANGED caller
       ELSE CallerGoes(a, "detach") /\ UNCHANGED asleep
    /\ UNCHANGED <<vars, started, stopping, listener, acceptor, listed, activeCount, socket, worker, starts>>

Linked == {registry[k] : k \in Caps} \ {None}

(* Seeded fault: the registry is emptied and its records forgotten. *)
DetachAndForget(a) ==
    /\ caller[a].at = "detach"
    /\ registry' = [k \in Caps |-> None]
    /\ CallerGoes(a, "release")
    /\ UNCHANGED <<record, liveRecords, totalSize, session, call, load, started, stopping, listener, acceptor, asleep,
                   listed, activeCount, socket, worker, starts>>

(* minimm_server_detach_registry *)
DetachRegistry(a) ==
    /\ caller[a].at = "detach"
    /\ registry' = [k \in Caps |-> None]
    /\ caller' = [caller EXCEPT ![a].at = "release", ![a].todo = Linked]
    /\ UNCHANGED <<record, liveRecords, totalSize, session, call, load, started, stopping, listener, acceptor, asleep,
                   listed, activeCount, socket, worker, starts>>

(* minimm_server_release_registry: the next record of the list, then the sources of what is freed. *)
ReleaseRegistry(a) ==
    LET r == caller[a].rel
    IN  /\ caller[a].at = "release"
        /\ IF r = None
           THEN /\ IF caller[a].todo = {} THEN CallerGoes(a, "finish")
                   ELSE \E q \in caller[a].todo : caller' = [caller EXCEPT ![a].rel = q, ![a].todo = @ \ {q}]
                /\ UNCHANGED <<record, liveRecords, totalSize>>
           ELSE IF record[r].refs = 1
           THEN /\ record' = [record EXCEPT ![r] = None]
                /\ totalSize' = totalSize - record[r].size
                /\ liveRecords' = liveRecords - 1
                /\ caller' = [caller EXCEPT ![a].rel = record[r].parent]
           ELSE /\ record' = [record EXCEPT ![r].refs = @ - 1]
                /\ caller' = [caller EXCEPT ![a].rel = None]
                /\ UNCHANGED <<liveRecords, totalSize>>
        /\ UNCHANGED <<registry, session, call, load, started, stopping, listener, acceptor, asleep, listed, activeCount,
                       socket, worker, starts>>

(* The last critical section, with its broadcast. *)
FinishStop(a) ==
    /\ caller[a].at = "finish"
    /\ started' = FALSE /\ stopping' = FALSE /\ listener' = "none" /\ asleep' = {}
    /\ caller' = [caller EXCEPT ![a] = IdleCaller]
    /\ UNCHANGED <<vars, acceptor, listed, activeCount, socket, worker, starts>>

AcceptorStep == AcceptCheck \/ AcceptPoll \/ AcceptSocket \/ Adopt \/ AdoptFails

WorkerEnd(c) == Unlist(c) \/ CloseSocket(c) \/ CountDown(c)

StopStep(a) ==
    \/ EnterStop(a) \/ ShutListener(a) \/ JoinAcceptor(a) \/ SweepClients(a) \/ DrainClients(a)
    \/ DetachRegistry(a) \/ ReleaseRegistry(a) \/ FinishStop(a)

ServerNext ==
    \/ AcceptorStep
    \/ \E c \in Clients : Arrive(c) \/ Serve(c) \/ WorkerEnd(c)
    \/ \E a \in Callers : Start(a) \/ BeginStop(a) \/ StopStep(a)

ServerSpec == ServerInit /\ [][ServerNext]_serverVars

(* What the thread of a client does without hearing from its peer. *)
Unprompted(c) ==
    /\ worker[c] = "serving"
    /\ \/ ThreadStep(c) \/ SendFails(c)
       \/ socket[c] = "open" /\ SendOk(c)
       \/ socket[c] = "shut" /\ Disconnect(c)
    /\ UNCHANGED lifeVars

(* Threads run; poll times out; a wait for a lock that comes free again    *)
(* and again ends.  Peers owe nothing: they may connect and be silent.     *)
ServerFairness ==
    /\ WF_serverVars(AcceptorStep)
    /\ \A c \in Clients : WF_serverVars(Unprompted(c) \/ WorkerEnd(c))
    /\ \A a \in Callers : WF_serverVars(StopStep(a)) /\ SF_serverVars(EnterStop(a) /\ asleep' = asleep)

FairServerSpec == ServerSpec /\ ServerFairness

(***************************************************************************)
(* Properties.                                                             *)
(***************************************************************************)
(* After the sweep of a stop nobody serves on a socket that is open: no    *)
(* connection is adopted behind its back (adoption looks at the flag under *)
(* the lock, and the accepting thread is joined before the sweep).  And    *)
(* the sweep never shuts a descriptor that was closed and may be somebody  *)
(* else's by now (minimm_server_client_thread leaves the list before it    *)
(* closes).                                                                *)
SweepMissesNobody ==
    /\ \A a \in Callers : caller[a].at \in {"drain", "detach", "release", "finish"} =>
        \A c \in Clients : worker[c] = "serving" => socket[c] = "shut"
    /\ \A c \in listed : socket[c] \in {"open", "shut"}

(* The count of clients is the number of their threads and within          *)
(* max_clients: minimm_server_stop waits for it before it takes the        *)
(* records away.  When a stop is done, and until the next start, the       *)
(* server is empty: no thread, no record, and the quotas are back at zero. *)
StoppedIsEmpty ==
    /\ activeCount = Cardinality({c \in Clients : worker[c] # "none"}) /\ activeCount <= load.clients
    /\ (\E a \in Callers : caller[a].at = "finish") \/ ~started =>
        /\ activeCount = 0 /\ listed = {} /\ acceptor.at = "none"
        /\ Existing = {} /\ liveRecords = 0 /\ totalSize = 0

(* Every stop returns, whatever the peers do and however the calls race.   *)
StopReturns == \A a \in Callers : (caller[a].at # "idle") ~> (caller[a].at = "idle")

=============================================================================
