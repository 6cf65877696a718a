------------------------ MODULE SystemLifetimeProofs ------------------------
(***************************************************************************)
(* Proofs about SystemLifetime for any number of threads and objects: the  *)
(* references are counted, and the system is freed once, when nobody can   *)
(* reach it any more.                                                      *)
(***************************************************************************)
EXTENDS SystemLifetime, FiniteSetTheorems, TLAPS

\* What a thread inside a call is doing.
Calls == [at : Stages, via : Objects \cup {"handle", "none"}, object : Objects \cup {"none"},
          seen : 0 .. MaxReferences, late : BOOLEAN]

ThreadsTyped == thread \in [Threads -> {Idle} \cup Calls]

\* The thread creates an object, through the handle or a space.
Creates(t) == thread[t].at # "idle" /\ thread[t].via # "none"

\* A thread that is inside minimm_system_try_retain, or has what that gave it.
Retaining == {"check", "load", "exchange", "recheck", "build"}

\* What a creation goes through stays, and its object is not there yet and is
\* created by nobody else.
CreatorsKeep ==
    \A t \in Threads :
        /\ thread[t].at \in Retaining => thread[t].via # "none"
        /\ Creates(t) => /\ IF thread[t].via = "handle" THEN handle = "open" ELSE thread[t].via \in live
                         /\ thread[t].object \in Objects \ live
                         /\ \A u \in Threads \ {t} : Creates(u) => thread[u].object # thread[t].object

\* The flag is set with the end of the handle; a reference was taken late only
\* if the flag was set; a system that is freed has no handle.
FlagIsSet ==
    /\ closing <=> handle = "closed"
    /\ \A t \in Threads : thread[t].at # "idle" /\ thread[t].late => closing
    /\ freed \/ (\E t \in Threads : thread[t].at = "free") => handle = "closed"

Counted == IsFiniteSet(live) /\ IsFiniteSet(Holding) /\ ReferencesCounted

\* The inductive invariant.
Inv == TypeOK /\ ThreadsTyped /\ CreatorsKeep /\ FlagIsSet /\ Counted /\ FreedUnused /\ NoLateObjects

-----------------------------------------------------------------------------
\* A thread is idle or its record says where it is in a call.
LEMMA CallFields ==
    ASSUME ThreadsTyped, NEW t \in Threads
    PROVE  /\ thread[t].at = "idle" <=> thread[t] = Idle
           /\ thread[t].at # "idle" =>
                /\ thread[t] \in Calls /\ thread[t].at \in Stages
                /\ thread[t].via \in Objects \cup {"handle", "none"}
                /\ thread[t].object \in Objects \cup {"none"}
                /\ thread[t].seen \in 0 .. MaxReferences /\ thread[t].late \in BOOLEAN
<1>1. thread[t] \in {Idle} \cup Calls
  BY Zenon DEF ThreadsTyped
<1>2. CASE thread[t] = Idle
  BY <1>2 DEF Idle
<1>3. CASE thread[t] \in Calls
  <2>1. /\ thread[t].at \in Stages
        /\ thread[t].via \in Objects \cup {"handle", "none"}
        /\ thread[t].object \in Objects \cup {"none"}
        /\ thread[t].seen \in 0 .. MaxReferences /\ thread[t].late \in BOOLEAN
    BY <1>3 DEF Calls
  <2>2. thread[t].at # "idle" /\ Idle.at = "idle"
    BY <2>1 DEF Stages, Idle
  <2> QED BY Zenon, <1>3, <2>1, <2>2
<1> QED BY Zenon, <1>1, <1>2, <1>3

\* While the system can still be reached by the thread, nobody frees it.
LEMMA NobodyFrees ==
    ASSUME Inv, NEW t \in Threads, thread[t].at \notin {"idle", "free"}
    PROVE  freed = FALSE /\ \A u \in Threads : thread[u].at # "free"
<1>1. thread[t] # Idle
  BY Zenon, CallFields DEF Inv
<1>2. freed = FALSE
  BY Zenon, <1>1 DEF Inv, FreedUnused, TypeOK
<1>3. ASSUME NEW u \in Threads, thread[u].at = "free" PROVE FALSE
  <2>1. u # t
    BY Zenon, <1>3
  <2> QED BY Zenon, <1>1, <1>3, <2>1 DEF Inv, FreedUnused
<1> QED BY Zenon, <1>2, <1>3

\* An idle thread that has something to begin from finds the system in use.
LEMMA NobodyFreed ==
    ASSUME Inv, handle = "open" \/ live # {}
    PROVE  freed = FALSE /\ \A u \in Threads : thread[u].at # "free"
<1>1. handle = "open" => handle # "closed"
  OBVIOUS
<1> QED BY Zenon, <1>1 DEF Inv, FlagIsSet, FreedUnused, TypeOK

\* The counts, when one thread or one object joins or leaves.
LEMMA Joins ==
    ASSUME NEW S, IsFiniteSet(S), NEW x, x \notin S
    PROVE  IsFiniteSet(S \cup {x}) /\ Cardinality(S \cup {x}) = Cardinality(S) + 1
                                   /\ Cardinality(S) \in Nat
  BY Zenon, FS_AddElement, FS_CardinalityType

LEMMA Leaves ==
    ASSUME NEW S, IsFiniteSet(S), NEW x \in S
    PROVE  /\ IsFiniteSet(S \ {x}) /\ Cardinality(S \ {x}) = Cardinality(S) - 1
           /\ Cardinality(S) \in Nat /\ Cardinality(S) > 0
<1>1. IsFiniteSet(S \ {x}) /\ Cardinality(S \ {x}) = Cardinality(S) - 1
  BY Zenon, FS_RemoveElement
<1>2. Cardinality(S) \in Nat /\ Cardinality(S \ {x}) \in Nat
  BY Zenon, <1>1, FS_CardinalityType
<1> QED BY <1>1, <1>2

\* The threads that hold a reference, after one of them moved on.
LEMMA HoldingMoves ==
    ASSUME ThreadsTyped, NEW t \in Threads, NEW c, thread' = [thread EXCEPT ![t] = c]
    PROVE  Holding' = IF c.at \in {"recheck", "build", "release"} THEN Holding \cup {t}
                      ELSE Holding \ {t}
<1>1. thread'[t] = c /\ \A u \in Threads \ {t} : thread'[u] = thread[u]
  BY Zenon DEF ThreadsTyped
<1> QED BY Zenon, <1>1 DEF Holding

-----------------------------------------------------------------------------
(* A thread moves on in its call, or out of it.                            *)

\* The thread keeps what it creates and through what, or ends its call.
LEMMA ThreadMoves ==
    ASSUME SystemAssumption, Inv, NEW t \in Threads, NEW c \in {Idle} \cup Calls,
           thread[t].at \notin {"idle", "free"}, c.at # "free",
           thread' = [thread EXCEPT ![t] = c], UNCHANGED <<closing, freed, handle, live>>,
           c.at # "idle" => c.via = thread[t].via /\ c.object = thread[t].object,
           c.at \in Retaining => c.via # "none",
           c.at # "idle" /\ c.late => closing,
           c.at = "build" => ~c.late
    PROVE  ThreadsTyped' /\ CreatorsKeep' /\ FlagIsSet' /\ FreedUnused' /\ NoLateObjects'
<1>1. thread'[t] = c /\ \A u \in Threads \ {t} : thread'[u] = thread[u]
  BY Zenon DEF Inv, ThreadsTyped
<1>2. ThreadsTyped'
  BY Zenon DEF Inv, ThreadsTyped
<1>3. CreatorsKeep'
  <2>1. \A u \in Threads : /\ Creates(u)' => Creates(u)
                           /\ Creates(u)' => thread'[u].via = thread[u].via
                                          /\ thread'[u].object = thread[u].object
    BY Zenon, <1>1 DEF Creates
  <2>2. \A u \in Threads : thread'[u].at \in Retaining => thread'[u].via # "none"
    BY Zenon, <1>1 DEF Inv, CreatorsKeep
  <2>3. ASSUME NEW u \in Threads, Creates(u)'
        PROVE  /\ IF thread'[u].via = "handle" THEN handle' = "open" ELSE thread'[u].via \in live'
               /\ thread'[u].object \in Objects \ live'
    <3>1. /\ IF thread[u].via = "handle" THEN handle = "open" ELSE thread[u].via \in live
          /\ thread[u].object \in Objects \ live
      BY Zenon, <2>1, <2>3 DEF Inv, CreatorsKeep
    <3>2. thread'[u].via = thread[u].via /\ thread'[u].object = thread[u].object
      BY Zenon, <2>1, <2>3
    <3> QED BY <3>1, <3>2
  <2>4. ASSUME NEW u \in Threads, NEW v \in Threads \ {u}, Creates(u)', Creates(v)'
        PROVE  thread'[v].object # thread'[u].object
    <3>1. Creates(u) /\ Creates(v) /\ v \in Threads
      BY Zenon, <2>1, <2>4
    <3>2. thread[v].object # thread[u].object
      BY Zenon, <3>1 DEF Inv, CreatorsKeep
    <3> QED BY Zenon, <2>1, <2>4, <3>2
  <2> QED BY Zenon, <2>2, <2>3, <2>4 DEF CreatorsKeep
<1>4. freed = FALSE /\ \A u \in Threads : thread[u].at # "free" /\ thread'[u].at # "free"
  BY Zenon, <1>1, NobodyFrees
<1>5. FlagIsSet'
  BY Zenon, <1>1, <1>4 DEF Inv, FlagIsSet
<1>6. FreedUnused'
  BY Zenon, <1>4 DEF FreedUnused
<1>7. NoLateObjects'
  BY Zenon, <1>1 DEF Inv, NoLateObjects
<1> QED BY Zenon, <1>2, <1>3, <1>5, <1>6, <1>7

\* The stages of a call through which the thread holds its reference or holds none.
LEMMA KeepsCount ==
    ASSUME Inv, NEW t \in Threads, NEW c, thread' = [thread EXCEPT ![t] = c],
           UNCHANGED <<references, handle, live>>,
           c.at \in {"recheck", "build", "release"} <=> t \in Holding
    PROVE  Counted'
<1>1. Holding' = Holding
  <2>1. CASE c.at \in {"recheck", "build", "release"}
    BY Zenon, <2>1, HoldingMoves DEF Inv
  <2>2. CASE c.at \notin {"recheck", "build", "release"}
    BY Zenon, <2>2, HoldingMoves DEF Inv
  <2> QED BY Zenon, <2>1, <2>2
<1> QED BY Zenon, <1>1 DEF Inv, Counted, ReferencesCounted

\* Types of the whole state, once the threads have theirs.
LEMMA TypesFromThreads ==
    ASSUME ThreadsTyped', references' \in 0 .. MaxReferences, closing' \in BOOLEAN, freed' \in BOOLEAN,
           handle' \in {"open", "closed"}, live' \subseteq Objects
    PROVE  TypeOK'
<1>1. \A t \in Threads : thread'[t].at \in Stages \cup {"idle"}
  BY DEF ThreadsTyped, Calls, Idle
<1> QED BY Zenon, <1>1 DEF TypeOK

\* The thread moves on and no reference changes hands.
LEMMA Walks ==
    ASSUME SystemAssumption, Inv, NEW t \in Threads, NEW c \in {Idle} \cup Calls,
           thread[t].at \in Retaining, c.at \in {"idle", "load", "exchange", "build", "release"},
           thread' = [thread EXCEPT ![t] = c], UNCHANGED <<references, closing, freed, handle, live>>,
           c.at # "idle" => /\ c.via = thread[t].via /\ c.object = thread[t].object
                            /\ c.late = thread[t].late,
           c.at \in {"build", "release"} <=> thread[t].at \in {"recheck", "build"},
           c.at = "build" => ~closing
    PROVE  Inv'
<1>1. /\ thread[t].at \notin {"idle", "free"} /\ thread[t].via # "none"
      /\ thread[t].late => closing
  <2>1. thread[t].at \notin {"idle", "free"}
    BY DEF Retaining
  <2> QED BY Zenon, <2>1 DEF Inv, CreatorsKeep, FlagIsSet
<1>2. c.at # "free" /\ (c.at # "idle" => c.via # "none")
  BY <1>1
<1>3. c.at \in {"recheck", "build", "release"} <=> t \in Holding
  BY DEF Holding, Retaining
<1>4. ThreadsTyped' /\ CreatorsKeep' /\ FlagIsSet' /\ FreedUnused' /\ NoLateObjects'
  <2>1. /\ c.at \in Retaining => c.via # "none"
        /\ c.at # "idle" /\ c.late => closing
        /\ c.at = "build" => ~c.late
    BY Zenon, <1>1, <1>2 DEF Retaining
  <2> QED BY Zenon, <1>1, <1>2, <2>1, ThreadMoves
<1>5. Counted'
  BY Zenon, <1>3, KeepsCount
<1>6. TypeOK'
  BY Zenon, <1>4, TypesFromThreads DEF Inv, TypeOK
<1> QED BY Zenon, <1>4, <1>5, <1>6 DEF Inv

\* A call under way goes on to another stage.
LEMMA GoesOn ==
    ASSUME NEW b \in Calls, NEW a \in Stages
    PROVE  \E c \in Calls : /\ c = [b EXCEPT !.at = a] /\ c.at = a
                            /\ c.via = b.via /\ c.object = b.object /\ c.late = b.late
<1>1. /\ [b EXCEPT !.at = a] \in Calls
      /\ [b EXCEPT !.at = a].at = a /\ [b EXCEPT !.at = a].via = b.via
      /\ [b EXCEPT !.at = a].object = b.object /\ [b EXCEPT !.at = a].late = b.late
  BY Zenon DEF Calls
<1> QED BY Zenon, <1>1

\* A call under way sees the count.
LEMMA SeesCount ==
    ASSUME NEW b \in Calls, NEW n \in 0 .. MaxReferences
    PROVE  \E c \in Calls : /\ c = [b EXCEPT !.at = "exchange", !.seen = n] /\ c.at = "exchange"
                            /\ c.via = b.via /\ c.object = b.object /\ c.late = b.late
<1>1. /\ [b EXCEPT !.at = "exchange", !.seen = n] \in Calls
      /\ [b EXCEPT !.at = "exchange", !.seen = n].at = "exchange" /\ [b EXCEPT !.at = "exchange", !.seen = n].via = b.via
      /\ [b EXCEPT !.at = "exchange", !.seen = n].object = b.object /\ [b EXCEPT !.at = "exchange", !.seen = n].late = b.late
  BY Zenon DEF Calls, Stages
<1> QED BY Zenon, <1>1

\* A call under way sees the count again.
LEMMA SeesAgain ==
    ASSUME NEW b \in Calls, NEW n \in 0 .. MaxReferences
    PROVE  \E c \in Calls : /\ c = [b EXCEPT !.seen = n] /\ c.at = b.at
                            /\ c.via = b.via /\ c.object = b.object /\ c.late = b.late
<1>1. /\ [b EXCEPT !.seen = n] \in Calls
      /\ [b EXCEPT !.seen = n].at = b.at /\ [b EXCEPT !.seen = n].via = b.via
      /\ [b EXCEPT !.seen = n].object = b.object /\ [b EXCEPT !.seen = n].late = b.late
  BY Zenon DEF Calls
<1> QED BY Zenon, <1>1

\* A call under way has taken its reference.
LEMMA TakesOne ==
    ASSUME NEW b \in Calls, NEW l \in BOOLEAN
    PROVE  \E c \in Calls : /\ c = [b EXCEPT !.at = "recheck", !.late = l] /\ c.at = "recheck"
                            /\ c.via = b.via /\ c.object = b.object /\ c.late = l
<1>1. /\ [b EXCEPT !.at = "recheck", !.late = l] \in Calls
      /\ [b EXCEPT !.at = "recheck", !.late = l].at = "recheck" /\ [b EXCEPT !.at = "recheck", !.late = l].via = b.via
      /\ [b EXCEPT !.at = "recheck", !.late = l].object = b.object /\ [b EXCEPT !.at = "recheck", !.late = l].late = l
  BY Zenon DEF Calls, Stages
<1> QED BY Zenon, <1>1

\* The steps of minimm_system_try_retain that leave the count alone, and an
\* allocation that fails.
LEMMA InvWalks ==
    ASSUME SystemAssumption, Inv, NEW t \in Threads,
           \/ CheckClosing(t) \/ LoadReferences(t) \/ ExchangeFails(t) \/ RetainFull(t)
           \/ RecheckClosing(t) \/ BuildFails(t)
    PROVE  Inv'
<1>0. Idle.at = "idle" /\ Idle \in {Idle} \cup Calls
  BY DEF Idle
<1>1. ASSUME thread[t].at \in Retaining
      PROVE  /\ thread[t] \in Calls /\ references \in 0 .. MaxReferences
             /\ "load" \in Stages /\ "exchange" \in Stages
             /\ "build" \in Stages /\ "release" \in Stages
  <2>1. thread[t].at # "idle"
    BY <1>1 DEF Retaining
  <2> QED BY Zenon, <2>1, CallFields DEF Inv, TypeOK, Stages
<1>2. CASE CheckClosing(t)
  <2>1. thread[t].at = "check" /\ thread[t].at \in Retaining /\ UNCHANGED <<references, closing, freed, handle, live>>
    BY Zenon, <1>2 DEF CheckClosing, Retaining
  <2>2. CASE thread' = [thread EXCEPT ![t] = Idle]
    BY Zenon, <1>0, <2>1, <2>2, Walks
  <2>3. CASE thread' = [thread EXCEPT ![t] = [thread[t] EXCEPT !.at = "load"]]
    <3>1. PICK c \in Calls : /\ c = [thread[t] EXCEPT !.at = "load"] /\ c.at = "load"
                             /\ c.via = thread[t].via /\ c.object = thread[t].object
                             /\ c.late = thread[t].late
      BY Zenon, <1>1, <2>1, GoesOn
    <3> QED BY Zenon, <2>1, <2>3, <3>1, Walks
  <2> QED BY <1>2, <2>2, <2>3 DEF CheckClosing, Going
<1>3. CASE LoadReferences(t)
  <2>1. /\ thread[t].at = "load" /\ thread[t].at \in Retaining
        /\ UNCHANGED <<references, closing, freed, handle, live>>
    BY Zenon, <1>3 DEF LoadReferences, Retaining
  <2>2. thread' = [thread EXCEPT ![t] = [thread[t] EXCEPT !.at = "exchange", !.seen = references]]
    BY Zenon, <1>3 DEF LoadReferences
  <2>3. PICK c \in Calls : /\ c = [thread[t] EXCEPT !.at = "exchange", !.seen = references]
                           /\ c.at = "exchange" /\ c.via = thread[t].via
                           /\ c.object = thread[t].object /\ c.late = thread[t].late
    <3>1. thread[t] \in Calls /\ references \in 0 .. MaxReferences
      BY Zenon, <1>1, <2>1
    <3>2. PICK b \in Calls : b = thread[t]
      BY Zenon, <3>1
    <3>3. PICK c \in Calls : /\ c = [b EXCEPT !.at = "exchange", !.seen = references]
                             /\ c.at = "exchange" /\ c.via = b.via
                             /\ c.object = b.object /\ c.late = b.late
      BY Zenon, <3>1, SeesCount
    <3> QED BY Zenon, <3>2, <3>3
  <2> QED BY Zenon, <2>1, <2>2, <2>3, Walks
<1>4. CASE ExchangeFails(t)
  <2>1. /\ thread[t].at = "exchange" /\ thread[t].at \in Retaining
        /\ UNCHANGED <<references, closing, freed, handle, live>>
    BY Zenon, <1>4 DEF ExchangeFails, Retaining
  <2>2. thread' = [thread EXCEPT ![t] = [thread[t] EXCEPT !.seen = references]]
    BY <1>4 DEF ExchangeFails
  <2>3. PICK c \in Calls : /\ c = [thread[t] EXCEPT !.seen = references]
                           /\ c.at = "exchange" /\ c.via = thread[t].via
                           /\ c.object = thread[t].object /\ c.late = thread[t].late
    <3>1. thread[t] \in Calls /\ references \in 0 .. MaxReferences
      BY Zenon, <1>1, <2>1
    <3>2. PICK b \in Calls : b = thread[t]
      BY Zenon, <3>1
    <3>3. PICK c \in Calls : /\ c = [b EXCEPT !.seen = references] /\ c.at = b.at
                             /\ c.via = b.via /\ c.object = b.object /\ c.late = b.late
      BY Zenon, <3>1, SeesAgain
    <3> QED BY Zenon, <2>1, <3>2, <3>3
  <2> QED BY Zenon, <2>1, <2>2, <2>3, Walks
<1>5. CASE RetainFull(t)
  <2>1. /\ thread[t].at = "exchange" /\ thread[t].at \in Retaining
        /\ UNCHANGED <<references, closing, freed, handle, live>>
        /\ thread' = [thread EXCEPT ![t] = Idle]
    BY Zenon, <1>5 DEF RetainFull, Retaining
  <2> QED BY Zenon, <1>0, <2>1, Walks
<1>6. CASE RecheckClosing(t) \/ BuildFails(t)
  <2>1. /\ thread[t].at \in {"recheck", "build"} /\ thread[t].at \in Retaining
        /\ UNCHANGED <<references, closing, freed, handle, live>>
    BY Zenon, <1>6 DEF RecheckClosing, BuildFails, Retaining
  <2>2. PICK a \in {"build", "release"} : /\ thread' = [thread EXCEPT ![t] = [thread[t] EXCEPT !.at = a]]
                                          /\ a = "build" => ~closing
    BY <1>6 DEF RecheckClosing, BuildFails, Going
  <2>3. PICK c \in Calls : /\ c = [thread[t] EXCEPT !.at = a] /\ c.at = a
                           /\ c.via = thread[t].via /\ c.object = thread[t].object
                           /\ c.late = thread[t].late
    <3>1. thread[t] \in Calls /\ a \in Stages
      BY Zenon, <1>1, <2>1
    <3> QED BY Zenon, <3>1, GoesOn
  <2> QED BY Zenon, <2>1, <2>2, <2>3, Walks
<1> QED BY Zenon, <1>2, <1>3, <1>4, <1>5, <1>6

-----------------------------------------------------------------------------
(* References that are taken and given back.                               *)

\* The second half of minimm_system_try_retain: the exchange that succeeds.
LEMMA InvExchange ==
    ASSUME SystemAssumption, Inv, NEW t \in Threads, Exchange(t)
    PROVE  Inv'
<1>1. /\ thread[t].at = "exchange" /\ thread[t].seen # MaxReferences /\ references = thread[t].seen
      /\ references' = references + 1 /\ UNCHANGED <<closing, freed, handle, live>>
      /\ thread' = [thread EXCEPT ![t] = [thread[t] EXCEPT !.at = "recheck", !.late = closing]]
  BY Zenon DEF Exchange
<1>2. /\ thread[t] \in Calls /\ thread[t].seen \in 0 .. MaxReferences
      /\ closing \in BOOLEAN /\ thread[t].via # "none"
  <2>1. thread[t].at # "idle" /\ thread[t].at \in Retaining
    BY <1>1 DEF Retaining
  <2> QED BY Zenon, <2>1, CallFields DEF Inv, TypeOK, CreatorsKeep
<1>3. PICK c \in Calls : /\ thread' = [thread EXCEPT ![t] = c] /\ c.at = "recheck"
                         /\ c.via = thread[t].via /\ c.object = thread[t].object /\ c.late = closing
  <2>1. PICK b \in Calls, l \in BOOLEAN : b = thread[t] /\ l = closing
    BY Zenon, <1>2
  <2>2. PICK c \in Calls : /\ c = [b EXCEPT !.at = "recheck", !.late = l] /\ c.at = "recheck"
                           /\ c.via = b.via /\ c.object = b.object /\ c.late = l
    BY Zenon, TakesOne
  <2> QED BY Zenon, <1>1, <2>1, <2>2
<1>4. ThreadsTyped' /\ CreatorsKeep' /\ FlagIsSet' /\ FreedUnused' /\ NoLateObjects'
  <2>1. thread[t].at \notin {"idle", "free"} /\ c.at # "free" /\ c.at # "build"
    BY <1>1, <1>3
  <2>2. c.via # "none" /\ (c.late => closing) /\ c \in {Idle} \cup Calls
    BY Zenon, <1>2, <1>3
  <2>3. UNCHANGED <<closing, freed, handle, live>>
    BY Zenon, <1>1
  <2> QED BY Zenon, <1>3, <2>1, <2>2, <2>3, ThreadMoves
<1>5. Counted'
  <2>1. Holding' = Holding \cup {t} /\ t \notin Holding
    <3>1. t \notin Holding /\ c.at \in {"recheck", "build", "release"}
      BY <1>1, <1>3 DEF Holding
    <3> QED BY Zenon, <1>3, <3>1, HoldingMoves DEF Inv
  <2>2. /\ IsFiniteSet(Holding') /\ Cardinality(Holding') = Cardinality(Holding) + 1
        /\ Cardinality(Holding) \in Nat
    BY Zenon, <2>1, Joins DEF Inv, Counted
  <2>3. IsFiniteSet(live) /\ Cardinality(live) \in Nat
    BY Zenon, FS_CardinalityType DEF Inv, Counted
  <2>4. ReferencesCounted'
    BY <1>1, <2>2, <2>3 DEF Inv, Counted, ReferencesCounted
  <2> QED BY Zenon, <1>1, <2>2, <2>3, <2>4 DEF Counted
<1>6. TypeOK'
  <2>1. references' \in 0 .. MaxReferences
    BY <1>1, <1>2 DEF SystemAssumption
  <2> QED BY Zenon, <1>1, <1>4, <2>1, TypesFromThreads DEF Inv, TypeOK
<1> QED BY Zenon, <1>4, <1>5, <1>6 DEF Inv

\* What is left when one reference is: the thread that gives it back is the only
\* one in a call, and there is neither a handle nor an object.
LEMMA LastReference ==
    ASSUME SystemAssumption, Inv, NEW t \in Threads, thread[t].at = "release", references = 1
    PROVE  /\ live = {} /\ handle = "closed" /\ thread[t].via = "none"
           /\ \A u \in Threads \ {t} : thread[u] = Idle
<1>1. t \in Holding
  BY Zenon DEF Holding
<1>2. /\ Cardinality(live) \in Nat /\ Cardinality(Holding \ {t}) \in Nat
      /\ Cardinality(Holding \ {t}) = Cardinality(Holding) - 1 /\ Cardinality(Holding) \in Nat
      /\ IsFiniteSet(live) /\ IsFiniteSet(Holding \ {t})
  BY Zenon, <1>1, Leaves, FS_CardinalityType DEF Inv, Counted
<1>3. handle # "open" /\ Cardinality(live) = 0 /\ Cardinality(Holding \ {t}) = 0
  BY <1>2 DEF Inv, Counted, ReferencesCounted
<1>4. live = {} /\ Holding \ {t} = {} /\ handle = "closed"
  BY Zenon, <1>2, <1>3, FS_EmptySet DEF Inv, TypeOK
<1>5. \A u \in Threads : ~Creates(u)
  <2>1. ASSUME NEW u \in Threads, Creates(u) PROVE FALSE
    <3>1. IF thread[u].via = "handle" THEN handle = "open" ELSE thread[u].via \in live
      BY Zenon, <2>1 DEF Inv, CreatorsKeep
    <3> QED BY <1>3, <1>4, <3>1
  <2> QED BY Zenon, <2>1
<1>6. thread[t].via = "none"
  BY <1>5 DEF Creates
<1>7. ASSUME NEW u \in Threads \ {t}, thread[u] # Idle PROVE FALSE
  <2>1. thread[u].at \in Stages /\ u \in Threads
    BY Zenon, <1>7, CallFields DEF Inv
  <2>2. thread[u].at \notin Retaining
    BY <1>5, <2>1 DEF Inv, CreatorsKeep, Creates, Stages
  <2>3. thread[u].at # "free"
    <3>1. thread[t].at \notin {"idle", "free"}
      OBVIOUS
    <3> QED BY Zenon, <2>1, <3>1, NobodyFrees
  <2>4. thread[u].at # "release"
    BY Zenon, <1>4, <1>7, <2>1 DEF Holding
  <2> QED BY <2>1, <2>2, <2>3, <2>4 DEF Stages, Retaining
<1> QED BY Zenon, <1>4, <1>6, <1>7

\* minimm_system_release.
LEMMA InvRelease ==
    ASSUME SystemAssumption, Inv, NEW t \in Threads, Release(t)
    PROVE  Inv'
<1>1. thread[t].at = "release" /\ references' = references - 1 /\ UNCHANGED <<closing, freed, handle, live>>
  BY Zenon DEF Release
<1>2. thread[t] \in Calls /\ thread[t].at \notin {"idle", "free"} /\ "free" \in Stages
  <2>1. thread[t].at \notin {"idle", "free"}
    BY <1>1
  <2> QED BY Zenon, <2>1, CallFields DEF Inv, Stages
<1>3. PICK c \in {Idle} \cup Calls :
        /\ thread' = [thread EXCEPT ![t] = c]
        /\ \/ c = Idle /\ c.at = "idle" /\ references # 1
           \/ /\ references = 1 /\ c.at = "free"
              /\ c.via = thread[t].via /\ c.object = thread[t].object /\ c.late = thread[t].late
  <2>1. CASE references = 1
    <3>1. PICK c \in Calls : /\ c = [thread[t] EXCEPT !.at = "free"] /\ c.at = "free"
                             /\ c.via = thread[t].via /\ c.object = thread[t].object
                             /\ c.late = thread[t].late
      BY Zenon, <1>2, GoesOn
    <3>2. thread' = [thread EXCEPT ![t] = c]
      BY Zenon, <2>1, <3>1 DEF Release, Going
    <3> QED BY Zenon, <2>1, <3>1, <3>2
  <2>2. CASE references # 1
    <3>1. thread' = [thread EXCEPT ![t] = Idle] /\ Idle.at = "idle"
      BY Zenon, <2>2 DEF Release, Idle
    <3> QED BY Zenon, <2>2, <3>1
  <2> QED BY Zenon, <2>1, <2>2
<1>4. c.at \in {"idle", "free"}
  BY Zenon, <1>3
<1>5. Counted' /\ references' \in 0 .. MaxReferences
  <2>1. t \in Holding /\ Holding' = Holding \ {t}
    <3>1. t \in Holding /\ c.at \notin {"recheck", "build", "release"}
      BY <1>1, <1>4 DEF Holding
    <3> QED BY Zenon, <1>3, <3>1, HoldingMoves DEF Inv
  <2>2. /\ IsFiniteSet(Holding') /\ Cardinality(Holding') = Cardinality(Holding) - 1
        /\ Cardinality(Holding) \in Nat /\ Cardinality(Holding) > 0
    BY Zenon, <2>1, Leaves DEF Inv, Counted
  <2>3. IsFiniteSet(live) /\ Cardinality(live) \in Nat
    BY Zenon, FS_CardinalityType DEF Inv, Counted
  <2>4. ReferencesCounted'
    BY <1>1, <2>2, <2>3 DEF Inv, Counted, ReferencesCounted
  <2>5. references > 0
    BY <2>2, <2>3 DEF Inv, Counted, ReferencesCounted
  <2>6. references' \in 0 .. MaxReferences
    BY <1>1, <2>5 DEF Inv, TypeOK, SystemAssumption
  <2> QED BY Zenon, <1>1, <2>2, <2>3, <2>4, <2>6 DEF Counted
<1>6. ThreadsTyped' /\ CreatorsKeep' /\ FlagIsSet' /\ FreedUnused' /\ NoLateObjects'
  <2>1. CASE c = Idle /\ c.at = "idle"
    <3>1. c.at # "free" /\ c.at \notin Retaining /\ c.at # "build"
      BY <2>1 DEF Retaining
    <3>2. UNCHANGED <<closing, freed, handle, live>>
      BY Zenon, <1>1
    <3> QED BY Zenon, <1>2, <1>3, <2>1, <3>1, <3>2, ThreadMoves
  <2>2. CASE /\ references = 1 /\ c.at = "free" /\ c.via = thread[t].via /\ c.late = thread[t].late
    <3>1. /\ live' = {} /\ handle' = "closed" /\ c.via = "none"
          /\ \A u \in Threads \ {t} : thread[u] = Idle
      BY Zenon, <1>1, <2>2, LastReference
    <3>2. thread'[t] = c /\ \A u \in Threads \ {t} : thread'[u] = Idle
      BY Zenon, <1>3, <3>1 DEF Inv, ThreadsTyped
    <3>3. Idle.at = "idle" /\ "free" \notin Retaining /\ "idle" \notin Retaining
      BY DEF Idle, Retaining
    <3>4. ThreadsTyped'
      BY Zenon, <1>3 DEF Inv, ThreadsTyped
    <3>5. \A u \in Threads : ~Creates(u)' /\ thread'[u].at \notin Retaining /\ thread'[u].at # "build"
      BY <2>2, <3>1, <3>2, <3>3 DEF Creates
    <3>6. CreatorsKeep' /\ NoLateObjects'
      BY Zenon, <3>5 DEF CreatorsKeep, NoLateObjects
    <3>7. freed' = FALSE
      BY Zenon, <1>1, <1>2, NobodyFrees
    <3>8. closing' /\ FlagIsSet'
      BY Zenon, <1>1, <3>1, <3>2, <3>3 DEF Inv, FlagIsSet
    <3>9. FreedUnused'
      BY <3>1, <3>2, <3>3, <3>7 DEF FreedUnused
    <3> QED BY Zenon, <3>4, <3>6, <3>8, <3>9
  <2> QED BY Zenon, <1>3, <2>1, <2>2
<1>7. TypeOK'
  BY Zenon, <1>1, <1>5, <1>6, TypesFromThreads DEF Inv, TypeOK
<1> QED BY Zenon, <1>5, <1>6, <1>7 DEF Inv

\* The thread that freed the system leaves.
LEMMA InvFree ==
    ASSUME SystemAssumption, Inv, NEW t \in Threads, Free(t)
    PROVE  Inv'
<1>1. /\ thread[t].at = "free" /\ freed' = TRUE /\ thread' = [thread EXCEPT ![t] = Idle]
      /\ UNCHANGED <<references, closing, handle, live>>
  BY Zenon DEF Free
<1>2. /\ live = {} /\ handle = "closed" /\ closing
      /\ \A u \in Threads \ {t} : thread[u] = Idle
  BY Zenon, <1>1 DEF Inv, FreedUnused, FlagIsSet
<1>3. \A u \in Threads : thread'[u] = Idle
  BY Zenon, <1>1, <1>2 DEF Inv, ThreadsTyped
<1>4. Idle.at = "idle" /\ "idle" \notin Retaining
  BY DEF Idle, Retaining
<1>5. ThreadsTyped'
  BY Zenon, <1>1 DEF Inv, ThreadsTyped
<1>6. CreatorsKeep' /\ FlagIsSet' /\ FreedUnused' /\ NoLateObjects'
  BY <1>1, <1>2, <1>3, <1>4 DEF CreatorsKeep, Creates, FlagIsSet, FreedUnused, NoLateObjects
<1>7. Counted'
  <2>1. Idle.at \in {"recheck", "build", "release"} <=> t \in Holding
    BY <1>1, <1>4 DEF Holding
  <2> QED BY Zenon, <1>1, <2>1, KeepsCount
<1>8. TypeOK'
  BY Zenon, <1>1, <1>5, TypesFromThreads DEF Inv, TypeOK
<1> QED BY Zenon, <1>5, <1>6, <1>7, <1>8 DEF Inv

-----------------------------------------------------------------------------
(* Objects and the handle come and go.                                     *)

\* The object is there, and its reference is the one its creator took.
LEMMA InvBuild ==
    ASSUME SystemAssumption, Inv, NEW t \in Threads, Build(t)
    PROVE  Inv'
<1>1. /\ thread[t].at = "build" /\ thread' = [thread EXCEPT ![t] = Idle]
      /\ live' = live \cup {thread[t].object} /\ UNCHANGED <<references, closing, freed, handle>>
  BY Zenon DEF Build
<1>2. /\ thread[t].at \notin {"idle", "free"} /\ Creates(t) /\ thread[t].object \in Objects \ live
  <2>1. thread[t].at \notin {"idle", "free"} /\ thread[t].at \in Retaining
    BY <1>1 DEF Retaining
  <2>2. Creates(t)
    BY Zenon, <2>1 DEF Inv, CreatorsKeep, Creates
  <2> QED BY Zenon, <2>1, <2>2 DEF Inv, CreatorsKeep
<1>3. thread'[t] = Idle /\ \A u \in Threads \ {t} : thread'[u] = thread[u]
  BY Zenon, <1>1 DEF Inv, ThreadsTyped
<1>4. Idle.at = "idle" /\ "idle" \notin Retaining
  BY DEF Idle, Retaining
<1>5. freed' = FALSE /\ \A u \in Threads : thread'[u].at # "free"
  BY Zenon, <1>1, <1>2, <1>3, <1>4, NobodyFrees
<1>6. ThreadsTyped'
  BY Zenon, <1>1 DEF Inv, ThreadsTyped
<1>7. CreatorsKeep'
  <2>1. ASSUME NEW u \in Threads PROVE Creates(u)' => u # t /\ Creates(u)
    BY Zenon, <1>3, <1>4 DEF Creates
  <2>2. ASSUME NEW u \in Threads PROVE thread'[u].at \in Retaining => thread'[u].via # "none"
    BY Zenon, <1>3, <1>4 DEF Inv, CreatorsKeep
  <2>3. ASSUME NEW u \in Threads, Creates(u)'
        PROVE  /\ IF thread'[u].via = "handle" THEN handle' = "open" ELSE thread'[u].via \in live'
               /\ thread'[u].object \in Objects \ live'
    <3>1. /\ IF thread[u].via = "handle" THEN handle = "open" ELSE thread[u].via \in live
          /\ thread[u].object \in Objects \ live
      BY Zenon, <2>1, <2>3 DEF Inv, CreatorsKeep
    <3>2. thread[u].object # thread[t].object
      BY Zenon, <1>2, <2>1, <2>3 DEF Inv, CreatorsKeep
    <3>3. thread'[u] = thread[u]
      BY Zenon, <1>3, <2>1, <2>3
    <3> QED BY <1>1, <3>1, <3>2, <3>3
  <2>4. ASSUME NEW u \in Threads, NEW v \in Threads \ {u}, Creates(u)', Creates(v)'
        PROVE  thread'[v].object # thread'[u].object
    <3>1. Creates(u) /\ Creates(v) /\ u # t /\ v # t /\ v \in Threads
      BY Zenon, <2>1, <2>4
    <3>2. thread[v].object # thread[u].object
      BY Zenon, <3>1 DEF Inv, CreatorsKeep
    <3> QED BY Zenon, <1>3, <3>1, <3>2
  <2> QED BY Zenon, <2>2, <2>3, <2>4 DEF CreatorsKeep
<1>8. FlagIsSet' /\ FreedUnused' /\ NoLateObjects'
  <2>1. FlagIsSet'
    BY Zenon, <1>1, <1>3, <1>4, <1>5 DEF Inv, FlagIsSet
  <2>2. FreedUnused'
    BY Zenon, <1>5 DEF FreedUnused
  <2>3. NoLateObjects'
    BY <1>3, <1>4 DEF Inv, NoLateObjects
  <2> QED BY Zenon, <2>1, <2>2, <2>3
<1>9. Counted'
  <2>1. t \in Holding /\ Holding' = Holding \ {t}
    <3>1. t \in Holding /\ Idle.at \notin {"recheck", "build", "release"}
      BY <1>1, <1>4 DEF Holding
    <3> QED BY Zenon, <1>1, <3>1, HoldingMoves DEF Inv
  <2>2. /\ IsFiniteSet(Holding') /\ Cardinality(Holding') = Cardinality(Holding) - 1
        /\ Cardinality(Holding) \in Nat
    BY Zenon, <2>1, Leaves DEF Inv, Counted
  <2>3. IsFiniteSet(live') /\ Cardinality(live') = Cardinality(live) + 1 /\ Cardinality(live) \in Nat
    <3>1. thread[t].object \notin live
      BY Zenon, <1>2
    <3> QED BY Zenon, <1>1, <3>1, Joins DEF Inv, Counted
  <2>4. ReferencesCounted'
    BY <1>1, <2>2, <2>3 DEF Inv, Counted, ReferencesCounted
  <2> QED BY Zenon, <2>2, <2>3, <2>4 DEF Counted
<1>10. TypeOK'
  <2>1. live' \subseteq Objects
    BY Zenon, <1>1, <1>2 DEF Inv, TypeOK
  <2> QED BY Zenon, <1>1, <1>6, <2>1, TypesFromThreads DEF Inv, TypeOK
<1> QED BY Zenon, <1>6, <1>7, <1>8, <1>9, <1>10 DEF Inv

\* An object or the handle is destroyed by a thread that goes on to give its
\* reference back.
LEMMA Destroys ==
    ASSUME SystemAssumption, Inv, NEW t \in Threads, NEW c \in Calls, thread[t] = Idle,
           thread' = [thread EXCEPT ![t] = c], c.at = "release", c.via = "none", c.late = FALSE,
           live' \subseteq live, UNCHANGED <<references, freed>>, handle = "open" \/ live # {},
           \A v \in InUse \ {"handle"} : v \in live => v \in live',
           "handle" \in InUse => handle' = handle,
           closing' <=> handle' = "closed", closing => closing'
    PROVE  /\ ThreadsTyped' /\ CreatorsKeep' /\ FlagIsSet' /\ FreedUnused' /\ NoLateObjects'
           /\ IsFiniteSet(Holding') /\ Cardinality(Holding') = Cardinality(Holding) + 1
           /\ Cardinality(Holding) \in Nat
<1>1. thread'[t] = c /\ \A u \in Threads \ {t} : thread'[u] = thread[u]
  BY Zenon DEF Inv, ThreadsTyped
<1>2. Idle.at = "idle" /\ "release" \notin Retaining
  BY DEF Idle, Retaining
<1>3. freed' = FALSE /\ \A u \in Threads : thread'[u].at # "free"
  BY Zenon, <1>1, NobodyFreed
<1>4. ThreadsTyped'
  BY Zenon DEF Inv, ThreadsTyped
<1>5. CreatorsKeep'
  <2>1. ASSUME NEW u \in Threads PROVE Creates(u)' => u # t /\ Creates(u)
    BY Zenon, <1>1 DEF Creates
  <2>2. ASSUME NEW u \in Threads PROVE thread'[u].at \in Retaining => thread'[u].via # "none"
    BY Zenon, <1>1, <1>2 DEF Inv, CreatorsKeep
  <2>3. ASSUME NEW u \in Threads, Creates(u)'
        PROVE  /\ IF thread'[u].via = "handle" THEN handle' = "open" ELSE thread'[u].via \in live'
               /\ thread'[u].object \in Objects \ live'
    <3>1. /\ IF thread[u].via = "handle" THEN handle = "open" ELSE thread[u].via \in live
          /\ thread[u].object \in Objects \ live
      BY Zenon, <2>1, <2>3 DEF Inv, CreatorsKeep
    <3>2. thread[u].via \in InUse
      BY Zenon, <2>1, <2>3 DEF InUse, Creates
    <3>3. thread'[u] = thread[u]
      BY Zenon, <1>1, <2>1, <2>3
    <3> QED BY <3>1, <3>2, <3>3
  <2>4. ASSUME NEW u \in Threads, NEW v \in Threads \ {u}, Creates(u)', Creates(v)'
        PROVE  thread'[v].object # thread'[u].object
    <3>1. Creates(u) /\ Creates(v) /\ u # t /\ v # t /\ v \in Threads
      BY Zenon, <2>1, <2>4
    <3>2. thread[v].object # thread[u].object
      BY Zenon, <3>1 DEF Inv, CreatorsKeep
    <3> QED BY Zenon, <1>1, <3>1, <3>2
  <2> QED BY Zenon, <2>2, <2>3, <2>4 DEF CreatorsKeep
<1>6. FlagIsSet'
  <2>1. \A u \in Threads : thread'[u].at # "idle" /\ thread'[u].late => closing'
    BY <1>1 DEF Inv, FlagIsSet
  <2> QED BY Zenon, <1>3, <2>1 DEF FlagIsSet
<1>7. FreedUnused'
  BY Zenon, <1>3 DEF FreedUnused
<1>8. NoLateObjects'
  BY <1>1 DEF Inv, NoLateObjects
<1>9. t \notin Holding /\ Holding' = Holding \cup {t}
  <2>1. t \notin Holding /\ c.at \in {"recheck", "build", "release"}
    BY <1>2 DEF Holding
  <2> QED BY Zenon, <2>1, HoldingMoves DEF Inv
<1>10. /\ IsFiniteSet(Holding') /\ Cardinality(Holding') = Cardinality(Holding) + 1
       /\ Cardinality(Holding) \in Nat
  BY Zenon, <1>9, Joins DEF Inv, Counted
<1> QED BY Zenon, <1>4, <1>5, <1>6, <1>7, <1>8, <1>10

\* minimm_space_destroy, or the last close of a note.
LEMMA InvDestroyObject ==
    ASSUME SystemAssumption, Inv, NEW t \in Threads, NEW o \in Objects, DestroyObject(t, o)
    PROVE  Inv'
<1>1. /\ thread[t] = Idle /\ o \in live /\ o \notin InUse /\ live' = live \ {o}
      /\ UNCHANGED <<references, closing, freed, handle>>
      /\ thread' = [thread EXCEPT ![t] = Busy("release", "none", o, 0, FALSE)]
  BY Zenon DEF DestroyObject
<1>2. PICK c \in Calls : /\ thread' = [thread EXCEPT ![t] = c] /\ c.at = "release"
                         /\ c.via = "none" /\ c.late = FALSE
  <2>1. /\ "release" \in Stages /\ "none" \in Objects \cup {"handle", "none"}
        /\ o \in Objects \cup {"none"}
    BY Zenon DEF Stages
  <2>2. Busy("release", "none", o, 0, FALSE) \in Calls
    BY <2>1 DEF Busy, Calls, SystemAssumption
  <2>3. PICK c \in Calls : c = Busy("release", "none", o, 0, FALSE)
    BY Zenon, <2>2
  <2> QED BY Zenon, <1>1, <2>3 DEF Busy
<1>3. /\ ThreadsTyped' /\ CreatorsKeep' /\ FlagIsSet' /\ FreedUnused' /\ NoLateObjects'
      /\ IsFiniteSet(Holding') /\ Cardinality(Holding') = Cardinality(Holding) + 1
      /\ Cardinality(Holding) \in Nat
  <2>1. /\ live' \subseteq live /\ UNCHANGED <<references, freed>> /\ (handle = "open" \/ live # {})
        /\ \A v \in InUse \ {"handle"} : v \in live => v \in live'
        /\ "handle" \in InUse => handle' = handle
    BY Zenon, <1>1
  <2>2. (closing' <=> handle' = "closed") /\ (closing => closing')
    BY Zenon, <1>1 DEF Inv, FlagIsSet
  <2> QED BY Zenon, <1>1, <1>2, <2>1, <2>2, Destroys
<1>4. Counted'
  <2>1. IsFiniteSet(live') /\ Cardinality(live') = Cardinality(live) - 1 /\ Cardinality(live) \in Nat
    BY Zenon, <1>1, Leaves DEF Inv, Counted
  <2>2. ReferencesCounted'
    BY <1>1, <1>3, <2>1 DEF Inv, Counted, ReferencesCounted
  <2> QED BY Zenon, <1>3, <2>1, <2>2 DEF Counted
<1>5. TypeOK'
  <2>1. live' \subseteq Objects
    BY Zenon, <1>1 DEF Inv, TypeOK
  <2> QED BY Zenon, <1>1, <1>3, <2>1, TypesFromThreads DEF Inv, TypeOK
<1> QED BY Zenon, <1>3, <1>4, <1>5 DEF Inv

\* minimm_destroy.
LEMMA InvDestroy ==
    ASSUME SystemAssumption, Inv, NEW t \in Threads, Destroy(t)
    PROVE  Inv'
<1>1. /\ thread[t] = Idle /\ handle = "open" /\ "handle" \notin InUse
      /\ handle' = "closed" /\ closing' = TRUE /\ UNCHANGED <<references, freed, live>>
      /\ thread' = [thread EXCEPT ![t] = Busy("release", "none", "none", 0, FALSE)]
  BY Zenon DEF Destroy
<1>2. PICK c \in Calls : /\ thread' = [thread EXCEPT ![t] = c] /\ c.at = "release"
                         /\ c.via = "none" /\ c.late = FALSE
  <2>1. /\ "release" \in Stages /\ "none" \in Objects \cup {"handle", "none"}
        /\ "none" \in Objects \cup {"none"}
    BY Zenon DEF Stages
  <2>2. Busy("release", "none", "none", 0, FALSE) \in Calls
    BY <2>1 DEF Busy, Calls, SystemAssumption
  <2>3. PICK c \in Calls : c = Busy("release", "none", "none", 0, FALSE)
    BY Zenon, <2>2
  <2> QED BY Zenon, <1>1, <2>3 DEF Busy
<1>3. /\ ThreadsTyped' /\ CreatorsKeep' /\ FlagIsSet' /\ FreedUnused' /\ NoLateObjects'
      /\ IsFiniteSet(Holding') /\ Cardinality(Holding') = Cardinality(Holding) + 1
      /\ Cardinality(Holding) \in Nat
  <2>1. /\ live' \subseteq live /\ UNCHANGED <<references, freed>> /\ (handle = "open" \/ live # {})
        /\ \A v \in InUse \ {"handle"} : v \in live => v \in live'
        /\ "handle" \in InUse => handle' = handle
        /\ (closing' <=> handle' = "closed") /\ (closing => closing')
    BY Zenon, <1>1
  <2> QED BY Zenon, <1>1, <1>2, <2>1, Destroys
<1>4. Counted'
  <2>1. IsFiniteSet(live) /\ Cardinality(live) \in Nat
    BY Zenon, FS_CardinalityType DEF Inv, Counted
  <2>2. ReferencesCounted'
    BY <1>1, <1>3, <2>1 DEF Inv, Counted, ReferencesCounted
  <2> QED BY Zenon, <1>1, <1>3, <2>1, <2>2 DEF Counted
<1>5. TypeOK'
  BY Zenon, <1>1, <1>3, TypesFromThreads DEF Inv, TypeOK
<1> QED BY Zenon, <1>3, <1>4, <1>5 DEF Inv

\* A call that will create an object begins while the handle or a space is there.
LEMMA InvBeginCreate ==
    ASSUME SystemAssumption, Inv, NEW t \in Threads, NEW o \in Objects,
           NEW via \in Objects \cup {"handle"}, BeginCreate(t, via, o)
    PROVE  Inv'
<1>1. /\ thread[t] = Idle /\ o \in Objects \ live
      /\ \A u \in Threads : thread[u].at # "idle" => thread[u].object # o
      /\ IF via = "handle" THEN handle = "open" ELSE via \in live
      /\ UNCHANGED <<references, closing, freed, handle, live>>
      /\ thread' = [thread EXCEPT ![t] = Busy("check", via, o, 0, FALSE)]
  BY Zenon DEF BeginCreate
<1>2. PICK c \in Calls : /\ thread' = [thread EXCEPT ![t] = c] /\ c.at = "check"
                         /\ c.via = via /\ c.object = o /\ c.late = FALSE
  <2>1. /\ "check" \in Stages /\ via \in Objects \cup {"handle", "none"}
        /\ o \in Objects \cup {"none"}
    BY Zenon DEF Stages
  <2>2. Busy("check", via, o, 0, FALSE) \in Calls
    BY <2>1 DEF Busy, Calls, SystemAssumption
  <2>3. PICK c \in Calls : c = Busy("check", via, o, 0, FALSE)
    BY Zenon, <2>2
  <2> QED BY Zenon, <1>1, <2>3 DEF Busy
<1>3. thread'[t] = c /\ \A u \in Threads \ {t} : thread'[u] = thread[u]
  BY Zenon, <1>2 DEF Inv, ThreadsTyped
<1>4. Idle.at = "idle" /\ via # "none" /\ (handle = "open" \/ live # {})
  BY <1>1 DEF Idle, SystemAssumption
<1>5. freed' = FALSE /\ \A u \in Threads : thread'[u].at # "free"
  <2>1. "check" # "free"
    OBVIOUS
  <2> QED BY Zenon, <1>1, <1>2, <1>3, <1>4, <2>1, NobodyFreed
<1>6. ThreadsTyped'
  BY Zenon, <1>2 DEF Inv, ThreadsTyped
<1>7. CreatorsKeep'
  <2>1. ASSUME NEW u \in Threads \ {t} PROVE Creates(u)' <=> Creates(u)
    BY Zenon, <1>3 DEF Creates
  <2>2. ASSUME NEW u \in Threads PROVE thread'[u].at \in Retaining => thread'[u].via # "none"
    BY Zenon, <1>2, <1>3, <1>4 DEF Inv, CreatorsKeep
  <2>3. ASSUME NEW u \in Threads, Creates(u)'
        PROVE  /\ IF thread'[u].via = "handle" THEN handle' = "open" ELSE thread'[u].via \in live'
               /\ thread'[u].object \in Objects \ live'
    <3>1. CASE u = t
      BY Zenon, <1>1, <1>2, <1>3, <3>1
    <3>2. CASE u # t
      <4>1. /\ IF thread[u].via = "handle" THEN handle = "open" ELSE thread[u].via \in live
            /\ thread[u].object \in Objects \ live
        BY Zenon, <2>1, <2>3, <3>2 DEF Inv, CreatorsKeep
      <4> QED BY <1>1, <1>3, <3>2, <4>1
    <3> QED BY Zenon, <3>1, <3>2
  <2>4. ASSUME NEW u \in Threads, NEW v \in Threads \ {u}, Creates(u)', Creates(v)'
        PROVE  thread'[v].object # thread'[u].object
    <3>1. ASSUME NEW w \in Threads \ {t}, Creates(w)' PROVE thread'[w].object # thread'[t].object
      <4>1. thread'[w] = thread[w] /\ thread[w].at # "idle"
        BY Zenon, <1>3, <3>1 DEF Creates
      <4> QED BY Zenon, <1>1, <1>2, <1>3, <4>1
    <3>2. CASE u # t /\ v # t
      <4>1. Creates(u) /\ Creates(v) /\ v \in Threads
        BY Zenon, <2>1, <2>4, <3>2
      <4>2. thread[v].object # thread[u].object
        BY Zenon, <4>1 DEF Inv, CreatorsKeep
      <4> QED BY Zenon, <1>3, <3>2, <4>2
    <3> QED BY Zenon, <2>4, <3>1, <3>2
  <2> QED BY Zenon, <2>2, <2>3, <2>4 DEF CreatorsKeep
<1>8. FlagIsSet' /\ FreedUnused' /\ NoLateObjects'
  <2>1. FlagIsSet'
    BY Zenon, <1>1, <1>2, <1>3, <1>5 DEF Inv, FlagIsSet
  <2>2. FreedUnused'
    BY Zenon, <1>5 DEF FreedUnused
  <2>3. NoLateObjects'
    BY <1>2, <1>3 DEF Inv, NoLateObjects
  <2> QED BY Zenon, <2>1, <2>2, <2>3
<1>9. Counted'
  <2>1. c.at \in {"recheck", "build", "release"} <=> t \in Holding
    BY <1>1, <1>2, <1>4 DEF Holding
  <2> QED BY Zenon, <1>1, <1>2, <2>1, KeepsCount
<1>10. TypeOK'
  BY Zenon, <1>1, <1>6, TypesFromThreads DEF Inv, TypeOK
<1> QED BY Zenon, <1>6, <1>7, <1>8, <1>9, <1>10 DEF Inv

-----------------------------------------------------------------------------
(* The induction.                                                          *)

\* A system that was just created.
LEMMA InvInit == SystemAssumption /\ Init => Inv
<1> SUFFICES ASSUME SystemAssumption, Init PROVE Inv
  OBVIOUS
<1>1. \A t \in Threads : thread[t] = Idle /\ thread[t].at = "idle"
  BY Zenon DEF Init, Idle
<1>2. ThreadsTyped
  BY Zenon DEF Init, ThreadsTyped
<1>3. TypeOK
  <2>1. references \in 0 .. MaxReferences
    BY DEF Init, SystemAssumption
  <2> QED BY Zenon, <1>1, <2>1 DEF Init, TypeOK
<1>4. Holding = {}
  BY <1>1 DEF Holding
<1>5. Counted
  <2>1. IsFiniteSet({}) /\ Cardinality({}) = 0
    BY Zenon, FS_EmptySet
  <2>2. live = {} /\ handle = "open" /\ references = 1
    BY Zenon DEF Init
  <2> QED BY <1>4, <2>1, <2>2 DEF Counted, ReferencesCounted
<1>6. CreatorsKeep /\ FlagIsSet /\ FreedUnused /\ NoLateObjects
  <2>1. closing = FALSE /\ freed = FALSE /\ handle # "closed"
    BY DEF Init
  <2> QED BY <1>1, <2>1 DEF CreatorsKeep, Creates, Retaining, FlagIsSet, FreedUnused, NoLateObjects
<1> QED BY Zenon, <1>2, <1>3, <1>5, <1>6 DEF Inv

\* Every step keeps the invariant.
LEMMA InvNext == SystemAssumption /\ Inv /\ [Next]_vars => Inv'
<1> SUFFICES ASSUME SystemAssumption, Inv, [Next]_vars PROVE Inv'
  OBVIOUS
<1>1. ASSUME UNCHANGED vars PROVE Inv'
  BY Zenon, <1>1 DEF vars, Inv, TypeOK, ThreadsTyped, CreatorsKeep, Creates, FlagIsSet, Counted,
     Holding, ReferencesCounted, FreedUnused, NoLateObjects
<1>2. ASSUME NEW t \in Threads, Step(t) PROVE Inv'
  BY Zenon, <1>2, InvWalks, InvExchange, InvBuild, InvRelease, InvFree DEF Step
<1> QED BY Zenon, <1>1, <1>2, InvDestroy, InvDestroyObject, InvBeginCreate DEF Next, Terminated

\* The life of a system (mm.c), for any number of threads and objects and any
\* largest count: minimm_system_try_retain and minimm_system_release count the
\* holders exactly, the system is freed by one thread when neither the handle nor
\* an object nor a call is left, and no object is built with a reference that was
\* taken after minimm_destroy began.
THEOREM SystemIsSafe == ASSUME SystemAssumption PROVE Spec => []SystemSafe
<1>1. Init => Inv
  BY Zenon, InvInit
<1>2. Inv /\ [Next]_vars => Inv'
  BY Zenon, InvNext
<1>3. Inv => SystemSafe
  BY Zenon DEF Inv, Counted, SystemSafe
<1> QED BY <1>1, <1>2, <1>3, PTL DEF Spec

=============================================================================
