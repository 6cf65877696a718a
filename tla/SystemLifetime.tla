--------------------------- MODULE SystemLifetime ---------------------------
(***************************************************************************)
(* The reference count of a miniMM system (mm.c).  The creator's handle,   *)
(* every space and every note hold one reference each.  A space or a note  *)
(* is created through the handle, or, by a fork, through a space whose     *)
(* reference keeps the system alive after the handle is destroyed; the     *)
(* count and the closing flag are read and changed by single atomic steps. *)
(***************************************************************************)
EXTENDS Integers, FiniteSets

CONSTANTS
    Threads,
    Objects,        \* the spaces and notes
    MaxReferences   \* SIZE_MAX of mm.c: the count that is never exceeded

SystemAssumption == MaxReferences \in Nat \ {0} /\ Objects \cap {"handle", "none"} = {}

VARIABLES
    references, closing,
    freed,          \* the system was destroyed and its memory given back
    handle,         \* "open", or "closed" from the call of minimm_destroy on
    live,           \* objects that exist
    thread          \* what each thread is doing

vars == <<references, closing, freed, handle, live, thread>>

Idle == [at |-> "idle"]

Stages == {"check", "load", "exchange", "recheck", "build", "release", "free"}

(* A thread that creates [object] does so through [via], the handle or a space. *)
Busy(at, via, object, seen, late) == [at |-> at, via |-> via, object |-> object, seen |-> seen, late |-> late]

(* The handle and the objects that a call under way needs: by contract nobody destroys them. *)
InUse == {thread[t].via : t \in {u \in Threads : thread[u].at # "idle"}}

Going(t, at) == thread' = [thread EXCEPT ![t].at = at]

(* minimm_create: one reference, for the handle. *)
Init ==
    /\ references = 1 /\ closing = FALSE /\ freed = FALSE
    /\ handle = "open" /\ live = {} /\ thread = [t \in Threads |-> Idle]

(* A call that will create an object: minimm_space_create, minimm_note_create, or a fork. *)
BeginCreate(t, via, o) ==
    /\ thread[t] = Idle
    /\ o \notin live /\ \A u \in Threads : thread[u].at # "idle" => thread[u].object # o
    /\ IF via = "handle" THEN handle = "open" ELSE via \in live
    /\ thread' = [thread EXCEPT ![t] = Busy("check", via, o, 0, FALSE)]
    /\ UNCHANGED <<references, closing, freed, handle, live>>

(***************************************************************************)
(* minimm_system_try_retain.                                               *)
(***************************************************************************)
CheckClosing(t) ==
    /\ thread[t].at = "check"
    /\ IF closing THEN thread' = [thread EXCEPT ![t] = Idle] ELSE Going(t, "load")
    /\ UNCHANGED <<references, closing, freed, handle, live>>

LoadReferences(t) ==
    /\ thread[t].at = "load"
    /\ thread' = [thread EXCEPT ![t].at = "exchange", ![t].seen = references]
    /\ UNCHANGED <<references, closing, freed, handle, live>>

Exchange(t) ==
    /\ thread[t].at = "exchange" /\ thread[t].seen # MaxReferences
    /\ references = thread[t].seen
    /\ references' = references + 1
    /\ thread' = [thread EXCEPT ![t].at = "recheck", ![t].late = closing]
    /\ UNCHANGED <<closing, freed, handle, live>>

(* The weak exchange may fail for no reason; the loop goes on with the count it saw. *)
ExchangeFails(t) ==
    /\ thread[t].at = "exchange" /\ thread[t].seen # MaxReferences
    /\ thread' = [thread EXCEPT ![t].seen = references]
    /\ UNCHANGED <<references, closing, freed, handle, live>>

RetainFull(t) ==
    /\ thread[t].at = "exchange" /\ thread[t].seen = MaxReferences
    /\ thread' = [thread EXCEPT ![t] = Idle]
    /\ UNCHANGED <<references, closing, freed, handle, live>>

(* The flag again: the destroyer may have set it after the first look. *)
RecheckClosing(t) ==
    /\ thread[t].at = "recheck"
    /\ Going(t, IF closing THEN "release" ELSE "build")
    /\ UNCHANGED <<references, closing, freed, handle, live>>

(***************************************************************************)
(* The rest of the calls.                                                  *)
(***************************************************************************)
Build(t) ==
    /\ thread[t].at = "build"
    /\ live' = live \cup {thread[t].object}
    /\ thread' = [thread EXCEPT ![t] = Idle]
    /\ UNCHANGED <<references, closing, freed, handle>>

(* Seeded fault: one error path forgets the reference. *)
ForgetReference(t) ==
    /\ thread[t].at = "build"
    /\ thread' = [thread EXCEPT ![t] = Idle]
    /\ UNCHANGED <<references, closing, freed, handle, live>>

(* An allocation fails: what was made is undone and the reference given back. *)
BuildFails(t) ==
    /\ thread[t].at = "build"
    /\ Going(t, "release")
    /\ UNCHANGED <<references, closing, freed, handle, live>>

(* minimm_space_destroy or the last close of a note: ends with the reference. *)
DestroyObject(t, o) ==
    /\ thread[t] = Idle /\ o \in live \ InUse
    /\ live' = live \ {o}
    /\ thread' = [thread EXCEPT ![t] = Busy("release", "none", o, 0, FALSE)]
    /\ UNCHANGED <<references, closing, freed, handle>>

(* minimm_destroy sets the flag and gives the handle's reference back. *)
Destroy(t) ==
    /\ thread[t] = Idle /\ handle = "open" /\ "handle" \notin InUse
    /\ handle' = "closed" /\ closing' = TRUE
    /\ thread' = [thread EXCEPT ![t] = Busy("release", "none", "none", 0, FALSE)]
    /\ UNCHANGED <<references, freed, live>>

(* Seeded fault: the count is decremented and then read again. *)
ReleaseThenRead(t) ==
    /\ thread[t].at = "release"
    /\ references' = references - 1
    /\ IF references <= 2 THEN Going(t, "free") ELSE thread' = [thread EXCEPT ![t] = Idle]
    /\ UNCHANGED <<closing, freed, handle, live>>

(* minimm_system_release: who takes the last reference destroys the system. *)
Release(t) ==
    /\ thread[t].at = "release"
    /\ references' = references - 1
    /\ IF references = 1 THEN Going(t, "free") ELSE thread' = [thread EXCEPT ![t] = Idle]
    /\ UNCHANGED <<closing, freed, handle, live>>

Free(t) ==
    /\ thread[t].at = "free"
    /\ freed' = TRUE
    /\ thread' = [thread EXCEPT ![t] = Idle]
    /\ UNCHANGED <<references, closing, handle, live>>

(* Everything is gone. *)
Terminated == freed /\ UNCHANGED vars

Step(t) ==
    \/ CheckClosing(t) \/ LoadReferences(t) \/ Exchange(t) \/ ExchangeFails(t) \/ RetainFull(t)
    \/ RecheckClosing(t) \/ Build(t) \/ BuildFails(t) \/ Release(t) \/ Free(t)

Next ==
    \/ \E t \in Threads :
        \/ Step(t) \/ Destroy(t)
        \/ \E o \in Objects : DestroyObject(t, o) \/ \E via \in Objects \cup {"handle"} : BeginCreate(t, via, o)
    \/ Terminated

Spec == Init /\ [][Next]_vars

(***************************************************************************)
(* Properties.                                                             *)
(***************************************************************************)
TypeOK ==
    /\ references \in 0..MaxReferences /\ closing \in BOOLEAN /\ freed \in BOOLEAN
    /\ handle \in {"open", "closed"} /\ live \subseteq Objects
    /\ \A t \in Threads : thread[t].at \in Stages \cup {"idle"}

(* Threads that hold a reference of their own, or one they took over from what they destroy. *)
Holding == {t \in Threads : thread[t].at \in {"recheck", "build", "release"}}

(* The count is the number of holders: the handle, the objects, and the    *)
(* threads between taking a reference and handing it on or giving it back  *)
(* (minimm_system_try_retain, minimm_system_release).                      *)
ReferencesCounted ==
    references = (IF handle = "open" THEN 1 ELSE 0) + Cardinality(live) + Cardinality(Holding)

(* Nobody can reach a system that is being freed: no object is left, no    *)
(* thread is in a call on it, and only one thread frees it                 *)
(* (minimm_system_release against a fork that is in try_retain).           *)
FreedUnused ==
    /\ freed => live = {} /\ \A t \in Threads : thread[t] = Idle
    /\ \A t \in Threads : thread[t].at = "free" =>
        live = {} /\ \A u \in Threads \ {t} : thread[u] = Idle

(* A reference taken after minimm_destroy began is never used to build an  *)
(* object: the second look at the flag in minimm_system_try_retain.        *)
NoLateObjects == \A t \in Threads : thread[t].at = "build" => ~thread[t].late

(* All of the above, which is what a caller relies on. *)
SystemSafe == TypeOK /\ ReferencesCounted /\ FreedUnused /\ NoLateObjects

(* A system whose handle was destroyed is freed in the end.                *)
FreedInTheEnd == closing ~> freed

=============================================================================
