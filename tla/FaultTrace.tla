----------------------------- MODULE FaultTrace -----------------------------
(***************************************************************************)
(* The fault trace of a space (fault.c): a ring of the latest faults, the  *)
(* number that was overwritten, and the sequence number that every fault   *)
(* takes when it begins.  All of it happens under the space lock.          *)
(***************************************************************************)
EXTENDS Integers, Sequences

CONSTANTS
    Capacity,       \* MINIMM_FAULT_TRACE_CAPACITY
    MaxSequence,    \* UINT64_MAX of fault_sequence
    MaxCount        \* UINT64_MAX of fault_trace_overwritten_count

TraceAssumption ==
    Capacity \in Nat \ {0} /\ MaxSequence \in Nat \ 0..Capacity /\ MaxCount \in Nat \ {0}

VARIABLES
    sequence,       \* fault_sequence
    ring, start, count, overwritten,
    log, lost       \* the latest faults since the last clearing, and how many were before them

vars == <<sequence, ring, start, count, overwritten, log, lost>>

Slots == 0..Capacity-1

Init ==
    /\ sequence = 0
    /\ ring = [i \in Slots |-> 0] /\ start = 0 /\ count = 0 /\ overwritten = 0
    /\ log = <<>> /\ lost = 0

(* minimm_fault_begin *)
NextSequence == IF sequence = MaxSequence THEN 1 ELSE sequence + 1

(* Seeded fault: the oldest entry is overwritten and stays the first. *)
AppendAtStart(fault) ==
    IF count < Capacity
    THEN /\ ring' = [ring EXCEPT ![(start + count) % Capacity] = fault]
         /\ count' = count + 1
         /\ UNCHANGED <<start, overwritten>>
    ELSE /\ ring' = [ring EXCEPT ![start] = fault]
         /\ overwritten' = IF overwritten = MaxCount THEN overwritten ELSE overwritten + 1
         /\ UNCHANGED <<start, count>>

(* minimm_fault_trace_append_locked *)
AppendLocked(fault) ==
    IF count < Capacity
    THEN /\ ring' = [ring EXCEPT ![(start + count) % Capacity] = fault]
         /\ count' = count + 1
         /\ UNCHANGED <<start, overwritten>>
    ELSE /\ ring' = [ring EXCEPT ![start] = fault]
         /\ start' = (start + 1) % Capacity
         /\ overwritten' = IF overwritten = MaxCount THEN overwritten ELSE overwritten + 1
         /\ UNCHANGED count

(* A fault that is handled, whatever comes of it, begins and is traced. *)
HandleFault ==
    /\ sequence' = NextSequence
    /\ AppendLocked(sequence')
    /\ IF Len(log) < Capacity
       THEN log' = Append(log, sequence') /\ UNCHANGED lost
       ELSE log' = Append(Tail(log), sequence') /\ lost' = IF lost = MaxCount THEN lost ELSE lost + 1

(* minimm_space_clear_fault_trace: the sequence goes on. *)
ClearTrace ==
    /\ ring' = [i \in Slots |-> 0] /\ start' = 0 /\ count' = 0 /\ overwritten' = 0
    /\ log' = <<>> /\ lost' = 0
    /\ UNCHANGED sequence

(* minimm_space_get_fault_trace: the entries, the oldest first. *)
GetTrace == [i \in 1..count |-> ring[(start + i - 1) % Capacity]]

Next == HandleFault \/ ClearTrace

Spec == Init /\ [][Next]_vars

-----------------------------------------------------------------------------
TypeOK ==
    /\ sequence \in 0..MaxSequence /\ ring \in [Slots -> 0..MaxSequence]
    /\ start \in Slots /\ count \in 0..Capacity /\ overwritten \in 0..MaxCount

(* The trace that a caller gets is the latest faults since the last        *)
(* clearing, in the order in which they were handled, and says how many    *)
(* older ones it has lost, as far as its counter goes.                     *)
TraceIsLatest == TypeOK /\ GetTrace = log /\ overwritten = lost
=============================================================================
