------------------------------- MODULE EventLog -------------------------------
(***************************************************************************)
(* The event log (mp_event_log_*, src/src/cmem_ring_event.c) over the ring *)
(* allocator: a record and a consume each take a slot with mp_ring_alloc,  *)
(* one to write it and the other to read it, and then count.  Nothing puts *)
(* a slot back but mp_event_log_clear, which makes a new ring.             *)
(***************************************************************************)
EXTENDS MpRing

CONSTANTS
  Events,       \* what is recorded
  Blank,        \* what a slot holds that was not written
  Word,         \* 2^64: the counter wraps there
  MaxLogCalls   \* bound: records and consumes between clears

VARIABLES
  entry,        \* slot -> the mp_event_log_entry_t there
  count,        \* log->count
  call,         \* thread -> {} or {[kind, event]}
  slot,         \* thread -> the slot its call was given
  recorded,     \* events whose record returned true since the last clear
  consumed      \* what consumes returned since then

logvars == <<entry, count, call, slot, recorded, consumed>>
lvars == <<ringvars, logvars>>

(* mp_event_log_create; the ring's buffer is not initialized.              *)
LInit ==
  /\ RingInit
  /\ entry = [s \in 0..(real_cap - 1) |-> Blank]
  /\ count = 0
  /\ call = [t \in Threads |-> {}]
  /\ slot = [t \in Threads |-> 0]
  /\ recorded = {} /\ consumed = {}

Calls == [kind : {"record"}, event : Events] \cup [kind : {"consume"}, event : {Blank}]

(* A caller that consumes has asked mp_event_log_pending first.            *)
LogCall(t, c) ==
  /\ usage = "log" /\ call[t] = {} /\ head < MaxLogCalls
  /\ c.kind = "consume" => count > 0
  /\ AllocTake(t)
  /\ call' = [call EXCEPT ![t] = {c}]
  /\ UNCHANGED <<entry, count, slot, recorded, consumed>>

(* Returns false.                                                          *)
LogRefused(t) ==
  /\ usage = "log" /\ AllocFail(t)
  /\ call' = [call EXCEPT ![t] = {}]
  /\ UNCHANGED <<entry, count, slot, recorded, consumed>>

Given(t) == slots[at[t] % real_cap]

LogSlot(t) ==
  /\ usage = "log" /\ AllocGet(t)
  /\ slot' = [slot EXCEPT ![t] = Given(t)]
  /\ UNCHANGED <<entry, count, call, recorded, consumed>>

Holding(t) == usage = "log" /\ pc[t] = "idle" /\ call[t] # {}

(* The entry's fields are stored, then the counter goes up.                *)
RecordEntry(t, c) ==
  /\ Holding(t) /\ c \in call[t] /\ c.kind = "record"
  /\ entry' = [entry EXCEPT ![slot[t]] = c.event]
  /\ call' = [call EXCEPT ![t] = {[c EXCEPT !.kind = "recorded"]}]
  /\ UNCHANGED <<ringvars, count, slot, recorded, consumed>>

RecordCount(t, c) ==
  /\ Holding(t) /\ c \in call[t] /\ c.kind = "recorded"
  /\ count' = (count + 1) % Word
  /\ recorded' = recorded \cup {c.event}
  /\ call' = [call EXCEPT ![t] = {}]
  /\ UNCHANGED <<ringvars, entry, slot, consumed>>

(* The entry is copied out, then the counter goes down.                    *)
ConsumeEntry(t, c) ==
  /\ Holding(t) /\ c \in call[t] /\ c.kind = "consume"
  /\ consumed' = consumed \cup {entry[slot[t]]}
  /\ call' = [call EXCEPT ![t] = {[c EXCEPT !.kind = "consumed"]}]
  /\ UNCHANGED <<ringvars, entry, count, slot, recorded>>

ConsumeCount(t, c) ==
  /\ Holding(t) /\ c \in call[t] /\ c.kind = "consumed"
  /\ count' = (count - 1) % Word
  /\ call' = [call EXCEPT ![t] = {}]
  /\ UNCHANGED <<ringvars, entry, slot, recorded, consumed>>

(* mp_event_log_clear, with no other call under way.                       *)
LogClear ==
  /\ usage = "log" /\ head > 0
  /\ \A t \in Threads : pc[t] = "idle" /\ call[t] = {}
  /\ head' = 0 /\ tail' = real_cap
  /\ slots' = [i \in 0..(real_cap - 1) |-> i]
  /\ live' = <<>> /\ failed' = 0
  /\ at' = [t \in Threads |-> 0] /\ slot' = at'
  /\ entry' = [s \in 0..(real_cap - 1) |-> Blank]
  /\ count' = 0 /\ recorded' = {} /\ consumed' = {}
  /\ UNCHANGED <<usage, pc, hand, call>>

LNext ==
  \/ \E t \in Threads :
       \/ \E c \in Calls : LogCall(t, c)
       \/ LogRefused(t) \/ LogSlot(t)
       \/ \E c \in call[t] :
            \/ RecordEntry(t, c) \/ RecordCount(t, c)
            \/ ConsumeEntry(t, c) \/ ConsumeCount(t, c)
  \/ LogClear

LSpec == LInit /\ [][LNext]_lvars

-----------------------------------------------------------------------------
(* What mp_event_log_consume returns is an event that was recorded, or     *)
(* that a call under way has stored: it pops a record.                     *)
Recorded ==
  recorded \cup UNION {{c.event : c \in {c \in call[t] : c.kind \in {"record", "recorded"}}} :
                      t \in Threads}
ConsumePopsARecord == consumed \subseteq Recorded
=============================================================================
