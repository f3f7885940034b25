------------------------------ MODULE AuditChain ------------------------------
(***************************************************************************)
(* The audit log and its hash chain (src/backend/audit, and the repository *)
(* MongoAuditLogRepository of src/backend/api/repositories.py).            *)
(*                                                                         *)
(* Every request handler that reports an event runs AuditLogService.record *)
(* on its own thread: the time is taken, the last hash is read, an         *)
(* identifier is allocated and the entry is inserted, in four steps that   *)
(* other handlers may come between.  The hash of an entry is an injective  *)
(* function of what is hashed, so it is the tuple of it; `user' stands for *)
(* the fields that tell two events apart.                                  *)
(***************************************************************************)
EXTENDS Naturals, FiniteSets

CONSTANTS
  Recorders,   \* handlers that report events
  MaxEntries,  \* bound: identifiers allocated
  MaxTime      \* bound: the clock

ASSUME ChainAssumption == MaxEntries \in Nat \ {0} /\ MaxTime \in Nat

VARIABLES
  log,         \* audit_logs: the stored entries
  counter,     \* counters: the last identifier allocated
  clock,       \* the time in milliseconds
  recording,   \* the recordings in progress
  overlapped   \* history: two recordings were in progress at once

chainVars == <<log, counter, clock, recording, overlapped>>

GenesisHash == <<>>
EntryHash(e) == <<e.prev, e.timestamp, e.user>>

Idle == [step |-> "idle"]
\* Fault: the timestamp is borrowed from the flow that one of them reports on.
Begun_Borrowed(w) ==
  [step |-> "begun", user |-> w,
   timestamp |-> IF w = CHOOSE r \in Recorders : TRUE THEN 0 ELSE clock]

Begun(w) == [step |-> "begun", user |-> w, timestamp |-> clock]

InProgress == {w \in Recorders : recording[w] # Idle}

(***************************************************************************)
(* AuditLogService.record                                                  *)
(***************************************************************************)
\* The timestamp is that of this moment, whatever happens before the insertion.
BeginRecord(w) ==
  /\ recording[w] = Idle /\ counter < MaxEntries
  /\ recording' = [recording EXCEPT ![w] = Begun(w)]
  /\ overlapped' = (overlapped \/ InProgress # {})
  /\ UNCHANGED <<log, counter, clock>>

LastHash ==
  IF log = {} THEN GenesisHash
  ELSE EntryHash(CHOOSE e \in log : \A f \in log : f.id <= e.id)

ReadLastHash(w) ==
  /\ recording[w].step = "begun"
  /\ recording' = [recording EXCEPT
       ![w] = [step |-> "linked", user |-> @.user, timestamp |-> @.timestamp,
               prev |-> LastHash]]
  /\ UNCHANGED <<log, counter, clock, overlapped>>

\* get_next_id, which is one update of the counter.
AllocateId(w) ==
  /\ recording[w].step = "linked" /\ counter < MaxEntries
  /\ counter' = counter + 1
  /\ recording' = [recording EXCEPT
       ![w] = [step |-> "numbered", user |-> @.user, timestamp |-> @.timestamp,
               prev |-> @.prev, id |-> counter + 1]]
  /\ UNCHANGED <<log, clock, overlapped>>

AppendEntry(w) ==
  /\ recording[w].step = "numbered"
  /\ LET r == recording[w] IN
       log' = log \cup {[id |-> r.id, user |-> r.user, timestamp |-> r.timestamp,
                         prev |-> r.prev]}
  /\ recording' = [recording EXCEPT ![w] = Idle]
  /\ UNCHANGED <<counter, clock, overlapped>>

\* An exception, or the end of the process: an allocated identifier stays unused.
RecordFails(w) ==
  /\ recording[w] # Idle
  /\ recording' = [recording EXCEPT ![w] = Idle]
  /\ UNCHANGED <<log, counter, clock, overlapped>>

TimePasses ==
  /\ clock < MaxTime
  /\ clock' = clock + 1
  /\ UNCHANGED <<log, counter, recording, overlapped>>

(***************************************************************************)
(* verify_chain, over the entries in the order of their identifiers        *)
(***************************************************************************)
Follows(e, f) == e.id < f.id /\ \A g \in log : g.id <= e.id \/ f.id <= g.id

Verifies ==
  /\ \A e \in log : (\A f \in log : e.id <= f.id) => e.prev = GenesisHash
  /\ \A e, f \in log :
       Follows(e, f) => f.timestamp >= e.timestamp /\ f.prev = EntryHash(e)

ChainInit ==
  /\ log = {} /\ counter = 0 /\ clock = 0 /\ overlapped = FALSE
  /\ recording = [w \in Recorders |-> Idle]

ChainNext ==
  \/ \E w \in Recorders :
       BeginRecord(w) \/ ReadLastHash(w) \/ AllocateId(w) \/ AppendEntry(w) \/ RecordFails(w)
  \/ TimePasses
=============================================================================
