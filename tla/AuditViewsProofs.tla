-------------------------- MODULE AuditViewsProofs --------------------------
(***************************************************************************)
(* For any number of recorders, entries and moments: whoever is told that  *)
(* the audit chain is broken is told so of a chain that is, and that only  *)
(* recordings that overlapped can have broken; and no entry repairs it.    *)
(*                                                                         *)
(* The argument: hashes tell entries apart, because what a recorder stores *)
(* next hangs on an entry that is later than all it has stored.  The hash  *)
(* an entry hangs on is therefore that of one entry, which is in the log   *)
(* before it, and an entry inserted between the two is not the one.        *)
(***************************************************************************)
EXTENDS AuditViews, TLAPS

-----------------------------------------------------------------------------
(***************************************************************************)
(* The inductive invariant.                                                *)
(***************************************************************************)
\* An entry, or a recording that has its identifier, hangs on an earlier entry of l.
Hangs(e, l) ==
  e.prev = GenesisHash \/ \E g \in l : g.id < e.id /\ e.prev = EntryHash(g)

\* A recording that has read the last hash hangs on an entry of l that is no earlier
\* than any of its recorder's.
UpToDate(r, l) ==
  \/ r.prev = GenesisHash /\ \A e \in l : e.user # r.user
  \/ \E g \in l : r.prev = EntryHash(g) /\ \A e \in l : e.user = r.user => e.id <= g.id

LogInv(l, last, now) ==
  /\ \A e \in l : e.id \in 1..last /\ e.user \in Recorders /\ e.timestamp \in 0..now
  /\ \A e, f \in l : e.id = f.id => e = f
  /\ \A e, f \in l : EntryHash(e) = EntryHash(f) => e = f
  /\ \A e \in l : Hangs(e, l)
  /\ l # {} => \E e \in l : \A f \in l : f.id <= e.id

RecordingOK(w, r, l, last, now) ==
  /\ r.step \in {"begun", "linked", "numbered"} /\ r.user = w /\ r.timestamp \in 0..now
  /\ r.step \in {"linked", "numbered"} => UpToDate(r, l)
  /\ r.step = "numbered" =>
       r.id \in 1..last /\ Hangs(r, l) /\ \A e \in l : e.id # r.id

RecordingsInv ==
  /\ recording = [w \in Recorders |-> recording[w]]
  /\ \A w \in Recorders : recording[w] # Idle =>
       RecordingOK(w, recording[w], log, counter, clock)
  /\ \A v, w \in Recorders :
       v # w /\ recording[v].step = "numbered" /\ recording[w].step = "numbered" =>
         recording[v].id # recording[w].id

\* Until two recordings overlap, the one in progress continues the chain.
Continues(r, l, last) ==
  /\ \A e \in l : e.timestamp <= r.timestamp
  /\ r.step \in {"linked", "numbered"} => r.prev = last
  /\ r.step = "numbered" => \A e \in l : e.id < r.id

SerialInv ==
  ~overlapped =>
    /\ Verifies
    /\ \A v, w \in InProgress : v = w
    /\ \A w \in InProgress : Continues(recording[w], log, LastHash)

ChainInv ==
  /\ counter \in 0..MaxEntries /\ clock \in 0..MaxTime /\ overlapped \in BOOLEAN
  /\ LogInv(log, counter, clock) /\ RecordingsInv /\ SerialInv

Alarm ==
  \/ verdict = "broken" \/ qiraVerdict = "broken"
  \/ \E read \in verifying : read.says = "broken"

ViewsTypes ==
  /\ mayRead \in BOOLEAN /\ underWatch \in BOOLEAN /\ open \in Pages
  /\ verdict \in {"none", "intact", "broken"} /\ qiraVerdict \in {"none", "intact", "broken"}
  /\ verifying \subseteq [says : {"intact", "broken", "refused"}, first : BOOLEAN]

AuditInv == ChainInv /\ ViewsTypes /\ (Alarm => ~Verifies)

-----------------------------------------------------------------------------
(***************************************************************************)
(* Hashes and the chain.                                                   *)
(***************************************************************************)
LEMMA Hashes ==
  ASSUME NEW e, NEW f
  PROVE  /\ EntryHash(e) # GenesisHash
         /\ EntryHash(e) = EntryHash(f) =>
              e.prev = f.prev /\ e.timestamp = f.timestamp /\ e.user = f.user
BY DEF EntryHash, GenesisHash

\* What the next recording hangs on is the last entry.
LEMMA LastEntry ==
  ASSUME LogInv(log, counter, clock), log # {}
  PROVE  \E e \in log : (\A f \in log : f.id <= e.id) /\ LastHash = EntryHash(e)
<1> DEFINE last == CHOOSE e \in log : \A f \in log : f.id <= e.id
<1>1. last \in log /\ \A f \in log : f.id <= last.id
  BY DEF LogInv
<1>2. LastHash = EntryHash(last)
  BY DEF LastHash
<1> QED
  BY <1>1, <1>2

\* The hash of an entry that comes to the log is new to it.
LEMMA NewHash ==
  ASSUME LogInv(log, counter, clock), counter \in Nat, clock \in Nat, NEW n, UpToDate(n, log),
         NEW e \in log
  PROVE  EntryHash(e) # EntryHash(n)
<1> SUFFICES ASSUME EntryHash(e) = EntryHash(n) PROVE FALSE
  OBVIOUS
<1>1. e.prev = n.prev /\ e.user = n.user
  BY Hashes
<1>2. PICK g \in log : n.prev = EntryHash(g) /\ \A f \in log : f.user = n.user => f.id <= g.id
  BY <1>1 DEF UpToDate
<1>3. PICK h \in log : h.id < e.id /\ e.prev = EntryHash(h)
  BY <1>1, <1>2, Hashes DEF LogInv, Hangs
<1>4. h = g
  BY <1>1, <1>2, <1>3 DEF LogInv
<1>5. e.id <= g.id /\ e.id \in Nat /\ g.id \in Nat
  BY <1>1, <1>2 DEF LogInv
<1> QED
  BY <1>3, <1>4, <1>5

\* An entry that comes to the log never repairs the chain: what follows it hangs on
\* another entry.
LEMMA NeverRepaired ==
  ASSUME LogInv(log, counter, clock), counter \in Nat, clock \in Nat, NEW n, UpToDate(n, log),
         n.id \in Nat, log' = log \cup {n}, Verifies'
  PROVE  Verifies
<1>1. \A e \in log : e.id \in Nat
  BY DEF LogInv
<1>2. ASSUME NEW f \in log, n.id < f.id,
             \A g \in log : g.id < n.id \/ f.id <= g.id
      PROVE  FALSE
  <2>1. Follows(n, f)'
    BY <1>1, <1>2 DEF Follows
  <2>2. f.prev = EntryHash(n)
    BY <2>1 DEF Verifies
  <2>3. PICK g \in log : f.prev = EntryHash(g)
    BY <2>2, Hashes DEF LogInv, Hangs
  <2> QED
    BY <2>2, <2>3, NewHash
<1>3. ASSUME NEW e \in log, \A f \in log : e.id <= f.id
      PROVE  e.prev = GenesisHash
  <2>1. ~(n.id < e.id)
    BY <1>1, <1>2, <1>3
  <2>2. \A f \in log' : e.id <= f.id
    BY <1>1, <1>3, <2>1
  <2> QED
    BY <2>2 DEF Verifies
<1>4. ASSUME NEW e \in log, NEW f \in log, Follows(e, f)
      PROVE  f.timestamp >= e.timestamp /\ f.prev = EntryHash(e)
  <2>1. e.id < f.id /\ \A g \in log : g.id <= e.id \/ f.id <= g.id
    BY <1>4 DEF Follows
  <2>2. ~(e.id < n.id /\ n.id < f.id)
    BY <1>1, <1>2, <2>1
  <2>3. n.id <= e.id \/ f.id <= n.id
    BY <1>1, <2>2
  <2>4. Follows(e, f)'
    BY <2>1, <2>3 DEF Follows
  <2> QED
    BY <2>4 DEF Verifies
<1> QED
  BY <1>3, <1>4 DEF Verifies

\* While recordings do not overlap, an entry that comes to the log continues the chain.
LEMMA Continued ==
  ASSUME LogInv(log, counter, clock), counter \in Nat, NEW n, n.id \in Nat,
         Verifies, n.prev = LastHash,
         \A e \in log : e.timestamp <= n.timestamp /\ e.id < n.id,
         \A e \in log : e.timestamp \in Nat, n.timestamp \in Nat,
         log' = log \cup {n}
  PROVE  Verifies'
<1>1. \A e \in log : e.id \in Nat
  BY DEF LogInv
<1>2. ASSUME NEW e \in log', \A f \in log' : e.id <= f.id
      PROVE  e.prev = GenesisHash
  <2>1. CASE e \in log
    BY <1>2, <2>1 DEF Verifies
  <2>2. CASE e \notin log
    <3>1. e = n
      BY <2>2
    <3>2. ASSUME NEW f \in log PROVE FALSE
      BY <1>1, <1>2, <3>1
    <3> QED
      BY <3>1, <3>2 DEF LastHash
  <2> QED
    BY <2>1, <2>2
<1>3. ASSUME NEW e \in log', NEW f \in log', e.id < f.id,
             \A g \in log' : g.id <= e.id \/ f.id <= g.id
      PROVE  f.timestamp >= e.timestamp /\ f.prev = EntryHash(e)
  <2>1. CASE e \in log /\ f \in log
    <3>1. Follows(e, f)
      BY <1>3, <2>1 DEF Follows
    <3> QED
      BY <2>1, <3>1 DEF Verifies
  <2>2. CASE e \in log /\ f = n
    <3>1. \A g \in log : g.id <= e.id
      BY <1>1, <1>3, <2>2
    <3>2. PICK h \in log : (\A g \in log : g.id <= h.id) /\ LastHash = EntryHash(h)
      BY <2>2, LastEntry
    <3>3. h.id <= e.id /\ e.id <= h.id
      BY <2>2, <3>1, <3>2
    <3>4. h = e
      BY <1>1, <2>2, <3>3 DEF LogInv
    <3> QED
      BY <2>2, <3>2, <3>4
  <2>3. CASE e = n
    BY <1>1, <1>3, <2>3
  <2> QED
    BY <2>1, <2>2, <2>3
<1> QED
  BY <1>2, <1>3 DEF Verifies, Follows

-----------------------------------------------------------------------------
(***************************************************************************)
(* The log and the recordings, one action at a time.                       *)
(***************************************************************************)
LEMMA LogGrows ==
  ASSUME LogInv(log, counter, clock), counter \in Nat, clock \in Nat, NEW n,
         UpToDate(n, log), Hangs(n, log), n.id \in 1..counter,
         \A e \in log : e.id # n.id, n.user \in Recorders, n.timestamp \in 0..clock
  PROVE  LogInv(log \cup {n}, counter, clock)
<1> DEFINE l == log \cup {n}
<1>1. \A e \in l : e.id \in 1..counter /\ e.user \in Recorders /\ e.timestamp \in 0..clock
  BY DEF LogInv
<1>2. \A e, f \in l : e.id = f.id => e = f
  BY DEF LogInv
<1>3. \A e, f \in l : EntryHash(e) = EntryHash(f) => e = f
  <2>1. \A e \in log : EntryHash(e) # EntryHash(n)
    BY NewHash
  <2> QED
    BY <2>1 DEF LogInv
<1>4. \A e \in l : Hangs(e, l)
  BY DEF LogInv, Hangs
<1>5. \E e \in l : \A f \in l : f.id <= e.id
  <2>1. CASE log = {}
    BY <2>1
  <2>2. CASE log # {}
    <3>1. PICK e \in log : \A f \in log : f.id <= e.id
      BY <2>2 DEF LogInv
    <3>2. CASE n.id <= e.id
      BY <3>1, <3>2
    <3>3. CASE e.id < n.id
      BY <1>1, <3>1, <3>3
    <3> QED
      BY <1>1, <3>2, <3>3
  <2> QED
    BY <2>1, <2>2
<1> QED
  BY <1>1, <1>2, <1>3, <1>4, <1>5 DEF LogInv

\* A later identifier or moment changes nothing of what is stored or under way.
LEMMA LaterHolds ==
  ASSUME NEW l, NEW last \in Nat, NEW now \in Nat, NEW more \in Nat, NEW later \in Nat,
         last <= more, now <= later
  PROVE  /\ LogInv(l, last, now) => LogInv(l, more, later)
         /\ \A w, r : RecordingOK(w, r, l, last, now) => RecordingOK(w, r, l, more, later)
<1>1. 1..last \subseteq 1..more /\ 0..now \subseteq 0..later
  OBVIOUS
<1> QED
  BY <1>1 DEF LogInv, RecordingOK

\* Only w's recording changes.
Holds(w, r) == recording' = [recording EXCEPT ![w] = r]

LEMMA OthersGoOn ==
  ASSUME RecordingsInv, NEW w \in Recorders, NEW r, Holds(w, r)
  PROVE  /\ recording' = [v \in Recorders |-> recording'[v]]
         /\ recording'[w] = r
         /\ \A v \in Recorders : v # w => recording'[v] = recording[v]
         /\ InProgress' \subseteq InProgress \cup {w}
         /\ r = Idle => InProgress' = InProgress \ {w}
<1>1. \A v \in Recorders : recording'[v] = IF v = w THEN r ELSE recording[v]
  BY DEF RecordingsInv, Holds
<1>2. recording' = [v \in Recorders |-> recording'[v]]
  BY DEF RecordingsInv, Holds
<1> QED
  BY <1>1, <1>2 DEF InProgress

\* The record of w is as it should be: so are all, if w's identifier is its own.
LEMMA RecordingsGoOn ==
  ASSUME RecordingsInv, NEW w \in Recorders, NEW r, Holds(w, r),
         log' = log, counter \in Nat, counter' \in Nat, counter <= counter',
         clock' = clock, clock \in Nat,
         r # Idle => RecordingOK(w, r, log, counter', clock),
         \A v \in Recorders : recording[v].step = "numbered" /\ r.step = "numbered" /\ v # w =>
           recording[v].id # r.id
  PROVE  RecordingsInv'
<1>1. /\ recording' = [v \in Recorders |-> recording'[v]]
      /\ recording'[w] = r
      /\ \A v \in Recorders : v # w => recording'[v] = recording[v]
  BY OthersGoOn
<1>2. ASSUME NEW v \in Recorders, recording'[v] # Idle
      PROVE  RecordingOK(v, recording'[v], log', counter', clock')
  BY <1>1, <1>2, LaterHolds DEF RecordingsInv
<1>3. ASSUME NEW u \in Recorders, NEW v \in Recorders, u # v,
             recording'[u].step = "numbered", recording'[v].step = "numbered"
      PROVE  recording'[u].id # recording'[v].id
  BY <1>1, <1>3 DEF RecordingsInv
<1> QED
  BY <1>1, <1>2, <1>3 DEF RecordingsInv

LEMMA Counts ==
  ASSUME ChainInv
  PROVE  /\ counter \in Nat /\ clock \in Nat
         /\ \A e \in log : e.id \in Nat /\ e.timestamp \in Nat
         /\ \A w \in InProgress :
              RecordingOK(w, recording[w], log, counter, clock) /\ w \in Recorders
BY ChainAssumption DEF ChainInv, LogInv, RecordingsInv, InProgress

LEMMA BeginInv ==
  ASSUME ChainInv, NEW w \in Recorders, BeginRecord(w)
  PROVE  ChainInv'
<1> DEFINE r == Begun(w)
<1> USE DEF ChainInv
<1>1. counter \in Nat /\ clock \in Nat
  BY Counts
<1>2. /\ Holds(w, r) /\ overlapped' = (overlapped \/ InProgress # {})
      /\ log' = log /\ counter' = counter /\ clock' = clock
  BY DEF BeginRecord, Holds
<1>3. r.step = "begun" /\ r.user = w /\ r.timestamp = clock
  BY DEF Begun
<1> HIDE DEF r
<1>4. RecordingOK(w, r, log, counter, clock)
  BY <1>1, <1>3 DEF RecordingOK
<1>5. RecordingsInv'
  BY <1>1, <1>2, <1>3, <1>4, RecordingsGoOn
<1>6. SerialInv'
  <2> SUFFICES ASSUME ~overlapped, InProgress = {}
               PROVE  /\ Verifies' /\ \A u, v \in InProgress' : u = v
                      /\ \A v \in InProgress' : Continues(recording'[v], log', LastHash')
    BY <1>2 DEF SerialInv
  <2>1. InProgress' \subseteq {w} /\ recording'[w] = r
    BY <1>2, OthersGoOn
  <2>2. Verifies'
    BY <1>2 DEF SerialInv, Verifies, Follows
  <2>3. \A e \in log : e.timestamp <= r.timestamp
    BY <1>1, <1>3 DEF LogInv
  <2> QED
    BY <1>2, <1>3, <2>1, <2>2, <2>3 DEF Continues
<1> QED
  BY <1>2, <1>5, <1>6

LEMMA LinkInv ==
  ASSUME ChainInv, NEW w \in Recorders, ReadLastHash(w)
  PROVE  ChainInv'
<1> DEFINE r == [step |-> "linked", user |-> recording[w].user,
                 timestamp |-> recording[w].timestamp, prev |-> LastHash]
<1> USE DEF ChainInv
<1>1. counter \in Nat /\ clock \in Nat
  BY Counts
<1>2. /\ Holds(w, r) /\ recording[w].step = "begun" /\ overlapped' = overlapped
      /\ log' = log /\ counter' = counter /\ clock' = clock
  BY DEF ReadLastHash, Holds
<1>3. /\ r.step = "linked" /\ r.user = recording[w].user /\ r.prev = LastHash
      /\ r.timestamp = recording[w].timestamp
  OBVIOUS
<1> HIDE DEF r
<1>4. w \in InProgress
  BY <1>2 DEF InProgress, Idle
<1>5. UpToDate(r, log)
  <2>1. CASE log = {}
    BY <1>3, <2>1 DEF UpToDate, LastHash
  <2>2. CASE log # {}
    BY <1>3, <2>2, LastEntry DEF UpToDate
  <2> QED
    BY <2>1, <2>2
<1>6. RecordingOK(w, r, log, counter, clock)
  BY <1>3, <1>4, <1>5, Counts DEF RecordingOK
<1>7. RecordingsInv'
  BY <1>1, <1>2, <1>3, <1>6, RecordingsGoOn
<1>8. SerialInv'
  <2> SUFFICES ASSUME ~overlapped
               PROVE  /\ Verifies' /\ \A u, v \in InProgress' : u = v
                      /\ \A v \in InProgress' : Continues(recording'[v], log', LastHash')
    BY <1>2 DEF SerialInv
  <2>1. InProgress' \subseteq {w} /\ recording'[w] = r
    BY <1>2, <1>4, OthersGoOn DEF SerialInv
  <2>2. Verifies' /\ LastHash' = LastHash
    BY <1>2 DEF SerialInv, Verifies, Follows, LastHash
  <2>3. \A e \in log : e.timestamp <= r.timestamp
    BY <1>3, <1>4 DEF SerialInv, Continues
  <2> QED
    BY <1>2, <1>3, <2>1, <2>2, <2>3 DEF Continues
<1> QED
  BY <1>2, <1>7, <1>8

LEMMA AllocateInv ==
  ASSUME ChainInv, NEW w \in Recorders, AllocateId(w)
  PROVE  ChainInv'
<1> DEFINE r == [step |-> "numbered", user |-> recording[w].user,
                 timestamp |-> recording[w].timestamp, prev |-> recording[w].prev,
                 id |-> counter + 1]
<1> USE DEF ChainInv
<1>1. /\ counter \in Nat /\ clock \in Nat /\ \A e \in log : e.id \in 1..counter
      /\ counter < MaxEntries /\ counter' = counter + 1 /\ counter' \in 0..MaxEntries
  BY ChainAssumption, Counts DEF AllocateId, LogInv
<1>2. /\ Holds(w, r) /\ recording[w].step = "linked" /\ overlapped' = overlapped
      /\ log' = log /\ clock' = clock
  BY DEF AllocateId, Holds
<1>3. /\ r.step = "numbered" /\ r.user = recording[w].user /\ r.prev = recording[w].prev
      /\ r.timestamp = recording[w].timestamp /\ r.id = counter + 1
  OBVIOUS
<1> HIDE DEF r
<1>4. w \in InProgress /\ RecordingOK(w, recording[w], log, counter, clock)
  BY <1>2, Counts DEF InProgress, Idle
<1>5. UpToDate(r, log) /\ Hangs(r, log)
  <2>1. UpToDate(recording[w], log)
    BY <1>2, <1>4 DEF RecordingOK
  <2>2. UpToDate(r, log)
    BY <1>3, <2>1 DEF UpToDate
  <2>3. \A g \in log : g.id < r.id
    BY <1>1, <1>3
  <2> QED
    BY <2>2, <2>3 DEF UpToDate, Hangs
<1>6. RecordingOK(w, r, log, counter', clock)
  BY <1>1, <1>3, <1>4, <1>5 DEF RecordingOK
<1>7. ASSUME NEW v \in Recorders, recording[v].step = "numbered"
      PROVE  recording[v].id # r.id
  <2>1. recording[v].id \in 1..counter
    BY <1>7 DEF RecordingsInv, RecordingOK, Idle
  <2> QED
    BY <1>1, <1>3, <2>1
<1>8. RecordingsInv'
  <2>1. counter' \in Nat /\ counter <= counter'
    BY <1>1
  <2> QED
    BY <1>1, <1>2, <1>6, <1>7, <2>1, RecordingsGoOn
<1>9. LogInv(log', counter', clock')
  <2>1. counter' \in Nat /\ counter <= counter' /\ clock <= clock
    BY <1>1
  <2> QED
    BY <1>1, <1>2, <2>1, LaterHolds
<1>10. SerialInv'
  <2> SUFFICES ASSUME ~overlapped
               PROVE  /\ Verifies' /\ \A u, v \in InProgress' : u = v
                      /\ \A v \in InProgress' : Continues(recording'[v], log', LastHash')
    BY <1>2 DEF SerialInv
  <2>1. InProgress' \subseteq {w} /\ recording'[w] = r
    BY <1>2, <1>4, OthersGoOn DEF SerialInv
  <2>2. Verifies' /\ LastHash' = LastHash
    BY <1>2 DEF SerialInv, Verifies, Follows, LastHash
  <2>3. (\A e \in log : e.timestamp <= r.timestamp) /\ r.prev = LastHash
    BY <1>2, <1>3, <1>4 DEF SerialInv, Continues
  <2>4. \A e \in log : e.id < r.id
    BY <1>1, <1>3
  <2> QED
    BY <1>2, <2>1, <2>2, <2>3, <2>4 DEF Continues
<1> QED
  BY <1>1, <1>2, <1>8, <1>9, <1>10

\* The entry that a numbered recording stores.
Stored(r) == [id |-> r.id, user |-> r.user, timestamp |-> r.timestamp, prev |-> r.prev]

LEMMA AppendFacts ==
  ASSUME ChainInv, NEW w \in Recorders, AppendEntry(w)
  PROVE  /\ Holds(w, Idle) /\ w \in InProgress /\ recording[w].step = "numbered"
         /\ log' = log \cup {Stored(recording[w])}
         /\ counter' = counter /\ clock' = clock /\ overlapped' = overlapped
         /\ UpToDate(Stored(recording[w]), log) /\ Hangs(Stored(recording[w]), log)
         /\ Stored(recording[w]).id \in 1..counter
         /\ \A e \in log : e.id # Stored(recording[w]).id
<1> DEFINE r == recording[w]
<1>1. w \in InProgress /\ r.step = "numbered"
  BY DEF AppendEntry, InProgress, Idle
<1>2. RecordingOK(w, r, log, counter, clock)
  BY <1>1, Counts
<1>3. /\ UpToDate(r, log) /\ Hangs(r, log) /\ r.id \in 1..counter
      /\ \A e \in log : e.id # r.id
  BY <1>1, <1>2 DEF RecordingOK
<1>4. UpToDate(Stored(r), log) /\ Hangs(Stored(r), log)
  BY <1>3 DEF UpToDate, Hangs, Stored
<1> QED
  BY <1>1, <1>3, <1>4 DEF AppendEntry, Holds, Stored

LEMMA AppendInv ==
  ASSUME ChainInv, NEW w \in Recorders, AppendEntry(w)
  PROVE  ChainInv'
<1> DEFINE r == recording[w]
           n == Stored(r)
<1> USE DEF ChainInv
<1>1. counter \in Nat /\ clock \in Nat /\ \A e \in log : e.id \in Nat /\ e.timestamp \in Nat
  BY Counts
<1>2. /\ Holds(w, Idle) /\ w \in InProgress /\ r.step = "numbered"
      /\ log' = log \cup {n}
      /\ counter' = counter /\ clock' = clock /\ overlapped' = overlapped
      /\ UpToDate(n, log) /\ Hangs(n, log) /\ n.id \in 1..counter
      /\ \A e \in log : e.id # n.id
  BY AppendFacts
<1>3. /\ n.user = w /\ n.timestamp = r.timestamp /\ n.timestamp \in 0..clock
      /\ n.id = r.id /\ n.prev = r.prev
  BY <1>2, Counts DEF Stored, RecordingOK
<1> HIDE DEF n
<1>4. LogInv(log', counter', clock')
  BY <1>1, <1>2, <1>3, LogGrows
<1>5. /\ recording' = [v \in Recorders |-> recording'[v]]
      /\ recording'[w] = Idle /\ InProgress' = InProgress \ {w}
      /\ \A v \in Recorders : v # w => recording'[v] = recording[v]
  BY <1>2, OthersGoOn
<1>6. RecordingsInv'
  <2>1. ASSUME NEW v \in Recorders, recording'[v] # Idle
        PROVE  RecordingOK(v, recording'[v], log', counter', clock')
    <3>1. v # w /\ recording'[v] = recording[v]
      BY <1>5, <2>1
    <3> DEFINE q == recording[v]
    <3>2. RecordingOK(v, q, log, counter, clock)
      BY <2>1, <3>1 DEF RecordingsInv
    <3>3. q.step \in {"linked", "numbered"} => UpToDate(q, log')
      BY <1>2, <1>3, <3>1, <3>2 DEF RecordingOK, UpToDate
    <3>4. q.step = "numbered" =>
            q.id \in 1..counter /\ Hangs(q, log') /\ \A e \in log' : e.id # q.id
      <4>1. q.step = "numbered" => q.id # n.id
        BY <1>2, <1>3, <3>1 DEF RecordingsInv
      <4> QED
        BY <1>2, <3>2, <4>1 DEF RecordingOK, Hangs
    <3> QED
      BY <1>2, <3>1, <3>2, <3>3, <3>4 DEF RecordingOK
  <2>2. ASSUME NEW u \in Recorders, NEW v \in Recorders, u # v,
               recording'[u].step = "numbered", recording'[v].step = "numbered"
        PROVE  recording'[u].id # recording'[v].id
    BY <1>5, <2>2 DEF RecordingsInv, Idle
  <2> QED
    BY <1>5, <2>1, <2>2 DEF RecordingsInv
<1>7. SerialInv'
  <2> SUFFICES ASSUME ~overlapped
               PROVE  Verifies' /\ InProgress' = {}
    BY <1>2 DEF SerialInv
  <2>1. InProgress' = {}
    BY <1>2, <1>5 DEF SerialInv
  <2>2. Verifies /\ Continues(r, log, LastHash)
    BY <1>2 DEF SerialInv
  <2>3. n.prev = LastHash /\ \A e \in log : e.timestamp <= n.timestamp /\ e.id < n.id
    BY <1>2, <1>3, <2>2 DEF Continues
  <2> QED
    BY <1>1, <1>2, <1>3, <2>1, <2>2, <2>3, Continued
<1> QED
  BY <1>2, <1>4, <1>6, <1>7

LEMMA FailInv ==
  ASSUME ChainInv, NEW w \in Recorders, RecordFails(w)
  PROVE  ChainInv'
<1> USE DEF ChainInv
<1>1. counter \in Nat /\ clock \in Nat
  BY Counts
<1>2. /\ Holds(w, Idle) /\ log' = log /\ counter' = counter /\ clock' = clock
      /\ overlapped' = overlapped
  BY DEF RecordFails, Holds
<1>3. RecordingsInv'
  BY <1>1, <1>2, RecordingsGoOn DEF Idle
<1>4. SerialInv'
  <2>1. /\ InProgress' \subseteq InProgress
        /\ \A v \in InProgress' : v \in Recorders /\ recording'[v] = recording[v]
    BY <1>2, OthersGoOn DEF InProgress
  <2>2. LastHash' = LastHash /\ (Verifies => Verifies')
    BY <1>2 DEF LastHash, Verifies, Follows
  <2> QED
    BY <1>2, <2>1, <2>2 DEF SerialInv, Continues
<1> QED
  BY <1>2, <1>3, <1>4

LEMMA TimeInv ==
  ASSUME ChainInv, TimePasses
  PROVE  ChainInv'
<1> USE DEF ChainInv
<1>1. /\ counter \in Nat /\ clock \in Nat /\ clock' = clock + 1 /\ clock' \in 0..MaxTime
      /\ clock' \in Nat /\ clock <= clock'
  BY ChainAssumption, Counts DEF TimePasses
<1>2. UNCHANGED <<log, counter, recording, overlapped>>
  BY DEF TimePasses
<1>3. LogInv(log', counter', clock') /\ RecordingsInv'
  <2>1. counter <= counter
    BY <1>1
  <2>2. LogInv(log, counter, clock')
    BY <1>1, <2>1, LaterHolds
  <2>3. \A w, r : RecordingOK(w, r, log, counter, clock) =>
                 RecordingOK(w, r, log, counter, clock')
    BY <1>1, <2>1, LaterHolds
  <2> QED
    BY <1>2, <2>2, <2>3 DEF RecordingsInv
<1>4. SerialInv'
  BY <1>2 DEF SerialInv, Continues, Verifies, Follows, InProgress, LastHash
<1> QED
  BY <1>1, <1>2, <1>3, <1>4

\* The chain keeps its invariant, and is never repaired.
LEMMA ChainStep ==
  ASSUME ChainInv, ChainNext
  PROVE  ChainInv' /\ (~Verifies => ~Verifies')
<1>1. ASSUME NEW w \in Recorders, AppendEntry(w)
      PROVE  ~Verifies => ~Verifies'
  <2> DEFINE n == Stored(recording[w])
  <2>1. /\ log' = log \cup {n} /\ UpToDate(n, log) /\ n.id \in 1..counter
    BY <1>1, AppendFacts
  <2> HIDE DEF n
  <2> QED
    BY <2>1, Counts, NeverRepaired DEF ChainInv
<1>2. log' = log => (~Verifies => ~Verifies')
  BY DEF Verifies, Follows
<1> QED
  BY <1>1, <1>2, BeginInv, LinkInv, AllocateInv, AppendInv, FailInv, TimeInv
  DEF ChainNext, BeginRecord, ReadLastHash, AllocateId, RecordFails, TimePasses

-----------------------------------------------------------------------------
(***************************************************************************)
(* The pages, over a chain that stands still.                              *)
(***************************************************************************)
LEMMA ViewsStep ==
  ASSUME AuditInv, ViewsNext, UNCHANGED chainVars
  PROVE  AuditInv'
<1> DEFINE Reads == [says : {"intact", "broken", "refused"}, first : BOOLEAN]
<1>1. ChainInv' /\ Verifies' = Verifies
  BY DEF AuditInv, ChainInv, chainVars, RecordingsInv, SerialInv, InProgress, Continues,
         LastHash, Verifies, Follows
<1>2. /\ ChainVerdict \in {"intact", "broken"} /\ (ChainVerdict = "broken" => ~Verifies)
      /\ \A first \in BOOLEAN : [says |-> Served, first |-> first] \in Reads
      /\ Served = "broken" => ~Verifies
  BY DEF ChainVerdict, Served
<1>3. ViewsTypes' /\ (Alarm' => ~Verifies)
  <2>1. ASSUME NEW page \in Pages, OpenPage(page)
        PROVE  ViewsTypes' /\ (Alarm' => ~Verifies)
    BY <1>2, <2>1 DEF OpenPage, AuditInv, ViewsTypes, Alarm
  <2>2. CASE AskVerdict
    BY <1>2, <2>2 DEF AskVerdict, AuditInv, ViewsTypes, Alarm
  <2>3. ASSUME NEW read \in verifying, VerdictRead(read)
        PROVE  ViewsTypes' /\ (Alarm' => ~Verifies)
    <3>1. read \in Reads
      BY DEF AuditInv, ViewsTypes
    <3> QED
      BY <2>3, <3>1 DEF VerdictRead, AuditInv, ViewsTypes, Alarm
  <2>4. ASSUME NEW read \in verifying, VerdictLost(read)
        PROVE  ViewsTypes' /\ (Alarm' => ~Verifies)
    BY <2>4 DEF VerdictLost, AuditInv, ViewsTypes, Alarm
  <2>5. CASE QiraAssesses
    BY <1>2, <2>5 DEF QiraAssesses, AuditInv, ViewsTypes, Alarm
  <2>6. CASE WatchAnother
    BY <2>6 DEF WatchAnother, AuditInv, ViewsTypes, Alarm
  <2> QED
    BY <2>1, <2>2, <2>3, <2>4, <2>5, <2>6 DEF ViewsNext, PollChain, RefreshTrail, AnyReadEnds
<1> QED
  BY <1>1, <1>3 DEF AuditInv

LEMMA AuditInvStep ==
  ASSUME AuditInv, [AuditNext]_auditVars
  PROVE  AuditInv' /\ (~Verifies => ~Verifies')
<1>1. CASE ChainNext /\ UNCHANGED viewVars
  BY <1>1, ChainStep DEF viewVars, AuditInv, ViewsTypes, Alarm
<1>2. CASE ViewsNext /\ UNCHANGED chainVars
  <2>1. Verifies' = Verifies
    BY <1>2 DEF chainVars, Verifies, Follows
  <2> QED
    BY <1>2, <2>1, ViewsStep
<1>3. CASE UNCHANGED auditVars
  BY <1>3 DEF auditVars, chainVars, viewVars, AuditInv, ChainInv, RecordingsInv, SerialInv,
              InProgress, Continues, LastHash, Verifies, Follows, ViewsTypes, Alarm
<1> QED
  BY <1>1, <1>2, <1>3 DEF AuditNext

LEMMA AuditInvInit == ViewsInit => AuditInv
<1> SUFFICES ASSUME ViewsInit PROVE AuditInv
  OBVIOUS
<1>1. log = {} /\ recording = [w \in Recorders |-> Idle]
  BY DEF ViewsInit, ChainInit
<1>2. Verifies /\ InProgress = {}
  BY <1>1 DEF Verifies, InProgress
<1>3. LogInv(log, counter, clock) /\ RecordingsInv
  BY <1>1 DEF LogInv, RecordingsInv, Idle
<1>4. ChainInv
  <2>1. counter \in 0..MaxEntries /\ clock \in 0..MaxTime /\ overlapped = FALSE
    BY ChainAssumption DEF ViewsInit, ChainInit
  <2>2. SerialInv
    BY <1>2 DEF SerialInv
  <2> QED
    BY <2>1, <2>2, <1>3 DEF ChainInv
<1>5. Served \in {"intact", "refused"}
  BY <1>2 DEF Served, ChainVerdict
<1>6. ViewsTypes /\ ~Alarm
  <2>1. mayRead \in BOOLEAN /\ underWatch \in BOOLEAN
    BY DEF ViewsInit
  <2> QED
    BY <1>5, <2>1 DEF ViewsInit, ViewsTypes, Alarm, Pages
<1> QED
  BY <1>4, <1>6 DEF AuditInv

\* The invariant holds in every reachable state.
THEOREM AuditInvariant == AuditSpec => []AuditInv
BY AuditInvInit, AuditInvStep, PTL DEF AuditSpec

\* Types are kept: the stored entries and their identifiers, the recordings, and what the
\* pages and Qira hold.
THEOREM AuditTypes == AuditSpec => []AuditTypeOK
<1>1. AuditInv => AuditTypeOK
  <2> SUFFICES ASSUME AuditInv PROVE AuditTypeOK
    OBVIOUS
  <2>1. \A w \in InProgress : recording[w].step \in {"begun", "linked", "numbered"}
    BY DEF AuditInv, ChainInv, RecordingsInv, RecordingOK, InProgress
  <2> QED
    BY <2>1 DEF AuditInv, ChainInv, LogInv, ViewsTypes, AuditTypeOK
<1> QED
  BY <1>1, AuditInvariant, PTL

\* verify_chain reports, and a page or Qira shows, a broken chain only when the stored
\* chain is broken, and without a change of a stored entry only recordings that overlapped
\* have broken it: AuditLogService.record reads the last hash and inserts in two calls.
THEOREM AlarmsAreTrue == AuditSpec => []AlarmOnlyAfterOverlap
<1>1. AuditInv => AlarmOnlyAfterOverlap
  BY DEF AuditInv, Alarm, ChainInv, SerialInv, AlarmOnlyAfterOverlap
<1> QED
  BY <1>1, AuditInvariant, PTL

\* As long as no two recordings overlap, verify_chain accepts the log, through failures
\* that leave identifiers unused.
THEOREM SerialChainVerifies == AuditSpec => [](~overlapped => Verifies)
<1>1. AuditInv => (~overlapped => Verifies)
  BY DEF AuditInv, ChainInv, SerialInv
<1> QED
  BY <1>1, AuditInvariant, PTL

\* A broken chain stays broken: no entry that is recorded later makes verify_chain accept
\* the log again, so an alert that is missed on one page is found on the next.
THEOREM BrokenForGood == AuditSpec => [][~Verifies => ~Verifies']_auditVars
<1>1. AuditInv /\ [AuditNext]_auditVars => [~Verifies => ~Verifies']_auditVars
  BY AuditInvStep
<1> QED
  BY <1>1, AuditInvariant, PTL DEF AuditSpec
=============================================================================
