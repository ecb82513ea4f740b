--------------------------- MODULE FirstSeenProofs ---------------------------
(***************************************************************************)
(* The invariants of FirstSeen, for every set of destinations, every       *)
(* tuning and every bound; what a sweep leaves, and what the end of a      *)
(* capture thread can lose.                                                *)
(***************************************************************************)
EXTENDS FirstSeen, FiniteSetTheorems, TLAPS

-----------------------------------------------------------------------------
(* The inductive invariant.                                                *)

\* No time is ahead of the last window.
Past ==
    /\ startedAt <= now
    /\ \A ip \in Ips : known[ip] <= now /\ db[ip] <= now /\ lastContact[ip] <= now

\* The mute counts down the windows since the report.
CooldownIsHistory ==
    \A ip \in Ips : cooldown[ip] = CooldownWindows - sinceRaise[ip]

\* Nothing is watched while everything is learned.
LearningIsFirst == \A ip \in Ips : watch[ip] > 0 => windowsSeen > LearningWindows

PersistInv == TypeOK /\ Past /\ KnownIsPersisted /\ RecencyIsCovered

WatchInv ==
    /\ TypeOK
    /\ CooldownIsHistory
    /\ LearningIsFirst
    /\ WatchIsConsecutive
    /\ SustainedIsRaised

\* The memory has the last contact of what it remembers, as far as this process
\* saw it.
ContactIsKnown ==
    \A ip \in Present(known) :
        lastContact[ip] > startedAt => known[ip] >= lastContact[ip]

\* A sweep and a start leave nothing marked as refreshed.
SeenIsSwept == windowsSeen % PruneInterval = 0 => seen = {}

FreshInv == PersistInv /\ ContactIsKnown /\ SeenIsSwept

-----------------------------------------------------------------------------
(* The operators on tables.                                                *)

LEMMA StampType ==
    ASSUME NEW f \in Memories, NEW ips \in SUBSET Ips, NEW ts \in Times
    PROVE  Stamp(f, ips, ts) \in Memories
BY DEF Stamp, Memories

LEMMA OnlyType ==
    ASSUME NEW f \in Memories, NEW keep \in SUBSET Ips
    PROVE  Only(f, keep) \in Memories
BY DEF Only, Memories

LEMMA NewestSubset ==
    ASSUME NEW f \in Memories, NEW keep \in Newest(f)
    PROVE  /\ keep \subseteq Present(f) /\ keep \subseteq Ips
           /\ Present(Only(f, keep)) = keep
BY DEF Newest, Present, Only

\* What a sweep or a start keeps is within the cap.
LEMMA NewestBound ==
    ASSUME NEW f \in Memories, NEW keep \in Newest(f)
    PROVE  Cardinality(Present(Only(f, keep))) <= MaxKnown
<1>1. Present(Only(f, keep)) = keep
  BY NewestSubset
<1>2. Cardinality(keep) <= MaxKnown
  BY FirstSeenAssumption DEF Newest
<1>3. QED
  BY <1>1, <1>2

\* The sets of destinations of a window, and the tables it leads to.
LEMMA WindowSets ==
    ASSUME TypeOK, NEW cur \in SUBSET Ips
    PROVE  /\ Fresh(cur) \subseteq Ips /\ Raised(cur) \subseteq Ips
           /\ Gone(cur) \subseteq Ips /\ Silent(cur) \subseteq Ips
           /\ Learned(cur) \subseteq Ips /\ Refreshed(cur) \subseteq Ips
BY DEF Fresh, Raised, Gone, Silent, Learned, Refreshed, Present

LEMMA WindowTables ==
    ASSUME TypeOK, NEW cur \in SUBSET Ips, NEW ts \in Times
    PROVE  /\ Remembered(cur, ts) \in Memories
           /\ Upserted(cur, ts) \in Memories
           /\ Touched(cur, ts) \in Memories
           /\ Pruned(cur, ts) \in Memories
           /\ Surviving(cur, ts) \in Memories
           /\ \A keep \in SUBSET Ips : Dropped(cur, ts, keep) \in Memories
<1>1. Remembered(cur, ts) \in Memories /\ Upserted(cur, ts) \in Memories
  BY WindowSets, StampType DEF TypeOK, Remembered, Upserted
<1>2. Touched(cur, ts) \in Memories
  BY <1>1, WindowSets, StampType DEF TypeOK, Touched, Present
<1>3. Pruned(cur, ts) \in Memories /\ Surviving(cur, ts) \in Memories
  BY <1>1, <1>2, OnlyType DEF Pruned, Surviving, Unexpired, Present
<1>4. \A keep \in SUBSET Ips : Dropped(cur, ts, keep) \in Memories
  BY <1>3, OnlyType DEF Dropped
<1>5. QED
  BY <1>1, <1>2, <1>3, <1>4

\* What the table may hold when update() does not return.
LEMMA BrokenTables ==
    ASSUME TypeOK, NEW cur \in SUBSET Ips, NEW ts \in Times,
           NEW d \in Midway(cur, ts) \union {db}
    PROVE  d \in Memories
BY WindowTables DEF Midway, TypeOK

-----------------------------------------------------------------------------
(* Type correctness.                                                       *)

LEMMA HappensType ==
    ASSUME TypeOK, NEW cur \in SUBSET Ips, NEW ts \in Times, Happens(cur, ts)
    PROVE  /\ now' = ts /\ now' \in 0..Horizon /\ now < now'
           /\ lastContact' \in Memories
           /\ run' \in [Ips -> 0..MinConsecutive]
<1>1. now' = ts /\ ts \in 0..Horizon /\ now < ts
  BY FirstSeenAssumption DEF TypeOK, Happens, Times
<1>2. lastContact' \in Memories
  BY StampType DEF TypeOK, Happens
<1>3. run' \in [Ips -> 0..MinConsecutive]
  BY FirstSeenAssumption DEF TypeOK, Happens, Capped
<1>4. QED
  BY <1>1, <1>2, <1>3

\* What a process starts with, and what is left of a thread that ended.
LEMMA ForgetsType ==
    ASSUME Forgets
    PROVE  /\ watch' \in [Ips -> 0..MinConsecutive]
           /\ cooldown' \in [Ips -> 0..CooldownWindows]
           /\ seen' \subseteq Ips
           /\ windowsSeen' \in Nat
           /\ pending' \subseteq Alerts
           /\ sinceRaise' \in [Ips -> 0..CooldownWindows]
BY FirstSeenAssumption DEF Forgets

LEMMA HaltsType ==
    ASSUME TypeOK, Halts, now' \in 0..Horizon
    PROVE  known' \in Memories /\ capturing' \in BOOLEAN /\ ends' \subseteq 0..Horizon
BY DEF TypeOK, Halts, Memories

LEMMA StartType ==
    ASSUME TypeOK, Start
    PROVE  known' \in Memories /\ restarts' \in 0..MaxRestarts
<1>1. db \in Memories
  BY DEF TypeOK
<1>2. known' \in Memories
  BY <1>1, NewestSubset, OnlyType DEF Start
<1>3. restarts' \in 0..MaxRestarts
  BY FirstSeenAssumption DEF TypeOK, Start
<1>4. QED
  BY <1>2, <1>3

\* The two ways a window leaves the tables, by whether the sweep is due.
LEMMA WindowTablesStep ==
    ASSUME TypeOK, NEW cur \in SUBSET Ips, NEW ts \in Times, Window(cur, ts)
    PROVE  known' \in Memories /\ db' \in Memories /\ seen' \subseteq Ips
<1>1. CASE ~ PruneDue
  BY <1>1, WindowTables, WindowSets DEF TypeOK, Window
<1>2. CASE PruneDue
  <2>1. PICK keep \in Newest(Surviving(cur, ts)) :
            /\ known' = Only(Surviving(cur, ts), keep)
            /\ db' = Dropped(cur, ts, keep)
    BY <1>2 DEF Window
  <2>2. QED
    BY <1>2, <2>1, WindowTables, NewestSubset, OnlyType DEF Window
<1>3. QED
  BY <1>1, <1>2

LEMMA TypeStep ==
    ASSUME TypeOK, [Next]_vars
    PROVE  TypeOK'
<1>1. CASE UNCHANGED vars
  BY <1>1 DEF TypeOK, vars, memory, thread, disk, clock, history
<1>2. ASSUME NEW cur \in SUBSET Ips, NEW ts \in Times, Window(cur, ts)
      PROVE  TypeOK'
  <2>1. Happens(cur, ts)
    BY <1>2 DEF Window
  <2>2. /\ watch' \in [Ips -> 0..MinConsecutive]
        /\ cooldown' \in [Ips -> 0..CooldownWindows]
        /\ sinceRaise' \in [Ips -> 0..CooldownWindows]
    BY <1>2, FirstSeenAssumption
    DEF TypeOK, Window, Watched, Cooled, Capped, Decremented
  <2>3. Raised(cur) \X {ts} \subseteq Alerts
    BY WindowSets DEF Alerts
  <2>4. pending' \subseteq Alerts /\ confirmed' \subseteq Alerts
    BY <1>2, <2>3 DEF TypeOK, Window
  <2>5. /\ rows' \subseteq Alerts /\ windowsSeen' \in Nat
        /\ capturing' \in BOOLEAN /\ ends' \subseteq 0..Horizon
        /\ startedAt' \in 0..Horizon /\ restarts' \in 0..MaxRestarts
    BY <1>2 DEF TypeOK, Window
  <2>6. QED
    BY <1>2, <2>1, <2>2, <2>4, <2>5, HappensType, WindowTablesStep DEF TypeOK
<1>3. ASSUME NEW cur \in SUBSET Ips, NEW ts \in Times, Broken(cur, ts)
      PROVE  TypeOK'
  <2>1. Happens(cur, ts) /\ Halts /\ Forgets
    BY <1>3 DEF Broken, Halts
  <2>2. db' \in Memories
    BY <1>3, BrokenTables DEF Broken
  <2>3. Raised(cur) \X {ts} \subseteq Alerts
    BY WindowSets DEF Alerts
  <2>4. confirmed' \subseteq Alerts
    BY <1>3, <2>3 DEF TypeOK, Broken
  <2>5. now' \in 0..Horizon /\ lastContact' \in Memories /\ run' \in [Ips -> 0..MinConsecutive]
    BY <2>1, HappensType
  <2>6. rows' \subseteq Alerts /\ startedAt' \in 0..Horizon /\ restarts' \in 0..MaxRestarts
    BY <1>3 DEF TypeOK, Broken
  <2>7. QED
    BY <2>1, <2>2, <2>4, <2>5, <2>6, HaltsType, ForgetsType DEF TypeOK
<1>4. ASSUME NEW a \in Alerts, SaveAlert(a)
      PROVE  TypeOK'
  BY <1>4 DEF TypeOK, SaveAlert, memory, clock, history
<1>5. CASE Ends
  <2>1. Halts /\ Forgets /\ now' \in 0..Horizon
    BY <1>5 DEF Ends, Halts, TypeOK
  <2>2. /\ db' \in Memories /\ rows' \subseteq Alerts /\ confirmed' \subseteq Alerts
        /\ startedAt' \in 0..Horizon /\ restarts' \in 0..MaxRestarts
        /\ lastContact' \in Memories /\ run' \in [Ips -> 0..MinConsecutive]
    BY <1>5 DEF Ends, TypeOK, disk
  <2>3. QED
    BY <2>1, <2>2, HaltsType, ForgetsType DEF TypeOK
<1>6. CASE Start
  <2>1. Forgets
    BY <1>6 DEF Start
  <2>2. /\ capturing' \in BOOLEAN /\ ends' \subseteq 0..Horizon
        /\ db' \in Memories /\ rows' \subseteq Alerts /\ confirmed' \subseteq Alerts
        /\ now' \in 0..Horizon /\ startedAt' \in 0..Horizon
        /\ lastContact' \in Memories /\ run' \in [Ips -> 0..MinConsecutive]
    BY <1>6 DEF Start, TypeOK, disk
  <2>3. QED
    BY <1>6, <2>1, <2>2, StartType, ForgetsType DEF TypeOK
<1>7. QED
  BY <1>1, <1>2, <1>3, <1>4, <1>5, <1>6 DEF Next

LEMMA TypeInit == Init => TypeOK
BY FirstSeenAssumption DEF Init, TypeOK, Memories

\* Every variable keeps its type: no counter goes below zero, and only times of
\* windows are ever stored (behavioral.py:91-161).
THEOREM TypeCorrect == Spec => []TypeOK
BY TypeInit, TypeStep, PTL DEF Spec

-----------------------------------------------------------------------------
(* Memory and table.                                                       *)

\* A window only puts its own time into the memory, and a sweep only removes.
LEMMA WindowMemory ==
    ASSUME TypeOK, NEW cur \in SUBSET Ips, NEW ts \in Times, Window(cur, ts),
           NEW ip \in Ips
    PROVE  known'[ip] \in {Absent, Remembered(cur, ts)[ip]}
<1>1. CASE ~ PruneDue
  BY <1>1 DEF Window
<1>2. CASE PruneDue
  BY <1>2 DEF Window, Only, Surviving
<1>3. QED
  BY <1>1, <1>2

\* No table of the sweep holds a time later than the window's.
LEMMA TablesPast ==
    ASSUME TypeOK, Past, NEW cur \in SUBSET Ips, NEW ts \in Times, now < ts,
           NEW ip \in Ips
    PROVE  /\ Remembered(cur, ts)[ip] <= ts
           /\ Upserted(cur, ts)[ip] <= ts
           /\ Touched(cur, ts)[ip] <= ts
           /\ Pruned(cur, ts)[ip] <= ts
           /\ \A keep \in SUBSET Ips : Dropped(cur, ts, keep)[ip] <= ts
<1>0. /\ ts \in Nat \ {0} /\ now \in Nat /\ known[ip] \in Nat /\ db[ip] \in Nat
      /\ known[ip] <= ts /\ db[ip] <= ts
  BY FirstSeenAssumption DEF TypeOK, Past, Memories, Times, Absent
<1>1. Remembered(cur, ts)[ip] <= ts /\ Upserted(cur, ts)[ip] <= ts
  BY <1>0 DEF Remembered, Upserted, Stamp
<1>2. Touched(cur, ts)[ip] <= ts
  BY <1>0, <1>1 DEF Touched, Stamp
<1>3. Pruned(cur, ts)[ip] <= ts
  BY <1>0, <1>2 DEF Pruned, Only, Absent
<1>4. \A keep \in SUBSET Ips : Dropped(cur, ts, keep)[ip] <= ts
  BY <1>0, <1>3 DEF Dropped, Only, Absent
<1>5. QED
  BY <1>1, <1>2, <1>3, <1>4

LEMMA BrokenPast ==
    ASSUME TypeOK, Past, NEW cur \in SUBSET Ips, NEW ts \in Times, now < ts,
           NEW d \in Midway(cur, ts) \union {db}, NEW ip \in Ips
    PROVE  d[ip] <= ts
<1>1. d \in Midway(cur, ts) => d[ip] <= ts
  BY TablesPast DEF Midway
<1>2. db[ip] \in Nat /\ db[ip] <= now /\ now \in Nat /\ ts \in Nat
  BY FirstSeenAssumption DEF TypeOK, Past, Memories, Times, Absent
<1>3. QED
  BY <1>1, <1>2

\* After the touch of a sweep the table is at least as recent as the memory.
LEMMA TouchCovers ==
    ASSUME PersistInv, NEW cur \in SUBSET Ips, NEW ts \in Times, now < ts,
           NEW ip \in Present(Remembered(cur, ts))
    PROVE  Touched(cur, ts)[ip] >= Remembered(cur, ts)[ip]
<1>0. /\ ip \in Ips /\ ts \in Nat \ {0} /\ known[ip] \in Nat /\ db[ip] \in Nat
      /\ known[ip] <= ts /\ db[ip] <= ts
  BY FirstSeenAssumption DEF PersistInv, TypeOK, Past, Memories, Times, Absent, Present
<1>1. CASE ip \in Learned(cur)
  BY <1>0, <1>1 DEF Touched, Upserted, Remembered, Stamp
<1>2. CASE ip \in Refreshed(cur) \ Learned(cur)
  <2>1. Upserted(cur, ts)[ip] # Absent
    BY <1>0, <1>2 DEF PersistInv, KnownIsPersisted, Refreshed, Present, Upserted, Stamp
  <2>2. Touched(cur, ts)[ip] = ts
    BY <1>0, <1>2, <2>1 DEF Touched, Stamp, Present
  <2>3. QED
    BY <1>0, <1>2, <2>2 DEF Remembered, Stamp
<1>3. CASE ip \notin Refreshed(cur) \union Learned(cur)
  <2>1. Remembered(cur, ts)[ip] = known[ip] /\ Upserted(cur, ts)[ip] = db[ip]
    BY <1>0, <1>3 DEF Remembered, Upserted, Stamp
  <2>2. ip \in Present(known) /\ ip \in Present(db)
    BY <1>0, <2>1 DEF PersistInv, KnownIsPersisted, Present
  <2>3. ip \in seen \/ db[ip] >= known[ip]
    BY <2>2 DEF PersistInv, RecencyIsCovered
  <2>4. Touched(cur, ts)[ip] = IF ip \in seen THEN ts ELSE db[ip]
    BY <1>0, <1>3, <2>1, <2>2 DEF Touched, Stamp, Present
  <2>5. QED
    BY <1>0, <2>1, <2>3, <2>4
<1>4. QED
  BY <1>1, <1>2, <1>3

LEMMA PersistWindow ==
    ASSUME PersistInv, NEW cur \in SUBSET Ips, NEW ts \in Times, Window(cur, ts)
    PROVE  KnownIsPersisted' /\ RecencyIsCovered'
<1>0. TypeOK /\ now < ts
  BY HappensType DEF PersistInv, Window
<1>1. ASSUME ~ PruneDue, NEW ip \in Present(known')
      PROVE  db'[ip] # Absent /\ (ip \in seen' \/ db'[ip] >= known'[ip])
  <2>0. /\ ip \in Ips /\ known'[ip] # Absent
        /\ known' = Remembered(cur, ts) /\ db' = Upserted(cur, ts)
        /\ seen' = seen \union Refreshed(cur)
        /\ ts \in Nat /\ ts # Absent
    BY <1>1, FirstSeenAssumption DEF Window, Present, Times, Absent
  <2>1. CASE ip \in Learned(cur)
    BY <2>0, <2>1 DEF Remembered, Upserted, Stamp
  <2>2. CASE ip \in Refreshed(cur) \ Learned(cur)
    BY <2>0, <2>2
    DEF PersistInv, KnownIsPersisted, Refreshed, Present, Upserted, Stamp
  <2>3. CASE ip \notin Refreshed(cur) \union Learned(cur)
    <3>1. known'[ip] = known[ip] /\ db'[ip] = db[ip]
      BY <2>0, <2>3 DEF Remembered, Upserted, Stamp
    <3>2. ip \in Present(known)
      BY <2>0, <3>1 DEF Present
    <3>3. QED
      BY <2>0, <3>1, <3>2 DEF PersistInv, KnownIsPersisted, RecencyIsCovered, Present
  <2>4. QED
    BY <2>1, <2>2, <2>3
<1>2. ASSUME PruneDue, NEW ip \in Present(known')
      PROVE  db'[ip] # Absent /\ db'[ip] >= known'[ip]
  <2>1. PICK keep \in Newest(Surviving(cur, ts)) :
            /\ known' = Only(Surviving(cur, ts), keep)
            /\ db' = Dropped(cur, ts, keep)
    BY <1>2 DEF Window
  <2>2. /\ ip \in Ips /\ ip \in keep
        /\ known'[ip] = Surviving(cur, ts)[ip] /\ known'[ip] # Absent
    BY <1>2, <2>1 DEF Present, Only
  <2>3. /\ known'[ip] = Remembered(cur, ts)[ip]
        /\ ip \in Present(Remembered(cur, ts))
        /\ Remembered(cur, ts)[ip] >= ts - Ttl
    BY <2>2 DEF Surviving, Only, Unexpired, Present
  <2>4. Touched(cur, ts)[ip] >= Remembered(cur, ts)[ip]
    BY <1>0, <2>3, TouchCovers
  <2>5. /\ Touched(cur, ts)[ip] \in Nat /\ Remembered(cur, ts)[ip] \in Nat \ {0}
        /\ ts \in Nat /\ Ttl \in Nat
    <3>1. Touched(cur, ts) \in Memories /\ Remembered(cur, ts) \in Memories
      BY <1>0, WindowTables
    <3>2. QED
      BY <2>2, <2>3, <3>1, FirstSeenAssumption DEF Memories, Times, Absent
  <2>6. Touched(cur, ts)[ip] # Absent /\ Touched(cur, ts)[ip] >= ts - Ttl
    BY <2>3, <2>4, <2>5 DEF Absent
  <2>7. Pruned(cur, ts)[ip] = Touched(cur, ts)[ip]
    BY <2>2, <2>6 DEF Pruned, Only, Unexpired, Present
  <2>8. db'[ip] = Pruned(cur, ts)[ip]
    BY <2>1, <2>2 DEF Dropped, Only
  <2>9. QED
    BY <2>3, <2>4, <2>6, <2>7, <2>8
<1>3. QED
  BY <1>1, <1>2 DEF KnownIsPersisted, RecencyIsCovered, Present

\* A process starts with the times of the table.
LEMMA StartReads ==
    ASSUME TypeOK, Start
    PROVE  KnownIsPersisted' /\ RecencyIsCovered'
           /\ \A ip \in Ips : known'[ip] \in {Absent, db[ip]}
<1>1. PICK keep \in Newest(db) : known' = Only(db, keep)
  BY DEF Start
<1>2. \A ip \in Ips : db[ip] \in Int
  BY FirstSeenAssumption DEF TypeOK, Memories, Times, Absent
<1>3. \A ip \in Ips : known'[ip] \in {Absent, db[ip]}
  BY <1>1 DEF Only
<1>4. db' = db
  BY DEF Start, disk
<1>5. QED
  BY <1>2, <1>3, <1>4 DEF KnownIsPersisted, RecencyIsCovered, Present

\* Nothing is remembered by a thread that ended.
LEMMA HaltsEmpty ==
    ASSUME Halts
    PROVE  /\ \A ip \in Ips : known'[ip] = Absent
           /\ KnownIsPersisted' /\ RecencyIsCovered' /\ ContactIsKnown'
BY DEF Halts, KnownIsPersisted, RecencyIsCovered, ContactIsKnown, Present

LEMMA PastStep ==
    ASSUME TypeOK, Past, [Next]_vars
    PROVE  Past'
<1>0. now \in Nat /\ startedAt \in Nat
  BY FirstSeenAssumption DEF TypeOK
<1>1. CASE UNCHANGED vars
  BY <1>1 DEF Past, vars, memory, thread, disk, clock, history
<1>2. ASSUME NEW cur \in SUBSET Ips, NEW ts \in Times, Happens(cur, ts), NEW ip \in Ips
      PROVE  lastContact'[ip] <= now' /\ now' = ts /\ now < ts /\ ts \in Nat
  <2>1. now' = ts /\ now < ts /\ ts \in Nat
    BY <1>0, <1>2, HappensType, FirstSeenAssumption DEF Times
  <2>2. lastContact[ip] \in Nat /\ lastContact[ip] <= now
    BY FirstSeenAssumption DEF TypeOK, Past, Memories, Times, Absent
  <2>3. lastContact'[ip] = IF ip \in cur THEN ts ELSE lastContact[ip]
    BY <1>2 DEF Happens, Stamp
  <2>4. QED
    BY <1>0, <2>1, <2>2, <2>3
<1>3. ASSUME NEW cur \in SUBSET Ips, NEW ts \in Times, Window(cur, ts)
      PROVE  Past'
  <2>1. Happens(cur, ts) /\ startedAt' = startedAt
    BY <1>3 DEF Window
  <2>2. now' = ts /\ now < ts /\ ts \in Nat
    BY <1>0, <2>1, HappensType, FirstSeenAssumption DEF Times
  <2>3. ASSUME NEW ip \in Ips
        PROVE  known'[ip] <= ts /\ db'[ip] <= ts
    <3>1. known'[ip] <= ts
      BY <1>3, <2>2, WindowMemory, TablesPast DEF Absent
    <3>2. CASE ~ PruneDue
      BY <1>3, <2>2, <3>1, <3>2, TablesPast DEF Window
    <3>3. CASE PruneDue
      <4>1. PICK keep \in Newest(Surviving(cur, ts)) : db' = Dropped(cur, ts, keep)
        BY <1>3, <3>3 DEF Window
      <4>2. Ips \ keep \in SUBSET Ips /\ keep \in SUBSET Ips
        BY <4>1, NewestSubset, WindowTables
      <4>3. QED
        BY <2>2, <3>1, <4>1, <4>2, TablesPast
    <3>4. QED
      BY <3>2, <3>3
  <2>4. QED
    BY <1>0, <1>2, <2>1, <2>2, <2>3 DEF Past
<1>4. ASSUME NEW cur \in SUBSET Ips, NEW ts \in Times, Broken(cur, ts)
      PROVE  Past'
  <2>1. /\ Happens(cur, ts) /\ Halts /\ startedAt' = startedAt
        /\ db' \in Midway(cur, ts) \union {db}
    BY <1>4 DEF Broken
  <2>2. now' = ts /\ now < ts /\ ts \in Nat
    BY <1>0, <2>1, HappensType, FirstSeenAssumption DEF Times
  <2>3. \A ip \in Ips : db'[ip] <= ts
    BY <2>1, <2>2, BrokenPast
  <2>4. \A ip \in Ips : known'[ip] = Absent
    BY <2>1, HaltsEmpty
  <2>5. startedAt <= now
    BY DEF Past
  <2>6. QED
    BY <1>0, <1>2, <2>1, <2>2, <2>3, <2>4, <2>5 DEF Past, Absent
<1>5. CASE \E a \in Alerts : SaveAlert(a)
  BY <1>5 DEF SaveAlert, Past, memory, clock, history
<1>6. CASE Ends
  <2>1. \A ip \in Ips : known'[ip] = Absent
    BY <1>6, HaltsEmpty DEF Ends
  <2>2. now' = now /\ startedAt' = startedAt /\ db' = db /\ lastContact' = lastContact
    BY <1>6 DEF Ends, disk
  <2>3. QED
    BY <1>0, <2>1, <2>2 DEF Past, Absent
<1>7. CASE Start
  <2>1. /\ \A ip \in Ips : known'[ip] \in {Absent, db[ip]}
        /\ now' = now /\ startedAt' = now /\ db' = db /\ lastContact' = lastContact
    BY <1>7, StartReads DEF Start, disk
  <2>2. QED
    BY <1>0, <2>1 DEF Past, Absent
<1>8. QED
  BY <1>1, <1>3, <1>4, <1>5, <1>6, <1>7 DEF Next

LEMMA PersistStep ==
    ASSUME PersistInv, [Next]_vars
    PROVE  PersistInv'
<1>0. TypeOK /\ Past /\ TypeOK' /\ Past'
  BY TypeStep, PastStep DEF PersistInv
<1>1. CASE UNCHANGED vars
  BY <1>0, <1>1 DEF PersistInv, KnownIsPersisted, RecencyIsCovered, Present,
                    vars, memory, thread, disk, clock, history
<1>2. ASSUME NEW cur \in SUBSET Ips, NEW ts \in Times, Window(cur, ts)
      PROVE  PersistInv'
  BY <1>0, <1>2, PersistWindow DEF PersistInv
<1>3. CASE Halts
  BY <1>0, <1>3, HaltsEmpty DEF PersistInv
<1>4. CASE \E a \in Alerts : SaveAlert(a)
  BY <1>0, <1>4 DEF PersistInv, KnownIsPersisted, RecencyIsCovered, Present, SaveAlert, memory
<1>5. CASE Start
  BY <1>0, <1>5, StartReads DEF PersistInv
<1>6. QED
  BY <1>1, <1>2, <1>3, <1>4, <1>5 DEF Next, Broken, Ends

LEMMA PersistInit == Init => PersistInv
BY TypeInit DEF Init, PersistInv, Past, KnownIsPersisted, RecencyIsCovered, Present, Absent

\* Whatever the process remembers has a row in the table, at every window's end
\* and at every start, with any set of destinations, any lifetime and cap, any
\* sweep interval, and a thread that ends between any two commits
\* (behavioral.py:134-161).
THEOREM MemoryIsPersisted == Spec => []KnownIsPersisted
<1>1. PersistInv => KnownIsPersisted
  BY DEF PersistInv
<1>2. QED
  BY <1>1, PersistInit, PersistStep, PTL DEF Spec

\* The table is never behind the memory for a destination the next sweep does
\* not touch, so that no sweep deletes the row of a destination it keeps in
\* memory (behavioral.py:111-114, 143-152).
THEOREM SweepsAgree == Spec => []RecencyIsCovered
<1>1. PersistInv => RecencyIsCovered
  BY DEF PersistInv
<1>2. QED
  BY <1>1, PersistInit, PersistStep, PTL DEF Spec

-----------------------------------------------------------------------------
(* Watching and reporting.                                                 *)

\* The counters of one destination, with their types.
LEMMA CounterTypes ==
    ASSUME TypeOK, NEW ip \in Ips
    PROVE  /\ watch[ip] \in 0..MinConsecutive /\ run[ip] \in 0..MinConsecutive
           /\ cooldown[ip] \in 0..CooldownWindows
           /\ sinceRaise[ip] \in 0..CooldownWindows
           /\ windowsSeen \in Nat
           /\ MinConsecutive \in Nat \ {0} /\ CooldownWindows \in Nat
           /\ LearningWindows \in Nat
BY FirstSeenAssumption DEF TypeOK

\* A destination that is watched after the window's destinations are counted
\* has been in as many windows in a row, this one included.
LEMMA WatchedRuns ==
    ASSUME WatchInv, NEW cur \in SUBSET Ips, NEW ts \in Times, Happens(cur, ts),
           NEW ip \in cur, Watched(cur)[ip] > 0
    PROVE  Watched(cur)[ip] <= run'[ip]
<1>0. TypeOK /\ ip \in Ips
  BY DEF WatchInv
<1>1. run'[ip] = Capped(run[ip], MinConsecutive)
  BY <1>0 DEF Happens
<1>2. watch[ip] <= run[ip]
  BY <1>0, CounterTypes DEF WatchInv, WatchIsConsecutive
<1>3. Watched(cur)[ip] = IF ip \in Fresh(cur) /\ ~ Learning
                         THEN Capped(watch[ip], MinConsecutive) ELSE watch[ip]
  BY <1>0 DEF Watched
<1>4. /\ watch[ip] \in 0..MinConsecutive /\ run[ip] \in 0..MinConsecutive
      /\ MinConsecutive \in Nat \ {0}
  BY <1>0, CounterTypes
<1>5. CASE ip \in Fresh(cur) /\ ~ Learning
  BY <1>1, <1>2, <1>3, <1>4, <1>5 DEF Capped
<1>6. CASE ~ (ip \in Fresh(cur) /\ ~ Learning)
  BY <1>1, <1>2, <1>3, <1>4, <1>6 DEF Capped
<1>7. QED
  BY <1>5, <1>6

\* A destination still watched after a window was in it, is unknown, and the
\* learning phase is over.
LEMMA StillWatched ==
    ASSUME WatchInv, NEW cur \in SUBSET Ips, NEW ts \in Times, Window(cur, ts),
           NEW ip \in Ips, watch'[ip] > 0
    PROVE  /\ ip \in cur /\ known[ip] = Absent /\ ~ Learning
           /\ ip \in Fresh(cur) \ Raised(cur)
           /\ watch'[ip] = Watched(cur)[ip]
<1>0. TypeOK
  BY DEF WatchInv
<1>1. ip \notin Raised(cur) /\ ip \notin Gone(cur) /\ watch'[ip] = Watched(cur)[ip]
  BY DEF Window
<1>2. CASE watch[ip] > 0
  <2>1. windowsSeen > LearningWindows /\ known[ip] = Absent
    BY <1>2 DEF WatchInv, LearningIsFirst, WatchIsConsecutive
  <2>2. ~ Learning
    BY <1>0, <2>1, CounterTypes DEF Learning
  <2>3. ip \in cur
    BY <1>1, <1>2 DEF Gone
  <2>4. QED
    BY <1>1, <2>1, <2>2, <2>3 DEF Fresh, Present
<1>3. CASE ~ watch[ip] > 0
  <2>1. ip \in Fresh(cur) /\ ~ Learning
    BY <1>1, <1>3 DEF Watched
  <2>2. QED
    BY <1>1, <2>1 DEF Fresh, Present
<1>4. QED
  BY <1>2, <1>3

LEMMA WatchWindow ==
    ASSUME WatchInv, NEW cur \in SUBSET Ips, NEW ts \in Times, Window(cur, ts)
    PROVE  /\ CooldownIsHistory' /\ LearningIsFirst'
           /\ WatchIsConsecutive' /\ SustainedIsRaised'
<1>0. TypeOK /\ Happens(cur, ts) /\ windowsSeen' = windowsSeen + 1
  BY DEF WatchInv, Window
<1>1. CooldownIsHistory'
  <2>1. ASSUME NEW ip \in Ips
        PROVE  cooldown'[ip] = CooldownWindows - sinceRaise'[ip]
    <3>1. /\ cooldown[ip] = CooldownWindows - sinceRaise[ip]
          /\ cooldown'[ip] = IF ip \in Raised(cur) THEN CooldownWindows
                             ELSE Decremented(cooldown[ip])
          /\ sinceRaise'[ip] = IF ip \in Raised(cur) THEN 0
                               ELSE Capped(sinceRaise[ip], CooldownWindows)
      BY DEF WatchInv, CooldownIsHistory, Window, Cooled
    <3>2. QED
      BY <1>0, <3>1, CounterTypes DEF Decremented, Capped
  <2>2. QED
    BY <2>1 DEF CooldownIsHistory
<1>2. LearningIsFirst'
  <2>1. ASSUME NEW ip \in Ips, watch'[ip] > 0
        PROVE  windowsSeen' > LearningWindows
    <3>1. ~ Learning
      BY <2>1, StillWatched
    <3>2. QED
      BY <1>0, <2>1, <3>1, CounterTypes DEF Learning
  <2>2. QED
    BY <2>1 DEF LearningIsFirst
<1>3. WatchIsConsecutive'
  <2>1. ASSUME NEW ip \in Ips, watch'[ip] > 0
        PROVE  known'[ip] = Absent /\ watch'[ip] <= run'[ip]
    <3>1. /\ ip \in cur /\ known[ip] = Absent /\ ~ Learning
          /\ ip \notin Raised(cur) /\ watch'[ip] = Watched(cur)[ip]
      BY <2>1, StillWatched
    <3>2. watch'[ip] <= run'[ip]
      BY <1>0, <2>1, <3>1, WatchedRuns
    <3>3. ip \notin Refreshed(cur) \union Learned(cur)
      BY <3>1 DEF Refreshed, Learned, Gone, Silent, Present
    <3>4. Remembered(cur, ts)[ip] = Absent
      BY <3>1, <3>3 DEF Remembered, Stamp
    <3>5. QED
      BY <1>0, <3>2, <3>4, WindowMemory
  <2>2. QED
    BY <2>1 DEF WatchIsConsecutive
<1>4. SustainedIsRaised'
  <2>1. ASSUME NEW ip \in Ips, watch'[ip] >= MinConsecutive
        PROVE  sinceRaise'[ip] < CooldownWindows
    <3>1. watch'[ip] > 0
      <4>1. TypeOK'
        BY <1>0, TypeStep DEF Next
      <4>2. watch'[ip] \in Nat /\ MinConsecutive \in Nat \ {0}
        BY <2>1, <4>1, FirstSeenAssumption DEF TypeOK
      <4>3. QED
        BY <2>1, <4>2
    <3>2. /\ ip \in Fresh(cur) \ Raised(cur) /\ ~ Learning
          /\ watch'[ip] = Watched(cur)[ip]
      BY <2>1, <3>1, StillWatched
    <3>3. Cooled[ip] # 0
      BY <2>1, <3>2 DEF Raised
    <3>4. /\ sinceRaise'[ip] = Capped(sinceRaise[ip], CooldownWindows)
          /\ cooldown[ip] = CooldownWindows - sinceRaise[ip]
          /\ Decremented(cooldown[ip]) # 0
      BY <3>2, <3>3 DEF WatchInv, CooldownIsHistory, Window, Cooled
    <3>5. QED
      BY <1>0, <3>4, CounterTypes DEF Decremented, Capped
  <2>2. QED
    BY <2>1 DEF SustainedIsRaised
<1>5. QED
  BY <1>1, <1>2, <1>3, <1>4

LEMMA WatchForgets ==
    ASSUME Forgets
    PROVE  /\ CooldownIsHistory' /\ LearningIsFirst'
           /\ WatchIsConsecutive' /\ SustainedIsRaised'
<1>1. \A ip \in Ips : watch'[ip] = 0 /\ cooldown'[ip] = 0 /\ sinceRaise'[ip] = CooldownWindows
  BY DEF Forgets
<1>2. QED
  BY <1>1, FirstSeenAssumption
  DEF CooldownIsHistory, LearningIsFirst, WatchIsConsecutive, SustainedIsRaised

LEMMA WatchStep ==
    ASSUME WatchInv, [Next]_vars
    PROVE  WatchInv'
<1>0. TypeOK /\ TypeOK'
  BY TypeStep DEF WatchInv
<1>1. CASE UNCHANGED vars
  BY <1>0, <1>1 DEF WatchInv, CooldownIsHistory, LearningIsFirst, WatchIsConsecutive,
                    SustainedIsRaised, vars, memory, thread, disk, clock, history
<1>2. ASSUME NEW cur \in SUBSET Ips, NEW ts \in Times, Window(cur, ts)
      PROVE  WatchInv'
  BY <1>0, <1>2, WatchWindow DEF WatchInv
<1>3. CASE Forgets
  BY <1>0, <1>3, WatchForgets DEF WatchInv
<1>4. CASE \E a \in Alerts : SaveAlert(a)
  BY <1>0, <1>4 DEF WatchInv, CooldownIsHistory, LearningIsFirst, WatchIsConsecutive,
                    SustainedIsRaised, SaveAlert, memory, history
<1>5. QED
  BY <1>1, <1>2, <1>3, <1>4 DEF Next, Broken, Ends, Start, Halts

LEMMA WatchInit == Init => WatchInv
<1>1. SUFFICES ASSUME Init PROVE WatchInv
  OBVIOUS
<1>2. \A ip \in Ips : watch[ip] = 0 /\ cooldown[ip] = 0 /\ sinceRaise[ip] = CooldownWindows
  BY <1>1 DEF Init
<1>3. QED
  BY <1>1, <1>2, TypeInit, FirstSeenAssumption
  DEF WatchInv, CooldownIsHistory, LearningIsFirst, WatchIsConsecutive, SustainedIsRaised

\* A watched destination is unknown and was in each of the last windows it is
\* credited with (behavioral.py:119-132).
THEOREM WatchingIsConsecutive == Spec => []WatchIsConsecutive
<1>1. WatchInv => WatchIsConsecutive
  BY DEF WatchInv
<1>2. QED
  BY <1>1, WatchInit, WatchStep, PTL DEF Spec

\* A destination that lasted is reported, unless an earlier report of it still
\* mutes it (behavioral.py:119-125).
THEOREM SustainedAreRaised == Spec => []SustainedIsRaised
<1>1. WatchInv => SustainedIsRaised
  BY DEF WatchInv
<1>2. QED
  BY <1>1, WatchInit, WatchStep, PTL DEF Spec

LEMMA RaisedIsEarned ==
    ASSUME WatchInv, NEW cur \in SUBSET Ips, NEW ts \in Times, Happens(cur, ts),
           NEW ip \in Raised(cur)
    PROVE  run'[ip] >= MinConsecutive /\ sinceRaise[ip] + 1 >= CooldownWindows
<1>0. TypeOK /\ ip \in cur /\ ip \in Ips
  BY DEF WatchInv, Raised, Fresh
<1>1. Watched(cur)[ip] >= MinConsecutive /\ Decremented(cooldown[ip]) = 0
  BY <1>0 DEF Raised, Cooled
<1>2. run'[ip] >= MinConsecutive
  <2>1. Watched(cur)[ip] \in Nat /\ MinConsecutive \in Nat \ {0}
    BY <1>0, CounterTypes DEF Watched, Capped
  <2>2. run'[ip] \in Nat
    BY <1>0, HappensType, CounterTypes
  <2>3. Watched(cur)[ip] <= run'[ip]
    BY <1>0, <1>1, <2>1, WatchedRuns
  <2>4. QED
    BY <1>1, <2>1, <2>2, <2>3
<1>3. cooldown[ip] = CooldownWindows - sinceRaise[ip]
  BY <1>0 DEF WatchInv, CooldownIsHistory
<1>4. QED
  BY <1>0, <1>1, <1>2, <1>3, CounterTypes DEF Decremented

\* Every report follows MinConsecutive windows in a row, and CooldownWindows
\* windows without a report of the same destination, even when the destination
\* was forgotten in between (behavioral.py:96-99, 120-125).
THEOREM AlertsAreEarned == Spec => AlertIsEarned
<1>1. WatchInv /\ [Next]_vars =>
          [\A a \in confirmed' \ confirmed :
               /\ run'[a[1]] >= MinConsecutive
               /\ sinceRaise[a[1]] + 1 >= CooldownWindows]_vars
  <2>1. SUFFICES ASSUME WatchInv, Next, NEW a \in confirmed' \ confirmed
                 PROVE  run'[a[1]] >= MinConsecutive /\ sinceRaise[a[1]] + 1 >= CooldownWindows
    OBVIOUS
  <2>2. ASSUME NEW cur \in SUBSET Ips, NEW ts \in Times, Happens(cur, ts),
               a \in Raised(cur) \X {ts}
        PROVE  run'[a[1]] >= MinConsecutive /\ sinceRaise[a[1]] + 1 >= CooldownWindows
    <3>1. a[1] \in Raised(cur)
      BY <2>2
    <3>2. QED
      BY <2>1, <2>2, <3>1, RaisedIsEarned
  <2>3. CASE \E cur \in SUBSET Ips, ts \in Times : Window(cur, ts) \/ Broken(cur, ts)
    <3>1. PICK cur \in SUBSET Ips, ts \in Times : Window(cur, ts) \/ Broken(cur, ts)
      BY <2>3
    <3>2. Happens(cur, ts) /\ a \in Raised(cur) \X {ts}
      BY <2>1, <3>1 DEF Window, Broken
    <3>3. QED
      BY <2>2, <3>2
  <2>4. CASE (\E b \in Alerts : SaveAlert(b)) \/ Ends \/ Start
    BY <2>1, <2>4 DEF SaveAlert, Ends, Start, history
  <2>5. QED
    BY <2>1, <2>3, <2>4 DEF Next
<1>2. QED
  BY <1>1, WatchInit, WatchStep, PTL DEF Spec, AlertIsEarned

-----------------------------------------------------------------------------
(* Recency and the cap.                                                    *)

LEMMA FreshWindow ==
    ASSUME FreshInv, NEW cur \in SUBSET Ips, NEW ts \in Times, Window(cur, ts)
    PROVE  ContactIsKnown'
<1>0. TypeOK /\ now < ts /\ ts \in Nat /\ startedAt' = startedAt /\ now \in Nat
  BY HappensType, FirstSeenAssumption DEF FreshInv, PersistInv, Window, TypeOK, Times
<1>1. SUFFICES ASSUME NEW ip \in Ips, known'[ip] # Absent, lastContact'[ip] > startedAt
               PROVE  known'[ip] >= lastContact'[ip]
  BY <1>0 DEF ContactIsKnown, Present
<1>2. /\ known'[ip] = IF ip \in Refreshed(cur) \union Learned(cur) THEN ts ELSE known[ip]
      /\ lastContact'[ip] = IF ip \in cur THEN ts ELSE lastContact[ip]
  BY <1>0, <1>1, WindowMemory DEF Window, Happens, Remembered, Stamp
<1>3. lastContact[ip] <= now /\ lastContact[ip] \in Nat
  BY FirstSeenAssumption DEF FreshInv, PersistInv, TypeOK, Past, Memories, Times, Absent
<1>4. CASE ip \in Refreshed(cur) \union Learned(cur)
  BY <1>0, <1>2, <1>3, <1>4
<1>5. CASE ip \notin Refreshed(cur) \union Learned(cur)
  <2>1. known[ip] = known'[ip] /\ ip \in Present(known) /\ ip \notin cur
    BY <1>1, <1>2, <1>5 DEF Present, Refreshed
  <2>2. QED
    BY <1>1, <1>2, <2>1 DEF FreshInv, ContactIsKnown
<1>6. QED
  BY <1>4, <1>5

LEMMA FreshStart ==
    ASSUME PersistInv', Start
    PROVE  ContactIsKnown'
<1>1. ASSUME NEW ip \in Ips
      PROVE  ~ lastContact'[ip] > startedAt'
  <2>1. lastContact'[ip] <= now' /\ startedAt' = now'
    BY DEF PersistInv, Past, Start
  <2>2. lastContact'[ip] \in Nat /\ now' \in Nat
    BY FirstSeenAssumption DEF PersistInv, TypeOK, Memories, Times, Absent
  <2>3. QED
    BY <2>1, <2>2
<1>2. QED
  BY <1>1 DEF ContactIsKnown, Present

LEMMA SweptStep ==
    ASSUME SeenIsSwept, [Next]_vars
    PROVE  SeenIsSwept'
<1>1. ASSUME NEW cur \in SUBSET Ips, NEW ts \in Times, Window(cur, ts)
      PROVE  SeenIsSwept'
  BY <1>1 DEF Window, PruneDue, SeenIsSwept
<1>2. CASE Forgets
  BY <1>2 DEF Forgets, SeenIsSwept
<1>3. CASE UNCHANGED memory
  BY <1>3 DEF memory, SeenIsSwept
<1>4. QED
  BY <1>1, <1>2, <1>3 DEF Next, Broken, SaveAlert, Ends, Start, Halts, vars

LEMMA FreshStep ==
    ASSUME FreshInv, [Next]_vars
    PROVE  FreshInv'
<1>0. PersistInv' /\ SeenIsSwept'
  BY PersistStep, SweptStep DEF FreshInv
<1>1. CASE UNCHANGED vars
  BY <1>0, <1>1 DEF FreshInv, ContactIsKnown, Present, vars, memory, clock, history
<1>2. ASSUME NEW cur \in SUBSET Ips, NEW ts \in Times, Window(cur, ts)
      PROVE  FreshInv'
  BY <1>0, <1>2, FreshWindow DEF FreshInv
<1>3. CASE Halts
  BY <1>0, <1>3, HaltsEmpty DEF FreshInv
<1>4. CASE \E a \in Alerts : SaveAlert(a)
  BY <1>0, <1>4 DEF FreshInv, ContactIsKnown, Present, SaveAlert, memory, clock, history
<1>5. CASE Start
  BY <1>0, <1>5, FreshStart DEF FreshInv
<1>6. QED
  BY <1>1, <1>2, <1>3, <1>4, <1>5 DEF Next, Broken, Ends

\* While a process runs it never forgets a destination by a time older than the
\* last contact it saw, and at a sweep the table knows every contact the memory
\* knows: until the next it is behind only for destinations refreshed since,
\* which is all a restart forgets (behavioral.py:72-80, 111-114, 143-146).
THEOREM RecencyStaysFresh == Spec => []RecencyIsFresh
<1>1. Init => FreshInv
  BY PersistInit DEF Init, FreshInv, ContactIsKnown, SeenIsSwept, Present, Absent
<1>2. FreshInv => RecencyIsFresh
  <2>1. SUFFICES ASSUME FreshInv, NEW ip \in Present(known), lastContact[ip] > startedAt
                 PROVE  known[ip] >= lastContact[ip] /\ (ip \in seen \/ db[ip] >= lastContact[ip])
    BY DEF RecencyIsFresh, FreshInv, SeenIsSwept
  <2>2. known[ip] >= lastContact[ip] /\ (ip \in seen \/ db[ip] >= known[ip])
    BY <2>1 DEF FreshInv, PersistInv, RecencyIsCovered, ContactIsKnown
  <2>3. db[ip] \in Nat /\ known[ip] \in Nat /\ lastContact[ip] \in Nat
    BY <2>1, FirstSeenAssumption
    DEF FreshInv, PersistInv, TypeOK, Memories, Times, Absent, Present
  <2>4. QED
    BY <2>2, <2>3
<1>3. QED
  BY <1>1, <1>2, FreshStep, PTL DEF Spec

\* Every sweep and every start leaves at most MaxKnown destinations in memory,
\* however many one window brings (behavioral.py:136-161).
THEOREM SweepsBoundMemory == Spec => []SweepBoundsMemory
<1>1. Init => TypeOK /\ SweepBoundsMemory
  <2>1. SUFFICES ASSUME Init PROVE SweepBoundsMemory
    BY TypeInit
  <2>2. Present(known) = {}
    BY <2>1 DEF Init, Present
  <2>3. Cardinality(Present(known)) = 0
    BY <2>2, FS_EmptySet
  <2>4. QED
    BY <2>3, FirstSeenAssumption DEF SweepBoundsMemory
<1>2. ASSUME TypeOK, SweepBoundsMemory, [Next]_vars
      PROVE  TypeOK' /\ SweepBoundsMemory'
  <2>0. TypeOK'
    BY <1>2, TypeStep
  <2>1. CASE UNCHANGED memory
    BY <1>2, <2>0, <2>1 DEF SweepBoundsMemory, Present, memory
  <2>2. ASSUME NEW cur \in SUBSET Ips, NEW ts \in Times, Window(cur, ts)
        PROVE  SweepBoundsMemory'
    <3>1. CASE ~ PruneDue
      BY <2>2, <3>1 DEF Window, PruneDue, SweepBoundsMemory
    <3>2. CASE PruneDue
      <4>1. PICK keep \in Newest(Surviving(cur, ts)) :
                known' = Only(Surviving(cur, ts), keep)
        BY <2>2, <3>2 DEF Window
      <4>2. Surviving(cur, ts) \in Memories
        BY <1>2, WindowTables
      <4>3. Cardinality(Present(known')) <= MaxKnown
        BY <4>1, <4>2, NewestBound
      <4>4. QED
        BY <4>3 DEF SweepBoundsMemory, Present
    <3>3. QED
      BY <3>1, <3>2
  <2>3. CASE Halts
    <3>1. Present(known') = {}
      BY <2>3, HaltsEmpty DEF Present
    <3>2. Cardinality(Present(known')) = 0
      BY <3>1, FS_EmptySet
    <3>3. QED
      BY <2>0, <3>2, FirstSeenAssumption DEF SweepBoundsMemory, Present
  <2>4. CASE Start
    <3>1. PICK keep \in Newest(db) : known' = Only(db, keep)
      BY <2>4 DEF Start
    <3>2. Cardinality(Present(known')) <= MaxKnown
      BY <1>2, <3>1, NewestBound DEF TypeOK
    <3>3. QED
      BY <2>0, <3>2 DEF SweepBoundsMemory, Present
  <2>5. QED
    BY <1>2, <2>0, <2>1, <2>2, <2>3, <2>4 DEF Next, Broken, SaveAlert, Ends, vars
<1>3. QED
  BY <1>1, <1>2, PTL DEF Spec

-----------------------------------------------------------------------------
(* What a sweep leaves, and what the end of a thread loses.                *)

\* Nothing whose last time is older than the lifetime outlives a sweep, in the
\* memory or in the table: the rows a start did not load are bounded by their
\* lifetime, though by no cap.
SweepExpires ==
    windowsSeen > 0 /\ windowsSeen % PruneInterval = 0 =>
        \A ip \in Ips : \A last \in {known[ip], db[ip]} :
            last = Absent \/ last >= now - Ttl

\* What a window with a sweep keeps of either is of the sweep's lifetime.
LEMMA SweptTimes ==
    ASSUME TypeOK, NEW cur \in SUBSET Ips, NEW ts \in Times, Window(cur, ts), PruneDue,
           NEW ip \in Ips, NEW last \in {known'[ip], db'[ip]}, last # Absent
    PROVE  last >= ts - Ttl
<1>1. PICK keep \in Newest(Surviving(cur, ts)) :
          /\ known' = Only(Surviving(cur, ts), keep)
          /\ db' = Dropped(cur, ts, keep)
  BY DEF Window
<1>2. CASE last = known'[ip]
  <2>1. last = Surviving(cur, ts)[ip]
    BY <1>1, <1>2 DEF Only
  <2>2. QED
    BY <2>1 DEF Surviving, Only, Unexpired
<1>3. CASE last = db'[ip]
  <2>1. last = Pruned(cur, ts)[ip]
    BY <1>1, <1>3 DEF Dropped, Only
  <2>2. QED
    BY <2>1 DEF Pruned, Only, Unexpired
<1>4. QED
  BY <1>2, <1>3

\* A sweep expires by time in the memory and in the table alike, so that a row
\* no start ever loads again goes with its lifetime (behavioral.py:148-152,
\* storage.py:176-185).
THEOREM SweepsExpire == Spec => []SweepExpires
<1>1. Init => TypeOK /\ SweepExpires
  BY TypeInit DEF Init, SweepExpires
<1>2. ASSUME TypeOK, SweepExpires, [Next]_vars
      PROVE  TypeOK' /\ SweepExpires'
  <2>0. TypeOK'
    BY <1>2, TypeStep
  <2>1. CASE UNCHANGED <<memory, db, now>>
    BY <1>2, <2>0, <2>1 DEF SweepExpires, memory
  <2>2. ASSUME NEW cur \in SUBSET Ips, NEW ts \in Times, Window(cur, ts)
        PROVE  SweepExpires'
    <3>1. now' = ts /\ windowsSeen' = windowsSeen + 1
      BY <2>2 DEF Window, Happens
    <3>2. CASE ~ PruneDue
      BY <3>1, <3>2 DEF PruneDue, SweepExpires
    <3>3. CASE PruneDue
      BY <1>2, <2>2, <3>1, <3>3, SweptTimes DEF SweepExpires
    <3>4. QED
      BY <3>2, <3>3
  <2>3. CASE Forgets
    BY <2>0, <2>3 DEF Forgets, SweepExpires
  <2>4. QED
    BY <1>2, <2>0, <2>1, <2>2, <2>3
    DEF Next, Broken, SaveAlert, Ends, Start, Halts, vars, clock, disk
<1>3. QED
  BY <1>1, <1>2, PTL DEF Spec

\* Only a running thread has alerts to save, all of the window it was given last;
\* what is saved or to be saved was confirmed; what is neither was of the last
\* window of a thread that ended.
LossInv ==
    /\ TypeOK
    /\ pending # {} => capturing
    /\ \A a \in pending : a[2] = now
    /\ rows \union pending \subseteq confirmed
    /\ \A a \in Lost : a[2] \in ends

LEMMA LossStep ==
    ASSUME LossInv, [Next]_vars
    PROVE  LossInv'
<1>0. TypeOK'
  BY TypeStep DEF LossInv
<1>1. CASE UNCHANGED vars
  BY <1>0, <1>1 DEF LossInv, Lost, vars, thread, disk, clock, history
<1>2. ASSUME NEW cur \in SUBSET Ips, NEW ts \in Times, Window(cur, ts)
      PROVE  LossInv'
  <2>1. /\ capturing' /\ pending = {} /\ now' = ts /\ pending' = Raised(cur) \X {ts}
        /\ rows' = rows /\ confirmed' = confirmed \union pending' /\ ends' = ends
    BY <1>2 DEF Window, Happens
  <2>2. Lost' \subseteq Lost
    BY <2>1 DEF Lost
  <2>3. QED
    BY <1>0, <2>1, <2>2 DEF LossInv
<1>3. ASSUME NEW cur \in SUBSET Ips, NEW ts \in Times, Broken(cur, ts)
      PROVE  LossInv'
  <2>1. /\ pending = {} /\ pending' = {} /\ now' = ts /\ rows' = rows
        /\ confirmed \subseteq confirmed'
        /\ confirmed' \subseteq confirmed \union (Raised(cur) \X {ts})
        /\ ends' = ends \union {ts}
    BY <1>3 DEF Broken, Happens, Halts, Forgets
  <2>2. ASSUME NEW a \in Lost'
        PROVE  a[2] \in ends'
    BY <2>1, <2>2 DEF Lost, LossInv
  <2>3. QED
    BY <1>0, <2>1, <2>2 DEF LossInv
<1>4. ASSUME NEW a \in Alerts, SaveAlert(a)
      PROVE  LossInv'
  <2>1. /\ a \in pending /\ rows' = rows \union {a} /\ pending' = pending \ {a}
        /\ UNCHANGED <<capturing, now, confirmed, ends>>
    BY <1>4 DEF SaveAlert, clock, history
  <2>2. Lost' = Lost
    BY <2>1 DEF Lost
  <2>3. QED
    BY <1>0, <2>1, <2>2 DEF LossInv
<1>5. CASE Ends
  <2>1. /\ pending' = {} /\ rows' = rows /\ confirmed' = confirmed
        /\ ends' = ends \union {now}
    BY <1>5 DEF Ends, Halts, Forgets, disk
  <2>2. ASSUME NEW a \in Lost'
        PROVE  a[2] \in ends'
    BY <2>1, <2>2 DEF Lost, LossInv
  <2>3. QED
    BY <1>0, <2>1, <2>2 DEF LossInv
<1>6. CASE Start
  <2>1. /\ pending = {} /\ pending' = {} /\ rows' = rows
        /\ confirmed' = confirmed /\ ends' = ends
    BY <1>6 DEF Start, Forgets, disk, LossInv
  <2>2. Lost' = Lost
    BY <2>1 DEF Lost
  <2>3. QED
    BY <1>0, <2>1, <2>2 DEF LossInv
<1>7. QED
  BY <1>1, <1>2, <1>3, <1>4, <1>5, <1>6 DEF Next

LEMMA LossInit == Init => LossInv
BY TypeInit DEF Init, LossInv, Lost

\* As many windows ended a thread as threads have ended.
EndsAreFew ==
    /\ IsFiniteSet(ends)
    /\ Cardinality(ends) <= restarts + (IF capturing THEN 0 ELSE 1)

LEMMA EndsStep ==
    ASSUME TypeOK, EndsAreFew, [Next]_vars
    PROVE  EndsAreFew'
<1>0. /\ IsFiniteSet(ends) /\ Cardinality(ends) \in Nat /\ restarts \in Nat
      /\ Cardinality(ends) <= restarts + (IF capturing THEN 0 ELSE 1)
  BY FS_CardinalityType, FirstSeenAssumption DEF EndsAreFew, TypeOK
<1>1. CASE UNCHANGED <<ends, restarts, capturing>>
  BY <1>0, <1>1 DEF EndsAreFew
<1>2. CASE capturing /\ Halts /\ restarts' = restarts
  <2>1. capturing' = FALSE /\ ends' = ends \union {now'}
    BY <1>2 DEF Halts
  <2>2. /\ IsFiniteSet(ends \union {now'})
        /\ Cardinality(ends \union {now'}) = IF now' \in ends THEN Cardinality(ends)
                                              ELSE Cardinality(ends) + 1
    BY <1>0, FS_AddElement
  <2>3. Cardinality(ends') <= restarts' + 1
    BY <1>0, <1>2, <2>1, <2>2
  <2>4. QED
    BY <2>1, <2>2, <2>3 DEF EndsAreFew
<1>3. CASE Start
  BY <1>0, <1>3 DEF Start, EndsAreFew
<1>4. QED
  BY <1>1, <1>2, <1>3
  DEF Next, Window, Broken, Happens, SaveAlert, Ends, vars, thread, clock, history

LEMMA EndsInit == Init => EndsAreFew
<1>1. SUFFICES ASSUME Init PROVE EndsAreFew
  OBVIOUS
<1>2. ends = {} /\ restarts = 0 /\ capturing
  BY <1>1 DEF Init
<1>3. IsFiniteSet({}) /\ Cardinality({}) = 0
  BY FS_EmptySet
<1>4. QED
  BY <1>2, <1>3 DEF EndsAreFew

\* However a capture thread ends - stopped, killed, by a write of update() that
\* raises at any of its commits or by a save_alert that raises - the alerts it
\* leaves learned and unsaved are of the one window it was given last; a thread
\* that goes on has lost none (behavioral.py:134-161, service.py:140-163).
THEOREM LossesAreOfLastWindows == Spec => []LossIsOfLastWindow
<1>1. LossInv /\ EndsAreFew => LossIsOfLastWindow
  BY DEF LossInv, EndsAreFew, LossIsOfLastWindow
<1>2. LossInv => TypeOK
  BY DEF LossInv
<1>3. QED
  BY <1>1, <1>2, LossInit, LossStep, EndsInit, EndsStep, PTL DEF Spec

\* No alert is saved of a destination that was not confirmed in the window the
\* alert names (behavioral.py:119-135, service.py:154-163).
THEOREM RowsAreConfirmed == Spec => [](rows \subseteq confirmed)
<1>1. LossInv => rows \subseteq confirmed
  BY DEF LossInv
<1>2. QED
  BY <1>1, LossInit, LossStep, PTL DEF Spec
=============================================================================
