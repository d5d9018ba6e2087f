--------------------------- MODULE AuditChainProofs ---------------------------
(* Theorems about AuditChain, for any writers, users, retention and bounds. *)
EXTENDS AuditChain, TLAPS

(* The empty log satisfies the inductive invariant. *)
LEMMA InitInvariant == Init => IInv
  <1>1. SUFFICES ASSUME Init PROVE IInv
    OBVIOUS
  <1>2. TypeOK
    BY <1>1, BoundsAssumption
    DEF Init, TypeOK, Times, Ids, Entry, Blank, BlankPayload, Payload, AnyUser,
        Writer, IdleWriter, Stages
  <1>3. RowsFollow /\ ForkOnlyByOverlap
    BY <1>1 DEF Init, RowsFollow, After, Blank, ForkOnlyByOverlap
  <1>4. WritersFollow
    BY <1>1 DEF Init, WritersFollow, IdleWriter, Blank
  <1>5. QED
    BY <1>2, <1>3, <1>4 DEF IInv

(* The types of what a step reads: the bounds are numbers, ids and stamps  *)
(* are comparable.                                                         *)
LEMMA Facts ==
  ASSUME TypeOK
  PROVE  /\ clock \in Nat /\ nextId \in Nat \ {0}
         /\ \A i \in Ids : /\ entry[i] \in Entry
                           /\ entry[i].stamp \in Nat /\ entry[i].prev \in Nat
                           /\ entry[i].seen \in Nat /\ entry[i].until \in Nat
         /\ \A w \in Writers : /\ writer[w] \in Writer /\ writer[w].row \in Entry
                               /\ writer[w].row.stamp \in Nat
                               /\ writer[w].row.prev \in 0..MaxRows
                               /\ writer[w].row.seen \in Nat
         /\ \A i \in logs : i \in Ids /\ i < nextId
         /\ \A i \in Ids : i \in Nat \ {0}
  <1>1. clock \in Nat /\ nextId \in Nat \ {0}
    BY BoundsAssumption DEF TypeOK, Times
  <1>5. ASSUME NEW i \in logs
        PROVE  i \in Ids /\ i < nextId
    <2>1. i \in 1..nextId - 1 /\ nextId \in 1..MaxRows + 1
      BY DEF TypeOK
    <2>2. QED
      BY <2>1, BoundsAssumption DEF Ids
  <1>6. \A i \in Ids : i \in Nat \ {0}
    BY BoundsAssumption DEF Ids
  <1>2. ASSUME NEW r \in Entry
        PROVE  r.stamp \in Nat /\ r.prev \in 0..MaxRows /\ r.seen \in Nat /\ r.until \in Nat
    BY BoundsAssumption DEF Entry, Times
  <1>3. \A i \in Ids : entry[i] \in Entry
    BY DEF TypeOK
  <1>4. \A w \in Writers : writer[w] \in Writer /\ writer[w].row \in Entry
    BY DEF TypeOK, Writer
  <1>7. QED
    BY <1>1, <1>2, <1>3, <1>4, <1>5, <1>6, BoundsAssumption

(* The field pre_save fills in. *)
LEMMA StampedIsEntry ==
  ASSUME NEW r \in Entry, NEW t \in Times
  PROVE  /\ [r EXCEPT !.stamp = t] \in Entry
         /\ [r EXCEPT !.stamp = t].stamp = t
         /\ [r EXCEPT !.stamp = t].prev = r.prev
         /\ [r EXCEPT !.stamp = t].seen = r.seen
  BY DEF Entry

LEMMA IdleWriterIsWriter == IdleWriter \in Writer /\ Blank \in Entry
  <1>1. BlankPayload \in Payload
    BY BoundsAssumption DEF BlankPayload, Payload, AnyUser, Times
  <1>2. Blank \in Entry
    BY <1>1, BoundsAssumption DEF Blank, Entry, AnyUser, Times
  <1>3. QED
    BY <1>2 DEF IdleWriter, Writer, Stages

(* Building the object: only the writer's own state changes. *)
LEMMA StampInvariant ==
  ASSUME IInv, NEW w \in Writers, Stamp(w)
  PROVE  IInv'
  <1>1. PICK u \in AnyUser :
          writer' = [writer EXCEPT ![w] =
            [stage |-> "stamped",
             row |-> [Blank EXCEPT !.user = u, !.until = clock + Retention,
                        !.signed = [user |-> u, stamp |-> clock, time |-> "int"]]]]
    BY DEF Stamp
  <1>2. UNCHANGED <<clock, logs, entry, nextId, deleted>>
    BY DEF Stamp
  <1>3. clock + Retention \in Nat /\ clock \in Times /\ nextId \in Nat \ {0}
    BY BoundsAssumption, Facts DEF IInv, TypeOK, Times
  <1>4. [Blank EXCEPT !.user = u, !.until = clock + Retention,
           !.signed = [user |-> u, stamp |-> clock, time |-> "int"]] \in Entry
    <2>1. [user |-> u, stamp |-> clock, time |-> "int"] \in Payload
      BY <1>3 DEF Payload
    <2>2. Blank \in Entry
      BY IdleWriterIsWriter
    <2>3. ASSUME NEW r \in Entry, NEW t \in Nat, NEW c \in Payload
          PROVE  [r EXCEPT !.user = u, !.until = t, !.signed = c] \in Entry
      BY <2>3 DEF Entry
    <2>4. QED
      BY <1>3, <2>1, <2>2, <2>3
  <1>5. TypeOK'
    BY <1>1, <1>2, <1>4 DEF IInv, TypeOK, Writer, Stages
  <1>6. RowsFollow' /\ ForkOnlyByOverlap'
    BY <1>2 DEF IInv, RowsFollow, After, ForkOnlyByOverlap
  <1>7. WritersFollow'
    <2>1. /\ writer'[w].stage = "stamped" /\ writer'[w].row.seen = 1
          /\ \A v \in Writers \ {w} : writer'[v] = writer[v]
      BY <1>1 DEF IInv, TypeOK, Blank
    <2>2. QED
      BY <1>2, <1>3, <2>1 DEF IInv, WritersFollow, After
  <1>8. QED
    BY <1>5, <1>6, <1>7 DEF IInv

(* Looking up the latest row: no row in the table has the same predecessor *)
(* as an object linked now.                                                *)
LEMMA LinkInvariant ==
  ASSUME IInv, NEW w \in Writers, Link(w)
  PROVE  IInv'
  <1>1. PICK p \in IF logs = {} THEN {0} ELSE Latest :
          writer' = [writer EXCEPT ![w] =
            [stage |-> "linked",
             row |-> [writer[w].row EXCEPT !.prev = p, !.seen = nextId]]]
    BY DEF Link
  <1>2. UNCHANGED <<clock, logs, entry, nextId, deleted>>
    BY DEF Link
  <1>3. /\ p \in 0..MaxRows
        /\ p # 0 => p \in logs /\ \A j \in logs : NotAfter(j, p)
        /\ p = 0 => logs = {}
    BY <1>1, Facts, BoundsAssumption DEF Latest, IInv, TypeOK, Ids
  <1> DEFINE r == [writer[w].row EXCEPT !.prev = p, !.seen = nextId]
  <1>4. r \in Entry /\ r.prev = p /\ r.seen = nextId
    <2>1. writer[w].row \in Entry
      BY Facts DEF IInv
    <2>2. nextId \in 1..MaxRows + 1
      BY DEF IInv, TypeOK
    <2>3. ASSUME NEW x \in Entry, NEW m \in 1..MaxRows + 1
          PROVE  LET y == [x EXCEPT !.prev = p, !.seen = m]
                 IN  y \in Entry /\ y.prev = p /\ y.seen = m
      <3>1. p \in 0..MaxRows
        BY <1>3
      <3>2. QED
        BY <3>1 DEF Entry
    <2>4. QED
      BY <2>1, <2>2, <2>3
  <1> HIDE DEF r
  <1>5. /\ writer'[w] = [stage |-> "linked", row |-> r]
        /\ writer'[w] \in Writer
        /\ \A v \in Writers \ {w} : writer'[v] = writer[v]
    BY <1>1, <1>4 DEF IInv, TypeOK, Writer, Stages, r
  <1>6. TypeOK'
    BY <1>1, <1>2, <1>5 DEF IInv, TypeOK
  <1>7. RowsFollow' /\ ForkOnlyByOverlap'
    BY <1>2 DEF IInv, RowsFollow, After, ForkOnlyByOverlap
  <1>8. After(r, nextId, clock)
    <2>1. ASSUME p # 0
          PROVE  p < nextId /\ entry[p].stamp <= clock
      <3>1. p \in Ids /\ p < nextId
        BY <1>3, <2>1, Facts DEF IInv
      <3>2. QED
        BY <3>1 DEF IInv, RowsFollow
    <2>2. QED
      BY <1>4, <2>1 DEF After
  <1>9. \A a \in logs : entry[a].prev # p
    <2>1. SUFFICES ASSUME NEW a \in logs, entry[a].prev = p
                   PROVE  FALSE
      OBVIOUS
    <2>2. /\ p \in logs /\ p # 0 /\ NotAfter(a, p)
          /\ a \in Ids /\ p \in Ids
      BY <1>3, <2>1, Facts DEF IInv, TypeOK
    <2>3. p < a /\ entry[p].stamp <= entry[a].stamp
      BY <2>1, <2>2 DEF IInv, RowsFollow, After
    <2>4. entry[p].stamp \in Nat /\ entry[a].stamp \in Nat /\ p \in Nat /\ a \in Nat
      BY <2>2, Facts DEF IInv, Ids
    <2>5. QED
      BY <2>2, <2>3, <2>4 DEF NotAfter
  <1>10. WritersFollow'
    BY <1>2, <1>4, <1>5, <1>8, <1>9, Facts DEF IInv, WritersFollow, After
  <1>11. QED
    BY <1>6, <1>7, <1>10 DEF IInv

(* The second clock reading. *)
LEMMA PreSaveInvariant ==
  ASSUME IInv, NEW w \in Writers, PreSave(w)
  PROVE  IInv'
  <1>1. /\ writer' = [writer EXCEPT ![w] =
             [stage |-> "ready", row |-> [writer[w].row EXCEPT !.stamp = clock]]]
        /\ writer[w].stage = "linked"
        /\ UNCHANGED <<clock, logs, entry, nextId, deleted>>
    BY DEF PreSave
  <1> DEFINE r == [writer[w].row EXCEPT !.stamp = clock]
  <1>2. /\ r \in Entry /\ r.stamp = clock
        /\ r.prev = writer[w].row.prev /\ r.seen = writer[w].row.seen
    <2>1. writer[w].row \in Entry /\ clock \in Times
      BY Facts DEF IInv, TypeOK
    <2>2. QED
      BY <2>1, StampedIsEntry
  <1> HIDE DEF r
  <1>3. /\ writer'[w] = [stage |-> "ready", row |-> r]
        /\ writer'[w] \in Writer
        /\ \A v \in Writers \ {w} : writer'[v] = writer[v]
    BY <1>1, <1>2 DEF IInv, TypeOK, Writer, Stages, r
  <1>4. TypeOK'
    BY <1>1, <1>3 DEF IInv, TypeOK
  <1>5. RowsFollow' /\ ForkOnlyByOverlap'
    BY <1>1 DEF IInv, RowsFollow, After, ForkOnlyByOverlap
  <1>6. WritersFollow'
    BY <1>1, <1>2, <1>3, Facts DEF IInv, WritersFollow, After
  <1>7. QED
    BY <1>4, <1>5, <1>6 DEF IInv

(* Writing the row of a fresh id hides no predecessor of an older row.     *)
LEMMA AfterSurvives ==
  ASSUME NEW x \in Entry, NEW n \in Ids, NEW m \in Nat, NEW t, m <= n,
         After(x, m, t), \A i \in Ids \ {n} : entry'[i] = entry[i]
  PROVE  x.prev # 0 => x.prev < m /\ entry'[x.prev].stamp <= t
  <1>1. SUFFICES ASSUME x.prev # 0
                 PROVE  x.prev < m /\ entry'[x.prev].stamp <= t
    OBVIOUS
  <1>2. x.prev \in 0..MaxRows /\ x.prev < m /\ entry[x.prev].stamp <= t
    BY <1>1 DEF After, Entry
  <1>3. x.prev \in Ids \ {n}
    BY <1>1, <1>2, BoundsAssumption DEF Ids
  <1>4. QED
    BY <1>2, <1>3

(* The INSERT: the new row follows its predecessor, and rows that share it *)
(* were not yet there when it was looked up.                               *)
LEMMA InsertInvariant ==
  ASSUME IInv, NEW w \in Writers, Insert(w)
  PROVE  IInv'
  <1>0. PICK n \in Ids : n = nextId
    BY BoundsAssumption DEF Insert, IInv, TypeOK, Ids
  <1>1. /\ writer[w].stage = "ready" /\ nextId <= MaxRows
        /\ writer' = [writer EXCEPT ![w] = IdleWriter]
        /\ nextId' = nextId + 1 /\ clock' = clock /\ deleted' = deleted
    BY DEF Insert
  <1>2. /\ n = nextId /\ nextId' = n + 1 /\ n \in Nat
        /\ nextId' \in 1..MaxRows + 1
    BY <1>0, <1>1, BoundsAssumption DEF Ids
  <1>3. /\ writer'[w].stage = "idle" /\ writer'[w].row.seen = 1
        /\ writer' \in [Writers -> Writer]
        /\ \A v \in Writers \ {w} : writer'[v] = writer[v]
    BY <1>1, IdleWriterIsWriter DEF IInv, TypeOK, IdleWriter, Blank
  <1>4. CASE writer[w].row.user \in deleted
    <2>1. UNCHANGED <<logs, entry>>
      BY <1>4 DEF Insert
    <2>2. TypeOK'
      BY <1>1, <1>2, <1>3, <2>1 DEF IInv, TypeOK
    <2>3. RowsFollow'
      <3>1. SUFFICES ASSUME NEW i \in Ids
                     PROVE  /\ entry[i].stamp <= clock
                            /\ After(entry[i], i, entry[i].stamp)
                            /\ i >= n + 1 => entry[i].prev = 0
        BY <1>1, <1>2, <2>1 DEF RowsFollow, After
      <3>2. i \in Nat /\ (i >= n => entry[i].prev = 0)
        BY <1>2, Facts DEF IInv, RowsFollow
      <3>3. QED
        BY <1>2, <3>1, <3>2 DEF IInv, RowsFollow
    <2>4. ForkOnlyByOverlap'
      BY <2>1 DEF IInv, ForkOnlyByOverlap
    <2>5. WritersFollow'
      BY <1>1, <1>2, <1>3, <2>1, Facts DEF IInv, WritersFollow, After
    <2>6. QED
      BY <2>2, <2>3, <2>4, <2>5 DEF IInv
  <1>5. CASE writer[w].row.user \notin deleted
    <2>0. PICK r \in Entry : r = writer[w].row
      BY Facts DEF IInv
    <2>1. /\ logs' = logs \cup {n}
          /\ entry' = [entry EXCEPT ![n] = r]
      BY <1>2, <1>5, <2>0 DEF Insert
    <2>2. /\ r.stamp <= clock /\ After(r, n, r.stamp)
          /\ r.seen <= n
          /\ \A a \in logs : entry[a].prev = r.prev => r.seen <= a
      BY <1>1, <1>2, <2>0 DEF IInv, WritersFollow
    <2>3. /\ entry'[n] = r
          /\ \A i \in Ids \ {n} : entry'[i] = entry[i]
      BY <2>1 DEF IInv, TypeOK
    <2>4. TypeOK'
      BY <1>1, <1>2, <1>3, <2>1 DEF IInv, TypeOK
    <2>5. RowsFollow'
      <3>1. SUFFICES ASSUME NEW i \in Ids
                     PROVE  /\ entry'[i].stamp <= clock
                            /\ entry'[i].prev # 0 =>
                                 /\ entry'[i].prev < i
                                 /\ entry'[entry'[i].prev].stamp <= entry'[i].stamp
                            /\ i >= n + 1 => entry'[i].prev = 0
        BY <1>1, <1>2 DEF RowsFollow, After
      <3>2. i \in Nat /\ entry[i] \in Entry
        BY Facts DEF IInv
      <3>3. CASE i = n
        BY <1>2, <2>2, <2>3, <3>2, <3>3, AfterSurvives
      <3>4. CASE i < n
        <4>1. entry'[i] = entry[i] /\ After(entry[i], i, entry[i].stamp)
          BY <1>2, <2>3, <3>2, <3>4 DEF IInv, RowsFollow
        <4>2. entry[i].stamp <= clock
          BY DEF IInv, RowsFollow
        <4>3. QED
          BY <1>2, <2>3, <3>2, <3>4, <4>1, <4>2, AfterSurvives
      <3>5. CASE i > n
        <4>1. entry'[i] = entry[i] /\ entry[i].prev = 0 /\ entry[i].stamp <= clock
          BY <1>2, <2>3, <3>2, <3>5 DEF IInv, RowsFollow
        <4>2. QED
          BY <4>1
      <3>6. QED
        BY <1>2, <3>2, <3>3, <3>4, <3>5
    <2>6. ForkOnlyByOverlap'
      <3>1. SUFFICES ASSUME NEW a \in logs', NEW b \in logs', a < b,
                            entry'[a].prev = entry'[b].prev
                     PROVE  entry'[b].seen <= a
        BY DEF ForkOnlyByOverlap
      <3>2. ASSUME NEW i \in logs
            PROVE  i \in Ids \ {n} /\ i < n /\ i \in Nat
        <4>1. i \in Ids /\ i < nextId /\ i \in Nat
          BY Facts DEF IInv
        <4>2. QED
          BY <1>2, <4>1
      <3>3. a \in logs /\ entry'[a] = entry[a]
        BY <1>2, <2>1, <2>3, <3>1, <3>2
      <3>4. CASE b = n
        BY <2>2, <2>3, <3>1, <3>3, <3>4
      <3>5. CASE b # n
        <4>1. b \in logs /\ entry'[b] = entry[b]
          BY <2>1, <2>3, <3>2, <3>5
        <4>2. QED
          BY <3>1, <3>3, <4>1 DEF IInv, ForkOnlyByOverlap
      <3>6. QED
        BY <3>4, <3>5
    <2>7. WritersFollow'
      <3>1. ASSUME NEW x \in Entry, NEW t, After(x, n, t)
            PROVE  x.prev # 0 => x.prev < n + 1 /\ entry'[x.prev].stamp <= t
        <4>1. x.prev # 0 => x.prev < n /\ entry'[x.prev].stamp <= t
          BY <1>2, <2>3, <3>1, AfterSurvives
        <4>2. x.prev \in Int
          BY DEF Entry
        <4>3. QED
          BY <1>2, <4>1, <4>2
      <3>2. SUFFICES ASSUME NEW v \in Writers \ {w}, NEW y \in Writer, y = writer[v]
                     PROVE  /\ y.row.seen <= n + 1
                            /\ y.stage = "linked" =>
                                 (y.row.prev # 0 => /\ y.row.prev < n + 1
                                                    /\ entry'[y.row.prev].stamp <= clock)
                            /\ y.stage = "ready" =>
                                 /\ y.row.stamp <= clock
                                 /\ y.row.prev # 0 => /\ y.row.prev < n + 1
                                                      /\ entry'[y.row.prev].stamp <= y.row.stamp
                            /\ y.stage \in {"linked", "ready"} =>
                                 \A a \in logs' : entry'[a].prev = y.row.prev
                                                   => y.row.seen <= a
        <4>1. 1 <= n + 1 /\ \A v \in Writers : writer[v] \in Writer
          BY <1>2, Facts DEF IInv
        <4>2. QED
          BY <1>1, <1>2, <1>3, <3>2, <4>1 DEF WritersFollow, After
      <3>3. y.row \in Entry /\ y.row.seen \in Nat
        BY <3>2, Facts DEF IInv
      <3>4. /\ y.row.seen <= n
            /\ y.stage = "linked" => After(y.row, n, clock)
            /\ y.stage = "ready" => y.row.stamp <= clock /\ After(y.row, n, y.row.stamp)
            /\ y.stage \in {"linked", "ready"} =>
                 \A a \in logs : entry[a].prev = y.row.prev => y.row.seen <= a
        BY <1>2, <3>2 DEF IInv, WritersFollow
      <3>5. ASSUME NEW a \in logs
            PROVE  entry'[a] = entry[a]
        <4>1. a \in Ids /\ a < nextId /\ a \in Nat
          BY Facts DEF IInv
        <4>2. QED
          BY <1>2, <2>3, <4>1
      <3>6. y.row.seen <= n + 1
        BY <1>2, <3>3, <3>4
      <3>7. y.stage \in {"linked", "ready"} =>
              \A a \in logs' : entry'[a].prev = y.row.prev => y.row.seen <= a
        BY <2>1, <3>4, <3>5
      <3>8. QED
        BY <3>1, <3>3, <3>4, <3>6, <3>7
    <2>8. QED
      BY <2>4, <2>5, <2>6, <2>7 DEF IInv
  <1>6. QED
    BY <1>4, <1>5

(* An abandoned save leaves an idle writer. *)
LEMMA AbandonInvariant ==
  ASSUME IInv, NEW w \in Writers, Abandon(w)
  PROVE  IInv'
  <1>1. /\ writer' = [writer EXCEPT ![w] = IdleWriter]
        /\ UNCHANGED <<clock, logs, entry, nextId, deleted>>
    BY DEF Abandon
  <1>2. /\ writer'[w].stage = "idle" /\ writer'[w].row.seen = 1
        /\ writer' \in [Writers -> Writer]
        /\ \A v \in Writers \ {w} : writer'[v] = writer[v]
    BY <1>1, IdleWriterIsWriter DEF IInv, TypeOK, IdleWriter, Blank
  <1>3. TypeOK' /\ RowsFollow' /\ ForkOnlyByOverlap'
    BY <1>1, <1>2 DEF IInv, TypeOK, RowsFollow, After, ForkOnlyByOverlap
  <1>4. 1 <= nextId
    BY Facts DEF IInv
  <1>5. WritersFollow'
    BY <1>1, <1>2, <1>4 DEF IInv, WritersFollow, After
  <1>6. QED
    BY <1>3, <1>5 DEF IInv

(* Purging rows leaves the others, and the ids, as they are. *)
LEMMA PurgeInvariant ==
  ASSUME IInv, Purge
  PROVE  IInv'
  <1>1. logs' \subseteq logs /\ UNCHANGED <<clock, entry, nextId, writer, deleted>>
    BY DEF Purge
  <1>2. TypeOK'
    BY <1>1 DEF IInv, TypeOK
  <1>3. RowsFollow' /\ ForkOnlyByOverlap'
    BY <1>1 DEF IInv, RowsFollow, After, ForkOnlyByOverlap
  <1>4. WritersFollow'
    BY <1>1 DEF IInv, WritersFollow, After
  <1>5. QED
    BY <1>2, <1>3, <1>4 DEF IInv

(* SET_NULL changes no stamp and no link. *)
LEMMA DeleteUserInvariant ==
  ASSUME IInv, NEW u \in Users, DeleteUser(u)
  PROVE  IInv'
  <1>1. /\ deleted' = deleted \cup {u}
        /\ UNCHANGED <<clock, logs, nextId, writer>>
    BY DEF DeleteUser
  <1>2. ASSUME NEW i \in Ids
        PROVE  /\ entry'[i] \in Entry
               /\ entry'[i].stamp = entry[i].stamp
               /\ entry'[i].prev = entry[i].prev
               /\ entry'[i].seen = entry[i].seen
    <2>1. entry[i] \in Entry
      BY DEF IInv, TypeOK
    <2>2. entry'[i] = entry[i] \/ entry'[i] = [entry[i] EXCEPT !.user = Nobody]
      BY DEF DeleteUser
    <2>3. QED
      BY <2>1, <2>2 DEF Entry, AnyUser
  <1>3. TypeOK'
    <2>1. entry' \in [Ids -> Entry]
      <3>1. entry' = [i \in Ids |-> entry'[i]]
        BY DEF DeleteUser
      <3>2. QED
        BY <1>2, <3>1
    <2>2. QED
      BY <1>1, <2>1 DEF IInv, TypeOK
  <1>4. ASSUME NEW p \in 0..MaxRows, p # 0
        PROVE  entry'[p].stamp = entry[p].stamp
    <2>1. p \in Ids
      BY <1>4, BoundsAssumption DEF Ids
    <2>2. QED
      BY <1>2, <2>1
  <1>5. ASSUME NEW x, NEW y, NEW m, NEW t, x.prev \in 0..MaxRows, After(x, m, t),
               y.prev = x.prev
        PROVE  y.prev # 0 => y.prev < m /\ entry'[y.prev].stamp <= t
    BY <1>4, <1>5 DEF After
  <1>6. RowsFollow'
    <2>1. SUFFICES ASSUME NEW i \in Ids
                   PROVE  /\ entry'[i].stamp <= clock
                          /\ entry'[i].prev # 0 =>
                               /\ entry'[i].prev < i
                               /\ entry'[entry'[i].prev].stamp <= entry'[i].stamp
                          /\ i >= nextId => entry'[i].prev = 0
      BY <1>1 DEF RowsFollow, After
    <2>2. entry[i].prev \in 0..MaxRows
      BY DEF IInv, TypeOK, Entry
    <2>3. QED
      BY <1>2, <1>5, <2>2 DEF IInv, RowsFollow
  <1>7. ForkOnlyByOverlap'
    <2>1. \A i \in logs : i \in Ids
      BY Facts DEF IInv
    <2>2. QED
      BY <1>1, <1>2, <2>1 DEF IInv, ForkOnlyByOverlap
  <1>8. WritersFollow'
    <2>1. SUFFICES ASSUME NEW v \in Writers, NEW y \in Writer, y = writer[v]
                   PROVE  /\ y.row.seen <= nextId
                          /\ y.stage = "linked" =>
                               (y.row.prev # 0 => /\ y.row.prev < nextId
                                                  /\ entry'[y.row.prev].stamp <= clock)
                          /\ y.stage = "ready" =>
                               /\ y.row.stamp <= clock
                               /\ y.row.prev # 0 => /\ y.row.prev < nextId
                                                    /\ entry'[y.row.prev].stamp <= y.row.stamp
                          /\ y.stage \in {"linked", "ready"} =>
                               \A a \in logs : entry'[a].prev = y.row.prev
                                                => y.row.seen <= a
      <3>1. \A v \in Writers : writer[v] \in Writer
        BY Facts DEF IInv
      <3>2. QED
        BY <1>1, <2>1, <3>1 DEF WritersFollow, After
    <2>2. y.row.prev \in 0..MaxRows
      BY DEF Writer, Entry
    <2>3. \A a \in logs : entry'[a].prev = entry[a].prev
      BY <1>2, Facts DEF IInv
    <2>4. QED
      BY <1>5, <2>1, <2>2, <2>3 DEF IInv, WritersFollow
  <1>9. QED
    BY <1>3, <1>6, <1>7, <1>8 DEF IInv

(* Time moves forward. *)
LEMMA TickInvariant ==
  ASSUME IInv, Tick
  PROVE  IInv'
  <1>1. /\ clock' \in Times /\ clock' \in Nat /\ clock \in Nat /\ clock <= clock'
        /\ UNCHANGED <<logs, entry, nextId, writer, deleted>>
    BY BoundsAssumption DEF Tick, IInv, TypeOK, Times
  <1>2. TypeOK' /\ ForkOnlyByOverlap'
    BY <1>1 DEF IInv, TypeOK, ForkOnlyByOverlap
  <1>3. RowsFollow'
    BY <1>1, Facts DEF IInv, RowsFollow, After
  <1>4. ASSUME NEW p \in 0..MaxRows, p # 0, entry[p].stamp <= clock
        PROVE  entry[p].stamp <= clock'
    <2>1. entry[p].stamp \in Nat
      BY <1>4, Facts, BoundsAssumption DEF IInv, Ids
    <2>2. QED
      BY <1>1, <1>4, <2>1
  <1>5. WritersFollow'
    BY <1>1, <1>4, Facts DEF IInv, WritersFollow, After
  <1>6. QED
    BY <1>2, <1>3, <1>5 DEF IInv

(* Every step preserves the inductive invariant. *)
LEMMA NextInvariant == IInv /\ [Next]_vars => IInv'
  <1>1. SUFFICES ASSUME IInv, [Next]_vars
                 PROVE  IInv'
    OBVIOUS
  <1>2. ASSUME NEW w \in Writers, Save(w)
        PROVE  IInv'
    BY <1>1, <1>2, StampInvariant, LinkInvariant, PreSaveInvariant,
       InsertInvariant, AbandonInvariant DEF Save
  <1>3. CASE UNCHANGED vars
    BY <1>1, <1>3
    DEF vars, IInv, TypeOK, RowsFollow, WritersFollow, After, ForkOnlyByOverlap
  <1>4. QED
    BY <1>1, <1>2, <1>3, PurgeInvariant, DeleteUserInvariant, TickInvariant DEF Next

(* The inductive invariant holds in every reachable state of the log. *)
THEOREM InductiveInvariant == Spec => []IInv
  BY InitInvariant, NextInvariant, PTL DEF Spec

(* Type correctness of the table and of the objects being saved. *)
THEOREM TypeCorrect == Spec => []TypeOK
  <1>1. IInv => TypeOK
    BY DEF IInv
  <1>2. QED
    BY <1>1, InductiveInvariant, PTL

(* For any number of concurrent requests: two entries share a predecessor  *)
(* only if their saves overlapped.                                         *)
THEOREM ForksAreRaces == Spec => []ForkOnlyByOverlap
  <1>1. IInv => ForkOnlyByOverlap
    BY DEF IInv
  <1>2. QED
    BY <1>1, InductiveInvariant, PTL

-----------------------------------------------------------------------------
(* Serial saves.  What is inserted beneath nothing is in the order of its    *)
(* stamps, so that the latest row is the last one inserted; a purge takes    *)
(* the oldest rows, so that what is left of a serial log has no gaps.        *)

(* An object no row was inserted since it was linked. *)
UpToDate(x) == x.row.seen = nextId

InOrder ==
  /\ \A j \in Ids : j < nextId /\ entry[j].seen = j =>
       \A i \in Ids : i < j => entry[i].stamp <= entry[j].stamp
  /\ \A j \in Ids : j >= nextId => entry[j].seen = 1
  /\ \A w \in Writers : writer[w].stage = "ready" /\ UpToDate(writer[w]) =>
       \A i \in Ids : i < nextId => entry[i].stamp <= writer[w].row.stamp

Chained ==
  SavedSerially =>
    /\ \A i \in logs, j \in Ids : i <= j /\ j < nextId => j \in logs
    /\ \A j \in Ids : j < nextId /\ j - 1 \in logs => entry[j].prev = j - 1
    /\ \A w \in Writers :
         (/\ writer[w].stage \in {"linked", "ready"} /\ UpToDate(writer[w])
          /\ nextId - 1 \in logs)
         => writer[w].row.prev = nextId - 1

ChainInv == IInv /\ InOrder /\ Chained

(* An id below the next is an id. *)
LEMMA IdsBelow ==
  ASSUME TypeOK
  PROVE  /\ nextId \in 1..MaxRows + 1
         /\ \A j \in Ids : j \in Nat \ {0}
         /\ \A j \in Nat \ {0} : j < nextId => j \in Ids
         /\ \A j \in 1..nextId - 1 : j \in Ids
         /\ \A j \in logs : j \in Ids /\ j < nextId
  BY BoundsAssumption DEF TypeOK, Ids

(* What the order of two rows in a serial log is. *)
LEMMA SerialOrder ==
  ASSUME TypeOK, InOrder, SavedSerially, NEW i \in Ids, NEW j \in Ids, i < nextId, j < nextId
  PROVE  /\ NotAfter(i, j) <=> i <= j
         /\ entry[j].seen = j
         /\ i <= j => entry[i].until <= entry[j].until
  <1>1. i \in Nat \ {0} /\ j \in Nat \ {0} /\ nextId \in Nat /\ i \in 1..nextId - 1 /\ j \in 1..nextId - 1
    BY IdsBelow, BoundsAssumption
  <1>2. entry[i].seen = i /\ entry[j].seen = j
    BY <1>1 DEF SavedSerially
  <1>3. i <= j => entry[i].until <= entry[j].until
    BY <1>1 DEF SavedSerially
  <1>4. /\ i < j => entry[i].stamp <= entry[j].stamp
        /\ j < i => entry[j].stamp <= entry[i].stamp
    BY <1>2 DEF InOrder
  <1>5. entry[i].stamp \in Nat /\ entry[j].stamp \in Nat
    BY Facts
  <1>6. QED
    BY <1>1, <1>2, <1>3, <1>4, <1>5 DEF NotAfter

(* A step that changes one writer and nothing else. *)
LEMMA OneWriter ==
  ASSUME ChainInv, IInv', NEW w \in Writers, UNCHANGED <<clock, logs, entry, nextId>>,
         \A v \in Writers \ {w} : writer'[v] = writer[v],
         writer'[w].stage = "ready" /\ UpToDate(writer[w])' =>
           \A i \in Ids : i < nextId => entry[i].stamp <= writer'[w].row.stamp,
         (/\ SavedSerially /\ writer'[w].stage \in {"linked", "ready"} /\ UpToDate(writer[w])'
          /\ nextId - 1 \in logs)
         => writer'[w].row.prev = nextId - 1
  PROVE  ChainInv'
  <1>1. InOrder'
    BY DEF ChainInv, InOrder, UpToDate
  <1>2. SavedSerially' <=> SavedSerially
    BY DEF SavedSerially
  <1>3. Chained'
    BY <1>2 DEF ChainInv, Chained, UpToDate
  <1>4. QED
    BY <1>1, <1>3 DEF ChainInv

LEMMA ChainInitially == Init => ChainInv
  <1>1. SUFFICES ASSUME Init
                 PROVE  ChainInv
    OBVIOUS
  <1>2. IInv
    BY <1>1, InitInvariant
  <1>3. nextId = 1 /\ logs = {} /\ (\A i \in Ids : entry[i].seen = 1)
        /\ \A w \in Writers : writer[w].stage = "idle"
    BY <1>1 DEF Init, IdleWriter, Blank
  <1>4. \A i \in Ids : i \in Nat \ {0}
    BY <1>2, Facts DEF IInv
  <1>5. InOrder
    BY <1>3, <1>4 DEF InOrder
  <1>6. Chained
    BY <1>3, <1>4 DEF Chained
  <1>7. QED
    BY <1>2, <1>5, <1>6 DEF ChainInv

LEMMA ChainStamp ==
  ASSUME ChainInv, NEW w \in Writers, Stamp(w)
  PROVE  ChainInv'
  <1>1. IInv /\ IInv'
    BY StampInvariant DEF ChainInv
  <1>2. UNCHANGED <<clock, logs, entry, nextId>> /\ (\A v \in Writers \ {w} : writer'[v] = writer[v])
        /\ writer'[w].stage = "stamped"
    BY <1>1 DEF Stamp, IInv, TypeOK
  <1>3. QED
    BY <1>1, <1>2, OneWriter

LEMMA ChainAbandon ==
  ASSUME ChainInv, NEW w \in Writers, Abandon(w)
  PROVE  ChainInv'
  <1>1. IInv /\ IInv'
    BY AbandonInvariant DEF ChainInv
  <1>2. UNCHANGED <<clock, logs, entry, nextId>> /\ (\A v \in Writers \ {w} : writer'[v] = writer[v])
        /\ writer'[w].stage = "idle"
    BY <1>1 DEF Abandon, IInv, TypeOK, IdleWriter
  <1>3. QED
    BY <1>1, <1>2, OneWriter

(* The latest row of a serial log is the last one inserted. *)
LEMMA ChainLink ==
  ASSUME ChainInv, NEW w \in Writers, Link(w)
  PROVE  ChainInv'
  <1>1. IInv /\ IInv' /\ TypeOK /\ InOrder
    BY LinkInvariant DEF ChainInv, IInv
  <1>2. PICK p \in IF logs = {} THEN {0} ELSE Latest :
          writer' = [writer EXCEPT ![w] =
            [stage |-> "linked",
             row |-> [writer[w].row EXCEPT !.prev = p, !.seen = nextId]]]
    BY DEF Link
  <1>3. UNCHANGED <<clock, logs, entry, nextId>>
    BY DEF Link
  <1>4. writer[w].row \in Entry
    BY <1>1, Facts
  <1>5. /\ \A v \in Writers \ {w} : writer'[v] = writer[v]
        /\ writer'[w].stage = "linked" /\ writer'[w].row.prev = p
    BY <1>1, <1>2, <1>4 DEF TypeOK, Entry
  <1>6. ASSUME SavedSerially, nextId - 1 \in logs
        PROVE  p = nextId - 1
    <2>1. p \in logs /\ \A j \in logs : NotAfter(j, p)
      BY <1>2, <1>6 DEF Latest
    <2>2. p \in Ids /\ p < nextId /\ p \in Nat /\ nextId - 1 \in Ids /\ nextId - 1 < nextId /\ nextId \in Nat
      BY <1>1, <1>6, <2>1, Facts
    <2>3. NotAfter(nextId - 1, p)
      BY <1>6, <2>1
    <2>4. nextId - 1 <= p
      BY <1>1, <1>6, <2>2, <2>3, SerialOrder
    <2>5. QED
      BY <2>2, <2>4
  <1>7. QED
    BY <1>1, <1>3, <1>5, <1>6, OneWriter

LEMMA ChainPreSave ==
  ASSUME ChainInv, NEW w \in Writers, PreSave(w)
  PROVE  ChainInv'
  <1>1. IInv /\ IInv' /\ TypeOK /\ RowsFollow
    BY PreSaveInvariant DEF ChainInv, IInv
  <1>2. /\ writer' = [writer EXCEPT ![w] =
             [stage |-> "ready", row |-> [writer[w].row EXCEPT !.stamp = clock]]]
        /\ writer[w].stage = "linked" /\ UNCHANGED <<clock, logs, entry, nextId>>
    BY DEF PreSave
  <1>3. writer[w].row \in Entry /\ clock \in Times
    BY <1>1, Facts DEF TypeOK
  <1>4. /\ \A v \in Writers \ {w} : writer'[v] = writer[v]
        /\ writer'[w].stage = "ready" /\ writer'[w].row = [writer[w].row EXCEPT !.stamp = clock]
    BY <1>1, <1>2 DEF TypeOK
  <1>5. /\ writer'[w].row.stamp = clock
        /\ writer'[w].row.prev = writer[w].row.prev /\ writer'[w].row.seen = writer[w].row.seen
    BY <1>3, <1>4, StampedIsEntry
  <1>6. \A i \in Ids : entry[i].stamp <= clock
    BY <1>1 DEF RowsFollow
  <1>7. UpToDate(writer[w])' => UpToDate(writer[w])
    BY <1>2, <1>5 DEF UpToDate
  <1>8. SavedSerially /\ UpToDate(writer[w])' /\ nextId - 1 \in logs => writer'[w].row.prev = nextId - 1
    BY <1>2, <1>5, <1>7 DEF ChainInv, Chained
  <1>9. QED
    BY <1>1, <1>2, <1>4, <1>5, <1>6, <1>8, OneWriter

(* Rows of which only the user may have changed, beneath the same next id. *)
LEMMA SameLinks ==
  ASSUME ChainInv, IInv', UNCHANGED <<logs, nextId, writer>>,
         \A i \in Ids : /\ entry'[i].seen = entry[i].seen /\ entry'[i].stamp = entry[i].stamp
                        /\ entry'[i].prev = entry[i].prev /\ entry'[i].until = entry[i].until
  PROVE  ChainInv'
  <1>1. TypeOK
    BY DEF ChainInv, IInv
  <1>2. InOrder'
    BY DEF ChainInv, InOrder, UpToDate
  <1>3. \A i \in 1..nextId - 1 : i \in Ids /\ \A j \in 1..i : j \in Ids
    BY <1>1, IdsBelow
  <1>4. SavedSerially' => SavedSerially
    BY <1>3 DEF SavedSerially
  <1>5. Chained'
    BY <1>4 DEF ChainInv, Chained, UpToDate
  <1>6. QED
    BY <1>2, <1>5 DEF ChainInv

LEMMA ChainDeleteUser ==
  ASSUME ChainInv, NEW u \in Users, DeleteUser(u)
  PROVE  ChainInv'
  <1>1. IInv /\ IInv' /\ UNCHANGED <<logs, nextId, writer>>
    BY DeleteUserInvariant DEF ChainInv, DeleteUser
  <1>2. ASSUME NEW i \in Ids
        PROVE  /\ entry'[i].seen = entry[i].seen /\ entry'[i].stamp = entry[i].stamp
               /\ entry'[i].prev = entry[i].prev /\ entry'[i].until = entry[i].until
    <2>1. entry[i] \in Entry
      BY <1>1 DEF IInv, TypeOK
    <2>2. entry'[i] = entry[i] \/ entry'[i] = [entry[i] EXCEPT !.user = Nobody]
      BY DEF DeleteUser
    <2>3. QED
      BY <2>1, <2>2 DEF Entry
  <1>3. QED
    BY <1>1, <1>2, SameLinks

LEMMA ChainTick ==
  ASSUME ChainInv, Tick
  PROVE  ChainInv'
  <1>1. IInv' /\ UNCHANGED <<logs, entry, nextId, writer>>
    BY TickInvariant DEF ChainInv, Tick
  <1>2. QED
    BY <1>1, SameLinks

(* Of a serial log a purge takes the first rows. *)
LEMMA ChainPurge ==
  ASSUME ChainInv, Purge
  PROVE  ChainInv'
  <1>1. IInv /\ IInv' /\ TypeOK /\ InOrder
    BY PurgeInvariant DEF ChainInv, IInv
  <1>2. logs' = logs \ Overdue /\ UNCHANGED <<clock, entry, nextId, writer>>
    BY DEF Purge
  <1>3. InOrder'
    BY <1>1, <1>2 DEF InOrder, UpToDate
  <1>4. SavedSerially' <=> SavedSerially
    BY <1>2 DEF SavedSerially
  <1>5. ASSUME SavedSerially, NEW i \in logs \ Overdue, NEW j \in Ids, i <= j, j < nextId
        PROVE  j \in logs \ Overdue
    <2>1. j \in logs
      BY <1>5 DEF ChainInv, Chained
    <2>2. i \in Ids /\ i < nextId /\ clock \in Nat /\ entry[i].until \in Nat /\ entry[j].until \in Nat
      BY <1>1, <1>5, Facts
    <2>3. entry[i].until <= entry[j].until /\ ~(entry[i].until < clock)
      BY <1>1, <1>5, <2>2, SerialOrder DEF Overdue
    <2>4. ~(entry[j].until < clock)
      BY <2>2, <2>3
    <2>5. QED
      BY <2>1, <2>4 DEF Overdue
  <1>6. Chained'
    BY <1>2, <1>4, <1>5 DEF ChainInv, Chained, UpToDate
  <1>7. QED
    BY <1>1, <1>3, <1>6 DEF ChainInv

(* The INSERT of an up-to-date object continues the chain; that of another   *)
(* ends the serial saves.                                                    *)
LEMMA ChainInsert ==
  ASSUME ChainInv, NEW w \in Writers, Insert(w)
  PROVE  ChainInv'
  <1>1. IInv /\ IInv' /\ TypeOK /\ InOrder /\ WritersFollow
    BY InsertInvariant DEF ChainInv, IInv
  <1> DEFINE r == writer[w].row
  <1>2. /\ writer[w].stage = "ready" /\ nextId <= MaxRows /\ nextId' = nextId + 1
        /\ writer' = [writer EXCEPT ![w] = IdleWriter]
        /\ \/ UNCHANGED <<logs, entry>>
           \/ logs' = logs \cup {nextId} /\ entry' = [entry EXCEPT ![nextId] = r]
    BY DEF Insert
  <1>3. /\ nextId \in Nat \ {0} /\ nextId \in Ids /\ \A j \in Ids : j \in Nat \ {0}
        /\ \A j \in logs : j \in Ids /\ j < nextId
    BY <1>1, <1>2, Facts, BoundsAssumption DEF Ids
  <1>4. /\ writer'[w].stage = "idle" /\ \A v \in Writers \ {w} : writer'[v] = writer[v]
    BY <1>1, <1>2 DEF TypeOK, IdleWriter
  <1>5. \A v \in Writers : writer[v].row.seen <= nextId /\ writer[v].row.seen \in Nat
    BY <1>1, Facts DEF WritersFollow
  <1>6. \A v \in Writers : writer'[v].stage # "idle" => writer'[v] = writer[v] /\ ~UpToDate(writer[v])'
    BY <1>2, <1>3, <1>4, <1>5 DEF UpToDate
  <1>7. /\ \A i \in Ids \ {nextId} : entry'[i] = entry[i]
        /\ entry'[nextId] = r \/ (entry' = entry /\ logs' = logs /\ entry'[nextId].seen = 1)
    BY <1>1, <1>2, <1>3 DEF TypeOK, InOrder
  <1>8. entry'[nextId].seen = nextId =>
          \A i \in Ids : i < nextId => entry'[i].stamp <= entry'[nextId].stamp
    <2>1. SUFFICES ASSUME entry'[nextId].seen = nextId, NEW i \in Ids, i < nextId
                   PROVE  entry'[i].stamp <= entry'[nextId].stamp
      OBVIOUS
    <2>2. CASE entry'[nextId] = r
      BY <1>1, <1>2, <1>3, <1>7, <2>1, <2>2 DEF InOrder, UpToDate
    <2>3. CASE entry'[nextId].seen = 1
      BY <1>3, <2>1, <2>3
    <2>4. QED
      BY <1>7, <2>2, <2>3
  <1>9. InOrder'
    <2>1. \A j \in Ids : j >= nextId' => entry'[j].seen = 1
      BY <1>1, <1>2, <1>3, <1>7 DEF InOrder
    <2>2. ASSUME NEW j \in Ids, j < nextId', entry'[j].seen = j, NEW i \in Ids, i < j
          PROVE  entry'[i].stamp <= entry'[j].stamp
      <3>1. CASE j = nextId
        BY <1>8, <2>2, <3>1
      <3>2. CASE j # nextId
        <4>1. j < nextId /\ i # nextId /\ i \in Nat /\ j \in Nat
          BY <1>2, <1>3, <2>2, <3>2
        <4>2. QED
          BY <1>1, <1>7, <2>2, <3>2, <4>1 DEF InOrder
      <3>3. QED
        BY <3>1, <3>2
    <2>3. QED
      BY <1>6, <2>1, <2>2 DEF InOrder
  <1>10. ASSUME SavedSerially'
         PROVE  SavedSerially /\ entry'[nextId].seen = nextId
    <2>1. \A i \in 1..nextId : /\ entry'[i].seen = i
                              /\ \A j \in 1..i : entry'[j].until <= entry'[i].until
      BY <1>2, <1>3, <1>10 DEF SavedSerially
    <2>2. \A i \in 1..nextId - 1 : i \in 1..nextId /\ i \in Ids \ {nextId}
                                 /\ \A j \in 1..i : j \in Ids \ {nextId}
      BY <1>2, <1>3, BoundsAssumption DEF Ids
    <2>3. SavedSerially
      BY <1>7, <2>1, <2>2 DEF SavedSerially
    <2>4. QED
      BY <1>3, <2>1, <2>3
  <1>11. ASSUME SavedSerially'
         PROVE  /\ \A i \in logs', j \in Ids : i <= j /\ j < nextId' => j \in logs'
                /\ \A j \in Ids : j < nextId' /\ j - 1 \in logs' => entry'[j].prev = j - 1
    <2>1. /\ \A i \in logs, j \in Ids : i <= j /\ j < nextId => j \in logs
          /\ \A j \in Ids : j < nextId /\ j - 1 \in logs => entry[j].prev = j - 1
          /\ UpToDate(writer[w]) /\ nextId - 1 \in logs => r.prev = nextId - 1
      BY <1>2, <1>10, <1>11 DEF ChainInv, Chained
    <2>2. CASE logs' = logs \cup {nextId} /\ entry' = [entry EXCEPT ![nextId] = r]
      <3>1. entry'[nextId] = r /\ r.seen = nextId
        BY <1>1, <1>3, <1>10, <1>11, <2>2 DEF TypeOK
      <3>2. ASSUME NEW i \in logs', NEW j \in Ids, i <= j, j < nextId'
            PROVE  j \in logs'
        <4>1. CASE j = nextId
          BY <2>2, <4>1
        <4>2. CASE j # nextId
          <5>1. j < nextId /\ i # nextId /\ i \in logs
            BY <1>2, <1>3, <2>2, <3>2, <4>2
          <5>2. QED
            BY <2>1, <2>2, <3>2, <5>1
        <4>3. QED
          BY <4>1, <4>2
      <3>3. ASSUME NEW j \in Ids, j < nextId', j - 1 \in logs'
            PROVE  entry'[j].prev = j - 1
        <4>1. j - 1 \in logs
          BY <1>2, <1>3, <2>2, <3>3
        <4>2. CASE j = nextId
          BY <2>1, <3>1, <4>1, <4>2 DEF UpToDate
        <4>3. CASE j # nextId
          <5>1. j < nextId
            <6>1. j \in Nat /\ nextId \in Nat /\ j < nextId + 1
              BY <1>2, <1>3, <3>3
            <6>2. QED
              BY <4>3, <6>1
          <5>2. QED
            BY <1>7, <2>1, <4>1, <4>3, <5>1
        <4>4. QED
          BY <4>2, <4>3
      <3>4. QED
        BY <3>2, <3>3
    <2>3. CASE UNCHANGED <<logs, entry>>
      <3>1. nextId = 1
        BY <1>1, <1>3, <1>10, <1>11, <2>3 DEF InOrder
      <3>2. ASSUME NEW i \in logs
            PROVE  FALSE
        <4>1. i \in Nat \ {0} /\ i < nextId
          BY <1>3
        <4>2. QED
          BY <3>1, <4>1
      <3>3. QED
        BY <2>3, <3>2
    <2>4. QED
      BY <1>2, <2>2, <2>3
  <1>12. Chained'
    BY <1>6, <1>11 DEF Chained
  <1>13. QED
    BY <1>1, <1>9, <1>12 DEF ChainInv

LEMMA ChainNext == ChainInv /\ [Next]_vars => ChainInv'
  <1>1. SUFFICES ASSUME ChainInv, [Next]_vars
                 PROVE  ChainInv'
    OBVIOUS
  <1>2. ASSUME NEW w \in Writers, Save(w)
        PROVE  ChainInv'
    BY <1>1, <1>2, ChainStamp, ChainLink, ChainPreSave, ChainInsert, ChainAbandon DEF Save
  <1>3. CASE UNCHANGED vars
    <2>1. IInv'
      BY <1>1, <1>3, NextInvariant DEF ChainInv
    <2>2. QED
      BY <1>1, <1>3, <2>1, SameLinks DEF vars
  <1>4. QED
    BY <1>1, <1>2, <1>3, ChainPurge, ChainDeleteUser, ChainTick DEF Next

(* While saves do not overlap, whatever is purged, abandoned or refused, the  *)
(* latest row is the last inserted and a purge takes the oldest.              *)
THEOREM SerialInductive == Spec => []ChainInv
  BY ChainInitially, ChainNext, PTL DEF Spec

(* The chain of serial saves is whole but for the first link, which may lead  *)
(* to a row that was purged: for any retention and any number of writers.     *)
THEOREM SerialSavesVerify == Spec => []SerialSavesChain
  <1>1. ASSUME ChainInv
        PROVE  SerialSavesChain
    <2>1. SUFFICES ASSUME SavedSerially
                   PROVE  /\ \A i, j \in logs : Precedes(i, j) => entry[j].prev = i
                          /\ \A i \in First : entry[i].prev \in {0} \cup ((1..i - 1) \ logs)
      BY DEF SerialSavesChain
    <2>2. IInv /\ TypeOK /\ InOrder /\ RowsFollow
      BY <1>1 DEF ChainInv, IInv
    <2>3. /\ \A i \in logs, j \in Ids : i <= j /\ j < nextId => j \in logs
          /\ \A j \in Ids : j < nextId /\ j - 1 \in logs => entry[j].prev = j - 1
      BY <1>1, <2>1 DEF ChainInv, Chained
    <2>4. \A i \in logs : i \in Ids /\ i < nextId /\ i \in Nat \ {0} /\ nextId \in Nat
      BY <2>2, Facts
    <2>5. \A i, j \in logs : NotAfter(i, j) <=> i <= j
      BY <2>1, <2>2, <2>4, SerialOrder
    <2>6. ASSUME NEW i \in logs, NEW j \in logs, Precedes(i, j)
          PROVE  entry[j].prev = i
      <3>1. i < j /\ \A k \in logs : k <= i \/ j <= k
        BY <2>4, <2>5, <2>6 DEF Precedes
      <3>2. j - 1 \in Ids /\ j - 1 < nextId /\ i <= j - 1
        BY <2>2, <2>4, <3>1, IdsBelow
      <3>3. j - 1 \in logs
        BY <2>3, <3>2
      <3>4. i = j - 1
        BY <2>4, <3>1, <3>2, <3>3
      <3>5. QED
        BY <2>3, <2>4, <3>4
    <2>7. ASSUME NEW i \in First
          PROVE  entry[i].prev \in {0} \cup ((1..i - 1) \ logs)
      <3>1. i \in logs /\ \A j \in logs : i <= j
        BY <2>5, <2>7 DEF First
      <3>2. entry[i].prev \in Nat /\ (entry[i].prev # 0 => entry[i].prev < i)
        BY <2>2, <2>4, <3>1, Facts DEF RowsFollow, After
      <3>3. QED
        BY <2>4, <3>1, <3>2
    <2>8. QED
      BY <2>6, <2>7
  <1>2. QED
    BY <1>1, SerialInductive, PTL
=============================================================================
