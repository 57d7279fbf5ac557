--------------------------- MODULE DogtagSyncProofs ---------------------------
(***************************************************************************)
(* Proofs about DogtagSync, for every set of entries and serials, every    *)
(* history of the directory, and every sequence of failovers, trimmed      *)
(* logs, faults and crashes.                                               *)
(***************************************************************************)
EXTENDS DogtagSync, FiniteSetTheorems, WellFoundedInduction, TLAPS

-----------------------------------------------------------------------------
(* The inductive invariant *)

\* The directory keeps the serial of an entry, and changes one entry at a time.
SerialsStay ==
  \A u \in Uuid : \A v, w \in 1..Now :
    history[v][u] # None /\ history[w][u] # None
      => history[v][u].serial = history[w][u].serial

OneAtATime ==
  \A w \in 1..Now : w + 1 <= Now =>
    \E u \in Uuid : \A x \in Uuid : x # u => history[w + 1][x] = history[w][x]

DirectoryInv ==
  /\ history \in Seq([Uuid -> Entry \cup {None}])
  /\ Now \in 1..MaxVersion
  /\ oldest \in 1..Now
  /\ plain \in BOOLEAN
  /\ faults \in 0..MaxFaults
  /\ SerialsStay
  /\ OneAtATime

\* The directory held entry u as the record says, at a version since `from`.
Was(r, u, from) == \E w \in from..Now : r = Held(history[w][u])

\* A checkpoint from whose cookie nothing is lost. After a full poll, which keys
\* records by serial, there is no cookie.
Resumable(c) ==
  c.cookie # None =>
    /\ c.cookie \in 1..Now
    /\ \A k \in Serial : c.records[k] = None
    /\ \A u \in Uuid : Was(c.records[u], u, c.cookie)

StoreInv ==
  /\ bound \in BOOLEAN
  /\ \A c \in {memory, visible, durable} : c \in Checkpoint /\ Resumable(c)

RefreshType ==
  /\ pc \in {"idle", "search", "stream", "poll", "save", "sync"}
  /\ staged \in Checkpoint
  /\ staged.cookie # None => staged.cookie \in 1..Now
  /\ present \subseteq Key
  /\ pending \subseteq Uuid
  /\ resume \in 1..MaxVersion \cup {None}
  /\ session \in 0..Now
  /\ deletes \in BOOLEAN
  /\ started \in 0..Now

\* Before the search there is nothing; a poll never learns of deletions.
Clean ==
  /\ pc \in {"idle", "search"} => present = {} /\ ~deletes
  /\ pc = "poll" => ~deletes

\* The refresh began before its search, and no message carries a later cookie.
Timed ==
  /\ pc # "idle" => started >= 1
  /\ pc \in {"stream", "poll"} => started <= session
  /\ pc = "stream" /\ staged.cookie # None => staged.cookie <= session

\* The record that the refresh will keep of a key.
Kept(k) == IF deletes \/ k \in present THEN staged.records[k] ELSE None

\* What has been streamed, or will not be, is as the directory was since the
\* search began; what is still to be streamed has not been touched.
StreamInv ==
  pc = "stream" =>
    /\ \A k \in Serial : staged.records[k] = None
    /\ \A u \in Uuid \ pending : Was(Kept(u), u, session)
    /\ \A u \in pending : u \notin present
    /\ resume # None =>
         /\ resume <= session
         /\ \A u \in pending :
              /\ Was(staged.records[u], u, resume)
              /\ deletes => Changed(u, resume)

\* What has been polled is an entry as the directory was since the poll began,
\* and an entry that was there then has been polled or has been removed.
PollInv ==
  pc = "poll" =>
    /\ \A k \in Key : staged.records[k] # None =>
         /\ k \in present
         /\ staged.records[k].serial = k
         /\ \E u \in Uuid : Was(staged.records[k], u, session)
    /\ \A u \in Uuid \ pending : history[session][u] # None =>
         \/ staged.records[history[session][u].serial] # None
         \/ Was(None, u, session)

SavedInv ==
  /\ pc \in {"search", "save", "sync"} => Resumable(staged)
  /\ SnapshotIsFresh

RefreshInv == RefreshType /\ Clean /\ Timed /\ StreamInv /\ PollInv /\ SavedInv

IndInv == DirectoryInv /\ StoreInv /\ RefreshInv

-----------------------------------------------------------------------------
(* Records *)

\* A record is kept for every entry, with its serial.
LEMMA HeldFacts ==
  ASSUME NEW e \in Entry \cup {None}
  PROVE  /\ Held(e) \in StoredRecord \cup {None}
         /\ Held(e) = None <=> e = None
         /\ e # None => /\ parse_cert_entry(e) \in StoredRecord
                        /\ parse_cert_entry(e).serial = e.serial
                        /\ parse_cert_entry(e) # None
                        /\ Held(e) = parse_cert_entry(e)
                        /\ e.serial \in Serial
<1>1. CASE e = None
  BY <1>1 DEF Held
<1>2. CASE e # None
  <2>1. e \in Entry /\ e.serial \in Serial
    BY <1>2 DEF Entry
  <2>2. /\ parse_cert_entry(e) \in StoredRecord
        /\ parse_cert_entry(e).serial = e.serial
    BY <2>1 DEF parse_cert_entry, StoredRecord
  <2> QED
    BY <1>2, <2>1, <2>2, NoneAssumption DEF Held
<1> QED
  BY <1>1, <1>2

\* The empty checkpoint.
LEMMA FreshFacts ==
  /\ Fresh \in Checkpoint
  /\ Fresh.cookie = None
  /\ \A k \in Key : Fresh.records[k] = None
  /\ Resumable(Fresh)
BY DEF Fresh, NoRecords, Checkpoint, Resumable

-----------------------------------------------------------------------------
(* The directory *)

\* A version since `from` is an entry of the history.
LEMMA VersionType ==
  ASSUME DirectoryInv, NEW w \in 1..Now
  PROVE  /\ Now = Len(history)
         /\ history[w] \in [Uuid -> Entry \cup {None}]
BY DEF DirectoryInv, Now

\* A UUID that changed stays changed, and a version stays in the history.
LEMMA Growth ==
  ASSUME DirectoryInv,
         Now' >= Now, Now' \in Nat,
         \A w \in 1..Now : history'[w] = history[w]
  PROVE  /\ \A r, u : \A from \in 1..Now : Was(r, u, from) => Was(r, u, from)'
         /\ \A u : \A from \in 1..Now : Changed(u, from) => Changed(u, from)'
<1>1. Now \in Nat
  BY BoundAssumption DEF DirectoryInv
<1>2. \A from \in 1..Now : \A w \in from..Now : w \in 1..Now /\ w \in from..Now'
  BY <1>1
<1>3. ASSUME NEW r, NEW u, NEW from \in 1..Now, Was(r, u, from) PROVE Was(r, u, from)'
  <2>1. PICK w \in from..Now : r = Held(history[w][u])
    BY <1>3 DEF Was
  <2>2. w \in from..Now' /\ history'[w] = history[w]
    BY <1>2
  <2>3. r = Held(history'[w][u])
    BY <2>1, <2>2
  <2> QED
    BY <2>2, <2>3 DEF Was
<1>4. ASSUME NEW u, NEW from \in 1..Now, Changed(u, from) PROVE Changed(u, from)'
  <2>1. PICK w \in from..Now : history[w][u] # history[from][u]
    BY <1>4 DEF Changed
  <2>2. /\ w \in from..Now'
        /\ history'[w] = history[w]
        /\ history'[from] = history[from]
    BY <1>2
  <2> QED
    BY <2>1, <2>2 DEF Changed
<1> QED
  BY <1>3, <1>4

\* A non-empty set of natural numbers has a smallest one.
LEMMA Smallest ==
  ASSUME NEW S, S \subseteq Nat, S # {}
  PROVE  \E m \in S : \A n \in S : m <= n
<1> DEFINE R == OpToRel(<, Nat)
<1>1. IsWellFoundedOn(R, Nat)
  BY NatLessThanWellFounded, Zenon
<1>2. \A x \in S, y \in S : x < y => <<x, y>> \in R
  BY DEF OpToRel
<1> HIDE DEF R
<1>3. PICK m \in S : \A n \in S : ~(<<n, m>> \in R)
  BY <1>1, WFMin
<1>4. \A n \in S : n \in Nat /\ m \in Nat
  OBVIOUS
<1>5. \A n \in S : ~(n < m)
  BY <1>2, <1>3
<1> QED
  BY <1>4, <1>5

\* An entry that is removed leaves a version without its serial, when no other
\* entry carried it: the directory changes one entry at a time.
LEMMA Gap ==
  ASSUME DirectoryInv, NEW u \in Uuid, NEW s,
         NEW a \in 1..Now, NEW b \in a..Now,
         history[a][u] # None, history[a][u].serial = s,
         history[b][u] = None,
         \A w \in a..Now : Single(w, s)
  PROVE  \E v \in a..Now : Truth(v, s) = {}
<1> DEFINE S == {w \in a..b : history[w][u] = None}
<1>1. Now \in Nat /\ a \in Nat /\ b \in Nat /\ a <= b /\ b <= Now /\ 1 <= a
  BY BoundAssumption DEF DirectoryInv
<1>2. S \subseteq Nat /\ b \in S
  BY <1>1
<1>3. PICK v \in S : \A w \in S : v <= w
  BY <1>2, Smallest
<1>4. v \in a..b /\ history[v][u] = None /\ v # a
  BY <1>3
<1>5. /\ v - 1 \in a..b /\ v - 1 \in 1..Now /\ (v - 1) + 1 = v /\ v <= Now
      /\ v \in 1..Now /\ v - 1 \in a..Now /\ v \in a..Now /\ ~(v <= v - 1)
  BY <1>1, <1>4
<1>6. history[v - 1][u] # None
  BY <1>3, <1>5
<1>7. history[v - 1][u].serial = s
  BY <1>5, <1>6 DEF DirectoryInv, SerialsStay
<1>8. PICK x \in Uuid : \A y \in Uuid : y # x => history[v][y] = history[v - 1][y]
  BY <1>5 DEF DirectoryInv, OneAtATime
<1>9. x = u
  BY <1>4, <1>6, <1>8
<1>10. ASSUME NEW y \in Uuid, history[v][y] # None, history[v][y].serial = s PROVE FALSE
  <2>1. y # u
    BY <1>4, <1>10
  <2>2. history[v - 1][y] # None /\ history[v - 1][y].serial = s
    BY <1>8, <1>9, <1>10, <2>1
  <2> QED
    BY <1>5, <1>6, <1>7, <2>1, <2>2 DEF Single
<1>11. Truth(v, s) = {}
  BY <1>10 DEF Truth
<1> QED
  BY <1>5, <1>11

\* What is reported of a serial was true at one moment since `from`: it is an
\* entry of such a moment, or nothing while every entry that carried the serial
\* has been absent since.
LEMMA OnceTrue ==
  ASSUME DirectoryInv, NEW from \in 1..Now, NEW s \in Serial, NEW R,
         \A w \in from..Now : Single(w, s),
         \/ \E u \in Uuid : \E w \in from..Now :
              /\ R = {Held(history[w][u])}
              /\ Held(history[w][u]) # None
              /\ Held(history[w][u]).serial = s
         \/ /\ R = {}
            /\ \A u \in Uuid : history[from][u] # None /\ history[from][u].serial = s
                 => Was(None, u, from)
  PROVE  \E w \in from..Now : R = Truth(w, s)
<1>1. Now \in Nat /\ from \in from..Now /\ \A w \in from..Now : w \in 1..Now
  BY BoundAssumption DEF DirectoryInv
<1>2. CASE \E u \in Uuid : \E w \in from..Now :
              /\ R = {Held(history[w][u])}
              /\ Held(history[w][u]) # None
              /\ Held(history[w][u]).serial = s
  <2>1. PICK u \in Uuid, w \in from..Now :
           /\ R = {Held(history[w][u])}
           /\ Held(history[w][u]) # None
           /\ Held(history[w][u]).serial = s
    BY <1>2
  <2>2. history[w][u] \in Entry \cup {None}
    BY <1>1, VersionType
  <2>3. /\ history[w][u] # None
        /\ history[w][u].serial = s
        /\ Held(history[w][u]) = parse_cert_entry(history[w][u])
    BY <2>1, <2>2, HeldFacts
  <2>4. \A v \in Uuid : history[w][v] # None /\ history[w][v].serial = s => v = u
    BY <1>1, <2>3 DEF Single
  <2>5. {v \in Uuid : history[w][v] # None /\ history[w][v].serial = s} = {u}
    BY <2>3, <2>4
  <2>6. Truth(w, s) = {parse_cert_entry(history[w][u])}
    BY <2>5 DEF Truth
  <2> QED
    BY <2>1, <2>3, <2>6
<1>3. CASE /\ R = {}
           /\ \A u \in Uuid : history[from][u] # None /\ history[from][u].serial = s
                => Was(None, u, from)
  <2>1. CASE \A u \in Uuid : ~(history[from][u] # None /\ history[from][u].serial = s)
    <3>1. Truth(from, s) = {}
      BY <2>1 DEF Truth
    <3> QED
      BY <1>1, <1>3, <3>1
  <2>2. CASE \E u \in Uuid : history[from][u] # None /\ history[from][u].serial = s
    <3>1. PICK u \in Uuid : history[from][u] # None /\ history[from][u].serial = s
      BY <2>2
    <3>2. PICK b \in from..Now : None = Held(history[b][u])
      BY <1>3, <3>1 DEF Was
    <3>3. history[b][u] = None
      <4>1. history[b][u] \in Entry \cup {None}
        BY <1>1, VersionType
      <4> QED
        BY <3>2, <4>1, HeldFacts
    <3>4. \E v \in from..Now : Truth(v, s) = {}
      BY <3>1, <3>3, Gap
    <3> QED
      BY <1>3, <3>4
  <2> QED
    BY <2>1, <2>2
<1> QED
  BY <1>2, <1>3

-----------------------------------------------------------------------------
(* Steps of the directory *)

\* A change of one entry that keeps its serial.
LEMMA Recorded ==
  ASSUME DirectoryInv, NEW u \in Uuid, NEW e \in Entry \cup {None},
         Record([Directory EXCEPT ![u] = e]),
         \A w \in 1..Now :
           history[w][u] # None /\ e # None => history[w][u].serial = e.serial
  PROVE  /\ DirectoryInv'
         /\ Now' >= Now /\ Now' \in Nat
         /\ \A w \in 1..Now : history'[w] = history[w]
<1> DEFINE h == [Directory EXCEPT ![u] = e]
<1>1. /\ Now \in Nat /\ Now >= 1 /\ Now < MaxVersion /\ MaxVersion \in Nat
      /\ Now = Len(history) /\ history \in Seq([Uuid -> Entry \cup {None}])
  BY BoundAssumption DEF DirectoryInv, Record, Now
<1>2. Directory \in [Uuid -> Entry \cup {None}]
  BY <1>1, VersionType DEF Directory
<1>3. h \in [Uuid -> Entry \cup {None}] /\ h[u] = e /\ \A x \in Uuid : x # u => h[x] = Directory[x]
  BY <1>2
<1>4. history' = Append(history, h)
  BY DEF Record
<1> HIDE DEF h
<1>5. /\ history' \in Seq([Uuid -> Entry \cup {None}])
      /\ Now' = Now + 1
      /\ history'[Now + 1] = h
      /\ \A w \in 1..Now : history'[w] = history[w]
  BY <1>1, <1>3, <1>4 DEF Now
<1>6. SerialsStay'
  <2>1. ASSUME NEW x \in Uuid, NEW w \in 1..Now, history[w][x] # None, h[x] # None
        PROVE  history[w][x].serial = h[x].serial
    <3>1. CASE x = u
      BY <1>3, <2>1, <3>1
    <3>2. CASE x # u
      <4>1. h[x] = history[Now][x] /\ Now \in 1..Now
        BY <1>1, <1>3, <3>2 DEF Directory
      <4> QED
        BY <2>1, <4>1 DEF DirectoryInv, SerialsStay
    <3> QED
      BY <3>1, <3>2
  <2>2. \A w \in 1..Now' : (w \in 1..Now /\ history'[w] = history[w]) \/ history'[w] = h
    BY <1>1, <1>5
  <2>3. ASSUME NEW x \in Uuid, NEW v \in 1..Now', NEW w \in 1..Now',
               history'[v][x] # None, history'[w][x] # None
        PROVE  history'[v][x].serial = history'[w][x].serial
    <3>1. CASE v \in 1..Now /\ history'[v] = history[v] /\ w \in 1..Now /\ history'[w] = history[w]
      BY <2>3, <3>1 DEF DirectoryInv, SerialsStay
    <3>2. CASE v \in 1..Now /\ history'[v] = history[v] /\ history'[w] = h
      BY <2>1, <2>3, <3>2
    <3>3. CASE history'[v] = h /\ w \in 1..Now /\ history'[w] = history[w]
      BY <2>1, <2>3, <3>3
    <3>4. CASE history'[v] = h /\ history'[w] = h
      BY <3>4
    <3> QED
      BY <2>2, <3>1, <3>2, <3>3, <3>4
  <2> QED
    BY <2>3 DEF SerialsStay
<1>7. OneAtATime'
  <2>1. ASSUME NEW w \in 1..Now', w + 1 <= Now'
        PROVE  \E y \in Uuid : \A x \in Uuid : x # y => history'[w + 1][x] = history'[w][x]
    <3>1. CASE w = Now
      <4>1. history'[w + 1] = h /\ history'[w] = Directory
        BY <1>1, <1>5, <3>1 DEF Directory
      <4> QED
        BY <1>3, <4>1
    <3>2. CASE w # Now
      <4>1. w \in 1..Now /\ w + 1 \in 1..Now /\ w + 1 <= Now
        BY <1>1, <1>5, <2>1, <3>2
      <4>2. history'[w] = history[w] /\ history'[w + 1] = history[w + 1]
        BY <1>5, <4>1
      <4> QED
        BY <4>1, <4>2 DEF DirectoryInv, OneAtATime
    <3> QED
      BY <3>1, <3>2
  <2> QED
    BY <2>1 DEF OneAtATime
<1>8. Now' \in 1..MaxVersion /\ Now' >= Now /\ Now' \in Nat /\ oldest' \in 1..Now'
  BY <1>1, <1>5 DEF DirectoryInv, Record
<1>9. plain' \in BOOLEAN /\ faults' \in 0..MaxFaults
  BY DEF DirectoryInv, Record
<1> QED
  BY <1>5, <1>6, <1>7, <1>8, <1>9 DEF DirectoryInv

\* What is true of the checkpoints and of the refresh stays true while the
\* directory changes.
LEMMA Grown ==
  ASSUME IndInv,
         Now' >= Now, Now' \in Nat,
         \A w \in 1..Now : history'[w] = history[w],
         UNCHANGED <<bound, memory, diskVars, refreshVars>>
  PROVE  StoreInv' /\ RefreshInv'
<1> USE DEF IndInv
<1>1. /\ Now \in Nat /\ Now >= 1
      /\ \A n \in 0..Now : n \in 0..Now'
      /\ \A n \in 1..Now : n \in 1..Now'
  BY BoundAssumption DEF DirectoryInv
<1>2. /\ \A r, u : \A from \in 1..Now : Was(r, u, from) => Was(r, u, from)'
      /\ \A u : \A from \in 1..Now : Changed(u, from) => Changed(u, from)'
  BY Growth
<1>3. ASSUME NEW c, Resumable(c) PROVE
        c.cookie # None =>
          /\ c.cookie \in 1..Now'
          /\ \A k \in Serial : c.records[k] = None
          /\ \A u \in Uuid : Was(c.records[u], u, c.cookie)'
  BY <1>1, <1>2, <1>3 DEF Resumable
<1>4. StoreInv'
  <2>1. UNCHANGED <<bound, memory, visible, durable>>
    BY DEF diskVars
  <2>2. Resumable(memory)' /\ Resumable(visible)' /\ Resumable(durable)'
    BY <1>3, <2>1 DEF StoreInv, Resumable, Was
  <2> QED
    BY <2>1, <2>2 DEF StoreInv
<1>5. UNCHANGED <<pc, staged, present, pending, resume, session, deletes, started>>
  BY DEF refreshVars
<1>6. RefreshType' /\ Clean' /\ Timed'
  BY <1>1, <1>5 DEF RefreshInv, RefreshType, Clean, Timed
<1>7. pc \in {"stream", "poll"} => session \in 1..Now
  <2>1. pc \in {"stream", "poll"} => started >= 1 /\ started <= session
    BY DEF RefreshInv, Timed
  <2> QED
    BY <1>1, <2>1 DEF RefreshInv, RefreshType
<1>8. StreamInv'
  <2> SUFFICES ASSUME pc = "stream" PROVE StreamInv'
    BY <1>5 DEF StreamInv
  <2>1. \A u \in Uuid \ pending : Was(Kept(u), u, session)
    BY DEF RefreshInv, StreamInv
  <2>2. \A u \in Uuid \ pending : Was(Kept(u), u, session)'
    <3>1. \A u : Kept(u)' = Kept(u)
      BY <1>5 DEF Kept
    <3>2. ASSUME NEW u \in Uuid \ pending PROVE Was(Kept(u), u, session)'
      <4>1. PICK w \in session..Now : Kept(u) = Held(history[w][u])
        BY <2>1 DEF Was
      <4>2. w \in 1..Now /\ w \in session'..Now'
        BY <1>1, <1>5, <1>7, <4>1
      <4> QED
        BY <3>1, <4>1, <4>2 DEF Was
    <3> QED
      BY <3>2
  <2>3. resume # None => resume \in 1..Now
    <3>1. resume # None => resume \in 1..MaxVersion /\ resume <= session
      BY DEF RefreshInv, RefreshType, StreamInv
    <3> QED
      BY <1>1, <1>7, <3>1
  <2>4. ASSUME resume # None, NEW u \in pending
        PROVE  /\ Was(staged.records[u], u, resume)'
               /\ deletes' => Changed(u, resume)'
    <3>1. /\ Was(staged.records[u], u, resume)
          /\ deletes => Changed(u, resume)
      BY <2>4 DEF RefreshInv, StreamInv
    <3>2. PICK w \in resume..Now : staged.records[u] = Held(history[w][u])
      BY <3>1 DEF Was
    <3>3. w \in 1..Now /\ w \in resume..Now'
      BY <1>1, <2>3, <2>4
    <3>4. Was(staged.records[u], u, resume)'
      BY <1>5, <3>2, <3>3 DEF Was
    <3>5. deletes => Changed(u, resume)'
      <4> SUFFICES ASSUME deletes PROVE Changed(u, resume)'
        OBVIOUS
      <4>1. PICK x \in resume..Now : history[x][u] # history[resume][u]
        BY <3>1 DEF Changed
      <4>2. x \in 1..Now /\ x \in resume..Now' /\ resume \in 1..Now
        BY <1>1, <2>3, <2>4
      <4> QED
        BY <1>5, <4>1, <4>2 DEF Changed
    <3> QED
      BY <1>5, <3>4, <3>5
  <2>5. /\ \A k \in Serial : staged.records[k] = None
        /\ \A u \in pending : u \notin present
        /\ resume # None => resume <= session
    BY DEF RefreshInv, StreamInv
  <2> QED
    BY <1>5, <2>2, <2>4, <2>5 DEF StreamInv
<1>9. PollInv'
  <2> SUFFICES ASSUME pc = "poll" PROVE PollInv'
    BY <1>5 DEF PollInv
  <2>1. ASSUME NEW r, NEW u, Was(r, u, session)
        PROVE  \E w \in session..Now' : r = Held(history'[w][u])
    <3>1. PICK w \in session..Now : r = Held(history[w][u])
      BY <2>1 DEF Was
    <3>2. w \in 1..Now /\ w \in session..Now'
      BY <1>1, <1>7
    <3> QED
      BY <3>1, <3>2
  <2>2. history'[session] = history[session]
    BY <1>7
  <2>3. \A k \in Key : staged.records[k] # None =>
           /\ k \in present
           /\ staged.records[k].serial = k
           /\ \E u \in Uuid : \E w \in session..Now' : staged.records[k] = Held(history'[w][u])
    BY <2>1 DEF RefreshInv, PollInv
  <2>4. \A u \in Uuid \ pending : history[session][u] # None =>
           \/ staged.records[history[session][u].serial] # None
           \/ \E w \in session..Now' : None = Held(history'[w][u])
    BY <2>1 DEF RefreshInv, PollInv
  <2> QED
    BY <1>5, <2>2, <2>3, <2>4 DEF PollInv, Was
<1>10. SavedInv'
  <2>1. pc' \in {"search", "save", "sync"} => Resumable(staged)'
    BY <1>3, <1>5 DEF RefreshInv, SavedInv, Resumable, Was
  <2>2. ASSUME pc \in {"save", "sync"}, NEW s \in Serial, \A w \in started..Now' : Single(w, s)'
        PROVE  \E w \in started..Now' : Reported(staged, s)' = Truth(w, s)'
    <3>1. started \in 1..Now
      <4>1. started >= 1
        BY <2>2 DEF RefreshInv, Timed
      <4> QED
        BY <1>1, <4>1 DEF RefreshInv, RefreshType
    <3>2. \A w \in started..Now : w \in 1..Now /\ w \in started..Now' /\ history'[w] = history[w]
      BY <1>1, <3>1
    <3>3. \A w \in started..Now : Single(w, s)
      BY <2>2, <3>2 DEF Single
    <3>4. PICK w \in started..Now : Reported(staged, s) = Truth(w, s)
      BY <2>2, <3>3 DEF RefreshInv, SavedInv, SnapshotIsFresh
    <3>5. Truth(w, s)' = Truth(w, s)
      BY <3>2 DEF Truth
    <3>6. Reported(staged, s)' = Reported(staged, s)
      BY <1>5
    <3> QED
      BY <3>2, <3>4, <3>5, <3>6
  <2>3. SnapshotIsFresh'
    BY <1>5, <2>2 DEF SnapshotIsFresh
  <2> QED
    BY <2>1, <2>3 DEF SavedInv
<1> QED
  BY <1>4, <1>6, <1>8, <1>9, <1>10 DEF RefreshInv

\* Every step of the directory.
LEMMA DirectorySteps ==
  ASSUME IndInv, DirectoryStep
  PROVE  IndInv'
<1>0. DirectoryInv
  BY DEF IndInv
<1>1. /\ Now \in Nat /\ Now >= 1 /\ Now \in 1..Now
      /\ \A u \in Uuid : Directory[u] \in Entry \cup {None}
  <2>1. Now \in Nat /\ Now \in 1..Now
    BY <1>0, BoundAssumption DEF DirectoryInv
  <2>2. history[Now] \in [Uuid -> Entry \cup {None}]
    BY <1>0, <2>1, VersionType
  <2> QED
    BY <2>1, <2>2 DEF Directory
<1>2. ASSUME NEW u \in Uuid, NEW e \in Entry \cup {None},
             Record([Directory EXCEPT ![u] = e]),
             \A w \in 1..Now :
               history[w][u] # None /\ e # None => history[w][u].serial = e.serial
      PROVE  IndInv'
  <2>1. /\ DirectoryInv'
        /\ Now' >= Now /\ Now' \in Nat
        /\ \A w \in 1..Now : history'[w] = history[w]
    BY <1>0, <1>2, Recorded
  <2>2. UNCHANGED <<bound, memory, diskVars, refreshVars>>
    BY <1>2 DEF Record
  <2>3. StoreInv' /\ RefreshInv'
    BY <2>1, <2>2, Grown
  <2> QED
    BY <2>1, <2>3 DEF IndInv
<1>3. ASSUME NEW u \in Uuid, NEW s \in Serial, Issue(u, s) PROVE IndInv'
  <2>1. [serial |-> s, status |-> "VALID"] \in Entry
    BY DEF Entry, CertStatus
  <2>2. /\ Record([Directory EXCEPT ![u] = [serial |-> s, status |-> "VALID"]])
        /\ \A w \in 1..Now : history[w][u] = None
    BY <1>3 DEF Issue
  <2> QED
    BY <1>2, <2>1, <2>2
<1>4. ASSUME NEW u \in Uuid, Change(u) PROVE IndInv'
  <2>1. Directory[u] \in Entry /\ Directory[u] = history[Now][u]
    BY <1>1, <1>4 DEF Change, Directory
  <2>2. PICK st \in Successors(Directory[u].status) :
           Record([Directory EXCEPT ![u] = [@ EXCEPT !.status = st]])
    BY <1>4 DEF Change
  <2>3. st \in CertStatus
    BY <2>1 DEF Successors, CertStatus, Entry
  <2> DEFINE e == [Directory[u] EXCEPT !.status = st]
  <2>4. e \in Entry /\ e.serial = Directory[u].serial
    BY <2>1, <2>3 DEF Entry
  <2>5. Record([Directory EXCEPT ![u] = e])
    BY <2>2
  <2>6. \A w \in 1..Now : history[w][u] # None => history[w][u].serial = e.serial
    BY <1>0, <1>1, <1>4, <2>1, <2>4 DEF Change, DirectoryInv, SerialsStay
  <2> HIDE DEF e
  <2> QED
    BY <1>2, <2>4, <2>5, <2>6
<1>5. ASSUME NEW u \in Uuid, Remove(u) PROVE IndInv'
  BY <1>2, <1>5 DEF Remove
<1>6. ASSUME UNCHANGED <<history, bound, memory, diskVars, refreshVars>>,
             oldest' \in 1..Now, plain' \in BOOLEAN, faults' \in 0..MaxFaults
      PROVE  IndInv'
  <2>1. DirectoryInv'
    BY <1>0, <1>6 DEF DirectoryInv, Now, SerialsStay, OneAtATime
  <2>2. Now' = Now
    BY <1>6 DEF Now
  <2>3. Now' >= Now /\ Now' \in Nat /\ \A w \in 1..Now : history'[w] = history[w]
    BY <1>1, <1>6, <2>2
  <2>4. UNCHANGED <<bound, memory, diskVars, refreshVars>>
    BY <1>6
  <2>5. StoreInv' /\ RefreshInv'
    BY <2>3, <2>4, Grown
  <2> QED
    BY <2>1, <2>5 DEF IndInv
<1>7. CASE Trim
  BY <1>0, <1>1, <1>6, <1>7 DEF Trim, DirectoryInv
<1>8. CASE Failover
  <2>1. faults' \in 0..MaxFaults
    BY <1>0, <1>8, BoundAssumption DEF DirectoryInv, Failover
  <2> QED
    BY <1>0, <1>6, <1>8, <2>1 DEF Failover, DirectoryInv
<1> QED
  BY <1>3, <1>4, <1>5, <1>7, <1>8 DEF DirectoryStep

-----------------------------------------------------------------------------
(* Steps of the refresh *)

\* A fault is counted within its bound.
LEMMA Counted ==
  ASSUME DirectoryInv, Fault
  PROVE  faults' \in 0..MaxFaults
BY BoundAssumption DEF DirectoryInv, Fault

\* A step that leaves the directory alone.
LEMMA SameDirectory ==
  ASSUME DirectoryInv, UNCHANGED directoryVars, faults' \in 0..MaxFaults
  PROVE  /\ DirectoryInv'
         /\ history' = history /\ Now' = Now
BY DEF DirectoryInv, directoryVars, Now, SerialsStay, OneAtATime

\* A step that leaves the checkpoints, in memory and on disk, resumable.
LEMMA SameStore ==
  ASSUME history' = history, bound' \in BOOLEAN,
         memory' \in Checkpoint, Resumable(memory'),
         visible' \in Checkpoint, Resumable(visible'),
         durable' \in Checkpoint, Resumable(durable')
  PROVE  StoreInv'
<1>1. Now' = Now
  BY DEF Now
<1>2. Resumable(memory)'
  BY <1>1 DEF Resumable, Was
<1>3. Resumable(visible)'
  BY <1>1 DEF Resumable, Was
<1>4. Resumable(durable)'
  BY <1>1 DEF Resumable, Was
<1> QED
  BY <1>2, <1>3, <1>4 DEF StoreInv

\* The end of a refresh, for whatever reason.
LEMMA Ended ==
  ASSUME DirectoryInv, history' = history, NoSession
  PROVE  RefreshInv'
<1>1. /\ pc' = "idle" /\ staged' = Fresh /\ present' = {} /\ pending' = {}
      /\ resume' = None /\ session' = 0 /\ deletes' = FALSE /\ started' = 0
  BY DEF NoSession
<1>2. Now' \in Nat
  BY BoundAssumption DEF DirectoryInv, Now
<1>3. RefreshType'
  <2>1. staged' \in Checkpoint /\ staged'.cookie = None
    BY <1>1, FreshFacts
  <2>2. 0 \in 0..Now'
    BY <1>2
  <2> QED
    BY <1>1, <2>1, <2>2 DEF RefreshType
<1>4. Clean' /\ Timed'
  BY <1>1 DEF Clean, Timed
<1>5. StreamInv' /\ PollInv'
  BY <1>1 DEF StreamInv, PollInv
<1>6. SavedInv'
  BY <1>1 DEF SavedInv, SnapshotIsFresh
<1> QED
  BY <1>3, <1>4, <1>5, <1>6 DEF RefreshInv

\* A step of the refresh that only touches its own state.
LEMMA Framed ==
  ASSUME IndInv, UNCHANGED <<directoryVars, faults, bound, memory, diskVars>>
  PROVE  DirectoryInv' /\ StoreInv' /\ history' = history /\ Now' = Now
<1>1. faults' \in 0..MaxFaults
  BY DEF IndInv, DirectoryInv
<1>2. DirectoryInv' /\ history' = history /\ Now' = Now
  BY <1>1, SameDirectory DEF IndInv
<1>3. UNCHANGED <<bound, memory, visible, durable>>
  BY DEF diskVars
<1>4. StoreInv'
  BY <1>2, <1>3, SameStore DEF IndInv, StoreInv
<1> QED
  BY <1>2, <1>4

\* The position of a search or of a poll is a version of the history.
LEMMA SessionVersion ==
  ASSUME IndInv, pc \in {"stream", "poll"}
  PROVE  /\ session \in 1..Now /\ started \in 1..Now /\ started <= session
         /\ Now \in Nat /\ Now \in 1..Now /\ Now \in session..Now
         /\ \A w \in session..Now : w \in 1..Now /\ w \in started..Now
<1>1. Now \in Nat /\ Now >= 1
  BY BoundAssumption DEF IndInv, DirectoryInv
<1>2. session \in 0..Now /\ started \in 0..Now
  BY DEF IndInv, RefreshInv, RefreshType
<1>3. started >= 1 /\ started <= session
  BY DEF IndInv, RefreshInv, Timed
<1> QED
  BY <1>1, <1>2, <1>3

\* The present content of an entry, as one of the versions since the search.
LEMMA Present ==
  ASSUME IndInv, pc \in {"stream", "poll"}, NEW u \in Uuid
  PROVE  /\ Directory[u] = history[Now][u]
         /\ Directory[u] \in Entry \cup {None}
         /\ Was(Held(Directory[u]), u, session)
<1>1. Now \in 1..Now /\ Now \in session..Now
  BY SessionVersion
<1>2. history[Now] \in [Uuid -> Entry \cup {None}]
  BY <1>1, VersionType DEF IndInv
<1> QED
  BY <1>1, <1>2 DEF Directory, Was

\* An entry that the client knows is as its record says.
LEMMA KnownRecord ==
  ASSUME IndInv, pc = "stream", NEW u \in pending, Known(u)
  PROVE  staged.records[u] = Held(Directory[u])
<1>1. resume # None /\ ~Changed(u, resume)
  BY DEF Known
<1>2. Was(staged.records[u], u, resume) /\ resume <= session /\ resume \in 1..MaxVersion
  BY <1>1 DEF IndInv, RefreshInv, StreamInv, RefreshType
<1>3. PICK w \in resume..Now : staged.records[u] = Held(history[w][u])
  BY <1>2 DEF Was
<1>4. Now \in resume..Now
  BY <1>2, SessionVersion
<1>5. history[w][u] = history[Now][u]
  BY <1>1, <1>3, <1>4 DEF Changed
<1> QED
  BY <1>3, <1>5 DEF Directory

\* One entry is streamed: what the refresh keeps of it was true since the search.
LEMMA Streamed ==
  ASSUME IndInv, NEW u \in pending, pc = "stream", pc' = pc,
         UNCHANGED <<directoryVars, faults, bound, memory, diskVars, resume,
                     session, deletes, started>>,
         pending' = pending \ {u},
         staged' \in Checkpoint,
         staged'.cookie \in {staged.cookie, session},
         \A k \in Key : k # u => staged'.records[k] = staged.records[k],
         present \subseteq present', present' \subseteq present \cup {u},
         Was(IF deletes \/ u \in present' THEN staged'.records[u] ELSE None, u, session)
  PROVE  IndInv'
<1>1. DirectoryInv' /\ StoreInv' /\ history' = history /\ Now' = Now
  BY Framed
<1>2. u \in Uuid /\ u \in Key /\ u \notin Serial /\ pending \subseteq Uuid
  BY KeyAssumption DEF IndInv, RefreshInv, RefreshType, Key
<1>3. RefreshType'
  <2>1. staged'.cookie # None => staged'.cookie \in 1..Now'
    <3>1. session \in 1..Now
      BY SessionVersion
    <3>2. staged.cookie # None => staged.cookie \in 1..Now
      BY DEF IndInv, RefreshInv, RefreshType
    <3> QED
      BY <1>1, <3>1, <3>2
  <2>2. present' \subseteq Key /\ pending' \subseteq Uuid
    BY <1>2 DEF IndInv, RefreshInv, RefreshType
  <2> QED
    BY <1>1, <2>1, <2>2 DEF IndInv, RefreshInv, RefreshType
<1>4. Clean' /\ Timed'
  <2>1. staged'.cookie # None => staged'.cookie <= session
    <3>1. session \in 1..Now /\ Now \in Nat
      BY SessionVersion
    <3>2. staged.cookie # None => staged.cookie <= session
      BY DEF IndInv, RefreshInv, Timed
    <3> QED
      BY <3>1, <3>2
  <2> QED
    BY <2>1 DEF IndInv, RefreshInv, Clean, Timed
<1>5. StreamInv'
  <2>1. \A k \in Serial : staged'.records[k] = None
    BY <1>2 DEF IndInv, RefreshInv, StreamInv, Key
  <2>2. ASSUME NEW x \in Uuid \ pending' PROVE Was(Kept(x), x, session)'
    <3>1. CASE x = u
      BY <1>1, <3>1 DEF Was, Kept
    <3>2. CASE x # u
      <4>1. x \in Uuid \ pending /\ x \in Key
        BY <3>2 DEF Key
      <4>2. Was(Kept(x), x, session)
        BY <4>1 DEF IndInv, RefreshInv, StreamInv
      <4>3. Kept(x)' = Kept(x)
        BY <3>2, <4>1 DEF Kept
      <4> QED
        BY <1>1, <4>2, <4>3 DEF Was
    <3> QED
      BY <3>1, <3>2
  <2>3. \A x \in pending' : x \notin present'
    BY DEF IndInv, RefreshInv, StreamInv
  <2>4. ASSUME resume # None
        PROVE  /\ resume <= session
               /\ \A x \in pending' :
                    /\ Was(staged.records[x], x, resume)'
                    /\ deletes' => Changed(x, resume)'
    <3>1. /\ resume <= session
          /\ \A x \in pending :
               /\ Was(staged.records[x], x, resume)
               /\ deletes => Changed(x, resume)
      BY <2>4 DEF IndInv, RefreshInv, StreamInv
    <3>2. ASSUME NEW x \in pending'
          PROVE  /\ Was(staged.records[x], x, resume)'
                 /\ deletes' => Changed(x, resume)'
      <4>1. x \in pending /\ staged'.records[x] = staged.records[x]
        BY <1>2 DEF Key
      <4>2. Was(staged.records[x], x, resume)'
        BY <1>1, <3>1, <4>1 DEF Was
      <4>3. deletes' => Changed(x, resume)'
        BY <1>1, <3>1, <4>1 DEF Changed
      <4> QED
        BY <4>2, <4>3
    <3> QED
      BY <3>1, <3>2
  <2> QED
    BY <2>1, <2>2, <2>3, <2>4 DEF StreamInv
<1>6. PollInv' /\ SavedInv'
  BY DEF PollInv, SavedInv, SnapshotIsFresh
<1> QED
  BY <1>1, <1>3, <1>4, <1>5, <1>6 DEF IndInv, RefreshInv

\* Every message of the stream.
LEMMA StreamSteps ==
  ASSUME IndInv, NEW u \in Uuid,
         \/ ApplyUpdate(u) \/ ApplyDelete(u) \/ Skip(u)
         \/ SyncIdSet(u) \/ ApplyPresent(u)
  PROVE  IndInv'
<1>1. pc = "stream" /\ u \in pending
  BY DEF ApplyUpdate, ApplyDelete, Skip, SyncIdSet, ApplyPresent, Stream
<1>2. /\ staged \in Checkpoint
      /\ staged.cookie \in 1..MaxVersion \cup {None}
      /\ session \in 1..MaxVersion
      /\ u \in Key
  <2>1. session \in 1..Now
    BY <1>1, SessionVersion
  <2>2. staged \in Checkpoint /\ Now \in 1..MaxVersion
    BY DEF IndInv, RefreshInv, RefreshType, DirectoryInv
  <2>3. session \in 1..MaxVersion
    BY <2>1, <2>2, BoundAssumption
  <2> QED
    BY <2>2, <2>3 DEF Checkpoint, Key
<1>3. /\ Directory[u] \in Entry \cup {None}
      /\ Was(Held(Directory[u]), u, session)
  BY <1>1, Present
<1>4. CASE Stream(u) /\ UNCHANGED pc
  <2>1. /\ pending' = pending \ {u} /\ pc' = pc
        /\ UNCHANGED <<directoryVars, faults, bound, memory, diskVars, resume,
                       session, deletes, started>>
    BY <1>4 DEF Stream
  <2>2. CASE ApplyUpdate(u)
    <3>1. PICK cookie \in {staged.cookie, session} :
             staged' = [staged EXCEPT !.cookie = cookie,
                                      !.records[u] = parse_cert_entry(Directory[u])]
      BY <2>2 DEF ApplyUpdate
    <3>2. Directory[u] # None /\ present' = present \cup {u}
      BY <2>2 DEF ApplyUpdate
    <3>3. /\ Held(Directory[u]) = parse_cert_entry(Directory[u])
          /\ parse_cert_entry(Directory[u]) \in StoredRecord
      BY <1>3, <3>2, HeldFacts
    <3>4. /\ staged' \in Checkpoint
          /\ staged'.cookie = cookie
          /\ staged'.records = [staged.records EXCEPT ![u] = parse_cert_entry(Directory[u])]
      BY <1>2, <3>1, <3>3 DEF Checkpoint
    <3>5. staged'.records[u] = Held(Directory[u])
      BY <1>2, <3>3, <3>4 DEF Checkpoint
    <3>6. Was(IF deletes \/ u \in present' THEN staged'.records[u] ELSE None, u, session)
      BY <1>3, <3>2, <3>5
    <3>7. \A k \in Key : k # u => staged'.records[k] = staged.records[k]
      BY <1>2, <3>4 DEF Checkpoint
    <3> QED
      BY <1>1, <2>1, <3>1, <3>2, <3>4, <3>6, <3>7, Streamed
  <2>3. CASE ApplyDelete(u)
    <3>1. PICK cookie \in {staged.cookie, session} :
             staged' = [staged EXCEPT !.cookie = cookie, !.records[u] = None]
      BY <2>3 DEF ApplyDelete
    <3>2. Directory[u] = None /\ deletes /\ present' = present
      BY <2>3 DEF ApplyDelete
    <3>3. /\ staged' \in Checkpoint
          /\ staged'.cookie = cookie
          /\ staged'.records = [staged.records EXCEPT ![u] = None]
      BY <1>2, <3>1 DEF Checkpoint
    <3>4. staged'.records[u] = Held(Directory[u])
      BY <1>2, <3>2, <3>3 DEF Checkpoint, Held
    <3>5. Was(IF deletes \/ u \in present' THEN staged'.records[u] ELSE None, u, session)
      BY <1>3, <3>2, <3>4
    <3>6. \A k \in Key : k # u => staged'.records[k] = staged.records[k]
      BY <1>2, <3>3 DEF Checkpoint
    <3> QED
      BY <1>1, <2>1, <3>1, <3>2, <3>3, <3>5, <3>6, Streamed
  <2>4. CASE Skip(u)
    <3>1. ~deletes /\ Directory[u] = None /\ staged' = staged /\ present' = present
      BY <2>4 DEF Skip
    <3>2. u \notin present
      BY <1>1 DEF IndInv, RefreshInv, StreamInv
    <3>3. Held(Directory[u]) = None
      BY <3>1 DEF Held
    <3>4. Was(IF deletes \/ u \in present' THEN staged'.records[u] ELSE None, u, session)
      BY <1>3, <3>1, <3>2, <3>3
    <3> QED
      BY <1>1, <1>2, <2>1, <3>1, <3>4, Streamed
  <2>5. CASE Known(u) /\ present' = present \cup {u} /\
             \E cookie \in {staged.cookie, session} : staged' = [staged EXCEPT !.cookie = cookie]
    <3>1. PICK cookie \in {staged.cookie, session} : staged' = [staged EXCEPT !.cookie = cookie]
      BY <2>5
    <3>2. staged' \in Checkpoint /\ staged'.cookie = cookie /\ staged'.records = staged.records
      BY <1>2, <3>1 DEF Checkpoint
    <3>3. staged'.records[u] = Held(Directory[u])
      BY <1>1, <2>5, <3>2, KnownRecord
    <3>4. Was(IF deletes \/ u \in present' THEN staged'.records[u] ELSE None, u, session)
      BY <1>3, <2>5, <3>3
    <3> QED
      BY <1>1, <2>1, <2>5, <3>1, <3>2, <3>4, Streamed
  <2>6. CASE SyncIdSet(u)
    BY <2>5, <2>6 DEF SyncIdSet
  <2>7. CASE ApplyPresent(u)
    <3>1. staged.records[u] # None
      <4>1. pc' # "idle"
        BY <1>1, <2>1
      <4> QED
        BY <2>7, <4>1 DEF ApplyPresent, NoSession
    <3> QED
      BY <2>5, <2>7, <3>1 DEF ApplyPresent
  <2> QED
    BY <2>2, <2>3, <2>4, <2>6, <2>7
<1>5. CASE ApplyPresent(u) /\ staged.records[u] = None
  <2>1. NoSession /\ UNCHANGED <<directoryVars, faults, bound, memory, diskVars>>
    BY <1>5 DEF ApplyPresent
  <2>2. DirectoryInv' /\ StoreInv' /\ history' = history
    BY <2>1, Framed
  <2>3. RefreshInv'
    BY <2>1, <2>2, Ended DEF IndInv
  <2> QED
    BY <2>2, <2>3 DEF IndInv
<1>6. ApplyPresent(u) /\ staged.records[u] # None => Stream(u) /\ UNCHANGED pc
  BY DEF ApplyPresent, Stream
<1> QED
  BY <1>4, <1>5, <1>6 DEF ApplyUpdate, ApplyDelete, Skip, SyncIdSet

\* A refresh begins with a checkpoint from which nothing is lost.
LEMMA BeginStep ==
  ASSUME IndInv, Begin
  PROVE  IndInv'
<1>1. /\ pc = "idle" /\ pc' = "search" /\ bound' = TRUE
      /\ memory' = IF bound THEN memory ELSE load_checkpoint
      /\ staged' = memory' /\ started' = Now
      /\ UNCHANGED <<directoryVars, faults, visible, durable, present, pending,
                     resume, session, deletes>>
  BY DEF Begin, diskVars
<1>2. DirectoryInv' /\ history' = history /\ Now' = Now
  <2>1. faults' \in 0..MaxFaults
    BY <1>1 DEF IndInv, DirectoryInv
  <2> QED
    BY <1>1, <2>1, SameDirectory DEF IndInv
<1>3. memory' \in Checkpoint /\ Resumable(memory')
  BY <1>1, FreshFacts DEF IndInv, StoreInv, load_checkpoint
<1>4. StoreInv'
  BY <1>1, <1>2, <1>3, SameStore DEF IndInv, StoreInv
<1>5. Resumable(staged)'
  BY <1>1, <1>4 DEF StoreInv, Resumable
<1>6. RefreshType'
  <2>1. Now' \in Nat /\ Now \in 0..Now
    BY <1>2, BoundAssumption DEF IndInv, DirectoryInv
  <2>2. staged' \in Checkpoint /\ (staged'.cookie # None => staged'.cookie \in 1..Now')
    BY <1>1, <1>3, <1>5 DEF Resumable
  <2> QED
    BY <1>1, <1>2, <2>1, <2>2 DEF IndInv, RefreshInv, RefreshType
<1>7. Clean' /\ Timed'
  <2>1. Now >= 1
    BY BoundAssumption DEF IndInv, DirectoryInv
  <2>2. present = {} /\ ~deletes
    BY <1>1 DEF IndInv, RefreshInv, Clean
  <2> QED
    BY <1>1, <2>1, <2>2 DEF Clean, Timed
<1>8. StreamInv' /\ PollInv' /\ SavedInv'
  BY <1>1, <1>5 DEF StreamInv, PollInv, SavedInv, SnapshotIsFresh
<1> QED
  BY <1>2, <1>4, <1>6, <1>7, <1>8 DEF IndInv, RefreshInv

\* Starting over loses nothing.
LEMMA RefreshRequiredStep ==
  ASSUME IndInv, RefreshRequired
  PROVE  IndInv'
<1>1. /\ pc = "search" /\ pc' = "search" /\ staged' = Fresh
      /\ UNCHANGED <<directoryVars, faults, bound, memory, diskVars, present,
                     pending, resume, session, deletes, started>>
  BY DEF RefreshRequired
<1>2. DirectoryInv' /\ StoreInv' /\ history' = history /\ Now' = Now
  BY <1>1, Framed
<1>3. staged' \in Checkpoint /\ staged'.cookie = None
  BY <1>1, FreshFacts
<1>4. RefreshType' /\ Clean' /\ Timed'
  BY <1>1, <1>2, <1>3 DEF IndInv, RefreshInv, RefreshType, Clean, Timed
<1>5. StreamInv' /\ PollInv' /\ SavedInv'
  BY <1>1, <1>3 DEF StreamInv, PollInv, SavedInv, SnapshotIsFresh, Resumable
<1> QED
  BY <1>2, <1>4, <1>5 DEF IndInv, RefreshInv

\* The search begins: what the directory will not send is known already.
LEMMA SearchStep ==
  ASSUME IndInv, Search
  PROVE  IndInv'
<1>1. /\ pc = "search" /\ pc' = "stream" /\ deletes' \in BOOLEAN
      /\ staged' = (IF staged.cookie = None THEN Fresh ELSE staged)
      /\ pending' = {u \in Uuid :
                       IF staged.cookie = None \/ ~deletes' THEN Directory[u] # None
                       ELSE Changed(u, staged.cookie)}
      /\ resume' = staged.cookie /\ session' = Now
      /\ UNCHANGED <<directoryVars, faults, bound, memory, diskVars, present, started>>
  BY DEF Search
<1>2. DirectoryInv' /\ StoreInv' /\ history' = history /\ Now' = Now
  BY <1>1, Framed
<1>3. /\ Now \in Nat /\ Now \in 1..Now /\ Now \in Now..Now /\ Now \in 0..Now
      /\ started \in 0..Now /\ started >= 1 /\ started <= Now
      /\ present = {} /\ staged \in Checkpoint
      /\ Resumable(staged) /\ present \subseteq Key
      /\ staged.cookie \in 1..MaxVersion \cup {None}
  <2>1. Now \in Nat /\ Now >= 1
    BY BoundAssumption DEF IndInv, DirectoryInv
  <2>2. started \in 0..Now /\ started >= 1 /\ staged \in Checkpoint /\ present \subseteq Key
    BY <1>1 DEF IndInv, RefreshInv, RefreshType, Timed
  <2>3. present = {} /\ Resumable(staged)
    BY <1>1 DEF IndInv, RefreshInv, Clean, SavedInv
  <2>4. staged.cookie \in 1..MaxVersion \cup {None}
    BY <2>2 DEF Checkpoint
  <2> QED
    BY <2>1, <2>2, <2>3, <2>4
<1>4. /\ staged' \in Checkpoint
      /\ staged'.cookie # None => staged'.cookie \in 1..Now'
      /\ \A k \in Serial : staged'.records[k] = None
  BY <1>1, <1>2, <1>3, FreshFacts DEF Resumable, Key
<1>5. RefreshType'
  <2>1. pending' \subseteq Uuid
    BY <1>1
  <2>2. started' \in 0..Now' /\ session' \in 0..Now' /\ present' \subseteq Key
    BY <1>1, <1>2, <1>3
  <2>3. resume' \in 1..MaxVersion \cup {None} /\ deletes' \in BOOLEAN
    BY <1>1, <1>3
  <2> QED
    BY <1>1, <1>4, <2>1, <2>2, <2>3 DEF RefreshType
<1>6. Clean' /\ Timed'
  <2>1. Clean'
    BY <1>1 DEF Clean
  <2>2. staged'.cookie # None => staged'.cookie <= Now
    BY <1>2, <1>3, <1>4
  <2>3. Timed'
    BY <1>1, <1>3, <2>2 DEF Timed
  <2> QED
    BY <2>1, <2>3
<1>7. \A u \in Uuid : Directory[u] = history[Now][u]
  BY DEF Directory
<1>8. ASSUME NEW u \in Uuid \ pending' PROVE Kept(u)' = Held(Directory[u])
  <2>1. present' = {}
    BY <1>1, <1>3
  <2>2. CASE staged.cookie = None
    <3>1. staged'.records[u] = None /\ Directory[u] = None
      BY <1>1, <2>2, FreshFacts DEF Key
    <3> QED
      BY <3>1 DEF Kept, Held
  <2>3. CASE staged.cookie # None /\ ~deletes'
    <3>1. Directory[u] = None
      BY <1>1, <2>3
    <3> QED
      BY <2>1, <2>3, <3>1 DEF Kept, Held
  <2>4. CASE staged.cookie # None /\ deletes'
    <3>1. ~Changed(u, staged.cookie) /\ staged' = staged
      BY <1>1, <2>4
    <3>2. Was(staged.records[u], u, staged.cookie) /\ staged.cookie \in 1..Now
      BY <1>3, <2>4 DEF Resumable
    <3>3. PICK w \in staged.cookie..Now : staged.records[u] = Held(history[w][u])
      BY <3>2 DEF Was
    <3>4. Now \in staged.cookie..Now
      BY <1>3, <3>2
    <3>5. history[w][u] = history[Now][u]
      BY <3>1, <3>3, <3>4 DEF Changed
    <3> QED
      BY <1>7, <2>4, <3>1, <3>3, <3>5 DEF Kept
  <2> QED
    BY <1>1, <2>2, <2>3, <2>4
<1>9. StreamInv'
  <2>1. ASSUME NEW u \in Uuid \ pending' PROVE Was(Kept(u), u, session)'
    BY <1>1, <1>2, <1>3, <1>7, <1>8 DEF Was
  <2>2. \A u \in pending' : u \notin present'
    BY <1>1, <1>3
  <2>3. ASSUME resume' # None PROVE resume' <= session'
    BY <1>1, <1>3, <2>3 DEF Resumable
  <2>4. ASSUME resume' # None, NEW u \in pending'
        PROVE  /\ Was(staged.records[u], u, resume)'
               /\ deletes' => Changed(u, resume)'
    <3>1. staged.cookie # None /\ staged' = staged /\ resume' = staged.cookie /\ u \in Uuid
      BY <1>1, <2>4
    <3>2. Was(staged.records[u], u, staged.cookie)
      BY <1>3, <3>1 DEF Resumable
    <3>3. Was(staged.records[u], u, resume)'
      BY <1>2, <3>1, <3>2 DEF Was
    <3>4. deletes' => Changed(u, staged.cookie)
      BY <1>1, <2>4, <3>1
    <3>5. deletes' => Changed(u, resume)'
      BY <1>2, <3>1, <3>4 DEF Changed
    <3> QED
      BY <3>3, <3>5
  <2> QED
    BY <1>4, <2>1, <2>2, <2>3, <2>4 DEF StreamInv
<1>10. PollInv' /\ SavedInv'
  BY <1>1 DEF PollInv, SavedInv, SnapshotIsFresh
<1> QED
  BY <1>2, <1>5, <1>6, <1>9, <1>10 DEF IndInv, RefreshInv

\* The poll begins with nothing, and will read every entry that is there.
LEMMA FullPollStep ==
  ASSUME IndInv, FullPoll
  PROVE  IndInv'
<1>1. /\ pc = "search" /\ pc' = "poll" /\ staged' = Fresh
      /\ pending' = {u \in Uuid : Directory[u] # None}
      /\ session' = Now
      /\ UNCHANGED <<directoryVars, faults, bound, memory, diskVars, present,
                     resume, deletes, started>>
  BY DEF FullPoll
<1>2. DirectoryInv' /\ StoreInv' /\ history' = history /\ Now' = Now
  BY <1>1, Framed
<1>3. staged' \in Checkpoint /\ staged'.cookie = None /\ \A k \in Key : staged'.records[k] = None
  BY <1>1, FreshFacts
<1>4. Now \in Nat /\ Now \in 0..Now
  BY BoundAssumption DEF IndInv, DirectoryInv
<1>5. RefreshType'
  BY <1>1, <1>2, <1>3, <1>4 DEF IndInv, RefreshInv, RefreshType
<1>6. Clean'
  BY <1>1 DEF IndInv, RefreshInv, Clean
<1>7. Timed'
  <2>1. started \in 0..Now /\ started >= 1
    BY <1>1 DEF IndInv, RefreshInv, RefreshType, Timed
  <2> QED
    BY <1>1, <1>4, <2>1 DEF Timed
<1>8. PollInv'
  <2>1. \A u \in Uuid \ pending' : history'[session'][u] = None
    BY <1>1, <1>2 DEF Directory
  <2> QED
    BY <1>3, <2>1 DEF PollInv
<1>9. StreamInv' /\ SavedInv'
  BY <1>1 DEF StreamInv, SavedInv, SnapshotIsFresh
<1> QED
  BY <1>2, <1>5, <1>6, <1>7, <1>8, <1>9 DEF IndInv, RefreshInv

\* The poll reads an entry, or finds it removed.
LEMMA PollEntryStep ==
  ASSUME IndInv, NEW u \in Uuid, PollEntry(u)
  PROVE  IndInv'
<1> DEFINE record == parse_cert_entry(Directory[u])
<1>1. /\ pc = "poll" /\ pc' = "poll" /\ u \in pending /\ pending' = pending \ {u}
      /\ UNCHANGED <<directoryVars, faults, bound, memory, diskVars, resume,
                     session, deletes, started>>
      /\ Directory[u] = None => staged' = staged /\ present' = present
      /\ Directory[u] # None =>
           /\ staged' = [staged EXCEPT !.records[record.serial] = record]
           /\ present' = present \cup {record.serial}
  BY DEF PollEntry
<1>2. DirectoryInv' /\ StoreInv' /\ history' = history /\ Now' = Now
  BY <1>1, Framed
<1>3. /\ Directory[u] = history[Now][u]
      /\ Directory[u] \in Entry \cup {None}
      /\ Was(Held(Directory[u]), u, session)
  BY <1>1, Present
<1>4. Directory[u] # None =>
        /\ record \in StoredRecord /\ record # None
        /\ record.serial \in Serial /\ record.serial \in Key
        /\ record.serial = Directory[u].serial
        /\ Held(Directory[u]) = record
  BY <1>3, HeldFacts DEF Key
<1> HIDE DEF record
<1>5. staged \in Checkpoint /\ present \subseteq Key /\ pending \subseteq Uuid
  BY DEF IndInv, RefreshInv, RefreshType
<1>6. Directory[u] # None =>
        /\ staged' \in Checkpoint /\ staged'.cookie = staged.cookie
        /\ staged'.records[record.serial] = record
        /\ \A k \in Key : k # record.serial => staged'.records[k] = staged.records[k]
  BY <1>1, <1>4, <1>5 DEF Checkpoint
<1>7. RefreshType'
  <2>1. staged' \in Checkpoint /\ staged'.cookie = staged.cookie
    BY <1>1, <1>5, <1>6
  <2>2. present' \subseteq Key
    BY <1>1, <1>4, <1>5
  <2> QED
    BY <1>1, <1>2, <1>5, <2>1, <2>2 DEF IndInv, RefreshInv, RefreshType
<1>8. Clean' /\ Timed'
  BY <1>1 DEF IndInv, RefreshInv, Clean, Timed
<1>9. \A x, r : Was(r, x, session) => \E w \in session'..Now' : r = Held(history'[w][x])
  BY <1>1, <1>2 DEF Was
<1>10. ASSUME NEW k \in Key, staged'.records[k] # None
       PROVE  /\ k \in present'
              /\ staged'.records[k].serial = k
              /\ \E x \in Uuid : Was(staged'.records[k], x, session)
  <2>1. CASE Directory[u] # None /\ k = record.serial
    BY <1>1, <1>3, <1>4, <1>6, <2>1
  <2>2. CASE Directory[u] = None \/ k # record.serial
    <3>1. staged'.records[k] = staged.records[k] /\ present \subseteq present'
      BY <1>1, <1>6, <2>2
    <3> QED
      BY <1>1, <1>10, <3>1 DEF IndInv, RefreshInv, PollInv
  <2> QED
    BY <2>1, <2>2
<1>11. ASSUME NEW x \in Uuid \ pending', history[session][x] # None
       PROVE  \/ staged'.records[history[session][x].serial] # None
              \/ Was(None, x, session)
  <2>1. session \in 1..Now /\ Now \in 1..Now
    BY <1>1, SessionVersion
  <2>2. CASE x = u
    <3>1. CASE Directory[u] = None
      <4>1. Held(Directory[u]) = None
        BY <3>1 DEF Held
      <4> QED
        BY <1>3, <2>2, <4>1
    <3>2. CASE Directory[u] # None
      <4>1. history[session][u].serial = record.serial
        BY <1>3, <1>4, <1>11, <2>1, <2>2, <3>2 DEF IndInv, DirectoryInv, SerialsStay
      <4> QED
        BY <1>4, <1>6, <2>2, <3>2, <4>1
    <3> QED
      BY <3>1, <3>2
  <2>3. CASE x # u
    <3>1. \/ staged.records[history[session][x].serial] # None
          \/ Was(None, x, session)
      BY <1>1, <1>11, <2>3 DEF IndInv, RefreshInv, PollInv
    <3>2. history[session][x].serial \in Key
      <4>1. history[session][x] \in Entry \cup {None}
        BY <2>1, VersionType DEF IndInv
      <4> QED
        BY <1>11, <4>1, HeldFacts DEF Key
    <3>3. staged.records[history[session][x].serial] # None
            => staged'.records[history[session][x].serial] # None
      BY <1>1, <1>4, <1>6, <3>2
    <3> QED
      BY <3>1, <3>3
  <2> QED
    BY <2>2, <2>3
<1>12. PollInv'
  <2>1. ASSUME NEW k \in Key, staged'.records[k] # None
        PROVE  \E x \in Uuid : Was(staged.records[k], x, session)'
    <3>1. PICK x \in Uuid : Was(staged'.records[k], x, session)
      BY <1>10, <2>1
    <3>2. \E w \in session'..Now' : staged'.records[k] = Held(history'[w][x])
      BY <1>9, <3>1
    <3> QED
      BY <3>2 DEF Was
  <2>2. ASSUME NEW x \in Uuid \ pending', history[session][x] # None
        PROVE  \/ staged'.records[history[session][x].serial] # None
               \/ Was(None, x, session)'
    BY <1>2, <1>1, <1>11, <2>2 DEF Was
  <2>3. history'[session'] = history[session]
    BY <1>1, <1>2
  <2> QED
    BY <1>10, <2>1, <2>2, <2>3 DEF PollInv
<1>13. StreamInv' /\ SavedInv'
  BY <1>1 DEF StreamInv, SavedInv, SnapshotIsFresh
<1> QED
  BY <1>2, <1>7, <1>8, <1>12, <1>13 DEF IndInv, RefreshInv

\* The records that a refresh retains.
LEMMA Retained ==
  /\ \A k \in Key : retain[k] = Kept(k)
  /\ staged \in Checkpoint => retain \in [Key -> StoredRecord \cup {None}]
BY DEF retain, Kept, Checkpoint

\* A refresh that streamed says of a serial what was true since the search.
LEMMA StreamReport ==
  ASSUME IndInv, pc = "stream", pending = {}, UniqueSerials(retain),
         NEW s \in Serial, \A w \in session..Now : Single(w, s)
  PROVE  \E w \in session..Now :
           {retain[k] : k \in {m \in Keys(retain) : retain[m].serial = s}} = Truth(w, s)
<1> DEFINE M == {m \in Keys(retain) : retain[m].serial = s}
           R == {retain[k] : k \in M}
<1>1. /\ session \in 1..Now
      /\ \A w \in session..Now : w \in 1..Now
  BY SessionVersion
<1>2. \A u \in Uuid : Was(retain[u], u, session)
  BY Retained DEF IndInv, RefreshInv, StreamInv, Key
<1>3. \A k \in Serial : retain[k] = None
  BY Retained DEF IndInv, RefreshInv, StreamInv, Kept, Key
<1>4. Keys(retain) \subseteq Uuid
  BY <1>3 DEF Keys, Key
<1>5. CASE M # {}
  <2>1. PICK u : u \in M
    BY <1>5
  <2>2. u \in Uuid /\ retain[u] # None /\ retain[u].serial = s
    BY <1>4, <2>1 DEF Keys
  <2>3. PICK w \in session..Now : retain[u] = Held(history[w][u])
    BY <1>2, <2>2 DEF Was
  <2>4. \A m \in M : m = u
    BY <2>1 DEF UniqueSerials
  <2>5. M = {u}
    BY <2>1, <2>4
  <2>6. R = {Held(history[w][u])}
    BY <2>3, <2>5
  <2> HIDE DEF M, R
  <2>7. \E v \in session..Now : R = Truth(v, s)
    <3>1. Held(history[w][u]) # None /\ Held(history[w][u]).serial = s
      BY <2>2, <2>3
    <3>2. DirectoryInv
      BY DEF IndInv
    <3>3. \E x \in Uuid : \E v \in session..Now :
            /\ R = {Held(history[v][x])}
            /\ Held(history[v][x]) # None
            /\ Held(history[v][x]).serial = s
      BY <2>2, <2>3, <2>6, <3>1
    <3> QED
      BY <1>1, <3>2, <3>3, OnceTrue
  <2> QED
    BY <2>7 DEF R, M
<1>6. CASE M = {}
  <2>1. R = {}
    BY <1>6
  <2>2. ASSUME NEW u \in Uuid, history[session][u] # None, history[session][u].serial = s
        PROVE  Was(None, u, session)
    <3>1. PICK w \in session..Now : retain[u] = Held(history[w][u])
      BY <1>2 DEF Was
    <3>2. history[w][u] \in Entry \cup {None}
      BY <1>1, <3>1, VersionType DEF IndInv
    <3>3. CASE history[w][u] = None
      BY <3>1, <3>3 DEF Was, Held
    <3>4. CASE history[w][u] # None
      <4>1. history[w][u].serial = s
        BY <1>1, <2>2, <3>4 DEF IndInv, DirectoryInv, SerialsStay
      <4>2. retain[u] # None /\ retain[u].serial = s
        BY <3>1, <3>2, <3>4, <4>1, HeldFacts
      <4>3. u \in M
        BY <4>2 DEF Keys, Key
      <4> QED
        BY <1>6, <4>3
    <3> QED
      BY <3>3, <3>4
  <2> HIDE DEF M, R
  <2>3. \E v \in session..Now : R = Truth(v, s)
    BY <1>1, <2>1, <2>2, OnceTrue DEF IndInv
  <2> QED
    BY <2>3 DEF R, M
<1> QED
  BY <1>5, <1>6

\* A poll says of a serial what was true since it began.
LEMMA PollReport ==
  ASSUME IndInv, pc = "poll", pending = {},
         NEW s \in Serial, \A w \in session..Now : Single(w, s)
  PROVE  \E w \in session..Now :
           {retain[k] : k \in {m \in Keys(retain) : retain[m].serial = s}} = Truth(w, s)
<1> DEFINE M == {m \in Keys(retain) : retain[m].serial = s}
           R == {retain[k] : k \in M}
<1>1. /\ session \in 1..Now
      /\ \A w \in session..Now : w \in 1..Now
  BY SessionVersion
<1>2. \A k \in Key : retain[k] = staged.records[k]
  BY Retained DEF IndInv, RefreshInv, PollInv, Kept
<1>3. \A k \in Key : retain[k] # None =>
        retain[k].serial = k /\ \E u \in Uuid : Was(retain[k], u, session)
  BY <1>2 DEF IndInv, RefreshInv, PollInv
<1>4. s \in Key
  BY DEF Key
<1>5. CASE retain[s] # None
  <2>1. M = {s}
    BY <1>3, <1>4, <1>5 DEF Keys
  <2>2. PICK u \in Uuid : Was(retain[s], u, session)
    BY <1>3, <1>4, <1>5
  <2>3. PICK w \in session..Now : retain[s] = Held(history[w][u])
    BY <2>2 DEF Was
  <2>4. R = {Held(history[w][u])} /\ retain[s].serial = s
    BY <1>3, <1>4, <1>5, <2>1, <2>3
  <2> HIDE DEF M, R
  <2>5. \E v \in session..Now : R = Truth(v, s)
    <3>1. Held(history[w][u]) # None /\ Held(history[w][u]).serial = s
      BY <1>5, <2>3, <2>4
    <3> QED
      BY <1>1, <2>4, <3>1, OnceTrue, SMTT(30) DEF IndInv
  <2> QED
    BY <2>5 DEF R, M
<1>6. CASE retain[s] = None
  <2>1. M = {}
    BY <1>3, <1>6 DEF Keys
  <2>2. R = {}
    BY <2>1
  <2>3. ASSUME NEW u \in Uuid, history[session][u] # None, history[session][u].serial = s
        PROVE  Was(None, u, session)
    BY <1>2, <1>4, <1>6, <2>3 DEF IndInv, RefreshInv, PollInv
  <2> HIDE DEF M, R
  <2>4. \E v \in session..Now : R = Truth(v, s)
    BY <1>1, <2>2, <2>3, OnceTrue DEF IndInv
  <2> QED
    BY <2>4 DEF R, M
<1> QED
  BY <1>5, <1>6

\* The candidate of a finished refresh loses nothing and is fresh.
LEMMA Finished ==
  ASSUME IndInv, NEW cookie, Finish(cookie), faults' \in 0..MaxFaults,
         \/ pc = "stream" /\ cookie \in {staged.cookie, session}
         \/ pc = "poll" /\ cookie = None
  PROVE  IndInv'
<1>1. /\ pc \in {"stream", "poll"} /\ pending = {}
      /\ UNCHANGED <<directoryVars, bound, memory, visible, durable>>
  BY DEF Finish, diskVars
<1>2. DirectoryInv' /\ StoreInv' /\ history' = history /\ Now' = Now
  <2>1. DirectoryInv' /\ history' = history /\ Now' = Now
    BY <1>1, SameDirectory DEF IndInv
  <2> QED
    BY <1>1, <2>1, SameStore DEF IndInv, StoreInv
<1>3. CASE ~UniqueSerials(retain)
  <2>1. NoSession
    BY <1>3 DEF Finish
  <2>2. RefreshInv'
    BY <1>2, <2>1, Ended DEF IndInv
  <2> QED
    BY <1>2, <2>2 DEF IndInv
<1>4. CASE UniqueSerials(retain)
  <2>1. /\ staged' = [cookie |-> cookie, records |-> retain, complete |-> TRUE]
        /\ pc' = "save"
        /\ present' = {} /\ resume' = None /\ session' = 0 /\ deletes' = FALSE
        /\ UNCHANGED <<pending, started>>
    BY <1>4 DEF Finish
  <2>2. /\ session \in 1..Now /\ started \in 1..Now /\ started <= session
        /\ Now \in Nat /\ \A w \in session..Now : w \in started..Now
    BY <1>1, SessionVersion
  <2>3. /\ cookie # None => cookie \in 1..Now /\ cookie <= session
        /\ cookie \in 1..MaxVersion \cup {None}
    <3>1. Now \in 1..MaxVersion /\ MaxVersion \in Nat
      BY BoundAssumption DEF IndInv, DirectoryInv
    <3>2. session \in 1..MaxVersion
      BY <2>2, <3>1
    <3>3. staged.cookie \in 1..MaxVersion \cup {None}
      BY DEF IndInv, RefreshInv, RefreshType, Checkpoint
    <3>4. staged.cookie # None => staged.cookie \in 1..Now
      BY DEF IndInv, RefreshInv, RefreshType
    <3>5. pc = "stream" /\ staged.cookie # None => staged.cookie <= session
      BY DEF IndInv, RefreshInv, Timed
    <3> QED
      BY <2>2, <3>2, <3>3, <3>4, <3>5
  <2>4. staged' \in Checkpoint /\ staged'.cookie = cookie /\ staged'.records = retain
    <3>1. retain \in [Key -> StoredRecord \cup {None}]
      BY Retained DEF IndInv, RefreshInv, RefreshType
    <3> QED
      BY <2>1, <2>3, <3>1 DEF Checkpoint
  <2>5. RefreshType' /\ Clean' /\ Timed'
    <3>1. RefreshType'
      <4>1. session' \in 0..Now' /\ started' \in 0..Now'
        BY <1>2, <2>1, <2>2
      <4>2. staged' \in Checkpoint /\ (staged'.cookie # None => staged'.cookie \in 1..Now')
        BY <1>2, <2>3, <2>4
      <4>3. present' \subseteq Key /\ pending' \subseteq Uuid
        BY <2>1 DEF IndInv, RefreshInv, RefreshType
      <4> QED
        BY <2>1, <4>1, <4>2, <4>3 DEF RefreshType
    <3>2. Clean' /\ Timed'
      BY <2>1, <2>2 DEF Clean, Timed
    <3> QED
      BY <3>1, <3>2
  <2>6. StreamInv' /\ PollInv'
    BY <2>1 DEF StreamInv, PollInv
  <2>7. Resumable(staged)'
    <3> SUFFICES ASSUME cookie # None PROVE Resumable(staged)'
      BY <2>4 DEF Resumable
    <3>1. pc = "stream" /\ cookie \in 1..Now /\ \A w \in session..Now : w \in cookie..Now
      BY <2>2, <2>3
    <3>2. \A u \in Uuid : Was(retain[u], u, session)
      BY <1>1, <3>1, Retained DEF IndInv, RefreshInv, StreamInv, Key
    <3>3. \A k \in Serial : retain[k] = None
      BY <3>1, Retained DEF IndInv, RefreshInv, StreamInv, Kept, Key
    <3>4. ASSUME NEW u \in Uuid PROVE Was(staged.records[u], u, staged.cookie)'
      BY <1>2, <2>4, <3>1, <3>2 DEF Was
    <3> QED
      BY <1>2, <2>2, <2>4, <3>1, <3>3, <3>4 DEF Resumable
  <2>8. SnapshotIsFresh'
    <3>1. ASSUME NEW s \in Serial, \A w \in started'..Now' : Single(w, s)'
          PROVE  \E w \in started'..Now' : Reported(staged, s)' = Truth(w, s)'
      <4>1. \A w \in session..Now : Single(w, s)
        BY <1>2, <2>1, <2>2, <3>1 DEF Single
      <4>2. PICK w \in session..Now :
              {retain[k] : k \in {m \in Keys(retain) : retain[m].serial = s}} = Truth(w, s)
        BY <1>1, <1>4, <4>1, StreamReport, PollReport
      <4>3. Reported(staged, s)' = {retain[k] : k \in {m \in Keys(retain) : retain[m].serial = s}}
        BY <2>4 DEF Reported, Keys
      <4>4. Truth(w, s)' = Truth(w, s)
        BY <1>2 DEF Truth
      <4> QED
        BY <1>2, <2>1, <2>2, <4>2, <4>3, <4>4
    <3> QED
      BY <3>1 DEF SnapshotIsFresh
  <2>9. SavedInv'
    BY <2>7, <2>8 DEF SavedInv
  <2> QED
    BY <1>2, <2>5, <2>6, <2>9 DEF IndInv, RefreshInv
<1> QED
  BY <1>3, <1>4

\* The directory's last message carries the cookie of the search; a poll has none.
LEMMA finishStep ==
  ASSUME IndInv, finish
  PROVE  IndInv'
<1>1. pc \in {"stream", "poll"} /\ Finish(DoneCookie) /\ UNCHANGED faults
  BY DEF finish
<1>2. faults' \in 0..MaxFaults
  BY <1>1 DEF IndInv, DirectoryInv
<1>3. \/ pc = "stream" /\ DoneCookie \in {staged.cookie, session}
      \/ pc = "poll" /\ DoneCookie = None
  BY <1>1 DEF DoneCookie
<1> QED
  BY <1>1, <1>2, <1>3, Finished

\* Without a cookie in the last message an earlier one stays.
LEMMA FinishWithoutCookieStep ==
  ASSUME IndInv, FinishWithoutCookie
  PROVE  IndInv'
<1>1. pc = "stream" /\ Fault /\ Finish(staged.cookie)
  BY DEF FinishWithoutCookie
<1>2. faults' \in 0..MaxFaults
  BY <1>1, Counted DEF IndInv
<1> QED
  BY <1>1, <1>2, Finished

-----------------------------------------------------------------------------
(* The checkpoint file, its publication, and crashes *)

\* The file is replaced by the candidate.
LEMMA SaveRenameStep ==
  ASSUME IndInv, SaveRename
  PROVE  IndInv'
<1>1. /\ pc = "save" /\ pc' = "sync" /\ visible' = staged
      /\ UNCHANGED <<directoryVars, faults, bound, memory, durable, staged,
                     present, pending, resume, session, deletes, started>>
  BY DEF SaveRename
<1>2. DirectoryInv' /\ history' = history /\ Now' = Now
  <2>1. faults' \in 0..MaxFaults
    BY <1>1 DEF IndInv, DirectoryInv
  <2> QED
    BY <1>1, <2>1, SameDirectory DEF IndInv
<1>3. staged \in Checkpoint /\ Resumable(staged)
  BY <1>1 DEF IndInv, RefreshInv, RefreshType, SavedInv
<1>4. StoreInv'
  BY <1>1, <1>2, <1>3, SameStore DEF IndInv, StoreInv
<1>5. RefreshType' /\ Clean' /\ Timed'
  BY <1>1, <1>2 DEF IndInv, RefreshInv, RefreshType, Clean, Timed
<1>6. StreamInv' /\ PollInv'
  BY <1>1 DEF StreamInv, PollInv
<1>7. Resumable(staged)'
  BY <1>1, <1>2, <1>3 DEF Resumable, Was
<1>8. SnapshotIsFresh'
  <2>1. pc \in {"save", "sync"}
    BY <1>1
  <2>2. \A s \in Serial :
          (\A w \in started..Now : Single(w, s))
            => \E w \in started..Now : Reported(staged, s) = Truth(w, s)
    BY <2>1 DEF IndInv, RefreshInv, SavedInv, SnapshotIsFresh
  <2> QED
    <3>1. \A w, s : (Single(w, s)' <=> Single(w, s)) /\ Truth(w, s)' = Truth(w, s)
      BY <1>2 DEF Single, Truth
    <3>2. \A s : Reported(staged, s)' = Reported(staged, s)
      BY <1>1
    <3> QED
      BY <1>1, <1>2, <2>2, <3>1, <3>2 DEF SnapshotIsFresh
<1>9. SavedInv'
  BY <1>7, <1>8 DEF SavedInv
<1> QED
  BY <1>2, <1>4, <1>5, <1>6, <1>9 DEF IndInv, RefreshInv

\* Every step that ends the refresh: the publication, a fault, a crash.
LEMMA EndSteps ==
  ASSUME IndInv, Publish \/ StreamFails \/ SaveFails \/ SaveSyncFails \/ Kill \/ PowerLoss
  PROVE  IndInv'
<1>1. NoSession /\ UNCHANGED directoryVars
  BY DEF Publish, StreamFails, SaveFails, SaveSyncFails, Kill, PowerLoss
<1>2. faults' \in 0..MaxFaults
  <2>1. Fault => faults' \in 0..MaxFaults
    BY Counted DEF IndInv
  <2> QED
    <3>1. Fault \/ UNCHANGED faults
      BY DEF Publish, StreamFails, SaveFails, SaveSyncFails, Kill, PowerLoss
    <3> QED
      BY <2>1, <3>1 DEF IndInv, DirectoryInv
<1>3. DirectoryInv' /\ history' = history /\ Now' = Now
  BY <1>1, <1>2, SameDirectory DEF IndInv
<1>4. RefreshInv'
  BY <1>1, <1>3, Ended DEF IndInv
<1>5. /\ memory' \in {memory, Fresh} \/ (pc = "sync" /\ memory' = staged)
      /\ visible' \in {visible, durable} /\ durable' \in {visible, durable}
      /\ bound' \in BOOLEAN
  BY DEF IndInv, StoreInv, Publish, StreamFails, SaveFails, SaveSyncFails,
         Kill, PowerLoss, diskVars
<1>6. /\ \A c \in {memory, visible, durable, Fresh} : c \in Checkpoint /\ Resumable(c)
      /\ pc = "sync" => staged \in Checkpoint /\ Resumable(staged)
  BY FreshFacts DEF IndInv, StoreInv, RefreshInv, RefreshType, SavedInv
<1>7. /\ memory' \in Checkpoint /\ Resumable(memory')
      /\ visible' \in Checkpoint /\ Resumable(visible')
      /\ durable' \in Checkpoint /\ Resumable(durable')
  BY <1>5, <1>6
<1>8. StoreInv'
  BY <1>3, <1>5, <1>7, SameStore
<1> QED
  BY <1>3, <1>4, <1>8 DEF IndInv

-----------------------------------------------------------------------------
(* The theorems *)

\* The invariant holds at first and no step breaks it.
LEMMA Initially == Init => IndInv
<1> SUFFICES ASSUME Init PROVE IndInv
  OBVIOUS
<1> DEFINE h == [u \in Uuid |-> None]
<1>1. h \in [Uuid -> Entry \cup {None}] /\ history = <<h>>
  BY DEF Init
<1> HIDE DEF h
<1>2. history \in Seq([Uuid -> Entry \cup {None}]) /\ Now = 1 /\ history[1] = h
  BY <1>1 DEF Now
<1>3. SerialsStay /\ OneAtATime
  BY <1>2 DEF SerialsStay, OneAtATime
<1>4. DirectoryInv
  BY <1>2, <1>3, BoundAssumption DEF DirectoryInv, Init
<1>5. StoreInv
  BY FreshFacts DEF Init, StoreInv
<1>6. RefreshType
  <2>1. staged \in Checkpoint /\ staged.cookie = None
    BY FreshFacts DEF Init
  <2>2. 0 \in 0..Now
    BY <1>2
  <2> QED
    BY <2>1, <2>2 DEF Init, RefreshType
<1>7. Clean /\ Timed /\ StreamInv /\ PollInv /\ SavedInv
  BY DEF Init, Clean, Timed, StreamInv, PollInv, SavedInv, SnapshotIsFresh
<1> QED
  BY <1>4, <1>5, <1>6, <1>7 DEF IndInv, RefreshInv

\* A step in which nothing changes.
LEMMA Stutters == IndInv /\ UNCHANGED vars => IndInv'
<1> SUFFICES ASSUME IndInv, UNCHANGED vars PROVE IndInv'
  OBVIOUS
<1>1. /\ UNCHANGED directoryVars /\ UNCHANGED faults
      /\ UNCHANGED <<bound, memory, diskVars, refreshVars>>
  BY DEF vars
<1>2. DirectoryInv' /\ history' = history /\ Now' = Now
  <2>1. faults' \in 0..MaxFaults
    BY <1>1 DEF IndInv, DirectoryInv
  <2> QED
    BY <1>1, <2>1, SameDirectory DEF IndInv
<1>3. Now' >= Now /\ Now' \in Nat /\ \A w \in 1..Now : history'[w] = history[w]
  BY <1>2, BoundAssumption DEF IndInv, DirectoryInv
<1>4. StoreInv' /\ RefreshInv'
  BY <1>1, <1>3, Grown
<1> QED
  BY <1>2, <1>4 DEF IndInv

\* Every step of the directory, of the refresh and of its failures.
LEMMA Inductive == IndInv /\ [Next]_vars => IndInv'
<1> SUFFICES ASSUME IndInv, [Next]_vars PROVE IndInv'
  OBVIOUS
<1>1. CASE DirectoryStep
  BY <1>1, DirectorySteps
<1>2. CASE RefreshStep
  BY <1>2, BeginStep, RefreshRequiredStep, SearchStep, FullPollStep, StreamSteps,
     PollEntryStep, finishStep, SaveRenameStep, EndSteps DEF RefreshStep
<1>3. CASE FaultStep
  BY <1>3, EndSteps, FinishWithoutCookieStep DEF FaultStep
<1>4. CASE UNCHANGED vars
  BY <1>4, Stutters
<1> QED
  BY <1>1, <1>2, <1>3, <1>4 DEF Next

\* The invariant holds in every reachable state.
LEMMA Invariance == Spec => []IndInv
BY Initially, Inductive, PTL DEF Spec

\* Type correctness of the synchronization: in particular no candidate carries a
\* cookie of a version that the directory has not reached.
THEOREM TypeCorrect == Spec => []TypeOK
<1>1. IndInv => TypeOK
  BY DEF IndInv, DirectoryInv, StoreInv, RefreshInv, RefreshType, TypeOK
<1> QED
  BY <1>1, Invariance, PTL

\* Resuming from the cookie of the checkpoint in memory, or of either file that
\* a crash leaves, loses nothing, however the directory changed while it was
\* read, trimmed its log or failed over, and wherever the refresh was cut off.
THEOREM Resumes == Spec => []CheckpointResumes
<1>1. IndInv => CheckpointResumes
  BY DEF IndInv, StoreInv, Resumable, Was, CheckpointResumes
<1> QED
  BY <1>1, Invariance, PTL

\* A refresh that is about to be saved says of every serial something that was
\* true at one moment since the refresh began.
THEOREM FreshSnapshot == Spec => []SnapshotIsFresh
<1>1. IndInv => SnapshotIsFresh
  BY DEF IndInv, RefreshInv, SavedInv
<1> QED
  BY <1>1, Invariance, PTL

=============================================================================
