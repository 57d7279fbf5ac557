------------------------------ MODULE DogtagSync ------------------------------
(***************************************************************************)
(* The Dogtag revocation source: RFC 4533 content synchronization with the *)
(* CA's directory, a full poll of directories that do not implement it,    *)
(* and the checkpoint that holds the population and the resume cookie      *)
(* together, on disk and in memory.                                        *)
(*                                                                         *)
(* The directory is external.  It goes through a history of contents; a    *)
(* cookie is a position in that history.  It changes while it is being     *)
(* read: an entry is sent as it is when it is sent, not as it was when the *)
(* search began.                                                           *)
(***************************************************************************)
EXTENDS Integers, Sequences

CONSTANTS
  Uuid,        \* directory entries
  Serial,      \* certificate serial numbers
  None,
  MaxVersion,  \* bound on the directory's history
  MaxFaults    \* bound on the number of faults and failovers

ASSUME BoundAssumption == MaxVersion \in Nat \ {0} /\ MaxFaults \in Nat
ASSUME KeyAssumption == Uuid \cap Serial = {} /\ None \notin Uuid \cup Serial

\* certStatus of a certificateRecord.
CertStatus == {"VALID", "INVALID", "EXPIRED", "REVOKED", "REVOKED_EXPIRED"}
Entry == [serial : Serial, status : CertStatus]

\* Records are keyed by entry UUID, after a full poll by serial.
Key == Uuid \cup Serial
StoredRecord == [serial : Serial, status : {"good", "revoked", "excluded"}]
Checkpoint == [cookie   : 1..MaxVersion \cup {None},
               records  : [Key -> StoredRecord \cup {None}],
               complete : BOOLEAN]

ASSUME NoneAssumption == None \notin Entry \cup StoredRecord \cup (1..MaxVersion)

VARIABLES
  history,   \* the directory's contents so far
  oldest,    \* the oldest position the directory can still resume from
  plain,     \* the directory does not implement RFC 4533
  faults,    \* faults and failovers so far
  bound,     \* the source has loaded its checkpoint
  memory,    \* its checkpoint in memory
  visible,   \* the checkpoint file
  durable,   \* the checkpoint file a power loss leaves
  pc,        \* where the refresh is
  staged,    \* the candidate checkpoint of the refresh
  present,   \* the keys the refresh has reported present
  pending,   \* what the directory still has to send, by entry
  resume,    \* the cookie the search was made with
  session,   \* the position of the directory when the search began
  deletes,   \* refreshDeletes of the directory's answer
  started    \* the position of the directory when the refresh began

directoryVars == <<history, oldest, plain>>
diskVars == <<visible, durable>>
refreshVars == <<pc, staged, present, pending, resume, session, deletes, started>>
vars == <<directoryVars, faults, bound, memory, diskVars, refreshVars>>

Now == Len(history)
Directory == history[Now]

NoRecords == [k \in Key |-> None]
Fresh == [cookie |-> None, records |-> NoRecords, complete |-> FALSE]

-----------------------------------------------------------------------------
(* The directory *)

Record(change) ==
  /\ Now < MaxVersion
  /\ history' = Append(history, change)
  /\ UNCHANGED <<oldest, plain, faults, bound, memory, diskVars, refreshVars>>

\* A UUID is never given to a second entry.
Issue(u, s) ==
  /\ \A w \in 1..Now : history[w][u] = None
  /\ Record([Directory EXCEPT ![u] = [serial |-> s, status |-> "VALID"]])

\* Revocation, release from hold, expiry.
Successors(st) ==
  CASE st = "VALID"   -> {"REVOKED", "EXPIRED", "INVALID"}
    [] st = "INVALID" -> {"VALID"}
    [] st = "REVOKED" -> {"VALID", "REVOKED_EXPIRED"}
    [] OTHER          -> {}

Change(u) ==
  /\ Directory[u] # None
  /\ \E st \in Successors(Directory[u].status) :
       Record([Directory EXCEPT ![u] = [@ EXCEPT !.status = st]])

Remove(u) ==
  /\ Directory[u] # None
  /\ Record([Directory EXCEPT ![u] = None])

\* The directory forgets how it came to its present content.
Trim ==
  /\ oldest < Now
  /\ oldest' = Now
  /\ UNCHANGED <<history, plain, faults, bound, memory, diskVars, refreshVars>>

\* Another server answers, with or without RFC 4533.
Failover ==
  /\ faults < MaxFaults
  /\ faults' = faults + 1
  /\ plain' = ~plain
  /\ pc = "idle"
  /\ UNCHANGED <<history, oldest, bound, memory, diskVars, refreshVars>>

-----------------------------------------------------------------------------
(* Refresh *)

NoSession ==
  /\ pc' = "idle"
  /\ staged' = Fresh
  /\ present' = {}
  /\ pending' = {}
  /\ resume' = None
  /\ session' = 0
  /\ deletes' = FALSE
  /\ started' = 0

Fault ==
  /\ faults < MaxFaults
  /\ faults' = faults + 1

load_checkpoint == IF visible.complete THEN visible ELSE Fresh

\* refresh takes the lock and, the first time, the checkpoint of the disk.
Begin ==
  /\ pc = "idle"
  /\ bound' = TRUE
  /\ memory' = IF bound THEN memory ELSE load_checkpoint
  /\ staged' = memory'
  /\ started' = Now
  /\ pc' = "search"
  /\ UNCHANGED <<directoryVars, faults, diskVars, present, pending, resume,
                 session, deletes>>

\* The directory can no longer tell what changed since the cookie.
Stale == staged.cookie # None /\ staged.cookie < oldest

\* Mutant: syncRefreshRequired is an error as any other.
RefreshRequiredFails ==
  /\ pc = "search"
  /\ ~plain
  /\ Stale
  /\ NoSession
  /\ UNCHANGED <<directoryVars, faults, bound, memory, diskVars>>

\* syncRefreshRequired: start over, without cookie and records.
RefreshRequired ==
  /\ pc = "search"
  /\ ~plain
  /\ Stale
  /\ staged' = Fresh
  /\ UNCHANGED <<directoryVars, faults, bound, memory, diskVars, pc, present,
                 pending, resume, session, deletes, started>>

Changed(u, from) == \E w \in from..Now : history[w][u] # history[from][u]

\* The search begins.  With a cookie the directory sends what changed since
\* and either deletions (refreshDeletes) or the entries that did not change;
\* without one it sends everything.
Search ==
  /\ pc = "search"
  /\ ~plain
  /\ ~Stale
  /\ deletes' \in BOOLEAN
  /\ staged' = IF staged.cookie = None THEN Fresh ELSE staged
  /\ pending' =
       {u \in Uuid :
          IF staged.cookie = None \/ ~deletes' THEN Directory[u] # None
          ELSE Changed(u, staged.cookie)}
  /\ resume' = staged.cookie
  /\ session' = Now
  /\ pc' = "stream"
  /\ UNCHANGED <<directoryVars, faults, bound, memory, diskVars, present,
                 started>>

\* unavailableCriticalExtension: do_full_poll.
FullPoll ==
  /\ pc = "search"
  /\ plain
  /\ staged' = Fresh
  /\ pending' = {u \in Uuid : Directory[u] # None}
  /\ session' = Now
  /\ pc' = "poll"
  /\ UNCHANGED <<directoryVars, faults, bound, memory, diskVars, present,
                 resume, deletes, started>>

parse_cert_entry(e) ==
  [serial |-> e.serial,
   status |-> CASE e.status = "VALID" -> "good"
                [] e.status \in {"INVALID", "EXPIRED"} -> "excluded"
                [] OTHER -> "revoked"]

\* The entry is one the client has according to its cookie.
Known(u) == resume # None /\ Directory[u] # None /\ ~Changed(u, resume)

\* Any message may carry a cookie.
Stream(u) ==
  /\ pc = "stream"
  /\ u \in pending
  /\ pending' = pending \ {u}
  /\ UNCHANGED <<directoryVars, faults, bound, memory, diskVars, resume,
                 session, deletes, started>>

\* apply_entry: Add and Modify.
ApplyUpdate(u) ==
  /\ Stream(u)
  /\ Directory[u] # None
  /\ ~Known(u)
  /\ \E cookie \in {staged.cookie, session} :
       staged' = [staged EXCEPT !.cookie = cookie,
                                !.records[u] = parse_cert_entry(Directory[u])]
  /\ present' = present \cup {u}
  /\ UNCHANGED pc

\* apply_entry: Delete, and a SyncIdSet of deletions.
ApplyDelete(u) ==
  /\ Stream(u)
  /\ deletes
  /\ Directory[u] = None
  /\ \E cookie \in {staged.cookie, session} :
       staged' = [staged EXCEPT !.cookie = cookie, !.records[u] = None]
  /\ UNCHANGED <<pc, present>>

\* The entry was removed before its turn and its absence will tell.
Skip(u) ==
  /\ Stream(u)
  /\ ~deletes
  /\ Directory[u] = None
  /\ UNCHANGED <<pc, staged, present>>

\* SyncIdSet of entries that are present.
SyncIdSet(u) ==
  /\ Stream(u)
  /\ Known(u)
  /\ \E cookie \in {staged.cookie, session} :
       staged' = [staged EXCEPT !.cookie = cookie]
  /\ present' = present \cup {u}
  /\ UNCHANGED pc

\* apply_entry: Present, an error when the checkpoint does not have it.
ApplyPresent(u) ==
  /\ pc = "stream"
  /\ u \in pending
  /\ Known(u)
  /\ IF staged.records[u] = None
       THEN NoSession
       ELSE /\ \E cookie \in {staged.cookie, session} :
                 staged' = [staged EXCEPT !.cookie = cookie]
            /\ pending' = pending \ {u}
            /\ present' = present \cup {u}
            /\ UNCHANGED <<pc, resume, session, deletes, started>>
  /\ UNCHANGED <<directoryVars, faults, bound, memory, diskVars>>

\* do_full_poll reads one entry.
PollEntry(u) ==
  /\ pc = "poll"
  /\ u \in pending
  /\ pending' = pending \ {u}
  /\ IF Directory[u] = None
       THEN UNCHANGED <<staged, present>>
       ELSE LET record == parse_cert_entry(Directory[u]) IN
            /\ staged' = [staged EXCEPT !.records[record.serial] = record]
            /\ present' = present \cup {record.serial}
  /\ UNCHANGED <<directoryVars, faults, bound, memory, diskVars, pc, resume,
                 session, deletes, started>>

\* Mutant: what has arrived is kept.
StreamFailsKept ==
  /\ pc \in {"search", "stream", "poll"}
  /\ Fault
  /\ memory' = [staged EXCEPT !.complete = TRUE]
  /\ NoSession
  /\ UNCHANGED <<directoryVars, bound, diskVars>>

\* The connection, the bind, the stream or an entry is bad.
StreamFails ==
  /\ pc \in {"search", "stream", "poll"}
  /\ Fault
  /\ NoSession
  /\ UNCHANGED <<directoryVars, bound, memory, diskVars>>

Keys(records) == {k \in Key : records[k] # None}

\* Mutant: entries that were not reported present stay.
retain_all == staged.records

retain == [k \in Key |-> IF deletes \/ k \in present THEN staged.records[k] ELSE None]

UniqueSerials(records) ==
  \A k, m \in Keys(records) : records[k].serial = records[m].serial => k = m

\* Mutant: the resume position is the next change.
DoneCookieNext == IF pc = "poll" THEN None ELSE session + 1

\* The cookie of the Sync Done control; a poll has none.
DoneCookie == IF pc = "poll" THEN None ELSE session

\* The candidate is complete, or refused because a serial occurs twice.
Finish(cookie) ==
  /\ pending = {}
  /\ IF UniqueSerials(retain)
       THEN /\ staged' = [cookie |-> cookie, records |-> retain, complete |-> TRUE]
            /\ pc' = "save"
            /\ present' = {}
            /\ resume' = None
            /\ session' = 0
            /\ deletes' = FALSE
            /\ UNCHANGED <<pending, started>>
       ELSE NoSession
  /\ UNCHANGED <<directoryVars, bound, memory, diskVars>>

finish ==
  /\ pc \in {"stream", "poll"}
  /\ Finish(DoneCookie)
  /\ UNCHANGED faults

\* The control has no cookie: the last one that a message carried stays, or the one
\* the search was made with. MaxFaults bounds how often a directory leaves it out.
FinishWithoutCookie ==
  /\ pc = "stream"
  /\ Fault
  /\ Finish(staged.cookie)

-----------------------------------------------------------------------------
(* save_checkpoint, and the publication in memory *)

SaveFails ==
  /\ pc = "save"
  /\ Fault
  /\ NoSession
  /\ UNCHANGED <<directoryVars, bound, memory, diskVars>>

SaveRename ==
  /\ pc = "save"
  /\ visible' = staged
  /\ pc' = "sync"
  /\ UNCHANGED <<directoryVars, faults, bound, memory, durable, staged, present,
                 pending, resume, session, deletes, started>>

\* The file is replaced and the directory fsync fails.
SaveSyncFails ==
  /\ pc = "sync"
  /\ Fault
  /\ NoSession
  /\ UNCHANGED <<directoryVars, bound, memory, diskVars>>

Publish ==
  /\ pc = "sync"
  /\ durable' = visible
  /\ memory' = staged
  /\ NoSession
  /\ UNCHANGED <<directoryVars, faults, bound, visible>>

\* The process ends.
Kill ==
  /\ Fault
  /\ bound' = FALSE
  /\ memory' = Fresh
  /\ NoSession
  /\ UNCHANGED <<directoryVars, diskVars>>

\* The disk has either file after a power loss.
PowerLoss ==
  /\ Fault
  /\ bound' = FALSE
  /\ memory' = Fresh
  /\ \E file \in {visible, durable} : visible' = file /\ durable' = file
  /\ NoSession
  /\ UNCHANGED directoryVars

Init ==
  /\ history = <<[u \in Uuid |-> None]>>
  /\ oldest = 1
  /\ plain \in BOOLEAN
  /\ faults = 0
  /\ bound = FALSE
  /\ memory = Fresh
  /\ visible = Fresh
  /\ durable = Fresh
  /\ pc = "idle"
  /\ staged = Fresh
  /\ present = {}
  /\ pending = {}
  /\ resume = None
  /\ session = 0
  /\ deletes = FALSE
  /\ started = 0

DirectoryStep ==
  \/ \E u \in Uuid, s \in Serial : Issue(u, s)
  \/ \E u \in Uuid : Change(u) \/ Remove(u)
  \/ Trim
  \/ Failover

RefreshStep ==
  \/ Begin \/ RefreshRequired \/ Search \/ FullPoll
  \/ \E u \in Uuid :
       \/ ApplyUpdate(u) \/ ApplyDelete(u) \/ Skip(u)
       \/ SyncIdSet(u) \/ ApplyPresent(u) \/ PollEntry(u)
  \/ finish \/ SaveRename \/ Publish

FaultStep == StreamFails \/ FinishWithoutCookie \/ SaveFails \/ SaveSyncFails \/ Kill \/ PowerLoss

Next == DirectoryStep \/ RefreshStep \/ FaultStep

Spec == Init /\ [][Next]_vars

\* The signer loop asks for a snapshot again and again, and a refresh goes on.
FairSpec == Spec /\ WF_vars(RefreshStep)

-----------------------------------------------------------------------------
(* Properties *)

TypeOK ==
  /\ history \in Seq([Uuid -> Entry \cup {None}])
  /\ oldest \in 1..Now
  /\ plain \in BOOLEAN
  /\ faults \in 0..MaxFaults
  /\ bound \in BOOLEAN
  /\ memory \in Checkpoint
  /\ visible \in Checkpoint
  /\ durable \in Checkpoint
  /\ pc \in {"idle", "search", "stream", "poll", "save", "sync"}
  /\ staged \in Checkpoint
  /\ staged.cookie # None => staged.cookie \in 1..Now
  /\ present \subseteq Key
  /\ pending \subseteq Uuid
  /\ resume \in 1..MaxVersion \cup {None}
  /\ session \in 0..Now
  /\ deletes \in BOOLEAN
  /\ started \in 0..Now

\* What the checkpoint holds of an entry.
Held(e) == IF e = None THEN None ELSE parse_cert_entry(e)

\* Resuming from the cookie loses nothing: the record of every entry is what
\* the directory held at the cookie's position or later, so that whatever the
\* checkpoint does not know yet is a change the directory still has to report.
\* This holds of the checkpoint in memory and of either file a crash leaves.
CheckpointResumes ==
  \A c \in {memory, visible, durable} :
    c.cookie # None =>
      \A u \in Uuid : \E w \in c.cookie..Now : c.records[u] = Held(history[w][u])

\* What the directory says of a serial, and what the candidate says of it.
Truth(w, s) ==
  {parse_cert_entry(history[w][u]) :
     u \in {v \in Uuid : history[w][v] # None /\ history[w][v].serial = s}}
Reported(c, s) == {c.records[k] : k \in {m \in Keys(c.records) : c.records[m].serial = s}}

\* At most one entry of version w carries the serial.
Single(w, s) ==
  \A u, v \in Uuid :
    /\ history[w][u] # None /\ history[w][u].serial = s
    /\ history[w][v] # None /\ history[w][v].serial = s
    => u = v

\* A refresh that is about to be saved says of every serial something that was
\* true at one moment since the refresh began: it never mixes an old status
\* with a new cookie, whichever way the directory answered and changed.
SnapshotIsFresh ==
  pc \in {"save", "sync"} =>
    \A s \in Serial :
      (\A w \in started..Now : Single(w, s))
        => \E w \in started..Now : Reported(staged, s) = Truth(w, s)

\* Snapshots catch up with the directory: whatever failed, was trimmed, failed
\* over or crashed, the checkpoint in memory again and again agrees with the
\* directory once it is quiet, unless the directory holds a serial twice.
Agrees == \A s \in Serial : Reported(memory, s) = Truth(Now, s)
Ambiguous == \E s \in Serial : ~Single(Now, s)
SnapshotsCatchUp == []<>(Agrees \/ Ambiguous)
=============================================================================
