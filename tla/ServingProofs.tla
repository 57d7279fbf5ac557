------------------------------ MODULE ServingProofs ------------------------------
(***************************************************************************)
(* Proofs about Serving, for every number of labels of a scope and every   *)
(* configuration of them, any set of concurrent requests, every validity   *)
(* and certificate lifetime.                                               *)
(***************************************************************************)
EXTENDS Serving, FiniteSetTheorems, WellFoundedInduction, TLAPS

-----------------------------------------------------------------------------
(* The inductive invariant *)

Places == {"idle", "lookup", "found", "missed", "respond", "forward", "lock",
           "lockUnknown", "sign", "signUnknown", "done"}

Signs(p) == p \in {"sign", "signUnknown"}

\* The server's own state.
Shape ==
  /\ setup \in Setups
  /\ issued \subseteq Serials
  /\ revoked \subseteq issued
  /\ file \in [Labels -> Bundle]
  /\ map \in [Labels -> Bundle]
  /\ live \in [Labels -> Certificate \cup {None}]
  /\ now \in 0..MaxTime
  /\ version \in 0..MaxVersion
  /\ pc \in [Requests -> Places]
  /\ DOMAIN req = Requests
  /\ answer \in [Requests -> Answer \cup {None}]

\* A live signer has the certificate of its label, issued no later than now.
Certified ==
  \A l \in Labels : live[l] # None =>
    /\ live[l].label = l
    /\ live[l].notAfter <= now + CertLife

\* What a request may hold.
Request ==
  [serial: Serials \cup {None}, nonce: BOOLEAN, hit: Bundle \cup {None},
   label: Labels \cup {None}, signer: Certificate \cup {None},
   since: [Labels -> Nat] \cup {None}, asked: Nat]

\* What it holds once its handler knows what is asked.
Asked(q) == q \in Request /\ q.serial \in Serials /\ q.since \in [Labels -> Nat]

\* It holds a bundle with an entry for its serial, from its label.
Located(q) ==
  /\ q.label \in Labels
  /\ q.hit \in Bundle
  /\ q.serial \in DOMAIN q.hit.entries

\* It holds the signer of its label, or one that replaced it, as they were when
\* it arrived.
Equipped(q) ==
  /\ q.label \in Labels
  /\ q.signer \in Certificate
  /\ q.signer.label = q.label
  /\ q.signer.notAfter >= q.since[q.label]

Progress(p, q) ==
  /\ p \notin {"idle", "done"} => Asked(q)
  /\ p \in {"found", "respond", "lock", "sign"} => Located(q)
  /\ p \in {"lock", "sign", "lockUnknown", "signUnknown"} => Equipped(q)

\* A signer that is read later is not older than the one in use on arrival.
NotOlder(q) ==
  \A l \in Labels : live[l] # None => q.since[l] <= live[l].notAfter

\* What is true of an answer, for what the request had read.
Sound(q, a) ==
  /\ a \in Answer
  /\ a.kind \in {"presigned", "live"} =>
       /\ a.status = q.hit.entries[q.serial]
       /\ q.hit.from <= a.at
       /\ a.at < q.hit.until
  /\ a.kind = "presigned" => a.at + a.cached <= q.hit.until
  /\ a.kind = "live" =>
       /\ a.this = q.hit.from
       /\ a.at < a.next
       /\ a.next <= q.hit.until
       /\ a.at < q.signer.notAfter
  /\ a.kind \in {"live", "unknown"} =>
       /\ a.produced < q.signer.notAfter
       /\ a.next <= q.signer.notAfter
       /\ q.signer.label = q.label
       /\ q.signer.notAfter >= q.since[q.label]

\* Where a request is, with what it holds and what it has answered.
RequestInv(r) ==
  /\ Progress(pc[r], req[r])
  /\ pc[r] \in {"lookup", "found", "missed"} => NotOlder(req[r])
  /\ IF pc[r] = "done" THEN Sound(req[r], answer[r]) ELSE answer[r] = None

\* The mutex of a signer is held by the one request that signs with it.
Exclusive ==
  /\ \A r, t \in Requests :
       r # t /\ Signs(pc[r]) /\ Signs(pc[t]) => req[r].signer # req[t].signer
  /\ busy = {req[r].signer : r \in {t \in Requests : Signs(pc[t])}}

IndInv ==
  /\ Shape
  /\ Certified
  /\ \A r \in Requests : RequestInv(r)
  /\ Exclusive

-----------------------------------------------------------------------------
(* The scope map *)

\* The label order is a non-empty sequence of labels.
LEMMA OrderFacts ==
  /\ DOMAIN Order = 1..Len(Order)
  /\ Len(Order) \in Nat
  /\ \A i \in DOMAIN Order : Order[i] \in Labels
  /\ Order[1] \in Labels
<1>1. /\ DOMAIN Order = 1..Len(Order)
      /\ Len(Order) \in Nat
      /\ 1 \in DOMAIN Order
  BY ServingAssumption
<1> QED
  BY <1>1 DEF Labels

\* A non-empty set of natural numbers has a smallest one.
LEMMA Smallest ==
  ASSUME NEW S, S \subseteq Nat, S # {}
  PROVE  \E m \in S : \A n \in S : m <= n
<1> DEFINE R == OpToRel(<, Nat)
<1>1. IsWellFoundedOn(R, Nat)
  BY NatLessThanWellFounded, Zenon
<1>2. \A x \in S, y \in S : x < y => <<x, y>> \in R
  BY DEF OpToRel
<1> HIDE DEF R
<1>3. PICK m \in S : \A n \in S : ~(<<n, m>> \in R)
  BY <1>1, WFMin
<1>4. \A n \in S : n \in Nat /\ m \in Nat
  OBVIOUS
<1>5. \A n \in S : ~(n < m)
  BY <1>2, <1>3
<1> QED
  BY <1>4, <1>5

\* A non-empty set of positions has a first one.
LEMMA FirstExists ==
  ASSUME NEW I, I \subseteq DOMAIN Order, I # {}
  PROVE  First(I) \in I /\ \A j \in I : First(I) <= j
<1>1. I \subseteq Nat
  BY OrderFacts
<1>2. \E i \in I : \A j \in I : i <= j
  BY <1>1, Smallest
<1> QED
  BY <1>2 DEF First

\* lookup finds a label that has an entry for the serial, if any has.
LEMMA LookupFacts ==
  ASSUME Shape, NEW s \in Serials
  PROVE  \/ lookup(s) = None
         \/ lookup(s) \in Labels /\ s \in DOMAIN map[lookup(s)].entries
<1>1. CASE Hits(s) = {}
  BY <1>1 DEF lookup
<1>2. CASE Hits(s) # {}
  <2>1. Hits(s) \subseteq DOMAIN Order
    BY DEF Hits
  <2>2. First(Hits(s)) \in Hits(s)
    BY <1>2, <2>1, FirstExists
  <2>3. lookup(s) = Order[First(Hits(s))]
    BY <1>2 DEF lookup
  <2> QED
    BY <2>1, <2>2, <2>3, OrderFacts DEF Hits
<1> QED
  BY <1>1, <1>2

-----------------------------------------------------------------------------
(* Moves of a request *)

\* The requests, as far as Shape is about them.
Tasks ==
  /\ pc \in [Requests -> Places]
  /\ DOMAIN req = Requests
  /\ answer \in [Requests -> Answer \cup {None}]

\* A request that goes on to the next place of its handler.
LEMMA GoStep ==
  ASSUME Tasks, \A t \in Requests : RequestInv(t), NEW r \in Requests,
         pc[r] # "done", NEW step \in Places \ {"done"}, NEW q, Go(r, step, q),
         UNCHANGED <<answer, live>>,
         Progress(step, q),
         step \in {"lookup", "found", "missed"} => NotOlder(q)
  PROVE  Tasks' /\ \A t \in Requests : RequestInv(t)'
<1>1. /\ pc' = [pc EXCEPT ![r] = step]
      /\ req' = [req EXCEPT ![r] = q]
      /\ answer' = answer
      /\ live' = live
  BY DEF Go
<1>2. Tasks'
  BY <1>1 DEF Tasks
<1>3. ASSUME NEW t \in Requests PROVE RequestInv(t)'
  <2>1. CASE t = r
    <3>1. pc'[t] = step /\ req'[t] = q /\ answer'[t] = None
      BY <1>1, <2>1 DEF Tasks, RequestInv
    <3> QED
      BY <1>1, <3>1 DEF RequestInv, NotOlder
  <2>2. CASE t # r
    <3>1. pc'[t] = pc[t] /\ req'[t] = req[t] /\ answer'[t] = answer[t]
      BY <1>1, <2>2 DEF Tasks
    <3> QED
      BY <1>1, <3>1 DEF RequestInv, NotOlder
  <2> QED
    BY <2>1, <2>2
<1> QED
  BY <1>2, <1>3

\* A request that is answered.
LEMMA ReplyStep ==
  ASSUME Tasks, \A t \in Requests : RequestInv(t), NEW r \in Requests,
         NEW a, Reply(r, a), UNCHANGED live, Sound(req[r], a)
  PROVE  Tasks' /\ \A t \in Requests : RequestInv(t)'
<1>1. /\ pc' = [pc EXCEPT ![r] = "done"]
      /\ req' = req
      /\ answer' = [answer EXCEPT ![r] = a]
      /\ live' = live
  BY DEF Reply
<1>2. Tasks'
  BY <1>1 DEF Tasks, Places, Sound
<1>3. ASSUME NEW t \in Requests PROVE RequestInv(t)'
  <2>1. CASE t = r
    <3>1. pc'[t] = "done" /\ req'[t] = req[r] /\ answer'[t] = a
      BY <1>1, <2>1 DEF Tasks
    <3> QED
      BY <3>1 DEF RequestInv, Progress
  <2>2. CASE t # r
    <3>1. pc'[t] = pc[t] /\ req'[t] = req[t] /\ answer'[t] = answer[t]
      BY <1>1, <2>2 DEF Tasks
    <3> QED
      BY <1>1, <3>1 DEF RequestInv, NotOlder
  <2> QED
    BY <2>1, <2>2
<1> QED
  BY <1>2, <1>3

\* An error answer claims nothing.
LEMMA ErrorSound ==
  ASSUME NEW q, NEW what \in {"malformed", "tryLater", "internalError",
                              "unauthorized", "forwarded"}
  PROVE  Sound(q, Error(what))
BY DEF Sound, Error, Answer

\* A request that neither takes nor releases a mutex.
LEMMA NoMutexStep ==
  ASSUME Tasks, Exclusive, NEW r \in Requests, NEW step, ~Signs(pc[r]), ~Signs(step),
         pc' = [pc EXCEPT ![r] = step],
         \A t \in Requests \ {r} : req'[t] = req[t],
         busy' = busy
  PROVE  Exclusive'
<1>1. \A t \in Requests : Signs(pc'[t]) <=> Signs(pc[t])
  BY DEF Tasks
<1>2. \A t \in Requests : Signs(pc[t]) => req'[t] = req[t]
  OBVIOUS
<1>3. {t \in Requests : Signs(pc'[t])} = {t \in Requests : Signs(pc[t])}
  BY <1>1
<1>4. busy' = {req'[t].signer : t \in {u \in Requests : Signs(pc'[u])}}
  BY <1>2, <1>3 DEF Exclusive
<1>5. \A u, t \in Requests :
        u # t /\ Signs(pc'[u]) /\ Signs(pc'[t]) => req'[u].signer # req'[t].signer
  BY <1>1, <1>2 DEF Exclusive
<1> QED
  BY <1>4, <1>5 DEF Exclusive

\* A request that takes a free mutex.
LEMMA LockStep ==
  ASSUME Tasks, Exclusive, NEW r \in Requests, NEW step, Signs(step),
         ~Signs(pc[r]), req[r].signer \notin busy,
         Go(r, step, req[r]),
         busy' = busy \cup {req[r].signer}
  PROVE  Exclusive'
<1>1. \A t \in Requests : pc'[t] = (IF t = r THEN step ELSE pc[t]) /\ req'[t] = req[t]
  BY DEF Go, Tasks
<1>2. \A t \in Requests : Signs(pc'[t]) <=> t = r \/ Signs(pc[t])
  BY <1>1
<1>3. busy' = {req'[t].signer : t \in {u \in Requests : Signs(pc'[u])}}
  BY <1>1, <1>2 DEF Exclusive
<1>4. \A t \in Requests : Signs(pc[t]) => req[t].signer # req[r].signer
  BY DEF Exclusive
<1>5. \A u, t \in Requests :
        u # t /\ Signs(pc'[u]) /\ Signs(pc'[t]) => req'[u].signer # req'[t].signer
  BY <1>1, <1>2, <1>4 DEF Exclusive
<1> QED
  BY <1>3, <1>5 DEF Exclusive

\* A request that has signed, or failed to, and releases its mutex.
LEMMA UnlockStep ==
  ASSUME Tasks, Exclusive, NEW r \in Requests, NEW a, Signs(pc[r]),
         Reply(r, a),
         busy' = busy \ {req[r].signer}
  PROVE  Exclusive'
<1>1. \A t \in Requests : pc'[t] = (IF t = r THEN "done" ELSE pc[t]) /\ req'[t] = req[t]
  BY DEF Reply, Tasks
<1>2. \A t \in Requests : Signs(pc'[t]) <=> t # r /\ Signs(pc[t])
  BY <1>1 DEF Signs
<1>3. \A t \in Requests : t # r /\ Signs(pc[t]) => req[t].signer # req[r].signer
  BY DEF Exclusive
<1>4. busy' = {req'[t].signer : t \in {u \in Requests : Signs(pc'[u])}}
  BY <1>1, <1>2, <1>3 DEF Exclusive
<1>5. \A u, t \in Requests :
        u # t /\ Signs(pc'[u]) /\ Signs(pc'[t]) => req'[u].signer # req'[t].signer
  BY <1>1, <1>2 DEF Exclusive
<1> QED
  BY <1>4, <1>5 DEF Exclusive

-----------------------------------------------------------------------------
(* The handler, step by step *)

\* What a step of request r must keep.
Kept == Tasks /\ Exclusive /\ \A t \in Requests : RequestInv(t)

\* The numbers of the configuration.
LEMMA Numbers ==
  /\ Validity \in Nat \ {0}
  /\ CertLife \in Nat \ {0}
  /\ MaxAge \in Nat
  /\ MaxTime \in Nat
  /\ MaxVersion \in Nat
BY ServingAssumption

\* A malformed request is answered with an error.
LEMMA MalformedStep ==
  ASSUME IndInv, NEW r \in Requests, Malformed(r) PROVE Kept'
<1>1. /\ pc[r] = "idle"
      /\ Reply(r, Error("malformed"))
      /\ live' = live
      /\ busy' = busy
  BY DEF Malformed, env
<1>2. Sound(req[r], Error("malformed"))
  BY ErrorSound
<1>3. Tasks' /\ \A t \in Requests : RequestInv(t)'
  BY <1>1, <1>2, ReplyStep DEF IndInv, Shape, Tasks
<1>4. Exclusive'
  BY <1>1, NoMutexStep DEF IndInv, Shape, Tasks, Reply, Signs
<1> QED
  BY <1>3, <1>4 DEF Kept

\* A request arrives: the certificates in use are noted.
LEMMA ArriveStep ==
  ASSUME IndInv, NEW r \in Requests, NEW s \in Serials, NEW n \in BOOLEAN, Arrive(r, s, n)
  PROVE  Kept'
<1> DEFINE q == [NoRequest EXCEPT !.serial = s, !.nonce = n, !.since = InUse]
<1>1. /\ pc[r] = "idle"
      /\ Go(r, "lookup", q)
      /\ live' = live
      /\ busy' = busy
      /\ answer' = answer
  BY DEF Arrive, env
<1>2. InUse \in [Labels -> Nat]
  BY DEF InUse, IndInv, Shape, Certificate
<1>3. q \in Request /\ q.serial = s /\ q.since = InUse
  BY <1>2 DEF NoRequest, Request
<1> HIDE DEF q
<1>4. Progress("lookup", q)
  BY <1>2, <1>3 DEF Progress, Asked
<1>5. NotOlder(q)
  BY <1>3 DEF NotOlder, InUse, IndInv, Shape, Certificate
<1>6. Tasks' /\ \A t \in Requests : RequestInv(t)'
  BY <1>1, <1>4, <1>5, GoStep DEF IndInv, Shape, Tasks, Places
<1>7. Exclusive'
  BY <1>1, NoMutexStep DEF IndInv, Shape, Tasks, Go, Signs
<1> QED
  BY <1>6, <1>7 DEF Kept

\* What lookup returns is what the request holds from then on.
LEMMA LookupStep ==
  ASSUME IndInv, NEW r \in Requests, Lookup(r) PROVE Kept'
<1> DEFINE l == lookup(req[r].serial)
           q1 == [req[r] EXCEPT !.hit = map[scope_for_certid]]
           q2 == [req[r] EXCEPT !.label = l, !.hit = map[l]]
<1>1. /\ pc[r] = "lookup"
      /\ \/ Go(r, "missed", q1)
         \/ l # None /\ Go(r, "found", q2)
      /\ live' = live
      /\ busy' = busy
      /\ answer' = answer
  BY DEF Lookup, env
<1>2. Asked(req[r]) /\ NotOlder(req[r])
  BY <1>1 DEF IndInv, RequestInv, Progress
<1>3. Progress("missed", q1) /\ NotOlder(q1)
  <2>1. map[scope_for_certid] \in Bundle
    BY OrderFacts DEF scope_for_certid, IndInv, Shape
  <2>2. q1 \in Request /\ q1.serial = req[r].serial /\ q1.since = req[r].since
    BY <1>2, <2>1 DEF Asked, Request
  <2> HIDE DEF q1
  <2> QED
    BY <1>2, <2>2 DEF Progress, NotOlder, Asked
<1>4. ASSUME l # None PROVE Progress("found", q2) /\ NotOlder(q2)
  <2>1. l \in Labels /\ req[r].serial \in DOMAIN map[l].entries
    BY <1>2, <1>4, LookupFacts DEF Asked, IndInv
  <2>2. map[l] \in Bundle
    BY <2>1 DEF IndInv, Shape
  <2> HIDE DEF l
  <2>3. /\ q2 \in Request
        /\ q2.serial = req[r].serial
        /\ q2.since = req[r].since
        /\ q2.label = l
        /\ q2.hit = map[l]
    BY <1>2, <2>1, <2>2 DEF Asked, Request
  <2> HIDE DEF q2
  <2> QED
    BY <1>2, <2>1, <2>2, <2>3 DEF Progress, NotOlder, Asked, Located
<1>5. Tasks' /\ \A t \in Requests : RequestInv(t)'
  <2> HIDE DEF q1, q2, l
  <2>1. Tasks /\ \A t \in Requests : RequestInv(t)
    BY DEF IndInv, Shape, Tasks
  <2>2. CASE Go(r, "missed", q1)
    BY <1>1, <1>3, <2>1, <2>2, GoStep DEF Places
  <2>3. CASE l # None /\ Go(r, "found", q2)
    BY <1>1, <1>4, <2>1, <2>3, GoStep DEF Places
  <2> QED
    BY <1>1, <2>2, <2>3
<1>6. Exclusive'
  <2> HIDE DEF q1, q2, l
  <2> QED
    BY <1>1, NoMutexStep DEF IndInv, Shape, Tasks, Go, Signs
<1> QED
  BY <1>5, <1>6 DEF Kept

\* The signer of a label is not older than the one that the request saw in use.
LEMMA EquippedBy ==
  ASSUME Shape, Certified, NEW q, Asked(q), q.label \in Labels, NotOlder(q),
         live_signer_for(q.label) # None
  PROVE  LET e == [q EXCEPT !.signer = live_signer_for(q.label)] IN
         /\ e \in Request
         /\ e.serial = q.serial
         /\ e.hit = q.hit
         /\ e.since = q.since
         /\ e.label = q.label
         /\ Equipped(e)
<1> DEFINE c == live_signer_for(q.label)
           e == [q EXCEPT !.signer = c]
<1>1. c \in Certificate /\ c.label = q.label /\ c.notAfter >= q.since[q.label]
  <2>1. c = live[q.label] /\ c \in Certificate
    BY DEF live_signer_for, Shape
  <2>2. c.label = q.label /\ q.since[q.label] <= c.notAfter
    BY <2>1 DEF live_signer_for, Certified, NotOlder
  <2>3. q.since[q.label] \in Nat /\ c.notAfter \in Nat
    BY <2>1 DEF Asked, Certificate
  <2> HIDE DEF c
  <2> QED
    BY <2>1, <2>2, <2>3
<1> HIDE DEF c
<1>2. /\ e \in Request
      /\ e.serial = q.serial
      /\ e.hit = q.hit
      /\ e.since = q.since
      /\ e.label = q.label
      /\ e.signer = c
  BY <1>1 DEF Asked, Request
<1> HIDE DEF e
<1>3. Equipped(e)
  BY <1>1, <1>2 DEF Equipped
<1> QED
  BY <1>2, <1>3 DEF e, c

\* The policy of the label: sign, forward, respond or refuse.
LEMMA FoundStep ==
  ASSUME IndInv, NEW r \in Requests, Found(r) PROVE Kept'
<1> DEFINE q == req[r]
           e == [q EXCEPT !.signer = live_signer_for(q.label)]
<1>1. /\ pc[r] = "found"
      /\ live' = live
      /\ busy' = busy
      /\ \/ \E a \in {"tryLater", "internalError"} : Reply(r, Error(a))
         \/ /\ live_signer_for(q.label) # None
            /\ Go(r, "lock", e)
            /\ answer' = answer
         \/ /\ \E step \in {"forward", "respond"} : Go(r, step, q)
            /\ answer' = answer
  BY DEF Found, env
<1>2. Asked(q) /\ Located(q) /\ NotOlder(q)
  BY <1>1 DEF IndInv, RequestInv, Progress
<1>3. ASSUME live_signer_for(q.label) # None PROVE Progress("lock", e)
  <2> HIDE DEF q
  <2>1. /\ e \in Request
        /\ e.serial = q.serial
        /\ e.hit = q.hit
        /\ e.since = q.since
        /\ e.label = q.label
        /\ Equipped(e)
    BY <1>2, <1>3, EquippedBy DEF IndInv, Located
  <2> HIDE DEF e
  <2> QED
    BY <1>2, <2>1 DEF Progress, Asked, Located
<1>4. \A step \in {"forward", "respond"} : Progress(step, q)
  BY <1>2 DEF Progress
<1>5. Tasks /\ Exclusive /\ \A t \in Requests : RequestInv(t)
  BY DEF IndInv, Shape, Tasks
<1> HIDE DEF e
<1>6. ASSUME NEW a \in {"tryLater", "internalError"}, Reply(r, Error(a)) PROVE Kept'
  <2>1. Tasks' /\ \A t \in Requests : RequestInv(t)'
    BY <1>1, <1>5, <1>6, ErrorSound, ReplyStep
  <2>2. Exclusive'
    BY <1>1, <1>5, <1>6, NoMutexStep DEF Reply, Signs
  <2> QED
    BY <2>1, <2>2 DEF Kept
<1>7. ASSUME live_signer_for(q.label) # None, Go(r, "lock", e), answer' = answer PROVE Kept'
  <2>1. Tasks' /\ \A t \in Requests : RequestInv(t)'
    BY <1>1, <1>3, <1>5, <1>7, GoStep DEF Places
  <2>2. Exclusive'
    BY <1>1, <1>5, <1>7, NoMutexStep DEF Tasks, Go, Signs
  <2> QED
    BY <2>1, <2>2 DEF Kept
<1>8. ASSUME NEW step \in {"forward", "respond"}, Go(r, step, q), answer' = answer PROVE Kept'
  <2>1. Tasks' /\ \A t \in Requests : RequestInv(t)'
    BY <1>1, <1>4, <1>5, <1>8, GoStep DEF Places
  <2>2. Exclusive'
    BY <1>1, <1>5, <1>8, NoMutexStep DEF Tasks, Go, Signs
  <2> QED
    BY <2>1, <2>2 DEF Kept
<1> QED
  BY <1>1, <1>6, <1>7, <1>8

\* The times and the entry of a bundle.
LEMMA BundleFacts ==
  ASSUME NEW b \in Bundle, NEW s \in DOMAIN b.entries
  PROVE  b.from \in Nat /\ b.until \in Nat /\ b.entries[s] \in Statuses
BY Numbers DEF Bundle

\* The smaller of two numbers.
LEMMA LeastFacts ==
  ASSUME NEW a \in Nat, NEW b \in Nat
  PROVE  Least(a, b) \in Nat /\ Least(a, b) <= a /\ Least(a, b) <= b
BY DEF Least

\* A pre-signed answer is given while its bundle is current.
LEMMA RespondStep ==
  ASSUME IndInv, NEW r \in Requests, Respond(r) PROVE Kept'
<1> DEFINE q == req[r]
           b == q.hit
           a == [kind |-> "presigned", status |-> b.entries[q.serial],
                 at |-> now, cached |-> Least(MaxAge, b.until - now)]
<1>1. /\ pc[r] = "respond"
      /\ Reply(r, IF Current(b) THEN a ELSE Error("tryLater"))
      /\ live' = live
      /\ busy' = busy
  BY DEF Respond, env
<1>2. Located(q)
  BY <1>1 DEF IndInv, RequestInv, Progress
<1>3. now \in Nat
  BY Numbers DEF IndInv, Shape
<1>4. ASSUME Current(b) PROVE Sound(q, a)
  <2>1. /\ b.from \in Nat
        /\ b.until \in Nat
        /\ b.entries[q.serial] \in Statuses
        /\ b.from <= now
        /\ now < b.until
    BY <1>2, <1>4, BundleFacts DEF Located, Current
  <2>2. /\ Least(MaxAge, b.until - now) \in Nat
        /\ Least(MaxAge, b.until - now) <= b.until - now
    <3>1. b.until - now \in Nat
      BY <1>3, <2>1
    <3> QED
      BY <3>1, LeastFacts, Numbers
  <2> QED
    BY <1>3, <2>1, <2>2 DEF Sound, Answer
<1>5. Tasks /\ Exclusive /\ \A t \in Requests : RequestInv(t)
  BY DEF IndInv, Shape, Tasks
<1>6. Sound(q, IF Current(b) THEN a ELSE Error("tryLater"))
  BY <1>4, ErrorSound
<1> HIDE DEF a
<1>7. Tasks' /\ \A t \in Requests : RequestInv(t)'
  BY <1>1, <1>5, <1>6, ReplyStep
<1>8. Exclusive'
  BY <1>1, <1>5, NoMutexStep DEF Reply, Signs
<1> QED
  BY <1>7, <1>8 DEF Kept

\* A request gets the mutex it waited for.
LEMMA LockSignerStep ==
  ASSUME IndInv, NEW r \in Requests, LockSigner(r) PROVE Kept'
<1> DEFINE step == IF pc[r] = "lock" THEN "sign" ELSE "signUnknown"
<1>1. /\ pc[r] \in {"lock", "lockUnknown"}
      /\ req[r].signer \notin busy
      /\ busy' = busy \cup {req[r].signer}
      /\ Go(r, step, req[r])
      /\ live' = live
      /\ answer' = answer
  BY DEF LockSigner, env
<1>2. Tasks /\ Exclusive /\ \A t \in Requests : RequestInv(t)
  BY DEF IndInv, Shape, Tasks
<1>3. Progress(step, req[r])
  BY <1>1, <1>2 DEF RequestInv, Progress
<1>4. Signs(step) /\ ~Signs(pc[r]) /\ step \in Places \ {"done"}
  BY <1>1 DEF Signs, Places
<1>5. step \notin {"lookup", "found", "missed"} /\ pc[r] # "done"
  BY <1>1
<1> HIDE DEF step
<1>6. Tasks' /\ \A t \in Requests : RequestInv(t)'
  BY <1>1, <1>2, <1>3, <1>4, <1>5, GoStep
<1>7. Exclusive'
  BY <1>1, <1>2, <1>4, LockStep
<1> QED
  BY <1>6, <1>7 DEF Kept

\* A status signed live stays in the window of its bundle and of its certificate.
LEMMA SignLiveStep ==
  ASSUME IndInv, NEW r \in Requests, SignLive(r) PROVE Kept'
<1> DEFINE q == req[r]
           next == Least(q.hit.until, now + Validity)
           a == [kind |-> "live", status |-> q.hit.entries[q.serial], this |-> q.hit.from,
                 next |-> Least(next, q.signer.notAfter), produced |-> now, at |-> now]
           good == Signable(q.signer, now, q.hit.from, next)
           result == IF good THEN a ELSE Error("internalError")
<1>1. /\ pc[r] = "sign"
      /\ Reply(r, result)
      /\ live' = live
      /\ busy' = busy \ {q.signer}
  BY DEF SignLive, env
<1>2. Located(q) /\ Equipped(q)
  BY <1>1 DEF IndInv, RequestInv, Progress
<1>3. now \in Nat
  BY Numbers DEF IndInv, Shape
<1>4. ASSUME good PROVE Sound(q, a)
  <2>1. /\ q.hit.from \in Nat
        /\ q.hit.until \in Nat
        /\ q.hit.entries[q.serial] \in Statuses
        /\ q.signer.notAfter \in Nat
    BY <1>2, BundleFacts DEF Located, Equipped, Certificate
  <2>2. next \in Nat /\ next <= q.hit.until
    <3>1. now + Validity \in Nat
      BY <1>3, Numbers
    <3> QED
      BY <2>1, <3>1, LeastFacts
  <2>3. q.hit.from <= now /\ now < next /\ now < q.signer.notAfter
    BY <1>4 DEF Signable
  <2> HIDE DEF next
  <2>4. /\ Least(next, q.signer.notAfter) \in Nat
        /\ Least(next, q.signer.notAfter) <= next
        /\ Least(next, q.signer.notAfter) <= q.signer.notAfter
        /\ now < Least(next, q.signer.notAfter)
    BY <2>1, <2>2, <2>3, LeastFacts DEF Least
  <2>5. a \in Answer
    BY <1>3, <2>1, <2>4 DEF Answer
  <2> QED
    BY <1>2, <1>3, <2>1, <2>2, <2>3, <2>4, <2>5 DEF Sound, Equipped
<1>5. Tasks /\ Exclusive /\ \A t \in Requests : RequestInv(t)
  BY DEF IndInv, Shape, Tasks
<1> HIDE DEF a, good
<1>6. Sound(q, result)
  BY <1>4, ErrorSound
<1> HIDE DEF result
<1>7. Tasks' /\ \A t \in Requests : RequestInv(t)'
  BY <1>1, <1>5, <1>6, ReplyStep
<1>8. Exclusive'
  BY <1>1, <1>5, UnlockStep DEF Signs
<1> QED
  BY <1>7, <1>8 DEF Kept

\* No entry: the scope's own signer, the upstream, or a refusal.
LEMMA MissedStep ==
  ASSUME IndInv, NEW r \in Requests, Missed(r) PROVE Kept'
<1> DEFINE l == scope_for_certid
           q == [req[r] EXCEPT !.label = l, !.asked = now]
           e == [q EXCEPT !.signer = live_signer_for(l)]
<1>1. /\ pc[r] = "missed"
      /\ live' = live
      /\ busy' = busy
      /\ \/ Reply(r, Error("unauthorized"))
         \/ /\ live_signer_for(l) # None
            /\ Go(r, "lockUnknown", e)
            /\ answer' = answer
         \/ /\ Go(r, "forward", q)
            /\ answer' = answer
  BY DEF Missed, env
<1>2. Asked(req[r]) /\ NotOlder(req[r])
  BY <1>1 DEF IndInv, RequestInv, Progress
<1>3. l \in Labels
  BY OrderFacts DEF scope_for_certid
<1>4. now \in Nat
  BY Numbers DEF IndInv, Shape
<1> HIDE DEF l
<1>5. /\ q \in Request
      /\ q.label = l
      /\ q.serial = req[r].serial
      /\ q.since = req[r].since
  BY <1>2, <1>3, <1>4 DEF Asked, Request
<1> HIDE DEF q
<1>6. Asked(q) /\ NotOlder(q)
  BY <1>2, <1>5 DEF Asked, NotOlder
<1>7. ASSUME live_signer_for(l) # None PROVE Progress("lockUnknown", e)
  <2>1. e = [q EXCEPT !.signer = live_signer_for(q.label)]
    BY <1>5
  <2> HIDE DEF e
  <2>2. /\ e \in Request
        /\ e.serial = q.serial
        /\ e.since = q.since
        /\ Equipped(e)
    BY <1>3, <1>5, <1>6, <1>7, <2>1, EquippedBy DEF IndInv
  <2> QED
    BY <1>6, <2>2 DEF Progress, Asked
<1>8. Progress("forward", q)
  BY <1>6 DEF Progress
<1>9. Tasks /\ Exclusive /\ \A t \in Requests : RequestInv(t)
  BY DEF IndInv, Shape, Tasks
<1> HIDE DEF e
<1>10. CASE Reply(r, Error("unauthorized"))
  <2>1. Tasks' /\ \A t \in Requests : RequestInv(t)'
    BY <1>1, <1>9, <1>10, ErrorSound, ReplyStep
  <2>2. Exclusive'
    BY <1>1, <1>9, <1>10, NoMutexStep DEF Reply, Signs
  <2> QED
    BY <2>1, <2>2 DEF Kept
<1>11. CASE live_signer_for(l) # None /\ Go(r, "lockUnknown", e) /\ answer' = answer
  <2>1. Tasks' /\ \A t \in Requests : RequestInv(t)'
    BY <1>1, <1>7, <1>9, <1>11, GoStep DEF Places
  <2>2. Exclusive'
    BY <1>1, <1>9, <1>11, NoMutexStep DEF Tasks, Go, Signs
  <2> QED
    BY <2>1, <2>2 DEF Kept
<1>12. CASE Go(r, "forward", q) /\ answer' = answer
  <2>1. Tasks' /\ \A t \in Requests : RequestInv(t)'
    BY <1>1, <1>8, <1>9, <1>12, GoStep DEF Places
  <2>2. Exclusive'
    BY <1>1, <1>9, <1>12, NoMutexStep DEF Tasks, Go, Signs
  <2> QED
    BY <2>1, <2>2 DEF Kept
<1> QED
  BY <1>1, <1>10, <1>11, <1>12

\* `unknown` is signed with a certificate that is valid at the time read before
\* the mutex was waited for.
LEMMA SignUnknownStep ==
  ASSUME IndInv, NEW r \in Requests, SignUnknown(r) PROVE Kept'
<1> DEFINE q == req[r]
           t == q.asked
           a == [kind |-> "unknown", status |-> "unknown", this |-> t,
                 next |-> Least(t + Validity, q.signer.notAfter), produced |-> t,
                 at |-> now]
           good == Signable(q.signer, t, t, t + Validity)
           result == IF good THEN a ELSE Error("unauthorized")
<1>1. /\ pc[r] = "signUnknown"
      /\ Reply(r, result)
      /\ live' = live
      /\ busy' = busy \ {q.signer}
  BY DEF SignUnknown, env
<1>2. Asked(q) /\ Equipped(q)
  BY <1>1 DEF IndInv, RequestInv, Progress
<1>3. ASSUME good PROVE Sound(q, a)
  <2>1. t \in Nat /\ now \in Nat /\ q.signer.notAfter \in Nat /\ t + Validity \in Nat
    BY <1>2, Numbers DEF IndInv, Shape, Asked, Request, Equipped, Certificate
  <2>2. t < q.signer.notAfter
    BY <1>3 DEF Signable
  <2>3. /\ Least(t + Validity, q.signer.notAfter) \in Nat
        /\ Least(t + Validity, q.signer.notAfter) <= q.signer.notAfter
    BY <2>1, LeastFacts
  <2>4. a \in Answer
    BY <2>1, <2>3 DEF Answer
  <2> QED
    BY <1>2, <2>2, <2>3, <2>4 DEF Sound, Equipped
<1>4. Tasks /\ Exclusive /\ \A u \in Requests : RequestInv(u)
  BY DEF IndInv, Shape, Tasks
<1> HIDE DEF a, good
<1>5. Sound(q, result)
  BY <1>3, ErrorSound
<1> HIDE DEF result
<1>6. Tasks' /\ \A u \in Requests : RequestInv(u)'
  BY <1>1, <1>4, <1>5, ReplyStep
<1>7. Exclusive'
  BY <1>1, <1>4, UnlockStep DEF Signs
<1> QED
  BY <1>6, <1>7 DEF Kept

\* The upstream's answer is passed on, or it fails.
LEMMA ForwardStep ==
  ASSUME IndInv, NEW r \in Requests, Forward(r) PROVE Kept'
<1>1. /\ pc[r] = "forward"
      /\ \E a \in {"forwarded", "tryLater", "internalError"} : Reply(r, Error(a))
      /\ live' = live
      /\ busy' = busy
  BY DEF Forward, env
<1>2. PICK a \in {"forwarded", "tryLater", "internalError"} : Reply(r, Error(a))
  BY <1>1
<1>3. Tasks /\ Exclusive /\ \A t \in Requests : RequestInv(t)
  BY DEF IndInv, Shape, Tasks
<1>4. Sound(req[r], Error(a))
  BY ErrorSound
<1>5. Tasks' /\ \A t \in Requests : RequestInv(t)'
  BY <1>1, <1>2, <1>3, <1>4, ReplyStep
<1>6. Exclusive'
  BY <1>1, <1>2, <1>3, NoMutexStep DEF Reply, Signs
<1> QED
  BY <1>5, <1>6 DEF Kept

-----------------------------------------------------------------------------
(* Everything else *)

\* No step of a request touches the server's own state.
LEMMA HandlerStep ==
  ASSUME IndInv, UNCHANGED env, Kept' PROVE IndInv'
BY DEF IndInv, Shape, Certified, Kept, Tasks, env

\* What a source sees is a bundle.
LEMMA SnapshotType ==
  ASSUME NEW l \in Labels, setup \in Setups, now \in 0..MaxTime,
         NEW I \in SUBSET Serials, NEW R \in SUBSET Serials,
         NEW v \in 0..MaxVersion
  PROVE  Snapshot(l, I, R, v) \in Bundle
<1> DEFINE S == IF setup[l].complete THEN I ELSE R
           f == [s \in S |-> IF s \in R THEN "revoked" ELSE "good"]
<1>1. S \in SUBSET Serials /\ f \in [S -> Statuses]
  BY DEF Statuses
<1> HIDE DEF f, S
<1>2. f \in UNION {[X -> Statuses] : X \in SUBSET Serials}
  BY <1>1
<1>3. Snapshot(l, I, R, v)
        = [entries |-> f, from |-> now, until |-> now + Validity, version |-> v]
  BY DEF Snapshot, f, S
<1>4. now + Validity \in 0..(MaxTime + Validity)
  BY Numbers
<1> QED
  BY <1>2, <1>3, <1>4 DEF Bundle

\* A step of the environment: the requests keep what they hold, and a signer is
\* only replaced by one that expires later.
LEMMA EnvironmentStep ==
  ASSUME IndInv, UNCHANGED serving, Shape', Certified',
         \A l \in Labels : live'[l] # None =>
           live[l] # None /\ live[l].notAfter <= live'[l].notAfter
  PROVE  IndInv'
<1>1. /\ pc' = pc
      /\ req' = req
      /\ answer' = answer
      /\ busy' = busy
  BY DEF serving
<1>2. Exclusive'
  BY <1>1 DEF IndInv, Exclusive
<1>3. ASSUME NEW r \in Requests PROVE RequestInv(r)'
  <2>1. RequestInv(r)
    BY DEF IndInv
  <2>2. ASSUME Asked(req[r]), NotOlder(req[r]) PROVE NotOlder(req[r])'
    <3>1. \A l \in Labels : live'[l] # None =>
            /\ req[r].since[l] \in Nat
            /\ live[l].notAfter \in Nat
            /\ live'[l].notAfter \in Nat
      BY <2>2 DEF Asked, IndInv, Shape, Certificate
    <3> QED
      BY <1>1, <2>2, <3>1 DEF NotOlder
  <2> QED
    BY <1>1, <2>1, <2>2 DEF RequestInv, Progress
<1> QED
  BY <1>2, <1>3 DEF IndInv

\* A label's signer produces a bundle.
LEMMA ProduceStep ==
  ASSUME IndInv, NEW l \in Labels, NEW I \in SUBSET Serials, NEW R \in SUBSET Serials,
         Produce(l, I, R)
  PROVE  IndInv'
<1>1. /\ version < MaxVersion
      /\ R \subseteq I
      /\ issued' = I /\ revoked' = R
      /\ version' = version + 1
      /\ file' = [file EXCEPT ![l] = Snapshot(l, I, R, version + 1)]
      /\ UNCHANGED <<setup, map, live, now>>
      /\ UNCHANGED serving
  BY DEF Produce
<1>2. version + 1 \in 0..MaxVersion
  BY <1>1, Numbers DEF IndInv, Shape
<1>3. Snapshot(l, I, R, version + 1) \in Bundle
  BY <1>2, SnapshotType DEF IndInv, Shape
<1>4. Shape'
  BY <1>1, <1>2, <1>3 DEF IndInv, Shape, serving
<1>5. Certified'
  BY <1>1 DEF IndInv, Certified
<1>6. \A m \in Labels : live[m] # None => live[m].notAfter <= live[m].notAfter
  BY DEF IndInv, Shape, Certificate
<1> QED
  BY <1>1, <1>4, <1>5, <1>6, EnvironmentStep

\* A reload swaps the map.
LEMMA ReloadStep ==
  ASSUME IndInv, Reload PROVE IndInv'
<1>1. /\ map' = file
      /\ UNCHANGED <<setup, issued, revoked, file, live, now, version>>
      /\ UNCHANGED serving
  BY DEF Reload
<1>2. Shape'
  BY <1>1 DEF IndInv, Shape, serving
<1>3. Certified'
  BY <1>1 DEF IndInv, Certified
<1>4. \A m \in Labels : live[m] # None => live[m].notAfter <= live[m].notAfter
  BY DEF IndInv, Shape, Certificate
<1> QED
  BY <1>1, <1>2, <1>3, <1>4, EnvironmentStep

\* A rotation replaces a certificate by one that does not expire earlier.
LEMMA RotateStep ==
  ASSUME IndInv, NEW l \in Labels, Rotate(l) PROVE IndInv'
<1>1. /\ live[l] # None
      /\ live' = [live EXCEPT ![l] = Responder(l)]
      /\ UNCHANGED <<setup, issued, revoked, file, map, now, version>>
      /\ UNCHANGED serving
  BY DEF Rotate
<1>2. now \in Nat /\ \A m \in Labels : live[m] # None => live[m].notAfter \in Nat
  BY Numbers DEF IndInv, Shape, Certificate
<1>3. /\ Responder(l) \in Certificate
      /\ Responder(l).label = l
      /\ Responder(l).notAfter = now + CertLife
  BY <1>2, Numbers DEF Responder, Certificate
<1>4. Shape'
  BY <1>1, <1>3 DEF IndInv, Shape, serving
<1>5. Certified'
  <2> SUFFICES ASSUME NEW m \in Labels, live'[m] # None
               PROVE  live'[m].label = m /\ live'[m].notAfter <= now' + CertLife
    BY DEF Certified
  <2>1. CASE m = l
    BY <1>1, <1>2, <1>3, <2>1, Numbers DEF IndInv, Shape
  <2>2. CASE m # l
    BY <1>1, <2>2 DEF IndInv, Shape, Certified
  <2> QED
    BY <2>1, <2>2
<1>6. \A m \in Labels : live'[m] # None =>
        live[m] # None /\ live[m].notAfter <= live'[m].notAfter
  <2> TAKE m \in Labels
  <2>1. CASE m = l
    BY <1>1, <1>2, <1>3, <2>1, Numbers DEF IndInv, Shape, Certified
  <2>2. CASE m # l
    BY <1>1, <1>2, <2>2 DEF IndInv, Shape
  <2> QED
    BY <2>1, <2>2
<1> QED
  BY <1>1, <1>4, <1>5, <1>6, EnvironmentStep

\* Time passes.
LEMMA TickStep ==
  ASSUME IndInv, Tick PROVE IndInv'
<1>1. /\ now < MaxTime
      /\ now' = now + 1
      /\ UNCHANGED <<setup, issued, revoked, file, map, live, version>>
      /\ UNCHANGED serving
  BY DEF Tick
<1>2. /\ now \in Nat
      /\ \A m \in Labels : live[m] # None =>
           live[m].notAfter \in Nat /\ live[m].notAfter <= live[m].notAfter
  BY Numbers DEF IndInv, Shape, Certificate
<1>3. Shape'
  BY <1>1, Numbers DEF IndInv, Shape, serving
<1>4. Certified'
  BY <1>1, <1>2, Numbers DEF IndInv, Certified
<1> QED
  BY <1>1, <1>2, <1>3, <1>4, EnvironmentStep

-----------------------------------------------------------------------------
(* Theorems *)

\* The invariant holds at startup.
LEMMA InitInv == Init => IndInv
<1> SUFFICES ASSUME Init PROVE IndInv
  OBVIOUS
<1>1. now = 0 /\ now \in 0..MaxTime /\ 0 \in 0..MaxVersion
  BY Numbers DEF Init
<1>2. \A l \in Labels : Snapshot(l, issued, revoked, 0) \in Bundle
  BY <1>1, SnapshotType DEF Init
<1>3. \A l \in Labels : /\ Responder(l) \in Certificate
                        /\ Responder(l).label = l
                        /\ Responder(l).notAfter = now + CertLife
  BY <1>1, Numbers DEF Responder, Certificate
<1>4. Shape
  BY <1>1, <1>2, <1>3 DEF Init, Shape, Places
<1>5. Certified
  BY <1>1, <1>3, Numbers DEF Init, Certified
<1>6. \A r \in Requests : RequestInv(r)
  BY DEF Init, RequestInv, Progress
<1>7. Exclusive
  BY DEF Init, Exclusive, Signs
<1> QED
  BY <1>4, <1>5, <1>6, <1>7 DEF IndInv

\* Every step keeps it.
LEMMA NextInv == IndInv /\ [Next]_vars => IndInv'
<1> SUFFICES ASSUME IndInv, [Next]_vars PROVE IndInv'
  OBVIOUS
<1>1. ASSUME NEW r \in Requests, Malformed(r) \/ Step(r) PROVE IndInv'
  <2>1. UNCHANGED env
    BY <1>1 DEF Malformed, Step, Lookup, Found, Respond, LockSigner, SignLive, Missed,
                SignUnknown, Forward
  <2>2. Kept'
    BY <1>1, MalformedStep, LookupStep, FoundStep, RespondStep, LockSignerStep,
       SignLiveStep, MissedStep, SignUnknownStep, ForwardStep DEF Step
  <2> QED
    BY <2>1, <2>2, HandlerStep
<1>2. ASSUME NEW r \in Requests, NEW s \in Serials, NEW n \in BOOLEAN, Arrive(r, s, n)
      PROVE  IndInv'
  BY <1>2, ArriveStep, HandlerStep DEF Arrive
<1>3. ASSUME UNCHANGED vars PROVE IndInv'
  <2>1. UNCHANGED serving /\ UNCHANGED env
    BY <1>3 DEF vars, serving, env
  <2>2. Shape' /\ Certified'
    BY <2>1 DEF IndInv, Shape, Certified, serving, env
  <2>3. \A m \in Labels : live'[m] # None =>
          live[m] # None /\ live[m].notAfter <= live'[m].notAfter
    BY <2>1 DEF IndInv, Shape, Certificate, env
  <2> QED
    BY <2>1, <2>2, <2>3, EnvironmentStep
<1> QED
  BY <1>1, <1>2, <1>3, ProduceStep, ReloadStep, RotateStep, TickStep DEF Next

\* The invariant holds of every reachable state.
LEMMA Inductive == Spec => []IndInv
BY InitInv, NextInv, PTL DEF Spec

\* Types, and the mutex of a signer is held exactly while a request signs with it.
THEOREM TypeCorrect == Spec => []TypeOK
<1>1. ASSUME IndInv PROVE TypeOK
  <2>1. ASSUME NEW r \in Requests
        PROVE  /\ answer[r] \in Answer \cup {None}
               /\ (pc[r] = "done") = (answer[r] # None)
    BY <1>1, NoneAssumption DEF IndInv, RequestInv, Sound
  <2>2. busy = {req[r].signer : r \in {t \in Requests : pc[t] \in {"sign", "signUnknown"}}}
    BY <1>1 DEF IndInv, Exclusive, Signs
  <2> QED
    BY <1>1, <2>1, <2>2 DEF IndInv, Shape, Certified, TypeOK
<1> QED
  BY <1>1, Inductive, PTL

\* A status answer stays inside the window of the bundle that states it.
THEOREM InWindow == Spec => []AnswersStayInWindow
<1>1. IndInv => AnswersStayInWindow
  BY DEF IndInv, RequestInv, Sound, AnswersStayInWindow
<1> QED
  BY <1>1, Inductive, PTL

\* A status is signed before its responder certificate ends, and nothing signed for a
\* request claims to be produced or to be valid beyond that end.
THEOREM ValidSigner == Spec => []SignerIsValid
<1>1. IndInv => SignerIsValid
  BY DEF IndInv, RequestInv, Sound, SignerIsValid
<1> QED
  BY <1>1, Inductive, PTL

\* The key of the label signs, with no certificate replaced before the arrival.
THEOREM OwnKey == Spec => []OwnKeySigns
<1>1. IndInv => OwnKeySigns
  BY DEF IndInv, RequestInv, Sound, OwnKeySigns
<1> QED
  BY <1>1, Inductive, PTL

=============================================================================
