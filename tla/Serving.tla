---- MODULE Serving ----
(***************************************************************************)
(* Answering OCSP requests: the handlers of hoike-server, the look-up in   *)
(* the scope map, live signing for requests with a nonce, and forwarding.  *)
(*                                                                         *)
(* A request reads the scope map, the live signer and the clock at         *)
(* different moments; reloads, rotations and time go on meanwhile.  All    *)
(* labels here serve one (issuerNameHash, issuerKeyHash) scope, which is   *)
(* where their order matters.  Bundles are produced elsewhere (Signer) and *)
(* become visible in one step (StateDir); the upstream responder and the   *)
(* rotation command are external.                                          *)
(***************************************************************************)
EXTENDS Integers, Sequences, FiniteSets

CONSTANTS
    Order,        \* the CA labels of the scope in configuration order
    Setups,       \* configurations: functions from labels to Setup
    Serials,      \* certificate serials
    Requests,     \* the requests of a behaviour
    None,
    Validity,     \* lifetime of a bundle's answers, and validity_secs
    CertLife,     \* lifetime of a responder certificate
    MaxAge,       \* max_age_fraction as a number of time units
    MaxTime,      \* bound on the clock
    MaxVersion    \* bound on the number of bundle generations

VARIABLES
    setup,    \* the configuration of every label
    issued,   \* serials the CA had issued when it was last asked
    revoked,  \* serials the CA had revoked then
    file,     \* file[l]: the newest bundle on disk
    map,      \* map[l]: the bundle in the scope map
    live,     \* live[l]: live_signers, None without one
    busy,     \* the certificates whose LiveSignerState mutex is held
    now,
    version,  \* number of bundle generations so far
    pc,       \* pc[r]: where request r is
    req,      \* req[r]: what r asks and what it has read so far
    answer    \* answer[r]: the answer, None before it

vars == <<setup, issued, revoked, file, map, live, busy, now, version, pc, req, answer>>

----------------------------------------------------------------------------
(* Data *)

Labels == {Order[i] : i \in DOMAIN Order}

\* nonce_policy, completeness, whether forward_to is set (its scheme and its
\* roots are checked at startup), and whether every stored response holds the
\* requested CertID exactly once, as extract_status_for_cert demands.
Setup == [policy: {"ignore", "live", "forward"}, complete: BOOLEAN, forward: BOOLEAN,
          single: BOOLEAN]

ASSUME ServingAssumption ==
    /\ Order \in Seq(Labels) /\ Order # <<>>
    /\ Setups \subseteq [Labels -> Setup]
    /\ {Validity, CertLife} \subseteq Nat \ {0}
    /\ {MaxAge, MaxTime, MaxVersion} \subseteq Nat

Statuses == {"good", "revoked"}

\* A bundle: the status of every serial it has an entry for, its window, and
\* its place among the generations.
Bundle == [entries: UNION {[S -> Statuses] : S \in SUBSET Serials},
           from: 0 .. MaxTime, until: 0 .. MaxTime + Validity, version: 0 .. MaxVersion]

\* What a source sees when the CA has issued I and revoked R of them: one that
\* sees the whole population answers for every issued serial, one that reads CRLs
\* only for the revoked ones.
Snapshot(l, I, R, v) ==
    [entries |-> [s \in (IF setup[l].complete THEN I ELSE R) |->
                     IF s \in R THEN "revoked" ELSE "good"],
     from |-> now, until |-> now + Validity, version |-> v]

\* A live signer, as far as its responder certificate matters.
Certificate == [label: Labels, notAfter: Nat]

Responder(l) == [label |-> l, notAfter |-> now + CertLife]

NoRequest == [serial |-> None, nonce |-> FALSE, hit |-> None, label |-> None,
              signer |-> None, since |-> None, asked |-> 0]

Error(what) == [kind |-> what]

\* An error or a forwarded answer; a status that was signed with the bundle, when it
\* was given and how long a cache may keep it; and one that was signed for this
\* request, with thisUpdate, nextUpdate and producedAt as written in it, and when it
\* was really signed. A pre-signed answer has times of its own: its nextUpdate is not
\* before the end of the bundle's window, and with jitter after it.
Answer ==
    [kind: {"malformed", "tryLater", "internalError", "unauthorized", "forwarded"}]
    \cup [kind: {"presigned"}, status: Statuses, at: Nat, cached: Nat]
    \cup [kind: {"live", "unknown"}, status: Statuses \cup {"unknown"},
          this: Nat, next: Nat, produced: Nat, at: Nat]

ASSUME NoneAssumption ==
    None \notin Labels /\ None \notin Certificate /\ None \notin Answer

----------------------------------------------------------------------------
(* The scope map: router.rs *)

\* lookup: the first label, by configuration order, whose bundle has an entry.
Hits(s) == {i \in DOMAIN Order : s \in DOMAIN map[Order[i]].entries}

First(I) == CHOOSE i \in I : \A j \in I : i <= j

lookup(s) == IF Hits(s) = {} THEN None ELSE Order[First(Hits(s))]

\* scope_for_certid: the first label of the scope, entry or not.
scope_for_certid == Order[1]

\* The window check of process_request_inner and of ocsp_success_response.
Current(b) == b.from <= now /\ now < b.until

----------------------------------------------------------------------------
(* One request: handlers.rs *)

Go(r, step, q) ==
    /\ pc' = [pc EXCEPT ![r] = step]
    /\ req' = [req EXCEPT ![r] = q]

Reply(r, a) ==
    /\ pc' = [pc EXCEPT ![r] = "done"]
    /\ answer' = [answer EXCEPT ![r] = a]
    /\ UNCHANGED req

env == <<setup, issued, revoked, file, map, live, now, version>>

\* handle_get and handle_post: the size limit, the parser and the nonce length
\* refuse a request before anything is read.
Malformed(r) ==
    /\ pc[r] = "idle"
    /\ Reply(r, Error("malformed"))
    /\ UNCHANGED <<env, busy>>

\* The certificates in use when the request arrives, for the record.
InUse == [l \in Labels |-> IF live[l] = None THEN 0 ELSE live[l].notAfter]

Arrive(r, s, n) ==
    /\ pc[r] = "idle"
    /\ Go(r, "lookup", [NoRequest EXCEPT !.serial = s, !.nonce = n, !.since = InUse])
    /\ UNCHANGED <<env, busy, answer>>

Lookup(r) ==
    /\ pc[r] = "lookup"
    /\ LET l == lookup(req[r].serial) IN
       IF l = None
       THEN Go(r, "missed", [req[r] EXCEPT !.hit = map[scope_for_certid]])
       ELSE Go(r, "found", [req[r] EXCEPT !.label = l, !.hit = map[l]])
    /\ UNCHANGED <<env, busy, answer>>

\* Mutant: another label's signer stands in for a missing one.
AnyonesSigner(l) ==
    IF live[l] # None THEN live[l]
    ELSE LET others == {m \in Labels : live[m] # None} IN
         IF others = {} THEN None ELSE live[CHOOSE m \in others : TRUE]

live_signer_for(l) == live[l]

\* The policy of the label decides, once the bundle is known to be current.
Found(r) ==
    /\ pc[r] = "found"
    /\ LET q == req[r]
           c == setup[q.label]
           signs == c.policy = "live" /\ live_signer_for(q.label) # None /\ c.single
           relays == c.policy = "forward" /\ c.forward IN
       \/ /\ ~Current(q.hit)
          /\ Reply(r, Error("tryLater"))
       \/ /\ Current(q.hit) /\ q.nonce /\ signs
          /\ Go(r, "lock", [q EXCEPT !.signer = live_signer_for(q.label)])
          /\ UNCHANGED answer
       \/ /\ Current(q.hit) /\ q.nonce /\ relays
          /\ Go(r, "forward", q)
          /\ UNCHANGED answer
       \/ /\ Current(q.hit) /\ q.nonce /\ c.policy # "ignore" /\ ~signs /\ ~relays
          /\ Reply(r, Error("internalError"))
       \/ /\ Current(q.hit) /\ (~q.nonce \/ c.policy = "ignore")
          /\ Go(r, "respond", q)
          /\ UNCHANGED answer
    /\ UNCHANGED <<env, busy>>

Least(a, b) == IF a <= b THEN a ELSE b

\* Mutant: the check made before the policy is thought to be enough.
RespondChecksOnce(r) ==
    /\ pc[r] = "respond"
    /\ LET b == req[r].hit IN
       Reply(r, [kind |-> "presigned", status |-> b.entries[req[r].serial],
                 at |-> now, cached |-> Least(MaxAge, b.until - now)])
    /\ UNCHANGED <<env, busy>>

\* ocsp_success_response looks at the clock again; the cache may keep the answer for
\* max-age, which ends with the bundle's window.
Respond(r) ==
    /\ pc[r] = "respond"
    /\ LET b == req[r].hit IN
       Reply(r, IF Current(b)
                THEN [kind |-> "presigned", status |-> b.entries[req[r].serial],
                      at |-> now, cached |-> Least(MaxAge, b.until - now)]
                ELSE Error("tryLater"))
    /\ UNCHANGED <<env, busy>>

\* Mutant: the mutex is taken whoever holds it.
LockSignerBarges(r) ==
    /\ pc[r] \in {"lock", "lockUnknown"}
    /\ busy' = busy \cup {req[r].signer}
    /\ Go(r, IF pc[r] = "lock" THEN "sign" ELSE "signUnknown", req[r])
    /\ UNCHANGED <<env, answer>>

\* The request waits for the mutex of the signer it has read.
LockSigner(r) ==
    /\ pc[r] \in {"lock", "lockUnknown"}
    /\ req[r].signer \notin busy
    /\ busy' = busy \cup {req[r].signer}
    /\ Go(r, IF pc[r] = "lock" THEN "sign" ELSE "signUnknown", req[r])
    /\ UNCHANGED <<env, answer>>

\* Mutant: the certificate was valid when it was loaded.
SignableInWindow(c, t, this, next) == this <= t /\ t < next /\ this < next

\* sign_live_response_with_window, with the times the handler passes: signing
\* fails outside the source's window or after the responder certificate's end. A
\* signer always has a certificate here, and one that is already valid.
Signable(c, t, this, next) == this <= t /\ t < next /\ this < next /\ t < c.notAfter

\* Mutant: the error path keeps the mutex.
SignLiveLeaks(r) ==
    /\ pc[r] = "sign"
    /\ LET q == req[r]
           next == Least(q.hit.until, now + Validity) IN
       IF Signable(q.signer, now, q.hit.from, next)
       THEN /\ Reply(r, [kind |-> "live", status |-> q.hit.entries[q.serial], this |-> q.hit.from,
                         next |-> Least(next, q.signer.notAfter), produced |-> now, at |-> now])
            /\ busy' = busy \ {q.signer}
       ELSE Reply(r, Error("internalError")) /\ UNCHANGED busy
    /\ UNCHANGED env

SignLive(r) ==
    /\ pc[r] = "sign"
    /\ LET q == req[r]
           next == Least(q.hit.until, now + Validity) IN
       Reply(r, IF Signable(q.signer, now, q.hit.from, next)
                THEN [kind |-> "live", status |-> q.hit.entries[q.serial], this |-> q.hit.from,
                      next |-> Least(next, q.signer.notAfter), produced |-> now, at |-> now]
                ELSE Error("internalError"))
    /\ busy' = busy \ {req[r].signer}
    /\ UNCHANGED env

\* No entry: a scope that claims to be complete signs `unknown`, and so does the
\* upstream of one without a signer. The scope is read again here, for what it
\* has from the configuration, and the clock for the answer's times, before the
\* request waits for the mutex.
Missed(r) ==
    /\ pc[r] = "missed"
    /\ LET q == [req[r] EXCEPT !.label = scope_for_certid, !.asked = now]
           l == scope_for_certid
           known == q.nonce /\ setup[l].complete IN
       \/ /\ known /\ live_signer_for(l) # None
          /\ Go(r, "lockUnknown", [q EXCEPT !.signer = live_signer_for(l)])
          /\ UNCHANGED answer
       \/ /\ known /\ live_signer_for(l) = None /\ setup[l].forward
          /\ Go(r, "forward", q)
          /\ UNCHANGED answer
       \/ /\ ~known \/ live_signer_for(l) = None
          /\ ~known \/ ~setup[l].forward
          /\ Reply(r, Error("unauthorized"))
    /\ UNCHANGED <<env, busy>>

\* sign_live_response: the times, producedAt too, and the check of the certificate
\* are of the clock that was read before the wait for the mutex; the window of the
\* bundle is not consulted.
SignUnknown(r) ==
    /\ pc[r] = "signUnknown"
    /\ LET q == req[r]
           t == q.asked IN
       Reply(r, IF Signable(q.signer, t, t, t + Validity)
                THEN [kind |-> "unknown", status |-> "unknown", this |-> t,
                      next |-> Least(t + Validity, q.signer.notAfter), produced |-> t,
                      at |-> now]
                ELSE Error("unauthorized"))
    /\ busy' = busy \ {req[r].signer}
    /\ UNCHANGED env

\* forward_request: the upstream's answer is passed on; what it may send is its
\* own business, and failures and timeouts have two outcomes.
Forward(r) ==
    /\ pc[r] = "forward"
    /\ \E a \in {"forwarded", "tryLater", "internalError"} : Reply(r, Error(a))
    /\ UNCHANGED <<env, busy>>

----------------------------------------------------------------------------
(* Everything else that happens meanwhile *)

serving == <<busy, pc, req, answer>>

\* The CA goes on issuing and revoking, and a signer replaces the bundle file of a
\* label.
Produce(l, I, R) ==
    /\ version < MaxVersion
    /\ issued \subseteq I /\ revoked \subseteq R /\ R \subseteq I
    /\ issued' = I /\ revoked' = R
    /\ version' = version + 1
    /\ file' = [file EXCEPT ![l] = Snapshot(l, I, R, version + 1)]
    /\ UNCHANGED <<setup, map, live, now, serving>>

\* ResponderState::reload swaps the whole map.
Reload ==
    /\ map # file
    /\ map' = file
    /\ UNCHANGED <<setup, issued, revoked, file, live, now, version, serving>>

\* rotate_ca: the command has replaced key and certificate, and
\* reload_live_signer takes them over. A failure leaves the old signer.
Rotate(l) ==
    /\ live[l] # None /\ live[l] # Responder(l)
    /\ live' = [live EXCEPT ![l] = Responder(l)]
    /\ UNCHANGED <<setup, issued, revoked, file, map, now, version, serving>>

Tick ==
    /\ now < MaxTime
    /\ now' = now + 1
    /\ UNCHANGED <<setup, issued, revoked, file, map, live, version, serving>>

\* Startup: every label with the live policy has a signer, or the server exits.
Init ==
    /\ setup \in Setups
    /\ issued \in SUBSET Serials /\ revoked = {}
    /\ now = 0 /\ version = 0
    /\ file = [l \in Labels |-> Snapshot(l, issued, revoked, 0)]
    /\ map = file
    /\ live = [l \in Labels |-> IF setup[l].policy = "live" THEN Responder(l) ELSE None]
    /\ busy = {}
    /\ pc = [r \in Requests |-> "idle"]
    /\ req = [r \in Requests |-> NoRequest]
    /\ answer = [r \in Requests |-> None]

Step(r) == Lookup(r) \/ Found(r) \/ Respond(r) \/ LockSigner(r) \/ SignLive(r) \/ Missed(r)
           \/ SignUnknown(r) \/ Forward(r)

Next ==
    \/ \E r \in Requests : Malformed(r) \/ Step(r)
    \/ \E r \in Requests, s \in Serials, n \in BOOLEAN : Arrive(r, s, n)
    \/ \E l \in Labels, I, R \in SUBSET Serials : Produce(l, I, R)
    \/ \E l \in Labels : Rotate(l)
    \/ Reload
    \/ Tick

Spec == Init /\ [][Next]_vars

\* A request is a task: it goes on. Only LockSigner may be disabled in between,
\* and the mutex is handed on in turn; forwarding has a timeout. The key is assumed
\* to answer: an HSM that hangs holds its mutex.
FairSpec == Spec /\ \A r \in Requests : SF_vars(Step(r))

----------------------------------------------------------------------------
(* Properties *)

\* Every variable has its type, and a signer's mutex is held exactly while a
\* request signs with it.
TypeOK ==
    /\ setup \in Setups
    /\ issued \subseteq Serials /\ revoked \subseteq issued
    /\ file \in [Labels -> Bundle] /\ map \in [Labels -> Bundle]
    /\ live \in [Labels -> Certificate \cup {None}]
    /\ \A l \in Labels : live[l] # None => live[l].label = l
    /\ now \in 0 .. MaxTime /\ version \in 0 .. MaxVersion
    /\ answer \in [Requests -> Answer \cup {None}]
    /\ \A r \in Requests : (pc[r] = "done") = (answer[r] # None)
    /\ busy = {req[r].signer : r \in {t \in Requests : pc[t] \in {"sign", "signUnknown"}}}

\* Whatever is reloaded or rotated while a request waits, a signed status answer is
\* given inside the window of the bundle that states it and says what that bundle
\* says; a pre-signed one is not cached beyond the window, and one that is signed
\* for the request has the window's beginning and does not extend it
\* (process_request_inner, ocsp_success_response, sign_live_response_with_window).
AnswersStayInWindow ==
    \A r \in Requests : pc[r] = "done" /\ answer[r].kind \in {"presigned", "live"} =>
        LET a == answer[r]
            b == req[r].hit IN
        /\ a.status = b.entries[req[r].serial]
        /\ b.from <= a.at /\ a.at < b.until
        /\ a.kind = "presigned" => a.at + a.cached <= b.until
        /\ a.kind = "live" => a.this = b.from /\ a.at < a.next /\ a.next <= b.until

\* A status is signed before its responder certificate ends, however long the request
\* waited for the signer's mutex and whatever was rotated meanwhile; and nothing
\* signed for a request claims to be produced, or to be valid, beyond that end. An
\* `unknown` may be signed later than that (handlers.rs reads its clock before the
\* wait): it has then expired itself, because it is valid until `end` at most.
SignerIsValid ==
    \A r \in Requests : pc[r] = "done" /\ answer[r].kind \in {"live", "unknown"} =>
        LET a == answer[r]
            end == req[r].signer.notAfter IN
        /\ a.kind = "live" => a.at < end
        /\ a.produced < end /\ a.next <= end

\* An answer is signed with the key of the label it is given for, and not with a
\* certificate that had been replaced before the request arrived (live_signer_for:
\* never a cross-CA fallback; rotate_ca).
OwnKeySigns ==
    \A r \in Requests : pc[r] = "done" /\ answer[r].kind \in {"live", "unknown"} =>
        LET q == req[r] IN
        q.signer.label = q.label /\ q.signer.notAfter >= q.since[q.label]

\* Every request is answered, whoever waits for whose signer.
EveryRequestIsAnswered ==
    \A r \in Requests : pc[r] = "lookup" ~> pc[r] = "done"

====
