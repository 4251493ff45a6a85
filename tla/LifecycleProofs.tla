---------------------------- MODULE LifecycleProofs ----------------------------
(***************************************************************************)
(* Theorems about the legacy lifecycle, for every set of candidates,       *)
(* dossiers and appeals.  They rest on what the engine returns for any     *)
(* packet and on one fact about the session: a receipt that moves a        *)
(* candidate is the engine's evaluation of the caller's own packet, and    *)
(* is applied only to the snapshot it was computed from.                   *)
(***************************************************************************)
EXTENDS LifecycleSession, TLAPS

-------------------------------------------------------------------------------
(***************************************************************************)
(* The engine.                                                             *)
(***************************************************************************)
Outcomes == {"ALLOWED", "BLOCKED", "INVALID"}

\* What is left of _base in every receipt.
LEMMA ReceiptShape ==
  ASSUME NEW p
  PROVE  LET r == EvaluateBase(p)
         IN  /\ r.packet = p /\ r.replay = None
             /\ r.outcome \in Outcomes /\ r.prior = p.current.status
             /\ r.changed \in BOOLEAN
             /\ r.resulting \in {p.current.status, p.to, "CANDIDATE"}
             /\ DOMAIN r = {"packet", "outcome", "prior", "resulting", "changed",
                            "reasons", "retained", "resolved", "replay"}
<1>1. CASE BindingErrors(p) # {}
  BY <1>1 DEF EvaluateBase, Base, Outcomes
<1>2. CASE BindingErrors(p) = {} /\ p.operation = "REOPEN"
  <2>1. EvaluateBase(p) = EvaluateReopening(p)
    BY <1>2 DEF EvaluateBase
  <2>2. QED
    BY <2>1 DEF EvaluateReopening, Base, Outcomes
<1>3. CASE BindingErrors(p) = {} /\ p.operation # "REOPEN"
  <2>1. EvaluateBase(p) = EvaluateTransition(p)
    BY <1>3 DEF EvaluateBase
  <2>2. QED
    BY <2>1 DEF EvaluateTransition, Base, Outcomes
<1>4. QED
  BY <1>1, <1>2, <1>3

\* A receipt that changes a status found nothing wrong.
LEMMA ChangeIsJustified ==
  ASSUME NEW p, EvaluateBase(p).changed
  PROVE  LET r == EvaluateBase(p)
         IN  /\ BindingErrors(p) = {} /\ r.outcome = "ALLOWED"
             /\ p.operation # "REOPEN" =>
                   TransitionErrors(p) = {} /\ r.resulting = p.to
             /\ p.operation = "REOPEN" =>
                   /\ ReopeningIsStructured(p) /\ r.resulting = "CANDIDATE"
                   /\ \A f \in p.reopening.failures :
                         /\ ResolvedBy(f, p.reopening.deltas)
                         /\ f \in r.resolved \/ f \in r.retained
                         /\ f \in r.resolved => f.category = "PROCEDURAL"
<1>1. BindingErrors(p) = {}
  BY DEF EvaluateBase, Base
<1>2. CASE p.operation # "REOPEN"
  <2>1. EvaluateBase(p) = EvaluateTransition(p)
    BY <1>1, <1>2 DEF EvaluateBase
  <2>2. TransitionErrors(p) = {}
    BY <2>1 DEF EvaluateTransition, Base
  <2>3. QED
    BY <1>1, <1>2, <2>1, <2>2 DEF EvaluateTransition, Base
<1>3. CASE p.operation = "REOPEN"
  <2>1. EvaluateBase(p) = EvaluateReopening(p)
    BY <1>1, <1>3 DEF EvaluateBase
  <2>2. ReopeningIsStructured(p)
    BY <2>1 DEF EvaluateReopening, Base
  <2>3. \A f \in p.reopening.failures : ResolvedBy(f, p.reopening.deltas)
    BY <2>1, <2>2 DEF EvaluateReopening, Base
  <2> DEFINE failures == p.reopening.failures
             procedural == {f \in failures : f.category = "PROCEDURAL" /\ f.correctable}
  <2>4. /\ EvaluateReopening(p).outcome = "ALLOWED"
        /\ EvaluateReopening(p).resulting = "CANDIDATE"
        /\ EvaluateReopening(p).resolved = procedural
        /\ EvaluateReopening(p).retained = failures \ procedural
    <3>1. {f \in failures : ~ResolvedBy(f, p.reopening.deltas)} = {}
      BY <2>3
    <3>2. QED
      BY <2>2, <3>1 DEF EvaluateReopening, Base
  <2>5. QED
    BY <1>1, <1>3, <2>1, <2>2, <2>3, <2>4
<1>4. QED
  BY <1>2, <1>3

\* A commitment or a rejection passed every check of rules.py.
LEMMA DecisionIsJustified ==
  ASSUME NEW p, TransitionErrors(p) = {}, p.to \in {"COMMITTED", "REJECTED"},
         p.dossier \in Dossiers
  PROVE  Supports(p.dossier, p.candidate.id, p.from, p.to)
<1> DEFINE d == p.dossier
           factors == d.weighting.factors
<1>1. CommitmentErrors(p) = {} /\ ExpiryErrors(p) = {}
  BY DEF TransitionErrors
<1>2. ~Stale(d)
  BY <1>1 DEF ExpiryErrors, When
<1>3. RuleGovernanceErrors(d) = {}
  BY <1>1 DEF CommitmentErrors
<1>4. /\ d.rule # None /\ d.authority # None /\ d.rule.hashMatches
      /\ d.rule.scope = d.authority.scope
      /\ d.rule.adoptedBy \in d.authority.adoptionRefs
      /\ d.time \in d.rule.from .. (d.rule.until - 1)
  BY <1>3 DEF RuleGovernanceErrors, When
<1>5. /\ d.rule.permits = <<p.from, p.to>>
      /\ d.time \in d.authority.from .. (d.authority.until - 1)
      /\ d.rule.action \in d.authority.actions
      /\ p.candidate.id \in d.authority.targets
      /\ d.rule.kinds \subseteq {o.kind : o \in d.observations}
      /\ WeightingErrors(d) = {} /\ MeasurementErrors(d) = {}
  BY <1>1, <1>4 DEF CommitmentErrors, Permits, When
<1>6. /\ d.weighting # None /\ d.weighting.vetoes = {}
      /\ \A key \in DOMAIN d.rule.minimum :
            ~(Factor(d.weighting, key, -1) < d.rule.minimum[key])
      /\ \A key \in DOMAIN d.rule.maximum :
            ~(Factor(d.weighting, key, 2) > d.rule.maximum[key])
  BY <1>5 DEF WeightingErrors, When
<1>7. /\ d.measurement # None
      /\ d.measurement.burdens \subseteq d.rule.burdens
      /\ d.measurement.observations \subseteq {o.id : o \in d.observations}
  BY <1>5 DEF MeasurementErrors, When
<1>8. /\ d.time >= d.authority.from /\ d.time >= d.rule.from
      /\ d.time < d.authority.until /\ d.time < d.rule.until
  BY <1>4, <1>5, DossierNumbers
\* The floors are no less than 0, so that a factor that is not given fails.
<1>9. ASSUME NEW key \in DOMAIN d.rule.minimum
      PROVE  key \in DOMAIN factors /\ factors[key] >= d.rule.minimum[key]
  <2>1. d.rule.minimum[key] \in Nat
    BY <1>4, DossierNumbers
  <2>2. key \in DOMAIN factors
    BY <1>6, <2>1 DEF Factor
  <2>3. factors[key] \in Nat
    BY <1>6, <2>2, DossierNumbers
  <2>4. QED
    BY <1>6, <2>1, <2>2, <2>3 DEF Factor
<1>10. ASSUME NEW key \in DOMAIN d.rule.maximum \cap DOMAIN factors
       PROVE  factors[key] <= d.rule.maximum[key]
  <2>1. factors[key] \in Nat /\ d.rule.maximum[key] \in Nat
    BY <1>4, <1>6, DossierNumbers
  <2>2. QED
    BY <1>6, <2>1 DEF Factor
<1>11. /\ \A kind \in d.rule.kinds : \E o \in d.observations : o.kind = kind
       /\ \A r \in d.measurement.observations : \E o \in d.observations : o.id = r
  BY <1>5, <1>7
<1> HIDE DEF d
<1>12. Supports(d, p.candidate.id, p.from, p.to)
  BY <1>2, <1>4, <1>5, <1>6, <1>7, <1>8, <1>9, <1>10, <1>11 DEF Supports
<1>13. QED
  BY <1>12 DEF d

-------------------------------------------------------------------------------
(***************************************************************************)
(* The session.                                                            *)
(***************************************************************************)
\* Whatever else it says, a packet of the caller is about a candidate of its
\* own, by the candidate's hash, and reopens under a fresh identity or in place.
FromCaller(p) ==
    /\ {"operation", "candidate", "current", "from", "to", "reopening", "dossier"}
          \subseteq DOMAIN p
    /\ p.operation \in {"TRANSITION", "REOPEN"}
    /\ p.candidate.id \in Candidates
    /\ p.candidate.hash = Content[p.candidate.id]
    /\ p.current.candidate \in Candidates
    /\ {p.from, p.to, p.current.status} \subseteq Statuses
    /\ p.operation = "REOPEN" =>
          \/ status[p.candidate.id] = Absent
          \/ p.candidate.id = p.current.candidate

\* The receipt is the engine's on a packet of the caller, or an audit, or there
\* was no packet.
Issued(r) ==
    /\ r.outcome \in Outcomes \cup {"REPLAYED"}
    /\ r.changed \in BOOLEAN
    /\ r.replay # None => ~r.changed
    /\ \/ r = MalformedReceipt
       \/ /\ FromCaller(r.packet)
          /\ {r.prior, r.resulting} \subseteq Statuses
          /\ r.replay = None =>
                /\ r = EvaluateBase(r.packet)
                /\ r.packet.operation = "TRANSITION" => r.packet.dossier \in Dossiers

\* A candidate has been in the stages below the ones it has been in.
Stages(T) ==
    /\ "COMMITTED" \in T => "MEASURED" \in T
    /\ "MEASURED" \in T => "WEIGHTED" \in T
    /\ "WEIGHTED" \in T => "CANDIDATE" \in T

Kept ==
    /\ status \in [Candidates -> Statuses \cup {Absent}]
    /\ trail \in [Candidates -> SUBSET Statuses]
    /\ last \in [Candidates -> {None} \cup (Candidates \X Statuses \X Statuses)]
    /\ \A c \in Candidates :
          /\ last[c] # None => last[c][1] = c
          /\ IF status[c] = Absent THEN trail[c] = {} ELSE status[c] \in trail[c]
          /\ Stages(trail[c])

IInv == Kept /\ (receipt # None => Issued(receipt))

\* The engine's answer to a packet of the caller.
LEMMA AnswerIsIssued ==
  ASSUME NEW p, FromCaller(p), p.operation = "TRANSITION" => p.dossier \in Dossiers
  PROVE  Issued(EvaluatePacket(p, None))
<1> DEFINE r == EvaluateBase(p)
<1>1. /\ r.packet = p /\ r.replay = None /\ r.outcome \in Outcomes
      /\ r.prior = p.current.status /\ r.changed \in BOOLEAN
      /\ r.resulting \in {p.current.status, p.to, "CANDIDATE"}
  BY ReceiptShape
<1> HIDE DEF r
<1>2. {r.prior, r.resulting} \subseteq Statuses
  BY <1>1 DEF FromCaller, Statuses
<1>3. Issued(r)
  BY <1>1, <1>2 DEF Issued, r
<1>4. EvaluatePacket(p, None) = r
  BY DEF EvaluatePacket, r
<1>5. QED
  BY <1>3, <1>4

\* What a replay does to the receipt.
LEMMA AuditOf ==
  ASSUME IInv, receipt # None, receipt.packet # None, NEW d,
         d \in {receipt.packet.dossier, Trace},
         receipt' = EvaluatePacket([receipt.packet EXCEPT !.dossier = d], receipt)
  PROVE  /\ receipt'.packet = [receipt.packet EXCEPT !.dossier = d]
         /\ receipt'.outcome \in Outcomes \cup {"REPLAYED"}
         /\ receipt'.outcome = "REPLAYED" <=>
               EvaluateBase(receipt'.packet) = receipt
         /\ receipt'.changed = FALSE /\ receipt'.replay # None
         /\ FromCaller(receipt'.packet)
         /\ {receipt'.prior, receipt'.resulting} \subseteq Statuses
<1> DEFINE q == [receipt.packet EXCEPT !.dossier = d]
           base == EvaluateBase(q)
<1>1. FromCaller(receipt.packet)
  BY DEF IInv, Issued, MalformedReceipt
<1>2. /\ FromCaller(q)
  BY <1>1 DEF FromCaller
<1>3. /\ base.packet = q /\ base.outcome \in Outcomes
      /\ base.prior = q.current.status
      /\ base.resulting \in {q.current.status, q.to, "CANDIDATE"}
      /\ DOMAIN base = {"packet", "outcome", "prior", "resulting", "changed",
                        "reasons", "retained", "resolved", "replay"}
  BY ReceiptShape
<1>4. receipt' = AsReplay(base, receipt)
  BY DEF EvaluatePacket
<1> HIDE DEF base
<1>5. /\ receipt'.packet = base.packet
      /\ receipt'.outcome = IF base = receipt THEN "REPLAYED" ELSE "INVALID"
      /\ receipt'.changed = FALSE
      /\ receipt'.replay = [matches |-> base = receipt]
      /\ receipt'.prior = base.prior /\ receipt'.resulting = base.resulting
  BY <1>3, <1>4 DEF AsReplay
<1>6. receipt'.replay # None
  BY <1>5, SessionConstants
<1>7. {base.prior, base.resulting} \subseteq Statuses
  BY <1>2, <1>3 DEF FromCaller, Statuses
<1>8. receipt'.packet = q /\ EvaluateBase(receipt'.packet) = base
  BY <1>3, <1>5 DEF base
<1>9. QED
  BY <1>2, <1>5, <1>6, <1>7, <1>8 DEF Outcomes

\* What applying a receipt does to its candidate.
LEMMA Applied ==
  ASSUME IInv, Apply
  PROVE  LET p == receipt.packet
             c == p.candidate.id
         IN  /\ c \in Candidates /\ FromCaller(p)
             /\ receipt = EvaluateBase(p) /\ receipt.changed
             /\ status' = [status EXCEPT ![c] = receipt.resulting]
             /\ trail' = [trail EXCEPT ![c] = @ \cup {receipt.resulting}]
             /\ last' = [last EXCEPT ![c] = <<c, p.from, p.to>>]
             /\ receipt' = None
             /\ status[p.current.candidate] = p.from
             /\ p.current.status = p.from
             /\ p.current.lastReceipt \in {None, last[p.current.candidate]}
             /\ p.operation = "TRANSITION" =>
                   /\ p.current.candidate = c /\ p.dossier \in Dossiers
                   /\ p.candidate.content = Content[c]
                   /\ TransitionErrors(p) = {} /\ receipt.resulting = p.to
             /\ p.operation = "REOPEN" =>
                   status[c] = Absent /\ receipt.resulting = "CANDIDATE"
<1> DEFINE p == receipt.packet  c == p.candidate.id
<1>1. /\ receipt # None /\ receipt.changed /\ StillCurrent(p)
      /\ status' = [status EXCEPT ![c] = receipt.resulting]
      /\ trail' = [trail EXCEPT ![c] = @ \cup {receipt.resulting}]
      /\ last' = [last EXCEPT ![c] = <<c, p.from, p.to>>]
      /\ receipt' = None
  BY DEF Apply, ReceiptName
<1>2. /\ FromCaller(p) /\ receipt = EvaluateBase(p)
      /\ p.operation = "TRANSITION" => p.dossier \in Dossiers
  BY <1>1 DEF IInv, Issued, MalformedReceipt
<1>3. /\ BindingErrors(p) = {} /\ receipt.outcome = "ALLOWED"
      /\ p.operation # "REOPEN" =>
            TransitionErrors(p) = {} /\ receipt.resulting = p.to
      /\ p.operation = "REOPEN" =>
            ReopeningIsStructured(p) /\ receipt.resulting = "CANDIDATE"
  <2>1. EvaluateBase(p).changed
    BY <1>1, <1>2
  <2> HIDE DEF p
  <2>2. QED
    BY <1>2, <2>1, ChangeIsJustified
<1>4. ContentMatches(p) /\ StateMatches(p)
  BY <1>3 DEF BindingErrors, When
<1> HIDE DEF p
<1>5. /\ p.current.status = p.from
      /\ p.operation = "TRANSITION" => p.current.candidate = c
      /\ p.candidate.content = p.candidate.hash
  BY <1>4 DEF ContentMatches, StateMatches
<1>6. p.operation = "REOPEN" => status[c] = Absent
  BY <1>2, <1>3 DEF FromCaller, ReopeningIsStructured
<1>7. /\ status[p.current.candidate] = p.from
      /\ p.current.lastReceipt \in {None, last[p.current.candidate]}
  BY <1>1, <1>5 DEF StillCurrent
<1>8. c \in Candidates /\ p.candidate.hash = Content[c]
  BY <1>2 DEF FromCaller
<1>9. QED
  BY <1>1, <1>2, <1>3, <1>5, <1>6, <1>7, <1>8 DEF p

\* One step of a candidate along the graph.
LEMMA StepOf ==
  ASSUME IInv, Apply
  PROVE  LET c == receipt.packet.candidate.id
             to == receipt.resulting
         IN  /\ to \in Statuses
             /\ \/ /\ status[c] = Absent /\ to = "CANDIDATE"
                   /\ receipt.packet.operation = "REOPEN"
                \/ /\ status[c] \in Statuses
                   /\ receipt.packet.operation = "TRANSITION"
                   /\ \/ to \in BaselineTransitions[status[c]]
                      \/ status[c] = "UNRESOLVED" /\ to = "EXPIRED"
<1> DEFINE p == receipt.packet
<1>1. CASE p.operation = "REOPEN"
  BY <1>1, Applied DEF Statuses
<1>2. CASE p.operation = "TRANSITION"
  <2>1. /\ status[p.candidate.id] = p.from /\ p.from \in Statuses
        /\ receipt.resulting = p.to /\ p.to \in Statuses
        /\ TransitionErrors(p) = {}
    BY <1>2, Applied DEF FromCaller
  <2>2. RouteAllowed(p.from, p.to, p.dossier.allowUnresolvedExpiry)
    BY <2>1 DEF TransitionErrors, When
  <2>3. QED
    BY <1>2, <2>1, <2>2 DEF RouteAllowed
<1>3. QED
  BY <1>1, <1>2, Applied DEF FromCaller

THEOREM Inductive == Spec => []IInv
<1>1. Init => IInv
  BY SessionConstants DEF Init, IInv, Kept, Stages, Statuses
<1>2. IInv /\ [Next]_vars => IInv'
  <2> SUFFICES ASSUME IInv, [Next]_vars PROVE IInv'
    OBVIOUS
  <2>1. ASSUME UNCHANGED <<status, trail, last>> PROVE Kept'
    BY <2>1 DEF IInv, Kept
  <2>2. ASSUME UNCHANGED <<status, trail, last>>, NEW p, FromCaller(p),
               p.operation = "TRANSITION" => p.dossier \in Dossiers,
               receipt' = EvaluatePacket(p, None)
        PROVE  IInv'
    <3>1. Issued(EvaluatePacket(p, None))
      BY <2>2, AnswerIsIssued
    <3>2. Issued(receipt)'
      BY <2>2, <3>1 DEF Issued, FromCaller
    <3>3. QED
      BY <2>1, <2>2, <3>2 DEF IInv
  <2>3. CASE PresentTransition
    <3>0. PICK c \in Candidates, to \in Statuses, d \in Dossiers :
          \E say \in Statements(c) :
            /\ status[c] # Absent
            /\ receipt' = EvaluatePacket(
                  [operation |-> "TRANSITION",
                   candidate |-> [id |-> c, content |-> say.content,
                                  hash |-> Content[c]],
                   current |-> Snapshot(say.about, say.status, None),
                   from |-> say.from, to |-> to, reopening |-> None,
                   dossier |-> d],
                  None)
      BY <2>3 DEF PresentTransition
    <3>1. PICK say \in Statements(c) :
            /\ status[c] # Absent
            /\ receipt' = EvaluatePacket(
                  [operation |-> "TRANSITION",
                   candidate |-> [id |-> c, content |-> say.content,
                                  hash |-> Content[c]],
                   current |-> Snapshot(say.about, say.status, None),
                   from |-> say.from, to |-> to, reopening |-> None,
                   dossier |-> d],
                  None)
      BY <3>0
    <3>2. /\ say.about \in Candidates
          /\ say.status \in Statuses /\ say.from \in Statuses
      BY <3>1 DEF Statements, IInv, Kept
    <3> DEFINE p == [operation |-> "TRANSITION",
                     candidate |-> [id |-> c, content |-> say.content,
                                    hash |-> Content[c]],
                     current |-> Snapshot(say.about, say.status, None),
                     from |-> say.from, to |-> to, reopening |-> None,
                     dossier |-> d]
    <3>3. FromCaller(p) /\ p.dossier \in Dossiers
      BY <3>1, <3>2 DEF FromCaller, Snapshot
    <3>4. receipt' = EvaluatePacket(p, None) /\ UNCHANGED <<status, trail, last>>
      BY <2>3, <3>1 DEF PresentTransition
    <3> HIDE DEF p
    <3>5. QED
      BY <2>2, <3>3, <3>4
  <2>4. CASE PresentReopening
    <3>1. PICK c \in Candidates, about \in Candidates,
               to \in {"CANDIDATE", "UNRESOLVED"} :
          \E s \in trail[about], r \in {None, last[about]}, request \in Requests(about) :
            /\ status[c] = Absent \/ c = about
            /\ receipt' = EvaluatePacket(
                  [operation |-> "REOPEN",
                   candidate |-> [id |-> c, content |-> Content[c],
                                  hash |-> Content[c]],
                   current |-> Snapshot(about, s, r),
                   from |-> s, to |-> to, reopening |-> request,
                   dossier |-> Trace],
                  None)
      BY <2>4 DEF PresentReopening
    <3>2. PICK s \in trail[about], r \in {None, last[about]},
               request \in Requests(about) :
            /\ status[c] = Absent \/ c = about
            /\ receipt' = EvaluatePacket(
                  [operation |-> "REOPEN",
                   candidate |-> [id |-> c, content |-> Content[c],
                                  hash |-> Content[c]],
                   current |-> Snapshot(about, s, r),
                   from |-> s, to |-> to, reopening |-> request,
                   dossier |-> Trace],
                  None)
      BY <3>1
    <3> DEFINE p == [operation |-> "REOPEN",
                     candidate |-> [id |-> c, content |-> Content[c],
                                    hash |-> Content[c]],
                     current |-> Snapshot(about, s, r),
                     from |-> s, to |-> to, reopening |-> request,
                     dossier |-> Trace]
    <3>3. s \in Statuses /\ to \in Statuses
      BY DEF IInv, Kept, Statuses
    <3>4. FromCaller(p) /\ p.operation = "REOPEN"
      BY <3>2, <3>3 DEF FromCaller, Snapshot
    <3>5. receipt' = EvaluatePacket(p, None) /\ UNCHANGED <<status, trail, last>>
      BY <2>4, <3>2 DEF PresentReopening
    <3> HIDE DEF p
    <3>6. QED
      BY <2>2, <3>4, <3>5
  <2>5. CASE PresentMalformed
    <3>1. Issued(receipt)'
      BY <2>5 DEF PresentMalformed, Issued, MalformedReceipt, Outcomes
    <3>2. QED
      BY <2>1, <2>5, <3>1 DEF PresentMalformed, IInv
  <2>6. CASE Replay
    <3>1. PICK d \in {receipt.packet.dossier, Trace} :
             receipt' = EvaluatePacket([receipt.packet EXCEPT !.dossier = d], receipt)
      BY <2>6 DEF Replay
    <3>2. receipt # None /\ receipt.packet # None /\ UNCHANGED <<status, trail, last>>
      BY <2>6 DEF Replay
    <3>3. /\ receipt'.outcome \in Outcomes \cup {"REPLAYED"}
          /\ receipt'.changed = FALSE /\ receipt'.replay # None
          /\ FromCaller(receipt'.packet)
          /\ {receipt'.prior, receipt'.resulting} \subseteq Statuses
      BY <3>1, <3>2, AuditOf
    <3>4. Issued(receipt)'
      BY <3>2, <3>3 DEF Issued, FromCaller
    <3>5. QED
      BY <2>1, <3>2, <3>4 DEF IInv
  <2>7. CASE Apply
    <3> DEFINE c == receipt.packet.candidate.id
               to == receipt.resulting
    <3>1. /\ c \in Candidates /\ to \in Statuses
          /\ status' = [status EXCEPT ![c] = to]
          /\ trail' = [trail EXCEPT ![c] = @ \cup {to}]
          /\ last' = [last EXCEPT ![c] = <<c, receipt.packet.from, receipt.packet.to>>]
          /\ receipt' = None
          /\ receipt.packet.from \in Statuses /\ receipt.packet.to \in Statuses
      BY <2>7, Applied, StepOf DEF FromCaller
    <3>2. Stages(trail[c] \cup {to})
      <4>1. CASE status[c] = Absent /\ to = "CANDIDATE"
        BY <3>1, <4>1 DEF IInv, Kept, Stages
      <4>2. CASE /\ status[c] \in Statuses
                 /\ \/ to \in BaselineTransitions[status[c]]
                    \/ status[c] = "UNRESOLVED" /\ to = "EXPIRED"
        <5>1. status[c] \in trail[c] /\ Stages(trail[c])
          BY <3>1, <4>2, SessionConstants DEF IInv, Kept
        <5> HIDE DEF c, to
        <5>2. QED
          BY <4>2, <5>1 DEF Stages, BaselineTransitions, Statuses
      <4>3. QED
        BY <2>7, <4>1, <4>2, StepOf
    <3> HIDE DEF c, to
    <3>3. to # Absent
      BY <3>1, SessionConstants
    <3>4. Kept'
      BY <3>1, <3>2, <3>3 DEF IInv, Kept
    <3>5. QED
      BY <3>1, <3>4 DEF IInv
  <2>8. CASE File
    BY <2>1, <2>8 DEF File, IInv
  <2>9. CASE UNCHANGED vars
    BY <2>1, <2>9 DEF vars, IInv, Issued, FromCaller
  <2>10. QED
    BY <2>3, <2>4, <2>5, <2>6, <2>7, <2>8, <2>9 DEF Next
<1>3. QED
  BY <1>1, <1>2, PTL DEF Spec

THEOREM TypeCorrect == Spec => []TypeOK
<1>1. IInv => TypeOK
  BY DEF IInv, Kept, Issued, Outcomes, TypeOK
<1>2. QED
  BY <1>1, Inductive, PTL

\* No sequence of packets jumps a stage.
THEOREM CommittedWasWeighedAndMeasuredAlways ==
  Spec => []CommittedWasWeighedAndMeasured
<1>1. IInv => CommittedWasWeighedAndMeasured
  BY DEF IInv, Kept, Stages, CommittedWasWeighedAndMeasured
<1>2. QED
  BY <1>1, Inductive, PTL

-------------------------------------------------------------------------------
\* Only an applied receipt moves a candidate.
LEMMA OnlyApplyMoves ==
  ASSUME IInv, [Next]_vars, NEW c \in Candidates, status'[c] # status[c]
  PROVE  /\ Apply /\ c = receipt.packet.candidate.id
         /\ status'[c] = receipt.resulting
<1>1. Apply
  BY DEF Next, vars, PresentTransition, PresentReopening, PresentMalformed,
         Replay, File
<1>2. QED
  BY <1>1, Applied DEF IInv, Kept

\* Statuses never flow back.
THEOREM NoBackflowAlways == Spec => NoBackflow
<1> DEFINE Rises(c) ==
      status'[c] # status[c] =>
         \/ status[c] \in Statuses /\ Rank[status'[c]] > Rank[status[c]]
         \/ /\ status[c] = Absent
            /\ status'[c] = "CANDIDATE"
            /\ receipt.packet.operation = "REOPEN"
            /\ receipt.outcome = "ALLOWED"
<1>1. ASSUME IInv, [Next]_vars, NEW c \in Candidates, status'[c] # status[c]
      PROVE  Rises(c)
  <2>1. /\ Apply /\ c = receipt.packet.candidate.id
        /\ status'[c] = receipt.resulting
    BY <1>1, OnlyApplyMoves
  <2>2. receipt.outcome = "ALLOWED"
    <3>1. receipt = EvaluateBase(receipt.packet) /\ receipt.changed
      BY <1>1, <2>1, Applied
    <3> DEFINE p == receipt.packet
    <3>2. receipt = EvaluateBase(p) /\ EvaluateBase(p).changed
      BY <3>1
    <3> HIDE DEF p
    <3>3. QED
      BY <3>2, ChangeIsJustified
  <2> DEFINE s == status[c]  to == receipt.resulting
  <2>3. \/ s = Absent /\ to = "CANDIDATE" /\ receipt.packet.operation = "REOPEN"
        \/ /\ s \in Statuses /\ to \in Statuses
           /\ \/ to \in BaselineTransitions[s]
              \/ s = "UNRESOLVED" /\ to = "EXPIRED"
    BY <1>1, <2>1, StepOf
  <2>4. ASSUME s \in Statuses,
               to \in BaselineTransitions[s] \/ (s = "UNRESOLVED" /\ to = "EXPIRED")
        PROVE  Rank[to] > Rank[s]
    <3> HIDE DEF s, to
    <3>1. QED
      BY <2>4 DEF Statuses, BaselineTransitions, Rank
  <2>5. QED
    BY <2>1, <2>2, <2>3, <2>4
<1>2. IInv /\ [Next]_vars => [\A c \in Candidates : Rises(c)]_vars
  BY <1>1
<1>3. QED
  BY <1>2, Inductive, PTL DEF Spec, NoBackflow

\* A decision is governed by the rule and the authority of its packet.
THEOREM DecisionsAreGovernedAlways == Spec => DecisionsAreGoverned
<1> DEFINE Governed(c) ==
      status'[c] # status[c] /\ status'[c] \in {"COMMITTED", "REJECTED"} =>
         /\ receipt.outcome = "ALLOWED"
         /\ receipt.packet.candidate.content = Content[c]
         /\ Supports(receipt.packet.dossier, c, status[c], status'[c])
<1>1. ASSUME IInv, [Next]_vars, NEW c \in Candidates, status'[c] # status[c],
             status'[c] \in {"COMMITTED", "REJECTED"}
      PROVE  Governed(c)
  <2> DEFINE p == receipt.packet
  <2>1. Apply /\ c = p.candidate.id /\ status'[c] = receipt.resulting
    BY <1>1, OnlyApplyMoves
  <2>2. p.operation = "TRANSITION"
    BY <1>1, <2>1, StepOf
  <2>3. /\ receipt = EvaluateBase(p) /\ receipt.changed
        /\ p.candidate.content = Content[c] /\ p.dossier \in Dossiers
        /\ TransitionErrors(p) = {} /\ receipt.resulting = p.to
        /\ status[c] = p.from
    BY <1>1, <2>1, <2>2, Applied
  <2> HIDE DEF p
  <2>4. receipt.outcome = "ALLOWED"
    BY <2>3, ChangeIsJustified
  <2>5. p.to \in {"COMMITTED", "REJECTED"}
    BY <1>1, <2>1, <2>3
  <2>6. Supports(p.dossier, p.candidate.id, p.from, p.to)
    BY <2>3, <2>5, DecisionIsJustified
  <2>7. QED
    BY <2>1, <2>3, <2>4, <2>6 DEF p
<1>2. IInv /\ [Next]_vars => [\A c \in Candidates : Governed(c)]_vars
  BY <1>1
<1>3. QED
  BY <1>2, Inductive, PTL DEF Spec, DecisionsAreGoverned

\* A reopening answers every failure it declares.
THEOREM ReopeningAnswersEveryFailureAlways == Spec => ReopeningAnswersEveryFailure
<1> DEFINE Answered(c) ==
      status[c] = Absent /\ status'[c] # Absent =>
         LET p == receipt.packet
             about == p.reopening.candidate
         IN  /\ about # c
             /\ p.reopening.status = status[about]
             /\ p.current.lastReceipt # None => p.reopening.receipt = last[about]
             /\ \A f \in p.reopening.failures :
                   /\ \E m \in p.reopening.deltas :
                         m.category = f.category /\ f.id \in m.resolves
                   /\ f \in receipt.resolved \/ f \in receipt.retained
                   /\ f \in receipt.resolved => f.category = "PROCEDURAL"
<1>1. ASSUME IInv, [Next]_vars, NEW c \in Candidates, status[c] = Absent,
             status'[c] # Absent
      PROVE  Answered(c)
  <2> DEFINE p == receipt.packet
  <2>1. Apply /\ c = p.candidate.id
    BY <1>1, OnlyApplyMoves
  <2>2. p.operation = "REOPEN"
    BY <1>1, <2>1, StepOf, SessionConstants
  <2>3. /\ receipt = EvaluateBase(p) /\ receipt.changed
        /\ status[p.current.candidate] = p.current.status
        /\ p.current.lastReceipt \in {None, last[p.current.candidate]}
    BY <1>1, <2>1, Applied
  <2> HIDE DEF p
  <2>4. /\ ReopeningIsStructured(p)
        /\ \A f \in p.reopening.failures :
              /\ ResolvedBy(f, p.reopening.deltas)
              /\ f \in receipt.resolved \/ f \in receipt.retained
              /\ f \in receipt.resolved => f.category = "PROCEDURAL"
    BY <2>2, <2>3, ChangeIsJustified
  <2>5. /\ p.reopening.candidate = p.current.candidate
        /\ p.reopening.status = p.current.status
        /\ c # p.reopening.candidate
        /\ p.current.lastReceipt \in {None, p.reopening.receipt}
    BY <2>1, <2>4 DEF ReopeningIsStructured
  <2>6. \A f \in p.reopening.failures :
           \E m \in p.reopening.deltas : m.category = f.category /\ f.id \in m.resolves
    BY <2>4 DEF ResolvedBy
  <2>7. QED
    BY <2>3, <2>4, <2>5, <2>6 DEF p
<1>2. IInv /\ [Next]_vars => [\A c \in Candidates : Answered(c)]_vars
  BY <1>1
<1>3. QED
  BY <1>2, Inductive, PTL DEF Spec, ReopeningAnswersEveryFailure

\* An evaluation against a receipt is an audit of it.
THEOREM ReplayIsAnAuditAlways == Spec => ReplayIsAnAudit
<1> DEFINE Audit ==
      receipt # None /\ receipt' # None =>
          /\ ~receipt'.changed
          /\ receipt'.outcome = "REPLAYED" <=>
                /\ receipt'.packet # None /\ receipt'.packet = receipt.packet
                /\ receipt.replay = None
<1>1. ASSUME IInv, Next, receipt # None, receipt' # None PROVE Audit
  <2>1. CASE PresentMalformed
    BY <2>1 DEF PresentMalformed, MalformedReceipt
  <2>2. CASE Replay
    <3>1. PICK d \in {receipt.packet.dossier, Trace} :
             receipt' = EvaluatePacket([receipt.packet EXCEPT !.dossier = d], receipt)
      BY <2>2 DEF Replay
    <3>2. receipt # None /\ receipt.packet # None
      BY <2>2 DEF Replay
    <3>3. /\ receipt'.outcome = "REPLAYED" <=> EvaluateBase(receipt'.packet) = receipt
          /\ receipt'.changed = FALSE
      BY <1>1, <3>1, <3>2, AuditOf
    <3> DEFINE q == receipt'.packet
    <3>4. EvaluateBase(q).packet = q /\ EvaluateBase(q).replay = None
      <4> HIDE DEF q
      <4>1. QED
        BY ReceiptShape
    <3>5. receipt.replay = None => receipt = EvaluateBase(receipt.packet)
      BY <1>1, <3>2 DEF IInv, Issued, MalformedReceipt
    <3>6. QED
      BY <3>2, <3>3, <3>4, <3>5
  <2>3. QED
    BY <1>1, <2>1, <2>2 DEF Next, PresentTransition, PresentReopening, Apply, File
<1>2. IInv /\ [Next]_vars => [Audit]_vars
  BY <1>1
<1>3. QED
  BY <1>2, Inductive, PTL DEF Spec, ReplayIsAnAudit
===============================================================================
