---------------------------- MODULE LifecycleSession ----------------------------
(***************************************************************************)
(* A caller of a0_zsa_kernel over time.  The engine keeps nothing between  *)
(* two evaluations: the caller keeps the status of each candidate and its  *)
(* last receipt, presents packets, and settles the receipts it gets.       *)
(*                                                                         *)
(* The packets are not trusted, although one is wrong in one way only: its *)
(* state snapshot is an old one, or another candidate's, or its step does  *)
(* not start from the status the snapshot shows, or its content does not   *)
(* match its hash.  Any dossier may support any step.  Two things are      *)
(* assumed of the caller: it applies a receipt only while the snapshot is  *)
(* still what it keeps, and it reopens under an identity it has not used,  *)
(* or, by mistake, under the identity that is being reopened.              *)
(***************************************************************************)
EXTENDS Lifecycle

CONSTANTS Candidates,   \* candidate identities
          First,        \* the candidate that exists at the start
          Absent,       \* status of an identity not used yet
          Content,      \* the content of each candidate
          Tampered,     \* a content that no candidate's hash names
          Dossiers,     \* what packets supply in support of a step
          Trace,        \* the dossier of a reopening, or of an altered packet
          Appeals       \* [failures, deltas] that reopening requests declare

ASSUME SessionConstants ==
    /\ First \in Candidates
    /\ Absent \notin Statuses
    /\ DOMAIN Content = Candidates
    /\ \A c \in Candidates : Content[c] # Tampered
    /\ \A b \in BOOLEAN : [matches |-> b] # None
    /\ None \notin Candidates \cup Statuses

\* The models of a dossier make its times integers, and the weights it gives
\* and asks for no less than 0.
ASSUME DossierNumbers ==
    \A d \in Dossiers :
        /\ d.time \in Int
        /\ d.rule # None =>
              /\ d.rule.from \in Int /\ d.rule.until \in Int
              /\ \A key \in DOMAIN d.rule.minimum : d.rule.minimum[key] \in Nat
              /\ \A key \in DOMAIN d.rule.maximum : d.rule.maximum[key] \in Nat
        /\ d.weighting # None =>
              \A key \in DOMAIN d.weighting.factors :
                 d.weighting.factors[key] \in Nat
        /\ d.authority # None =>
              d.authority.from \in Int /\ d.authority.until \in Int

VARIABLES
    status,    \* the status the caller keeps for each candidate
    trail,     \* the statuses the candidate has been in (history)
    last,      \* the name of the last receipt applied to each candidate
    receipt    \* the receipt the engine returned, until the caller settles it

vars == <<status, trail, last, receipt>>

\* A candidate takes an edge of the status graph once: the edge names the
\* receipt.
ReceiptName(p) == <<p.candidate.id, p.from, p.to>>

UnknownReceipt(c) == <<c, "UNRESOLVED", "UNRESOLVED">>

TypeOK ==
    /\ status \in [Candidates -> Statuses \cup {Absent}]
    /\ trail \in [Candidates -> SUBSET Statuses]
    /\ \A c \in Candidates :
          last[c] # None => last[c] \in {c} \X Statuses \X Statuses
    /\ receipt # None =>
          /\ receipt.outcome \in {"ALLOWED", "BLOCKED", "INVALID", "REPLAYED"}
          /\ \/ receipt = MalformedReceipt
             \/ {receipt.prior, receipt.resulting} \subseteq Statuses
          /\ receipt.changed \in BOOLEAN

Init ==
    /\ status = [c \in Candidates |->
                    IF c = First THEN "UNRESOLVED" ELSE Absent]
    /\ trail = [c \in Candidates |->
                    IF c = First THEN {"UNRESOLVED"} ELSE {}]
    /\ last = [c \in Candidates |-> None]
    /\ receipt = None

Snapshot(about, s, r) ==
    [candidate |-> about, status |-> s, hash |-> Content[about],
     lastReceipt |-> r]

\* What a packet about c says of the world: the truth, or one thing wrong.
Statements(c) ==
    LET truth == [about |-> c, status |-> status[c], from |-> status[c],
                  content |-> Content[c]]
        others == {o \in Candidates : status[o] # Absent}
    IN  {[truth EXCEPT !.status = s, !.from = s] : s \in trail[c]}
        \cup {[truth EXCEPT !.from = s] : s \in Statuses}
        \cup {[truth EXCEPT !.about = o, !.status = status[o],
                            !.from = status[o]] : o \in others}
        \cup {[truth EXCEPT !.content = Tampered]}

PresentTransition ==
    /\ receipt = None
    /\ \E c \in Candidates, to \in Statuses, d \in Dossiers :
          /\ status[c] # Absent
          /\ \E say \in Statements(c) :
               receipt' = EvaluatePacket(
                  [operation |-> "TRANSITION",
                   candidate |-> [id |-> c, content |-> say.content,
                                  hash |-> Content[c]],
                   current |-> Snapshot(say.about, say.status, None),
                   from |-> say.from, to |-> to, reopening |-> None,
                   dossier |-> d],
                  None)
    /\ UNCHANGED <<status, trail, last>>

\* A request that contradicts what the caller keeps, or that declares nothing.
Requests(about) ==
    {None} \cup
    {[candidate |-> about, hash |-> Content[about], status |-> s,
      receipt |-> r, failures |-> a.failures, deltas |-> a.deltas] :
        s \in trail[about],
        r \in {last[about], UnknownReceipt(about)} \ {None},
        a \in Appeals}

PresentReopening ==
    /\ receipt = None
    /\ \E c, about \in Candidates, to \in {"CANDIDATE", "UNRESOLVED"} :
       \E s \in trail[about], r \in {None, last[about]},
          request \in Requests(about) :
          /\ status[c] = Absent \/ c = about
          /\ receipt' = EvaluatePacket(
                [operation |-> "REOPEN",
                 candidate |-> [id |-> c, content |-> Content[c],
                                hash |-> Content[c]],
                 current |-> Snapshot(about, s, r),
                 from |-> s, to |-> to, reopening |-> request,
                 dossier |-> Trace],
                None)
    /\ UNCHANGED <<status, trail, last>>

\* Bytes that are no packet, presented alone or to be replayed.
PresentMalformed ==
    /\ receipt' = MalformedReceipt
    /\ UNCHANGED <<status, trail, last>>

\* The packet, or one altered since, is evaluated against the receipt.
Replay ==
    /\ receipt # None /\ receipt.packet # None
    /\ \E d \in {receipt.packet.dossier, Trace} :
          receipt' = EvaluatePacket([receipt.packet EXCEPT !.dossier = d],
                                    receipt)
    /\ UNCHANGED <<status, trail, last>>

\* The snapshot the receipt was computed from is still what the caller keeps.
StillCurrent(p) ==
    /\ status[p.current.candidate] = p.current.status
    /\ p.current.lastReceipt \in {None, last[p.current.candidate]}

Apply ==
    /\ receipt # None
    /\ receipt.changed
    /\ StillCurrent(receipt.packet)
    /\ LET p == receipt.packet
           c == p.candidate.id
       IN  /\ status' = [status EXCEPT ![c] = receipt.resulting]
           /\ trail' = [trail EXCEPT ![c] = @ \cup {receipt.resulting}]
           /\ last' = [last EXCEPT ![c] = ReceiptName(p)]
    /\ receipt' = None

File ==
    /\ receipt # None
    /\ receipt' = None
    /\ UNCHANGED <<status, trail, last>>

Next ==
    \/ PresentTransition
    \/ PresentReopening
    \/ PresentMalformed
    \/ Replay
    \/ Apply
    \/ File

Spec == Init /\ [][Next]_vars

-------------------------------------------------------------------------------
(***************************************************************************)
(* Properties                                                              *)
(***************************************************************************)
\* A committed candidate has been a candidate, weighed and measured: no
\* sequence of packets, with old snapshots, other candidates' snapshots or
\* misstated statuses, jumps a stage (transitions.py:4-18, engine.py:72-91).
CommittedWasWeighedAndMeasured ==
    \A c \in Candidates :
        "COMMITTED" \in trail[c] =>
            {"CANDIDATE", "WEIGHTED", "MEASURED"} \subseteq trail[c]

Rank == [UNRESOLVED |-> 0, CANDIDATE |-> 1, WEIGHTED |-> 2, MEASURED |-> 3,
         COMMITTED |-> 4, REJECTED |-> 4, EXPIRED |-> 5]

\* Statuses never flow back (DESIGN.md:66): a candidate only rises, an ended one
\* (committed, rejected, expired) is never made a candidate again, and a
\* reopening starts a new identity and leaves the record it reopens alone.
NoBackflow ==
    [][\A c \in Candidates :
          status'[c] # status[c] =>
             \/ status[c] \in Statuses /\ Rank[status'[c]] > Rank[status[c]]
             \/ /\ status[c] = Absent
                /\ status'[c] = "CANDIDATE"
                /\ receipt.packet.operation = "REOPEN"
                /\ receipt.outcome = "ALLOWED"]_vars

\* The dossier supports a decision about c: an authority over c and a rule it
\* adopted, untampered, in force together at the time of the packet, permitting
\* the step and the action; the evidence the rule requires; every weight it sets
\* a floor or a ceiling for inside it; and a measurement of observations that are
\* there, with no burden left that the rule does not allow.
Supports(d, c, from, to) ==
    /\ d.authority # None /\ d.rule # None
    /\ d.weighting # None /\ d.measurement # None
    /\ d.rule.hashMatches
    /\ d.rule.permits = <<from, to>>
    /\ d.rule.scope = d.authority.scope
    /\ d.rule.adoptedBy \in d.authority.adoptionRefs
    /\ d.rule.action \in d.authority.actions
    /\ c \in d.authority.targets
    /\ d.time >= d.authority.from /\ d.time >= d.rule.from
    /\ d.time < d.authority.until /\ d.time < d.rule.until
    /\ \A kind \in d.rule.kinds : \E o \in d.observations : o.kind = kind
    /\ LET factors == d.weighting.factors
       IN  /\ \A key \in DOMAIN d.rule.minimum :
                 key \in DOMAIN factors /\ factors[key] >= d.rule.minimum[key]
           /\ \A key \in DOMAIN d.rule.maximum \cap DOMAIN factors :
                 factors[key] <= d.rule.maximum[key]
    /\ d.weighting.vetoes = {}
    /\ d.measurement.burdens \subseteq d.rule.burdens
    /\ \A r \in d.measurement.observations : \E o \in d.observations : o.id = r
    /\ ~Stale(d)

\* A decision, COMMITTED or REJECTED, is only ever reached with the support of
\* the dossier of its packet for the very step the candidate takes, from the
\* status it is really in and on untampered content, whatever snapshots and
\* statuses the packets before it stated (rules.py:16-73, engine.py:66-91).
DecisionsAreGoverned ==
    [][\A c \in Candidates :
          status'[c] # status[c] /\ status'[c] \in {"COMMITTED", "REJECTED"} =>
             /\ receipt.outcome = "ALLOWED"
             /\ receipt.packet.candidate.content = Content[c]
             /\ Supports(receipt.packet.dossier, c, status[c], status'[c])]_vars

\* An evaluation against an earlier receipt never moves a candidate, and it says
\* REPLAYED exactly when there is a packet, it is the one that receipt was issued
\* for and the receipt is not itself an audit (engine.py:214-253).
ReplayIsAnAudit ==
    [][receipt # None /\ receipt' # None =>
          /\ ~receipt'.changed
          /\ receipt'.outcome = "REPLAYED" <=>
                /\ receipt'.packet # None /\ receipt'.packet = receipt.packet
                /\ receipt.replay = None]_vars

\* A candidate that exists by reopening exists because every declared failure
\* was answered in its own category, against the record as it then stood; and
\* what is not a corrected procedural failure stays on the receipt
\* (engine.py:152-211).
ReopeningAnswersEveryFailure ==
    [][\A c \in Candidates :
          status[c] = Absent /\ status'[c] # Absent =>
             LET p == receipt.packet
                 about == p.reopening.candidate
             IN  /\ about # c
                 /\ p.reopening.status = status[about]
                 /\ p.current.lastReceipt # None =>
                       p.reopening.receipt = last[about]
                 /\ \A f \in p.reopening.failures :
                       /\ \E m \in p.reopening.deltas :
                             m.category = f.category /\ f.id \in m.resolves
                       /\ f \in receipt.resolved \/ f \in receipt.retained
                       /\ f \in receipt.resolved => f.category = "PROCEDURAL"
                ]_vars

\* DESIGN.md:48 gives a declared hard veto as a basis of rejection by itself.  A
\* rejection that lacks nothing but a basis is therefore allowed once a veto is
\* declared.
HardVetoSupportsRejection ==
    receipt # None /\ receipt.packet # None /\ receipt.replay = None =>
        LET p == receipt.packet
            w == p.dossier.weighting
        IN  (/\ BindingErrors(p) = {}
             /\ p.operation = "TRANSITION" /\ p.to = "REJECTED"
             /\ w # None
             /\ w.vetoes # {}
             /\ TransitionErrors([p EXCEPT !.dossier.weighting.vetoes = {}])
                    = {"REJECTION_BASIS_MISSING"})
            => receipt.outcome = "ALLOWED"
===============================================================================
