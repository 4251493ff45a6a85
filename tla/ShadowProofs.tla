----------------------------- MODULE ShadowProofs -----------------------------
(***************************************************************************)
(* Router and ledger together, for any callers, tokens, proposals and      *)
(* controls: a grant is acted on at most once.  What a caller holds is     *)
(* bound to its token by the router, whoever the candidates are; what was  *)
(* acted on is in the tokens table, under a token of its own.              *)
(***************************************************************************)
EXTENDS ShadowSession, TLAPS

Dispositions == {"ADMIT", "HOLD", "REQUEST_WITNESS", "REJECT", "REOPEN"}
Admission == {"ADMIT", "REOPEN"}

\* The grant is in force and for this token.
Bound(k) ==
    /\ k.now \in k.grant.from .. (k.grant.until - 1)
    /\ k.grant.nonce = k.token

\* A decision is held together with the snapshot it was made from.
HeldWithSnapshot ==
    \A c \in Callers : decision[c] # None =>
        snapshot[c] # None /\ decision[c].control = snapshot[c]

\* What was acted on was admitted and has consumed its token, as the only one.
ActedConsumed ==
    \A i \in DOMAIN acts :
        /\ acts[i].route \in Admission
        /\ tokens[acts[i].control.token] = acts[i]
        /\ \A j \in DOMAIN acts :
              acts[j].control.token = acts[i].control.token => i = j

Inv == TypeOK /\ HeldWithSnapshot /\ ActedConsumed

-------------------------------------------------------------------------------
\* A snapshot keeps the token and the grant of its control.
LEMMA SnapshotFields ==
    ASSUME NEW k \in Snapshots
    PROVE  /\ k.token \in Tokens /\ k.now \in Int
           /\ k.grant.from \in Int /\ k.grant.until \in Int
<1>1. PICK b \in Controls, n \in 0 .. MaxTime, consumed \in SUBSET Tokens :
         k = Frozen(b, n, consumed)
  BY DEF Snapshots
<1>2. k.token = b.token /\ k.grant = b.grant /\ k.now = n
  BY <1>1, ControlFields DEF Frozen
<1> QED
  BY <1>1, <1>2, ControlFields, TimeBound

\* An admission binds: some candidate passed the authority guard, which looks
\* at no candidate.
LEMMA AdmissionBinds ==
    ASSUME NEW p, NEW k \in Snapshots, Route(p, k) \in Admission
    PROVE  Bound(k)
<1>1. Selected(p, k) # NoCandidate
  BY DEF Route, UnselectedRoute, Admission
<1>2. PICK c \in p.candidates : Eligible(p, k, c)
  BY <1>1 DEF Selected, EligibleCandidates
<1>3. AuthorityFaults(k) = {}
  BY <1>2 DEF Eligible, PassesGuards, Faults, GuardIds
<1>4. ~(k.now < k.grant.from) /\ ~(k.now >= k.grant.until)
         /\ k.grant.nonce = k.token
  BY <1>3 DEF AuthorityFaults, When
<1> QED
  BY <1>4, SnapshotFields DEF Bound

\* Every decision has one of the five routes.
LEMMA RoutesAreDispositions ==
    ASSUME NEW p, NEW k
    PROVE  Route(p, k) \in Dispositions
  BY DEF Route, UnselectedRoute, Dispositions

\* The control of a decision is a snapshot, and an admission binds it.
LEMMA DecisionFields ==
    ASSUME NEW d \in Decisions
    PROVE  /\ d.control \in Snapshots
           /\ d.control.token \in Tokens
           /\ d.route \in Dispositions
           /\ d.route \in Admission => Bound(d.control)
<1>1. PICK p \in Proposals, k \in Snapshots : d = Decision(p, k)
  BY DEF Decisions
<1>2. d.control = k /\ d.route = Route(p, k)
  BY <1>1 DEF Decision
<1> QED
  BY <1>2, SnapshotFields, AdmissionBinds, RoutesAreDispositions

-------------------------------------------------------------------------------
\* A caller that holds an admission names a token of its snapshot.
LEMMA HeldToken ==
    ASSUME Inv, NEW c \in Callers, Holds(c)
    PROVE  /\ decision[c] \in Decisions
           /\ decision[c].route \in Admission
           /\ decision[c].control.token = Token(c)
           /\ Token(c) \in Tokens
<1>1. decision[c] # None /\ decision[c].route \in Admission
  BY DEF Holds, Admission
<1>2. decision[c] \in Decisions
  BY <1>1 DEF Inv, TypeOK
<1>3. decision[c].control = snapshot[c]
  BY <1>1 DEF Inv, HeldWithSnapshot
<1> QED
  BY <1>1, <1>2, <1>3, DecisionFields DEF Token

\* Consuming a token keeps what was acted on in the table, whether or not the
\* caller hears of it.
LEMMA ConsumingKeeps ==
    ASSUME Inv, NEW c \in Callers, Holds(c),
           Store!ConsumeToken(Token(c), decision[c])
    PROVE  /\ tokens' \in [Tokens -> {Unregistered, Unused} \cup Decisions]
           /\ tokens'[Token(c)] = decision[c]
           /\ \A i \in DOMAIN acts :
                 tokens'[acts[i].control.token] = acts[i]
           /\ tokens[Token(c)] = Unused =>
                 \A i \in DOMAIN acts : acts[i].control.token # Token(c)
<1> DEFINE t == Token(c)
<1>1. t \in Tokens /\ decision[c] \in Decisions
  BY HeldToken
<1>2. /\ tokens[t] \in {Unused, decision[c]}
      /\ tokens' = [tokens EXCEPT ![t] = decision[c]]
  BY DEF Store!ConsumeToken, Store!TokenAdmissible
<1>3. tokens \in [Tokens -> {Unregistered, Unused} \cup Decisions]
  BY DEF Inv, TypeOK
<1>4. ASSUME NEW i \in DOMAIN acts
      PROVE  /\ acts[i] \in Decisions /\ acts[i] # Unused
             /\ tokens[acts[i].control.token] = acts[i]
  <2>1. acts[i] \in Decisions
    BY DEF Inv, TypeOK
  <2> QED
    BY <2>1, NullsApart DEF Inv, ActedConsumed
<1>5. ASSUME NEW i \in DOMAIN acts
      PROVE  tokens'[acts[i].control.token] = acts[i]
  <2>1. acts[i].control.token \in Tokens
    BY <1>4, DecisionFields
  <2>2. CASE acts[i].control.token = t
    BY <1>1, <1>2, <1>3, <1>4, <2>2
  <2>3. CASE acts[i].control.token # t
    BY <1>1, <1>2, <1>3, <1>4, <2>1, <2>3
  <2> QED
    BY <2>2, <2>3
<1>6. tokens[t] = Unused => \A i \in DOMAIN acts : acts[i].control.token # t
  BY <1>4
<1>7. tokens' \in [Tokens -> {Unregistered, Unused} \cup Decisions]
         /\ tokens'[t] = decision[c]
  BY <1>1, <1>2, <1>3
<1> QED
  BY <1>5, <1>6, <1>7

\* The callers start with nothing.
LEMMA InitInv == Init => Inv
<1> SUFFICES ASSUME Init PROVE Inv
  OBVIOUS
<1>1. acts = <<>> /\ DOMAIN acts = {}
  BY DEF Init
<1>2. \A c \in Callers : decision[c] = None
  BY DEF Init
<1>3. TypeOK
  BY <1>1, <1>2, TimeBound DEF Init, TypeOK
<1> QED
  BY <1>1, <1>2, <1>3 DEF Inv, HeldWithSnapshot, ActedConsumed

\* Forgetting keeps what the caller held consistent.
LEMMA ForgettingKeeps ==
    ASSUME Inv, NEW c \in Callers, Forgets(c)
    PROVE  /\ snapshot' \in [Callers -> Snapshots \cup {None}]
           /\ decision' \in [Callers -> Decisions \cup {None}]
           /\ \A b \in Callers : decision'[b] # None =>
                 /\ snapshot'[b] # None /\ decision'[b].control = snapshot'[b]
                 /\ decision'[b].route \in Dispositions
<1>1. \A b \in Callers : b # c =>
         decision'[b] = decision[b] /\ snapshot'[b] = snapshot[b]
  BY DEF Forgets, Inv, TypeOK
<1>2. decision'[c] = None /\ snapshot'[c] = None
  BY DEF Forgets, Inv, TypeOK
<1> QED
  BY <1>1, <1>2 DEF Forgets, Inv, TypeOK, HeldWithSnapshot, Dispositions

\* What a caller freezes is a snapshot.
LEMMA FreezingIsASnapshot ==
    ASSUME TypeOK, NEW k \in Controls
    PROVE  Frozen(k, now, Consumed) \in Snapshots
<1>1. now \in 0 .. MaxTime
  BY DEF TypeOK
<1>2. Consumed \in SUBSET Tokens
  BY DEF Consumed
<1> QED
  BY <1>1, <1>2 DEF Snapshots

\* Steps that touch neither a decision, a snapshot nor what was acted on.
LEMMA RegisteringKeeps ==
    ASSUME Inv, NEW t \in Tokens, Registers(t)
    PROVE  Inv'
<1>1. tokens' = [tokens EXCEPT ![t] = IF @ = Unregistered THEN Unused ELSE @]
         /\ UNCHANGED <<now, snapshot, decision, acts>>
  BY DEF Registers, Store!RegisterToken
<1>2. tokens \in [Tokens -> {Unregistered, Unused} \cup Decisions]
  BY DEF Inv, TypeOK
<1>3. TypeOK' /\ HeldWithSnapshot'
  BY <1>1, <1>2 DEF Inv, TypeOK, HeldWithSnapshot
<1>4. ASSUME NEW i \in DOMAIN acts
      PROVE  tokens'[acts[i].control.token] = tokens[acts[i].control.token]
  <2>1. acts[i] \in Decisions /\ tokens[acts[i].control.token] = acts[i]
    BY DEF Inv, TypeOK, ActedConsumed
  <2>2. acts[i] # Unregistered /\ acts[i].control.token \in Tokens
    BY <2>1, NullsApart, DecisionFields
  <2> QED
    BY <1>1, <1>2, <2>1, <2>2
<1> QED
  BY <1>1, <1>3, <1>4 DEF Inv, ActedConsumed

LEMMA FreezingKeeps ==
    ASSUME Inv, NEW c \in Callers, Freezes(c)
    PROVE  Inv'
<1>1. PICK k \in Controls :
         snapshot' = [snapshot EXCEPT ![c] = Frozen(k, now, Consumed)]
  BY DEF Freezes
<1>2. Frozen(k, now, Consumed) \in Snapshots
  BY FreezingIsASnapshot DEF Inv
<1>3. snapshot[c] = None /\ UNCHANGED <<tokens, now, decision, acts>>
  BY DEF Freezes
<1>4. decision[c] = None
  BY <1>3 DEF Inv, HeldWithSnapshot
<1>5. TypeOK'
  BY <1>1, <1>2, <1>3 DEF Inv, TypeOK
<1>6. HeldWithSnapshot'
  BY <1>1, <1>3, <1>4 DEF Inv, TypeOK, HeldWithSnapshot
<1> QED
  BY <1>3, <1>5, <1>6 DEF Inv, ActedConsumed

LEMMA EvaluatingKeeps ==
    ASSUME Inv, NEW c \in Callers, Evaluates(c)
    PROVE  Inv'
<1>1. PICK p \in Proposals :
         decision' = [decision EXCEPT ![c] = Decision(p, snapshot[c])]
  BY DEF Evaluates
<1>2. snapshot[c] # None /\ UNCHANGED <<tokens, now, snapshot, acts>>
  BY DEF Evaluates
<1>3. snapshot[c] \in Snapshots
  BY <1>2 DEF Inv, TypeOK
<1>4. Decision(p, snapshot[c]) \in Decisions
  BY <1>3 DEF Decisions
<1>5. Decision(p, snapshot[c]).control = snapshot[c]
         /\ Decision(p, snapshot[c]).route \in Dispositions
  BY <1>4, DecisionFields DEF Decision
<1>6. \A b \in Callers :
         decision'[b] = IF b = c THEN Decision(p, snapshot[c]) ELSE decision[b]
  BY <1>1 DEF Inv, TypeOK
<1>7. decision' \in [Callers -> Decisions \cup {None}]
  BY <1>1, <1>4 DEF Inv, TypeOK
<1>8. TypeOK'
  BY <1>2, <1>5, <1>6, <1>7 DEF Inv, TypeOK, Dispositions
<1>9. HeldWithSnapshot'
  BY <1>2, <1>5, <1>6 DEF Inv, HeldWithSnapshot
<1> QED
  BY <1>2, <1>8, <1>9 DEF Inv, ActedConsumed

LEMMA AbandoningKeeps ==
    ASSUME Inv, NEW c \in Callers, Forgets(c), UNCHANGED <<tokens, now, acts>>
    PROVE  Inv'
<1>1. TypeOK' /\ HeldWithSnapshot'
  BY ForgettingKeeps DEF Inv, TypeOK, HeldWithSnapshot, Dispositions
<1> QED
  BY <1>1 DEF Inv, ActedConsumed

LEMMA LosingAnAnswerKeeps ==
    ASSUME Inv, NEW c \in Callers, GoesUnanswered(c)
    PROVE  Inv'
<1>1. Holds(c) /\ Store!ConsumeToken(Token(c), decision[c])
         /\ UNCHANGED <<now, snapshot, decision, acts>>
  BY DEF GoesUnanswered
<1>2. tokens' \in [Tokens -> {Unregistered, Unused} \cup Decisions]
         /\ \A i \in DOMAIN acts : tokens'[acts[i].control.token] = acts[i]
  BY <1>1, ConsumingKeeps
<1>3. TypeOK' /\ HeldWithSnapshot'
  BY <1>1, <1>2 DEF Inv, TypeOK, HeldWithSnapshot
<1> QED
  BY <1>1, <1>2, <1>3 DEF Inv, ActedConsumed

LEMMA ConsumingActsOnce ==
    ASSUME Inv, NEW c \in Callers, Consumes(c)
    PROVE  Inv'
<1> DEFINE d == decision[c]
           t == Token(c)
<1>1. /\ Holds(c) /\ Store!ConsumeToken(t, d) /\ Forgets(c) /\ UNCHANGED now
      /\ acts' = IF tokens[t] = Unused THEN Append(acts, d) ELSE acts
  BY DEF Consumes
<1>2. /\ tokens' \in [Tokens -> {Unregistered, Unused} \cup Decisions]
      /\ tokens'[t] = d
      /\ \A i \in DOMAIN acts : tokens'[acts[i].control.token] = acts[i]
      /\ tokens[t] = Unused => \A i \in DOMAIN acts : acts[i].control.token # t
  BY <1>1, ConsumingKeeps
<1>3. /\ d \in Decisions /\ d.route \in Admission
      /\ d.control.token = t
  BY <1>1, HeldToken
<1>4. acts \in Seq(Decisions) /\ acts' \in Seq(Decisions)
  BY <1>1, <1>3 DEF Inv, TypeOK
<1>5. TypeOK' /\ HeldWithSnapshot'
  BY <1>1, <1>2, <1>4, ForgettingKeeps DEF Inv, TypeOK, HeldWithSnapshot, Dispositions
<1>6. ActedConsumed'
  <2>1. CASE tokens[t] = Unused
    <3>1. acts' = Append(acts, d)
      BY <1>1, <2>1
    <3>2. /\ DOMAIN acts = 1 .. Len(acts) /\ Len(acts) \in Nat
          /\ DOMAIN acts' = 1 .. (Len(acts) + 1)
          /\ acts'[Len(acts) + 1] = d
          /\ \A i \in DOMAIN acts : acts'[i] = acts[i]
      BY <1>3, <1>4, <3>1
    <3>3. ASSUME NEW i \in DOMAIN acts'
          PROVE  \/ i \in DOMAIN acts /\ acts'[i] = acts[i]
                 \/ i = Len(acts) + 1 /\ acts'[i] = d
      BY <3>2
    <3>4. ASSUME NEW i \in DOMAIN acts'
          PROVE  /\ acts'[i].route \in Admission
                 /\ tokens'[acts'[i].control.token] = acts'[i]
      BY <1>2, <1>3, <3>3 DEF Inv, ActedConsumed
    <3>5. ASSUME NEW i \in DOMAIN acts', NEW j \in DOMAIN acts',
                 acts'[j].control.token = acts'[i].control.token
          PROVE  i = j
      BY <1>2, <1>3, <2>1, <3>3, <3>5 DEF Inv, ActedConsumed
    <3> QED
      BY <3>4, <3>5 DEF ActedConsumed
  <2>2. CASE tokens[t] # Unused
    BY <1>1, <1>2, <2>2 DEF Inv, ActedConsumed
  <2> QED
    BY <2>1, <2>2
<1> QED
  BY <1>5, <1>6 DEF Inv

-------------------------------------------------------------------------------
\* The inductive invariant.
THEOREM Inductive == Spec => []Inv
<1>1. Inv /\ [Next]_vars => Inv'
  <2> SUFFICES ASSUME Inv, [Next]_vars PROVE Inv'
    OBVIOUS
  <2>1. CASE TimePasses
    <3>1. now' \in 0 .. MaxTime /\ UNCHANGED <<tokens, snapshot, decision, acts>>
      BY <2>1, TimeBound DEF TimePasses, Inv, TypeOK
    <3> QED
      BY <3>1 DEF Inv, TypeOK, HeldWithSnapshot, ActedConsumed
  <2>2. CASE \E t \in Tokens : Registers(t)
    BY <2>2, RegisteringKeeps
  <2>3. ASSUME NEW c \in Callers,
               \/ Freezes(c) \/ Evaluates(c) \/ Abandons(c)
               \/ Consumes(c) \/ GoesUnanswered(c) \/ IsRefused(c)
        PROVE  Inv'
    BY <2>3, FreezingKeeps, EvaluatingKeeps, AbandoningKeeps, ConsumingActsOnce,
       LosingAnAnswerKeeps DEF Abandons, IsRefused
  <2>4. CASE UNCHANGED vars
    BY <2>4 DEF vars, Inv, TypeOK, HeldWithSnapshot, ActedConsumed
  <2> QED
    BY <2>1, <2>2, <2>3, <2>4 DEF Next
<1> QED
  BY <1>1, InitInv, PTL DEF Spec

\* Snapshots, decisions and tokens are what the code can make of them.
THEOREM TypeCorrect == Spec => []TypeOK
<1>1. Inv => TypeOK
  BY DEF Inv
<1> QED
  BY <1>1, Inductive, PTL

\* A grant is acted on at most once and in force, for any callers and requests.
THEOREM GrantUsedOnceAlways == Spec => []GrantUsedOnce
<1>1. Inv => GrantUsedOnce
  <2> SUFFICES ASSUME Inv, NEW i \in DOMAIN acts
               PROVE  /\ acts[i].control.now \in acts[i].control.grant.from
                            .. (acts[i].control.grant.until - 1)
                      /\ tokens[acts[i].control.token] = acts[i]
                      /\ \A j \in DOMAIN acts :
                            acts[j].control.grant.nonce = acts[i].control.grant.nonce
                            => i = j
    BY DEF GrantUsedOnce
  <2>1. \A j \in DOMAIN acts : Bound(acts[j].control)
    BY DecisionFields DEF Inv, TypeOK, ActedConsumed
  <2> QED
    BY <2>1 DEF Bound, Inv, ActedConsumed
<1> QED
  BY <1>1, Inductive, PTL
===============================================================================
