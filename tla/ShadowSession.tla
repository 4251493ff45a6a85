----------------------------- MODULE ShadowSession -----------------------------
(***************************************************************************)
(* The router and the ledger together.  Several callers freeze a control   *)
(* snapshot with the consumed tokens they read from the ledger, evaluate a *)
(* proposal against it, and consume the serial token for an admission.     *)
(* Between these three steps others consume tokens, time passes, answers   *)
(* are lost and callers are killed.                                        *)
(*                                                                         *)
(* The router never sees the ledger, and the ledger never sees a grant: it *)
(* compares decision references.  A decision is modelled by its content,   *)
(* so equal requests make equal decisions, whoever evaluates them.         *)
(***************************************************************************)
EXTENDS Router, Sequences

CONSTANTS
    Callers,
    Tokens,                \* serial token references
    Proposals, Controls,   \* the requests callers may freeze
    MaxTime,               \* bound: evaluated_at goes up to MaxTime
    Unregistered, Unused,  \* as in LedgerData
    None                   \* no snapshot, no decision

\* The content of a decision: what it binds by hash, and the outcome.
Decision(p, k) ==
    [proposal |-> p, control |-> k, route |-> Route(p, k),
     selected |-> Selected(p, k)]

\* A control as a caller freezes it.
Frozen(k, n, consumed) == [k EXCEPT !.now = n, !.consumed = consumed]

\* What callers may freeze, and what the router may make of it.
Snapshots ==
    {Frozen(k, n, consumed) :
        k \in Controls, n \in 0 .. MaxTime, consumed \in SUBSET Tokens}
Decisions == {Decision(p, k) : p \in Proposals, k \in Snapshots}

ASSUME TimeBound == MaxTime \in Nat
ASSUME ControlFields ==
    \A k \in Controls :
        /\ {"now", "consumed", "token", "grant"} \subseteq DOMAIN k
        /\ k.token \in Tokens
        /\ {"from", "until", "nonce"} \subseteq DOMAIN k.grant
        /\ k.grant.from \in Int /\ k.grant.until \in Int
\* A snapshot and a decision are no null value.
ASSUME NullsApart ==
    /\ Unregistered # Unused
    /\ None \notin Snapshots
    /\ {None, Unregistered, Unused} \cap Decisions = {}

VARIABLES
    tokens,    \* the serial_tokens table of the ledger
    now,       \* the time
    snapshot,  \* the control snapshot each caller has frozen
    decision,  \* the decision each caller holds
    acts       \* history: the admissions that callers acted on

vars == <<tokens, now, snapshot, decision, acts>>

\* Accounts, receipts and objects play no part in decisions.
Store == INSTANCE Ledger WITH
    PackageNA <- None, Headers <- {}, Receipts <- {}, Objects <- {},
    objects <- {}, accounts <- {}, receipts <- {}

Consumed == {t \in Tokens : tokens[t] \notin {Unregistered, Unused}}

Token(c) == snapshot[c].token

\* The caller holds an admission.
Holds(c) == decision[c] # None /\ decision[c].route \in {"ADMIT", "REOPEN"}

TypeOK ==
    /\ tokens \in [Tokens -> {Unregistered, Unused} \cup Decisions]
    /\ now \in 0 .. MaxTime
    /\ snapshot \in [Callers -> Snapshots \cup {None}]
    /\ decision \in [Callers -> Decisions \cup {None}]
    /\ acts \in Seq(Decisions)
    /\ \A c \in Callers : decision[c] # None =>
          decision[c].route \in
              {"ADMIT", "HOLD", "REQUEST_WITNESS", "REJECT", "REOPEN"}

Init ==
    /\ tokens = [t \in Tokens |-> Unregistered]
    /\ now = 0
    /\ snapshot = [c \in Callers |-> None]
    /\ decision = [c \in Callers |-> None]
    /\ acts = <<>>

-------------------------------------------------------------------------------
TimePasses ==
    /\ now < MaxTime
    /\ now' = now + 1
    /\ UNCHANGED <<tokens, snapshot, decision, acts>>

Registers(t) ==
    /\ Store!RegisterToken(t)
    /\ UNCHANGED <<now, snapshot, decision, acts>>

Freezes(c) ==
    /\ snapshot[c] = None
    /\ \E k \in Controls :
          snapshot' = [snapshot EXCEPT ![c] = Frozen(k, now, Consumed)]
    /\ UNCHANGED <<tokens, now, decision, acts>>

Evaluates(c) ==
    /\ snapshot[c] # None
    /\ decision[c] = None
    /\ \E p \in Proposals :
          decision' = [decision EXCEPT ![c] = Decision(p, snapshot[c])]
    /\ UNCHANGED <<tokens, now, snapshot, acts>>

\* The caller is done with its request, or killed, and forgets it.
Forgets(c) ==
    /\ snapshot' = [snapshot EXCEPT ![c] = None]
    /\ decision' = [decision EXCEPT ![c] = None]

Abandons(c) == Forgets(c) /\ UNCHANGED <<tokens, now, acts>>

\* Mutant: whoever is not refused acts, also on an exact replay.
ConsumesAndActs(c) ==
    /\ Holds(c)
    /\ Store!ConsumeToken(Token(c), decision[c])
    /\ acts' = Append(acts, decision[c])
    /\ Forgets(c)
    /\ UNCHANGED now

\* consume_token returns True to the first use, and its caller acts; an exact
\* replay gets False, and its caller does not.
Consumes(c) ==
    /\ Holds(c)
    /\ Store!ConsumeToken(Token(c), decision[c])
    /\ acts' = IF tokens[Token(c)] = Unused THEN Append(acts, decision[c]) ELSE acts
    /\ Forgets(c)
    /\ UNCHANGED now

\* The token is consumed and the answer is lost: the caller calls again.
GoesUnanswered(c) ==
    /\ Holds(c)
    /\ Store!ConsumeToken(Token(c), decision[c])
    /\ UNCHANGED <<now, snapshot, decision, acts>>

\* LedgerError: not registered, or consumed by another decision.
IsRefused(c) ==
    /\ Holds(c)
    /\ ~Store!TokenAdmissible(tokens[Token(c)], decision[c])
    /\ Forgets(c)
    /\ UNCHANGED <<tokens, now, acts>>

Next ==
    \/ TimePasses
    \/ \E t \in Tokens : Registers(t)
    \/ \E c \in Callers :
          \/ Freezes(c) \/ Evaluates(c) \/ Abandons(c)
          \/ Consumes(c) \/ GoesUnanswered(c) \/ IsRefused(c)

Spec == Init /\ [][Next]_vars

-------------------------------------------------------------------------------
\* A grant is acted on at most once, and by an admission from a time at which
\* it was in force: however old the snapshots are that callers decide from, and
\* also when two of them evaluate the same request and hold equal decisions.
\* The ledger keeps the decision that was acted on as the token's consumer.
\* The router contributes the binding of grant and token (routing.py:171), the
\* ledger the one use of the token (store.py:311-325); neither is enough.
GrantUsedOnce ==
    \A i \in DOMAIN acts :
        LET grant == acts[i].control.grant
        IN  /\ acts[i].control.now \in grant.from .. (grant.until - 1)
            /\ tokens[acts[i].control.token] = acts[i]
            /\ \A j \in DOMAIN acts : acts[j].control.grant.nonce = grant.nonce => i = j
===============================================================================
