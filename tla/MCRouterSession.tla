---------------------------- MODULE MCRouterSession ----------------------------
(***************************************************************************)
(* Candidates that differ in what makes them pass or fail, alone and in    *)
(* pairs, against snapshots that start out good.  The grant is valid from  *)
(* 1 to 3, the diagnostic until 2.  Each part of the budget can run out,   *)
(* and candidates cost more of it than another or than there ever is.      *)
(***************************************************************************)
EXTENDS RouterSession

CONSTANTS acct, obs1, obs2, token1, token2, act1, act2, goal, e1, e2, s1, s2, tr

MCCandidate ==
    [id |-> 1, rank |-> 1, action |-> act1, target |-> goal,
     evidence |-> {e1}, conflicting |-> {}, deltas |-> {}, residuals |-> {s1},
     reopens |-> NoRef, metrics |-> [d \in {"gain"} |-> 1],
     actionCost |-> 1, lifeCost |-> 0, reversible |-> TRUE,
     class |-> "REVERSIBLE"]

MCCandidates ==
    {MCCandidate,
     [MCCandidate EXCEPT !.id = 2, !.rank = 2, !.evidence = {e2},
                         !.deltas = {e1}, !.reopens = acct, !.lifeCost = 1,
                         !.metrics = [d \in {"gain"} |-> 3]],
     [MCCandidate EXCEPT !.id = 3, !.rank = 3, !.action = act2,
                         !.metrics = [d \in {"gain", "risk"} |-> 2]],
     [MCCandidate EXCEPT !.id = 4, !.rank = 4, !.class = "EXTERNAL",
                         !.reversible = FALSE],
     [MCCandidate EXCEPT !.id = 5, !.rank = 5, !.actionCost = 2,
                         !.metrics = [d \in {"risk"} |-> 2]],
     [MCCandidate EXCEPT !.id = 6, !.rank = 6, !.residuals = {s2}],
     [MCCandidate EXCEPT !.id = 7, !.rank = 7, !.conflicting = {e2},
                         !.class = "IRREVERSIBLE", !.reversible = FALSE],
     [MCCandidate EXCEPT !.id = 8, !.rank = 8, !.lifeCost = 2]}

\* Any of them alone or beside one of the first two, three at a time, and alone
\* in proposals for the next version of the account.
Numbered(ids) == {e \in MCCandidates : e.id \in ids}
MCProposals ==
    {[account |-> acct, version |-> 1, observation |-> obs1, actions |-> {act1, act2},
      priorReceipts |-> {tr}, candidates |-> {c, d}] :
        c \in Numbered({1, 2}), d \in Numbered(1 .. 7)}
    \cup
    {[account |-> acct, version |-> 1, observation |-> obs1, actions |-> {act1},
      priorReceipts |-> {tr}, candidates |-> {c} \cup Numbered({1, 2})] :
        c \in Numbered(3 .. 6)}
    \cup
    {[account |-> acct, version |-> 2, observation |-> obs2, actions |-> {act1},
      priorReceipts |-> {}, candidates |-> {c}] : c \in Numbered({1, 3, 8})}

MCControl(external, diagnostic, evidence) ==
    [now |-> 0, account |-> acct, version |-> 1, observation |-> obs1,
     evidence |-> evidence, traces |-> {tr}, residuals |-> {s1},
     budget |-> [actions |-> 1, lives |-> 1, clock |-> 1],
     grant |-> [actions |-> {act1}, targets |-> {goal}, scope |-> "shadow",
                from |-> 1, until |-> 3, revoked |-> FALSE, nonce |-> token1,
                external |-> external],
     token |-> token1, consumed |-> {token2},
     policy |-> [scope |-> "shadow", allowExternal |-> TRUE,
                 diagnostic |-> diagnostic]]

MCDiagnostic == [weights |-> [d \in {"gain"} |-> 2], expires |-> 2]
MCControls ==
    {MCControl(FALSE, NoDiagnostic, {e1}), MCControl(TRUE, MCDiagnostic, {})}
===============================================================================
