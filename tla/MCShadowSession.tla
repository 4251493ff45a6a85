---------------------------- MODULE MCShadowSession ----------------------------
(***************************************************************************)
(* Two callers, two tokens, one grant per token; one of the controls pairs *)
(* the first grant with the second token.  The grants hold from 1 to 3.    *)
(***************************************************************************)
EXTENDS ShadowSession, TLC

CONSTANTS acct, obs1, act1, goal, e1, token1, token2, p1, p2

MCCandidate ==
    [rank |-> 1, action |-> act1, target |-> goal, evidence |-> {e1},
     conflicting |-> {}, deltas |-> {}, residuals |-> {}, reopens |-> NoRef,
     metrics |-> [d \in {} |-> 0], actionCost |-> 1, lifeCost |-> 0,
     reversible |-> TRUE, class |-> "REVERSIBLE"]

MCProposal(candidate) ==
    [account |-> acct, version |-> 1, observation |-> obs1, actions |-> {act1},
     priorReceipts |-> {}, candidates |-> {candidate}]

MCProposals ==
    {MCProposal(MCCandidate),
     MCProposal([MCCandidate EXCEPT !.deltas = {e1}, !.reopens = acct])}

MCControl(token, nonce) ==
    [now |-> 0, account |-> acct, version |-> 1, observation |-> obs1,
     evidence |-> {e1}, traces |-> {}, residuals |-> {},
     budget |-> [actions |-> 1, lives |-> 0, clock |-> 1],
     grant |-> [actions |-> {act1}, targets |-> {goal}, scope |-> "shadow",
                from |-> 1, until |-> 3, revoked |-> FALSE, nonce |-> nonce,
                external |-> FALSE],
     token |-> token, consumed |-> {},
     policy |-> [scope |-> "shadow", allowExternal |-> FALSE,
                 diagnostic |-> NoDiagnostic]]

MCControls ==
    {MCControl(token1, token1), MCControl(token2, token2), MCControl(token2, token1)}

MCSymmetry == Permutations(Callers)
===============================================================================
