------------------------------- MODULE MCLedger -------------------------------
(***************************************************************************)
(* A small universe of headers and receipts for TLC: a ROOT account with   *)
(* two headers competing for each of its versions and one that skips a     *)
(* version, a CHILD account, the SUCCESSOR of the root account, and        *)
(* receipts of every kind at every order up to MaxOrder.                   *)
(***************************************************************************)
EXTENDS Ledger, FiniteSets

CONSTANTS o1, o2, MaxOrder, parentAccount, parentReceipt, closing, claim

parentPair == <<parentAccount, parentReceipt>>

MCHeader(label, op, origin, parent, prior, version, account, limitations) ==
    [label |-> label, op |-> op, origin |-> origin, parent |-> parent,
     superseded |-> NoRef, prior |-> prior, version |-> version,
     account |-> account, limitations |-> limitations]

MCIdentity(label, op, origin, parent) ==
    [label |-> label, op |-> op, origin |-> origin,
     parent |-> parent, superseded |-> NoRef]

MCRoot(limitations) ==
    MCHeader("a", "ROOT", o1, NoRef, NoRef, 1,
             MCIdentity("a", "ROOT", o1, NoRef), limitations)
MCVersion(prior, origin, version) ==
    MCHeader("a", "VERSION", origin, NoRef, prior, version, prior.account, "l")
MCChild ==
    MCHeader("b", "CHILD", o2, parentPair, NoRef, 1,
             MCIdentity("b", "CHILD", o2, parentPair), "l")
MCSuccessor ==
    LET superseded == <<MCIdentity("a", "ROOT", o1, NoRef), closing>>
    IN  [MCRoot("l") EXCEPT
            !.label = "c", !.op = "SUCCESSOR", !.superseded = superseded,
            !.account = [MCIdentity("c", "SUCCESSOR", o1, NoRef)
                            EXCEPT !.superseded = superseded]]
\* A root header under an account_id that is not its own opening basis.
MCForeign == [MCRoot("l") EXCEPT !.account = MCChild.account]

MCVersions ==
    {MCVersion(MCRoot("l"), o1, 2), MCVersion(MCRoot("l"), o2, 2),
     MCVersion(MCVersion(MCRoot("l"), o1, 2), o1, 3),
     MCVersion(MCRoot("l"), o1, 3)}
MCHeaders ==
    {MCRoot("l"), MCRoot("m"), MCChild, MCSuccessor, MCForeign} \cup MCVersions

MCReceipt(account, origin, order, payload) ==
    [account |-> account, origin |-> origin, order |-> order,
     payload |-> payload, priorLinks |-> <<>>, parentLinks |-> <<>>,
     supersedesLinks |-> <<>>]
MCCut(h, order, parentLinks) ==
    [MCReceipt(h.account, h.origin, order,
               [type |-> "CutReceipt", operation |-> h.op, cut |-> h.origin])
        EXCEPT !.parentLinks = parentLinks]
MCTransition(h, order) ==
    [MCReceipt(h.account, h.origin, order,
               [type |-> "AccountTransitionReceipt", nextVersion |-> h.version,
                priorVersion |-> h.prior])
        EXCEPT !.priorLinks = <<h.prior>>]
MCClosure(account, order, status) ==
    MCReceipt(account, o1, order,
              [type |-> "ClosureReceipt", claim |-> claim, status |-> status,
               reopens |-> NoRef])

MCReceipts ==
    LET orders == 0 .. MaxOrder
    IN  {MCCut(MCRoot("l"), n, <<>>) : n \in orders \cap 0 .. 1}
        \cup {MCCut(MCChild, 0, parentPair), MCCut(MCChild, 0, <<>>)}
        \cup {[MCCut(MCSuccessor, 0, <<>>) EXCEPT !.supersedesLinks = s] :
                  s \in {<<>>, MCSuccessor.superseded}}
        \cup {MCTransition(h, n) : h \in MCVersions, n \in orders}
        \cup {MCClosure(a, n, "OPEN") : a \in {MCRoot("l").account, PackageNA},
                                       n \in orders}
        \cup {MCClosure(MCChild.account, 1, status) :
                  status \in {"OPEN", "REOPENED"}}
===============================================================================
