---------------------------- MODULE MCSQLiteLedger ----------------------------
(***************************************************************************)
(* Two processes and a few calls that conflict: two headers for the same   *)
(* version of one account, a fork of its version 2, appends at two orders, *)
(* an opening whose parts do not fit, a receipt that is not valid, and two *)
(* decisions for one token.                                                *)
(***************************************************************************)
EXTENDS SQLiteLedger

CONSTANTS o1, o2, obj1, t1, d1, d2

MCIdentity ==
    [label |-> "a", op |-> "ROOT", origin |-> o1,
     parent |-> NoRef, superseded |-> NoRef]
MCRoot(limitations) ==
    [label |-> "a", op |-> "ROOT", origin |-> o1, parent |-> NoRef,
     superseded |-> NoRef, prior |-> NoRef, version |-> 1,
     account |-> MCIdentity, limitations |-> limitations]
MCVersion(origin) ==
    [MCRoot("l") EXCEPT !.op = "VERSION", !.origin = origin,
                        !.prior = MCRoot("l"), !.version = 2]

MCReceipt(origin, order, priorLinks, payload) ==
    [account |-> MCIdentity, origin |-> origin, order |-> order,
     payload |-> payload, priorLinks |-> priorLinks, parentLinks |-> <<>>,
     supersedesLinks |-> <<>>]
MCCut ==
    MCReceipt(o1, 0, <<>>,
              [type |-> "CutReceipt", operation |-> "ROOT", cut |-> o1])
MCTransition(origin) ==
    MCReceipt(origin, 1, <<MCRoot("l")>>,
              [type |-> "AccountTransitionReceipt", nextVersion |-> 2,
               priorVersion |-> MCRoot("l")])
MCTest(order) ==
    MCReceipt(o1, order, <<MCCut>>, [type |-> "TestReceipt"])
\* A reopened closure that names no closure.
MCReopened ==
    MCReceipt(o1, 1, <<MCCut>>,
              [type |-> "ClosureReceipt", status |-> "REOPENED", reopens |-> NoRef])

MCHeaders == {MCRoot("l"), MCRoot("m"), MCVersion(o1), MCVersion(o2)}
MCReceipts ==
    {MCCut, MCTransition(o1), MCTransition(o2), MCTest(1), MCTest(2),
     MCReopened}

MCBundle(kind, header, receipt) ==
    [kind |-> kind, header |-> header, receipt |-> receipt]

MCAccountRequests ==
    {MCBundle("commit_opening", MCRoot("l"), MCCut),
     MCBundle("commit_opening", MCRoot("m"), MCCut),
     MCBundle("commit_opening", MCRoot("l"), MCTest(1)),
     MCBundle("commit_version", MCVersion(o1), MCTransition(o1)),
     MCBundle("commit_version", MCVersion(o2), MCTransition(o2)),
     MCBundle("append_receipt", MCRoot("l"), MCTest(1)),
     MCBundle("append_receipt", MCRoot("l"), MCReopened),
     MCBundle("append_receipt", MCVersion(o1), MCTest(2))}
MCTokenRequests ==
    {[kind |-> "register_token", token |-> t1],
     [kind |-> "consume_token", token |-> t1, decision |-> d1],
     [kind |-> "consume_token", token |-> t1, decision |-> d2]}
MCObjectRequests ==
    {[kind |-> kind, object |-> obj1] : kind \in {"put_object", "get_object"}}
MCCountRequests == {[kind |-> "counts"]}
MCVerifyRequests == {[kind |-> "verify"]}

MCRequests ==
    MCAccountRequests \cup MCTokenRequests
        \cup MCObjectRequests \cup MCCountRequests
\* Fewer calls, one of each shape, for the liveness properties.
MCFewRequests ==
    MCCountRequests \cup MCTokenRequests \cup MCVerifyRequests
    \cup MCObjectRequests \cup
    {MCBundle("commit_opening", MCRoot("l"), MCCut),
     MCBundle("commit_opening", MCRoot("m"), MCCut)}
===============================================================================
