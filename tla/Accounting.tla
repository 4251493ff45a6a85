------------------------------ MODULE Accounting ------------------------------
(***************************************************************************)
(* The constructors of accounting.py, which turn what a caller holds into  *)
(* the values it submits to the ledger.  Each returns a bundle: an account *)
(* header and the receipt that goes with it.  A constructor that raises    *)
(* returns nothing, so its conditions are an operator of their own; the    *)
(* model validators it runs are those of LedgerData.                       *)
(***************************************************************************)
EXTENDS LedgerData

Bundle(header, receipt) == [header |-> header, receipt |-> receipt]

\* make_receipt
MakeReceipt(account, origin, order, payload, prior, parent, superseded) ==
    [account |-> account, origin |-> origin, order |-> order,
     payload |-> payload, priorLinks |-> prior,
     parentLinks |-> Cited(parent), supersedesLinks |-> Cited(superseded)]

\* What open_root, open_child and open_successor have in common.
Open(op, label, cut, parent, superseded, limitations) ==
    LET basis == [label |-> label, op |-> op, origin |-> cut,
                  parent |-> parent, superseded |-> superseded]
    IN  Bundle([label |-> label, op |-> op, origin |-> cut, parent |-> parent,
                superseded |-> superseded, prior |-> NoRef, version |-> 1,
                account |-> basis, limitations |-> limitations],
               MakeReceipt(basis, cut, 0,
                   [type |-> "CutReceipt", operation |-> op, cut |-> cut],
                   <<>>, parent, superseded))

OpenRoot(label, cut, limitations) ==
    Open("ROOT", label, cut, NoRef, NoRef, limitations)
OpenChild(label, account, receipt, cut, limitations) ==
    Open("CHILD", label, cut, <<account, receipt>>, NoRef, limitations)
OpenSuccessor(label, account, receipt, cut, limitations) ==
    Open("SUCCESSOR", label, cut, NoRef, <<account, receipt>>, limitations)

Transition(prior, next) ==
    [type |-> "AccountTransitionReceipt", nextVersion |-> next,
     priorVersion |-> prior]

\* open_version accepts the transition.
Continues(prior, transition) ==
    /\ transition.priorVersion = prior
    /\ transition.nextVersion = prior.version + 1

\* Mutant: the order of the receipt is the number of the version.
OrderOfVersion(transition) == transition.nextVersion

\* The admission order open_version takes when the caller names none.
DefaultOrder(transition) == transition.nextVersion - 1

\* What open_version copies from the header it continues; limitations of its
\* own, which nothing reads, are left out.
Continuation(prior, transition, origin) ==
    [label |-> prior.label, op |-> "VERSION", origin |-> origin,
     parent |-> NoRef, superseded |-> NoRef, prior |-> prior,
     version |-> transition.nextVersion, account |-> prior.account,
     limitations |-> prior.limitations]

\* Mutant: the version takes the reference of its predecessor as its origin.
OpenVersionRecut(prior, transition, order) ==
    Bundle(Continuation(prior, transition, prior),
           MakeReceipt(prior.account, prior, order, transition, <<prior>>,
                       NoRef, NoRef))

OpenVersion(prior, transition, order) ==
    Bundle(Continuation(prior, transition, prior.origin),
           MakeReceipt(prior.account, prior.origin, order, transition, <<prior>>,
                       NoRef, NoRef))

\* append_receipt accepts the order and the links.
AppendsAt(order, links) == order >= 1 /\ links # <<>>

AppendTo(header, payload, order, links) ==
    Bundle(header, MakeReceipt(header.account, header.origin, order, payload,
                               links, NoRef, NoRef))

RegisterResidual(account, burden) ==
    [type |-> "ResidualReceipt", id |-> <<account, burden>>,
     operation |-> "REGISTER", status |-> "OPEN", prior |-> <<>>,
     children |-> <<>>, allocated |-> FALSE]

\* transition_residual; REGISTER it refuses.
TransitionResidual(residual, operation, receipt, status, children, allocated) ==
    [type |-> "ResidualReceipt", id |-> residual.id, operation |-> operation,
     status |-> status, prior |-> <<receipt>>, children |-> children,
     allocated |-> allocated]
===============================================================================
