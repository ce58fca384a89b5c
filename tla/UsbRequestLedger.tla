-------------------------- MODULE UsbRequestLedger --------------------------
(***************************************************************************)
(* What the request pool promises its clients, stated without slots or      *)
(* generations: a request is an identity, it is live from its submission    *)
(* until it is retired, and it is retired at most once, by its own          *)
(* completion or by a cancellation.  A completion that is delivered twice,  *)
(* late, or after a cancellation changes nothing.                           *)
(*                                                                         *)
(* A pool that is started again while requests are live forgets them.  The  *)
(* ledger calls those requests lost: nothing is promised about a completion *)
(* of a lost request except that it retires at most one live one.           *)
(***************************************************************************)
EXTENDS Naturals

CONSTANT Ids    \* the identities of requests

VARIABLES
    open,       \* whether the pool takes submissions and completions
    live,       \* the requests in flight
    retired,    \* the requests whose slot was given back
    lost,       \* the requests that were live when the pool was restarted
    delivery    \* the last completion: the request it was for and whether it counted

ledgerVars == <<open, live, retired, lost, delivery>>

NoDelivery == [id |-> 0, accepted |-> FALSE]
Known == live \cup retired \cup lost

LedgerInit ==
    /\ open = FALSE
    /\ live = {}
    /\ retired = {}
    /\ lost = {}
    /\ delivery = NoDelivery

Restart ==
    /\ open' = TRUE
    /\ lost' = lost \cup live
    /\ live' = {}
    /\ UNCHANGED <<retired, delivery>>

Shut ==
    /\ open' = FALSE
    /\ UNCHANGED <<live, retired, lost, delivery>>

Issue(id) ==
    /\ open
    /\ id \notin Known
    /\ live' = live \cup {id}
    /\ UNCHANGED <<open, retired, lost, delivery>>

\* A completion counts exactly when the pool is open and the request is live.
Deliver(id) ==
    /\ id \in (live \cup retired) \ lost
    /\ delivery' = [id |-> id, accepted |-> open /\ id \in live]
    /\ IF open /\ id \in live
       THEN live' = live \ {id} /\ retired' = retired \cup {id}
       ELSE UNCHANGED <<live, retired>>
    /\ UNCHANGED <<open, lost>>

DeliverLost(id) ==
    /\ id \in lost
    /\ \/ /\ delivery' = [id |-> id, accepted |-> FALSE]
          /\ UNCHANGED <<live, retired>>
       \/ \E victim \in live :
             /\ open
             /\ delivery' = [id |-> id, accepted |-> TRUE]
             /\ live' = live \ {victim}
             /\ retired' = retired \cup {victim}
    /\ UNCHANGED <<open, lost>>

CancelLive ==
    /\ open
    /\ live' = {}
    /\ retired' = retired \cup live
    /\ UNCHANGED <<open, lost, delivery>>

LedgerNext ==
    \/ Restart
    \/ Shut
    \/ CancelLive
    \/ \E id \in Ids : Issue(id) \/ Deliver(id) \/ DeliverLost(id)

LedgerSpec == LedgerInit /\ [][LedgerNext]_ledgerVars
=============================================================================
