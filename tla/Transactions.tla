----------------------------- MODULE Transactions -----------------------------
(***************************************************************************)
(* The write requests of the console as PostgreSQL runs them: every        *)
(* handler is one READ COMMITTED transaction (get_write_db_connection).    *)
(* A statement sees what is committed when it starts and waits for row     *)
(* locks; nobody sees a transaction's writes before its commit, which a    *)
(* handler's last step applies as a whole.                                 *)
(*                                                                         *)
(* A handler is cut where it waits for a lock or trusts an earlier read.   *)
(* Whatever ends it early (a refusal by the handler, the ten second        *)
(* statement timeout, being picked as deadlock victim, a lost connection)  *)
(* leaves the tables as they were: RollBack.                               *)
(***************************************************************************)
EXTENDS Naturals, Sequences, FiniteSets, SequencesExt

CONSTANTS
    Clients,       \* the connections that can be in a transaction at once
    MaxRequests    \* bound on the requests started in a behaviour

ASSUME TransactionConstants == MaxRequests \in Nat

VARIABLES
    txn,       \* txn[c]: the transaction of connection c
    workload,  \* the requests editors and users send in this behaviour
    started    \* how many were started, for the bound

txnVars == <<txn, workload, started>>

\* at: the next step of the handler; req: the request; seen: what the handler
\* has read; plan: the locks its statement still takes, in order; held.
NoRequest == [kind |-> "none"]
Idle == [at |-> "idle", req |-> NoRequest, seen |-> <<>>, plan |-> <<>>, held |-> {}]

TxnInit(requests) ==
    /\ txn = [c \in Clients |-> Idle]
    /\ workload = requests
    /\ started = 0

----------------------------------------------------------------------------
\* "update" is FOR UPDATE (and an exclusive advisory lock), "share" is FOR
\* SHARE, "key" is the FOR KEY SHARE of a foreign key check.
Lock(mode, row) == [mode |-> mode, row |-> row]
Conflict(m, n) == "update" \in {m, n}

\* A finite set in an order, as ORDER BY and sorted() yield it; <<i, j>> \in before
\* when i comes first.
Sorted(S, before) ==
    CHOOSE s \in SetToSeqs(S) : \A i, j \in DOMAIN s : i < j => <<s[j], s[i]>> \notin before

InOrder(ids) == Sorted(ids, {p \in ids \X ids : p[1] < p[2]})

Blockers(c, lock) ==
    {d \in Clients \ {c} : \E h \in txn[d].held : h.row = lock.row /\ Conflict(h.mode, lock.mode)}

\* Whom c waits for, as PostgreSQL's deadlock detector sees it.
WaitsFor(c) == IF txn[c].plan = <<>> THEN {} ELSE Blockers(c, Head(txn[c].plan))

\* A transaction never waits for itself.
TakeLock(c) ==
    /\ txn[c].plan # <<>>
    /\ WaitsFor(c) = {}
    /\ txn' = [txn EXCEPT ![c] = [at |-> @.at, req |-> @.req, seen |-> @.seen,
                                  plan |-> Tail(@.plan), held |-> @.held \union {Head(@.plan)}]]
    /\ UNCHANGED <<workload, started>>

Begin(c, req, step, plan) ==
    /\ txn[c] = Idle
    /\ started < MaxRequests
    /\ started' = started + 1
    /\ txn' = [txn EXCEPT ![c] = [at |-> step, req |-> req, seen |-> <<>>, plan |-> plan, held |-> {}]]
    /\ UNCHANGED workload

\* The statement before this step of a handler has all its locks.
Ready(c, kinds, step) == txn[c].req.kind \in kinds /\ txn[c].at = step /\ txn[c].plan = <<>>

Continue(c, step, seen, plan) ==
    /\ txn' = [txn EXCEPT ![c] = [at |-> step, req |-> @.req, seen |-> seen, plan |-> plan, held |-> @.held]]
    /\ UNCHANGED <<workload, started>>

\* The end of a transaction releases its locks.
Finish(c) ==
    /\ txn' = [txn EXCEPT ![c] = Idle]
    /\ UNCHANGED <<workload, started>>

RollBack(c) ==
    /\ txn[c] # Idle
    /\ Finish(c)
===============================================================================
