------------------------------- MODULE Handler -------------------------------
(***************************************************************************)
(* The life of a request: lib/handler/base.go (Wrap, Run, Terminate) around *)
(* the methods of an application handler, and the connections its database *)
(* clients (lib/db/client.go) take from the pools that all requests share. *)
(* main.go lets 40 requests in at a time (gin-limit); lib/db/db.go gives    *)
(* each pool 25 connections, so requests wait for each other.               *)
(*                                                                         *)
(* The application's methods are not in the repository: each of them may    *)
(* answer, use the databases, return nil or an error, and panic, in any     *)
(* order.  A transaction keeps one connection from Begin to its end; a      *)
(* statement outside of one borrows a connection, here in a single step.    *)
(***************************************************************************)
EXTENDS Integers, FiniteSets

CONSTANTS
    Slots,    \* the requests gin-limit lets in at a time
    Dbs,      \* the databases, numbered
    Conns,    \* SetMaxOpenConns
    DbStages, \* the methods that use databases
    Careful   \* TRUE if a handler has one transaction at a time and, in it,
              \* reads only from databases of higher number

ASSUME HandlerAssumption ==
    /\ IsFiniteSet(Slots)
    /\ Dbs \subseteq Nat
    /\ Conns \in Nat \ {0}
    /\ Careful \in BOOLEAN

Stages == {"CheckUser", "PreProcess", "Process", "AfterProcess"}

NextStage == [CheckUser |-> "PreProcess", PreProcess |-> "Process",
              Process |-> "AfterProcess"]

VARIABLES
    pc,        \* "idle", "start", the method that runs, or "terminate"
    wait,      \* the call waiting for a connection, and its database
    isEnd,     \* the isEnd flag of the gin context
    answered,  \* a response was written
    tx,        \* the databases whose Client.transaction is set
    victims,   \* those whose transaction MySQL rolled back in a deadlock
    busy       \* the connections in use of each pool

dbVars == <<tx, victims, busy>>
vars == <<pc, wait, isEnd, answered, dbVars>>

NoCall == <<"none", 0>>
Calls  == {"begin", "query", "report"} \X Dbs \cup {NoCall}

\* Mutant: the pool has no limit.
Unlimited(d) == d \in Dbs

Free(d) == busy[d] < Conns

Init ==
    /\ pc = [p \in Slots |-> "idle"]
    /\ wait = [p \in Slots |-> NoCall]
    /\ isEnd = [p \in Slots |-> FALSE]
    /\ answered = [p \in Slots |-> FALSE]
    /\ tx = [p \in Slots |-> {}]
    /\ victims = [p \in Slots |-> {}]
    /\ busy = [d \in Dbs |-> 0]

Goto(p, step) == pc' = [pc EXCEPT ![p] = step]

\* WriteString and the other writers: the response, then the flag.
Write(p) == /\ answered' = [answered EXCEPT ![p] = TRUE]
            /\ isEnd' = [isEnd EXCEPT ![p] = TRUE]

\* ProcessError answers whatever was answered before; Run returns.
ProcessError(p) == Write(p) /\ Goto(p, "terminate")

\* Mutant: Wrap only logs the panic.
OnlyLogged(p) == UNCHANGED <<isEnd, answered>> /\ Goto(p, "terminate")

\* The recover of Wrap answers unless a response was written.
Recover(p) == /\ IF isEnd[p] THEN UNCHANGED <<isEnd, answered>> ELSE Write(p)
              /\ Goto(p, "terminate")

-----------------------------------------------------------------------------
(* Wrap and Run, up to CheckUser                                           *)

Arrive(p) ==
    /\ pc[p] = "idle"
    /\ Goto(p, "start")
    /\ UNCHANGED <<wait, isEnd, answered, dbVars>>

\* The handler's constructor panics: there is nothing to answer with and
\* nothing to terminate.
ConstructorPanics(p) ==
    /\ pc[p] = "start"
    /\ Goto(p, "idle")
    /\ UNCHANGED <<wait, isEnd, answered, dbVars>>

\* Setup of a handler fails: Wrap answers itself and sets no flag.
SetupFails(p) ==
    /\ pc[p] = "start"
    /\ answered' = [answered EXCEPT ![p] = TRUE]
    /\ Goto(p, "terminate")
    /\ UNCHANGED <<wait, isEnd, dbVars>>

\* The refused user agent.
NoSupport(p) ==
    /\ pc[p] = "start"
    /\ Write(p)
    /\ Goto(p, "terminate")
    /\ UNCHANGED <<wait, dbVars>>

\* GetRedisClient or InitLocalCache fails, or they do their work.
InitLocalCache(p) ==
    /\ pc[p] = "start"
    /\ \/ ProcessError(p)
       \/ Goto(p, "CheckUser") /\ UNCHANGED <<isEnd, answered>>
    /\ UNCHANGED <<wait, dbVars>>

-----------------------------------------------------------------------------
(* The methods of the application                                          *)

Running(p) == pc[p] \in Stages /\ wait[p] = NoCall

Answer(p) ==
    /\ Running(p)
    /\ Write(p)
    /\ UNCHANGED <<pc, wait, dbVars>>

\* Mutant: only an error stops the request.
AlwaysGoesOn(p) == p \in Slots

\* CheckUser and PreProcess stop the request by answering it; what Process
\* answered, AfterProcess may still follow.
GoesOn(p) == pc[p] = "Process" \/ ~isEnd[p]

\* AfterProcess has returned: without a response it is the error "no response".
CheckResponse(p) == IF isEnd[p]
                    THEN UNCHANGED <<isEnd, answered>> /\ Goto(p, "terminate")
                    ELSE ProcessError(p)

\* A method returns nil.
Return(p) ==
    /\ Running(p)
    /\ IF pc[p] = "AfterProcess" THEN CheckResponse(p)
       ELSE /\ Goto(p, IF GoesOn(p) THEN NextStage[pc[p]] ELSE "terminate")
            /\ UNCHANGED <<isEnd, answered>>
    /\ UNCHANGED <<wait, dbVars>>

\* A method returns an error.
ReturnError(p) == Running(p) /\ ProcessError(p) /\ UNCHANGED <<wait, dbVars>>

\* A method panics.
Panic(p) == Running(p) /\ Recover(p) /\ UNCHANGED <<wait, dbVars>>

-----------------------------------------------------------------------------
(* Database calls of a method                                              *)

\* What the application's discipline lets it ask for.
MayAsk(p, call, d) == Careful => \A e \in tx[p] : call = "query" /\ e < d

\* GetDbClient and StartTransaction, or a statement outside a transaction,
\* asks the pool for a connection.
Ask(p, call, d) ==
    /\ Running(p) /\ pc[p] \in DbStages /\ call \in {"begin", "query"}
    /\ d \notin tx[p] /\ MayAsk(p, call, d)
    /\ wait' = [wait EXCEPT ![p] = <<call, d>>]
    /\ UNCHANGED <<pc, isEnd, answered, dbVars>>

\* The pool hands the transaction a connection.
Begin(p, d) ==
    /\ wait[p] = <<"begin", d>> /\ Free(d)
    /\ tx' = [tx EXCEPT ![p] = @ \cup {d}]
    /\ busy' = [busy EXCEPT ![d] = @ + 1]
    /\ wait' = [wait EXCEPT ![p] = NoCall]
    /\ UNCHANGED <<pc, isEnd, answered, victims>>

\* The pool lends a connection to one statement.
Query(p, d) ==
    /\ wait[p] \in {<<"query", d>>, <<"report", d>>} /\ Free(d)
    /\ wait' = [wait EXCEPT ![p] = NoCall]
    /\ UNCHANGED <<pc, isEnd, answered, dbVars>>

\* Mutant: Close forgets the transaction and leaves its connection open.
ForgetTransaction(p, d) ==
    /\ tx' = [tx EXCEPT ![p] = @ \ {d}]
    /\ victims' = [victims EXCEPT ![p] = @ \ {d}]
    /\ UNCHANGED busy

\* CommitTransaction and RollbackTransaction give the connection back; a
\* COMMIT that fails ends as the rollback does.
EndTransaction(p, d) ==
    /\ tx' = [tx EXCEPT ![p] = @ \ {d}]
    /\ victims' = [victims EXCEPT ![p] = @ \ {d}]
    /\ busy' = [busy EXCEPT ![d] = @ - 1]

Commit(p, d) ==
    /\ Running(p) /\ d \in tx[p]
    /\ EndTransaction(p, d)
    /\ UNCHANGED <<pc, wait, isEnd, answered>>

\* StartTransaction in a transaction rolls that one back and panics.
BeginAgain(p, d) ==
    /\ Running(p) /\ d \in tx[p]
    /\ EndTransaction(p, d)
    /\ Recover(p)
    /\ UNCHANGED wait

\* MySQL rolls a transaction back to break a cycle of lock waits; another one
\* of the cycle goes on.  WriteAll asks for the engine's status, over a second
\* connection, while the transaction still keeps its own.
Deadlock(p, d) ==
    /\ Running(p) /\ d \in tx[p] \ victims[p]
    /\ \E q \in Slots \ {p} : d \in tx[q] \ victims[q]
    /\ victims' = [victims EXCEPT ![p] = @ \cup {d}]
    /\ wait' = [wait EXCEPT ![p] = <<"report", d>>]
    /\ UNCHANGED <<pc, isEnd, answered, tx, busy>>

-----------------------------------------------------------------------------
(* Terminate                                                               *)

\* Client.Close, client by client.
Close(p, d) ==
    /\ pc[p] = "terminate" /\ d \in tx[p]
    /\ EndTransaction(p, d)
    /\ UNCHANGED <<pc, wait, isEnd, answered>>

\* The request leaves; the next one in this slot has a context of its own.
Terminate(p) ==
    /\ pc[p] = "terminate" /\ tx[p] = {}
    /\ Goto(p, "idle")
    /\ isEnd' = [isEnd EXCEPT ![p] = FALSE]
    /\ answered' = [answered EXCEPT ![p] = FALSE]
    /\ UNCHANGED <<wait, dbVars>>

-----------------------------------------------------------------------------
Starts(p) == ConstructorPanics(p) \/ SetupFails(p) \/ NoSupport(p)
             \/ InitLocalCache(p)

\* A method comes to its end.
Ends(p) == Return(p) \/ ReturnError(p) \/ Panic(p)

\* The call under way gets its connection.
GetsConnection(p) == \E d \in Dbs : Begin(p, d) \/ Query(p, d)

Cleans(p) == Terminate(p) \/ \E d \in Dbs : Close(p, d)

Next == \E p \in Slots :
    \/ Arrive(p) \/ Starts(p) \/ Ends(p) \/ Answer(p)
    \/ GetsConnection(p) \/ Cleans(p)
    \/ \E d \in Dbs : \/ \E call \in {"begin", "query"} : Ask(p, call, d)
                      \/ Commit(p, d) \/ BeginAgain(p, d) \/ Deadlock(p, d)

Spec == Init /\ [][Next]_vars

\* Go runs the code around the methods; a method does not run for ever, and
\* the pool serves the callers that wait for it in turn.
Fairness == \A p \in Slots : /\ WF_vars(Starts(p)) /\ WF_vars(Cleans(p))
                             /\ SF_vars(Ends(p)) /\ SF_vars(GetsConnection(p))

FairSpec == Spec /\ Fairness

-----------------------------------------------------------------------------
(* Properties                                                              *)

TypeOK ==
    /\ pc \in [Slots -> Stages \cup {"idle", "start", "terminate"}]
    /\ wait \in [Slots -> Calls]
    /\ isEnd \in [Slots -> BOOLEAN]
    /\ answered \in [Slots -> BOOLEAN]
    /\ tx \in [Slots -> SUBSET Dbs]
    /\ victims \in [Slots -> SUBSET Dbs]
    /\ busy \in [Dbs -> 0 .. Conns]

\* Whatever path a request takes through errors, panics and early returns of
\* its methods, Terminate only begins when a response was written.
NobodyLeavesUnanswered ==
    \A p \in Slots : pc[p] = "terminate" => answered[p]

\* The main method never runs for a request that CheckUser or PreProcess has
\* answered already (a redirect to the login, say): when Process begins, no
\* response was written.
RefusedRequestsAreNotProcessed ==
    [][\A p \in Slots : pc[p] # "Process" /\ pc'[p] = "Process"
            => ~answered[p]]_vars

\* The connections of a pool that are in use belong to the transactions of the
\* requests under way: no panic, early return, second StartTransaction or
\* error loses one.
ConnectionsAreOwned ==
    \A d \in Dbs :
        busy[d] = Cardinality({p \in Slots : pc[p] # "idle" /\ d \in tx[p]})

\* A request of a careful application ends, although there are fewer
\* connections than requests and the victim of a deadlock waits for a second
\* connection while it keeps its first.
RequestEnds(p) == pc[p] = "start" ~> pc[p] = "idle"
=============================================================================
