--------------------------- MODULE Handler_proofs ---------------------------
(***************************************************************************)
(* Proofs about the life of a request (Handler).  The invariant relates the *)
(* isEnd flag, which Run and Wrap test, to the responses that were really   *)
(* written: between the start of a request and Terminate the two agree.     *)
(* The first two theorems rest on it; the others count the connections.     *)
(***************************************************************************)
EXTENDS Handler, FiniteSetTheorems, TLAPS

\* A request that has not begun was not answered.
FreshBegin ==
    \A p \in Slots : pc[p] \in {"idle", "start"} => ~isEnd[p] /\ ~answered[p]

\* While a method runs the flag tells whether a response was written.
FlagIsTrue ==
    \A p \in Slots : pc[p] \in Stages => (isEnd[p] <=> answered[p])

AnswerInv ==
    /\ pc \in [Slots -> Stages \cup {"idle", "start", "terminate"}]
    /\ isEnd \in [Slots -> BOOLEAN]
    /\ answered \in [Slots -> BOOLEAN]
    /\ FreshBegin
    /\ FlagIsTrue
    /\ NobodyLeavesUnanswered

\* The invariant holds before the first request.
LEMMA AnswerInvInit == Init => AnswerInv
BY DEF Init, AnswerInv, FreshBegin, FlagIsTrue, NobodyLeavesUnanswered, Stages

\* The invariant holds after a step that leaves the stage and the responses
\* alone: all calls to the databases but a second StartTransaction.
LEMMA AnswerInvUnchanged ==
    AnswerInv /\ UNCHANGED <<pc, isEnd, answered>> => AnswerInv'
BY DEF AnswerInv, FreshBegin, FlagIsTrue, NobodyLeavesUnanswered

\* No step of the system breaks the invariant.
LEMMA AnswerInvNext == AnswerInv /\ [Next]_vars => AnswerInv'
<1> SUFFICES ASSUME AnswerInv, [Next]_vars PROVE AnswerInv'
  OBVIOUS
<1> USE DEF AnswerInv, FreshBegin, FlagIsTrue, NobodyLeavesUnanswered, Stages,
            Goto
<1>1. CASE UNCHANGED vars
  BY <1>1, AnswerInvUnchanged DEF vars
<1>2. ASSUME NEW p \in Slots, Arrive(p) PROVE AnswerInv'
  BY <1>2 DEF Arrive
<1>3. ASSUME NEW p \in Slots, Starts(p) PROVE AnswerInv'
  <2>1. CASE ConstructorPanics(p)
    BY <2>1 DEF ConstructorPanics
  <2>2. CASE SetupFails(p)
    BY <2>2 DEF SetupFails
  <2>3. CASE NoSupport(p)
    BY <2>3 DEF NoSupport, Write
  <2>4. CASE InitLocalCache(p)
    BY <2>4 DEF InitLocalCache, ProcessError, Write
  <2> QED BY <1>3, <2>1, <2>2, <2>3, <2>4 DEF Starts
<1>4. ASSUME NEW p \in Slots, Ends(p) PROVE AnswerInv'
  <2>1. CASE Return(p)
    <3>1. CASE pc[p] = "AfterProcess"
      BY <2>1, <3>1 DEF Return, Running, CheckResponse, ProcessError, Write
    <3>2. CASE pc[p] # "AfterProcess" /\ GoesOn(p)
      BY <2>1, <3>2 DEF Return, Running, NextStage, GoesOn
    <3>3. CASE pc[p] # "AfterProcess" /\ ~GoesOn(p)
      BY <2>1, <3>3 DEF Return, Running, GoesOn
    <3> QED BY <3>1, <3>2, <3>3
  <2>2. CASE ReturnError(p)
    BY <2>2 DEF ReturnError, Running, ProcessError, Write
  <2>3. CASE Panic(p)
    BY <2>3 DEF Panic, Running, Recover, Write
  <2> QED BY <1>4, <2>1, <2>2, <2>3 DEF Ends
<1>5. ASSUME NEW p \in Slots, Answer(p) PROVE AnswerInv'
  BY <1>5 DEF Answer, Running, Write
<1>6. ASSUME NEW p \in Slots, GetsConnection(p) PROVE AnswerInv'
  BY <1>6, AnswerInvUnchanged DEF GetsConnection, Begin, Query
<1>7. ASSUME NEW p \in Slots, Cleans(p) PROVE AnswerInv'
  <2>1. CASE Terminate(p)
    BY <2>1 DEF Terminate
  <2>2. CASE \E d \in Dbs : Close(p, d)
    BY <2>2, AnswerInvUnchanged DEF Close
  <2> QED BY <1>7, <2>1, <2>2 DEF Cleans
<1>8. ASSUME NEW p \in Slots, NEW d \in Dbs, BeginAgain(p, d) PROVE AnswerInv'
  BY <1>8 DEF BeginAgain, Running, Recover, Write
<1>9. ASSUME NEW p \in Slots, NEW d \in Dbs,
             \/ \E call \in {"begin", "query"} : Ask(p, call, d)
             \/ Commit(p, d)
             \/ Deadlock(p, d)
      PROVE AnswerInv'
  BY <1>9, AnswerInvUnchanged DEF Ask, Commit, Deadlock
<1> QED
  BY <1>1, <1>2, <1>3, <1>4, <1>5, <1>6, <1>7, <1>8, <1>9 DEF Next

\* Whatever mix of errors, panics and early returns a request meets, and
\* however many requests there are, Terminate only begins for a request that
\* was answered.
THEOREM EveryoneIsAnswered == Spec => []NobodyLeavesUnanswered
<1>1. AnswerInv => NobodyLeavesUnanswered
  BY DEF AnswerInv
<1> QED BY <1>1, AnswerInvInit, AnswerInvNext, PTL DEF Spec

\* Process never begins for a request that CheckUser or PreProcess answered.
THEOREM ProcessIsGuarded == Spec => RefusedRequestsAreNotProcessed
<1> DEFINE Guarded ==
      \A p \in Slots : pc[p] # "Process" /\ pc'[p] = "Process" => ~answered[p]
<1>1. AnswerInv /\ [Next]_vars => [Guarded]_vars
  <2> SUFFICES ASSUME AnswerInv, Next, NEW q \in Slots,
                      pc[q] # "Process", pc'[q] = "Process"
               PROVE ~answered[q]
    BY DEF Guarded
  <2>1. PICK p \in Slots :
           \/ Arrive(p) \/ Starts(p) \/ Ends(p) \/ Answer(p)
           \/ GetsConnection(p) \/ Cleans(p)
           \/ \E d \in Dbs : \/ \E call \in {"begin", "query"} : Ask(p, call, d)
                             \/ Commit(p, d) \/ BeginAgain(p, d)
                             \/ Deadlock(p, d)
    BY DEF Next
  <2> USE DEF AnswerInv, Goto
  <2>2. ~Arrive(p) /\ ~Answer(p) /\ ~GetsConnection(p)
    BY DEF Arrive, Answer, GetsConnection, Begin, Query
  <2>3. ~Starts(p)
    BY DEF Starts, ConstructorPanics, SetupFails, NoSupport, InitLocalCache,
           ProcessError
  <2>4. ~Cleans(p)
    BY DEF Cleans, Terminate, Close
  <2>5. ASSUME NEW d \in Dbs
        PROVE  /\ \A call \in {"begin", "query"} : ~Ask(p, call, d)
               /\ ~Commit(p, d) /\ ~BeginAgain(p, d) /\ ~Deadlock(p, d)
    BY DEF Ask, Commit, BeginAgain, Recover, Deadlock
  <2>6. ~ReturnError(p) /\ ~Panic(p)
    BY DEF ReturnError, Panic, ProcessError, Recover
  <2>7. Return(p)
    BY <2>1, <2>2, <2>3, <2>4, <2>5, <2>6 DEF Ends
  <2>8. pc[p] # "AfterProcess" /\ GoesOn(p) /\ p = q
    BY <2>7 DEF Return, CheckResponse, ProcessError
  <2> QED
    BY <2>7, <2>8 DEF Return, Running, GoesOn, FlagIsTrue
<1> QED
  BY <1>1, AnswerInvInit, AnswerInvNext, PTL
     DEF Spec, RefusedRequestsAreNotProcessed, Guarded

-----------------------------------------------------------------------------
(* The connections                                                         *)

Owners(d) == {p \in Slots : d \in tx[p]}

\* A request outside its methods neither waits for a connection nor, before
\* them, owns one.
ConnInv ==
    /\ pc \in [Slots -> Stages \cup {"idle", "start", "terminate"}]
    /\ wait \in [Slots -> Calls]
    /\ tx \in [Slots -> SUBSET Dbs]
    /\ victims \in [Slots -> SUBSET Dbs]
    /\ \A p \in Slots : /\ pc[p] \in {"idle", "start"} => tx[p] = {}
                        /\ pc[p] \notin Stages => wait[p] = NoCall
                        /\ \A d \in tx[p] : wait[p] # <<"begin", d>>
    /\ busy \in [Dbs -> 0 .. Conns]
    /\ \A d \in Dbs : busy[d] = Cardinality(Owners(d))

LEMMA ConnInvInit == Init => ConnInv
<1> SUFFICES ASSUME Init PROVE ConnInv
  OBVIOUS
<1>1. ASSUME NEW d \in Dbs PROVE busy[d] = Cardinality(Owners(d))
  <2>1. Owners(d) = {}
    BY DEF Init, Owners
  <2> QED
    BY <2>1, FS_EmptySet DEF Init
<1> QED
  BY <1>1, HandlerAssumption DEF Init, ConnInv, Stages, Calls, NoCall

\* The owners of a pool's connections are finitely many.
LEMMA OwnersFinite ==
    \A d \in Dbs : IsFiniteSet(Owners(d)) /\ Cardinality(Owners(d)) \in Nat
<1> SUFFICES ASSUME NEW d \in Dbs
             PROVE  IsFiniteSet(Owners(d)) /\ Cardinality(Owners(d)) \in Nat
  OBVIOUS
<1>1. Owners(d) \subseteq Slots
  BY DEF Owners
<1>2. IsFiniteSet(Owners(d))
  BY <1>1, HandlerAssumption, FS_Subset
<1> QED
  BY <1>2, FS_CardinalityType

\* The end of a transaction gives back the one connection it had.
LEMMA ConnEndTransaction ==
    ASSUME ConnInv, NEW p \in Slots, NEW d \in tx[p], EndTransaction(p, d)
    PROVE  /\ busy' \in [Dbs -> 0 .. Conns]
           /\ \A e \in Dbs : busy'[e] = Cardinality(Owners(e)')
           /\ tx' = [tx EXCEPT ![p] = @ \ {d}]
           /\ tx' \in [Slots -> SUBSET Dbs] /\ victims' \in [Slots -> SUBSET Dbs]
<1>1. d \in Dbs /\ p \in Owners(d)
  BY DEF ConnInv, Owners
<1>2. /\ busy' = [busy EXCEPT ![d] = busy[d] - 1]
      /\ tx' = [tx EXCEPT ![p] = @ \ {d}]
      /\ victims' = [victims EXCEPT ![p] = @ \ {d}]
  BY DEF EndTransaction
<1>3. Owners(d)' = Owners(d) \ {p} /\ \A e \in Dbs \ {d} : Owners(e)' = Owners(e)
  BY <1>2 DEF Owners, ConnInv
<1>4. Cardinality(Owners(d)') = Cardinality(Owners(d)) - 1
      /\ Cardinality(Owners(d)') \in Nat
  BY <1>1, <1>3, OwnersFinite, FS_RemoveElement, FS_CardinalityType
<1>5. busy'[d] = Cardinality(Owners(d)') /\ busy'[d] \in 0 .. Conns
  BY <1>1, <1>2, <1>4, HandlerAssumption DEF ConnInv
<1>6. \A e \in Dbs \ {d} : busy'[e] = busy[e]
  BY <1>2 DEF ConnInv
<1> QED
  BY <1>2, <1>3, <1>5, <1>6 DEF ConnInv

\* Begin takes a free connection.
LEMMA ConnBegin ==
    ASSUME ConnInv, NEW p \in Slots, NEW d \in Dbs, Begin(p, d)
    PROVE  ConnInv'
<1>1. /\ busy' = [busy EXCEPT ![d] = busy[d] + 1] /\ busy[d] < Conns
      /\ tx' = [tx EXCEPT ![p] = @ \cup {d}]
      /\ wait' = [wait EXCEPT ![p] = NoCall] /\ wait[p] # NoCall
      /\ UNCHANGED <<pc, victims>>
  BY DEF Begin, Free, NoCall
<1>0. d \notin tx[p]
  BY DEF Begin, ConnInv
<1>2. Owners(d)' = Owners(d) \cup {p} /\ p \notin Owners(d)
      /\ \A e \in Dbs \ {d} : Owners(e)' = Owners(e)
  BY <1>0, <1>1 DEF Owners, ConnInv
<1>3. Cardinality(Owners(d)') = Cardinality(Owners(d)) + 1
  BY <1>2, OwnersFinite, FS_AddElement
<1>4. busy'[d] = Cardinality(Owners(d)') /\ busy'[d] \in 0 .. Conns
  BY <1>1, <1>3, HandlerAssumption DEF ConnInv
<1>5. pc[p] \in Stages
  BY <1>1 DEF ConnInv
<1> QED
  BY <1>1, <1>2, <1>4, <1>5 DEF ConnInv, Calls, NoCall, Stages

\* A step that neither takes nor returns a connection.
LEMMA ConnSame ==
    ASSUME ConnInv, UNCHANGED <<tx, busy>>
    PROVE  \A d \in Dbs : busy'[d] = Cardinality(Owners(d)')
BY DEF ConnInv, Owners

\* No step of the system breaks the invariant.
LEMMA ConnInvNext == ConnInv /\ [Next]_vars => ConnInv'
<1> SUFFICES ASSUME ConnInv, [Next]_vars PROVE ConnInv'
  OBVIOUS
<1>1. CASE UNCHANGED vars
  BY <1>1, ConnSame DEF vars, dbVars, ConnInv
<1>2. ASSUME NEW p \in Slots, Arrive(p) PROVE ConnInv'
  BY <1>2, ConnSame DEF Arrive, Goto, dbVars, ConnInv, Stages
<1>3. ASSUME NEW p \in Slots, Starts(p) PROVE ConnInv'
  <2>1. PICK s \in {"idle", "terminate", "CheckUser"} :
           pc[p] = "start" /\ pc' = [pc EXCEPT ![p] = s]
           /\ UNCHANGED <<wait, tx, victims, busy>>
    BY <1>3 DEF Starts, ConstructorPanics, SetupFails, NoSupport,
                InitLocalCache, ProcessError, Goto, dbVars
  <2> QED
    BY <2>1, ConnSame DEF ConnInv, Stages
<1>4. ASSUME NEW p \in Slots, Ends(p) PROVE ConnInv'
  <2>1. PICK s \in Stages \cup {"terminate"} :
           Running(p) /\ pc' = [pc EXCEPT ![p] = s]
           /\ UNCHANGED <<wait, tx, victims, busy>>
    BY <1>4 DEF Ends, Return, ReturnError, Panic, Running, CheckResponse,
                ProcessError, Recover, Goto, NextStage, Stages, dbVars
  <2> QED
    BY <2>1, ConnSame DEF ConnInv, Stages, Running
<1>5. ASSUME NEW p \in Slots, Answer(p) PROVE ConnInv'
  BY <1>5, ConnSame DEF Answer, dbVars, ConnInv
<1>6. ASSUME NEW p \in Slots, GetsConnection(p) PROVE ConnInv'
  <2>1. PICK d \in Dbs : Begin(p, d) \/ Query(p, d)
    BY <1>6 DEF GetsConnection
  <2>2. CASE Begin(p, d)
    BY <2>2, ConnBegin
  <2>3. CASE Query(p, d)
    BY <2>3, ConnSame DEF Query, dbVars, ConnInv, Calls, NoCall
  <2> QED
    BY <2>1, <2>2, <2>3
<1>7. ASSUME NEW p \in Slots, Cleans(p) PROVE ConnInv'
  <2>1. CASE Terminate(p)
    BY <2>1, ConnSame DEF Terminate, Goto, dbVars, ConnInv, Stages
  <2>2. ASSUME NEW d \in Dbs, Close(p, d) PROVE ConnInv'
    <3>1. /\ d \in tx[p] /\ EndTransaction(p, d) /\ pc[p] = "terminate"
          /\ UNCHANGED <<pc, wait>>
      BY <2>2 DEF Close
    <3> QED
      BY <3>1, ConnEndTransaction DEF ConnInv
  <2> QED BY <1>7, <2>1, <2>2 DEF Cleans
<1>8. ASSUME NEW p \in Slots, NEW d \in Dbs,
             Commit(p, d) \/ BeginAgain(p, d)
      PROVE ConnInv'
  <2>1. /\ d \in tx[p] /\ EndTransaction(p, d) /\ Running(p)
        /\ pc' = pc \/ pc' = [pc EXCEPT ![p] = "terminate"]
        /\ UNCHANGED wait
    BY <1>8 DEF Commit, BeginAgain, Recover, Goto
  <2> QED
    BY <2>1, ConnEndTransaction DEF ConnInv, Running, Stages
<1>9. ASSUME NEW p \in Slots, NEW d \in Dbs, NEW call \in {"begin", "query"},
             Ask(p, call, d)
      PROVE ConnInv'
  <2>1. /\ wait' = [wait EXCEPT ![p] = <<call, d>>] /\ d \notin tx[p]
        /\ pc[p] \in Stages /\ UNCHANGED <<pc, tx, victims, busy>>
    BY <1>9 DEF Ask, Running, dbVars
  <2>2. <<call, d>> \in Calls
    BY DEF Calls
  <2> QED
    BY <2>1, <2>2, ConnSame DEF ConnInv
<1>10. ASSUME NEW p \in Slots, NEW d \in Dbs, Deadlock(p, d) PROVE ConnInv'
  <2>1. /\ wait' = [wait EXCEPT ![p] = <<"report", d>>]
        /\ victims' = [victims EXCEPT ![p] = @ \cup {d}]
        /\ pc[p] \in Stages /\ UNCHANGED <<pc, tx, busy>>
    BY <1>10 DEF Deadlock, Running
  <2>2. <<"report", d>> \in Calls
    BY DEF Calls
  <2> QED
    BY <2>1, <2>2, ConnSame DEF ConnInv
<1> QED
  BY <1>1, <1>2, <1>3, <1>4, <1>5, <1>6, <1>7, <1>8, <1>9, <1>10 DEF Next

\* However many requests there are and whatever they do, the connections of a
\* pool that are in use belong to the transactions of the requests under way.
THEOREM ConnectionsBelongToRequests == Spec => []ConnectionsAreOwned
<1>1. ConnInv => ConnectionsAreOwned
  <2> SUFFICES ASSUME ConnInv, NEW d \in Dbs
               PROVE  {p \in Slots : pc[p] # "idle" /\ d \in tx[p]} = Owners(d)
    BY DEF ConnInv, ConnectionsAreOwned
  <2> QED
    BY DEF ConnInv, Owners
<1> QED BY <1>1, ConnInvInit, ConnInvNext, PTL DEF Spec

\* Type correctness; no pool ever lends more connections than it has.
THEOREM HandlerTypes == Spec => []TypeOK
<1>1. AnswerInv /\ ConnInv => TypeOK
  BY DEF AnswerInv, ConnInv, TypeOK
<1> QED
  BY <1>1, AnswerInvInit, AnswerInvNext, ConnInvInit, ConnInvNext, PTL DEF Spec
=============================================================================
