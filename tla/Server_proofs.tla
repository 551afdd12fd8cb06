---------------------------- MODULE Server_proofs ----------------------------
(* The limiter's count and the graceful shutdown of Server, for any number of *)
(* databases and requests.                                                  *)
EXTENDS Server, FiniteSetTheorems, TLAPS

Inside == {r \in Reqs : req[r] = "running"}

\* The limiter's semaphore holds one token for each request it let in.
TokensMatch == inside = Cardinality(Inside)

Types ==
    /\ given \in SUBSET Flags /\ pc \in Points
    /\ open \in SUBSET Dbs /\ redis \in BOOLEAN
    /\ listener \in {"none", "starting", "up", "down"}
    /\ quit \in 0 .. Buffer /\ came \in SUBSET Points
    /\ inside \in Nat /\ inside <= MaxAllowed
    /\ req \in [Reqs -> Active \cup {"out", "answered", "broken"}]
    /\ late \in BOOLEAN

\* Before the goroutine of the listener there is no request.
FirstListen ==
    /\ pc \in {"flags", "refused", "migrating", "connect"} => listener = "none"
    /\ listener = "none" => Idle

\* While main listens, waits and drains all pools are open.
PoolsAreOpen ==
    pc \in {"listen", "notified", "wait", "shutdown", "drain"} => open = Dbs

\* Behind Shutdown nothing is accepted, and unless its time ran out nothing is
\* left under way.
ClosesQuiet ==
    /\ pc \in {"drain", "close"} => listener # "up"
    /\ pc = "close" /\ ~late => Idle
    /\ pc \in {"end", "killed"} => listener = "none"

\* With room in the channel a signal from before the receive is in it.
EarlySignalsArePending ==
    /\ pc \in {"flags", "connect", "listen"} => "notified" \notin came
    /\ "notified" \in came /\ pc \in {"notified", "wait"} => quit > 0

\* What holds of early signals and of the migrations.
Verdicts == /\ Unbuffered => EarlySignalsAreLost
            /\ Buffer > 0 => EarlySignalsArePending
            /\ NoMigrationRuns

ServerInv == /\ Types /\ TokensMatch /\ FirstListen /\ PoolsAreOpen /\ ClosesQuiet
             /\ OnlyLateRequestsBreak /\ Verdicts

-----------------------------------------------------------------------------
LEMMA InitHolds ==
    ASSUME ProperSettings, Init
    PROVE  ServerInv
<1>1. inside \in Nat /\ inside <= MaxAllowed
  BY DEF Init, ProperSettings
<1>2. Types
  <2>1. quit \in 0 .. Buffer
    BY DEF Init, ProperSettings
  <2> QED
    BY <1>1, <2>1 DEF Init, Types, Points
<1>3. Inside = {}
  BY DEF Init, Inside
<1>4. TokensMatch
  BY <1>3, FS_EmptySet DEF Init, TokensMatch
<1> QED
  BY <1>2, <1>4
  DEF Init, ServerInv, FirstListen, PoolsAreOpen, ClosesQuiet, Idle, Active,
      OnlyLateRequestsBreak, Verdicts, EarlySignalsAreLost, EarlySignalsArePending,
         NoMigrationRuns, Unbuffered, sigVars

\* The semaphore is not touched.
LEMMA SameTokens ==
    ASSUME TokensMatch, inside' = inside, Inside' = Inside
    PROVE  TokensMatch'
BY DEF TokensMatch

\* A process that goes takes its requests along.
LEMMA CutOffHolds ==
    ASSUME Types, CutOff, inside' = 0
    PROVE  /\ req' \in [Reqs -> Active \cup {"out", "answered", "broken"}]
           /\ Idle' /\ TokensMatch'
<1>1. req' \in [Reqs -> Active \cup {"out", "answered", "broken"}] /\ Idle'
  BY DEF Types, CutOff, Idle, Active
<1>2. Inside' = {}
  BY DEF CutOff, Inside, Active
<1> QED
  BY <1>1, <1>2, FS_EmptySet DEF TokensMatch

-----------------------------------------------------------------------------
\* Steps of main that leave the requests alone.
LEMMA MainStep ==
    ASSUME ProperSettings, ServerInv, UNCHANGED reqVars,
           ParseFlags \/ GoListen \/ Notify \/ Wait \/ Listen
             \/ SigtermSent \/ Receive \/ Shutdown \/ Drained \/ Timeout
    PROVE  ServerInv'
<1> USE DEF ServerInv, reqVars, poolVars, sigVars
<1>1. TokensMatch'
  BY SameTokens DEF Inside
<1>2. OnlyLateRequestsBreak'
  BY DEF OnlyLateRequestsBreak, Types, ParseFlags, GoListen, Notify, Wait, Listen,
         SigtermSent, Receive, Shutdown, Drained, Timeout
<1>3. Idle' = Idle
  BY DEF Idle
<1>4. Verdicts'
  <2>1. NoMigrationRuns'
    BY DEF Verdicts, NoMigrationRuns, ParseFlags, gooseMain, Parses, GooseFlags,
           GoListen, Notify, Wait, Listen, SigtermSent, Receive, Shutdown,
           Drained, Timeout
  <2>2. Unbuffered => EarlySignalsAreLost'
    BY DEF Verdicts, Unbuffered, EarlySignalsAreLost, Types, ParseFlags, gooseMain,
           GoListen, Notify, Wait, Listen, SigtermSent, Receive, Shutdown, Drained,
           Timeout, sigVars
  <2>3. Buffer > 0 => EarlySignalsArePending'
    BY DEF Verdicts, EarlySignalsArePending, Types, ParseFlags, gooseMain,
           GoListen, Notify, Wait, Listen, SigtermSent, Receive, Shutdown, Drained,
           Timeout, sigVars, AfterNotify
  <2> QED
    BY <2>1, <2>2, <2>3 DEF Verdicts, Unbuffered
<1>5. CASE ParseFlags
  BY <1>1, <1>2, <1>3, <1>4, <1>5
  DEF ParseFlags, gooseMain, Types, Points, FirstListen, PoolsAreOpen, ClosesQuiet
<1>6. CASE GoListen
  BY <1>1, <1>2, <1>3, <1>4, <1>6
  DEF GoListen, Types, Points, FirstListen, PoolsAreOpen, ClosesQuiet
<1>7. CASE Notify \/ Wait
  BY <1>1, <1>2, <1>3, <1>4, <1>7
  DEF Notify, Wait, Types, Points, FirstListen, PoolsAreOpen, ClosesQuiet
<1>8. CASE Listen
  BY <1>1, <1>2, <1>3, <1>4, <1>8
  DEF Listen, Types, Points, FirstListen, PoolsAreOpen, ClosesQuiet
<1>9. CASE SigtermSent \/ Receive
  <2>1. quit' \in 0 .. Buffer
    BY <1>9 DEF SigtermSent, Receive, Types, ProperSettings
  <2>2. came' \in SUBSET Points /\ pc' \in Points
    BY <1>9 DEF SigtermSent, Receive, Types, Points
  <2>3. Types'
    BY <1>9, <2>1, <2>2 DEF SigtermSent, Receive, Types
  <2> QED
    BY <1>1, <1>2, <1>3, <1>4, <1>9, <2>3
    DEF SigtermSent, Receive, FirstListen, PoolsAreOpen, ClosesQuiet
<1>10. CASE Shutdown
  BY <1>1, <1>2, <1>3, <1>4, <1>10
  DEF Shutdown, Types, Points, FirstListen, PoolsAreOpen, ClosesQuiet
<1>11. CASE Drained \/ Timeout
  BY <1>1, <1>2, <1>3, <1>4, <1>11
  DEF Drained, Timeout, Types, Points, FirstListen, PoolsAreOpen, ClosesQuiet
<1> QED
  BY <1>5, <1>6, <1>7, <1>8, <1>9, <1>10, <1>11

\* Steps that open and close the pools.
LEMMA PoolStep ==
    ASSUME ServerInv, NEW d \in Dbs, Connect(d) \/ ClosePool(d)
    PROVE  ServerInv'
<1> USE DEF ServerInv, reqVars, sigVars
<1>1. TokensMatch'
  BY SameTokens DEF Inside, Connect, ClosePool
<1>2. Idle' = Idle /\ OnlyLateRequestsBreak' /\ Verdicts'
  BY DEF Idle, OnlyLateRequestsBreak, Connect, ClosePool, Verdicts,
         EarlySignalsAreLost, EarlySignalsArePending,
         NoMigrationRuns, Unbuffered, sigVars
<1>3. CASE Connect(d)
  BY <1>1, <1>2, <1>3
  DEF Connect, Types, Points, FirstListen, PoolsAreOpen, ClosesQuiet
<1>4. CASE ClosePool(d)
  BY <1>1, <1>2, <1>4
  DEF ClosePool, Types, Points, FirstListen, PoolsAreOpen, ClosesQuiet
<1> QED
  BY <1>3, <1>4

\* The process ends.
LEMMA EndStep ==
    ASSUME ProperSettings, ServerInv, SigtermKills \/ CloseConnections
    PROVE  ServerInv'
<1> USE DEF ServerInv, poolVars, sigVars
<1>1. CutOff /\ inside' = 0
  BY DEF SigtermKills, CloseConnections
<1>2. req' \in [Reqs -> Active \cup {"out", "answered", "broken"}]
      /\ Idle' /\ TokensMatch'
  BY <1>1, CutOffHolds
<1>3. inside' \in Nat /\ inside' <= MaxAllowed
  BY <1>1 DEF ProperSettings
<1>4. Types'
  BY <1>2, <1>3 DEF SigtermKills, CloseConnections, Types, Points
<1>5. OnlyLateRequestsBreak'
  <2>1. CASE SigtermKills
    BY <2>1 DEF SigtermKills, OnlyLateRequestsBreak
  <2>2. CASE CloseConnections /\ ~late
    BY <2>2 DEF CloseConnections, CutOff, ClosesQuiet, Idle, OnlyLateRequestsBreak
  <2>3. CASE CloseConnections /\ late
    BY <2>3 DEF CloseConnections, OnlyLateRequestsBreak
  <2> QED
    BY <2>1, <2>2, <2>3
<1>6. FirstListen' /\ PoolsAreOpen' /\ ClosesQuiet'
  BY <1>2 DEF SigtermKills, CloseConnections, FirstListen, PoolsAreOpen, ClosesQuiet
<1>7. Verdicts'
  BY DEF SigtermKills, BeforeNotify, CloseConnections, Verdicts, EarlySignalsAreLost,
         EarlySignalsArePending, NoMigrationRuns, Unbuffered
<1> QED
  BY <1>2, <1>4, <1>5, <1>6, <1>7

\* A request is accepted: the listener is up, so main does not close.
LEMMA AcceptStep ==
    ASSUME ServerInv, NEW r \in Reqs, Accept(r)
    PROVE  ServerInv'
<1> USE DEF ServerInv, poolVars, sigVars
<1>1. Inside' = Inside
  BY DEF Accept, Inside, Types
<1>2. TokensMatch'
  BY <1>1, SameTokens DEF Accept
<1>3. Types' /\ OnlyLateRequestsBreak'
  BY DEF Accept, Types, Active, OnlyLateRequestsBreak
<1>4. FirstListen' /\ PoolsAreOpen' /\ ClosesQuiet' /\ Verdicts'
  BY DEF Accept, FirstListen, PoolsAreOpen, ClosesQuiet,
         Verdicts, EarlySignalsAreLost, EarlySignalsArePending,
         NoMigrationRuns, Unbuffered, sigVars
<1> QED
  BY <1>2, <1>3, <1>4

\* A request gets its token.
LEMMA EnterStep ==
    ASSUME ProperSettings, ServerInv, NEW r \in Reqs, Enter(r)
    PROVE  ServerInv'
<1> USE DEF ServerInv, poolVars, sigVars
<1>1. Inside' = Inside \cup {r} /\ r \notin Inside
  BY DEF Enter, Inside, Types
<1>2. IsFiniteSet(Inside)
  BY FS_Subset DEF Inside, ProperSettings
<1>3. TokensMatch'
  BY <1>1, <1>2, FS_AddElement DEF Enter, TokensMatch
<1>4. Types' /\ OnlyLateRequestsBreak'
  BY DEF ProperSettings, Enter, Types, Active, OnlyLateRequestsBreak
<1>5. FirstListen' /\ PoolsAreOpen' /\ ClosesQuiet' /\ Verdicts'
  BY DEF Enter, FirstListen, PoolsAreOpen, ClosesQuiet, Idle, Active,
         Verdicts, EarlySignalsAreLost, EarlySignalsArePending,
         NoMigrationRuns, Unbuffered, sigVars
<1> QED
  BY <1>3, <1>4, <1>5

\* A request leaves; if it was broken, a pool was closed under it, and main
\* closes pools under requests only when Shutdown ran out of time.
LEMMA LeaveStep ==
    ASSUME ProperSettings, ServerInv, NEW r \in Reqs, Leave(r)
    PROVE  ServerInv'
<1> USE DEF ServerInv, poolVars, sigVars
<1>1. Inside' = Inside \ {r} /\ r \in Inside
  BY DEF Leave, Inside, Types
<1>2. IsFiniteSet(Inside)
  BY FS_Subset DEF Inside, ProperSettings
<1>3. Cardinality(Inside \ {r}) = Cardinality(Inside) - 1
      /\ Cardinality(Inside) \in Nat /\ Cardinality(Inside \ {r}) \in Nat
  BY <1>1, <1>2, FS_RemoveElement, FS_CardinalityType
<1>4. TokensMatch'
  BY <1>1, <1>3 DEF Leave, TokensMatch
<1>5. Types'
  BY <1>3 DEF ProperSettings, Leave, TokensMatch, Types, Active
<1>6. ~Idle
  BY DEF Leave, Idle, Active
<1>7. listener # "none" /\ pc \notin {"flags", "refused", "migrating", "connect"}
  BY <1>6 DEF FirstListen
<1>8. open # Dbs => late
  BY <1>6, <1>7 DEF PoolsAreOpen, ClosesQuiet, Types, Points
<1>9. OnlyLateRequestsBreak'
  BY <1>8 DEF Leave, OnlyLateRequestsBreak, Types
<1>10. FirstListen' /\ PoolsAreOpen' /\ ClosesQuiet' /\ Verdicts'
  BY <1>6, <1>7 DEF Leave, FirstListen, PoolsAreOpen, ClosesQuiet,
         Verdicts, EarlySignalsAreLost, EarlySignalsArePending,
         NoMigrationRuns, Unbuffered, sigVars
<1> QED
  BY <1>4, <1>5, <1>9, <1>10

-----------------------------------------------------------------------------
LEMMA StepHolds ==
    ASSUME ProperSettings, ServerInv, [Next]_vars
    PROVE  ServerInv'
<1>1. CASE UNCHANGED vars
  BY <1>1 DEF vars, poolVars, reqVars, sigVars, ServerInv, Types, TokensMatch, Inside,
              FirstListen, PoolsAreOpen, ClosesQuiet, OnlyLateRequestsBreak, Idle,
              Verdicts, EarlySignalsAreLost, EarlySignalsArePending,
         NoMigrationRuns, Unbuffered, sigVars
<1>2. CASE ParseFlags \/ GoListen \/ Notify \/ Wait \/ Listen
             \/ SigtermSent \/ Receive \/ Shutdown \/ Drained \/ Timeout
  <2>1. UNCHANGED reqVars
    BY <1>2 DEF ParseFlags, GoListen, Notify, Wait, Listen, SigtermSent, Receive,
                Shutdown, Drained, Timeout
  <2> QED
    BY <1>2, <2>1, MainStep
<1>3. CASE SigtermKills \/ CloseConnections
  BY <1>3, EndStep
<1>4. ASSUME NEW d \in Dbs, Connect(d) \/ ClosePool(d)
      PROVE  ServerInv'
  BY <1>4, PoolStep
<1>5. ASSUME NEW r \in Reqs, Accept(r) \/ Enter(r) \/ Leave(r)
      PROVE  ServerInv'
  BY <1>5, AcceptStep, EnterStep, LeaveStep
<1> QED
  BY <1>1, <1>2, <1>3, <1>4, <1>5 DEF Next, Main, Signal

LEMMA ServerCorrect == ProperSettings => (Spec => []ServerInv)
<1> SUFFICES ASSUME ProperSettings PROVE Spec => []ServerInv
  OBVIOUS
<1>1. Init => ServerInv
  BY InitHolds
<1>2. ServerInv /\ [Next]_vars => ServerInv'
  BY StepHolds
<1> QED
  BY <1>1, <1>2, PTL DEF Spec

\* The variables have their types, and the limiter never lets in more than
\* MaxAllowed requests or loses count of them.
THEOREM ServerTypes == ProperSettings => (Spec => []TypeOK)
<1> SUFFICES ASSUME ProperSettings PROVE Spec => []TypeOK
  OBVIOUS
<1>1. ServerInv => TypeOK
  BY DEF ProperSettings, ServerInv, Types, TypeOK
<1> QED
  BY <1>1, ServerCorrect, PTL

\* Whatever is accepted, queued or running when SIGTERM is caught is not cut
\* off by main before Shutdown's time is over.
THEOREM ShutdownIsGraceful == ProperSettings => (Spec => []OnlyLateRequestsBreak)
<1>1. ServerInv => OnlyLateRequestsBreak
  BY DEF ServerInv
<1> QED
  BY <1>1, ServerCorrect, PTL

\* As main makes the channel, SIGTERMs that come between Notify and the receive do
\* not stop it: it goes on to wait, and only one that comes then does.
THEOREM EarlySignalsStayLost ==
    ProperSettings /\ Unbuffered => (Spec => []EarlySignalsAreLost)
<1>1. ServerInv /\ Unbuffered => EarlySignalsAreLost
  BY DEF ServerInv, Verdicts
<1>2. CASE Unbuffered
  BY <1>1, <1>2, ServerCorrect, PTL
<1> QED
  BY <1>2

\* With a buffer of one signal or more, main would find such a SIGTERM in the
\* channel: the loss is the buffer's, not that of the order of the calls.
THEOREM BufferedSignalsAreKept ==
    ProperSettings /\ Buffer > 0 => (Spec => []EarlySignalsAreKept)
<1>1. ServerInv /\ Buffer > 0 => EarlySignalsAreKept
  BY DEF ServerInv, Verdicts, EarlySignalsArePending, EarlySignalsAreKept
<1>2. CASE Buffer > 0
  BY <1>1, <1>2, ServerCorrect, PTL
<1> QED
  BY <1>2

\* The flag set of gooseMain refuses every command line that leads to it.
THEOREM MigrateFlagIsRefused == ProperSettings => (Spec => []NoMigrationRuns)
<1>1. ServerInv => NoMigrationRuns
  BY DEF ServerInv, Verdicts
<1> QED
  BY <1>1, ServerCorrect, PTL
=============================================================================
