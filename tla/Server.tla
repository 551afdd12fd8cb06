-------------------------------- MODULE Server --------------------------------
(***************************************************************************)
(* The life of the process: main.go (command line, global connections, the  *)
(* listener's goroutine, SIGTERM, Shutdown, the deferred closing) and the   *)
(* entry of goose.go.                                                       *)
(*                                                                         *)
(* net/http, os/signal and gin-limit are external, modelled as main uses    *)
(* them.  A request is what Handler models; here it only lasts and needs    *)
(* the pools.  SIGTERMs come at any time, any number of them.               *)
(***************************************************************************)
EXTENDS Integers, FiniteSets

CONSTANTS
    Dbs,         \* GetConnectionSettingNames
    Reqs,        \* the requests clients send
    MaxAllowed,  \* of limit.MaxAllowed
    Buffer,      \* the capacity of quit, the channel of signals: make has none
    Flags        \* the flags a command line may have

MainFlags  == {"migrate"}
GooseFlags == {"dir"}

\* What main.go gives these constants: 40, and finitely many requests.
ProperSettings == MaxAllowed \in Nat \ {0} /\ IsFiniteSet(Reqs) /\ Buffer \in Nat

\* main.go:87, make(chan os.Signal).
Unbuffered == Buffer = 0

Active == {"queued", "running"}

VARIABLES
    given,    \* the flags before the first operand of the command line
    pc,       \* where main is
    open,     \* the databases whose global pool is open
    redis,    \* the connections of lib_redis are open
    listener, \* the goroutine of ListenAndServe
    quit,     \* the number of signals in the channel
    came,     \* history: where main was when a SIGTERM came
    inside,   \* requests the limiter has let in and not seen leave
    req,      \* what became of each request
    late      \* Shutdown ran out of its time

poolVars == <<open, redis>>
sigVars  == <<quit, came>>
reqVars  == <<inside, req>>
vars == <<given, pc, poolVars, listener, sigVars, reqVars, late>>

Init ==
    /\ given \in SUBSET Flags
    /\ pc = "flags" /\ listener = "none" /\ quit = 0 /\ came = {} /\ late = FALSE
    /\ open = {} /\ redis = TRUE
    /\ inside = 0
    /\ req = [r \in Reqs |-> "out"]

\* The process is gone, and with it the requests under way.
CutOff == req' = [r \in Reqs |-> IF req[r] \in Active THEN "broken" ELSE req[r]]

-----------------------------------------------------------------------------
(* main, up to its wait for the signal                                     *)

\* A FlagSet with ExitOnError accepts a command line of flags it defines.
Parses(defined) == given \subseteq defined

\* gooseMain parses the same words again, with a FlagSet of its own.
gooseMain == pc' = IF Parses(GooseFlags) THEN "migrating" ELSE "refused"

ParseFlags ==
    /\ pc = "flags"
    /\ IF ~Parses(MainFlags) THEN pc' = "refused"
       ELSE IF "migrate" \in given THEN gooseMain
       ELSE pc' = "connect"
    /\ UNCHANGED <<given, poolVars, listener, sigVars, reqVars, late>>

\* A pool opens, or main returns and the deferred function runs.
Connect(d) ==
    /\ pc = "connect" /\ d \notin open
    /\ \/ open' = open \cup {d} /\ UNCHANGED pc
       \/ pc' = "close" /\ UNCHANGED open
    /\ UNCHANGED <<given, redis, listener, sigVars, reqVars, late>>

GoListen ==
    /\ pc = "connect" /\ open = Dbs
    /\ pc' = "listen" /\ listener' = "starting"
    /\ UNCHANGED <<given, poolVars, sigVars, reqVars, late>>

Notify ==
    /\ pc = "listen"
    /\ pc' = "notified"
    /\ UNCHANGED <<given, poolVars, listener, sigVars, reqVars, late>>

\* main comes to the receive from quit.
Wait ==
    /\ pc = "notified"
    /\ pc' = "wait"
    /\ UNCHANGED <<given, poolVars, listener, sigVars, reqVars, late>>

\* ListenAndServe gets its port, or does not, or finds Shutdown under way.
Listen ==
    /\ listener = "starting"
    /\ listener' \in IF pc \in {"drain", "close"} THEN {"down"} ELSE {"up", "down"}
    /\ UNCHANGED <<given, pc, poolVars, sigVars, reqVars, late>>

-----------------------------------------------------------------------------
(* SIGTERM and the shutdown                                                *)

\* Nothing has asked os/signal for the signal yet.  (A main that closes and
\* never came to listen could not connect.)
BeforeNotify == \/ pc \in {"flags", "connect", "listen"}
                \/ pc = "close" /\ listener = "none"

SigtermKills ==
    /\ BeforeNotify
    /\ came' = came \cup {pc}
    /\ pc' = "killed" /\ listener' = "none"
    /\ inside' = 0 /\ CutOff
    /\ UNCHANGED <<given, poolVars, quit, late>>

AfterNotify == \/ pc \in {"notified", "wait", "shutdown", "drain"}
               \/ pc = "close" /\ listener # "none"

\* os/signal sends without waiting: to main if it is receiving, else into the
\* channel if it has room, else nowhere.
SigtermSent ==
    /\ AfterNotify
    /\ came' = came \cup {pc}
    /\ IF pc = "wait" THEN pc' = "shutdown" /\ UNCHANGED quit
       ELSE quit' = (IF quit < Buffer THEN quit + 1 ELSE quit) /\ UNCHANGED pc
    /\ UNCHANGED <<given, poolVars, listener, reqVars, late>>

\* main receives a signal that is in the channel already.
Receive ==
    /\ pc = "wait" /\ quit > 0
    /\ quit' = quit - 1 /\ pc' = "shutdown"
    /\ UNCHANGED <<given, poolVars, listener, came, reqVars, late>>

\* Shutdown closes the listener.
Shutdown ==
    /\ pc = "shutdown"
    /\ pc' = "drain"
    /\ listener' = IF listener = "up" THEN "down" ELSE listener
    /\ UNCHANGED <<given, poolVars, sigVars, reqVars, late>>

Idle == \A r \in Reqs : req[r] \notin Active

\* Shutdown returns when no connection is active any more ...
Drained ==
    /\ pc = "drain" /\ Idle
    /\ pc' = "close"
    /\ UNCHANGED <<given, poolVars, listener, sigVars, reqVars, late>>

\* ... or when the context's 10 seconds are over.
Timeout ==
    /\ pc = "drain" /\ ~Idle
    /\ pc' = "close" /\ late' = TRUE
    /\ UNCHANGED <<given, poolVars, listener, sigVars, reqVars>>

\* The deferred function of main, pool by pool, then Redis.
ClosePool(d) ==
    /\ pc = "close" /\ d \in open
    /\ open' = open \ {d}
    /\ UNCHANGED <<given, pc, redis, listener, sigVars, reqVars, late>>

CloseConnections ==
    /\ pc = "close" /\ open = {}
    /\ redis' = FALSE /\ pc' = "end" /\ listener' = "none"
    /\ inside' = 0 /\ CutOff
    /\ UNCHANGED <<given, open, sigVars, late>>

-----------------------------------------------------------------------------
(* The requests                                                            *)

\* The server accepts a request; it waits for its turn in the limiter.
Accept(r) ==
    /\ listener = "up" /\ req[r] = "out"
    /\ req' = [req EXCEPT ![r] = "queued"]
    /\ UNCHANGED <<given, pc, poolVars, listener, sigVars, inside, late>>

Enter(r) ==
    /\ req[r] = "queued" /\ inside < MaxAllowed
    /\ req' = [req EXCEPT ![r] = "running"]
    /\ inside' = inside + 1
    /\ UNCHANGED <<given, pc, poolVars, listener, sigVars, late>>

\* The request ends.  When a pool it needs was closed it ends with an error.
Leave(r) ==
    /\ req[r] = "running"
    /\ \/ req' = [req EXCEPT ![r] = "answered"]
       \/ open # Dbs /\ req' = [req EXCEPT ![r] = "broken"]
    /\ inside' = inside - 1
    /\ UNCHANGED <<given, pc, poolVars, listener, sigVars, late>>

-----------------------------------------------------------------------------
Main == \/ ParseFlags \/ GoListen \/ Notify \/ Wait \/ Receive \/ Shutdown \/ Drained \/ Timeout
        \/ CloseConnections
        \/ \E d \in Dbs : Connect(d) \/ ClosePool(d)

Signal == SigtermKills \/ SigtermSent

Next == \/ Main \/ Listen \/ Signal
        \/ \E r \in Reqs : Accept(r) \/ Enter(r) \/ Leave(r)

Spec == Init /\ [][Next]_vars

-----------------------------------------------------------------------------
(* Properties                                                              *)

Points == {"flags", "refused", "migrating", "connect", "listen", "notified", "wait",
           "shutdown", "drain", "close", "end", "killed"}

\* The variables have their types; the limiter keeps to its number.
TypeOK ==
    /\ given \in SUBSET Flags /\ pc \in Points
    /\ open \in SUBSET Dbs /\ redis \in BOOLEAN
    /\ listener \in {"none", "starting", "up", "down"}
    /\ quit \in 0 .. Buffer /\ came \in SUBSET Points
    /\ inside \in 0 .. MaxAllowed
    /\ req \in [Reqs -> Active \cup {"out", "answered", "broken"}]
    /\ late \in BOOLEAN

\* The shutdown is graceful (main.go:90): a request that was accepted, the ones
\* still in the queue of the limiter included, loses its pools or its process
\* only when Shutdown's 10 seconds are over, or to a SIGTERM that comes before
\* main asks for it.
OnlyLateRequestsBreak ==
    (\E r \in Reqs : req[r] = "broken") => late \/ pc = "killed"

\* Whether main hears a SIGTERM that comes between signal.Notify and the receive
\* depends on the channel.  As it is (Unbuffered), main goes on waiting however many
\* such signals come, until one comes while it waits, although main.go:86 says it
\* monitors the signals ...
EarlySignalsAreLost ==
    "notified" \in came /\ "wait" \notin came => pc \in {"notified", "wait"}

\* ... and with room for one signal, as os/signal asks for, main never waits after
\* such a signal without finding it in the channel.
EarlySignalsAreKept ==
    "notified" \in came /\ pc = "wait" => quit > 0

\* No command line leads to the migrations that -migrate asks for (main.go:23).
NoMigrationRuns == pc # "migrating"
=============================================================================
