-------------------------------- MODULE Server --------------------------------
(***************************************************************************)
(* The life of the server process (cmd/server/main.go, internal/server):   *)
(* it opens its resources one after the other, serves requests, and when   *)
(* it is told to stop drains them and closes what it opened.               *)
(*                                                                         *)
(* Requests are seen from the pool of database connections: which of them  *)
(* hold one, and for how long.  There is no clock; a timer may fire at any *)
(* moment, and fairness says that it fires in the end.                     *)
(***************************************************************************)
EXTENDS Naturals, FiniteSets

CONSTANTS
    Requests,   \* slots for requests in flight
    MaxConns,   \* connections of the pool
    MaxCalls    \* bound: calls to database, storage and GeoIP per request

ASSUME ServerAssumption ==
    IsFiniteSet(Requests) /\ MaxConns \in Nat \ {0} /\ MaxCalls \in Nat

VARIABLES
    main,       \* what run() does next
    err,        \* whether run() returns an error
    signalled,  \* SIGINT or SIGTERM has cancelled ctx
    listener,   \* the goroutine of ListenAndServe
    errCh,      \* errors in the channel between the two
    pool,       \* the pgx pool
    ipGeo,      \* the GeoIP database
    req         \* the request in each slot

process == <<main, err, signalled, listener, errCh>>
vars == <<process, pool, ipGeo, req>>

Mains == {"Load", "NewPool", "geoip.New", "storage.New", "Run", "select",
          "Shutdown", "ipGeo.Close", "pool.Close", "closing", "stop", "exited"}

(* tx: the connection is kept for a transaction.  expired: its context is  *)
(* cancelled.  left: calls it may still make.                              *)
Request == [pc : {"idle", "handler", "storage", "acquire", "statement"},
            tx : BOOLEAN, expired : BOOLEAN, left : 0 .. MaxCalls]
Idle == [pc |-> "idle", tx |-> FALSE, expired |-> FALSE, left |-> 0]

At(r, pc) == req[r].pc = pc
InFlight == {r \in Requests : ~At(r, "idle")}

(* Who holds a connection: a statement runs, or a transaction is open.     *)
Holders == {r \in Requests : At(r, "statement") \/ req[r].tx}

Running == main # "exited"

-----------------------------------------------------------------------------
(* main.go: start.  An error returns at once, and what was opened is       *)
(* closed in reverse order.                                                *)

Init ==
    /\ main = "Load" /\ err = FALSE /\ signalled = FALSE
    /\ listener = "off" /\ errCh = 0
    /\ pool = "none" /\ ipGeo = "none"
    /\ req = [r \in Requests |-> Idle]

Proceed(from, to) ==
    /\ main = from
    /\ main' = to
    /\ UNCHANGED <<err, signalled, listener, errCh, req>>

Return(from, to) ==
    /\ main = from
    /\ main' = to /\ err' = TRUE
    /\ UNCHANGED <<signalled, listener, errCh, pool, ipGeo, req>>

Load ==
    \/ Proceed("Load", "NewPool") /\ UNCHANGED <<pool, ipGeo>>
    \/ Return("Load", "exited")

(* The Ping may still succeed as the signal comes.                         *)
NewPool ==
    \/ Proceed("NewPool", "geoip.New") /\ pool' = "open" /\ UNCHANGED ipGeo
    \/ Return("NewPool", "stop")

(* Without a path the resolver is disabled.                                *)
NewGeoIP ==
    \/ /\ Proceed("geoip.New", "storage.New")
       /\ ipGeo' \in {"none", "open"} /\ UNCHANGED pool
    \/ Return("geoip.New", "pool.Close")

NewStorage ==
    \/ Proceed("storage.New", "Run") /\ UNCHANGED <<pool, ipGeo>>
    \/ Return("storage.New", "ipGeo.Close")

(* server.go, Run: the listener gets a goroutine of its own.               *)
Run ==
    /\ main = "Run"
    /\ main' = "select" /\ listener' = "starting"
    /\ UNCHANGED <<err, signalled, errCh, pool, ipGeo, req>>

-----------------------------------------------------------------------------
(* server.go: serve and shut down.                                         *)

(* NotifyContext takes the signal from its creation until stop; before and *)
(* after, a signal kills the process.                                      *)
Signal ==
    /\ Running /\ ~signalled
    /\ signalled' = TRUE
    /\ main' = IF main \in {"Load", "stop"} THEN "exited" ELSE main
    /\ err' = (err \/ main \in {"Load", "stop"})
    /\ UNCHANGED <<listener, errCh, pool, ipGeo, req>>

(* Shutdown makes ListenAndServe return ErrServerClosed, also if it had    *)
(* not begun to listen.  Any other error goes into the channel, whose      *)
(* buffer of one takes it even when nobody will read it.                   *)
MutListensAgain ==
    /\ Running /\ listener \in {"starting", "open"}
    /\ errCh' = errCh + 1
    /\ UNCHANGED <<main, err, signalled, listener, pool, ipGeo, req>>
ListenFails ==
    /\ Running /\ listener \in {"starting", "open"}
    /\ listener' = "closed" /\ errCh' = errCh + 1
    /\ UNCHANGED <<main, err, signalled, pool, ipGeo, req>>

Listen ==
    /\ Running /\ listener = "starting"
    /\ listener' = "open"
    /\ UNCHANGED <<main, err, signalled, errCh, pool, ipGeo, req>>

SelectErr ==
    /\ main = "select" /\ errCh > 0
    /\ errCh' = errCh - 1 /\ err' = TRUE
    /\ main' = "ipGeo.Close"
    /\ UNCHANGED <<signalled, listener, pool, ipGeo, req>>

SelectDone ==
    /\ main = "select" /\ signalled
    /\ listener' = "closed"
    /\ main' = "Shutdown"
    /\ UNCHANGED <<err, signalled, errCh, pool, ipGeo, req>>

(* Shutdown waits for the requests in flight, but no longer than           *)
(* shutdownTO: then run() returns its error and closes under their hands.  *)
MutNoDrain == TRUE
Quiet == InFlight = {}

Drained == Quiet /\ Proceed("Shutdown", "ipGeo.Close") /\ UNCHANGED <<pool, ipGeo>>

ShutdownTimeout == Return("Shutdown", "ipGeo.Close")

-----------------------------------------------------------------------------
(* main.go: the deferred calls.                                            *)

CloseGeoIP ==
    /\ Proceed("ipGeo.Close", "pool.Close")
    /\ ipGeo' = IF ipGeo = "open" THEN "closed" ELSE ipGeo
    /\ UNCHANGED pool

(* pgxpool gives no more connections and waits for those that are out.     *)
ClosePool ==
    /\ Proceed("pool.Close", "closing")
    /\ pool' = "closing"
    /\ UNCHANGED ipGeo

PoolClosed ==
    /\ Holders = {}
    /\ Proceed("closing", "stop")
    /\ pool' = "closed"
    /\ UNCHANGED ipGeo

(* The end of main, or os.Exit(1): whatever is still at work is cut off.   *)
Exit == Proceed("stop", "exited") /\ UNCHANGED <<pool, ipGeo>>

-----------------------------------------------------------------------------
(* Requests.                                                               *)

Become(r, pc) == req' = [req EXCEPT ![r].pc = pc]
Quit(r) == req' = [req EXCEPT ![r] = Idle]

Accept(r) ==
    /\ Running /\ listener = "open" /\ At(r, "idle")
    /\ req' = [req EXCEPT ![r] = [pc |-> "handler", tx |-> FALSE,
                                  expired |-> FALSE, left |-> MaxCalls]]
    /\ UNCHANGED <<process, pool, ipGeo>>

(* middleware.Timeout cancels the context; nothing else does when the      *)
(* server shuts down.                                                      *)
MutNoTimeout(r) == FALSE
TimesOut(r) == ~At(r, "idle") /\ ~req[r].expired

Expire(r) ==
    /\ Running /\ TimesOut(r)
    /\ req' = [req EXCEPT ![r].expired = TRUE]
    /\ UNCHANGED <<process, pool, ipGeo>>

(* The handler calls one thing after the other: a Put or a Delete of an    *)
(* object (outside transactions), ...                                      *)
Call(r, pc) ==
    /\ Running /\ At(r, "handler") /\ req[r].left > 0
    /\ req' = [req EXCEPT ![r] = [@ EXCEPT !.pc = pc, !.left = req[r].left - 1]]
    /\ UNCHANGED <<process, pool, ipGeo>>

CallStorage(r) == ~req[r].tx /\ Call(r, "storage")

StorageDone(r) ==
    /\ Running /\ At(r, "storage")
    /\ Become(r, "handler") \/ Quit(r)
    /\ UNCHANGED <<process, pool, ipGeo>>

(* ... a lookup in the GeoIP database (SendCode), which runs into unmapped *)
(* memory if that is closed: an error, or the end of the process, ...      *)
Country(r) ==
    /\ Running /\ At(r, "handler") /\ ~req[r].tx /\ req[r].left > 0
    /\ req' = [req EXCEPT ![r].left = @ - 1]
    /\ \/ UNCHANGED process
       \/ /\ ipGeo = "closed"
          /\ main' = "exited" /\ err' = TRUE
          /\ UNCHANGED <<signalled, listener, errCh>>
    /\ UNCHANGED <<pool, ipGeo>>

(* ... a statement on a connection of its own or of its transaction.       *)
Query(r) == Call(r, IF req[r].tx THEN "statement" ELSE "acquire")

Acquire(r) ==
    /\ Running /\ At(r, "acquire")
    /\ pool = "open" /\ Cardinality(Holders) < MaxConns /\ ~req[r].expired
    /\ \E begin \in BOOLEAN :
         req' = [req EXCEPT ![r] = [@ EXCEPT !.pc = "statement", !.tx = begin]]
    /\ UNCHANGED <<process, pool, ipGeo>>

(* The database answers, in its own time; COMMIT ends a transaction.       *)
Answered(r) ==
    /\ Running /\ At(r, "statement")
    /\ \E tx \in BOOLEAN :
         /\ tx => req[r].tx
         /\ req' = [req EXCEPT ![r] = [@ EXCEPT !.pc = "handler", !.tx = tx]]
    /\ UNCHANGED <<process, pool, ipGeo>>

(* A statement or the wait for a connection fails: by itself, because the  *)
(* context is cancelled, or because the pool is closed.  Every path        *)
(* through inTx, a panic included, ends in Rollback and gives the          *)
(* connection back.  Some errors are ignored and the handler goes on.      *)
MustFail(r) ==
    \/ At(r, "acquire") /\ (req[r].expired \/ pool # "open")
    \/ At(r, "statement") /\ req[r].expired

Fail(r) ==
    /\ Running /\ req[r].pc \in {"acquire", "statement"}
    /\ \/ Quit(r)
       \/ req' = [req EXCEPT ![r] = [@ EXCEPT !.pc = "handler", !.tx = FALSE]]
    /\ UNCHANGED <<process, pool, ipGeo>>

(* The answer is written; an open transaction is rolled back.              *)
Finish(r) ==
    /\ Running /\ At(r, "handler")
    /\ Quit(r)
    /\ UNCHANGED <<process, pool, ipGeo>>

-----------------------------------------------------------------------------

RunStep ==
    \/ Load \/ NewPool \/ NewGeoIP \/ NewStorage \/ Run
    \/ SelectErr \/ SelectDone \/ Drained \/ ShutdownTimeout
    \/ CloseGeoIP \/ ClosePool \/ PoolClosed \/ Exit

Handler(r) ==
    CallStorage(r) \/ Country(r) \/ Query(r) \/ Finish(r)

Next ==
    \/ RunStep \/ Signal \/ Listen \/ ListenFails
    \/ \E r \in Requests :
         \/ Accept(r) \/ Expire(r) \/ Handler(r) \/ StorageDone(r)
         \/ Acquire(r) \/ Answered(r) \/ Fail(r)

Spec == Init /\ [][Next]_vars

(* The goroutine of run() goes on when it can, the timers fire, and a      *)
(* handler goes on between its calls and after a call that has to fail.    *)
(* Nothing is expected of database, storage, clients and signals.          *)
Fairness ==
    /\ WF_vars(RunStep)
    /\ \A r \in Requests :
         /\ WF_vars(Expire(r))
         /\ WF_vars(Handler(r))
         /\ WF_vars(MustFail(r) /\ Fail(r))

FairSpec == Spec /\ Fairness

-----------------------------------------------------------------------------
(* Properties.                                                             *)

(* Every variable holds values of its type; the channel never needs more   *)
(* than its buffer, the pool never hands out more than it has.             *)
TypeOK ==
    /\ main \in Mains
    /\ err \in BOOLEAN /\ signalled \in BOOLEAN
    /\ listener \in {"off", "starting", "open", "closed"}
    /\ errCh \in 0 .. 1
    /\ pool \in {"none", "open", "closing", "closed"}
    /\ ipGeo \in {"none", "open", "closed"}
    /\ req \in [Requests -> Request]
    /\ Cardinality(Holders) =< MaxConns

(* Pool and GeoIP database outlive the requests that use them, and a       *)
(* process that reports success has answered all it accepted and closed    *)
(* what it opened.  Only where run() returns an error (shutdownTO is over, *)
(* the listener failed) may a request find them closed or be cut off.      *)
ResourcesOutliveRequests ==
    /\ ~err /\ InFlight # {} => pool = "open" /\ ipGeo # "closed"
    /\ ~err /\ main = "exited" =>
         /\ InFlight = {} /\ listener = "closed"
         /\ pool = "closed" /\ ipGeo # "open"

(* A signal ends the process, although statements may hang, requests may   *)
(* overrun shutdownTO and pool.Close waits for every connection: the       *)
(* timeout of the router sees to it.                                       *)
SignalStops == signalled ~> main = "exited"
=============================================================================
