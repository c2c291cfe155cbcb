----------------------------- MODULE ServerProofs -----------------------------
(* Proofs about Server: types, the limits of the pool and of the channel,  *)
(* and the order in which the process opens and closes what requests use,  *)
(* for any number of requests, calls and connections.                      *)
EXTENDS Server, FiniteSetTheorems, TLAPS

Typed ==
    /\ main \in Mains
    /\ err \in BOOLEAN /\ signalled \in BOOLEAN
    /\ listener \in {"off", "starting", "open", "closed"}
    /\ errCh \in 0 .. 1
    /\ pool \in {"none", "open", "closing", "closed"}
    /\ ipGeo \in {"none", "open", "closed"}
    /\ req \in [Requests -> Request]

(* The goroutine is started once, and sends once as it ends.               *)
Opening == {"Load", "NewPool", "geoip.New", "storage.New", "Run"}
OneError ==
    /\ main \in Opening => listener = "off"
    /\ listener \in {"off", "starting", "open"} => errCh = 0

TypeInv == Typed /\ OneError /\ Cardinality(Holders) =< MaxConns

LEMMA FiniteHolders == IsFiniteSet(Holders)
BY ServerAssumption, FS_Subset DEF Holders

(* Nobody gets a connection: the number in use does not grow.              *)
LEMMA FewerHolders ==
    ASSUME Holders' \subseteq Holders
    PROVE  Cardinality(Holders') =< Cardinality(Holders)
BY FiniteHolders, FS_Subset

(* One request changes and does not get hold of a connection.              *)
LEMMA OneRequest ==
    ASSUME Typed, NEW r \in Requests, NEW q \in Request,
           req' = [req EXCEPT ![r] = q],
           q.pc = "statement" \/ q.tx => r \in Holders
    PROVE  /\ req' \in [Requests -> Request]
           /\ Holders' \subseteq Holders
BY DEF Typed, Holders, At

LEMMA InitTypeInv == Init => TypeInv
<1> SUFFICES ASSUME Init PROVE TypeInv
    OBVIOUS
<1>1. Holders = {}
      BY DEF Init, Holders, At, Idle
<1>2. Cardinality(Holders) =< MaxConns
      BY <1>1, FS_EmptySet, ServerAssumption
<1>3. Typed
  <2>1. Idle \in Request
        BY ServerAssumption DEF Idle, Request
  <2>2. req \in [Requests -> Request]
        BY <2>1 DEF Init
  <2>3. main \in Mains
        BY DEF Init, Mains
  <2>4. errCh \in 0 .. 1
        BY DEF Init
  <2> QED
      BY <2>2, <2>3, <2>4 DEF Init, Typed
<1> QED
    BY <1>2, <1>3 DEF Init, TypeInv, OneError

LEMMA NextTypeInv == TypeInv /\ [Next]_vars => TypeInv'
<1> SUFFICES ASSUME TypeInv, [Next]_vars PROVE TypeInv'
    OBVIOUS
<1> USE DEF TypeInv
<1> DEFINE Kept == /\ req' \in [Requests -> Request]
                   /\ Cardinality(Holders') =< MaxConns
<1>a. ASSUME UNCHANGED req PROVE Kept
      BY <1>a DEF Typed, Holders, At
<1>b. ASSUME NEW r \in Requests, NEW q \in Request, req' = [req EXCEPT ![r] = q],
             q.pc = "statement" \/ q.tx => r \in Holders
      PROVE  Kept
  <2>1. req' \in [Requests -> Request] /\ Holders' \subseteq Holders
        BY <1>b, OneRequest
  <2>2. Cardinality(Holders) \in Nat /\ Cardinality(Holders') \in Nat
        BY <2>1, FiniteHolders, FS_CardinalityType, FS_Subset
  <2> QED
      BY <2>1, <2>2, FewerHolders, ServerAssumption
<1>c. \A r \in Requests : req[r] \in Request
      BY DEF Typed
<1>d. ASSUME NEW r \in Requests, Quit(r) PROVE Kept
  <2>1. Idle \in Request /\ ~(Idle.pc = "statement" \/ Idle.tx)
        BY ServerAssumption DEF Idle, Request
  <2> QED
      BY <1>d, <2>1, <1>b DEF Quit
<1>1. CASE RunStep \/ Signal \/ Listen \/ ListenFails
  <2>1. UNCHANGED req
        BY <1>1
        DEF RunStep, Load, NewPool, NewGeoIP, NewStorage, Run, SelectErr, SelectDone,
            Drained, ShutdownTimeout, CloseGeoIP, ClosePool, PoolClosed, Exit,
            Proceed, Return, Signal, Listen, ListenFails
  <2>2. Typed' /\ OneError'
    <3>1. CASE Load \/ NewPool
          BY <3>1, <2>1 DEF Load, NewPool, Proceed, Return, Typed, OneError, Opening, Mains
    <3>2. CASE NewGeoIP \/ NewStorage
          BY <3>2, <2>1 DEF NewGeoIP, NewStorage, Proceed, Return, Typed, OneError, Opening, Mains
    <3>6. CASE Run \/ SelectDone
      <4>1. CASE Run
            BY <4>1, <2>1 DEF Run, Typed, OneError, Opening, Mains
      <4>2. CASE SelectDone
            BY <4>2, <2>1 DEF SelectDone, Typed, OneError, Opening, Mains
      <4> QED
          BY <3>6, <4>1, <4>2
    <3>8. CASE SelectErr
      <4>1. errCh' = 0
            BY <3>8 DEF SelectErr, Typed
      <4> QED
          BY <3>8, <2>1, <4>1 DEF SelectErr, Typed, OneError, Opening, Mains
    <3>7. CASE Drained \/ ShutdownTimeout
          BY <3>7, <2>1 DEF Drained, ShutdownTimeout, Proceed, Return, Typed, OneError, Opening, Mains
    <3>3. CASE CloseGeoIP \/ ClosePool \/ PoolClosed \/ Exit
          BY <3>3, <2>1 DEF CloseGeoIP, ClosePool, PoolClosed, Exit, Proceed, Typed,
                            OneError, Opening, Mains
    <3>4. CASE Signal
          BY <3>4, <2>1 DEF Signal, Typed, OneError, Opening, Mains
    <3>5. CASE Listen \/ ListenFails
          BY <3>5, <2>1 DEF Listen, ListenFails, Typed, OneError, Opening
    <3> QED
        BY <1>1, <3>1, <3>2, <3>3, <3>4, <3>5, <3>6, <3>7, <3>8 DEF RunStep
  <2> QED
      BY <2>1, <2>2, <1>a
<1>2. ASSUME NEW r \in Requests,
             \/ Accept(r) \/ Expire(r) \/ Handler(r) \/ StorageDone(r)
             \/ Acquire(r) \/ Answered(r) \/ Fail(r)
      PROVE  TypeInv'
  <2>1. Kept
    <3>1. CASE Accept(r)
      <4> DEFINE q == [pc |-> "handler", tx |-> FALSE, expired |-> FALSE, left |-> MaxCalls]
      <4>1. q \in Request
            BY ServerAssumption DEF Request
      <4> QED
          BY <3>1, <4>1, <1>b DEF Accept
    <3>2. CASE Expire(r)
      <4> DEFINE q == [req[r] EXCEPT !.expired = TRUE]
      <4>1. q \in Request /\ req' = [req EXCEPT ![r] = q]
            BY <3>2, <1>c DEF Expire, Request, Typed
      <4>2. q.pc = "statement" \/ q.tx => r \in Holders
            BY <1>c DEF Request, Holders, At
      <4> QED
          BY <4>1, <4>2, <1>b
    <3>3. ASSUME NEW pc \in {"storage", "acquire", "statement"}, Call(r, pc),
                 pc = "statement" => req[r].tx
          PROVE  Kept
      <4> DEFINE q == [req[r] EXCEPT !.pc = pc, !.left = req[r].left - 1]
      <4>3. req[r].left - 1 \in 0 .. MaxCalls
            BY <3>3, <1>c, ServerAssumption DEF Call, Request
      <4>1. q \in Request
            BY <3>3, <4>3, <1>c DEF Request
      <4>4. req' = [req EXCEPT ![r] = q]
            BY <3>3, <1>c DEF Call, Typed, Request
      <4>2. q.pc = "statement" \/ q.tx => r \in Holders
            BY <1>c, <3>3 DEF Request, Holders, At
      <4> QED
          BY <4>1, <4>4, <4>2, <1>b
    <3>4. CASE CallStorage(r) \/ Query(r)
          BY <3>3, <3>4 DEF CallStorage, Query
    <3>5. CASE Country(r)
      <4> DEFINE q == [req[r] EXCEPT !.left = @ - 1]
      <4>1. q \in Request /\ req' = [req EXCEPT ![r] = q]
            BY <3>5, <1>c, ServerAssumption DEF Country, Request, Typed
      <4>2. q.pc = "statement" \/ q.tx => r \in Holders
            BY <1>c DEF Request, Holders, At
      <4> QED
          BY <4>1, <4>2, <1>b
    <3>6. ASSUME NEW tx \in BOOLEAN, tx => req[r].tx,
                 req' = [req EXCEPT ![r] = [@ EXCEPT !.pc = "handler", !.tx = tx]]
          PROVE  Kept
      <4> DEFINE q == [req[r] EXCEPT !.pc = "handler", !.tx = tx]
      <4>1. q \in Request /\ req' = [req EXCEPT ![r] = q]
            BY <3>6, <1>c DEF Request, Typed
      <4>2. q.pc = "statement" \/ q.tx => r \in Holders
            BY <1>c, <3>6 DEF Request, Holders, At
      <4> QED
          BY <4>1, <4>2, <1>b
    <3>7. CASE StorageDone(r)
      <4>1. CASE Become(r, "handler")
        <5> DEFINE q == [req[r] EXCEPT !.pc = "handler"]
        <5>1. q \in Request /\ req' = [req EXCEPT ![r] = q]
              BY <4>1, <1>c DEF Become, Request, Typed
        <5>2. q.pc = "statement" \/ q.tx => r \in Holders
              BY <1>c DEF Request, Holders, At
        <5> QED
            BY <5>1, <5>2, <1>b
      <4> QED
          BY <3>7, <4>1, <1>d DEF StorageDone
    <3>8. CASE Acquire(r)
      <4>1. PICK begin \in BOOLEAN :
               req' = [req EXCEPT ![r] = [@ EXCEPT !.pc = "statement", !.tx = begin]]
            BY <3>8 DEF Acquire
      <4> DEFINE q == [req[r] EXCEPT !.pc = "statement", !.tx = begin]
      <4>2. q \in Request /\ req' = [req EXCEPT ![r] = q]
            BY <4>1, <1>c DEF Request, Typed
      <4>3. req' \in [Requests -> Request]
            BY <4>2 DEF Typed
      <4>4. Holders' \subseteq Holders \cup {r}
            BY <4>2 DEF Typed, Holders, At
      <4>5. /\ Cardinality(Holders \cup {r}) =< Cardinality(Holders) + 1
            /\ Cardinality(Holders) \in Nat
            /\ IsFiniteSet(Holders \cup {r})
            BY FiniteHolders, FS_AddElement, FS_CardinalityType
      <4>6. Cardinality(Holders') =< Cardinality(Holders \cup {r})
            BY <4>4, <4>5, FS_Subset
      <4>7. Cardinality(Holders') \in Nat /\ Cardinality(Holders \cup {r}) \in Nat
            BY <4>4, <4>5, FS_Subset, FS_CardinalityType
      <4>8. Cardinality(Holders) < MaxConns
            BY <3>8 DEF Acquire
      <4> QED
          BY <4>3, <4>5, <4>6, <4>7, <4>8, ServerAssumption
    <3>9. CASE Answered(r)
          BY <3>6, <3>9 DEF Answered
    <3>10. CASE Fail(r)
           BY <3>6, <3>10, <1>d DEF Fail
    <3>11. CASE Finish(r)
           BY <3>11, <1>d DEF Finish
    <3> QED
        BY <1>2, <3>1, <3>2, <3>4, <3>5, <3>7, <3>8, <3>9, <3>10, <3>11 DEF Handler
  <2>2. /\ UNCHANGED <<signalled, listener, errCh, pool, ipGeo>>
        /\ main' \in {main, "exited"} /\ err' \in BOOLEAN
        BY <1>2
        DEF Accept, Expire, Handler, CallStorage, Call, Country, Query, Finish, StorageDone,
            Acquire, Answered, Fail, process, Typed, Mains
  <2> QED
      BY <2>1, <2>2 DEF Typed, OneError, Opening, Mains
<1>3. CASE UNCHANGED vars
      BY <1>3, <1>a DEF vars, process, Typed, OneError, Opening
<1> QED
    BY <1>1, <1>2, <1>3 DEF Next

(* Types, the pool's limit and the channel's, for any number of requests.  *)
THEOREM TypeCorrect == Spec => []TypeOK
<1>1. TypeInv => TypeOK
      BY DEF TypeInv, Typed, TypeOK
<1> QED
    BY <1>1, InitTypeInv, NextTypeInv, PTL DEF Spec

-----------------------------------------------------------------------------

(* The order of main: what is open while requests may be in flight, and    *)
(* what is closed, with nobody left, on the way out without an error.      *)
Leaving == {"ipGeo.Close", "pool.Close", "closing", "stop", "exited"}

Order ==
    /\ main \in {"geoip.New", "storage.New", "Run", "select", "Shutdown", "ipGeo.Close"}
          => pool = "open"
    /\ main \notin Leaving \ {"ipGeo.Close"} => ipGeo # "closed"
    /\ listener = "off" => InFlight = {}
    /\ main = "Shutdown" => listener = "closed"
    /\ ~err /\ main \in Leaving => InFlight = {} /\ listener = "closed"
    /\ ~err /\ main \in Leaving \ {"ipGeo.Close"} => ipGeo # "open"
    /\ ~err /\ main \in {"stop", "exited"} => pool = "closed"

OrderInv == TypeInv /\ Order

LEMMA InitOrder == Init => Order
BY DEF Init, Order, InFlight, At, Idle, Leaving

(* Only Accept brings a request in.                                        *)
LEMMA NoneComesIn ==
    ASSUME Typed, NEW r \in Requests, r \in InFlight, NEW q,
           req' = [req EXCEPT ![r] = q]
    PROVE  InFlight' \subseteq InFlight
BY DEF Typed, InFlight, At

LEMMA NextOrder == OrderInv /\ [Next]_vars => Order'
<1> SUFFICES ASSUME OrderInv, [Next]_vars PROVE Order'
    OBVIOUS
<1> USE DEF OrderInv, TypeInv, Typed, OneError, Opening, Order, Leaving
<1>a. UNCHANGED req => UNCHANGED InFlight
      BY DEF InFlight, At
<1>1. CASE Load \/ NewPool
  <2>1. CASE Load
        BY <2>1, <1>a DEF Load, Proceed, Return
  <2>2. CASE NewPool
    <3>1. CASE Return("NewPool", "stop")
          BY <3>1, <1>a DEF Return
    <3>2. CASE Proceed("NewPool", "geoip.New") /\ pool' = "open" /\ UNCHANGED ipGeo
          BY <3>2, <1>a DEF Proceed
    <3> QED
        BY <2>2, <3>1, <3>2 DEF NewPool
  <2> QED
      BY <1>1, <2>1, <2>2
<1>2. CASE NewGeoIP \/ NewStorage
      BY <1>2, <1>a DEF NewGeoIP, NewStorage, Proceed, Return
<1>3. CASE Run
      BY <1>3, <1>a DEF Run
<1>4. CASE SelectErr \/ SelectDone
      BY <1>4, <1>a DEF SelectErr, SelectDone
<1>5. CASE Drained \/ ShutdownTimeout
      BY <1>5, <1>a DEF Drained, ShutdownTimeout, Quiet, Proceed, Return
<1>6. CASE CloseGeoIP \/ ClosePool
      BY <1>6, <1>a DEF CloseGeoIP, ClosePool, Proceed
<1>7. CASE PoolClosed \/ Exit
      BY <1>7, <1>a DEF PoolClosed, Exit, Proceed
<1>8. CASE Signal
      BY <1>8, <1>a DEF Signal
<1>9. CASE Listen \/ ListenFails
      BY <1>9, <1>a DEF Listen, ListenFails
<1>10. ASSUME NEW r \in Requests, Accept(r) PROVE Order'
  <2>1. listener = "open" /\ main # "exited" /\ UNCHANGED <<process, pool, ipGeo>>
        BY <1>10 DEF Accept, Running
  <2> QED
      BY <2>1 DEF process
<1>11. ASSUME NEW r \in Requests,
              \/ Expire(r) \/ CallStorage(r) \/ Query(r) \/ Finish(r)
              \/ StorageDone(r) \/ Acquire(r) \/ Answered(r) \/ Fail(r) \/ Country(r)
       PROVE  Order'
  <2>1. r \in InFlight
        BY <1>11 DEF Expire, TimesOut, CallStorage, Query, Call, Finish, StorageDone, Acquire,
                     Answered, Fail, Country, InFlight, At
  <2>2. \E q : req' = [req EXCEPT ![r] = q]
    <3>1. CASE Expire(r) \/ CallStorage(r) \/ Query(r) \/ Country(r)
          BY <3>1 DEF Expire, CallStorage, Query, Call, Country
    <3>2. CASE Finish(r) \/ StorageDone(r)
          BY <3>2 DEF Finish, StorageDone, Quit, Become
    <3>3. CASE Acquire(r) \/ Answered(r) \/ Fail(r)
          BY <3>3 DEF Acquire, Answered, Fail, Quit
    <3> QED
        BY <1>11, <3>1, <3>2, <3>3
  <2>3. InFlight' \subseteq InFlight
        BY <2>1, <2>2, NoneComesIn
  <2>4. /\ UNCHANGED <<signalled, listener, errCh, pool, ipGeo>>
        /\ UNCHANGED <<main, err>> \/ err'
        BY <1>11 DEF Expire, CallStorage, Query, Call, Finish, StorageDone, Acquire,
                     Answered, Fail, Country, process
  <2>5. CASE UNCHANGED <<main, err>>
        BY <2>3, <2>4, <2>5
  <2>6. CASE err' /\ main' = "exited"
        BY <2>3, <2>4, <2>6
  <2> QED
      BY <1>11, <2>4, <2>5, <2>6
      DEF Expire, CallStorage, Query, Call, Finish, StorageDone, Acquire,
          Answered, Fail, Country, process
<1>12. CASE UNCHANGED vars
       BY <1>12, <1>a DEF vars, process
<1> QED
    BY <1>1, <1>2, <1>3, <1>4, <1>5, <1>6, <1>7, <1>8, <1>9, <1>10, <1>11, <1>12
    DEF Next, RunStep, Handler

(* As long as run() has no error to return, pool and GeoIP database are    *)
(* there for every request; and if it returns none, every request has been *)
(* answered and everything is closed.                                      *)
THEOREM DrainedBeforeClosed == Spec => []ResourcesOutliveRequests
<1>1. OrderInv => ResourcesOutliveRequests
      BY DEF OrderInv, TypeInv, Typed, OneError, Opening, Order, Leaving, Mains,
             ResourcesOutliveRequests
<1>2. Init => OrderInv
      BY InitTypeInv, InitOrder DEF OrderInv
<1>3. OrderInv /\ [Next]_vars => OrderInv'
      BY NextTypeInv, NextOrder DEF OrderInv
<1> QED
    BY <1>1, <1>2, <1>3, PTL DEF Spec
=============================================================================
