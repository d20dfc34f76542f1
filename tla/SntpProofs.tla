---------------------------- MODULE SntpProofs ----------------------------
(***************************************************************************)
(* Proofs about Sntp, for any servers, lists, answers, limits and bounds.  *)
(***************************************************************************)
EXTENDS Sntp, FiniteSetTheorems, TLAPS

TypeOK ==
  /\ on \in BOOLEAN /\ timer \in BOOLEAN /\ again \in BOOLEAN
  /\ cookie \in Nat /\ sends \in Nat /\ exchanges \in Nat
  /\ results \in Nat /\ relooks \in Nat /\ memerrs \in Nat
  /\ IsFiniteSet(lookups)

\* None of the exceptions of OneDriver has occurred.
Good == mishaps = {} /\ ~again

\* Without an exchange its fields are as state_init() sets them.
IdleInv ==
  /\ ~on => server_pos = -1 /\ cookie = 0 /\ best = Null /\ taken = {} /\ ~timer
  /\ on => exchanges > 0

\* While names are looked up no server is being asked, so that no answer is
\* taken.
DriverInv ==
  /\ OneDriver
  /\ Good /\ (lookups # {} \/ relooks > 0) => server_pos = -1

\* The cookie in use was given to a request of this exchange, if to any.
RequestInv ==
  /\ cookie <= sends
  /\ \A q \in net : /\ q.cookie \in 1..sends
                    /\ q.exchange \in 1..exchanges
                    /\ q.cookie = cookie => q.exchange = exchanges

AnswerInv ==
  /\ BestIsBest
  /\ best.delay \in Nat
  /\ \A a \in taken : a.delay \in Nat

IInv == TypeOK /\ IdleInv /\ DriverInv /\ RequestInv /\ AnswerInv

-----------------------------------------------------------------------------
(* What drives an exchange on. *)

\* One driver at most: of the five kinds, when there is one there is no other.
LEMMA OnlyDriver ==
  ASSUME TypeOK, DriverInv, Good
  PROVE  /\ timer => on /\ lookups = {} /\ results = 0 /\ relooks = 0 /\ memerrs = 0
         /\ lookups # {} => on /\ ~timer /\ Cardinality(lookups) = 1 /\ results = 0 /\ relooks = 0 /\ memerrs = 0
         /\ results > 0 => on /\ ~timer /\ lookups = {} /\ results = 1 /\ relooks = 0 /\ memerrs = 0
         /\ relooks > 0 => on /\ ~timer /\ lookups = {} /\ results = 0 /\ relooks = 1 /\ memerrs = 0
         /\ memerrs > 0 => on /\ ~timer /\ lookups = {} /\ results = 0 /\ relooks = 0 /\ memerrs = 1
         /\ ~on => ~timer /\ lookups = {} /\ results = 0 /\ relooks = 0 /\ memerrs = 0
         /\ on => timer \/ lookups # {} \/ results > 0 \/ relooks > 0 \/ memerrs > 0
<1> DEFINE c == Cardinality(lookups)
<1>1. c \in Nat /\ (c = 0 <=> lookups = {}) BY FS_CardinalityType, FS_EmptySet DEF TypeOK
<1>2. b2n(timer) + c + results + relooks + memerrs = b2n(on) BY DEF DriverInv, OneDriver, Good, Drivers
<1>3. /\ b2n(timer) \in {0, 1} /\ b2n(on) \in {0, 1}
      /\ b2n(timer) = 1 <=> timer
      /\ b2n(on) = 1 <=> on
  BY DEF b2n
<1> HIDE DEF c
<1>4. results \in Nat /\ relooks \in Nat /\ memerrs \in Nat BY DEF TypeOK
<1>5. b2n(on) # 0 => b2n(on) = 1 BY <1>3
<1>6. /\ b2n(timer) = 1 => b2n(on) = 1 /\ c = 0 /\ results = 0 /\ relooks = 0 /\ memerrs = 0
      /\ c # 0 => b2n(on) = 1 /\ b2n(timer) = 0 /\ c = 1 /\ results = 0 /\ relooks = 0 /\ memerrs = 0
      /\ results > 0 => b2n(on) = 1 /\ b2n(timer) = 0 /\ c = 0 /\ results = 1 /\ relooks = 0 /\ memerrs = 0
      /\ relooks > 0 => b2n(on) = 1 /\ b2n(timer) = 0 /\ c = 0 /\ results = 0 /\ relooks = 1 /\ memerrs = 0
      /\ memerrs > 0 => b2n(on) = 1 /\ b2n(timer) = 0 /\ c = 0 /\ results = 0 /\ relooks = 0 /\ memerrs = 1
      /\ b2n(on) = 0 => b2n(timer) = 0 /\ c = 0 /\ results = 0 /\ relooks = 0 /\ memerrs = 0
      /\ b2n(on) = 1 => b2n(timer) = 1 \/ c # 0 \/ results > 0 \/ relooks > 0 \/ memerrs > 0
  BY <1>1, <1>2, <1>3, <1>4
<1>7. c = 0 <=> lookups = {} BY <1>1
<1>8. (b2n(timer) = 0 <=> ~timer) /\ (b2n(on) = 0 <=> ~on) BY <1>3
<1>9. c = Cardinality(lookups) BY DEF c
<1> QED BY <1>3, <1>6, <1>7, <1>8, <1>9

\* Establishing it: the drivers of a state, each of them known.
LEMMA DriversAre ==
  ASSUME Good' => \/ ~on' /\ ~timer' /\ lookups' = {} /\ results' = 0 /\ relooks' = 0 /\ memerrs' = 0
                  \/ on' /\ timer' /\ lookups' = {} /\ results' = 0 /\ relooks' = 0 /\ memerrs' = 0
                  \/ /\ on' /\ ~timer' /\ IsFiniteSet(lookups') /\ Cardinality(lookups') = 1
                     /\ results' = 0 /\ relooks' = 0 /\ memerrs' = 0 /\ server_pos' = -1
                  \/ on' /\ ~timer' /\ lookups' = {} /\ results' = 1 /\ relooks' = 0 /\ memerrs' = 0
                  \/ /\ on' /\ ~timer' /\ lookups' = {} /\ results' = 0 /\ relooks' = 1 /\ memerrs' = 0
                     /\ server_pos' = -1
                  \/ on' /\ ~timer' /\ lookups' = {} /\ results' = 0 /\ relooks' = 0 /\ memerrs' = 1
  PROVE  DriverInv'
<1>1. Cardinality({}) = 0 BY FS_EmptySet
<1>2. /\ on' => b2n(on)' = 1
      /\ ~on' => b2n(on)' = 0
      /\ timer' => b2n(timer)' = 1
      /\ ~timer' => b2n(timer)' = 0
  BY DEF b2n
<1>3. SUFFICES ASSUME Good' PROVE Drivers' = b2n(on)' /\ (lookups' # {} \/ relooks' > 0 => server_pos' = -1)
  BY DEF DriverInv, OneDriver, Good
<1>4. lookups' = {} => Cardinality(lookups)' = 0 BY <1>1
<1> QED BY <1>2, <1>3, <1>4 DEF Drivers

-----------------------------------------------------------------------------
(* Requests and their cookies. *)

\* Nothing is sent; a new exchange begins without a cookie.
LEMMA RequestsKept ==
  ASSUME TypeOK, RequestInv, UNCHANGED <<net, sends>>, cookie' \in {cookie, 0},
         exchanges' = exchanges \/ (exchanges' = exchanges + 1 /\ cookie = 0)
  PROVE  RequestInv'
<1>1. cookie \in Nat /\ sends \in Nat /\ exchanges \in Nat BY DEF TypeOK
<1>2. cookie' <= sends' BY <1>1 DEF RequestInv
<1>3. ASSUME NEW q \in net PROVE /\ q.cookie \in 1..sends' /\ q.exchange \in 1..exchanges'
                                 /\ q.cookie = cookie' => q.exchange = exchanges'
  <2>1. q.cookie \in 1..sends /\ q.exchange \in 1..exchanges /\ (q.cookie = cookie => q.exchange = exchanges)
    BY DEF RequestInv
  <2>2. q.cookie # 0 BY <2>1, <1>1
  <2>3. q.cookie = cookie' => cookie' = cookie /\ cookie # 0 BY <2>2
  <2>4. q.exchange \in 1..exchanges' BY <2>1, <1>1
  <2> QED BY <2>1, <2>3, <2>4
<1> QED BY <1>2, <1>3 DEF RequestInv

\* A request that is sent has a cookie of its own and the exchange's number.
LEMMA RequestSent ==
  ASSUME TypeOK, RequestInv, NEW to, sends' = sends + 1, cookie' = sends + 1,
         net' = net \cup {[to |-> to, cookie |-> sends + 1, exchange |-> exchanges']},
         exchanges' = exchanges \/ exchanges' = exchanges + 1, exchanges' > 0
  PROVE  RequestInv'
<1>1. cookie \in Nat /\ sends \in Nat /\ exchanges \in Nat BY DEF TypeOK
<1>2. cookie' <= sends' BY <1>1
<1>3. ASSUME NEW q \in net' PROVE /\ q.cookie \in 1..sends' /\ q.exchange \in 1..exchanges'
                                  /\ q.cookie = cookie' => q.exchange = exchanges'
  <2>1. CASE q \in net
    <3>1. q.cookie \in 1..sends /\ q.exchange \in 1..exchanges BY <2>1 DEF RequestInv
    <3> QED BY <3>1, <1>1
  <2>2. CASE q = [to |-> to, cookie |-> sends + 1, exchange |-> exchanges']
    <3>1. q.cookie = sends + 1 /\ q.exchange = exchanges' BY <2>2
    <3> QED BY <3>1, <1>1
  <2> QED BY <2>1, <2>2
<1> QED BY <1>2, <1>3 DEF RequestInv

-----------------------------------------------------------------------------
(* sntp_dosend(). *)

\* It leaves one driver, if there was none, and the requests in order.
LEMMA Dosend ==
  ASSUME TypeOK, RequestInv, NEW srv, NEW kod, NEW tm \in BOOLEAN, sntp_dosend(srv, kod, tm),
         on' = TRUE, UNCHANGED lookups, again' \in BOOLEAN, relooks' \in Nat,
         exchanges' = exchanges \/ (exchanges' = exchanges + 1 /\ cookie = 0), exchanges' > 0,
         mishaps = {} /\ ~again' => ~tm /\ lookups = {} /\ results = 0 /\ relooks' = 0 /\ memerrs = 0
  PROVE  TypeOK' /\ IdleInv' /\ DriverInv' /\ RequestInv'
<1> DEFINE n == Turn(srv, kod)
           to == srv[PosAfter(n, srv) + 1]
<1>0. exchanges' \in Nat /\ IdleInv' BY DEF TypeOK, IdleInv
<1>1. CASE /\ PostResult /\ timer' = tm
           /\ UNCHANGED <<cookie, memerrs, net, sends>>
  <2>1. results' \in Nat /\ (mishaps' = {} => mishaps = {} /\ results' = results + 1)
    <3>1. CASE results' = results + 1 /\ UNCHANGED mishaps BY <3>1 DEF TypeOK
    <3>2. CASE mishaps' = mishaps \cup {"post"} /\ UNCHANGED results BY <3>2 DEF TypeOK
    <3> QED BY <1>1, <3>1, <3>2 DEF PostResult
  <2>2. TypeOK' BY <1>0, <1>1, <2>1 DEF TypeOK
  <2>3. RequestInv' BY <1>1, RequestsKept
  <2>4. DriverInv' BY <1>1, <2>1, DriversAre DEF Good
  <2> QED BY <1>0, <2>2, <2>3, <2>4
<1>2. CASE /\ PostMemErr /\ timer' = tm
           /\ UNCHANGED <<cookie, results, net, sends>>
  <2>1. memerrs' \in Nat /\ (mishaps' = {} => mishaps = {} /\ memerrs' = memerrs + 1)
    <3>1. CASE memerrs' = memerrs + 1 /\ UNCHANGED mishaps BY <3>1 DEF TypeOK
    <3>2. CASE mishaps' = mishaps \cup {"post"} /\ UNCHANGED memerrs BY <3>2 DEF TypeOK
    <3> QED BY <1>2, <3>1, <3>2 DEF PostMemErr
  <2>2. TypeOK' BY <1>0, <1>2, <2>1 DEF TypeOK
  <2>3. RequestInv' BY <1>2, RequestsKept
  <2>4. DriverInv' BY <1>2, <2>1, DriversAre DEF Good
  <2> QED BY <1>0, <2>2, <2>3, <2>4
<1>3. CASE /\ sends' = sends + 1 /\ cookie' = sends + 1
           /\ net' = net \cup {[to |-> to, cookie |-> sends + 1, exchange |-> exchanges']}
           /\ timer' = TRUE
           /\ UNCHANGED <<results, memerrs, mishaps>>
  <2>1. TypeOK' BY <1>0, <1>3 DEF TypeOK
  <2> HIDE DEF to
  <2>2. RequestInv' BY <1>3, RequestSent
  <2>3. DriverInv' BY <1>3, DriversAre DEF Good
  <2> QED BY <1>0, <2>1, <2>2, <2>3
<1> QED BY <1>1, <1>2, <1>3 DEF sntp_dosend

-----------------------------------------------------------------------------
(* sntp_dolookups(). *)

\* Called when nothing else drives the exchange, it leaves one driver or ends
\* the exchange.
LEMMA Dolookups ==
  ASSUME TypeOK, RequestInv, AnswerInv, NEW srv, NEW lst, NEW pos, sntp_dolookups(srv, lst, pos),
         UNCHANGED again, relooks' \in Nat,
         exchanges' = exchanges \/ (exchanges' = exchanges + 1 /\ cookie = 0 /\ taken = {}),
         exchanges' > 0,
         Good => /\ ~timer /\ lookups = {} /\ results = 0 /\ relooks' = 0 /\ memerrs = 0
                 /\ server_pos = -1
  PROVE  IInv'
<1>0. exchanges' \in Nat BY DEF TypeOK
<1>1. ASSUME UNCHANGED <<best, taken>> PROVE AnswerInv' BY <1>1 DEF AnswerInv, BestIsBest
<1>2. ASSUME NEW x, sntp_dosend(x, kodbits, timer), on' = TRUE, UNCHANGED <<best, taken, lookups>>
      PROVE  IInv'
  <2>1. TypeOK' /\ IdleInv' /\ DriverInv' /\ RequestInv' BY <1>2, Dosend DEF TypeOK, Good
  <2> QED BY <1>1, <1>2, <2>1 DEF IInv
<1>3. CASE LookupError
  <2>1. /\ on' = FALSE /\ server_pos' = -1 /\ cookie' = 0 /\ best' = Null /\ timer' = FALSE /\ taken' = {}
        /\ UNCHANGED <<lookups, results, memerrs, net, sends, mishaps>>
    BY <1>3 DEF LookupError, cleanup
  <2>2. TypeOK' BY <1>0, <2>1 DEF TypeOK
  <2>3. RequestInv' BY <2>1, RequestsKept
  <2>4. DriverInv' BY <2>1, DriversAre DEF Good
  <2>5. AnswerInv' BY <2>1 DEF AnswerInv, BestIsBest, Null
  <2> QED BY <2>1, <2>2, <2>3, <2>4, <2>5 DEF IInv, IdleInv
<1>4. CASE /\ on' = TRUE /\ mishaps' = mishaps \cup {"error"}
           /\ UNCHANGED <<server_pos, cookie, best, timer, taken, lookups, results, memerrs, net, sends>>
  <2>1. TypeOK' BY <1>0, <1>4 DEF TypeOK
  <2>2. RequestInv' BY <1>4, RequestsKept
  <2>3. ~Good' BY <1>4 DEF Good
  <2>4. DriverInv' BY <2>3 DEF DriverInv, OneDriver, Good
  <2> QED BY <1>1, <1>4, <2>1, <2>2, <2>4 DEF IInv, IdleInv
<1>5. ASSUME NEW x, LookupStarted(lst, x) PROVE IInv'
  <2>1. /\ on' = TRUE /\ lookups' = lookups \cup {lst[x]}
        /\ UNCHANGED <<server_pos, cookie, best, timer, taken, results, memerrs, net, sends, mishaps>>
    BY <1>5 DEF LookupStarted
  <2>2. IsFiniteSet(lookups') BY <2>1, FS_AddElement DEF TypeOK
  <2>3. TypeOK' BY <1>0, <2>1, <2>2 DEF TypeOK
  <2>4. RequestInv' BY <2>1, RequestsKept
  <2>5. Good' => Cardinality(lookups') = 1
    <3>1. Good' => lookups' = {lst[x]} BY <2>1 DEF Good
    <3> QED BY <3>1, FS_Singleton
  <2>6. DriverInv' BY <2>1, <2>2, <2>5, DriversAre DEF Good
  <2> QED BY <1>1, <2>1, <2>3, <2>4, <2>6 DEF IInv, IdleInv
<1>6. ASSUME NEW k, NEW known, LookupsDone(known, lst) \/ LookupStarted(lst, k + 1) \/ LookupError
      PROVE  IInv'
  BY <1>2, <1>3, <1>4, <1>5, <1>6 DEF LookupsDone
<1> QED BY <1>6 DEF sntp_dolookups

-----------------------------------------------------------------------------
(* The steps. *)

\* A step that leaves alone what the invariant speaks of.
LEMMA OtherStep ==
  ASSUME IInv,
         UNCHANGED <<on, server_pos, cookie, best, timer, taken, lookups, posted, net, exchanges,
                     sends, again, mishaps>>
  PROVE  IInv'
BY DEF IInv, posted, TypeOK, IdleInv, DriverInv, OneDriver, Drivers, b2n, Good, RequestInv, AnswerInv,
   BestIsBest

\* sntp.sync(), in all its forms, and the repetition.
LEMMA SyncStep == ASSUME IInv, sntp_sync \/ on_long_timeout PROVE IInv'
<1> USE DEF IInv
<1>0. exchanges \in Nat /\ exchanges + 1 > 0 /\ relooks \in Nat BY DEF TypeOK
<1>1. ASSUME NEW srv, NEW lst, ~on, exchanges' = exchanges + 1, UNCHANGED <<relooks, again>>,
             sntp_dolookups(srv, lst, 0)
      PROVE  IInv'
  <2>1. cookie = 0 /\ taken = {} /\ server_pos = -1 BY <1>1 DEF IdleInv
  <2>2. Good => ~timer /\ lookups = {} /\ results = 0 /\ relooks = 0 /\ memerrs = 0 BY <1>1, OnlyDriver
  <2> QED BY <1>0, <1>1, <2>1, <2>2, Dolookups
<1>2. CASE SyncRefused
  BY <1>2, OtherStep DEF SyncRefused, exchange
<1>3. ASSUME NEW lst, NEW rep, SyncNames(lst, rep) PROVE IInv' BY <1>1, <1>3 DEF SyncNames
<1>4. CASE SyncSameServers BY <1>1, <1>4 DEF SyncSameServers
<1>5. CASE on_long_timeout
  <2>1. ~on /\ exchanges' = exchanges + 1 /\ UNCHANGED <<relooks, again>> BY <1>5 DEF on_long_timeout
  <2>2. CASE sntp_dolookups(serverp, IF serverp = <<>> THEN repeat ELSE <<>>, 0) BY <1>1, <2>1, <2>2
  <2>3. CASE /\ on' = TRUE /\ mishaps' = mishaps \cup {"port"}
             /\ UNCHANGED <<server_pos, cookie, best, timer, taken, lookups, results, memerrs, net, sends>>
    <3>1. TypeOK' BY <2>1, <2>3 DEF TypeOK
    <3>2. cookie = 0 /\ taken = {} BY <2>1 DEF IdleInv
    <3>3. RequestInv' BY <2>1, <2>3, <3>2, RequestsKept
    <3>4. ~Good' BY <2>3 DEF Good
    <3>5. DriverInv' BY <3>4 DEF DriverInv, OneDriver, Good
    <3>6. AnswerInv' BY <2>3, <3>2 DEF AnswerInv, BestIsBest
    <3> QED BY <1>0, <2>1, <2>3, <3>1, <3>3, <3>5, <3>6 DEF IdleInv
  <2> QED BY <2>2, <2>3, <1>5 DEF on_long_timeout
<1> QED BY <1>2, <1>3, <1>4, <1>5 DEF sntp_sync

\* The timer of a request.
LEMMA TimeoutStep == ASSUME IInv, on_timeout PROVE IInv'
<1> USE DEF IInv
<1>1. timer /\ UNCHANGED <<on, best, taken, lookups, relooks, exchanges, again>>
  BY DEF on_timeout
<1>2. sntp_dosend(serverp, kodbits, FALSE) BY DEF on_timeout
<1>3. on /\ exchanges > 0 BY <1>1 DEF IdleInv
<1>4. Good => lookups = {} /\ results = 0 /\ relooks = 0 /\ memerrs = 0 BY <1>1, OnlyDriver
<1>5. again' \in BOOLEAN /\ relooks' \in Nat /\ on' = TRUE BY <1>1, <1>3 DEF TypeOK
<1>6. TypeOK' /\ IdleInv' /\ DriverInv' /\ RequestInv'
  BY <1>1, <1>2, <1>3, <1>4, <1>5, Dosend DEF Good
<1>7. AnswerInv' BY <1>1 DEF AnswerInv, BestIsBest
<1> QED BY <1>6, <1>7

\* Names that are found or not.
LEMMA DnsStep == ASSUME IInv, DnsAnswers PROVE IInv'
<1> USE DEF IInv
<1>1. PICK h \in Addr, ok \in BOOLEAN : sntp_dns_found(h, ok) BY DEF DnsAnswers
<1>2. /\ h \in lookups /\ lookups' = lookups \ {h} /\ PostRelook
      /\ UNCHANGED <<on, server_pos, cookie, best, timer, taken, results, memerrs, net, exchanges,
                     sends, again>>
  BY <1>1 DEF sntp_dns_found, exchange
<1>3. relooks' \in Nat /\ (mishaps' = {} => mishaps = {} /\ relooks' = relooks + 1)
  <2>1. CASE relooks' = relooks + 1 /\ UNCHANGED mishaps BY <2>1 DEF TypeOK
  <2>2. CASE mishaps' = mishaps \cup {"post"} /\ UNCHANGED relooks BY <2>2 DEF TypeOK
  <2> QED BY <1>2, <2>1, <2>2 DEF PostRelook
<1>4. /\ IsFiniteSet(lookups') /\ Cardinality(lookups') = Cardinality(lookups) - 1
      /\ Cardinality(lookups') = 0 <=> lookups' = {}
  BY <1>2, FS_RemoveElement, FS_EmptySet DEF TypeOK
<1>5. TypeOK' BY <1>2, <1>3, <1>4 DEF TypeOK
<1>6. DriverInv'
  <2>1. Good' => Good BY <1>2, <1>3 DEF Good
  <2>2. Good => /\ on /\ ~timer /\ Cardinality(lookups) = 1 /\ results = 0 /\ relooks = 0 /\ memerrs = 0
                /\ server_pos = -1
    BY <1>2, OnlyDriver DEF DriverInv
  <2>3. Good' => lookups' = {} /\ relooks' = 1 BY <2>1, <2>2, <1>3, <1>4 DEF Good
  <2> QED BY <2>1, <2>2, <2>3, <1>2, DriversAre
<1>7. RequestInv' BY <1>2, RequestsKept
<1>8. IdleInv' /\ AnswerInv' BY <1>2 DEF IdleInv, AnswerInv, BestIsBest
<1> QED BY <1>5, <1>6, <1>7, <1>8

\* An answer is taken: of this exchange, and while the timer of its request
\* runs, unless the end was posted already.
LEMMA ReceiveStep ==
  ASSUME IInv, NEW q \in net, NEW r \in Replies, ReceiveTime(q, r)
  PROVE  IInv'
<1> USE DEF IInv
<1> DEFINE a == [addr |-> q.to, delay |-> r.delay, stratum |-> r.stratum, exchange |-> q.exchange]
<1>1. /\ on /\ server_pos >= 0 /\ q.cookie = cookie
      /\ best' = (IF best.stratum = 0 \/ a.delay < best.delay THEN a ELSE best)
      /\ taken' = taken \cup {a}
      /\ again' = (again \/ results + memerrs > 0)
      /\ UNCHANGED <<on, lookups, relooks, exchanges>>
      /\ sntp_dosend(serverp, kodbits \ {server_pos}, FALSE)
  BY DEF ReceiveTime, Solicited, record_result
<1>2. q.exchange = exchanges /\ exchanges \in Nat /\ exchanges > 0 BY <1>1 DEF RequestInv, TypeOK
<1>3. again' \in BOOLEAN /\ relooks' \in Nat BY <1>1 DEF TypeOK
<1>4. mishaps = {} /\ ~again' => lookups = {} /\ results = 0 /\ relooks' = 0 /\ memerrs = 0
  <2>1. mishaps = {} /\ ~again' => Good /\ ~(results + memerrs > 0) BY <1>1 DEF Good
  <2>2. results \in Nat /\ memerrs \in Nat BY DEF TypeOK
  <2>3. ~(results + memerrs > 0) => results = 0 /\ memerrs = 0 BY <2>2
  <2>4. server_pos # -1 BY <1>1
  <2>5. Good => lookups = {} /\ ~(relooks > 0) BY <2>4 DEF DriverInv
  <2>6. ~(relooks > 0) => relooks = 0 BY DEF TypeOK
  <2> QED BY <1>1, <2>1, <2>3, <2>5, <2>6
<1>5. TypeOK' /\ IdleInv' /\ DriverInv' /\ RequestInv'
  BY <1>1, <1>2, <1>3, <1>4, Dosend DEF TypeOK
<1>6. AnswerInv'
  <2>1. a.delay = r.delay /\ r.delay \in Nat /\ a.exchange = exchanges BY <1>2, SntpAssumption
  <2>2. a # Null BY <1>2, <2>1 DEF Null
  <2> HIDE DEF a
  <2>3. best' \in taken' /\ best'.delay \in Nat
    <3>1. CASE best' = a BY <1>1, <2>1, <3>1
    <3>2. CASE best' = best /\ best.stratum # 0
      <4>1. best # Null BY <3>2 DEF Null
      <4> QED BY <1>1, <3>2, <4>1 DEF AnswerInv, BestIsBest
    <3> QED BY <1>1, <3>1, <3>2
  <2>4. ASSUME \A b \in taken' : b.stratum # 0 PROVE \A b \in taken' : best'.delay <= b.delay
    <3>1. \A b \in taken : b.stratum # 0 /\ b.delay \in Nat /\ best.delay <= b.delay
      BY <1>1, <2>4 DEF AnswerInv, BestIsBest
    <3>2. CASE best.stratum = 0
      <4>1. taken = {} /\ best' = a BY <1>1, <3>1, <3>2 DEF AnswerInv, BestIsBest
      <4> QED BY <1>1, <2>1, <4>1
    <3>3. CASE best.stratum # 0 /\ a.delay < best.delay
      <4>1. best' = a /\ best.delay \in Nat BY <1>1, <3>3 DEF AnswerInv
      <4> QED BY <1>1, <2>1, <3>1, <3>3, <4>1
    <3>4. CASE best.stratum # 0 /\ ~(a.delay < best.delay)
      <4>1. best' = best /\ best.delay <= a.delay BY <1>1, <2>1, <3>4 DEF AnswerInv
      <4> QED BY <1>1, <3>1, <4>1
    <3> QED BY <3>2, <3>3, <3>4
  <2>5. \A b \in taken' : b.exchange = exchanges' /\ b.delay \in Nat
    BY <1>1, <2>1 DEF AnswerInv, BestIsBest
  <2>6. best' # Null
    <3>1. \A b \in taken : b # Null
      <4>1. \A b \in taken : b.exchange = exchanges BY DEF AnswerInv, BestIsBest
      <4> QED BY <1>2, <4>1 DEF Null
    <3> QED BY <1>1, <2>2, <2>3, <3>1
  <2> QED BY <1>1, <2>3, <2>4, <2>5, <2>6 DEF AnswerInv, BestIsBest
<1> QED BY <1>5, <1>6

\* The tasks that end an exchange or go on with the lookups.
LEMMA TaskStep == ASSUME IInv, sntp_task PROVE IInv'
<1> USE DEF IInv
\* A task that finds no state: something else was wrong before.
<1>1. ASSUME ~on, UNCHANGED <<exchange, lookups, net, exchanges, sends, again, mishaps>>,
             results' \in Nat, relooks' \in Nat, memerrs' \in Nat, ~Good
      PROVE  IInv'
  <2>1. TypeOK' BY <1>1 DEF TypeOK, exchange
  <2>2. RequestInv' BY <1>1, RequestsKept DEF exchange
  <2>3. DriverInv' BY <1>1 DEF DriverInv, OneDriver, Good
  <2>4. IdleInv' /\ AnswerInv' BY <1>1 DEF IdleInv, AnswerInv, BestIsBest, exchange
  <2> QED BY <2>1, <2>2, <2>3, <2>4
<1>2. ASSUME cleanup, UNCHANGED <<lookups, net, exchanges, sends, again, mishaps>>,
             results' \in Nat, relooks' \in Nat, memerrs' \in Nat,
             Good => lookups = {} /\ results' = 0 /\ relooks' = 0 /\ memerrs' = 0
      PROVE  IInv'
  <2>1. on' = FALSE /\ server_pos' = -1 /\ cookie' = 0 /\ best' = Null /\ timer' = FALSE /\ taken' = {}
    BY <1>2 DEF cleanup
  <2>2. TypeOK' BY <1>2, <2>1 DEF TypeOK
  <2>3. RequestInv' BY <1>2, <2>1, RequestsKept
  <2>4. DriverInv' BY <1>2, <2>1, DriversAre DEF Good
  <2>5. AnswerInv' BY <2>1 DEF AnswerInv, BestIsBest, Null
  <2> QED BY <2>1, <2>2, <2>3, <2>4, <2>5 DEF IdleInv
<1>3. CASE ResultTask
  <2>1. /\ results > 0 /\ results' = results - 1
        /\ UNCHANGED <<lookups, relooks, memerrs, net, exchanges, sends, again, mishaps>>
    BY <1>3 DEF ResultTask
  <2>2. results' \in Nat /\ relooks' \in Nat /\ memerrs' \in Nat BY <2>1 DEF TypeOK
  <2>3. Good => on /\ lookups = {} /\ results = 1 /\ relooks = 0 /\ memerrs = 0 BY <2>1, OnlyDriver
  <2>4. CASE on BY <1>2, <1>3, <2>1, <2>2, <2>3, <2>4 DEF ResultTask
  <2>5. CASE ~on BY <1>1, <1>3, <2>1, <2>2, <2>3, <2>5 DEF ResultTask
  <2> QED BY <2>4, <2>5
<1>4. CASE MemErrTask
  <2>1. /\ memerrs > 0 /\ memerrs' = memerrs - 1
        /\ UNCHANGED <<lookups, relooks, results, net, exchanges, sends, again, mishaps>>
    BY <1>4 DEF MemErrTask
  <2>2. results' \in Nat /\ relooks' \in Nat /\ memerrs' \in Nat BY <2>1 DEF TypeOK
  <2>3. Good => on /\ lookups = {} /\ results = 0 /\ relooks = 0 /\ memerrs = 1 BY <2>1, OnlyDriver
  <2>4. CASE on BY <1>2, <1>4, <2>1, <2>2, <2>3, <2>4 DEF MemErrTask
  <2>5. CASE ~on BY <1>1, <1>4, <2>1, <2>2, <2>3, <2>5 DEF MemErrTask
  <2> QED BY <2>4, <2>5
<1>5. CASE RelookTask
  <2>1. relooks > 0 /\ relooks' = relooks - 1 /\ UNCHANGED <<exchanges, again>> BY <1>5 DEF RelookTask
  <2>2. relooks' \in Nat BY <2>1 DEF TypeOK
  <2>3. Good => /\ on /\ ~timer /\ lookups = {} /\ results = 0 /\ relooks = 1 /\ memerrs = 0
                /\ server_pos = -1
    BY <2>1, OnlyDriver DEF DriverInv
  <2>4. CASE on
    <3>1. sntp_dolookups(serverp, list, lookup_pos) BY <1>5, <2>4 DEF RelookTask
    <3>2. exchanges > 0 BY <2>4 DEF IdleInv
    <3> QED BY <2>1, <2>2, <2>3, <3>1, <3>2, Dolookups
  <2>5. CASE ~on
    <3>1. UNCHANGED <<exchange, lookups, results, memerrs, net, sends, mishaps>>
      BY <1>5, <2>5 DEF RelookTask
    <3> QED BY <1>1, <2>1, <2>2, <2>3, <2>5, <3>1 DEF TypeOK
  <2> QED BY <2>4, <2>5
<1> QED BY <1>3, <1>4, <1>5 DEF sntp_task

\* The invariant holds at the start, and every step keeps it.
LEMMA InitIInv == Init => IInv
<1> SUFFICES ASSUME Init PROVE IInv OBVIOUS
<1>1. IsFiniteSet({}) /\ Cardinality({}) = 0 BY FS_EmptySet
<1>2. TypeOK BY <1>1 DEF Init, TypeOK
<1>3. IdleInv BY DEF Init, IdleInv
<1>4. DriverInv BY <1>1 DEF Init, DriverInv, OneDriver, Drivers, b2n
<1>5. RequestInv BY DEF Init, RequestInv
<1>6. AnswerInv BY DEF Init, AnswerInv, BestIsBest, Null
<1> QED BY <1>2, <1>3, <1>4, <1>5, <1>6 DEF IInv

\* The inductive invariant.
LEMMA InvHolds == Spec => []IInv
<1>1. ASSUME IInv, [Next]_vars PROVE IInv'
  <2>1. CASE sntp_sync \/ on_long_timeout BY <1>1, <2>1, SyncStep
  <2>2. CASE on_timeout BY <1>1, <2>2, TimeoutStep
  <2>3. CASE DnsAnswers BY <1>1, <2>3, DnsStep
  <2>4. ASSUME NEW q \in net, NEW r \in Replies, ReceiveTime(q, r) PROVE IInv'
    BY <1>1, <2>4, ReceiveStep
  <2>5. ASSUME NEW q \in net, ReceiveDeny(q) PROVE IInv'
    BY <1>1, <2>5, OtherStep DEF ReceiveDeny
  <2>6. CASE sntp_task BY <1>1, <2>6, TaskStep
  <2>7. CASE UNCHANGED vars BY <1>1, <2>7, OtherStep DEF vars, exchange
  <2> QED BY <1>1, <2>1, <2>2, <2>3, <2>4, <2>5, <2>6, <2>7 DEF Next
<1> QED BY <1>1, InitIInv, PTL DEF Spec

\* Exactly one thing drives an exchange of sntp.c on, the timer, a lookup or a
\* posted task, and nothing is left of it when its state is freed.
THEOREM OneDriverHolds == Spec => []OneDriver
<1>1. IInv => OneDriver BY DEF IInv, DriverInv
<1> QED BY <1>1, InvHolds, PTL

\* The answer that sntp_handle_result() uses was given to a request of this
\* exchange, and is there whenever on_recv() took one; if none that it took has
\* the stratum 0, which sntp.c takes for no answer, it has the least delay.
THEOREM BestHolds == Spec => []BestIsBest
<1>1. IInv => BestIsBest BY DEF IInv, AnswerInv
<1> QED BY <1>1, InvHolds, PTL

\* A task of sntp.c finds a state: sntp_task() tests for none, and the crash
\* through a null state needs a post that failed, a state left behind, or an
\* answer taken after the end was posted.
THEOREM TasksFindState == Spec => [][sntp_task /\ mishaps = {} /\ ~again => UNCHANGED crashed]_vars
<1>1. IInv /\ [Next]_vars => [sntp_task /\ mishaps = {} /\ ~again => UNCHANGED crashed]_vars
  <2> SUFFICES ASSUME IInv, sntp_task, Good PROVE UNCHANGED crashed BY DEF Good
  <2>1. (results > 0 => on) /\ (relooks > 0 => on) /\ (memerrs > 0 => on) BY OnlyDriver DEF IInv
  <2> QED BY <2>1 DEF sntp_task, ResultTask, RelookTask, MemErrTask
<1> QED BY <1>1, InvHolds, PTL DEF Spec
=============================================================================
