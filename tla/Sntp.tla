-------------------------------- MODULE Sntp --------------------------------
(***************************************************************************)
(* The SNTP client, app/modules/sntp.c: an exchange looks its servers up,  *)
(* asks each of them in turn a number of times, and ends in a task that    *)
(* reports the best answer or an error.                                    *)
(*                                                                         *)
(* Answers may be lost, late, duplicated and out of order, and may belong  *)
(* to an earlier exchange, whose UDP port the next one gets again.  An     *)
(* answer is recognised by its origin timestamp (the cookie).  Names and   *)
(* addresses are the same set.  Callbacks come last in the functions that  *)
(* run them, so that a sync() from a callback is one right after it.       *)
(***************************************************************************)
EXTENDS Integers, Sequences, FiniteSets

CONSTANTS
  Addr,          \* addresses of time servers
  NoAddr,        \* the address 0 of an entry that was killed
  Lists,         \* lists of servers that sync() may be given
  DefaultList,   \* servers used without one
  Replies,       \* what an answer may hold: the delay that record_result() computes of
                 \* it, and the stratum, where 0 is unspecified or a kiss of death
  MAX_ATTEMPTS,
  MAX_REQUESTS,  \* 8 in sntp_dosend()
  MaxExchanges,  \* bound: exchanges
  MaxSends,      \* bound: requests, more than that many exchanges make
  MaxPosted,     \* bound: tasks of a kind that are posted at a time
  MaxLaps        \* bound: laps that answers after the end may add, to wrap at 256

ASSUME SntpAssumption ==
  /\ NoAddr \notin Addr
  /\ Lists \subseteq Seq(Addr)
  /\ DefaultList \in Seq(Addr) /\ DefaultList # <<>>
  /\ Replies \subseteq [delay : Nat, stratum : Nat]
  /\ MAX_ATTEMPTS \in Nat \ {0} /\ MAX_REQUESTS \in Nat \ {0}
  /\ MaxExchanges \in Nat /\ MaxSends \in Nat /\ MaxPosted \in Nat \ {0} /\ MaxLaps \in Nat

VARIABLES
  on,            \* state is not null: an exchange is under way
  server_pos, attempts, kodbits, cookie, best, lookup_pos, list, timer,  \* its fields
  serverp,       \* the addresses; server_count is the length
  repeat,        \* the list that is tried every 1000 s, or NoList
  lookups,       \* names that dns_gethostbyname() is looking for
  results, relooks, memerrs, \* tasks posted: to end, to look up further, to give up
  net,           \* requests that were sent, to be answered any number of times
  exchanges, sends, \* counters, for the bounds and as cookies
  taken,         \* history: answers taken in this exchange
  again,         \* history: an answer was taken after the end had been posted
  mishaps,       \* history: "post" refused, Lua "error", no "port"
  crashed        \* a null state was used

exchange == <<on, server_pos, attempts, kodbits, cookie, best, lookup_pos, list, timer, taken>>
posted == <<results, relooks, memerrs>>
vars == <<exchange, serverp, repeat, lookups, posted, net, exchanges, sends, again, mishaps, crashed>>

\* No answer yet: state_init() clears the memory, so the stratum is 0.
Null == [addr |-> NoAddr, delay |-> 0, stratum |-> 0, exchange |-> 0]
NoList == <<NoAddr>>

-----------------------------------------------------------------------------
Init ==
  /\ on = FALSE /\ server_pos = -1 /\ attempts = 0 /\ kodbits = {} /\ cookie = 0
  /\ best = Null /\ lookup_pos = 0 /\ list = <<>> /\ timer = FALSE
  /\ serverp = <<>>
  /\ repeat = NoList
  /\ lookups = {} /\ results = 0 /\ relooks = 0 /\ memerrs = 0 /\ net = {}
  /\ exchanges = 0 /\ sends = 0
  /\ taken = {} /\ again = FALSE /\ mishaps = {} /\ crashed = FALSE

\* cleanup(); the fields get the values with which state_init() would begin.
cleanup ==
  /\ on' = FALSE /\ server_pos' = -1 /\ attempts' = 0 /\ kodbits' = {} /\ cookie' = 0
  /\ best' = Null /\ lookup_pos' = 0 /\ list' = <<>> /\ timer' = FALSE
  /\ taken' = {}

\* task_post_high(), task_post_low(): the queue may be full of other tasks, and
\* nobody looks at the result.
PostResult ==
  \/ results < MaxPosted /\ results' = results + 1 /\ UNCHANGED mishaps
  \/ mishaps' = mishaps \cup {"post"} /\ UNCHANGED results

PostRelook ==
  \/ relooks < MaxPosted /\ relooks' = relooks + 1 /\ UNCHANGED mishaps
  \/ mishaps' = mishaps \cup {"post"} /\ UNCHANGED relooks

PostMemErr ==
  \/ memerrs < MaxPosted /\ memerrs' = memerrs + 1 /\ UNCHANGED mishaps
  \/ mishaps' = mishaps \cup {"post"} /\ UNCHANGED memerrs

-----------------------------------------------------------------------------
(* sntp_dosend(), for the addresses srv. *)

\* Where the n-th turn of its loop gets to, from the present position.
PosAfter(n, srv) == (server_pos + n) % Len(srv)

\* Fault model: a lap is counted one server late.
AttemptsAfterLate(n, srv) == attempts + (server_pos + n - 1) \div Len(srv)

AttemptsAfter(n, srv) == attempts + (server_pos + n) \div Len(srv)

Enough(n, srv) ==
  \/ AttemptsAfter(n, srv) >= MAX_ATTEMPTS
  \/ AttemptsAfter(n, srv) * Len(srv) >= MAX_REQUESTS

Usable(n, srv, kod) == srv[PosAfter(n, srv) + 1] # NoAddr /\ PosAfter(n, srv) \notin kod

\* The turn in which the loop ends.
Turn(srv, kod) ==
  CHOOSE n \in 1..(MAX_ATTEMPTS * Len(srv) + 2) :
    /\ Enough(n, srv) \/ Usable(n, srv, kod)
    /\ \A k \in 1..(n - 1) : ~Enough(k, srv) /\ ~Usable(k, srv, kod)

\* The next server is asked, or the end is due. tm: is the timer armed before?
sntp_dosend(srv, kod, tm) ==
  LET n == Turn(srv, kod) IN
  /\ server_pos' = PosAfter(n, srv)
  /\ attempts' = AttemptsAfter(n, srv)
  /\ kodbits' = kod
  /\ \/ /\ Enough(n, srv)
        /\ PostResult
        /\ timer' = tm
        /\ UNCHANGED <<cookie, memerrs, net, sends>>
     \/ /\ ~Enough(n, srv) /\ sends < MaxSends   \* no memory for the packet
        /\ PostMemErr
        /\ timer' = tm
        /\ UNCHANGED <<cookie, results, net, sends>>
     \/ /\ ~Enough(n, srv) /\ sends < MaxSends
        /\ sends' = sends + 1
        /\ cookie' = sends + 1
        /\ net' = net \cup {[to |-> srv[PosAfter(n, srv) + 1], cookie |-> sends + 1,
                             exchange |-> exchanges']}
        /\ timer' = TRUE
        /\ UNCHANGED <<results, memerrs, mishaps>>

on_timeout ==
  /\ ~crashed /\ timer
  /\ UNCHANGED <<on, best, lookup_pos, list, taken, serverp, repeat, lookups, relooks, exchanges,
                 again, crashed>>
  /\ sntp_dosend(serverp, kodbits, FALSE)

-----------------------------------------------------------------------------
(* on_recv(). Without a request the cookie is 0, which no answer has. *)

\* Fault model: only the sender is compared.
SolicitedBySender(q) == server_pos >= 0 /\ serverp[server_pos + 1] = q.to

\* From the server that is being asked, to the request that was sent last.
Solicited(q) == server_pos >= 0 /\ serverp[server_pos + 1] = q.to /\ q.cookie = cookie

\* record_result(): the answer with the least delay. A best stratum of 0 counts
\* as no best answer, also when it is that of an answer. Since last_server_pos
\* is -1 in every exchange, no server gets the bonus.
record_result(a) == IF best.stratum = 0 \/ a.delay < best.delay THEN a ELSE best

\* An answer with LI # 3, of whatever stratum. "again" notes that the end of the
\* exchange had been posted.
ReceiveTime(q, r) ==
  LET a == [addr |-> q.to, delay |-> r.delay, stratum |-> r.stratum, exchange |-> q.exchange] IN
  /\ ~crashed /\ on /\ Solicited(q) /\ attempts < MaxLaps
  /\ best' = record_result(a)
  /\ taken' = taken \cup {a}
  /\ again' = (again \/ results + memerrs > 0)
  /\ UNCHANGED <<on, lookup_pos, list, serverp, repeat, lookups, relooks, exchanges, crashed>>
  /\ sntp_dosend(serverp, kodbits \ {server_pos}, FALSE)

\* A kiss of death (LI = 3, DENY): the first one rests the server, a second one kills it.
ReceiveDeny(q) ==
  /\ ~crashed /\ on /\ Solicited(q)
  /\ IF server_pos \in kodbits
     THEN serverp' = [serverp EXCEPT ![server_pos + 1] = NoAddr] /\ UNCHANGED kodbits
     ELSE kodbits' = kodbits \cup {server_pos} /\ UNCHANGED serverp
  /\ UNCHANGED <<on, server_pos, attempts, cookie, best, lookup_pos, list, timer, taken, repeat,
                 lookups, posted, net, exchanges, sends, again, mishaps, crashed>>

-----------------------------------------------------------------------------
(* sntp_dolookups(), for the addresses srv found so far and names from pos on. *)

\* Names pos + 1 to k are addresses or cached. If the resolver has no memory an
\* entry is left as malloc() gave it: like a server that never answers, or 0.
Known(srv, lst, pos, k, zero) ==
  srv \o [i \in 1..(k - pos) |-> IF pos + i \in zero THEN NoAddr ELSE lst[pos + i]]

\* handle_error(NTP_DNS_ERR).
LookupError ==
  /\ cleanup
  /\ UNCHANGED <<lookups, results, memerrs, net, sends, mishaps>>

LookupsDone(srv, lst) ==
  \/ /\ srv # <<>>
     /\ UNCHANGED <<best, taken, lookups>>
     /\ on' = TRUE /\ list' = lst /\ lookup_pos' = Len(lst)
     /\ sntp_dosend(srv, kodbits, timer)
  \/ /\ srv = <<>> /\ lst # <<>>
     /\ LookupError
  \/ /\ srv = <<>> /\ lst = <<>>                 \* luaL_checklstring() of no name
     /\ on' = TRUE
     /\ mishaps' = mishaps \cup {"error"}
     /\ UNCHANGED <<server_pos, attempts, kodbits, cookie, best, lookup_pos, list, timer, taken,
                    lookups, results, memerrs, net, sends>>

LookupStarted(lst, k) ==
  /\ on' = TRUE /\ list' = lst /\ lookup_pos' = k
  /\ lookups' = lookups \cup {lst[k]}
  /\ UNCHANGED <<server_pos, attempts, kodbits, cookie, best, timer, taken, results, memerrs, net,
                 sends, mishaps>>

sntp_dolookups(srv, lst, pos) ==
  \E k \in pos..Len(lst) : \E zero \in SUBSET ((pos + 1)..k) :
    LET known == Known(srv, lst, pos, k, zero) IN
    /\ serverp' = known
    /\ \/ k = Len(lst) /\ LookupsDone(known, lst)
       \/ k < Len(lst) /\ LookupStarted(lst, k + 1)
       \/ k < Len(lst) /\ LookupError              \* ERR_ARG

\* Fault model: a name that is not found goes unnoticed.
sntp_dns_found_silent(h, ok) ==
  /\ ~crashed /\ h \in lookups
  /\ lookups' = lookups \ {h}
  /\ IF ok THEN serverp' = Append(serverp, h) /\ PostRelook
     ELSE UNCHANGED <<serverp, relooks, mishaps>>
  /\ UNCHANGED <<exchange, repeat, results, memerrs, net, exchanges, sends, again, crashed>>

sntp_dns_found(h, ok) ==
  /\ ~crashed /\ h \in lookups
  /\ lookups' = lookups \ {h}
  /\ serverp' = IF ok THEN Append(serverp, h) ELSE serverp
  /\ PostRelook
  /\ UNCHANGED <<exchange, repeat, results, memerrs, net, exchanges, sends, again, crashed>>

-----------------------------------------------------------------------------
(* sntp.sync() and the repetition. *)

\* sync() while an exchange is under way, or without memory or a free port: it
\* has cancelled the repetition when it finds out. When it finds the name of the
\* server too long it has forgotten the last servers as well.
SyncRefused ==
  /\ ~crashed
  /\ repeat' = NoList
  /\ \/ UNCHANGED serverp
     \/ ~on /\ serverp' = <<>>
  /\ UNCHANGED <<exchange, lookups, posted, net, exchanges, sends, again, mishaps, crashed>>

\* Called after the lookups, unless they raised an error. When they failed at
\* once, it reads the state that is gone. (Without memory, as if not asked for.)
set_repeat_mode(lst, rep) ==
  /\ repeat' = IF rep /\ on' /\ "error" \notin mishaps' THEN lst ELSE NoList
  /\ crashed' = (rep /\ ~on')

\* A list of names, or the default ones; rep: autorepeat.
SyncNames(lst, rep) ==
  /\ ~crashed /\ ~on /\ exchanges < MaxExchanges
  /\ exchanges' = exchanges + 1
  /\ UNCHANGED <<relooks, again>>
  /\ sntp_dolookups(<<>>, lst, 0)
  /\ set_repeat_mode(lst, rep)

\* The servers of the last exchange. No table is on the stack then, luaL_ref()
\* takes the last argument instead, and with it goes autorepeat.
SyncSameServers ==
  /\ ~crashed /\ ~on /\ exchanges < MaxExchanges /\ serverp # <<>>
  /\ exchanges' = exchanges + 1
  /\ repeat' = NoList
  /\ UNCHANGED <<relooks, again, crashed>>
  /\ sntp_dolookups(serverp, <<>>, 0)

sntp_sync ==
  \/ SyncRefused
  \/ \E lst \in Lists, rep \in BOOLEAN : SyncNames(lst, rep)
  \/ serverp = <<>> /\ \E rep \in BOOLEAN : SyncNames(DefaultList, rep)
  \/ SyncSameServers

\* When state_init() has a state but no port, the state stays.
on_long_timeout ==
  /\ ~crashed /\ repeat # NoList /\ ~on /\ exchanges < MaxExchanges
  /\ exchanges' = exchanges + 1
  /\ UNCHANGED <<repeat, relooks, again, crashed>>
  /\ \/ sntp_dolookups(serverp, IF serverp = <<>> THEN repeat ELSE <<>>, 0)
     \/ /\ on' = TRUE
        /\ mishaps' = mishaps \cup {"port"}
        /\ UNCHANGED <<server_pos, attempts, kodbits, cookie, best, lookup_pos, list, timer, taken,
                       serverp, lookups, results, memerrs, net, sends>>

-----------------------------------------------------------------------------
(* sntp_task(). No task looks whether there is a state. *)

\* sntp_handle_result(): a stratum of 0 is reported as a timeout.
ResultTask ==
  /\ ~crashed /\ results > 0
  /\ results' = results - 1
  /\ \/ /\ on
        /\ serverp' = IF best.stratum = 0 THEN <<>> ELSE serverp
        /\ cleanup
        /\ UNCHANGED crashed
     \/ ~on /\ crashed' = TRUE /\ UNCHANGED <<exchange, serverp>>
  /\ UNCHANGED <<repeat, lookups, relooks, memerrs, net, exchanges, sends, again, mishaps>>

\* A low priority task, of which an exchange has one at a time.
RelookTask ==
  /\ ~crashed /\ results = 0 /\ relooks > 0
  /\ relooks' = relooks - 1
  /\ UNCHANGED <<repeat, exchanges, again>>
  /\ \/ on /\ sntp_dolookups(serverp, list, lookup_pos) /\ UNCHANGED crashed
     \/ /\ ~on /\ crashed' = TRUE
        /\ UNCHANGED <<exchange, serverp, lookups, results, memerrs, net, sends, mishaps>>

\* handle_error(NTP_MEM_ERR).
MemErrTask ==
  /\ ~crashed /\ results = 0 /\ memerrs > 0
  /\ memerrs' = memerrs - 1
  /\ \/ on /\ cleanup /\ UNCHANGED crashed
     \/ ~on /\ crashed' = TRUE /\ UNCHANGED exchange
  /\ UNCHANGED <<serverp, repeat, lookups, results, relooks, net, exchanges, sends, again, mishaps>>

sntp_task == ResultTask \/ RelookTask \/ MemErrTask

DnsAnswers == \E h \in Addr, ok \in BOOLEAN : sntp_dns_found(h, ok)

Next ==
  \/ sntp_sync
  \/ on_long_timeout
  \/ on_timeout
  \/ DnsAnswers
  \/ \E q \in net, r \in Replies : ReceiveTime(q, r)
  \/ \E q \in net : ReceiveDeny(q)
  \/ sntp_task

\* Timers go off, the resolver answers every lookup (it has its own timeout),
\* and tasks run. Nothing is assumed of servers and of the network.
Fairness == WF_vars(on_timeout) /\ WF_vars(DnsAnswers) /\ WF_vars(sntp_task)

Spec == Init /\ [][Next]_vars /\ Fairness

-----------------------------------------------------------------------------
(* Properties. *)

b2n(b) == IF b THEN 1 ELSE 0
Drivers == b2n(timer) + Cardinality(lookups) + results + relooks + memerrs

\* Exactly one thing drives an exchange on, the timer, a lookup or a posted
\* task, and without an exchange nothing of it is left to find a null state:
\* unless a task could not be posted, a Lua error or a missing port left the
\* state behind, or an answer was taken after the end had been posted.
OneDriver == mishaps = {} /\ ~again => Drivers = b2n(on)

\* The answer that sntp_handle_result() will use was given in this exchange,
\* whatever else arrives; there is one if any was taken; and none that was taken
\* has a smaller delay, unless one of stratum 0 was: the code takes that for no
\* answer, and the next one replaces it, with a larger delay too.
BestIsBest ==
  /\ best = Null <=> taken = {}
  /\ best \in taken \cup {Null}
  /\ \A a \in taken : a.exchange = exchanges
  /\ (\A a \in taken : a.stratum # 0) => \A a \in taken : best.delay <= a.delay

\* docs/modules/sntp.md: error 4 is "Timeout, no NTP response received". The task
\* that is posted will report it only if no answer was taken.
TimeoutIsSilence == on /\ results > 0 /\ best.stratum = 0 => taken = {}

\* Every sync() ends, with a time or an error, whatever servers do and the
\* network does, but for the same exceptions and a crash.
SyncEnds == on ~> (~on \/ crashed \/ mishaps # {} \/ again)
=============================================================================
