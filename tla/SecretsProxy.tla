---------------------------- MODULE SecretsProxy ----------------------------
(***************************************************************************)
(* The secrets proxy, deploy/proxy/swap.py: which connections of sandboxes *)
(* it intercepts, and how a request's placeholders become credentials.     *)
(* The exchange answers as secrets_exchange/app.py does (/upstreams and    *)
(* /authorize), from rows that come and go.                                *)
(*                                                                         *)
(* mitmproxy calls the hooks of a connection in turn (http_connect,        *)
(* server_connect, tls_clienthello, then requestheaders for each request), *)
(* and those of different connections interleave at every await.           *)
(*                                                                         *)
(* A definition whose comment says "Mutation" is no part of the system.    *)
(***************************************************************************)
EXTENDS Integers, FiniteSets

CONSTANTS
    Flow,       \* connections of sandboxes
    Name,       \* destinations by name
    Service,    \* secrets of hosts, each with its placeholder
    NoService,
    Approved,   \* the names of each service's upstreams
    HeaderOf,   \* the header that each name's upstream reads a service's credential from
    TTL,        \* UPSTREAMS_TTL
    Timeout     \* EXCHANGE_TIMEOUT

ASSUME ProxyAssumption ==
    /\ Approved \in [Service -> SUBSET Name] /\ DOMAIN HeaderOf = Service \X Name
    /\ NoService \notin Service
    /\ TTL \in Nat /\ Timeout \in Nat \ {0}

VARIABLES
    row,     \* the exchange's rows: is the secret there, and since how long
    cache,   \* _upstreams, _upstreams_at, _upstreams_known
    flow,    \* the connections
    fetch,   \* the call for the list that each connection awaits
    request  \* the request each connection has under way

proxyVars == <<row, cache, flow, fetch, request>>

Address == {"public", "private"}

\* The clock: ages are counted up to one that is past all that matters.
Old == TTL + Timeout + 1

Older(age) == IF age = Old THEN Old ELSE age + 1

\* missed: history, a call had no answer since the list was made.
NoList == [names |-> {}, age |-> Old, known |-> FALSE, missed |-> FALSE]

NoFetch == [state |-> "none", age |-> 0, names |-> {}]

\* Of its placeholders todo are still to be authorized, asked is the one the exchange is
\* at, and has those whose credential is here.
NoRequest == [todo |-> {}, asked |-> NoService, has |-> {}]

ProxyTypeOK ==
    /\ row \in [Service -> [there : BOOLEAN, age : 0 .. Old]]
    /\ cache \in [names : SUBSET Name, age : 0 .. Old, known : BOOLEAN, missed : BOOLEAN]
    /\ ~cache.known => cache.names = {}
    /\ flow \in [Flow -> [pc : {"new", "connecting", "resolving", "hello", "blind", "idle",
                                "authorizing", "sent", "answered", "refused", "plain"},
                          name : Name \cup {"none"}, address : Address \cup {"none"}]]
    /\ \A f \in Flow :
          /\ fetch[f].names \subseteq Name /\ fetch[f].age \in 0 .. Timeout
          /\ fetch[f].state # "none" => flow[f].pc \in {"connecting", "hello"}
          /\ flow[f].pc = "authorizing" <=> request[f].todo # {}
          /\ request[f].todo \cup request[f].has \subseteq Service
          /\ request[f].asked \in request[f].todo \cup {NoService}

ProxyInit ==
    /\ row \in [Service -> [there : BOOLEAN, age : {Old}]]
    /\ cache = NoList
    /\ flow = [f \in Flow |-> [pc |-> "new", name |-> "none", address |-> "none"]]
    /\ fetch = [f \in Flow |-> NoFetch]
    /\ request = [f \in Flow |-> NoRequest]

\* A connection that has no more steps needs no name.
At(f, pc) ==
    [flow[f] EXCEPT !.pc = pc, !.name = IF pc \in {"blind", "refused", "plain"} THEN "none" ELSE @]

Goes(f, pc) == flow' = [flow EXCEPT ![f] = At(f, pc)]

-----------------------------------------------------------------------------
(* The list of intercepted names.                                          *)

\* app.upstreams
Listed == UNION {Approved[s] : s \in {t \in Service : row[t].there}}

\* Mutation: a list that has names stands.
StaleWhenEmpty == cache.names = {} /\ cache.age > TTL

ListIsStale == cache.age > TTL

\* Swap.upstreams: one that finds the list stale asks, though others are asking.
AskList(f) ==
    /\ flow[f].pc \in {"connecting", "hello"} /\ fetch[f].state = "none" /\ ListIsStale
    /\ fetch' = [fetch EXCEPT ![f] = [state |-> "asked", age |-> 0, names |-> {}]]
    /\ UNCHANGED <<row, cache, flow, request>>

ExchangeLists(f) ==
    /\ fetch[f].state = "asked"
    /\ fetch' = [fetch EXCEPT ![f] = [@ EXCEPT !.state = "answered", !.names = Listed]]
    /\ UNCHANGED <<row, cache, flow, request>>

Answer(f) == [names |-> fetch[f].names, age |-> 0, known |-> TRUE, missed |-> FALSE]

\* "While the exchange gives no answer, the last list stands."
Missed == [cache EXCEPT !.age = 0, !.missed = TRUE]

\* The lists that upstreams may return with, none while it awaits the exchange.
Upstreams(f) ==
    CASE fetch[f].state = "none" -> IF ListIsStale THEN {} ELSE {cache}
      [] fetch[f].state = "asked" -> {Missed}
      [] fetch[f].state = "answered" -> {Missed, Answer(f)}

\* The list is set, and the connection goes on without a pause.
HasList(f, list, pc) ==
    /\ cache' = list /\ Goes(f, pc)
    /\ fetch' = [fetch EXCEPT ![f] = NoFetch]
    /\ UNCHANGED <<row, request>>

-----------------------------------------------------------------------------
(* Connections.                                                            *)

\* is_reachable
Reachable(found) == found # {} /\ found \subseteq {"public"}

\* http_connect, and the plain branch of requestheaders.
Connect(f) ==
    /\ flow[f].pc = "new"
    /\ \E found \in SUBSET Address, n \in Name :
          IF Reachable(found) THEN flow' = [flow EXCEPT ![f].name = n, ![f].pc = "connecting"]
          ELSE Goes(f, "refused")
    /\ UNCHANGED <<row, cache, fetch, request>>

\* server_connect, up to where it resolves the name.
ServerConnect(f) ==
    /\ flow[f].pc = "connecting"
    /\ \E list \in Upstreams(f) : HasList(f, list, IF list.known THEN "resolving" ELSE "refused")

\* "Pin every connection ... to the address checked."
Pinned(found) == found

Pin(f) ==
    /\ flow[f].pc = "resolving"
    /\ \E found \in SUBSET Address :
          \/ ~Reachable(found) /\ Goes(f, "refused")
          \/ /\ Reachable(found)
             /\ \E a \in Pinned(found), pc \in {"hello", "plain"} :
                   flow' = [flow EXCEPT ![f] = [At(f, pc) EXCEPT !.address = a]]
    /\ UNCHANGED <<row, cache, fetch, request>>

ClientHello(f) ==
    /\ flow[f].pc = "hello"
    /\ \E list \in Upstreams(f) :
          HasList(f, list, IF flow[f].name \in list.names THEN "idle" ELSE "blind")

-----------------------------------------------------------------------------
(* Requests of an intercepted connection, one after the other.             *)

\* The proxy answers itself, and nothing is sent.
Answered(f) == Goes(f, "answered") /\ request' = [request EXCEPT ![f] = NoRequest]

\* requestheaders, and swap up to the first placeholder: the authority must be the name.
Request(f) ==
    /\ flow[f].pc \in {"idle", "sent", "answered"}
    /\ \E carries \in SUBSET Service, authority \in Name :
          \/ carries # {} /\ authority # flow[f].name
             /\ Answered(f)
          \/ /\ carries = {} \/ authority = flow[f].name
             /\ Goes(f, IF carries = {} THEN "sent" ELSE "authorizing")
             /\ request' = [request EXCEPT ![f] = [NoRequest EXCEPT !.todo = carries]]
    /\ UNCHANGED <<row, cache, fetch>>

\* app.authorize, up to the secret's value.
Allowed(f, s) == row[s].there /\ flow[f].name \in Approved[s]

Ask(f) ==
    /\ flow[f].pc = "authorizing" /\ request[f].asked = NoService
    /\ \E s \in request[f].todo :
          \/ Allowed(f, s) /\ request' = [request EXCEPT ![f].asked = s] /\ UNCHANGED flow
          \/ ~Allowed(f, s) /\ Answered(f)
    /\ UNCHANGED <<row, cache, fetch>>

\* Mutation: the last placeholder for a header wins.
NoConflict(f, s) == FALSE

Conflict(f, s) ==
    \E t \in request[f].has : HeaderOf[<<t, flow[f].name>>] = HeaderOf[<<s, flow[f].name>>]

\* The exchange's answer with the credential; the last one sends the request.
Issued(f) ==
    /\ request[f].asked # NoService
    /\ LET s == request[f].asked IN
       \/ Conflict(f, s) /\ Answered(f)
       \/ /\ ~Conflict(f, s)
          /\ Goes(f, IF request[f].todo = {s} THEN "sent" ELSE "authorizing")
          /\ request' = [request EXCEPT ![f].asked = NoService, ![f].todo = @ \ {s},
                                        ![f].has = @ \cup {s}]
    /\ UNCHANGED <<row, cache, fetch>>

GivenUp(f) == Answered(f)

\* The exchange is not there or too late, or it has no value.
Silent(f) ==
    /\ flow[f].pc = "authorizing" /\ GivenUp(f)
    /\ UNCHANGED <<row, cache, fetch>>

-----------------------------------------------------------------------------
\* A secret comes or goes with its host.
RowChanges(s) ==
    /\ row' = [row EXCEPT ![s] = [there |-> ~@.there, age |-> 0]]
    /\ UNCHANGED <<cache, flow, fetch, request>>

\* No call for the list takes longer than its timeout.
ProxyTick ==
    /\ \A f \in Flow : fetch[f].state # "none" => fetch[f].age < Timeout
    /\ row' = [s \in Service |-> [row[s] EXCEPT !.age = Older(@)]]
    /\ cache' = [cache EXCEPT !.age = Older(@)]
    /\ fetch' = [f \in Flow |-> IF fetch[f].state = "none" THEN NoFetch
                                 ELSE [fetch[f] EXCEPT !.age = @ + 1]]
    /\ UNCHANGED <<flow, request>>

FlowStep(f) ==
    \/ AskList(f) \/ ExchangeLists(f) \/ Connect(f) \/ ServerConnect(f) \/ Pin(f) \/ ClientHello(f)
    \/ Request(f) \/ Ask(f) \/ Issued(f) \/ Silent(f)

ProxyNext ==
    \/ \E f \in Flow : FlowStep(f)
    \/ \E s \in Service : RowChanges(s)
    \/ ProxyTick

ProxySpec == ProxyInit /\ [][ProxyNext]_proxyVars

-----------------------------------------------------------------------------
\* "Every placeholder is authorized first. Then all are replaced at once, so a refusal
\* leaves the request untouched and unsent" (swap): what is sent has the credential of each
\* placeholder it carried, each in a header of its own and approved for the connection's
\* name.
SwappedWhole ==
    \A f \in Flow : flow[f].pc = "sent" =>
        /\ request[f].todo = {}
        /\ \A s \in request[f].has : flow[f].name \in Approved[s]
        /\ \A s, t \in request[f].has :
              HeaderOf[<<s, flow[f].name>>] = HeaderOf[<<t, flow[f].name>>] => s = t

\* The window in which a row's change may go unseen: the list stands for UPSTREAMS_TTL, and
\* its answer may have been under way for EXCHANGE_TIMEOUT.
LongSince(s) == row[s].age > TTL + Timeout

\* "It terminates TLS only for the hosts the exchange lists" (docs/architecture.md):
\* however calls for the list overlap, a connection goes by rows that stand since before
\* the window, unless the exchange gave no answer; and never before it gave one.
DecidedByRecentList ==
    [][\A f \in Flow : flow[f].pc = "hello" /\ flow'[f].pc \in {"idle", "blind"} =>
          /\ cache'.known
          /\ \/ cache'.missed
             \/ /\ flow'[f].pc = "blind" =>
                      \A s \in Service : row[s].there /\ LongSince(s) =>
                                             flow[f].name \notin Approved[s]
                /\ flow'[f].pc = "idle" =>
                      \E s \in Service : flow[f].name \in Approved[s]
                                         /\ (row[s].there \/ ~LongSince(s))]_proxyVars

\* "A loopback, private, link-local, or metadata destination is refused": the address a
\* connection goes to is one that was checked, whatever its name resolves to later.
ConnectsToChecked == \A f \in Flow : flow[f].address # "private"

\* Nothing leaves the proxy half swapped, or for an address that was not checked (swap.py).
ProxyInv == ProxyTypeOK /\ SwappedWhole /\ ConnectsToChecked

=============================================================================
