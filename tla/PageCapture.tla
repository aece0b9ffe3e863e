----------------------------- MODULE PageCapture -----------------------------
(***************************************************************************)
(* One run's browser: Capturer and RequestGuard of capture/screenshot.py   *)
(* over the threads of capture/pinning_proxy.py.                           *)
(*                                                                         *)
(* A run captures one page after the other with one browser, launched when *)
(* it is first needed and again when it was lost.  The browser connects    *)
(* through a local proxy with a thread for each connection; a thread goes  *)
(* on when its page is closed, and when its proxy is.                      *)
(***************************************************************************)
EXTENDS Naturals, Sequences, SequencesExt

CONSTANTS Conns,         \* bound: connections at one time
          NoConn,
          Addresses,     \* what a name can resolve to
          Public,        \* the addresses the policy lets through
          NoProxy,
          MaxCaptures,   \* bound: captures of the run
          MaxTroubles,   \* bound: browsers lost, launches and closes that raise
          MaxRefusals    \* bound: connections the proxies refuse

ASSUME PublicAssumption   == Public \subseteq Addresses
ASSUME NoProxyAssumption  == NoProxy \notin Nat
ASSUME CapturesAssumption == MaxCaptures \in Nat
ASSUME TroublesAssumption == MaxTroubles \in Nat
ASSUME RefusalsAssumption == MaxRefusals \in Nat

VARIABLES
    browser,  \* "none", "connected", or "gone": lost while the capturer holds it
    proxy,    \* the capturer's proxy, a number in 1..Len(blocked)
    blocked,  \* of each proxy: the refusals it has recorded, by their number
    refusals, \* history: of each refusal the page, and the capture then in hand
    conns,    \* the connections and their threads
    page,     \* the capture that is in hand, or was last
    step,     \* where it stands
    before,   \* proxy_blocked_before
    navigationBlocked, \* the guard has refused a navigation of the main frame
    results,  \* of each capture: how it ended, and what meta says was blocked
    troubles

capturer == << browser, proxy, page, step, before >>
threads  == << blocked, refusals, conns >>
vars     == << capturer, threads, navigationBlocked, results, troubles >>

Conn == [proxy : Nat, page : Nat, state : {"handshake", "checked", "open"},
         addresses : SUBSET Addresses]

Init ==
    /\ browser = "none"
    /\ proxy = NoProxy
    /\ blocked = << >>
    /\ refusals = << >>
    /\ conns = [k \in Conns |-> NoConn]
    /\ page = 0
    /\ step = "idle"
    /\ before = 0
    /\ navigationBlocked = FALSE
    /\ results = << >>
    /\ troubles = 0

Trouble == troubles < MaxTroubles /\ troubles' = troubles + 1

-----------------------------------------------------------------------------
(***************************************************************************)
(* The proxy.                                                              *)
(***************************************************************************)

\* The page in hand opens a connection.
_accept(k) ==
    /\ conns[k] = NoConn
    /\ browser = "connected" /\ proxy # NoProxy /\ step \in {"loading", "settled", "checked"}
    /\ conns' = [conns EXCEPT ![k] =
          [proxy |-> proxy, page |-> page, state |-> "handshake", addresses |-> {}]]
    /\ UNCHANGED << capturer, blocked, refusals, navigationBlocked, results, troubles >>

InHand == IF step = "idle" THEN 0 ELSE page

\* One lookup; its answer may differ from that of any other.  Nothing, or
\* anything that is not public, is refused ...
Refuse(k) ==
    /\ conns[k] # NoConn /\ conns[k].state = "handshake"
    /\ Len(refusals) < MaxRefusals
    /\ \E answer \in SUBSET Addresses : answer = {} \/ ~ answer \subseteq Public
    /\ refusals' = Append(refusals, [page |-> conns[k].page, during |-> InHand])
    /\ blocked' = [blocked EXCEPT ![conns[k].proxy] = Append(@, Len(refusals) + 1)]
    /\ conns' = [conns EXCEPT ![k] = NoConn]
    /\ UNCHANGED << capturer, navigationBlocked, results, troubles >>

\* ... and the addresses of an answer that passes are kept for the connection.
resolve_host(k) ==
    /\ conns[k] # NoConn /\ conns[k].state = "handshake"
    /\ \E answer \in SUBSET Public :
          /\ answer # {}
          /\ conns' = [conns EXCEPT ![k].state = "checked", ![k].addresses = answer]
    /\ UNCHANGED << capturer, blocked, refusals, navigationBlocked, results, troubles >>

ResolvedAgain(k)  == Addresses
DialTargets(k)    == conns[k].addresses

\* They are dialled in turn, and the first that answers is used.
_dial(k) ==
    /\ conns[k] # NoConn /\ conns[k].state = "checked"
    /\ \E address \in DialTargets(k) :
          \/ conns' = [conns EXCEPT ![k].state = "open", ![k].addresses = {address}]
          \/ /\ conns[k].addresses \ {address} # {}
             /\ conns' = [conns EXCEPT ![k].addresses = @ \ {address}]
    /\ UNCHANGED << capturer, blocked, refusals, navigationBlocked, results, troubles >>

\* A broken handshake, no address that answers, or either end of the pipe closed.
EndThread(k) ==
    /\ conns[k] # NoConn
    /\ conns' = [conns EXCEPT ![k] = NoConn]
    /\ UNCHANGED << capturer, blocked, refusals, navigationBlocked, results, troubles >>

-----------------------------------------------------------------------------
(***************************************************************************)
(* The capturer.                                                           *)
(***************************************************************************)

EndWith(how, reported) ==
    /\ results' = Append(results, [how |-> how, reported |-> reported])
    /\ step' = "idle"

KeepProxy    == browser' = "none" /\ UNCHANGED proxy
ForgetThem   == browser' = "none" /\ proxy' = NoProxy

\* The URL is checked before anything is launched.
capture_url ==
    /\ step = "idle" /\ page < MaxCaptures
    /\ page' = page + 1
    /\ navigationBlocked' = FALSE
    /\ \/ step' = "starting" /\ UNCHANGED results
       \/ EndWith("refused", {})
    /\ UNCHANGED << browser, proxy, before, threads, troubles >>

\* A browser that was lost is closed and replaced.
_browser_instance ==
    /\ step = "starting"
    /\ \/ browser = "connected" /\ UNCHANGED << browser, proxy >>
       \/ browser = "none" /\ browser' = "connected" /\ UNCHANGED proxy
       \/ browser = "gone" /\ browser' = "connected" /\ proxy' = NoProxy
    /\ step' = "launched"
    /\ UNCHANGED << page, before, threads, navigationBlocked, results, troubles >>

\* Closing the lost browser or launching another raises: neither a browser nor
\* a proxy is held after it.  The driver may be, which no step here looks at.
LaunchFails ==
    /\ step = "starting" /\ browser # "connected"
    /\ Trouble
    /\ ForgetThem
    /\ EndWith("failed", {})
    /\ UNCHANGED << page, before, threads, navigationBlocked >>

MarkOfRun(n) == 0
MarkNow(n)   == n

\* The proxy starts with the first page of its browser, and the length of its
\* list is noted.
_pinning_proxy ==
    /\ step = "launched"
    /\ IF proxy = NoProxy
         THEN /\ blocked' = Append(blocked, << >>)
              /\ proxy' = Len(blocked) + 1
              /\ before' = 0
         ELSE before' = MarkNow(Len(blocked[proxy])) /\ UNCHANGED << blocked, proxy >>
    /\ step' = "loading"
    /\ UNCHANGED << browser, page, refusals, conns, navigationBlocked, results, troubles >>

\* The guard refuses a navigation of the page; what else it refuses only adds to
\* its own list.
handle ==
    /\ step \in {"loading", "settled"} /\ browser = "connected"
    /\ ~ navigationBlocked
    /\ navigationBlocked' = TRUE
    /\ UNCHANGED << capturer, threads, results, troubles >>

Since(n)    == {blocked[proxy][i] : i \in (n + 1)..Len(blocked[proxy])}
RefusedSince == Since(before)

\* goto raises: a timeout, a page that does not load, a browser that is lost; it
\* may be lost before there is a context to load the page in.
GotoRaises ==
    /\ step = "loading"
    /\ \/ EndWith(IF navigationBlocked \/ RefusedSince # {} THEN "refused" ELSE "failed", {})
       \/ browser = "gone" /\ EndWith("failed", {})
    /\ UNCHANGED << browser, proxy, page, before, threads, navigationBlocked, troubles >>

GotoReturns ==
    /\ step = "loading" /\ browser = "connected"
    /\ step' = "settled"
    /\ UNCHANGED << browser, proxy, page, before, threads, navigationBlocked, results, troubles >>

\* Where the page has come to is checked once more; the wait before it raises
\* when the browser is gone ...
CheckFinal ==
    /\ step = "settled"
    /\ \/ ~ navigationBlocked /\ browser = "connected" /\ step' = "checked" /\ UNCHANGED results
       \/ EndWith("refused", {})
       \/ browser # "connected" /\ EndWith("failed", {})
    /\ UNCHANGED << browser, proxy, page, before, threads, navigationBlocked, troubles >>

\* ... and the artifacts are made, with the list of what was blocked.  The context
\* is closed after it is read: the page is in hand until then.
MakeArtifacts ==
    /\ step = "checked"
    /\ \/ browser = "connected" /\ EndWith("captured", RefusedSince)
       \/ EndWith("failed", {})
    /\ UNCHANGED << browser, proxy, page, before, threads, navigationBlocked, troubles >>

LoseBrowser ==
    /\ browser = "connected"
    /\ Trouble
    /\ browser' = "gone"
    /\ UNCHANGED << proxy, page, step, before, threads, navigationBlocked, results >>

\* The run is over; the capturer could be used again.
close ==
    /\ step = "idle" /\ browser # "none"
    /\ ForgetThem
    /\ UNCHANGED << page, step, before, threads, navigationBlocked, results, troubles >>

PinningProxy(k) == _accept(k) \/ Refuse(k) \/ resolve_host(k) \/ _dial(k) \/ EndThread(k)

Capturer ==
    \/ capture_url \/ _browser_instance \/ LaunchFails \/ _pinning_proxy
    \/ handle \/ GotoRaises \/ GotoReturns \/ CheckFinal \/ MakeArtifacts \/ close

Next == Capturer \/ LoseBrowser \/ \E k \in Conns : PinningProxy(k)

Spec == Init /\ [][Next]_vars

-----------------------------------------------------------------------------
(***************************************************************************)
(* Properties.                                                             *)
(***************************************************************************)

\* Every variable has its type, and the capturer holds no proxy without a browser.
TypeOK ==
    /\ browser \in {"none", "connected", "gone"}
    /\ proxy \in (1..Len(blocked)) \cup {NoProxy}
    /\ browser = "none" => proxy = NoProxy
    /\ \A g \in DOMAIN blocked : blocked[g] \in Seq(DOMAIN refusals)
    /\ refusals \in Seq([page : 1..page, during : 0..page])
    /\ conns \in [Conns -> Conn \cup {NoConn}]
    /\ page \in 0..MaxCaptures
    /\ step \in {"idle", "starting", "launched", "loading", "settled", "checked"}
    /\ before \in Nat
    /\ navigationBlocked \in BOOLEAN
    /\ Len(results) = IF step = "idle" THEN page ELSE page - 1
    /\ troubles \in 0..MaxTroubles

\* A connection that is open goes to an address that was checked for it, whatever
\* a second lookup of the name would have said.
DialledAsChecked ==
    \A k \in Conns : conns[k] # NoConn /\ conns[k].state = "open" => conns[k].addresses \subseteq Public

\* What a captured page's meta says was blocked is complete and in time: every
\* connection of the page that was refused while it was in hand is there, and
\* none is that was refused during an earlier capture or between two, however
\* browsers and proxies were lost and replaced.  (A thread that an earlier page
\* has left behind may add to it.)
RefusalsReported ==
    \A p \in DOMAIN results : results[p].how = "captured" =>
        /\ \A i \in results[p].reported : refusals[i].during = p
        /\ \A i \in DOMAIN refusals :
              refusals[i] = [page |-> p, during |-> p] => i \in results[p].reported
=============================================================================
