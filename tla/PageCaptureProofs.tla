-------------------------- MODULE PageCaptureProofs --------------------------
(***************************************************************************)
(* One run's browser, for any number of connections, captures, lost        *)
(* browsers and refusals, and for every set of addresses.                  *)
(*                                                                         *)
(* The list a page is judged by belongs to a proxy, and the page is given  *)
(* what was added to it since the page began.  That is right because, from *)
(* the moment the length of the list is noted until the capture ends, the  *)
(* proxy is not replaced and every connection of the page goes through it. *)
(***************************************************************************)
EXTENDS PageCapture, SequenceTheorems, TLAPS

Fresh  == step \in {"starting", "launched"}           \* nothing of the page is there yet
AtWork == step \in {"loading", "settled", "checked"}  \* it is loaded through the proxy

ConnInv(c) ==
    /\ c \in Conn
    /\ c.page \in 1..page
    /\ c.proxy \in 1..Len(blocked)
    /\ c.state # "handshake" => c.addresses \subseteq Public
    /\ Fresh => c.page # page
    /\ AtWork /\ c.page = page => c.proxy = proxy

ThreadInv ==
    /\ blocked \in Seq(Seq(Nat))
    /\ \A k \in Conns : conns[k] # NoConn => ConnInv(conns[k])

\* A page that has not begun to load has been refused nothing, and the proxy's
\* list above the mark is what was refused during the capture in hand.
RefusalInv ==
    /\ Fresh => \A i \in DOMAIN refusals : refusals[i].page # page
    /\ AtWork =>
          /\ proxy \in 1..Len(blocked)
          /\ before <= Len(blocked[proxy])
          /\ \A j \in (before + 1)..Len(blocked[proxy]) :
                refusals[blocked[proxy][j]].during = page
          /\ \A i \in DOMAIN refusals :
                refusals[i].page = page /\ refusals[i].during = page =>
                    \E j \in (before + 1)..Len(blocked[proxy]) : blocked[proxy][j] = i

ResultInv ==
    /\ results \in Seq([how : {"captured", "refused", "failed"}, reported : SUBSET (DOMAIN refusals)])
    /\ RefusalsReported

\* From its launch to the end of the capture there is a browser, lost or not.
BrowserInv == browser = "none" => step \in {"idle", "starting"}

PageInv == TypeOK /\ BrowserInv /\ ThreadInv /\ RefusalInv /\ ResultInv

-----------------------------------------------------------------------------
(* The numbers and the lists. *)

LEMMA SeqWidens ==
    ASSUME NEW S, NEW T, S \subseteq T, NEW s \in Seq(S)
    PROVE  s \in Seq(T)
<1>1. s \in [1..Len(s) -> S] /\ Len(s) \in Nat
  BY LenProperties
<1>2. s \in [1..Len(s) -> T]
  BY <1>1
<1> QED
  BY <1>1, <1>2, SeqDef

LEMMA Numbers ==
    ASSUME PageInv
    PROVE  /\ page \in 0..MaxCaptures /\ MaxCaptures \in Nat /\ page \in Nat
           /\ Len(refusals) \in Nat /\ DOMAIN refusals = 1..Len(refusals)
           /\ Len(results) \in Nat /\ DOMAIN results = 1..Len(results)
           /\ Len(blocked) \in Nat /\ DOMAIN blocked = 1..Len(blocked)
           /\ before \in Nat
           /\ proxy # NoProxy <=> proxy \in 1..Len(blocked)
<1>1. /\ page \in 0..MaxCaptures /\ MaxCaptures \in Nat /\ before \in Nat
      /\ proxy \in (1..Len(blocked)) \cup {NoProxy}
  BY CapturesAssumption DEF PageInv, TypeOK
<1>2. Len(refusals) \in Nat /\ DOMAIN refusals = 1..Len(refusals)
  BY LenProperties DEF PageInv, TypeOK
<1>3. Len(results) \in Nat /\ DOMAIN results = 1..Len(results)
  BY LenProperties DEF PageInv, ResultInv
<1>4. Len(blocked) \in Nat /\ DOMAIN blocked = 1..Len(blocked)
  BY LenProperties DEF PageInv, ThreadInv
<1>5. proxy # NoProxy <=> proxy \in 1..Len(blocked)
  BY <1>1, <1>4, NoProxyAssumption
<1> QED
  BY <1>1, <1>2, <1>3, <1>4, <1>5

\* How many captures have ended.
LEMMA Ended ==
    ASSUME PageInv
    PROVE  /\ step = "idle" => Len(results) = page
           /\ step # "idle" => Len(results) = page - 1 /\ page \in 1..MaxCaptures
<1>1. /\ step = "idle" => Len(results) = page
      /\ step # "idle" => Len(results) = page - 1
  BY DEF PageInv, TypeOK
<1>2. Len(results) = page - 1 => page \in 1..MaxCaptures
  BY Numbers
<1> QED
  BY <1>1, <1>2

LEMMA Lists ==
    ASSUME PageInv, NEW g \in 1..Len(blocked)
    PROVE  /\ blocked[g] \in Seq(DOMAIN refusals)
           /\ blocked[g] \in Seq(Nat)
           /\ Len(blocked[g]) \in Nat
           /\ \A j \in 1..Len(blocked[g]) : blocked[g][j] \in DOMAIN refusals
<1>1. blocked[g] \in Seq(DOMAIN refusals)
  BY Numbers DEF PageInv, TypeOK
<1>2. blocked[g] \in Seq(Nat)
  <2>1. DOMAIN refusals \subseteq Nat
    BY Numbers
  <2> QED
    BY <1>1, <2>1, SeqWidens
<1>3. Len(blocked[g]) \in Nat /\ \A j \in 1..Len(blocked[g]) : blocked[g][j] \in DOMAIN refusals
  BY <1>1, LenProperties, ElementOfSeq
<1> QED
  BY <1>1, <1>2, <1>3

LEMMA InitPage == Init => PageInv
<1> SUFFICES ASSUME Init PROVE PageInv
  OBVIOUS
<1>1. /\ blocked = << >> /\ refusals = << >> /\ results = << >> /\ page = 0 /\ before = 0
      /\ troubles = 0
  BY DEF Init
<1>2. /\ blocked \in Seq(Seq(Nat)) /\ Len(blocked) = 0 /\ DOMAIN blocked = {}
      /\ refusals \in Seq([page : 1..page, during : 0..page]) /\ DOMAIN refusals = {}
      /\ results \in Seq([how : {"captured", "refused", "failed"}, reported : SUBSET (DOMAIN refusals)])
      /\ Len(results) = 0 /\ DOMAIN results = {}
  BY <1>1, EmptySeq
<1>3. step = "idle" /\ browser = "none" /\ proxy = NoProxy /\ navigationBlocked = FALSE
      /\ conns = [k \in Conns |-> NoConn]
  BY DEF Init
<1>4. page \in 0..MaxCaptures /\ before \in Nat /\ troubles \in 0..MaxTroubles
  BY <1>1, CapturesAssumption, TroublesAssumption
<1>5. TypeOK
  BY <1>1, <1>2, <1>3, <1>4 DEF TypeOK
<1>6. BrowserInv /\ ThreadInv /\ RefusalInv
  BY <1>2, <1>3 DEF BrowserInv, ThreadInv, RefusalInv, Fresh, AtWork
<1>7. ResultInv
  BY <1>2 DEF ResultInv, RefusalsReported
<1> QED
  BY <1>5, <1>6, <1>7 DEF PageInv

-----------------------------------------------------------------------------
(* The threads. *)

\* A thread that goes on, or ends, and changes nothing but its connection.
LEMMA ThreadStep ==
    ASSUME PageInv, NEW k \in Conns, NEW c, c = NoConn \/ ConnInv(c),
           conns' = [conns EXCEPT ![k] = c],
           UNCHANGED << capturer, blocked, refusals, navigationBlocked, results, troubles >>
    PROVE  PageInv'
<1>1. /\ browser' = browser /\ proxy' = proxy /\ page' = page /\ step' = step
      /\ before' = before /\ blocked' = blocked /\ refusals' = refusals
      /\ navigationBlocked' = navigationBlocked /\ results' = results /\ troubles' = troubles
  BY DEF capturer
<1>2. conns \in [Conns -> Conn \cup {NoConn}]
  BY DEF PageInv, TypeOK
<1>3. c \in Conn \cup {NoConn}
  BY DEF ConnInv
<1>4. /\ conns' \in [Conns -> Conn \cup {NoConn}]
      /\ \A l \in Conns : conns'[l] = IF l = k THEN c ELSE conns[l]
  BY <1>2, <1>3
<1>5. TypeOK'
  BY <1>1, <1>4 DEF PageInv, TypeOK
<1>6. ThreadInv'
  <2>1. ASSUME NEW l \in Conns, conns'[l] # NoConn PROVE ConnInv(conns'[l])
    BY <1>4, <2>1 DEF PageInv, ThreadInv
  <2>2. blocked' \in Seq(Seq(Nat))
    BY <1>1 DEF PageInv, ThreadInv
  <2> QED
    BY <1>1, <2>1, <2>2 DEF ThreadInv, ConnInv, Fresh, AtWork
<1>7. RefusalInv'
  BY <1>1 DEF PageInv, RefusalInv, Fresh, AtWork
<1>8. ResultInv'
  BY <1>1 DEF PageInv, ResultInv, RefusalsReported
<1> QED
  BY <1>1, <1>5, <1>6, <1>7, <1>8 DEF PageInv, BrowserInv

LEMMA AcceptPage ==
    ASSUME PageInv, NEW k \in Conns, _accept(k)
    PROVE  PageInv'
<1> DEFINE c == [proxy |-> proxy, page |-> page, state |-> "handshake", addresses |-> {}]
<1>1. AtWork /\ proxy # NoProxy /\ step # "idle" /\ ~ Fresh
  BY DEF _accept, AtWork, Fresh
<1>2. page \in 1..page /\ page \in Nat /\ proxy \in 1..Len(blocked) /\ proxy \in Nat
  BY <1>1, Ended, Numbers
<1>3. ConnInv(c)
  BY <1>1, <1>2 DEF ConnInv, Conn
<1>4. conns' = [conns EXCEPT ![k] = c]
  BY DEF _accept
<1> HIDE DEF c
<1> QED
  BY <1>3, <1>4, ThreadStep DEF _accept

LEMMA ResolvePage ==
    ASSUME PageInv, NEW k \in Conns, resolve_host(k)
    PROVE  PageInv'
<1>1. PICK answer \in SUBSET Public :
          conns' = [conns EXCEPT ![k].state = "checked", ![k].addresses = answer]
  BY DEF resolve_host
<1> DEFINE c == [conns[k] EXCEPT !.state = "checked", !.addresses = answer]
<1>2. ConnInv(conns[k])
  BY DEF PageInv, ThreadInv, resolve_host
<1>3. ConnInv(c)
  BY <1>2, PublicAssumption DEF ConnInv, Conn
<1>4. conns' = [conns EXCEPT ![k] = c]
  BY <1>1 DEF PageInv, TypeOK
<1> HIDE DEF c
<1> QED
  BY <1>3, <1>4, ThreadStep DEF resolve_host

LEMMA DialPage ==
    ASSUME PageInv, NEW k \in Conns, _dial(k)
    PROVE  PageInv'
<1>1. ConnInv(conns[k]) /\ conns[k].state = "checked"
  BY DEF PageInv, ThreadInv, _dial
<1>2. PICK address \in conns[k].addresses :
          \/ conns' = [conns EXCEPT ![k].state = "open", ![k].addresses = {address}]
          \/ conns' = [conns EXCEPT ![k].addresses = @ \ {address}]
  BY DEF _dial, DialTargets
<1>3. CASE conns' = [conns EXCEPT ![k].state = "open", ![k].addresses = {address}]
  <2> DEFINE c == [conns[k] EXCEPT !.state = "open", !.addresses = {address}]
  <2>1. ConnInv(c)
    BY <1>1, PublicAssumption DEF ConnInv, Conn
  <2>2. conns' = [conns EXCEPT ![k] = c]
    BY <1>3 DEF PageInv, TypeOK
  <2> HIDE DEF c
  <2> QED
    BY <2>1, <2>2, ThreadStep DEF _dial
<1>4. CASE conns' = [conns EXCEPT ![k].addresses = @ \ {address}]
  <2> DEFINE c == [conns[k] EXCEPT !.addresses = @ \ {address}]
  <2>1. ConnInv(c)
    BY <1>1 DEF ConnInv, Conn
  <2>2. conns' = [conns EXCEPT ![k] = c]
    BY <1>4 DEF PageInv, TypeOK
  <2> HIDE DEF c
  <2> QED
    BY <2>1, <2>2, ThreadStep DEF _dial
<1> QED
  BY <1>2, <1>3, <1>4

LEMMA EndThreadPage ==
    ASSUME PageInv, NEW k \in Conns, EndThread(k)
    PROVE  PageInv'
BY ThreadStep DEF EndThread

\* A refusal goes to the list of the proxy the connection came in by.  Only one of
\* the capture in hand can count for it, and one of its own page always does.
LEMMA RefusePage ==
    ASSUME PageInv, NEW k \in Conns, Refuse(k)
    PROVE  PageInv'
<1> DEFINE n == Len(refusals)
           new == [page |-> conns[k].page, during |-> InHand]
           Refused == [page : 1..page, during : 0..page]
           Result(m) == [how : {"captured", "refused", "failed"}, reported : SUBSET (1..m)]
<1>1. /\ browser' = browser /\ proxy' = proxy /\ page' = page /\ step' = step
      /\ before' = before /\ navigationBlocked' = navigationBlocked
      /\ results' = results /\ troubles' = troubles
      /\ refusals' = Append(refusals, new)
      /\ conns' = [conns EXCEPT ![k] = NoConn]
  BY DEF Refuse, capturer
<1>2. /\ conns[k].page \in 1..page
      /\ conns[k].proxy \in 1..Len(blocked)
      /\ AtWork /\ conns[k].page = page => conns[k].proxy = proxy
      /\ Fresh => conns[k].page # page
  BY DEF PageInv, ThreadInv, ConnInv, Refuse
<1>3. PICK g \in 1..Len(blocked) :
          conns[k].proxy = g /\ blocked' = [blocked EXCEPT ![g] = Append(blocked[g], n + 1)]
  BY <1>2 DEF Refuse
<1>4. n \in Nat /\ DOMAIN refusals = 1..n /\ page \in Nat
  BY Numbers
<1>5. new \in Refused
  BY <1>2, <1>4 DEF InHand
<1>6. /\ refusals' \in Seq(Refused)
      /\ DOMAIN refusals' = 1..(n + 1)
      /\ \A i \in 1..n : refusals'[i] = refusals[i]
      /\ refusals'[n + 1] = new
  <2>1. refusals \in Seq(Refused)
    BY DEF PageInv, TypeOK
  <2> HIDE DEF new, Refused
  <2>2. /\ refusals' \in Seq(Refused) /\ Len(refusals') = n + 1
        /\ \A i \in 1..n : refusals'[i] = refusals[i]
        /\ refusals'[n + 1] = new
    BY <1>1, <1>5, <2>1, AppendProperties
  <2> QED
    BY <2>2, LenProperties
<1> DEFINE list == Append(blocked[g], n + 1)
           len == Len(blocked[g])
<1>7. /\ list \in Seq(1..(n + 1)) /\ list \in Seq(Nat) /\ len \in Nat /\ Len(list) = len + 1
      /\ \A j \in 1..len : list[j] = blocked[g][j]
      /\ list[len + 1] = n + 1
  <2>1. blocked[g] \in Seq(1..n) /\ len \in Nat
    BY <1>4, Lists
  <2>2. 1..n \subseteq 1..(n + 1) /\ 1..(n + 1) \subseteq Nat /\ n + 1 \in 1..(n + 1)
    BY <1>4
  <2>3. blocked[g] \in Seq(1..(n + 1))
    BY <2>1, <2>2, SeqWidens
  <2>4. /\ list \in Seq(1..(n + 1)) /\ Len(list) = len + 1
        /\ \A j \in 1..len : list[j] = blocked[g][j]
        /\ list[len + 1] = n + 1
    BY <2>2, <2>3, AppendProperties
  <2> HIDE DEF list, len
  <2> QED
    BY <2>1, <2>2, <2>4, SeqWidens
<1>8. /\ blocked' \in Seq(Seq(Nat)) /\ Len(blocked') = Len(blocked)
      /\ DOMAIN blocked' = 1..Len(blocked)
      /\ \A h \in 1..Len(blocked) : blocked'[h] = IF h = g THEN list ELSE blocked[h]
  <2>1. blocked \in Seq(Seq(Nat)) /\ DOMAIN blocked = 1..Len(blocked)
    BY Numbers DEF PageInv, ThreadInv
  <2> HIDE DEF list
  <2>2. blocked' = [blocked EXCEPT ![g] = list]
    BY <1>3 DEF list
  <2>3. blocked' \in Seq(Seq(Nat)) /\ Len(blocked') = Len(blocked)
    BY <1>7, <2>1, <2>2, ExceptSeq
  <2> QED
    BY <2>1, <2>2, <2>3
<1> HIDE DEF list, len, new, n
<1>9. /\ new.page = conns[k].page
      /\ new.during = IF step = "idle" THEN 0 ELSE page
  BY DEF new, InHand
<1>10. TypeOK'
  <2>1. \A h \in DOMAIN blocked' : blocked'[h] \in Seq(DOMAIN refusals')
    <3> SUFFICES ASSUME NEW h \in 1..Len(blocked) PROVE blocked'[h] \in Seq(1..(n + 1))
      BY <1>6, <1>8
    <3>1. CASE h = g
      BY <1>7, <1>8, <3>1
    <3>2. CASE h # g
      <4>1. blocked[h] \in Seq(1..n) /\ 1..n \subseteq 1..(n + 1)
        BY <1>4, Lists
      <4>2. blocked[h] \in Seq(1..(n + 1))
        BY <4>1, SeqWidens
      <4> QED
        BY <1>8, <3>2, <4>2
    <3> QED
      BY <3>1, <3>2
  <2>2. conns' \in [Conns -> Conn \cup {NoConn}]
    BY <1>1 DEF PageInv, TypeOK
  <2> QED
    BY <1>1, <1>6, <1>8, <2>1, <2>2 DEF PageInv, TypeOK
<1>11. ThreadInv'
  <2>1. \A l \in Conns : conns'[l] # NoConn => ConnInv(conns[l]) /\ conns'[l] = conns[l]
    BY <1>1 DEF PageInv, TypeOK, ThreadInv
  <2> QED
    BY <1>1, <1>8, <2>1 DEF ThreadInv, ConnInv, Fresh, AtWork
<1>12. RefusalInv'
  <2>1. ASSUME Fresh, NEW i \in 1..(n + 1) PROVE refusals'[i].page # page
    <3>1. CASE i = n + 1
      BY <1>2, <1>6, <1>9, <2>1, <3>1
    <3>2. CASE i \in 1..n
      BY <1>4, <1>6, <2>1, <3>2 DEF PageInv, RefusalInv
    <3> QED
      BY <1>4, <3>1, <3>2
  <2>2. CASE AtWork
    <3>1. /\ proxy \in 1..Len(blocked) /\ step # "idle"
          /\ before <= Len(blocked[proxy])
          /\ \A j \in (before + 1)..Len(blocked[proxy]) :
                refusals[blocked[proxy][j]].during = page
          /\ \A i \in 1..n :
                refusals[i].page = page /\ refusals[i].during = page =>
                    \E j \in (before + 1)..Len(blocked[proxy]) : blocked[proxy][j] = i
      BY <1>4, <2>2 DEF PageInv, RefusalInv, AtWork
    <3>2. PICK a, b : a = blocked[proxy] /\ b = blocked'[proxy]
      OBVIOUS
    <3>3. /\ before \in Nat /\ Len(a) \in Nat /\ before <= Len(a)
          /\ \A j \in 1..Len(a) : a[j] \in 1..n
      BY <1>4, <3>1, <3>2, Numbers, Lists
    <3>4. /\ \A j \in 1..Len(a) : b[j] = a[j]
          /\ \/ proxy = g /\ Len(b) = Len(a) + 1 /\ b[Len(a) + 1] = n + 1
             \/ proxy # g /\ Len(b) = Len(a)
      <4>1. CASE proxy = g
        <5>1. b = list /\ Len(a) = len /\ a = blocked[g]
          BY <1>8, <3>1, <3>2, <4>1 DEF len
        <5> QED
          BY <1>7, <4>1, <5>1
      <4>2. CASE proxy # g
        BY <1>8, <3>1, <3>2, <4>2
      <4> QED
        BY <4>1, <4>2
    <3>5. ASSUME NEW j \in (before + 1)..Len(b)
          PROVE  refusals'[b[j]].during = page
      <4>1. CASE j \in 1..Len(a)
        <5>1. j \in (before + 1)..Len(a)
          BY <3>3, <4>1
        <5>2. b[j] = a[j] /\ a[j] \in 1..n
          BY <3>3, <3>4, <4>1
        <5> QED
          BY <1>6, <3>1, <3>2, <5>1, <5>2
      <4>2. CASE j \notin 1..Len(a)
        <5>1. j = Len(a) + 1 /\ b[j] = n + 1
          BY <3>3, <3>4, <4>2
        <5> QED
          BY <1>6, <1>9, <3>1, <5>1
      <4> QED
        BY <4>1, <4>2
    <3>6. ASSUME NEW i \in 1..(n + 1), refusals'[i].page = page, refusals'[i].during = page
          PROVE  \E j \in (before + 1)..Len(b) : b[j] = i
      <4>1. CASE i = n + 1
        <5>1. conns[k].page = page
          BY <1>6, <1>9, <3>6, <4>1
        <5>2. proxy = g
          BY <1>2, <1>3, <2>2, <5>1
        <5>3. Len(b) = Len(a) + 1 /\ b[Len(a) + 1] = n + 1
          BY <3>4, <5>2
        <5> QED
          BY <3>3, <4>1, <5>3
      <4>2. CASE i \in 1..n
        <5>1. refusals[i].page = page /\ refusals[i].during = page
          BY <1>6, <3>6, <4>2
        <5>2. PICK j \in (before + 1)..Len(a) : a[j] = i
          BY <3>1, <3>2, <4>2, <5>1
        <5>3. j \in 1..Len(a)
          BY <3>3
        <5>4. j \in (before + 1)..Len(b)
          BY <3>3, <3>4
        <5> QED
          BY <3>4, <5>2, <5>3, <5>4
      <4> QED
        BY <1>4, <4>1, <4>2
    <3>7. before <= Len(b)
      BY <3>3, <3>4
    <3>8. proxy' = proxy /\ before' = before /\ page' = page /\ Len(blocked') = Len(blocked)
      BY <1>1, <1>8
    <3>9. AtWork' /\ ~ Fresh'
      BY <1>1, <2>2 DEF AtWork, Fresh
    <3> QED
      BY <1>6, <3>1, <3>2, <3>5, <3>6, <3>7, <3>8, <3>9 DEF RefusalInv
  <2>3. CASE ~ AtWork
    BY <1>1, <1>6, <2>1, <2>3 DEF RefusalInv, Fresh, AtWork
  <2> QED
    BY <2>2, <2>3
<1>13. ResultInv'
  <2>1. results' \in Seq(Result(n + 1))
    <3>1. results \in Seq(Result(n))
      BY <1>4 DEF PageInv, ResultInv
    <3>2. 1..n \subseteq 1..(n + 1)
      BY <1>4
    <3>3. Result(n) \subseteq Result(n + 1)
      BY <3>2
    <3> HIDE DEF Result
    <3> QED
      BY <1>1, <3>1, <3>3, SeqWidens
  <2>2. ASSUME NEW p \in DOMAIN results, results[p].how = "captured"
        PROVE  /\ \A i \in results[p].reported : refusals'[i].during = p
               /\ \A i \in DOMAIN refusals' :
                     refusals'[i] = [page |-> p, during |-> p] => i \in results[p].reported
    <3>1. results[p].reported \subseteq 1..n
      <4>1. results \in Seq(Result(n))
        BY <1>4 DEF PageInv, ResultInv
      <4>2. results[p] \in Result(n)
        BY <4>1, Numbers, ElementOfSeq
      <4> QED
        BY <4>2
    <3>2. new.during # p
      <4>1. p \in 1..Len(results) /\ Len(results) \in Nat
        BY Numbers
      <4>2. CASE step = "idle"
        <5>1. new.during = 0
          BY <1>9, <4>2
        <5> QED
          BY <4>1, <5>1
      <4>3. CASE step # "idle"
        <5>1. new.during = page /\ Len(results) = page - 1
          BY <1>9, <4>3, Ended
        <5> QED
          BY <1>4, <4>1, <5>1
      <4> QED
        BY <4>2, <4>3
    <3>3. /\ \A i \in results[p].reported : refusals[i].during = p
          /\ \A i \in 1..n :
                refusals[i] = [page |-> p, during |-> p] => i \in results[p].reported
      BY <1>4, <2>2 DEF PageInv, ResultInv, RefusalsReported
    <3>4. ASSUME NEW i \in 1..(n + 1), refusals'[i] = [page |-> p, during |-> p]
          PROVE  i \in results[p].reported
      <4>1. refusals'[i].during = p
        BY <3>4
      <4>2. i # n + 1
        BY <1>6, <3>2, <4>1
      <4>3. i \in 1..n
        BY <1>4, <4>2
      <4> QED
        BY <1>6, <3>3, <3>4, <4>3
    <3> QED
      BY <1>6, <3>1, <3>3, <3>4
  <2> QED
    BY <1>1, <1>6, <2>1, <2>2 DEF ResultInv, RefusalsReported
<1> QED
  BY <1>1, <1>10, <1>11, <1>12, <1>13 DEF PageInv, BrowserInv

-----------------------------------------------------------------------------
(* The capturer. *)

\* What the capturer holds has its types after a step.
Held ==
    /\ browser' \in {"none", "connected", "gone"}
    /\ proxy' \in (1..Len(blocked)) \cup {NoProxy}
    /\ browser' = "none" => proxy' = NoProxy
    /\ browser' = "none" => step' \in {"idle", "starting"}
    /\ navigationBlocked' \in BOOLEAN
    /\ troubles' \in 0..MaxTroubles

LEMMA Holds ==
    ASSUME PageInv
    PROVE  /\ UNCHANGED << browser, proxy >> =>
                 /\ browser' \in {"none", "connected", "gone"}
                 /\ proxy' \in (1..Len(blocked)) \cup {NoProxy}
                 /\ browser' = "none" => proxy' = NoProxy
           /\ UNCHANGED navigationBlocked => navigationBlocked' \in BOOLEAN
           /\ UNCHANGED troubles => troubles' \in 0..MaxTroubles
           /\ Trouble => troubles' \in 0..MaxTroubles
<1>1. Trouble => troubles' \in 0..MaxTroubles
  <2>1. troubles \in 0..MaxTroubles /\ MaxTroubles \in Nat
    BY TroublesAssumption DEF PageInv, TypeOK
  <2> QED
    BY <2>1 DEF Trouble
<1> QED
  BY <1>1 DEF PageInv, TypeOK

\* A step that neither begins nor ends a capture, nor touches a list.
LEMMA CapturerStep ==
    ASSUME PageInv, Held, UNCHANGED << threads, page, results, before >>,
           step' \in {"idle", "starting", "launched", "loading", "settled", "checked"},
           step' = "idle" <=> step = "idle",
           Fresh' => Fresh, AtWork' => AtWork /\ proxy' = proxy
    PROVE  PageInv'
<1>1. /\ blocked' = blocked /\ refusals' = refusals /\ conns' = conns
      /\ page' = page /\ results' = results /\ before' = before
  BY DEF threads
<1>2. TypeOK'
  BY <1>1 DEF PageInv, TypeOK, Held
<1>3. ThreadInv'
  <2>1. ASSUME NEW k \in Conns, conns[k] # NoConn PROVE ConnInv(conns[k])'
    <3>1. ConnInv(conns[k])
      BY <2>1 DEF PageInv, ThreadInv
    <3> QED
      BY <1>1, <3>1 DEF ConnInv
  <2> QED
    BY <1>1, <2>1 DEF PageInv, ThreadInv
<1>4. RefusalInv'
  BY <1>1 DEF PageInv, RefusalInv
<1>5. ResultInv'
  BY <1>1 DEF PageInv, ResultInv, RefusalsReported
<1> QED
  BY <1>2, <1>3, <1>4, <1>5 DEF PageInv, BrowserInv, Held

\* A capture ends; if it succeeded, with all that its list holds above the mark.
LEMMA EndCapture ==
    ASSUME PageInv, Held, UNCHANGED << threads, page, before >>, step # "idle",
           NEW how \in {"captured", "refused", "failed"}, NEW reported, EndWith(how, reported),
           \/ reported = {} /\ how # "captured"
           \/ reported = RefusedSince /\ AtWork
    PROVE  PageInv'
<1> DEFINE Result == [how : {"captured", "refused", "failed"}, reported : SUBSET (DOMAIN refusals)]
           new == [how |-> how, reported |-> reported]
           n == Len(results)
<1>1. /\ blocked' = blocked /\ refusals' = refusals /\ conns' = conns
      /\ page' = page /\ before' = before /\ step' = "idle"
      /\ results' = Append(results, new)
  BY DEF threads, EndWith
<1>2. n \in Nat /\ DOMAIN results = 1..n /\ n = page - 1 /\ page \in Nat /\ n + 1 = page
  BY Numbers, Ended
<1>3. ASSUME reported = RefusedSince, AtWork
      PROVE  /\ reported \subseteq DOMAIN refusals
             /\ \A i \in reported : refusals[i].during = page
             /\ \A i \in DOMAIN refusals :
                   refusals[i].page = page /\ refusals[i].during = page => i \in reported
  <2>1. reported = {blocked[proxy][j] : j \in (before + 1)..Len(blocked[proxy])}
    BY <1>3 DEF RefusedSince, Since
  <2>2. /\ proxy \in 1..Len(blocked)
        /\ \A j \in (before + 1)..Len(blocked[proxy]) : refusals[blocked[proxy][j]].during = page
        /\ \A i \in DOMAIN refusals :
              refusals[i].page = page /\ refusals[i].during = page =>
                  \E j \in (before + 1)..Len(blocked[proxy]) : blocked[proxy][j] = i
    BY <1>3 DEF PageInv, RefusalInv
  <2>3. ASSUME NEW j \in (before + 1)..Len(blocked[proxy])
        PROVE  blocked[proxy][j] \in DOMAIN refusals
    <3>1. before \in Nat /\ Len(blocked[proxy]) \in Nat
      BY <2>2, Numbers, Lists
    <3>2. j \in 1..Len(blocked[proxy])
      BY <3>1
    <3> QED
      BY <2>2, <3>2, Lists
  <2> QED
    BY <2>1, <2>2, <2>3
<1>4. new \in Result
  BY <1>3
<1>5. results \in Seq(Result)
  BY DEF PageInv, ResultInv
<1> HIDE DEF Result, n
<1>6. /\ results' \in Seq(Result) /\ Len(results') = n + 1
      /\ DOMAIN results' = 1..(n + 1)
      /\ \A p \in 1..n : results'[p] = results[p]
      /\ results'[n + 1] = new
  <2> HIDE DEF new
  <2>1. /\ results' \in Seq(Result) /\ Len(results') = n + 1
        /\ \A p \in 1..n : results'[p] = results[p]
        /\ results'[n + 1] = new
    BY <1>1, <1>4, <1>5, AppendProperties DEF n
  <2> QED
    BY <2>1, LenProperties
<1>7. TypeOK'
  <2>1. Len(results') = page'
    BY <1>1, <1>2, <1>6
  <2> QED
    BY <1>1, <2>1 DEF PageInv, TypeOK, Held
<1>8. ThreadInv'
  <2>1. ASSUME NEW k \in Conns, conns[k] # NoConn PROVE ConnInv(conns[k])'
    <3>1. ConnInv(conns[k])
      BY <2>1 DEF PageInv, ThreadInv
    <3> QED
      BY <1>1, <3>1 DEF ConnInv, Fresh, AtWork
  <2> QED
    BY <1>1, <2>1 DEF PageInv, ThreadInv
<1>9. RefusalInv'
  BY <1>1 DEF RefusalInv, Fresh, AtWork
<1>10. ResultInv'
  <2>1. ASSUME NEW p \in 1..(n + 1), results'[p].how = "captured"
        PROVE  /\ \A i \in results'[p].reported : refusals[i].during = p
               /\ \A i \in DOMAIN refusals :
                     refusals[i] = [page |-> p, during |-> p] => i \in results'[p].reported
    <3>1. CASE p \in 1..n
      BY <1>2, <1>6, <2>1, <3>1 DEF PageInv, ResultInv, RefusalsReported
    <3>2. CASE p = n + 1
      <4>1. results'[p].reported = reported /\ how = "captured" /\ p = page
        BY <1>2, <1>6, <2>1, <3>2
      <4>2. /\ \A i \in reported : refusals[i].during = page
            /\ \A i \in DOMAIN refusals :
                  refusals[i].page = page /\ refusals[i].during = page => i \in reported
        BY <1>3, <4>1
      <4> QED
        BY <4>1, <4>2
    <3> QED
      BY <1>2, <3>1, <3>2
  <2> QED
    BY <1>1, <1>6, <2>1 DEF ResultInv, RefusalsReported, Result
<1> QED
  BY <1>1, <1>7, <1>8, <1>9, <1>10 DEF PageInv, BrowserInv

\* The next page: no connection and no refusal can be its own yet.
LEMMA NextPage ==
    ASSUME PageInv, capture_url
    PROVE  PageInv'
<1> DEFINE Result == [how : {"captured", "refused", "failed"}, reported : SUBSET (DOMAIN refusals)]
           new == [how |-> "refused", reported |-> {}]
           n == Len(results)
           Refused(m) == [page : 1..m, during : 0..m]
<1>1. /\ blocked' = blocked /\ refusals' = refusals /\ conns' = conns
      /\ browser' = browser /\ proxy' = proxy /\ before' = before /\ troubles' = troubles
      /\ page' = page + 1 /\ navigationBlocked' = FALSE
      /\ step = "idle" /\ page < MaxCaptures
  BY DEF capture_url, threads
<1>2. /\ n \in Nat /\ DOMAIN results = 1..n /\ n = page
      /\ page \in Nat /\ MaxCaptures \in Nat /\ page + 1 \in 0..MaxCaptures
  <2>1. /\ n \in Nat /\ DOMAIN results = 1..n /\ n = page /\ page \in Nat /\ MaxCaptures \in Nat
    BY <1>1, Numbers, Ended
  <2> QED
    BY <1>1, <2>1
<1>3. \/ step' = "starting" /\ results' = results
      \/ step' = "idle" /\ results' = Append(results, new)
  BY DEF capture_url, EndWith
<1>4. refusals \in Seq(Refused(page + 1))
  <2>1. refusals \in Seq(Refused(page))
    BY DEF PageInv, TypeOK
  <2>2. 1..page \subseteq 1..(page + 1) /\ 0..page \subseteq 0..(page + 1)
    BY <1>2
  <2>3. Refused(page) \subseteq Refused(page + 1)
    BY <2>2
  <2> HIDE DEF Refused
  <2> QED
    BY <2>1, <2>3, SeqWidens
<1>5. results \in Seq(Result) /\ new \in Result
  BY DEF PageInv, ResultInv
<1>6. /\ Append(results, new) \in Seq(Result) /\ Len(Append(results, new)) = n + 1
      /\ DOMAIN Append(results, new) = 1..(n + 1)
      /\ \A p \in 1..n : Append(results, new)[p] = results[p]
      /\ Append(results, new)[n + 1] = new
  <2> HIDE DEF new, Result
  <2>1. /\ Append(results, new) \in Seq(Result) /\ Len(Append(results, new)) = n + 1
        /\ \A p \in 1..n : Append(results, new)[p] = results[p]
        /\ Append(results, new)[n + 1] = new
    BY <1>5, AppendProperties
  <2> QED
    BY <2>1, LenProperties
<1>7. /\ step' \in {"idle", "starting"}
      /\ Len(results') = IF step' = "idle" THEN page' ELSE page' - 1
  <2>1. page' - 1 = n
    BY <1>1, <1>2
  <2>2. page' = n + 1
    BY <1>1, <1>2
  <2> QED
    BY <1>3, <1>6, <2>1, <2>2
<1>8. TypeOK'
  <2>1. page' \in 0..MaxCaptures /\ refusals' \in Seq([page : 1..page', during : 0..page'])
    BY <1>1, <1>2, <1>4
  <2>2. step' \in {"idle", "starting", "launched", "loading", "settled", "checked"}
    BY <1>7
  <2> HIDE DEF n, new
  <2> QED
    BY <1>1, <1>7, <2>1, <2>2 DEF PageInv, TypeOK
<1>9. ~ AtWork'
  BY <1>7 DEF AtWork
<1>10. ThreadInv'
  <2>1. ASSUME NEW k \in Conns, conns[k] # NoConn PROVE ConnInv(conns[k])'
    <3>1. ConnInv(conns[k])
      BY <2>1 DEF PageInv, ThreadInv
    <3>2. conns[k].page \in 1..page
      BY <3>1 DEF ConnInv
    <3>3. conns[k].page \in 1..(page + 1) /\ conns[k].page # page + 1
      BY <1>2, <3>2
    <3> QED
      BY <1>1, <1>9, <3>1, <3>3 DEF ConnInv
  <2> QED
    BY <1>1, <2>1 DEF PageInv, ThreadInv
<1>11. RefusalInv'
  <2>1. ASSUME NEW i \in DOMAIN refusals PROVE refusals[i].page # page + 1
    <3>1. refusals[i] \in Refused(page)
      BY Numbers, ElementOfSeq DEF PageInv, TypeOK
    <3>2. refusals[i].page \in 1..page
      BY <3>1
    <3> QED
      BY <1>2, <3>2
  <2> QED
    BY <1>1, <1>9, <2>1 DEF RefusalInv
<1>12. ResultInv'
  <2>1. CASE results' = results
    BY <1>1, <2>1 DEF PageInv, ResultInv, RefusalsReported
  <2>2. CASE results' = Append(results, new)
    <3>1. new.how # "captured"
      OBVIOUS
    <3> HIDE DEF new, n
    <3>2. \A p \in 1..(n + 1) : results'[p].how = "captured" => p \in 1..n
      BY <1>2, <1>6, <2>2, <3>1
    <3>3. \A p \in 1..n : results'[p] = results[p]
      BY <1>6, <2>2
    <3> QED
      BY <1>1, <1>2, <1>6, <2>2, <3>2, <3>3 DEF PageInv, ResultInv, RefusalsReported
  <2> QED
    BY <1>3, <2>1, <2>2
<1> QED
  BY <1>7, <1>8, <1>10, <1>11, <1>12 DEF PageInv, BrowserInv

\* The mark is set: nothing is above it, and from here the page can connect.
LEMMA MarkPage ==
    ASSUME PageInv, _pinning_proxy
    PROVE  PageInv'
<1>1. /\ refusals' = refusals /\ conns' = conns /\ browser' = browser /\ page' = page
      /\ navigationBlocked' = navigationBlocked /\ results' = results /\ troubles' = troubles
      /\ step = "launched" /\ step' = "loading"
  BY DEF _pinning_proxy
<1>2. Fresh /\ ~ Fresh' /\ AtWork'
  BY <1>1 DEF Fresh, AtWork
<1> DEFINE n == Len(blocked)
<1>3. /\ n \in Nat /\ DOMAIN blocked = 1..n /\ blocked \in Seq(Seq(Nat))
      /\ << >> \in Seq(Nat) /\ Len(<< >>) = 0
  BY Numbers, EmptySeq DEF PageInv, ThreadInv
<1>4. /\ blocked' \in Seq(Seq(Nat)) /\ DOMAIN blocked' = 1..Len(blocked')
      /\ proxy' \in 1..Len(blocked')
      /\ n <= Len(blocked') /\ Len(blocked') \in Nat
      /\ \A g \in 1..n : blocked'[g] = blocked[g]
      /\ \A g \in 1..Len(blocked') : g \in 1..n \/ blocked'[g] = << >>
      /\ before' \in Nat
      /\ before' = Len(blocked'[proxy'])
  <2>1. CASE proxy = NoProxy
    <3>1. blocked' = Append(blocked, << >>) /\ proxy' = n + 1 /\ before' = 0
      BY <2>1 DEF _pinning_proxy
    <3>2. /\ blocked' \in Seq(Seq(Nat)) /\ Len(blocked') = n + 1
          /\ \A g \in 1..n : blocked'[g] = blocked[g]
          /\ blocked'[n + 1] = << >>
      BY <1>3, <3>1, AppendProperties
    <3>3. DOMAIN blocked' = 1..Len(blocked')
      BY <3>2, LenProperties
    <3> HIDE DEF n
    <3>4. n + 1 \in Nat /\ n <= n + 1 /\ n + 1 \in 1..(n + 1)
          /\ \A g \in 1..(n + 1) : g \in 1..n \/ g = n + 1
      BY <1>3
    <3> QED
      BY <1>3, <3>1, <3>2, <3>3, <3>4
  <2>2. CASE proxy # NoProxy
    <3>1. blocked' = blocked /\ proxy' = proxy /\ before' = Len(blocked[proxy])
      BY <2>2 DEF _pinning_proxy, MarkNow
    <3>2. proxy \in 1..n /\ Len(blocked[proxy]) \in Nat
      BY <2>2, Numbers, Lists
    <3> QED
      BY <1>3, <3>1, <3>2
  <2> QED
    BY <2>1, <2>2
<1> HIDE DEF n
<1>5. TypeOK'
  <2>1. \A g \in DOMAIN blocked' : blocked'[g] \in Seq(DOMAIN refusals')
    <3> SUFFICES ASSUME NEW g \in 1..Len(blocked') PROVE blocked'[g] \in Seq(DOMAIN refusals)
      BY <1>1, <1>4
    <3>1. CASE g \in 1..n
      BY <1>4, <3>1, Lists DEF n
    <3>2. CASE blocked'[g] = << >>
      BY <3>2, EmptySeq
    <3> QED
      BY <1>4, <3>1, <3>2
  <2>2. browser' # "none"
    BY <1>1 DEF PageInv, BrowserInv
  <2> QED
    BY <1>1, <1>4, <2>1, <2>2 DEF PageInv, TypeOK
<1>6. ThreadInv'
  <2>1. ASSUME NEW k \in Conns, conns[k] # NoConn PROVE ConnInv(conns[k])'
    <3>1. ConnInv(conns[k]) /\ conns[k].page # page
      BY <1>2, <2>1 DEF PageInv, ThreadInv, ConnInv
    <3>2. conns[k].proxy \in 1..Len(blocked')
      BY <1>3, <1>4, <3>1 DEF ConnInv, n
    <3> QED
      BY <1>1, <1>2, <3>1, <3>2 DEF ConnInv
  <2> QED
    BY <1>1, <1>4, <2>1 DEF ThreadInv
<1>7. RefusalInv'
  <2>1. \A i \in DOMAIN refusals : refusals[i].page # page
    BY <1>2 DEF PageInv, RefusalInv
  <2>2. (before' + 1)..Len(blocked'[proxy']) = {}
    BY <1>4
  <2>3. before' <= Len(blocked'[proxy'])
    BY <1>4
  <2> QED
    BY <1>1, <1>2, <1>4, <2>1, <2>2, <2>3 DEF RefusalInv
<1>8. ResultInv'
  BY <1>1 DEF PageInv, ResultInv, RefusalsReported
<1> QED
  BY <1>1, <1>5, <1>6, <1>7, <1>8 DEF PageInv, BrowserInv

LEMMA CapturerPage ==
    ASSUME PageInv, Capturer
    PROVE  PageInv'
<1>1. CASE capture_url
  BY <1>1, NextPage
<1>2. CASE _browser_instance
  <2>1. Held
    <3>1. UNCHANGED << navigationBlocked, troubles >> /\ browser' = "connected"
      BY <1>2 DEF _browser_instance
    <3>2. proxy' \in (1..Len(blocked)) \cup {NoProxy}
      BY <1>2 DEF _browser_instance, PageInv, TypeOK
    <3> QED
      BY <3>1, <3>2, Holds DEF Held
  <2> QED
    BY <1>2, <2>1, CapturerStep DEF _browser_instance, Fresh, AtWork
<1>3. CASE LaunchFails
  <2>1. Held
    BY <1>3, Holds DEF LaunchFails, ForgetThem, EndWith, Held
  <2> QED
    BY <1>3, <2>1, EndCapture DEF LaunchFails
<1>4. CASE _pinning_proxy
  BY <1>4, MarkPage
<1>5. CASE handle
  <2>1. /\ browser' = browser /\ proxy' = proxy /\ page' = page /\ step' = step
        /\ before' = before /\ navigationBlocked' = TRUE
        /\ browser = "connected" /\ step \in {"loading", "settled"}
        /\ UNCHANGED << threads, results, troubles >>
    BY <1>5 DEF handle, capturer
  <2>2. Held
    BY <2>1, Holds DEF Held
  <2> QED
    BY <2>1, <2>2, CapturerStep DEF Fresh, AtWork
<1>6. CASE GotoRaises
  <2>1. /\ step = "loading" /\ step' = "idle"
        /\ UNCHANGED << browser, proxy, page, before, threads, navigationBlocked, troubles >>
        /\ EndWith("refused", {}) \/ EndWith("failed", {})
    BY <1>6 DEF GotoRaises, EndWith
  <2>2. Held
    BY <2>1, Holds DEF Held
  <2> QED
    BY <2>1, <2>2, EndCapture
<1>7. CASE GotoReturns
  <2>1. Held
    BY <1>7, Holds DEF GotoReturns, Held
  <2> QED
    BY <1>7, <2>1, CapturerStep DEF GotoReturns, Fresh, AtWork
<1>8. CASE CheckFinal
  <2>1. /\ step = "settled"
        /\ UNCHANGED << browser, proxy, page, before, threads, navigationBlocked, troubles >>
        /\ \/ browser = "connected" /\ step' = "checked" /\ UNCHANGED results
           \/ EndWith("refused", {}) \/ EndWith("failed", {})
    BY <1>8 DEF CheckFinal
  <2>2. Held
    BY <2>1, Holds DEF Held, EndWith
  <2>3. CASE EndWith("refused", {}) \/ EndWith("failed", {})
    BY <2>1, <2>2, <2>3, EndCapture
  <2>4. CASE step' = "checked" /\ UNCHANGED results
    BY <2>1, <2>2, <2>4, CapturerStep DEF Fresh, AtWork
  <2> QED
    BY <2>1, <2>3, <2>4
<1>9. CASE MakeArtifacts
  <2>1. /\ step = "checked" /\ step' = "idle"
        /\ UNCHANGED << browser, proxy, page, before, threads, navigationBlocked, troubles >>
        /\ EndWith("captured", RefusedSince) \/ EndWith("failed", {})
    BY <1>9 DEF MakeArtifacts, EndWith
  <2>2. Held
    BY <2>1, Holds DEF Held
  <2>3. AtWork
    BY <2>1 DEF AtWork
  <2> QED
    BY <2>1, <2>2, <2>3, EndCapture
<1>10. CASE close
  <2>1. Held
    BY <1>10, Holds DEF close, ForgetThem, Held
  <2> QED
    BY <1>10, <2>1, CapturerStep DEF close, Fresh, AtWork
<1> QED
  BY <1>1, <1>2, <1>3, <1>4, <1>5, <1>6, <1>7, <1>8, <1>9, <1>10 DEF Capturer

LEMMA LosePage ==
    ASSUME PageInv, LoseBrowser
    PROVE  PageInv'
<1>1. Held
  BY Holds DEF LoseBrowser, Held, PageInv, TypeOK
<1>2. step \in {"idle", "starting", "launched", "loading", "settled", "checked"}
  BY DEF PageInv, TypeOK
<1> QED
  BY <1>1, <1>2, CapturerStep DEF LoseBrowser, Fresh, AtWork

-----------------------------------------------------------------------------
(* What follows. *)

\* The inductive invariant of a run's browser and its proxies.
THEOREM PageInvariant == Spec => []PageInv
<1>1. ASSUME PageInv, [Next]_vars PROVE PageInv'
  <2>1. CASE UNCHANGED vars
    <3>1. UNCHANGED << threads, capturer, results, navigationBlocked, troubles >>
      BY <2>1 DEF vars
    <3>2. /\ browser' = browser /\ proxy' = proxy /\ page' = page /\ step' = step
          /\ before' = before
      BY <3>1 DEF capturer
    <3>3. Held
      BY <1>1, <3>1, <3>2, Holds DEF Held, PageInv, BrowserInv
    <3>4. step \in {"idle", "starting", "launched", "loading", "settled", "checked"}
      BY <1>1 DEF PageInv, TypeOK
    <3> QED
      BY <1>1, <3>1, <3>2, <3>3, <3>4, CapturerStep DEF Fresh, AtWork
  <2>2. ASSUME NEW k \in Conns, PinningProxy(k) PROVE PageInv'
    BY <1>1, <2>2, AcceptPage, RefusePage, ResolvePage, DialPage, EndThreadPage
       DEF PinningProxy
  <2> QED
    BY <1>1, <2>1, <2>2, CapturerPage, LosePage DEF Next
<1> QED
  BY <1>1, InitPage, PTL DEF Spec

\* Every variable has its type, and the capturer holds no proxy without a browser.
THEOREM TypeCorrect == Spec => []TypeOK
<1>1. PageInv => TypeOK
  BY DEF PageInv
<1> QED
  BY <1>1, PageInvariant, PTL

\* Whatever a name resolves to from one lookup to the next, an open connection
\* goes to an address that was checked for it.
THEOREM DialsAreChecked == Spec => []DialledAsChecked
<1>1. PageInv => DialledAsChecked
  BY DEF PageInv, ThreadInv, ConnInv, DialledAsChecked
<1> QED
  BY <1>1, PageInvariant, PTL

\* What a captured page's meta says was blocked is complete and of its own time,
\* however many threads, browsers and proxies come and go.
THEOREM RefusalsAreReported == Spec => []RefusalsReported
<1>1. PageInv => RefusalsReported
  BY DEF PageInv, ResultInv
<1> QED
  BY <1>1, PageInvariant, PTL
=============================================================================
